----------------------------- MODULE AnalyzerDb -----------------------------
(***************************************************************************)
(* The derived caches of AnalyzerDb (crates/db/src/lib.rs): decl_index,    *)
(* global_index and cfg, filled by query threads while a writer edits or   *)
(* removes files.  Workspace::apply_edit and remove_file_from_index hold   *)
(* the generation guards, so edits follow one another: the VFS changes,    *)
(* then invalidate_file runs.  Queries do not take those guards.           *)
(*                                                                         *)
(* A declaration is named by its file, the version it was lowered from and *)
(* its place in the file; an index of a file is named by the version it    *)
(* was lowered from, and a CFG by the declaration it was built from.       *)
(***************************************************************************)
EXTENDS Naturals, FiniteSets

CONSTANTS
  FileCount,    \* files of the workspace, with ids 1..FileCount
  MaxVersion,   \* bound: versions of a file
  DeclCount,    \* DeclCount[f][v]: declarations in version v of file f
  Threads,      \* threads inside cfg or decl_index
  Consume,      \* should_consume_decl_index_cache_for_global
  MaxFunc,      \* bound: the FuncIds asked for are 1..MaxFunc
  None

Files == 1..FileCount
Versions == 0..MaxVersion

Funcs == 1..MaxFunc

Index == [Files -> Versions \cup {None}]
Decls == [file : Files, version : Versions, ordinal : Nat]
EmptyCfg == [file |-> 0, version |-> 0, ordinal |-> 0]
EmptyIndex == [f \in Files |-> None]

ASSUME DbAssumption ==
  /\ FileCount \in Nat \ {0} /\ MaxVersion \in Nat /\ MaxFunc \in Nat
  /\ DeclCount \in [Files -> [Versions -> Nat]]
  /\ Consume \in BOOLEAN
  /\ None \notin Versions \cup Files \cup Funcs \cup Threads \cup Decls \cup {EmptyCfg}

VARIABLES
  version,      \* version[f]: the VFS's version of f, None once removed
  pending,      \* the file that was written and not yet invalidated, or None
  declIndex,    \* declIndex[f][v]: what the entry under (f, v) holds, or None
  global,       \* global_index: the version of each file it holds, or None
  builder,      \* the thread that holds global_index_build, or None
  cfgs,         \* cfgs[i][v]: the CFG under (i, v), or None
  cfgVersion,   \* cfg_versions: i -> version, or None
  at,           \* at[t]: where thread t is
  func,         \* func[t]: the argument of cfg, None in decl_index
  index,        \* index[t]: the global index t holds or builds
  todo,         \* todo[t]: files still to be lowered
  file,         \* file[t]: the file being lowered
  key,          \* key[t]: file_version read for a cache key
  lowered       \* lowered[t]: version of the snapshot that was lowered, or None

vfsVars == <<version, pending>>
cacheVars == <<declIndex, global, cfgs, cfgVersion>>
threadVars == <<at, func, index, todo, file, key, lowered>>
vars == <<vfsVars, cacheVars, builder, threadVars>>

DbTypeOK ==
  /\ version \in Index
  /\ pending \in Files \cup {None}
  /\ declIndex \in [Files -> [Versions -> Versions \cup {None}]]
  /\ global \in Index \cup {None}
  /\ builder \in Threads \cup {None}
  /\ cfgs \in [Funcs -> [Versions -> Decls \cup {EmptyCfg, None}]]
  /\ cfgVersion \in [Funcs -> Versions \cup {None}]
  /\ at \in [Threads -> {"idle", "index", "lock", "build", "key", "lower", "insert", "version", "lookup", "store"}]
  /\ func \in [Threads -> Funcs \cup {None}]
  /\ index \in [Threads -> Index]
  /\ todo \in [Threads -> SUBSET Files]
  /\ file \in [Threads -> Files]
  /\ key \in [Threads -> Versions]
  /\ lowered \in [Threads -> Versions \cup {None}]

Init ==
  /\ version = [f \in Files |-> 0] /\ pending = None
  /\ declIndex = [f \in Files |-> [v \in Versions |-> None]]
  /\ global = None /\ builder = None
  /\ cfgs = [i \in Funcs |-> [v \in Versions |-> None]]
  /\ cfgVersion = [i \in Funcs |-> None]
  /\ at = [t \in Threads |-> "idle"]
  /\ func = [t \in Threads |-> None]
  /\ index = [t \in Threads |-> EmptyIndex]
  /\ todo = [t \in Threads |-> {}]
  /\ file = [t \in Threads |-> 1]
  /\ key = [t \in Threads |-> 0]
  /\ lowered = [t \in Threads |-> None]

-----------------------------------------------------------------------------
(* The global index: FuncIds are positions in the order of insertion. *)

Indexed(g) ==
  UNION {{[file |-> f, version |-> g[f], ordinal |-> n] : n \in 1..DeclCount[f][g[f]]} :
           f \in {h \in Files : g[h] # None}}

Before(d, e) == d.file < e.file \/ (d.file = e.file /\ d.ordinal <= e.ordinal)

FuncIdOf(g, d) == Cardinality({e \in Indexed(g) : Before(e, d)})

\* decl_for_func: the declaration with FuncId i, or EmptyCfg for an unknown id.
DeclOf(g, i) ==
  IF \E d \in Indexed(g) : FuncIdOf(g, d) = i
  THEN CHOOSE d \in Indexed(g) : FuncIdOf(g, d) = i
  ELSE EmptyCfg

-----------------------------------------------------------------------------
(* Edits. *)

WriteFile(f) ==
  /\ pending = None
  /\ version[f] # None /\ version[f] < MaxVersion
  /\ version' = [version EXCEPT ![f] = @ + 1]
  /\ pending' = f
  /\ UNCHANGED <<cacheVars, builder, threadVars>>

RemoveFile(f) ==
  /\ pending = None
  /\ version[f] # None
  /\ version' = [version EXCEPT ![f] = None]
  /\ pending' = f
  /\ UNCHANGED <<cacheVars, builder, threadVars>>

\* FuncIds of the edited file, known only while a global index is cached.
FuncsIn(f) == IF global = None THEN {} ELSE {FuncIdOf(global, d) : d \in {e \in Indexed(global) : e.file = f}}

\* Mutant: invalidation does not wait for a build in progress.
InvalidateAtOnce ==
  /\ pending # None
  /\ pending' = None
  /\ declIndex' = [declIndex EXCEPT ![pending] = [v \in Versions |-> None]]
  /\ cfgs' = [i \in Funcs |-> IF i \in FuncsIn(pending) THEN [v \in Versions |-> None] ELSE cfgs[i]]
  /\ cfgVersion' = [i \in Funcs |-> IF i \in FuncsIn(pending) THEN None ELSE cfgVersion[i]]
  /\ global' = None
  /\ UNCHANGED <<version, builder, threadVars>>

\* invalidate_file takes global_index_build, then the cache's write lock.
InvalidateFile ==
  /\ pending # None
  /\ builder = None
  /\ pending' = None
  /\ declIndex' = [declIndex EXCEPT ![pending] = [v \in Versions |-> None]]
  /\ cfgs' = [i \in Funcs |-> IF i \in FuncsIn(pending) THEN [v \in Versions |-> None] ELSE cfgs[i]]
  /\ cfgVersion' = [i \in Funcs |-> IF i \in FuncsIn(pending) THEN None ELSE cfgVersion[i]]
  /\ global' = None
  /\ UNCHANGED <<version, builder, threadVars>>

ReleaseGlobalIndex ==
  /\ global # None
  /\ global' = None
  /\ UNCHANGED <<vfsVars, declIndex, cfgs, cfgVersion, builder, threadVars>>

-----------------------------------------------------------------------------
(* Queries. *)

Goto(t, place) == at' = [at EXCEPT ![t] = place]

CallCfg(t, i) ==
  /\ at[t] = "idle"
  /\ func' = [func EXCEPT ![t] = i]
  /\ Goto(t, "index")
  /\ UNCHANGED <<vfsVars, cacheVars, builder, index, todo, file, key, lowered>>

\* decl_index called directly, outside any build of the global index.
CallDeclIndex(t, f) ==
  /\ at[t] = "idle"
  /\ func' = [func EXCEPT ![t] = None]
  /\ file' = [file EXCEPT ![t] = f]
  /\ Goto(t, "key")
  /\ UNCHANGED <<vfsVars, cacheVars, builder, index, todo, key, lowered>>

\* global_index, before the single-flight lock.
FindIndex(t) ==
  /\ at[t] = "index"
  /\ \/ global # None /\ index' = [index EXCEPT ![t] = global] /\ Goto(t, "version")
     \/ global = None /\ Goto(t, "lock") /\ UNCHANGED index
  /\ UNCHANGED <<vfsVars, cacheVars, builder, func, todo, file, key, lowered>>

\* The lock is taken and the cache read again; a builder lists all_files.
LockBuild(t) ==
  /\ at[t] = "lock"
  /\ builder = None
  /\ \/ /\ global # None
        /\ index' = [index EXCEPT ![t] = global]
        /\ Goto(t, "version")
        /\ UNCHANGED <<builder, todo>>
     \/ /\ global = None
        /\ builder' = t
        /\ index' = [index EXCEPT ![t] = EmptyIndex]
        /\ todo' = [todo EXCEPT ![t] = {f \in Files : version[f] # None}]
        /\ Goto(t, "build")
  /\ UNCHANGED <<vfsVars, cacheVars, func, file, key, lowered>>

\* Files are lowered by workers in any order and published by FileId.
PickFile(t, f) ==
  /\ at[t] = "build"
  /\ f \in todo[t]
  /\ todo' = [todo EXCEPT ![t] = @ \ {f}]
  /\ file' = [file EXCEPT ![t] = f]
  /\ Goto(t, "key")
  /\ UNCHANGED <<vfsVars, cacheVars, builder, func, index, key, lowered>>

Building(t) == builder = t

\* An index of version v is ready: the builder inserts it, decl_index returns.
FileDone(t, v) ==
  /\ index' = [index EXCEPT ![t] = IF Building(t) THEN [@ EXCEPT ![file[t]] = v] ELSE EmptyIndex]
  /\ lowered' = [lowered EXCEPT ![t] = None]
  /\ key' = [key EXCEPT ![t] = 0]
  /\ file' = [file EXCEPT ![t] = 1]
  /\ Goto(t, IF Building(t) THEN "build" ELSE "idle")

\* The version for the key, then the cache under it: decl_index clones the
\* entry, take_decl_index_for_global removes it.
ReadKey(t) ==
  LET f == file[t]  v == version[f]  taken == Consume /\ Building(t) IN
  /\ at[t] = "key"
  /\ \/ v = None /\ FileDone(t, None) /\ UNCHANGED declIndex
     \/ /\ v # None /\ declIndex[f][v] # None
        /\ FileDone(t, declIndex[f][v])
        /\ declIndex' = IF taken THEN [declIndex EXCEPT ![f][v] = None] ELSE declIndex
     \/ /\ v # None /\ declIndex[f][v] = None
        /\ key' = [key EXCEPT ![t] = v]
        /\ Goto(t, "lower")
        /\ UNCHANGED <<declIndex, index, file, lowered>>
  /\ UNCHANGED <<vfsVars, global, cfgs, cfgVersion, builder, func, todo>>

\* The adapter walks the snapshot that is current now.
Lower(t) ==
  LET v == version[file[t]] IN
  /\ at[t] = "lower"
  /\ \/ (v = None \/ (Consume /\ Building(t))) /\ FileDone(t, v)
     \/ /\ v # None /\ ~(Consume /\ Building(t))
        /\ lowered' = [lowered EXCEPT ![t] = v]
        /\ Goto(t, "insert")
        /\ UNCHANGED <<index, file, key>>
  /\ UNCHANGED <<vfsVars, cacheVars, builder, func, todo>>

\* Mutant: the entry goes under the version that is current at insertion.
InsertUnderCurrent(t) ==
  LET f == file[t] IN
  /\ at[t] = "insert"
  /\ declIndex' = IF version[f] = None THEN declIndex ELSE [declIndex EXCEPT ![f][version[f]] = lowered[t]]
  /\ FileDone(t, lowered[t])
  /\ UNCHANGED <<vfsVars, global, cfgs, cfgVersion, builder, func, todo>>

\* entry(key).or_insert_with
InsertDeclIndex(t) ==
  LET f == file[t]  held == declIndex[f][key[t]]
      stored == IF held = None THEN lowered[t] ELSE held IN
  /\ at[t] = "insert"
  /\ declIndex' = [declIndex EXCEPT ![f][key[t]] = stored]
  /\ FileDone(t, stored)
  /\ UNCHANGED <<vfsVars, global, cfgs, cfgVersion, builder, func, todo>>

InstallIndex(t) ==
  /\ at[t] = "build" /\ todo[t] = {}
  /\ global' = index[t]
  /\ builder' = None
  /\ Goto(t, "version")
  /\ UNCHANGED <<vfsVars, declIndex, cfgs, cfgVersion, func, index, todo, file, key, lowered>>

\* The declaration cfg works on, from the index it was given.
Target(t) == DeclOf(index[t], func[t])

\* file_version of the declaring file; 0 without a declaration or a file.
ReadVersion(t) ==
  LET d == Target(t)
      v == IF d = EmptyCfg THEN None ELSE version[d.file] IN
  /\ at[t] = "version"
  /\ key' = [key EXCEPT ![t] = IF v = None THEN 0 ELSE v]
  /\ Goto(t, "lookup")
  /\ UNCHANGED <<vfsVars, cacheVars, builder, func, index, todo, file, lowered>>

Return(t) ==
  /\ Goto(t, "idle")
  /\ func' = [func EXCEPT ![t] = None]
  /\ index' = [index EXCEPT ![t] = EmptyIndex]
  /\ key' = [key EXCEPT ![t] = 0]
  /\ UNCHANGED <<todo, file, lowered>>

\* A version newer than t's is recorded for t's function.
Late(t) == cfgVersion[func[t]] # None /\ cfgVersion[func[t]] > key[t]

\* The CFG that cfg returns: the entry under its key, or the entry of a newer
\* recorded version, or else the CFG it builds from its declaration.
Answer(t) ==
  LET i == func[t]
      v == IF at[t] = "store" /\ Late(t) THEN cfgVersion[i] ELSE key[t]
  IN IF cfgs[i][v] # None THEN cfgs[i][v] ELSE Target(t)

LookupCfg(t) ==
  LET cached == cfgs[func[t]][key[t]] # None IN
  /\ at[t] = "lookup"
  /\ \/ cached /\ Return(t)
     \/ ~cached /\ Goto(t, "store") /\ UNCHANGED <<func, index, todo, file, key, lowered>>
  /\ UNCHANGED <<vfsVars, cacheVars, builder>>

\* Mutant: the entry of the older version is not evicted.
StoreCfgWithoutEviction(t) ==
  LET i == func[t]  v == key[t] IN
  /\ at[t] = "store"
  /\ cfgVersion' = [cfgVersion EXCEPT ![i] = v]
  /\ cfgs' = [cfgs EXCEPT ![i][v] = IF @ = None THEN Target(t) ELSE @]
  /\ Return(t)
  /\ UNCHANGED <<vfsVars, declIndex, global, builder>>

\* Monotonic eviction: a late thread stores nothing, an older entry is evicted.
StoreCfg(t) ==
  LET i == func[t]  v == key[t] IN
  /\ at[t] = "store"
  /\ \/ Late(t) /\ UNCHANGED <<cfgs, cfgVersion>>
     \/ /\ ~Late(t)
        /\ cfgs' = [cfgs EXCEPT ![i] = [w \in Versions |->
                      IF w = v THEN Answer(t) ELSE IF w = cfgVersion[i] THEN None ELSE @[w]]]
        /\ cfgVersion' = [cfgVersion EXCEPT ![i] = v]
  /\ Return(t)
  /\ UNCHANGED <<vfsVars, declIndex, global, builder>>

-----------------------------------------------------------------------------
\* The steps of a call under way.
Progress(t) ==
  \/ FindIndex(t) \/ LockBuild(t) \/ (\E f \in Files : PickFile(t, f))
  \/ ReadKey(t) \/ Lower(t) \/ InsertDeclIndex(t) \/ InstallIndex(t)
  \/ ReadVersion(t) \/ LookupCfg(t) \/ StoreCfg(t)

Next ==
  \/ InvalidateFile
  \/ ReleaseGlobalIndex
  \/ \E f \in Files : WriteFile(f) \/ RemoveFile(f)
  \/ \E t \in Threads :
       \/ Progress(t)
       \/ \E i \in Funcs : CallCfg(t, i)
       \/ \E f \in Files : CallDeclIndex(t, f)

Spec == Init /\ [][Next]_vars

-----------------------------------------------------------------------------
(* Properties. *)

\* The entry that decl_index finds under a file's current version was lowered
\* from that version, although the key is read before the source and the
\* insertion may follow an edit and its invalidation.
DeclIndexCurrent ==
  \A f \in Files : version[f] # None =>
    declIndex[f][version[f]] \in {None, version[f]}

\* Outside an edit a cached global index holds every live file at its current
\* version and no removed one: no build that overlapped an edit survives its
\* invalidation.
GlobalIndexCurrent ==
  pending = None /\ global # None => global = version

\* cfg_versions and cfgs agree: one CFG is retained per function, at the
\* recorded version, whatever order threads with different versions store in.
OneCfgPerFunc ==
  \A i \in Funcs, v \in Versions : cfgs[i][v] # None <=> cfgVersion[i] = v

\* "caller sees a version-correct CFG either way because the cache is keyed on
\* `(func, version)`" (cfg): a call that resolved its FuncId to a declaration
\* of the current source returns the CFG of that declaration.
CfgIsOfFunction ==
  \A t \in Threads :
    /\ at[t] = "store" \/ (at[t] = "lookup" /\ cfgs[func[t]][key[t]] # None)
    /\ Target(t) # EmptyCfg
    /\ version[Target(t).file] = Target(t).version
    => Answer(t) = Target(t)
=============================================================================
