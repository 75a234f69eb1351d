-------------------------- MODULE AnalyzerDbProofs --------------------------
(* The derived caches of AnalyzerDb keep their promises for any files,     *)
(* versions, declarations and threads.                                     *)
EXTENDS AnalyzerDb, TLAPS

\* Places of a thread inside decl_index, called directly or by a builder.
InDeclIndex == {"key", "lower", "insert"}

\* global_index_build is a mutex: its holder is building, a builder holds it.
BuilderHoldsLock ==
  /\ builder # None => at[builder] \in {"build"} \cup InDeclIndex
  /\ \A t \in Threads : at[t] = "build" => builder = t

\* cfg knows its function, while it builds the index too.
CfgHasFunc ==
  \A t \in Threads :
    builder = t \/ at[t] \in {"index", "lock", "version", "lookup", "store"} => func[t] # None

\* The source is read after the key and versions only grow: an entry was lowered
\* from the version of its key or a later one, never from one the VFS has not
\* reached yet.
EntriesNotOlder ==
  \A f \in Files, v \in Versions : declIndex[f][v] # None =>
    /\ v <= declIndex[f][v]
    /\ version[f] # None => declIndex[f][v] <= version[f]

\* The same for an entry that a thread is about to make.
LoweringNotOlder ==
  \A t \in Threads :
    /\ at[t] = "lower" /\ version[file[t]] # None => key[t] <= version[file[t]]
    /\ at[t] = "insert" =>
         /\ lowered[t] # None /\ key[t] <= lowered[t]
         /\ version[file[t]] # None => lowered[t] <= version[file[t]]

\* While no edit waits for its invalidation, a builder's index holds every file
\* it is done with at its current version, and it lowers current sources.
BuildCurrent ==
  pending = None /\ builder # None =>
    /\ \A f \in Files :
         \/ index[builder][f] = version[f]
         \/ f \in todo[builder]
         \/ at[builder] \in InDeclIndex /\ file[builder] = f
    /\ at[builder] \in {"lower", "insert"} => key[builder] = version[file[builder]]
    /\ at[builder] = "insert" => lowered[builder] = version[file[builder]]

\* The inductive invariant of the caches.
DbInv ==
  /\ DbTypeOK
  /\ BuilderHoldsLock
  /\ CfgHasFunc
  /\ EntriesNotOlder
  /\ LoweringNotOlder
  /\ BuildCurrent
  /\ GlobalIndexCurrent
  /\ OneCfgPerFunc

-----------------------------------------------------------------------------
\* decl_for_func resolves an id to a declaration of the index, or to none.
LEMMA DeclOfType ==
  ASSUME NEW g \in Index, NEW i
  PROVE  DeclOf(g, i) \in Decls \cup {EmptyCfg}
<1>1. Indexed(g) \subseteq Decls
  <2>1. ASSUME NEW f \in Files, g[f] # None, NEW n \in 1..DeclCount[f][g[f]]
        PROVE  [file |-> f, version |-> g[f], ordinal |-> n] \in Decls
    <3>1. g[f] \in Versions
      BY <2>1 DEF Index
    <3>2. DeclCount[f][g[f]] \in Nat
      BY <3>1, DbAssumption
    <3>3. n \in Nat
      BY <3>2
    <3>4. QED
      BY <3>1, <3>3 DEF Decls
  <2>2. QED
    BY <2>1 DEF Indexed
<1>2. CASE \E d \in Indexed(g) : FuncIdOf(g, d) = i
  <2>1. (CHOOSE d \in Indexed(g) : FuncIdOf(g, d) = i) \in Indexed(g)
    BY <1>2
  <2>2. QED
    BY <1>1, <1>2, <2>1 DEF DeclOf
<1>3. CASE ~\E d \in Indexed(g) : FuncIdOf(g, d) = i
  BY <1>3 DEF DeclOf
<1>4. QED
  BY <1>2, <1>3

\* What cfg returns is a CFG.
LEMMA AnswerType ==
  ASSUME DbInv, NEW t \in Threads, func[t] \in Funcs
  PROVE  /\ Answer(t) \in Decls \cup {EmptyCfg}
         /\ Answer(t) # None
<1>1. Target(t) \in Decls \cup {EmptyCfg}
  BY DeclOfType DEF Target, DbInv, DbTypeOK
<1>2. Late(t) => cfgVersion[func[t]] \in Versions
  BY DEF Late, DbInv, DbTypeOK
<1>3. \A v \in Versions : cfgs[func[t]][v] # None => cfgs[func[t]][v] \in Decls \cup {EmptyCfg}
  BY DEF DbInv, DbTypeOK
<1>4. key[t] \in Versions
  BY DEF DbInv, DbTypeOK
<1>5. Answer(t) \in Decls \cup {EmptyCfg}
  BY <1>1, <1>2, <1>3, <1>4 DEF Answer
<1>6. QED
  BY <1>5, DbAssumption

\* The versions compared are numbers and the places of a thread are distinct.
LEMMA DbFacts ==
  /\ Versions \subseteq Nat /\ 0 \in Versions /\ 1 \in Files
  /\ None \notin Versions /\ None \notin Files /\ None \notin Funcs /\ None \notin Threads
BY DbAssumption DEF Versions, Files

\* An index of version v is ready and v is current unless an edit is pending:
\* whoever finishes a file, builder or not, leaves the caches as promised.
LEMMA FileDoneKeeps ==
  ASSUME DbInv, NEW t \in Threads, NEW v \in Versions \cup {None}, at[t] \in InDeclIndex,
         FileDone(t, v),
         UNCHANGED <<version, pending, global, cfgs, cfgVersion, builder, func, todo>>,
         declIndex' \in [Files -> [Versions -> Versions \cup {None}]],
         EntriesNotOlder',
         pending = None /\ builder = t => v = version[file[t]]
  PROVE  DbInv'
<1> DEFINE newIndex == IF builder = t THEN [index[t] EXCEPT ![file[t]] = v] ELSE EmptyIndex
           newPlace == IF builder = t THEN "build" ELSE "idle"
<1>1. /\ index' = [index EXCEPT ![t] = newIndex]
      /\ lowered' = [lowered EXCEPT ![t] = None]
      /\ key' = [key EXCEPT ![t] = 0]
      /\ file' = [file EXCEPT ![t] = 1]
      /\ at' = [at EXCEPT ![t] = newPlace]
  BY DEF FileDone, Building, Goto, DbInv, DbTypeOK
<1>2. newIndex \in Index
  BY DEF Index, EmptyIndex, DbInv, DbTypeOK
<1>3. DbTypeOK'
  BY <1>1, <1>2, DbFacts DEF DbInv, DbTypeOK
<1>4. builder = t => \A f \in Files : newIndex[f] = IF f = file[t] THEN v ELSE index[t][f]
  BY DEF DbInv, DbTypeOK, Index
<1> HIDE DEF newIndex
<1>5. BuilderHoldsLock'
  BY <1>1 DEF DbInv, DbTypeOK, BuilderHoldsLock, InDeclIndex
<1>6. CfgHasFunc'
  BY <1>1 DEF DbInv, DbTypeOK, CfgHasFunc
<1>7. LoweringNotOlder'
  BY <1>1 DEF DbInv, DbTypeOK, LoweringNotOlder
<1>8. BuildCurrent'
  <2>1. CASE builder = t
    <3>1. at'[t] = "build" /\ index'[t] = newIndex /\ builder' = t
      BY <2>1, <1>1 DEF DbInv, DbTypeOK
    <3>2. ASSUME pending = None, NEW f \in Files
          PROVE  newIndex[f] = version[f] \/ f \in todo[t]
      <4>1. CASE f = file[t]
        BY <2>1, <3>2, <4>1, <1>4
      <4>2. CASE f # file[t]
        <5>1. newIndex[f] = index[t][f]
          BY <2>1, <4>2, <1>4
        <5>2. BuildCurrent /\ builder # None
          BY <2>1, DbFacts DEF DbInv
        <5>3. index[t][f] = version[f] \/ f \in todo[t]
          BY <2>1, <3>2, <4>2, <5>2 DEF BuildCurrent
        <5>4. QED
          BY <5>1, <5>3
      <4>3. QED
        BY <4>1, <4>2
    <3>3. QED
      BY <3>1, <3>2 DEF BuildCurrent, InDeclIndex
  <2>2. CASE builder # t
    <3>1. builder # None => /\ at'[builder] = at[builder] /\ index'[builder] = index[builder]
                            /\ key'[builder] = key[builder] /\ file'[builder] = file[builder]
                            /\ lowered'[builder] = lowered[builder]
      BY <2>2, <1>1 DEF DbInv, DbTypeOK
    <3>2. QED
      BY <3>1 DEF DbInv, BuildCurrent
  <2>3. QED
    BY <2>1, <2>2
<1>9. GlobalIndexCurrent' /\ OneCfgPerFunc'
  BY DEF DbInv, GlobalIndexCurrent, OneCfgPerFunc
<1>10. QED
  BY <1>3, <1>5, <1>6, <1>7, <1>8, <1>9 DEF DbInv

-----------------------------------------------------------------------------
\* A write or a removal opens a pending edit: caches may lag until it is
\* invalidated, but nothing lowered so far is newer than the VFS.
LEMMA EditKeeps ==
  ASSUME DbInv, NEW f \in Files, WriteFile(f) \/ RemoveFile(f)
  PROVE  DbInv'
<1> USE DEF vfsVars, cacheVars, threadVars
<1>1. /\ UNCHANGED <<cacheVars, builder, threadVars>> /\ pending' # None /\ pending' \in Files
      /\ version' \in Index
      /\ \A h \in Files : version'[h] # None => version[h] \in Nat /\ version'[h] \in Nat
                                                /\ version[h] <= version'[h]
  <2>1. CASE WriteFile(f)
    <3>1. version[f] \in Versions /\ version[f] + 1 \in Versions
      BY <2>1, DbAssumption DEF WriteFile, Versions, DbInv, DbTypeOK, Index
    <3>2. version' \in Index
      BY <2>1, <3>1 DEF WriteFile, DbInv, DbTypeOK, Index
    <3>3. \A h \in Files : version'[h] = IF h = f THEN version[f] + 1 ELSE version[h]
      BY <2>1 DEF WriteFile, DbInv, DbTypeOK, Index
    <3>4. QED
      BY <2>1, <3>1, <3>2, <3>3, DbFacts DEF WriteFile, DbInv, DbTypeOK, Index
  <2>2. CASE RemoveFile(f)
    BY <2>2, DbFacts DEF RemoveFile, DbInv, DbTypeOK, Index
  <2>3. QED
    BY <2>1, <2>2
<1>2. \A h \in Files : version'[h] # None => version[h] # None
  BY <1>1, DbFacts DEF WriteFile, RemoveFile, DbInv, DbTypeOK, Index
<1>3. DbTypeOK'
  BY <1>1 DEF DbInv, DbTypeOK
<1>4. BuilderHoldsLock' /\ CfgHasFunc'
  BY <1>1 DEF DbInv, BuilderHoldsLock, CfgHasFunc
<1>5. EntriesNotOlder'
  <2> SUFFICES ASSUME NEW h \in Files, NEW v \in Versions, declIndex[h][v] # None
               PROVE  v <= declIndex[h][v] /\ (version'[h] # None => declIndex[h][v] <= version'[h])
    BY <1>1 DEF EntriesNotOlder
  <2>1. declIndex[h][v] \in Nat
    <3>1. declIndex \in [Files -> [Versions -> Versions \cup {None}]]
      BY DEF DbInv, DbTypeOK
    <3>2. declIndex[h][v] \in Versions
      BY <3>1
    <3>3. QED
      BY <3>2, DbFacts
  <2>2. v <= declIndex[h][v] /\ (version[h] # None => declIndex[h][v] <= version[h])
    BY DEF DbInv, EntriesNotOlder
  <2>3. QED
    BY <1>1, <1>2, <2>1, <2>2
<1>6. LoweringNotOlder'
  <2> SUFFICES ASSUME NEW u \in Threads
               PROVE  /\ at[u] = "lower" /\ version'[file[u]] # None => key[u] <= version'[file[u]]
                      /\ at[u] = "insert" =>
                           /\ lowered[u] # None /\ key[u] <= lowered[u]
                           /\ version'[file[u]] # None => lowered[u] <= version'[file[u]]
    BY <1>1 DEF LoweringNotOlder
  <2>1. key[u] \in Nat /\ file[u] \in Files /\ (lowered[u] # None => lowered[u] \in Nat)
    BY DbFacts DEF DbInv, DbTypeOK
  <2>2. /\ at[u] = "lower" /\ version[file[u]] # None => key[u] <= version[file[u]]
        /\ at[u] = "insert" =>
             /\ lowered[u] # None /\ key[u] <= lowered[u]
             /\ version[file[u]] # None => lowered[u] <= version[file[u]]
    BY DEF DbInv, LoweringNotOlder
  <2>3. QED
    BY <1>1, <1>2, <2>1, <2>2
<1>7. BuildCurrent' /\ GlobalIndexCurrent' /\ OneCfgPerFunc'
  BY <1>1 DEF DbInv, BuildCurrent, GlobalIndexCurrent, OneCfgPerFunc
<1>8. QED
  BY <1>3, <1>4, <1>5, <1>6, <1>7 DEF DbInv

\* Invalidation waits for a build in progress, so no index that overlapped the
\* edit is installed after it.
LEMMA InvalidateFileKeeps ==
  ASSUME DbInv, InvalidateFile
  PROVE  DbInv'
<1> USE DEF vfsVars, threadVars
<1> DEFINE Dropped == FuncsIn(pending)
<1>1. /\ pending' = None /\ builder = None /\ global' = None /\ pending \in Files
      /\ declIndex' = [declIndex EXCEPT ![pending] = [v \in Versions |-> None]]
      /\ cfgs' = [i \in Funcs |-> IF i \in Dropped THEN [v \in Versions |-> None] ELSE cfgs[i]]
      /\ cfgVersion' = [i \in Funcs |-> IF i \in Dropped THEN None ELSE cfgVersion[i]]
      /\ UNCHANGED <<version, builder, threadVars>>
  BY DEF InvalidateFile, DbInv, DbTypeOK
<1> HIDE DEF Dropped
<1>2. DbTypeOK'
  <2>1. cfgs' \in [Funcs -> [Versions -> Decls \cup {EmptyCfg, None}]]
    BY <1>1 DEF DbInv, DbTypeOK
  <2>2. cfgVersion' \in [Funcs -> Versions \cup {None}]
    BY <1>1 DEF DbInv, DbTypeOK
  <2>3. declIndex' \in [Files -> [Versions -> Versions \cup {None}]]
    BY <1>1 DEF DbInv, DbTypeOK
  <2>4. QED
    BY <1>1, <2>1, <2>2, <2>3 DEF DbInv, DbTypeOK
<1>3. BuilderHoldsLock' /\ CfgHasFunc' /\ LoweringNotOlder'
  BY <1>1 DEF DbInv, BuilderHoldsLock, CfgHasFunc, LoweringNotOlder
<1>4. EntriesNotOlder'
  BY <1>1 DEF DbInv, DbTypeOK, EntriesNotOlder
<1>5. BuildCurrent' /\ GlobalIndexCurrent'
  BY <1>1 DEF BuildCurrent, GlobalIndexCurrent
<1>6. OneCfgPerFunc'
  BY <1>1, DbFacts DEF DbInv, DbTypeOK, OneCfgPerFunc
<1>7. QED
  BY <1>2, <1>3, <1>4, <1>5, <1>6 DEF DbInv

\* Starting a query and finding or asking for the index touch no cache.
LEMMA EnterKeeps ==
  ASSUME DbInv, NEW t \in Threads,
         \/ \E i \in Funcs : CallCfg(t, i)
         \/ \E f \in Files : CallDeclIndex(t, f) \/ PickFile(t, f)
         \/ FindIndex(t)
  PROVE  DbInv'
<1> USE DEF vfsVars, cacheVars, threadVars, Goto
<1>1. ASSUME NEW i \in Funcs, CallCfg(t, i) PROVE DbInv'
  <2>1. builder # t
    BY <1>1, DbFacts DEF CallCfg, DbInv, BuilderHoldsLock, InDeclIndex, DbTypeOK
  <2>2. QED
    BY <1>1, <2>1, DbFacts
       DEF CallCfg, DbInv, DbTypeOK, BuilderHoldsLock, CfgHasFunc, EntriesNotOlder,
           LoweringNotOlder, BuildCurrent, GlobalIndexCurrent, OneCfgPerFunc
<1>2. ASSUME NEW f \in Files, CallDeclIndex(t, f) PROVE DbInv'
  <2>1. builder # t
    BY <1>2, DbFacts DEF CallDeclIndex, DbInv, BuilderHoldsLock, InDeclIndex, DbTypeOK
  <2>2. DbTypeOK'
    BY <1>2 DEF CallDeclIndex, DbInv, DbTypeOK
  <2>3. BuilderHoldsLock' /\ CfgHasFunc' /\ EntriesNotOlder' /\ LoweringNotOlder'
    BY <1>2, <2>1 DEF CallDeclIndex, DbInv, DbTypeOK, BuilderHoldsLock, CfgHasFunc,
         EntriesNotOlder, LoweringNotOlder
  <2>4. BuildCurrent' /\ GlobalIndexCurrent' /\ OneCfgPerFunc'
    BY <1>2, <2>1 DEF CallDeclIndex, DbInv, DbTypeOK, BuildCurrent, GlobalIndexCurrent,
         OneCfgPerFunc
  <2>5. QED
    BY <2>2, <2>3, <2>4 DEF DbInv
<1>3. ASSUME NEW f \in Files, PickFile(t, f) PROVE DbInv'
  <2>1. builder = t /\ DbTypeOK'
    <3>1. todo[t] \ {f} \in SUBSET Files
      BY DEF DbInv, DbTypeOK
    <3>2. QED
      BY <1>3, <3>1 DEF PickFile, DbInv, BuilderHoldsLock, DbTypeOK
  <2>2. BuilderHoldsLock' /\ CfgHasFunc' /\ EntriesNotOlder' /\ LoweringNotOlder'
    BY <1>3, <2>1 DEF PickFile, DbInv, DbTypeOK, BuilderHoldsLock, CfgHasFunc, EntriesNotOlder,
         LoweringNotOlder, InDeclIndex
  <2>3. BuildCurrent'
    BY <1>3, <2>1 DEF PickFile, DbInv, DbTypeOK, BuildCurrent, InDeclIndex
  <2>4. GlobalIndexCurrent' /\ OneCfgPerFunc'
    BY <1>3 DEF PickFile, DbInv, GlobalIndexCurrent, OneCfgPerFunc
  <2>5. QED
    BY <2>1, <2>2, <2>3, <2>4 DEF DbInv
<1>4. CASE FindIndex(t)
  <2>1. builder # t /\ DbTypeOK'
    <3>1. builder # t
      BY <1>4, DbFacts DEF FindIndex, DbInv, BuilderHoldsLock, InDeclIndex, DbTypeOK
    <3>2. global # None => global \in Index
      BY DEF DbInv, DbTypeOK
    <3>3. index' \in [Threads -> Index]
      BY <1>4, <3>2 DEF FindIndex, DbInv, DbTypeOK
    <3>4. QED
      BY <1>4, <3>1, <3>3 DEF FindIndex, DbInv, DbTypeOK
  <2>2. BuilderHoldsLock' /\ CfgHasFunc' /\ EntriesNotOlder' /\ LoweringNotOlder'
    BY <1>4, <2>1 DEF FindIndex, DbInv, DbTypeOK, BuilderHoldsLock, CfgHasFunc, EntriesNotOlder,
         LoweringNotOlder, InDeclIndex
  <2>3. BuildCurrent'
    BY <1>4, <2>1 DEF FindIndex, DbInv, DbTypeOK, BuildCurrent, InDeclIndex
  <2>4. GlobalIndexCurrent' /\ OneCfgPerFunc'
    BY <1>4 DEF FindIndex, DbInv, GlobalIndexCurrent, OneCfgPerFunc
  <2>5. QED
    BY <2>1, <2>2, <2>3, <2>4 DEF DbInv
<1>5. QED
  BY <1>1, <1>2, <1>3, <1>4

\* The lock is free, so its taker is the only builder, and starts from the files
\* that are live now.
LEMMA LockBuildKeeps ==
  ASSUME DbInv, NEW t \in Threads, LockBuild(t)
  PROVE  DbInv'
<1> USE DEF vfsVars, cacheVars, threadVars, Goto
<1>1. EmptyIndex \in Index /\ \A f \in Files : EmptyIndex[f] = None
  BY DEF EmptyIndex, Index
<1>2. DbTypeOK'
  <2>1. global # None => global \in Index
    BY DEF DbInv, DbTypeOK
  <2>2. index' \in [Threads -> Index]
    BY <1>1, <2>1 DEF LockBuild, DbInv, DbTypeOK
  <2>3. {f \in Files : version[f] # None} \in SUBSET Files
    OBVIOUS
  <2>4. todo' \in [Threads -> SUBSET Files]
    BY <2>3 DEF LockBuild, DbInv, DbTypeOK
  <2>5. QED
    BY <2>2, <2>4 DEF LockBuild, DbInv, DbTypeOK
<1>3. BuilderHoldsLock' /\ CfgHasFunc' /\ EntriesNotOlder' /\ LoweringNotOlder'
  BY DbFacts DEF LockBuild, DbInv, DbTypeOK, BuilderHoldsLock, CfgHasFunc, EntriesNotOlder,
       LoweringNotOlder, InDeclIndex
<1>4. BuildCurrent'
  BY <1>1 DEF LockBuild, DbInv, DbTypeOK, BuildCurrent
<1>5. GlobalIndexCurrent' /\ OneCfgPerFunc'
  BY DEF LockBuild, DbInv, GlobalIndexCurrent, OneCfgPerFunc
<1>6. QED
  BY <1>2, <1>3, <1>4, <1>5 DEF DbInv

\* The entry under the current version is of the current version: it is not
\* older than its key and not newer than the VFS.
LEMMA CurrentEntry ==
  ASSUME DbInv, NEW f \in Files, version[f] # None, declIndex[f][version[f]] # None
  PROVE  declIndex[f][version[f]] = version[f]
<1>1. version[f] \in Versions
  BY DEF DbInv, DbTypeOK, Index
<1>2. declIndex[f][version[f]] \in Versions
  <2>1. declIndex \in [Files -> [Versions -> Versions \cup {None}]]
    BY DEF DbInv, DbTypeOK
  <2>2. QED
    BY <1>1, <2>1
<1>3. version[f] <= declIndex[f][version[f]] /\ declIndex[f][version[f]] <= version[f]
  BY <1>1 DEF DbInv, EntriesNotOlder
<1>4. version[f] \in Nat /\ declIndex[f][version[f]] \in Nat
  BY <1>1, <1>2, DbFacts
<1>5. QED
  BY <1>3, <1>4

\* The key is the version read now; a cached entry under it is current.
LEMMA ReadKeyKeeps ==
  ASSUME DbInv, NEW t \in Threads, ReadKey(t)
  PROVE  DbInv'
<1> DEFINE f == file[t]
           v == version[f]
<1>1. f \in Files /\ at[t] = "key" /\ v \in Versions \cup {None}
  BY DEF ReadKey, DbInv, DbTypeOK, Index
<1>2. declIndex \in [Files -> [Versions -> Versions \cup {None}]]
  BY DEF DbInv, DbTypeOK
<1>3. UNCHANGED <<version, pending, global, cfgs, cfgVersion, builder, func, todo>>
  BY DEF ReadKey, vfsVars
<1>4. CASE v = None /\ FileDone(t, None) /\ UNCHANGED declIndex
  <2>1. EntriesNotOlder'
    BY <1>3, <1>4 DEF DbInv, EntriesNotOlder
  <2>2. QED
    BY <1>1, <1>2, <1>3, <1>4, <2>1, FileDoneKeeps DEF InDeclIndex
<1>5. CASE /\ v # None /\ declIndex[f][v] # None
           /\ FileDone(t, declIndex[f][v])
           /\ declIndex' = IF Consume /\ Building(t)
                           THEN [declIndex EXCEPT ![f][v] = None] ELSE declIndex
  <2>1. v \in Versions
    BY <1>1, <1>5
  <2>2. /\ declIndex' \in [Files -> [Versions -> Versions \cup {None}]]
        /\ \A h \in Files, w \in Versions : declIndex'[h][w] \in {None, declIndex[h][w]}
    BY <1>1, <1>2, <1>5, <2>1
  <2>3. EntriesNotOlder'
    BY <1>3, <2>2 DEF DbInv, EntriesNotOlder
  <2>4. declIndex[f][v] = v
    BY <1>1, <1>5, CurrentEntry
  <2>5. QED
    BY <1>1, <1>3, <1>5, <2>2, <2>3, <2>4, FileDoneKeeps DEF InDeclIndex
<1>6. CASE /\ v # None
           /\ key' = [key EXCEPT ![t] = v]
           /\ Goto(t, "lower")
           /\ UNCHANGED <<declIndex, index, file, lowered>>
  <2>1. v \in Versions /\ v \in Nat
    BY <1>1, <1>6, DbFacts
  <2>2. DbTypeOK' /\ BuilderHoldsLock' /\ CfgHasFunc'
    BY <1>1, <1>3, <1>6, <2>1 DEF Goto, DbInv, DbTypeOK, BuilderHoldsLock, CfgHasFunc, InDeclIndex
  <2>3. EntriesNotOlder' /\ GlobalIndexCurrent' /\ OneCfgPerFunc'
    BY <1>3, <1>6 DEF DbInv, EntriesNotOlder, GlobalIndexCurrent, OneCfgPerFunc
  <2>4. LoweringNotOlder'
    BY <1>1, <1>3, <1>6, <2>1 DEF Goto, DbInv, DbTypeOK, LoweringNotOlder
  <2>5. BuildCurrent'
    BY <1>1, <1>3, <1>6, <2>1 DEF Goto, DbInv, DbTypeOK, BuildCurrent, InDeclIndex
  <2>6. QED
    BY <2>2, <2>3, <2>4, <2>5 DEF DbInv
<1>7. QED
  BY <1>4, <1>5, <1>6 DEF ReadKey

\* The snapshot lowered is the current one, hence not older than the key.
LEMMA LowerKeeps ==
  ASSUME DbInv, NEW t \in Threads, Lower(t)
  PROVE  DbInv'
<1> DEFINE f == file[t]
           v == version[f]
<1>1. f \in Files /\ at[t] = "lower" /\ v \in Versions \cup {None}
  BY DEF Lower, DbInv, DbTypeOK, Index
<1>2. UNCHANGED <<version, pending, declIndex, global, cfgs, cfgVersion, builder, func, todo>>
  BY DEF Lower, vfsVars, cacheVars
<1>3. EntriesNotOlder' /\ declIndex' \in [Files -> [Versions -> Versions \cup {None}]]
  BY <1>2 DEF DbInv, DbTypeOK, EntriesNotOlder
<1>4. CASE FileDone(t, v)
  BY <1>1, <1>2, <1>3, <1>4, FileDoneKeeps DEF InDeclIndex
<1>5. CASE /\ v # None
           /\ lowered' = [lowered EXCEPT ![t] = v]
           /\ Goto(t, "insert")
           /\ UNCHANGED <<index, file, key>>
  <2>1. v \in Versions /\ v \in Nat
    BY <1>1, <1>5, DbFacts
  <2>2. DbTypeOK' /\ BuilderHoldsLock' /\ CfgHasFunc'
    BY <1>1, <1>2, <1>5, <2>1 DEF Goto, DbInv, DbTypeOK, BuilderHoldsLock, CfgHasFunc, InDeclIndex
  <2>3. GlobalIndexCurrent' /\ OneCfgPerFunc'
    BY <1>2 DEF DbInv, GlobalIndexCurrent, OneCfgPerFunc
  <2>4. LoweringNotOlder'
    BY <1>1, <1>2, <1>5, <2>1 DEF Goto, DbInv, DbTypeOK, LoweringNotOlder
  <2>5. BuildCurrent'
    BY <1>1, <1>2, <1>5, <2>1 DEF Goto, DbInv, DbTypeOK, BuildCurrent, InDeclIndex
  <2>6. QED
    BY <1>3, <2>2, <2>3, <2>4, <2>5 DEF DbInv
<1>6. QED
  BY <1>4, <1>5 DEF Lower

\* A late insertion may fill a slot of an older version with a newer index, but
\* never the slot of the current version with an older one.
LEMMA InsertDeclIndexKeeps ==
  ASSUME DbInv, NEW t \in Threads, InsertDeclIndex(t)
  PROVE  DbInv'
<1> DEFINE f == file[t]
           held == declIndex[f][key[t]]
           stored == IF held = None THEN lowered[t] ELSE held
<1>1. f \in Files /\ at[t] = "insert" /\ key[t] \in Versions
  BY DEF InsertDeclIndex, DbInv, DbTypeOK
<1>2. declIndex \in [Files -> [Versions -> Versions \cup {None}]]
  BY DEF DbInv, DbTypeOK
<1>3. /\ lowered[t] \in Versions /\ key[t] <= lowered[t]
      /\ version[f] # None => lowered[t] <= version[f]
  BY <1>1 DEF DbInv, DbTypeOK, LoweringNotOlder
<1>4. /\ stored \in Versions /\ key[t] <= stored
      /\ version[f] # None => stored <= version[f]
  <2>1. held # None => /\ held \in Versions /\ key[t] <= held
                       /\ version[f] # None => held <= version[f]
    BY <1>1, <1>2 DEF DbInv, EntriesNotOlder
  <2>2. QED
    BY <1>3, <2>1
<1>5. /\ declIndex' = [declIndex EXCEPT ![f][key[t]] = stored]
      /\ FileDone(t, stored)
      /\ UNCHANGED <<version, pending, global, cfgs, cfgVersion, builder, func, todo>>
  BY DEF InsertDeclIndex, vfsVars
<1>6. pending = None /\ builder = t => stored = version[f]
  <2> SUFFICES ASSUME pending = None, builder = t PROVE stored = version[f]
    OBVIOUS
  <2>1. key[t] = version[f]
    BY <1>1, DbFacts DEF DbInv, BuildCurrent
  <2>2. version[f] # None
    BY <1>1, <2>1, DbFacts
  <2>3. stored \in Nat /\ key[t] \in Nat
    BY <1>1, <1>4, DbFacts
  <2>4. key[t] <= stored /\ stored <= version[f]
    BY <1>4, <2>2
  <2> HIDE DEF stored
  <2>5. QED
    BY <2>1, <2>3, <2>4
<1> HIDE DEF stored
<1>7. /\ declIndex' \in [Files -> [Versions -> Versions \cup {None}]]
      /\ \A h \in Files, w \in Versions :
           declIndex'[h][w] = IF h = f /\ w = key[t] THEN stored ELSE declIndex[h][w]
  BY <1>1, <1>2, <1>4, <1>5
<1>8. EntriesNotOlder'
  BY <1>1, <1>4, <1>5, <1>7 DEF DbInv, EntriesNotOlder
<1>9. QED
  BY <1>1, <1>4, <1>5, <1>6, <1>7, <1>8, FileDoneKeeps DEF InDeclIndex

\* The builder installs what it built: current, unless an edit is pending whose
\* invalidation then drops it.
LEMMA InstallIndexKeeps ==
  ASSUME DbInv, NEW t \in Threads, InstallIndex(t)
  PROVE  DbInv'
<1> USE DEF vfsVars, Goto
<1>1. builder = t /\ builder # None
  BY DbFacts DEF InstallIndex, DbInv, BuilderHoldsLock
<1>2. index[t] \in Index /\ version \in Index
  BY DEF DbInv, DbTypeOK
<1>3. DbTypeOK' /\ BuilderHoldsLock' /\ CfgHasFunc' /\ EntriesNotOlder' /\ LoweringNotOlder'
  BY <1>1, <1>2, DbFacts DEF InstallIndex, DbInv, DbTypeOK, BuilderHoldsLock, CfgHasFunc,
       EntriesNotOlder, LoweringNotOlder
<1>4. GlobalIndexCurrent'
  <2>1. pending = None => \A f \in Files : index[t][f] = version[f]
    BY <1>1 DEF InstallIndex, DbInv, BuildCurrent, InDeclIndex
  <2>2. pending = None => index[t] = version
    BY <1>2, <2>1 DEF Index
  <2>3. QED
    BY <2>2 DEF InstallIndex, GlobalIndexCurrent
<1>5. BuildCurrent' /\ OneCfgPerFunc'
  BY DEF InstallIndex, DbInv, BuildCurrent, OneCfgPerFunc
<1>6. QED
  BY <1>3, <1>4, <1>5 DEF DbInv

\* Reading the version and looking a CFG up change no cache.
LEMMA CfgReadsKeep ==
  ASSUME DbInv, NEW t \in Threads, ReadVersion(t) \/ LookupCfg(t)
  PROVE  DbInv'
<1> USE DEF vfsVars, cacheVars
<1>1. builder # t
  BY DbFacts DEF ReadVersion, LookupCfg, DbInv, BuilderHoldsLock, InDeclIndex
<1>2. UNCHANGED <<vfsVars, cacheVars, builder, todo, file, lowered>>
  BY DEF ReadVersion, LookupCfg, Return
<1>3. PICK place \in {"idle", "lookup", "store"} : at' = [at EXCEPT ![t] = place]
  BY DEF ReadVersion, LookupCfg, Return, Goto
<1>4. /\ func' = func \/ (place = "idle" /\ func' = [func EXCEPT ![t] = None])
      /\ index' = index \/ index' = [index EXCEPT ![t] = EmptyIndex]
  BY <1>3 DEF ReadVersion, LookupCfg, Return, Goto, DbInv, DbTypeOK
<1>5. func[t] # None
  BY DEF ReadVersion, LookupCfg, DbInv, CfgHasFunc
<1>6. \E v \in Versions : key' = [key EXCEPT ![t] = v]
  <2>1. CASE ReadVersion(t)
    <3> DEFINE d == Target(t)
               v == IF d = EmptyCfg THEN None ELSE version[d.file]
    <3>1. d \in Decls \cup {EmptyCfg}
      BY DeclOfType DEF Target, DbInv, DbTypeOK
    <3>2. v \in Versions \cup {None}
      <4>1. d # EmptyCfg => d.file \in Files
        BY <3>1 DEF Decls
      <4> HIDE DEF d
      <4>2. QED
        BY <4>1 DEF DbInv, DbTypeOK, Index
    <3>3. key' = [key EXCEPT ![t] = IF v = None THEN 0 ELSE v]
      BY <2>1 DEF ReadVersion
    <3> HIDE DEF v
    <3>4. (IF v = None THEN 0 ELSE v) \in Versions
      BY <3>2, DbFacts
    <3>5. QED
      BY <3>3, <3>4
  <2>2. CASE LookupCfg(t)
    <3>1. key' = [key EXCEPT ![t] = 0] \/ key' = [key EXCEPT ![t] = key[t]]
      BY <2>2 DEF LookupCfg, Return, DbInv, DbTypeOK
    <3>2. key[t] \in Versions /\ 0 \in Versions
      BY DbFacts DEF DbInv, DbTypeOK
    <3>3. QED
      BY <3>1, <3>2
  <2>3. QED
    BY <2>1, <2>2
<1>7. EmptyIndex \in Index
  BY DEF EmptyIndex, Index
<1>8. DbTypeOK'
  <2>1. DbTypeOK
    BY DEF DbInv
  <2>2. func' \in [Threads -> Funcs \cup {None}] /\ index' \in [Threads -> Index]
    <3>1. func \in [Threads -> Funcs \cup {None}] /\ index \in [Threads -> Index]
      BY <2>1 DEF DbTypeOK
    <3>2. func' \in [Threads -> Funcs \cup {None}]
      BY <1>4, <3>1
    <3>3. index' \in [Threads -> Index]
      BY <1>4, <1>7, <3>1
    <3>4. QED
      BY <3>2, <3>3
  <2>3. key' \in [Threads -> Versions]
    BY <1>6, <2>1 DEF DbTypeOK
  <2>4. at' \in [Threads -> {"idle", "index", "lock", "build", "key", "lower", "insert",
                            "version", "lookup", "store"}]
    BY <1>3, <2>1 DEF DbTypeOK
  <2>5. QED
    BY <1>2, <2>1, <2>2, <2>3, <2>4 DEF DbTypeOK
<1>9. BuilderHoldsLock' /\ CfgHasFunc' /\ EntriesNotOlder'
  BY <1>1, <1>2, <1>3, <1>4, <1>5 DEF DbInv, DbTypeOK, BuilderHoldsLock, CfgHasFunc, EntriesNotOlder
<1>10. LoweringNotOlder'
  BY <1>2, <1>3, <1>6 DEF DbInv, DbTypeOK, LoweringNotOlder
<1>11. BuildCurrent'
  BY <1>1, <1>2, <1>3, <1>4, <1>6 DEF DbInv, DbTypeOK, BuildCurrent
<1>12. GlobalIndexCurrent' /\ OneCfgPerFunc'
  BY <1>2 DEF DbInv, GlobalIndexCurrent, OneCfgPerFunc
<1>13. QED
  BY <1>8, <1>9, <1>10, <1>11, <1>12 DEF DbInv

\* Monotonic eviction: the stored CFG replaces the one of the recorded version,
\* and a late thread stores nothing.
LEMMA StoreCfgKeeps ==
  ASSUME DbInv, NEW t \in Threads, StoreCfg(t)
  PROVE  DbInv'
<1> USE DEF vfsVars
<1> DEFINE i == func[t]
           v == key[t]
<1>1. builder # t /\ at[t] = "store"
  BY DbFacts DEF StoreCfg, DbInv, BuilderHoldsLock, InDeclIndex
<1>2. i \in Funcs /\ v \in Versions
  BY <1>1 DEF DbInv, DbTypeOK, CfgHasFunc
<1>3. /\ UNCHANGED <<vfsVars, declIndex, global, builder, todo, file, lowered>>
      /\ at' = [at EXCEPT ![t] = "idle"] /\ func' = [func EXCEPT ![t] = None]
      /\ index' = [index EXCEPT ![t] = EmptyIndex] /\ key' = [key EXCEPT ![t] = 0]
  BY DEF StoreCfg, Return, Goto
<1>4. /\ cfgs' \in [Funcs -> [Versions -> Decls \cup {EmptyCfg, None}]]
      /\ cfgVersion' \in [Funcs -> Versions \cup {None}]
      /\ OneCfgPerFunc'
  <2>1. /\ cfgs \in [Funcs -> [Versions -> Decls \cup {EmptyCfg, None}]]
        /\ cfgVersion \in [Funcs -> Versions \cup {None}]
        /\ OneCfgPerFunc
    BY DEF DbInv, DbTypeOK
  <2>2. CASE UNCHANGED <<cfgs, cfgVersion>>
    BY <2>1, <2>2 DEF OneCfgPerFunc
  <2>3. CASE /\ cfgs' = [cfgs EXCEPT ![i] = [w \in Versions |->
                      IF w = v THEN Answer(t) ELSE IF w = cfgVersion[i] THEN None ELSE @[w]]]
             /\ cfgVersion' = [cfgVersion EXCEPT ![i] = v]
    <3>1. Answer(t) \in Decls \cup {EmptyCfg, None} /\ Answer(t) # None
      BY <1>2, AnswerType
    <3> DEFINE row == [w \in Versions |->
                 IF w = v THEN Answer(t) ELSE IF w = cfgVersion[i] THEN None ELSE cfgs[i][w]]
    <3>2. cfgs' = [cfgs EXCEPT ![i] = row]
      BY <1>2, <2>1, <2>3
    <3>3. row \in [Versions -> Decls \cup {EmptyCfg, None}]
      BY <1>2, <2>1, <3>1
    <3>4. \A w \in Versions : row[w] # None <=> w = v
      BY <1>2, <2>1, <3>1 DEF OneCfgPerFunc
    <3> HIDE DEF row
    <3>5. QED
      BY <1>2, <2>1, <2>3, <3>2, <3>3, <3>4 DEF OneCfgPerFunc
  <2>4. QED
    BY <2>2, <2>3 DEF StoreCfg
<1>5. EmptyIndex \in Index
  BY DEF EmptyIndex, Index
<1>6. DbTypeOK'
  BY <1>3, <1>4, <1>5, DbFacts DEF DbInv, DbTypeOK
<1>7. BuilderHoldsLock' /\ CfgHasFunc' /\ EntriesNotOlder' /\ LoweringNotOlder'
  BY <1>1, <1>3 DEF DbInv, DbTypeOK, BuilderHoldsLock, CfgHasFunc, EntriesNotOlder,
       LoweringNotOlder
<1>8. BuildCurrent' /\ GlobalIndexCurrent'
  BY <1>1, <1>3 DEF DbInv, DbTypeOK, BuildCurrent, GlobalIndexCurrent
<1>9. QED
  BY <1>4, <1>6, <1>7, <1>8 DEF DbInv

-----------------------------------------------------------------------------
\* The invariant of the derived caches holds throughout.
LEMMA DbInvHolds == Spec => []DbInv
<1>1. Init => DbInv
  <2> SUFFICES ASSUME Init PROVE DbInv
    OBVIOUS
  <2>1. EmptyIndex \in Index
    BY DEF EmptyIndex, Index
  <2>2. DbTypeOK
    BY <2>1, DbFacts DEF Init, DbTypeOK, Index
  <2>3. QED
    BY <2>2, DbFacts DEF Init, DbInv, BuilderHoldsLock, CfgHasFunc, EntriesNotOlder,
         LoweringNotOlder, BuildCurrent, GlobalIndexCurrent, OneCfgPerFunc
<1>2. DbInv /\ [Next]_vars => DbInv'
  <2> SUFFICES ASSUME DbInv, [Next]_vars PROVE DbInv'
    OBVIOUS
  <2>1. CASE ReleaseGlobalIndex \/ UNCHANGED vars
    BY <2>1 DEF ReleaseGlobalIndex, vars, vfsVars, cacheVars, threadVars, DbInv, DbTypeOK,
         BuilderHoldsLock, CfgHasFunc, EntriesNotOlder, LoweringNotOlder, BuildCurrent,
         GlobalIndexCurrent, OneCfgPerFunc
  <2>2. ASSUME NEW t \in Threads, Progress(t) PROVE DbInv'
    BY <2>2, EnterKeeps, LockBuildKeeps, ReadKeyKeeps, LowerKeeps, InsertDeclIndexKeeps,
       InstallIndexKeeps, CfgReadsKeep, StoreCfgKeeps DEF Progress
  <2>3. QED
    BY <2>1, <2>2, EditKeeps, InvalidateFileKeeps, EnterKeeps DEF Next
<1>3. QED
  BY <1>1, <1>2, PTL DEF Spec

\* The derived caches keep their types.
THEOREM DbTypes == Spec => []DbTypeOK
<1>1. DbInv => DbTypeOK
  BY DEF DbInv
<1>2. QED
  BY <1>1, DbInvHolds, PTL

\* decl_index never finds an index of an older source under the current version,
\* however late a thread inserts what it lowered.
THEOREM DbDeclIndexCurrent == Spec => []DeclIndexCurrent
<1>1. DbInv => DeclIndexCurrent
  BY CurrentEntry DEF DeclIndexCurrent
<1>2. QED
  BY <1>1, DbInvHolds, PTL

\* Once an edit is invalidated, the cached global index is that of the current
\* files: no build that overlapped the edit survives.
THEOREM DbGlobalIndexCurrent == Spec => []GlobalIndexCurrent
<1>1. DbInv => GlobalIndexCurrent
  BY DEF DbInv
<1>2. QED
  BY <1>1, DbInvHolds, PTL

\* cfg retains one CFG per function, at the version it recorded.
THEOREM DbOneCfgPerFunc == Spec => []OneCfgPerFunc
<1>1. DbInv => OneCfgPerFunc
  BY DEF DbInv
<1>2. QED
  BY <1>1, DbInvHolds, PTL
=============================================================================
