-------------------------------- MODULE Vfs --------------------------------
(***************************************************************************)
(* Vfs (crates/vfs/src/lib.rs): the versioned registry of source texts     *)
(* that every compiler cache is keyed by.                                  *)
(*                                                                         *)
(* One RwLock guards the table, so a critical section of the code is one   *)
(* action.  The exception is `snapshot`: a file interned by identity has   *)
(* its text loaded between a read section (Capture) and a write section    *)
(* (Install), and everything may happen to the file in between.            *)
(*                                                                         *)
(* A text stands for its identity (length, hash and digest) as well: the   *)
(* loader returns the text the identity was computed from, or an error.    *)
(***************************************************************************)
EXTENDS Naturals, Sequences, FiniteSets

CONSTANTS
  Names,       \* paths as the callers spell them
  Key,         \* Key[n]: canonical_path_key of a name
  BaseOf,      \* BaseOf[k]: canonical_basename_key of a path with key k
  Suffixes,    \* the suffixes asked of unique_file_ending_with
  EndsIn,      \* EndsIn[s]: the keys that end with suffix s
  SuffixBase,  \* SuffixBase[s]: canonical_basename_key of suffix s
  Texts,       \* source texts
  Readers,     \* threads inside snapshot or apply_edits
  None,
  Placeholder, \* the "" stored as text while a file is lazy
  MaxFiles,    \* bound: slots of the table (the code panics at 2^32)
  MaxRevision  \* bound: changes of the table (u64 in the code)

Keys == {Key[n] : n \in Names}
Bases == {BaseOf[k] : k \in Keys}
Ids == 1..MaxFiles
Snapshots == [path : Names, text : Texts \cup {Placeholder}, version : 0..MaxRevision]

ASSUME VfsAssumption ==
  /\ MaxFiles \in Nat \ {0} /\ MaxRevision \in Nat
  /\ None \notin Ids \cup Texts \cup Snapshots
  /\ Placeholder \notin Texts
  \* A path ends with a suffix only if their last components agree.
  /\ \A s \in Suffixes : \A k \in EndsIn[s] : BaseOf[k] = SuffixBase[s]

VARIABLES
  byPath,      \* byPath[k]: the live file with key k, or None
  byBasename,  \* byBasename[b]: the candidate files for basename b
  files,       \* files[i]: FileSnapshot in slot i, or None
  slots,       \* files.len()
  retired,     \* retired_files
  lazy,        \* lazy[i]: identity of a text still on disk, or None
  loader,      \* whether a loader is installed
  edits,       \* edits[i]: edits_since, each edit as the version it addresses
  revision,    \* revision
  at,          \* at[r]: where reader r is
  job,         \* job[r]: the file r asks for and whether it will edit it
  seen,        \* seen[r]: what r's last read section captured
  got,         \* got[r]: the result of r's last call
  denotes      \* history: what each (file, version) was written to mean

tableVars == <<byPath, byBasename, files, slots, retired, lazy, loader, edits, revision, denotes>>
readerVars == <<at, job, seen, got>>
vars == <<tableVars, readerVars>>

Places == {"idle", "capture", "loading", "editing"}
Results == [kind : {"none", "ok", "unknown", "no_loader", "load_error"},
            file : Ids \cup {None}, version : 0..MaxRevision, text : Texts \cup {Placeholder, None}]

VfsTypeOK ==
  /\ byPath \in [Keys -> Ids \cup {None}]
  /\ byBasename \in [Bases -> SUBSET Ids]
  /\ files \in [Ids -> Snapshots \cup {None}]
  /\ slots \in 0..MaxFiles
  /\ retired \subseteq Ids
  /\ lazy \in [Ids -> Texts \cup {None}]
  /\ loader \in BOOLEAN
  /\ edits \in [Ids -> Seq(0..MaxRevision)]
  /\ revision \in 0..MaxRevision
  /\ at \in [Readers -> Places]
  /\ job \in [Readers -> [file : Ids, edit : BOOLEAN]]
  /\ seen \in [Readers -> [path : Names \cup {None}, version : 0..MaxRevision, identity : Texts \cup {None}]]
  /\ got \in [Readers -> Results]
  /\ denotes \subseteq [file : Ids, version : 0..MaxRevision, text : Texts]

NoResult == [kind |-> "none", file |-> None, version |-> 0, text |-> None]
NothingSeen == [path |-> None, version |-> 0, identity |-> None]
NoJob == [file |-> 1, edit |-> FALSE]

Init ==
  /\ byPath = [k \in Keys |-> None]
  /\ byBasename = [b \in Bases |-> {}]
  /\ files = [i \in Ids |-> None]
  /\ slots = 0
  /\ retired = {}
  /\ lazy = [i \in Ids |-> None]
  /\ loader = FALSE
  /\ edits = [i \in Ids |-> <<>>]
  /\ revision = 0
  /\ at = [r \in Readers |-> "idle"]
  /\ job = [r \in Readers |-> NoJob]
  /\ seen = [r \in Readers |-> NothingSeen]
  /\ got = [r \in Readers |-> NoResult]
  /\ denotes = {}

-----------------------------------------------------------------------------
(* The table. *)

Live(i) == files[i] # None

\* What text_len, lazy_identity and a successful snapshot say of file i.
Denoted(i) == IF lazy[i] = None THEN files[i].text ELSE lazy[i]

\* The tail every change of a file shares: snapshot, lazy identity, revision.
Store(i, snapshot, identity) ==
  /\ revision < MaxRevision
  /\ files' = [files EXCEPT ![i] = snapshot]
  /\ lazy' = [lazy EXCEPT ![i] = identity]
  /\ revision' = revision + 1
  /\ denotes' = denotes \cup {[file |-> i, version |-> snapshot.version,
                               text |-> IF identity = None THEN snapshot.text ELSE identity]}

\* A known path keeps its id and its first spelling; edits_since is not touched.
Replace(i, text, identity) ==
  /\ Store(i, [files[i] EXCEPT !.text = text, !.version = @ + 1], identity)
  /\ UNCHANGED <<byPath, byBasename, slots, retired, loader, edits, readerVars>>

Place(i, name, text, identity) ==
  /\ Store(i, [path |-> name, text |-> text, version |-> 0], identity)
  /\ slots' = IF i > slots THEN i ELSE slots
  /\ byPath' = [byPath EXCEPT ![Key[name]] = i]
  /\ byBasename' = [byBasename EXCEPT ![BaseOf[Key[name]]] = @ \cup {i}]
  /\ UNCHANGED <<retired, loader, edits, readerVars>>

\* write and write_lazy: the next id is the length of the table.
Intern(name, text, identity) ==
  \/ /\ byPath[Key[name]] # None
     /\ Replace(byPath[Key[name]], text, identity)
  \/ /\ byPath[Key[name]] = None
     /\ slots < MaxFiles
     /\ Place(slots + 1, name, text, identity)

\* Mutant: a slot that is empty again may be taken again.
InternAtAnyEmpty(i, name, text, identity) ==
  \/ byPath[Key[name]] = i /\ Replace(i, text, identity)
  \/ byPath[Key[name]] = None /\ ~Live(i) /\ Place(i, name, text, identity)

\* write_with_id and write_lazy_with_id; a failed assertion changes nothing.
InternAt(i, name, text, identity) ==
  \/ /\ byPath[Key[name]] = i
     /\ Replace(i, text, identity)
  \/ /\ byPath[Key[name]] = None
     /\ i \notin retired
     /\ ~Live(i)
     /\ Place(i, name, text, identity)

Write(name, text) == Intern(name, text, None)
WriteLazy(name, identity) == Intern(name, Placeholder, identity)
WriteWithId(i, name, text) == InternAt(i, name, text, None)
WriteLazyWithId(i, name, identity) == InternAt(i, name, Placeholder, identity)

\* What remove does to the table around the basename index.
Retire(i, name) ==
  /\ revision < MaxRevision
  /\ byPath' = [byPath EXCEPT ![Key[name]] = None]
  /\ retired' = retired \cup {i}
  /\ files' = [files EXCEPT ![i] = None]
  /\ lazy' = [lazy EXCEPT ![i] = None]
  /\ edits' = [edits EXCEPT ![i] = <<>>]
  /\ revision' = revision + 1
  /\ UNCHANGED <<slots, loader, denotes, readerVars>>

\* Mutant: the whole basename entry goes with one of its files.
RemoveBasename(name) ==
  LET i == byPath[Key[name]] IN
  /\ i # None
  /\ byBasename' = [byBasename EXCEPT ![BaseOf[Key[files[i].path]]] = {}]
  /\ Retire(i, name)

\* The id is tombstoned, never compacted.
Remove(name) ==
  LET i == byPath[Key[name]] IN
  /\ i # None
  /\ byBasename' = [byBasename EXCEPT ![BaseOf[Key[files[i].path]]] = @ \ {i}]
  /\ Retire(i, name)

SetLazyLoader ==
  /\ loader' = TRUE
  /\ UNCHANGED <<byPath, byBasename, files, slots, retired, lazy, edits, revision, denotes, readerVars>>

TakeEdits(i) ==
  /\ Live(i)
  /\ edits' = [edits EXCEPT ![i] = <<>>]
  /\ UNCHANGED <<byPath, byBasename, files, slots, retired, lazy, loader, revision, denotes, readerVars>>

\* The file whose key ends with s, if the candidates hold exactly one.
UniqueFileEndingWith(s) ==
  LET candidates == IF SuffixBase[s] \in Bases THEN byBasename[SuffixBase[s]] ELSE {}
      matches == {i \in candidates : Live(i) /\ Key[files[i].path] \in EndsIn[s]}
  IN IF Cardinality(matches) = 1 THEN matches ELSE {}

-----------------------------------------------------------------------------
(* snapshot and apply_edits. *)

Call(r, i, edit) ==
  /\ at[r] = "idle"
  /\ at' = [at EXCEPT ![r] = "capture"]
  /\ job' = [job EXCEPT ![r] = [file |-> i, edit |-> edit]]
  /\ got' = [got EXCEPT ![r] = NoResult]
  /\ UNCHANGED <<tableVars, seen>>

Fail(r, kind) ==
  /\ got' = [got EXCEPT ![r] = [NoResult EXCEPT !.kind = kind, !.file = job[r].file]]
  /\ at' = [at EXCEPT ![r] = "idle"]
  /\ seen' = [seen EXCEPT ![r] = NothingSeen]
  /\ job' = [job EXCEPT ![r] = NoJob]

\* apply_edits goes on with its own write section once snapshot is Ok.
Return(r, snapshot) ==
  /\ got' = [got EXCEPT ![r] = [kind |-> "ok", file |-> job[r].file,
                                version |-> snapshot.version, text |-> snapshot.text]]
  /\ at' = [at EXCEPT ![r] = IF job[r].edit THEN "editing" ELSE "idle"]
  /\ seen' = [seen EXCEPT ![r] = NothingSeen]
  /\ job' = [job EXCEPT ![r] = IF @.edit THEN @ ELSE NoJob]

\* The read section: the snapshot, its pending identity and the loader.
Capture(r) ==
  LET i == job[r].file IN
  /\ at[r] = "capture"
  /\ UNCHANGED tableVars
  /\ \/ ~Live(i) /\ Fail(r, "unknown")
     \/ Live(i) /\ lazy[i] = None /\ Return(r, files[i])
     \/ Live(i) /\ lazy[i] # None /\ ~loader /\ Fail(r, "no_loader")
     \/ /\ Live(i) /\ lazy[i] # None /\ loader
        /\ at' = [at EXCEPT ![r] = "loading"]
        /\ seen' = [seen EXCEPT ![r] = [path |-> files[i].path, version |-> files[i].version, identity |-> lazy[i]]]
        /\ UNCHANGED <<job, got>>

\* Mutant: any entry that still is lazy takes the loaded text.
SameEntryIfLazy(r) == lazy[job[r].file] # None

\* Whether the file still is what reader r captured.
SameEntry(r) ==
  LET i == job[r].file IN
  /\ files[i].version = seen[r].version
  /\ files[i].path = seen[r].path
  /\ lazy[i] = seen[r].identity

\* Mutant: a changed entry is retried with the identity captured first.
RetryWithoutCapture(r) ==
  /\ at[r] = "loading" /\ Live(job[r].file) /\ lazy[job[r].file] # None /\ ~SameEntry(r)
  /\ UNCHANGED vars

\* `continue`: a changed lazy entry is captured again.
Retry(r) ==
  /\ at[r] = "loading" /\ Live(job[r].file) /\ lazy[job[r].file] # None /\ ~SameEntry(r)
  /\ at' = [at EXCEPT ![r] = "capture"]
  /\ seen' = [seen EXCEPT ![r] = NothingSeen]
  /\ UNCHANGED <<tableVars, job, got>>

\* Mutant: the write section returns the entry it finds, loaded or not.
SupersededByAnything(r) ==
  LET i == job[r].file IN
  /\ at[r] = "loading"
  /\ \/ ~Live(i) /\ Fail(r, "unknown")
     \/ Live(i) /\ ~SameEntry(r) /\ Return(r, files[i])
  /\ UNCHANGED tableVars

\* A file that is gone or loaded meanwhile decides the call, whatever was loaded.
Superseded(r) ==
  LET i == job[r].file IN
  /\ at[r] = "loading"
  /\ \/ ~Live(i) /\ Fail(r, "unknown")
     \/ Live(i) /\ lazy[i] = None /\ Return(r, files[i])
  /\ UNCHANGED tableVars

\* The loader's text is published without a new version or revision.
Install(r, ok) ==
  LET i == job[r].file IN
  /\ at[r] = "loading" /\ Live(i) /\ lazy[i] # None /\ SameEntry(r)
  /\ \/ ~ok /\ Fail(r, "load_error") /\ UNCHANGED tableVars
     \/ /\ ok
        /\ files' = [files EXCEPT ![i] = [@ EXCEPT !.text = seen[r].identity]]
        /\ lazy' = [lazy EXCEPT ![i] = None]
        /\ Return(r, [files[i] EXCEPT !.text = seen[r].identity])
        /\ UNCHANGED <<byPath, byBasename, slots, retired, loader, edits, revision, denotes>>

\* apply_edits returns; it drops the snapshot it took.
EndEdits(r) ==
  /\ at' = [at EXCEPT ![r] = "idle"]
  /\ job' = [job EXCEPT ![r] = NoJob]
  /\ got' = [got EXCEPT ![r] = NoResult]

\* The write section of apply_edits.
ApplyEdits(r, text) ==
  LET i == job[r].file IN
  /\ at[r] = "editing" /\ Live(i)
  /\ Store(i, [files[i] EXCEPT !.text = text, !.version = @ + 1], None)
  /\ edits' = [edits EXCEPT ![i] = Append(@, files[i].version)]
  /\ EndEdits(r)
  /\ UNCHANGED <<byPath, byBasename, slots, retired, loader, seen>>

\* The file was removed since, or the batch names a second file.
ApplyEditsFails(r, mixed) ==
  /\ at[r] = "editing"
  /\ mixed \/ ~Live(job[r].file)
  /\ EndEdits(r)
  /\ UNCHANGED <<tableVars, seen>>

-----------------------------------------------------------------------------
Interning ==
  \E name \in Names :
    \/ \E text \in Texts : Write(name, text) \/ WriteLazy(name, text)
    \/ \E i \in Ids, text \in Texts : WriteWithId(i, name, text) \/ WriteLazyWithId(i, name, text)
    \/ Remove(name)

Reading(r) == Capture(r) \/ Superseded(r) \/ Retry(r) \/ \E ok \in BOOLEAN : Install(r, ok)

Editing(r) == (\E text \in Texts : ApplyEdits(r, text)) \/ (\E mixed \in BOOLEAN : ApplyEditsFails(r, mixed))

Next ==
  \/ Interning
  \/ SetLazyLoader
  \/ \E i \in Ids : TakeEdits(i)
  \/ \E r \in Readers :
       \/ \E i \in Ids, edit \in BOOLEAN : Call(r, i, edit)
       \/ Reading(r)
       \/ Editing(r)

\* A thread inside snapshot keeps running: the lock is released by every
\* section and the loader returns.
Spec == Init /\ [][Next]_vars /\ \A r \in Readers : WF_vars(Reading(r))

-----------------------------------------------------------------------------
(* Properties. *)

\* A (FileId, version) pair means one text for ever, through lazy loads,
\* removals, re-interning and compiler-assigned ids: parser, declaration and
\* CFG caches are keyed by the pair (retired_files exists for this).
OneTextPerVersion ==
  \A d, e \in denotes : d.file = e.file /\ d.version = e.version => d.text = e.text

\* A successful snapshot carries the text its version was written to mean:
\* never the placeholder of a lazy file, never bytes of another generation,
\* whatever happened to the file while the loader ran.
SnapshotIsDenoted ==
  \A r \in Readers : got[r].kind = "ok" =>
    [file |-> got[r].file, version |-> got[r].version, text |-> got[r].text] \in denotes

\* unique_file_ending_with answers through the basename index what a scan of
\* the live files would: the only file with the suffix, or nothing.
SuffixLookupExact ==
  \A s \in Suffixes :
    LET all == {i \in Ids : Live(i) /\ Key[files[i].path] \in EndsIn[s]}
    IN UniqueFileEndingWith(s) = IF Cardinality(all) = 1 THEN all ELSE {}

\* While the revision stands still, no file changes its version, existence or
\* meaning: a first load publishes exactly the text the identity stood for,
\* so summaries keyed by revision() stay valid across it.
RevisionCoversContent ==
  [][revision' = revision =>
       \A i \in Ids : /\ Live(i)' <=> Live(i)
                      /\ Live(i) => /\ files'[i].version = files[i].version
                                    /\ Denoted(i)' = Denoted(i)]_vars

\* Every snapshot call returns, however often writers replaced the lazy entry
\* while it loaded (the number of writes is bounded here).
SnapshotReturns ==
  \A r \in Readers : at[r] \in {"capture", "loading"} ~> at[r] \in {"idle", "editing"}
=============================================================================
