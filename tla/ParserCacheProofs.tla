-------------------------- MODULE ParserCacheProofs --------------------------
(* ParserCache keeps its promises for any threads, contexts and number of  *)
(* writes.                                                                 *)
EXTENDS ParserCache, FiniteSetTheorems, TLAPS

\* A version is made by a write, so the revision counts it.
VersionCounted == version <= revision

\* An entry or a build is sound: its tree descends from no tree that did not
\* describe its source, and a flag tells when it does not describe its own.
SoundEntry(e) == e # None => ~e.tree.corrupt /\ (e.tree.partial => e.used_recovery \/ e.timeout)
SoundBuild(b) == ~b.tree.corrupt /\ (b.tree.partial => b.used_recovery \/ b.timed_out)

\* incremental_tree decides by the flags, so they must cover the truth wherever
\* an entry may still be edited: in the cache, in a thread's hands and, since a
\* build becomes an entry, while it is built.
SoundTrees ==
  /\ SoundEntry(cache)
  /\ \A t \in Threads : SoundEntry(old[t]) /\ SoundBuild(built[t]) /\ SoundEntry(out[t])

\* A thread between its call and its return has given no answer yet.
AnswersAreFinal == \A t \in Threads : at[t] # "idle" => out[t] = None

\* The inductive invariant of parse_snapshot.
ParseInv ==
  /\ ParserTypeOK
  /\ VersionCounted
  /\ AnswersAreFinal
  /\ ResultIsForSnapshot
  /\ SoundTrees

Leased == {t \in Threads : at[t] \in Working}

\* Every parser made for the grammar is in the pool or leased to one thread, and
\* there are never more of them than threads: parsers are made on demand, only
\* by a thread that finds the pool empty.
ParsersAccounted ==
  /\ created = idle + Cardinality(Leased)
  /\ created <= Cardinality(Threads)

-----------------------------------------------------------------------------
\* What a thread would insert is an entry for its own snapshot and context, and
\* as sound as what it built: the timeout becomes a diagnostic.
LEMMA ParsedIsEntry ==
  ASSUME ParserTypeOK, NEW t \in Threads
  PROVE  /\ Parsed(t) \in Entries
         /\ Parsed(t).version = snapshot[t] /\ Parsed(t).print = print[t]
         /\ Parsed(t).rev = seenRev[t]
         /\ SoundBuild(built[t]) => SoundEntry(Parsed(t))
<1>1. built[t] \in Builds
  BY DEF ParserTypeOK
<1>2. /\ Parsed(t) \in Entries
      /\ Parsed(t).version = snapshot[t] /\ Parsed(t).print = print[t]
      /\ Parsed(t).rev = seenRev[t] /\ Parsed(t).tree = built[t].tree
      /\ Parsed(t).used_recovery = built[t].used_recovery
      /\ Parsed(t).timeout = built[t].timed_out
  BY <1>1, ParserAssumption DEF ParserTypeOK, Parsed, Entries, Builds
<1>3. QED
  BY <1>2, Zenon DEF SoundBuild, SoundEntry

\* No tree is built before a first parse, and no entry is a sound one.
LEMMA NoneIsSound == NoBuild \in Builds /\ SoundBuild(NoBuild) /\ SoundEntry(None)
BY DEF NoBuild, Builds, Trees, SoundBuild, SoundEntry

\* A first parse builds a sound tree from a sound old entry: incremental_tree
\* refuses the flagged ones, so the tree it edits describes its source and is
\* not corrupt itself, and both ways to a partial tree set their flag.
LEMMA ParseIsSound ==
  ASSUME NEW t \in Threads, NEW n \in BOOLEAN, NEW o \in BOOLEAN, NEW d \in BOOLEAN,
         ParserTypeOK, SoundEntry(old[t]), Parse(t, n, o, d)
  PROVE  \E b \in Builds : SoundBuild(b) /\ built' = [built EXCEPT ![t] = b]
<1> DEFINE corrupt == ~n /\ ~o /\ Hint(t) /\ (old[t].tree.partial \/ old[t].tree.corrupt)
           tree == [partial |-> n \/ o, foreign |-> n /\ context # print[t], corrupt |-> corrupt]
           build == [tree |-> tree, used_recovery |-> n, timed_out |-> o]
<1>1. ~corrupt
  BY Zenon DEF Hint, SoundEntry
<1>2. (n \/ o) \in BOOLEAN /\ (n /\ context # print[t]) \in BOOLEAN /\ corrupt \in BOOLEAN
  BY Zenon
<1>3. built' = [built EXCEPT ![t] = build]
  BY Zenon DEF Parse
<1> HIDE DEF corrupt
<1>4. /\ tree \in Trees /\ tree.corrupt = corrupt /\ tree.partial = (n \/ o)
  BY <1>2 DEF Trees
<1> HIDE DEF tree
<1>5. build \in Builds /\ build.tree = tree /\ build.used_recovery = n /\ build.timed_out = o
  BY <1>4 DEF Builds
<1> HIDE DEF build
<1>6. SoundBuild(build)
  BY <1>1, <1>4, <1>5, Zenon DEF SoundBuild
<1>7. QED
  BY <1>3, <1>5, <1>6

\* A round of recovery keeps a build sound: the tree it puts in is a fresh parse,
\* and used_recovery is set with it.
LEMMA RecoverIsSound ==
  ASSUME NEW t \in Threads, NEW i \in BOOLEAN, ParserTypeOK, SoundBuild(built[t]), Recover(t, i)
  PROVE  \E b \in Builds : SoundBuild(b) /\ built' = [built EXCEPT ![t] = b]
<1> DEFINE flag == built[t].used_recovery \/ i
           build == [built[t] EXCEPT !.tree = RecoveredTree(t, i), !.used_recovery = flag]
<1>1. built[t] \in Builds
  BY DEF ParserTypeOK
<1>2. built' = [built EXCEPT ![t] = build]
  BY <1>1 DEF Recover, ParserTypeOK, Builds
<1>3. /\ (built[t].tree.partial \/ i) \in BOOLEAN
      /\ (built[t].tree.foreign \/ context # print[t]) \in BOOLEAN
      /\ (built[t].tree.corrupt /\ ~i) \in BOOLEAN
      /\ flag \in BOOLEAN
  BY Zenon
<1>4. /\ RecoveredTree(t, i) \in Trees
      /\ RecoveredTree(t, i).partial = (built[t].tree.partial \/ i)
      /\ RecoveredTree(t, i).corrupt = (built[t].tree.corrupt /\ ~i)
  BY <1>3 DEF RecoveredTree, Trees
<1> HIDE DEF flag
<1>5. /\ build \in Builds /\ build.tree = RecoveredTree(t, i)
      /\ build.used_recovery = flag /\ build.timed_out = built[t].timed_out
  BY <1>1, <1>3, <1>4 DEF Builds
<1> HIDE DEF build
<1>6. SoundBuild(build)
  BY <1>4, <1>5, Zenon DEF SoundBuild, flag
<1>7. QED
  BY <1>2, <1>5, <1>6

\* A thread that returns a sound entry for its own snapshot, or none, leaves the
\* invariant's parts about threads true.
LEMMA ReturnKeeps ==
  ASSUME ParseInv, NEW t \in Threads, NEW entry \in Entries \cup {None}, Return(t, entry),
         SoundEntry(entry),
         entry # None => entry.version = snapshot[t] /\ entry.print = print[t]
  PROVE  /\ at' \in [Threads -> {"idle", "start", "printed", "lookup", "missed", "insert"} \cup Working]
         /\ snapshot' \in [Threads -> 0..MaxRevision] /\ print' \in [Threads -> Contexts]
         /\ seenRev' \in [Threads -> 0..MaxRevision]
         /\ old' \in [Threads -> Entries \cup {None}]
         /\ built' \in [Threads -> Builds]
         /\ out' \in [Threads -> Entries \cup {None}]
         /\ AnswersAreFinal' /\ ResultIsForSnapshot'
         /\ \A u \in Threads : SoundEntry(old'[u]) /\ SoundBuild(built'[u]) /\ SoundEntry(out'[u])
<1>1. /\ out' = [out EXCEPT ![t] = entry] /\ at' = [at EXCEPT ![t] = "idle"]
      /\ old' = [old EXCEPT ![t] = None] /\ built' = [built EXCEPT ![t] = NoBuild]
      /\ seenRev' = [seenRev EXCEPT ![t] = 0] /\ snapshot' = snapshot /\ print' = print
  BY DEF Return
<1>2. 0 \in 0..MaxRevision
  BY ParserAssumption
<1>3. QED
  BY <1>1, <1>2, NoneIsSound DEF ParseInv, ParserTypeOK, AnswersAreFinal, ResultIsForSnapshot, SoundTrees

\* Every step of a writer, of invalidation and of a thread preserves ParseInv.
LEMMA ParseInvStep ==
  ASSUME ParseInv, [Next]_vars
  PROVE  ParseInv'
<1> USE DEF vars, worldVars, poolVars, localVars
<1>1. CASE WriteFile
  BY <1>1, ParserAssumption DEF WriteFile, ParseInv, ParserTypeOK, VersionCounted,
       AnswersAreFinal, ResultIsForSnapshot, SoundTrees
<1>2. CASE Release
  BY <1>2, NoneIsSound DEF Release, ParseInv, ParserTypeOK, VersionCounted, AnswersAreFinal,
       ResultIsForSnapshot, SoundTrees
<1>3. ASSUME NEW c \in Contexts, WriteContext(c) PROVE ParseInv'
  BY <1>3, ParserAssumption DEF WriteContext, ParseInv, ParserTypeOK, VersionCounted,
       AnswersAreFinal, ResultIsForSnapshot, SoundTrees
<1>4. ASSUME NEW t \in Threads, Step(t) PROVE ParseInv'
  <2>1. CASE Call(t)
    <3>1. PICK v \in 0..version : snapshot' = [snapshot EXCEPT ![t] = v]
      BY <2>1 DEF Call
    <3>2. v \in 0..MaxRevision
      BY ParserAssumption DEF ParseInv, ParserTypeOK
    <3>3. QED
      BY <2>1, <3>1, <3>2, NoneIsSound DEF Call, Goto, ParseInv, ParserTypeOK, VersionCounted,
         AnswersAreFinal, ResultIsForSnapshot, SoundTrees
  <2>2. CASE Fingerprint(t)
    BY <2>2 DEF Fingerprint, Goto, ParseInv, ParserTypeOK, VersionCounted,
       AnswersAreFinal, ResultIsForSnapshot, SoundTrees
  <2>3. CASE ReadRevision(t)
    BY <2>3 DEF ReadRevision, Goto, ParseInv, ParserTypeOK, VersionCounted,
       AnswersAreFinal, ResultIsForSnapshot, SoundTrees
  <2>4. CASE Lookup(t)
    <3>1. CASE Matches(cache, t) /\ Return(t, cache)
      <4>1. cache \in Entries \cup {None} /\ SoundEntry(cache)
            /\ cache.version = snapshot[t] /\ cache.print = print[t]
        BY <3>1 DEF Matches, ParseInv, ParserTypeOK, SoundTrees
      <4>2. QED
        BY <2>4, <3>1, <4>1, ReturnKeeps
           DEF Lookup, ParseInv, ParserTypeOK, VersionCounted, SoundTrees
    <3>2. CASE Goto(t, "missed") /\ UNCHANGED <<localVars, built, out>>
      BY <2>4, <3>2 DEF Lookup, Goto, ParseInv, ParserTypeOK, VersionCounted,
         AnswersAreFinal, ResultIsForSnapshot, SoundTrees
    <3>3. QED
      BY <2>4, <3>1, <3>2 DEF Lookup
  <2>5. CASE Checkout(t)
    BY <2>5 DEF Checkout, Goto, Working, ParseInv, ParserTypeOK, VersionCounted,
       AnswersAreFinal, ResultIsForSnapshot, SoundTrees
  <2>6. CASE Recheck(t)
    <3>1. CASE Matches(cache, t) /\ Return(t, cache) /\ ReturnParser
      <4>1. cache \in Entries \cup {None} /\ SoundEntry(cache)
            /\ cache.version = snapshot[t] /\ cache.print = print[t]
        BY <3>1 DEF Matches, ParseInv, ParserTypeOK, SoundTrees
      <4>2. QED
        BY <2>6, <3>1, <4>1, ReturnKeeps
           DEF Recheck, ReturnParser, ParseInv, ParserTypeOK, VersionCounted, SoundTrees
    <3>2. CASE Goto(t, "rechecked") /\ UNCHANGED <<poolVars, localVars, built, out>>
      BY <2>6, <3>2 DEF Recheck, Goto, Working, ParseInv, ParserTypeOK, VersionCounted,
         AnswersAreFinal, ResultIsForSnapshot, SoundTrees
    <3>3. QED
      BY <2>6, <3>1, <3>2 DEF Recheck
  <2>7. CASE ReadOld(t)
    BY <2>7 DEF ReadOld, Goto, Working, ParseInv, ParserTypeOK, VersionCounted,
       AnswersAreFinal, ResultIsForSnapshot, SoundTrees
  <2>8. CASE ParseFails(t)
    BY <2>8, ReturnKeeps, NoneIsSound
       DEF ParseFails, ReturnParser, ParseInv, ParserTypeOK, VersionCounted, SoundTrees
  <2>9. CASE Insert(t)
    <3>1. CASE Matches(cache, t) /\ Return(t, cache) /\ UNCHANGED cache
      <4>1. cache \in Entries \cup {None} /\ SoundEntry(cache)
            /\ cache.version = snapshot[t] /\ cache.print = print[t]
        BY <3>1 DEF Matches, ParseInv, ParserTypeOK, SoundTrees
      <4>2. QED
        BY <2>9, <3>1, <4>1, ReturnKeeps
           DEF Insert, ParseInv, ParserTypeOK, VersionCounted, SoundTrees
    <3>2. CASE /\ Return(t, Parsed(t))
               /\ cache' = cache \/ cache' = Parsed(t)
      <4>1. /\ Parsed(t) \in Entries /\ SoundEntry(Parsed(t))
            /\ Parsed(t).version = snapshot[t] /\ Parsed(t).print = print[t]
        BY ParsedIsEntry DEF ParseInv, SoundTrees
      <4>2. QED
        BY <2>9, <3>2, <4>1, ReturnKeeps
           DEF Insert, ParseInv, ParserTypeOK, VersionCounted, SoundTrees
    <3>3. QED
      BY <2>9, <3>1, <3>2 DEF Insert
  <2>10. ASSUME NEW n \in BOOLEAN, NEW o \in BOOLEAN, NEW d \in BOOLEAN, Parse(t, n, o, d)
         PROVE  ParseInv'
    <3>1. PICK b \in Builds : SoundBuild(b) /\ built' = [built EXCEPT ![t] = b]
      BY <2>10, ParseIsSound DEF ParseInv, SoundTrees
    <3>2. /\ at' = [at EXCEPT ![t] = "recovering"] \/ at' = [at EXCEPT ![t] = "insert"]
          /\ idle' \in Nat /\ created' \in Nat /\ at[t] = "parsing"
          /\ old' = [old EXCEPT ![t] = None]
          /\ UNCHANGED <<worldVars, cache, snapshot, print, seenRev, out>>
      BY <2>10 DEF Parse, Goto, ReturnParser, ParseInv, ParserTypeOK
    <3>3. QED
      BY <3>1, <3>2, NoneIsSound DEF Working, ParseInv, ParserTypeOK, VersionCounted,
         AnswersAreFinal, ResultIsForSnapshot, SoundTrees
  <2>11. ASSUME NEW i \in BOOLEAN, Recover(t, i) PROVE ParseInv'
    <3>1. PICK b \in Builds : SoundBuild(b) /\ built' = [built EXCEPT ![t] = b]
      BY <2>11, RecoverIsSound DEF ParseInv, SoundTrees
    <3>2. /\ at' = at \/ at' = [at EXCEPT ![t] = "insert"]
          /\ idle' \in Nat /\ created' \in Nat /\ at[t] = "recovering"
          /\ UNCHANGED <<worldVars, cache, localVars, out>>
      BY <2>11 DEF Recover, Goto, ReturnParser, ParseInv, ParserTypeOK
    <3>3. QED
      BY <3>1, <3>2 DEF Working, ParseInv, ParserTypeOK, VersionCounted,
         AnswersAreFinal, ResultIsForSnapshot, SoundTrees
  <2>12. QED
    BY <1>4, <2>1, <2>2, <2>3, <2>4, <2>5, <2>6, <2>7, <2>8, <2>9, <2>10, <2>11 DEF Step
<1>5. CASE UNCHANGED vars
  BY <1>5 DEF ParseInv, ParserTypeOK, VersionCounted, AnswersAreFinal, ResultIsForSnapshot,
       SoundTrees
<1>6. QED
  BY <1>1, <1>2, <1>3, <1>4, <1>5 DEF Next

\* The invariant of parse_snapshot holds throughout.
LEMMA ParseInvHolds == Spec => []ParseInv
<1>1. Init => ParseInv
  <2> SUFFICES ASSUME Init PROVE ParseInv
    OBVIOUS
  <2>1. ParserTypeOK
    BY NoneIsSound, ParserAssumption DEF Init, ParserTypeOK
  <2>2. QED
    BY <2>1, NoneIsSound DEF Init, ParseInv, VersionCounted, AnswersAreFinal, ResultIsForSnapshot,
       SoundTrees
<1>2. ParseInv /\ [Next]_vars => ParseInv'
  BY ParseInvStep
<1>3. QED
  BY <1>1, <1>2, PTL DEF Spec

-----------------------------------------------------------------------------
\* A lease counts one more working thread; taking it from an idle parser or
\* making a new one keeps the balance.
LEMMA LeaseCounts ==
  ASSUME NEW S, NEW T \in SUBSET S, IsFiniteSet(S), NEW t \in S
  PROVE  /\ Cardinality(T) \in Nat /\ Cardinality(S) \in Nat
         /\ Cardinality(T) <= Cardinality(S)
         /\ t \notin T => Cardinality(T \cup {t}) = Cardinality(T) + 1
         /\ t \in T => Cardinality(T \ {t}) = Cardinality(T) - 1
<1>1. IsFiniteSet(T) /\ Cardinality(T) <= Cardinality(S)
  BY FS_Subset
<1>2. Cardinality(T) \in Nat /\ Cardinality(S) \in Nat
  BY <1>1, FS_CardinalityType
<1>3. t \notin T => Cardinality(T \cup {t}) = Cardinality(T) + 1
  BY <1>1, FS_AddElement
<1>4. t \in T => Cardinality(T \ {t}) = Cardinality(T) - 1
  BY <1>1, FS_RemoveElement
<1>5. QED
  BY <1>1, <1>2, <1>3, <1>4

\* A step gives a parser out, takes one back, or moves no parser; what a step
\* does to the pool it does to the set of working threads.
LEMMA PoolMoves ==
  ASSUME ParserTypeOK, [Next]_vars
  PROVE  \/ UNCHANGED <<idle, created>> /\ Leased' = Leased
         \/ \E t \in Threads :
              /\ t \notin Leased /\ Leased' = Leased \cup {t}
              /\ \/ idle > 0 /\ idle' = idle - 1 /\ created' = created
                 \/ idle = 0 /\ idle' = idle /\ created' = created + 1
         \/ \E t \in Threads :
              /\ t \in Leased /\ Leased' = Leased \ {t}
              /\ idle' = idle + 1 /\ created' = created
<1> DEFINE Goal == \/ UNCHANGED <<idle, created>> /\ Leased' = Leased
                   \/ \E t \in Threads :
                        /\ t \notin Leased /\ Leased' = Leased \cup {t}
                        /\ \/ idle > 0 /\ idle' = idle - 1 /\ created' = created
                           \/ idle = 0 /\ idle' = idle /\ created' = created + 1
                   \/ \E t \in Threads :
                        /\ t \in Leased /\ Leased' = Leased \ {t}
                        /\ idle' = idle + 1 /\ created' = created
<1> USE DEF vars, worldVars, poolVars, localVars, Leased, Working
<1>1. CASE WriteFile \/ Release \/ (\E c \in Contexts : WriteContext(c)) \/ UNCHANGED vars
  BY <1>1 DEF WriteFile, Release, WriteContext
<1>2. ASSUME NEW t \in Threads, Step(t) PROVE Goal
  <2>1. CASE Call(t) \/ Fingerprint(t) \/ ReadRevision(t)
    BY <2>1 DEF Call, Fingerprint, ReadRevision, Goto, ParserTypeOK
  <2>2. CASE Lookup(t)
    BY <2>2 DEF Lookup, Return, Goto, ParserTypeOK
  <2>3. CASE Checkout(t)
    BY <2>3 DEF Checkout, Goto, ParserTypeOK
  <2>4. CASE Recheck(t)
    BY <2>4 DEF Recheck, Return, ReturnParser, Goto, ParserTypeOK
  <2>5. CASE ReadOld(t)
    BY <2>5 DEF ReadOld, Goto, ParserTypeOK
  <2>6. CASE ParseFails(t)
    BY <2>6 DEF ParseFails, Return, ReturnParser, ParserTypeOK
  <2>7. CASE Insert(t)
    BY <2>7 DEF Insert, Return, ParserTypeOK
  <2>8. ASSUME NEW n \in BOOLEAN, NEW o \in BOOLEAN, NEW d \in BOOLEAN, Parse(t, n, o, d)
        PROVE  Goal
    BY <2>8 DEF Parse, Goto, ReturnParser, ParserTypeOK
  <2>9. ASSUME NEW i \in BOOLEAN, Recover(t, i) PROVE Goal
    BY <2>9 DEF Recover, Goto, ReturnParser, ParserTypeOK
  <2>10. QED
    BY <1>2, <2>1, <2>2, <2>3, <2>4, <2>5, <2>6, <2>7, <2>8, <2>9 DEF Step
<1>3. QED
  BY <1>1, <1>2 DEF Next

-----------------------------------------------------------------------------
\* parse_snapshot's state keeps its types, with every version and revision
\* within the number of writes.
THEOREM ParserTypes == Spec => []ParserTypeOK
<1>1. ParseInv => ParserTypeOK
  BY DEF ParseInv
<1>2. QED
  BY <1>1, ParseInvHolds, PTL

\* Whatever peers cache meanwhile, parse_snapshot answers with a tree of the
\* snapshot and the context it was asked for.
THEOREM ParserAnswersItsSnapshot == Spec => []ResultIsForSnapshot
<1>1. ParseInv => ResultIsForSnapshot
  BY DEF ParseInv
<1>2. QED
  BY <1>1, ParseInvHolds, PTL

\* Neither the cache nor an answer ever holds a tree that descends from a
\* placeholder or from a recovered or normalized buffer, however long the chain of
\* incremental reparses: used_recovery and the timeout diagnostic are set on every
\* path that makes such a tree.
THEOREM ParserTreesSound == Spec => []NoCorruptTree
<1>1. ParseInv => NoCorruptTree
  BY DEF ParseInv, SoundTrees, SoundEntry, NoCorruptTree
<1>2. QED
  BY <1>1, ParseInvHolds, PTL

\* The cached entry only moves to newer versions, and to newer revisions within
\* a version, in whatever order threads finish.
THEOREM ParserKeepsNewest == Spec => NewestKept
<1> DEFINE Newer == cache # None /\ cache' # None /\ cache' # cache =>
                      \/ cache'.version > cache.version
                      \/ cache'.version = cache.version /\ cache'.rev >= cache.rev
<1>1. ParseInv /\ [Next]_vars => [Newer]_vars
  <2> SUFFICES ASSUME ParseInv, Next PROVE Newer
    OBVIOUS
  <2> USE DEF worldVars, poolVars, localVars
  <2>1. CASE WriteFile \/ Release \/ (\E c \in Contexts : WriteContext(c))
    BY <2>1 DEF WriteFile, Release, WriteContext
  <2>2. ASSUME NEW t \in Threads, Step(t) PROVE Newer
    <3>1. CASE Insert(t)
      <4>1. cache' = cache \/ (~Superseded(t) /\ cache' = Parsed(t))
        BY <3>1 DEF Insert
      <4>2. cache # None => cache \in Entries
        BY DEF ParseInv, ParserTypeOK
      <4>3. Parsed(t).version = snapshot[t] /\ Parsed(t).rev = seenRev[t]
        BY ParsedIsEntry DEF ParseInv
      <4>4. /\ cache # None => cache.version \in Nat /\ cache.rev \in Nat
            /\ snapshot[t] \in Nat /\ seenRev[t] \in Nat
        BY <4>2, ParserAssumption DEF Entries, ParseInv, ParserTypeOK
      <4>5. QED
        BY <4>1, <4>3, <4>4 DEF Superseded
    <3>2. CASE ~Insert(t)
      BY <2>2, <3>2 DEF Step, Call, Fingerprint, ReadRevision, Lookup, Checkout, Recheck,
           ReadOld, ParseFails, Parse, Recover
    <3>3. QED
      BY <3>1, <3>2
  <2>3. QED
    BY <2>1, <2>2 DEF Next
<1>2. QED
  BY <1>1, ParseInvHolds, PTL DEF Spec, NewestKept

\* No parser of the grammar's pool is lost or handed out twice, on any return
\* path, and the pool never outgrows the number of threads.
THEOREM ParserPoolBalanced == Spec => []ParsersAccounted
<1>1. Init => ParsersAccounted
  <2> SUFFICES ASSUME Init PROVE ParsersAccounted
    OBVIOUS
  <2>1. Leased = {}
    BY DEF Init, Leased, Working
  <2>2. Cardinality({}) = 0 /\ Cardinality(Threads) \in Nat
    BY FS_EmptySet, FS_CardinalityType, ParserAssumption
  <2>3. QED
    BY <2>1, <2>2 DEF Init, ParsersAccounted
<1>2. ParserTypeOK /\ ParsersAccounted /\ [Next]_vars => ParsersAccounted'
  <2> SUFFICES ASSUME ParserTypeOK, ParsersAccounted, [Next]_vars PROVE ParsersAccounted'
    OBVIOUS
  <2>1. Leased \in SUBSET Threads /\ Leased' \in SUBSET Threads /\ idle \in Nat /\ created \in Nat
    BY DEF Leased, ParserTypeOK
  <2>2. CASE UNCHANGED <<idle, created>> /\ Leased' = Leased
    BY <2>2 DEF ParsersAccounted
  <2>3. ASSUME NEW t \in Threads, t \notin Leased, Leased' = Leased \cup {t},
               \/ idle > 0 /\ idle' = idle - 1 /\ created' = created
               \/ idle = 0 /\ idle' = idle /\ created' = created + 1
        PROVE  ParsersAccounted'
    <3>1. /\ Cardinality(Leased) \in Nat /\ Cardinality(Threads) \in Nat
          /\ Cardinality(Leased') = Cardinality(Leased) + 1
      BY <2>1, <2>3, LeaseCounts, ParserAssumption
    <3>2. Cardinality(Leased') <= Cardinality(Threads)
      BY <2>1, LeaseCounts, ParserAssumption
    <3>3. QED
      BY <2>1, <2>3, <3>1, <3>2 DEF ParsersAccounted
  <2>4. ASSUME NEW t \in Threads, t \in Leased, Leased' = Leased \ {t},
               idle' = idle + 1, created' = created
        PROVE  ParsersAccounted'
    <3>1. /\ Cardinality(Leased) \in Nat /\ Cardinality(Leased') = Cardinality(Leased) - 1
      BY <2>1, <2>4, LeaseCounts, ParserAssumption
    <3>2. QED
      BY <2>1, <2>4, <3>1 DEF ParsersAccounted
  <2>5. QED
    BY <2>2, <2>3, <2>4, PoolMoves
<1>3. QED
  BY <1>1, <1>2, ParserTypes, PTL DEF Spec
=============================================================================
