------------------------------ MODULE SpillStore ------------------------------
(***************************************************************************)
(* The external-memory containers of the compiler's fixed points           *)
(* (crates/idg/src/spill_set.rs), as operators on records.                 *)
(*                                                                         *)
(* A SpillSet is an exact set of integer keys: a bounded resident table,   *)
(* immutable sorted runs in levels that merge like a binary counter, one   *)
(* Bloom filter over everything that ever spilled, and a CLOCK cache of    *)
(* keys proven present.  A SpillStack is a bounded LIFO frontier: a full   *)
(* resident part is written as one chunk at the end of a file, and the     *)
(* newest chunk is read back when the resident part is empty.              *)
(*                                                                         *)
(* A file is the sequence of the keys it holds and a key the number the    *)
(* code packs; I/O errors panic in the code and are left out.              *)
(***************************************************************************)
EXTENDS Integers, Sequences, FiniteSets, SequencesExt

CONSTANTS
    MaxResident,     \* max_resident_entries of a set
    MaxFrontier,     \* max_resident_entries of a stack
    RunIndexStride,  \* RUN_INDEX_STRIDE: keys per checkpoint of a run
    Associativity,   \* RECENT_POSITIVE_ASSOCIATIVITY
    SetCount,        \* cache sets of a RecentPositiveCache
    BloomBits,       \* bit_len of the filter
    BloomHashCount,  \* hash_count of the filter
    PrefixUnit       \* keys per prefix: 2^96 in the code

ASSUME SpillAssumption ==
    /\ MaxResident \in Nat \ {0} /\ MaxFrontier \in Nat \ {0}
    /\ RunIndexStride \in Nat \ {0} /\ Associativity \in Nat \ {0}
    /\ SetCount \in Nat \ {0} /\ BloomBits \in Nat \ {0}
    /\ BloomHashCount \in Nat \ {0} /\ PrefixUnit \in Nat \ {0}

\* The smallest element of a set of integers, n if it is empty.
LeastOr(S, n) == IF S = {} THEN n ELSE CHOOSE x \in S : \A y \in S : x <= y

\* The sequence of the elements of a finite set of integers in ascending order.
Sorted(S) ==
    [i \in 1..Cardinality(S) |->
        CHOOSE x \in S : Cardinality({y \in S : y < x}) = i - 1]

\* At most n elements of a sequence, from its position i on.
Slice(seq, i, n) == SubSeq(seq, i, IF Len(seq) < i + n - 1 THEN Len(seq) ELSE i + n - 1)

(***************************************************************************)
(* The Bloom filter: the set of its one bits, {} before it is allocated.   *)
(* mix64 is some fixed hash; here a small linear one, so that different    *)
(* keys do collide.                                                        *)
(***************************************************************************)
mix64(key) == key * 7 + key \div 5

BloomBitsOf(key) ==
    {(mix64(key) + round * (2 * mix64(key + 3) + 1)) % BloomBits :
        round \in 0..(BloomHashCount - 1)}

MayContain(filter, key) == BloomBitsOf(key) \subseteq filter

(***************************************************************************)
(* Sorted runs.  The checkpoints of a run are its first key of every       *)
(* stride; locate looks only into the block its checkpoint names.          *)
(***************************************************************************)
Checkpoints(run) ==
    [i \in 1..((Len(run) + RunIndexStride - 1) \div RunIndexStride) |->
        run[(i - 1) * RunIndexStride + 1]]

\* The block that can hold a key: its first position, counted from 0.
BlockStart(run, key) ==
    LET below == Cardinality({i \in DOMAIN Checkpoints(run) : Checkpoints(run)[i] <= key})
    IN  (IF below = 0 THEN 0 ELSE below - 1) * RunIndexStride

Below(block, key) == Cardinality({i \in DOMAIN block : block[i] < key})

LocateInBlock(start, block, key) ==
    [index |-> start + Below(block, key),
     found |-> Below(block, key) < Len(block) /\ block[Below(block, key) + 1] = key]

Locate(run, key) ==
    LocateInBlock(BlockStart(run, key), Slice(run, BlockStart(run, key) + 1, RunIndexStride), key)

MergeRuns(left, right) == Sorted(ToSet(left) \cup ToSet(right))

\* The keys of one prefix above `after` that a run holds, at most limit many.
AppendPrefixBatch(run, prefix, after, limit) ==
    LET lower == prefix * PrefixUnit
        upper == (prefix + 1) * PrefixUnit - 1
        first == IF after + 1 > lower THEN after + 1 ELSE lower
        from  == Locate(run, first).index + 1
        stop  == LeastOr({i \in from..Len(run) : run[i] > upper}, Len(run) + 1)
    IN  IF after >= upper THEN <<>> ELSE Slice(SubSeq(run, from, stop - 1), 1, limit)

(***************************************************************************)
(* The recent-positive cache: <<>> before the first spill, then one record *)
(* per cache set.  Ways fill in order and are never emptied, so the        *)
(* occupied ways of a set are a sequence.                                  *)
(***************************************************************************)
EmptyCache == [s \in 1..SetCount |-> [ways |-> <<>>, hand |-> 0]]

SetIndex(key) == 1 + (mix64(key) % SetCount)

Cached(cache, key) ==
    cache # <<>> /\ \E i \in DOMAIN cache[SetIndex(key)].ways :
                        cache[SetIndex(key)].ways[i].key = key

\* RecentPositiveCache::contains refreshes the CLOCK bit of the way it hits.
TouchKey(cache, key) ==
    IF ~Cached(cache, key) THEN cache
    ELSE [cache EXCEPT ![SetIndex(key)].ways =
             [i \in DOMAIN @ |-> IF @[i].key = key THEN [@[i] EXCEPT !.ref = TRUE] ELSE @[i]]]

RememberAbsent(cache, key) ==
    LET set   == cache[SetIndex(key)]
        way   == [key |-> key, ref |-> TRUE]
        \* The sweep starts at the hand; passed ways lose their bit, and a
        \* sweep that finds every bit set comes back to where it started.
        at(d) == 1 + ((set.hand + d) % Associativity)
        cold  == {d \in 0..(Associativity - 1) : ~set.ways[at(d)].ref}
        dist  == LeastOr(cold, Associativity)
    IN  [cache EXCEPT ![SetIndex(key)] =
            IF Len(set.ways) < Associativity
            THEN [set EXCEPT !.ways = Append(@, way)]
            ELSE [ways |-> [i \in 1..Associativity |->
                              IF i = at(dist) THEN way
                              ELSE IF \E d \in 0..(dist - 1) : at(d) = i
                                   THEN [set.ways[i] EXCEPT !.ref = FALSE]
                                   ELSE set.ways[i]],
                  hand |-> (set.hand + dist + 1) % Associativity]]

Remember(cache, key) ==
    IF Cached(cache, key) THEN TouchKey(cache, key) ELSE RememberAbsent(cache, key)

RememberAll(cache, keys) ==
    LET after[i \in 0..Len(keys)] == IF i = 0 THEN cache ELSE Remember(after[i-1], keys[i])
    IN  after[Len(keys)]

(***************************************************************************)
(* SpillSet.                                                               *)
(***************************************************************************)
EmptySpillSet(trackPrefixes) ==
    [resident |-> {}, recent |-> <<>>, byPrefix |-> {}, track |-> trackPrefixes,
     levels |-> <<>>, filter |-> {}, len |-> 0]

RunsOf(s) == {s.levels[i] : i \in DOMAIN s.levels} \ {<<>>}

ContainsInRuns(s, key) ==
    /\ s.levels # <<>>
    /\ MayContain(s.filter, key)
    /\ \E run \in RunsOf(s) : Locate(run, key).found

\* The part of `contains` that a reader runs under the shared lock: the answer,
\* and whether the key must still be promoted under the exclusive one.
Found(s, key, hit, inRuns) ==
    [found |-> hit \/ inRuns, promote |-> ~hit /\ inRuns,
     set |-> [s EXCEPT !.recent = TouchKey(@, key)]]

LookupKey(s, key) ==
    Found(s, key, key \in s.resident \/ Cached(s.recent, key), ContainsInRuns(s, key))

\* Mutant: the promoting reader does not look again.
PromoteUnchecked(s, key) == [s EXCEPT !.recent = RememberAbsent(@, key)]

Promote(s, key) == [s EXCEPT !.recent = Remember(@, key)]

\* The whole of `contains` for a caller that is not interrupted.
Promoted(seen, key) ==
    [found |-> seen.found, set |-> IF seen.promote THEN Promote(seen.set, key) ELSE seen.set]

ContainsKey(s, key) == Promoted(LookupKey(s, key), key)

\* The new run climbs the occupied levels, merging with each, into the first
\* free one.
PushRun(levels, run) ==
    LET free   == LeastOr({i \in DOMAIN levels : levels[i] = <<>>}, Len(levels) + 1)
        merged[i \in 0..(free - 1)] == IF i = 0 THEN run ELSE MergeRuns(levels[i], merged[i-1])
    IN  [i \in 1..(IF free > Len(levels) THEN free ELSE Len(levels)) |->
            IF i < free THEN <<>> ELSE IF i = free THEN merged[free-1] ELSE levels[i]]

\* Mutant: the prefix rows of the flushed keys stay.
FlushKeepsRows(s) ==
    LET keys == Sorted(s.resident)
    IN  [s EXCEPT !.resident = {},
                  !.recent = RememberAll(IF @ = <<>> THEN EmptyCache ELSE @, keys),
                  !.filter = @ \cup UNION {BloomBitsOf(key) : key \in s.resident},
                  !.levels = PushRun(@, keys)]

Flush(s) ==
    LET keys == Sorted(s.resident)
    IN  [s EXCEPT !.resident = {},
                  !.recent = RememberAll(IF @ = <<>> THEN EmptyCache ELSE @, keys),
                  !.filter = @ \cup UNION {BloomBitsOf(key) : key \in s.resident},
                  !.byPrefix = {},
                  !.levels = PushRun(@, keys)]

FlushIfFull(s) == IF Cardinality(s.resident) >= MaxResident THEN Flush(s) ELSE s

\* insert: the set after it and whether the key is new.
Insert(s, key) ==
    IF key \in s.resident THEN [new |-> FALSE, set |-> s]
    ELSE IF Cached(s.recent, key)
    THEN [new |-> FALSE, set |-> [s EXCEPT !.recent = TouchKey(@, key)]]
    ELSE IF ContainsInRuns(s, key)
    THEN [new |-> FALSE, set |-> [s EXCEPT !.recent = RememberAbsent(@, key)]]
    ELSE [new |-> TRUE,
          set |-> FlushIfFull([s EXCEPT !.resident = @ \cup {key},
                                        !.recent = IF @ = <<>> THEN @ ELSE RememberAbsent(@, key),
                                        !.byPrefix = IF s.track THEN @ \cup {key} ELSE @,
                                        !.len = @ + 1])]

KeysWithPrefixBatch(s, prefix, after, limit) ==
    LET filed == {key \in s.byPrefix : key \div PrefixUnit = prefix /\ key > after}
    IN  Slice(Sorted(ToSet(Slice(Sorted(filed), 1, limit))
                       \cup UNION {ToSet(AppendPrefixBatch(run, prefix, after, limit)) :
                                      run \in RunsOf(s)}),
              1, limit)

(***************************************************************************)
(* SpillStack.                                                             *)
(***************************************************************************)
EmptySpillStack == [resident |-> <<>>, file |-> <<>>, chunks |-> <<>>, len |-> 0]

FlushStack(s) ==
    [s EXCEPT !.file = @ \o s.resident,
              !.chunks = Append(@, [offset |-> Len(s.file), len |-> Len(s.resident)]),
              !.resident = <<>>]

ReloadStack(s) ==
    IF s.chunks = <<>> THEN s
    ELSE LET chunk == Last(s.chunks)
         IN  [s EXCEPT !.chunks = Front(@),
                       !.resident = SubSeq(s.file, chunk.offset + 1, chunk.offset + chunk.len),
                       !.file = SubSeq(@, 1, chunk.offset)]

Push(s, key) ==
    LET pushed == [s EXCEPT !.resident = Append(@, key), !.len = @ + 1]
    IN  IF Len(pushed.resident) >= MaxFrontier THEN FlushStack(pushed) ELSE pushed

StackIsEmpty(s) == s.len = 0

\* Mutant: pop forgets the length.
PopKeepsLen(s) ==
    LET ready == IF s.resident = <<>> THEN ReloadStack(s) ELSE s
    IN  IF ready.resident = <<>> THEN [some |-> FALSE, key |-> 0, stack |-> ready]
        ELSE [some |-> TRUE, key |-> Last(ready.resident),
              stack |-> [ready EXCEPT !.resident = Front(@)]]

\* pop: none when the stack holds nothing, otherwise the newest key.
Pop(s) ==
    LET ready == IF s.resident = <<>> THEN ReloadStack(s) ELSE s
    IN  IF ready.resident = <<>> THEN [some |-> FALSE, key |-> 0, stack |-> ready]
        ELSE [some |-> TRUE, key |-> Last(ready.resident),
              stack |-> [ready EXCEPT !.resident = Front(@), !.len = @ - 1]]

(***************************************************************************)
(* What the containers promise, for the invariants of their users.         *)
(***************************************************************************)
\* A set stores each key once: the resident table and the runs are disjoint and
\* add up to len, a run on level i holds 2^(i-1) flushes and is found through
\* its checkpoints, the filter misses no spilled key, the cache holds only
\* members, none twice, and the prefix rows are the resident keys.
SetIsExact(s) ==
    LET spilled == UNION {ToSet(run) : run \in RunsOf(s)}
        members == s.resident \cup spilled
    IN  /\ s.len = Cardinality(members)
        /\ s.resident \cap spilled = {}
        /\ \A i \in DOMAIN s.levels :
              \/ s.levels[i] = <<>>
              \/ /\ Len(s.levels[i]) = MaxResident * 2^(i - 1)
                 /\ \A j \in DOMAIN s.levels[i] :
                       Locate(s.levels[i], s.levels[i][j]) = [index |-> j - 1, found |-> TRUE]
        /\ \A i, j \in DOMAIN s.levels :
              i # j => ToSet(s.levels[i]) \cap ToSet(s.levels[j]) = {}
        /\ \A key \in spilled : MayContain(s.filter, key)
        /\ s.track => s.byPrefix = s.resident

CacheIsExact(s) ==
    /\ (s.recent = <<>>) <=> (s.levels = <<>>)
    /\ \A c \in DOMAIN s.recent :
          LET ways == s.recent[c].ways
          IN  /\ Len(ways) <= Associativity
              /\ \A i \in DOMAIN ways :
                    ways[i].key \in s.resident \cup UNION {ToSet(run) : run \in RunsOf(s)}
              /\ \A i, j \in DOMAIN ways : ways[i].key = ways[j].key => i = j

\* The chunks of a stack tile its file in order, none is empty, and len counts
\* every key that is resident or in the file.
StackIsExact(s) ==
    /\ s.len = Len(s.resident) + Len(s.file)
    /\ Len(s.resident) < MaxFrontier
    /\ \A i \in DOMAIN s.chunks :
          /\ s.chunks[i].len > 0
          /\ s.chunks[i].offset = IF i = 1 THEN 0 ELSE s.chunks[i-1].offset + s.chunks[i-1].len
    /\ Len(s.file) = IF s.chunks = <<>> THEN 0
                     ELSE Last(s.chunks).offset + Last(s.chunks).len
===============================================================================
