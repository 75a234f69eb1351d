--------------------------- MODULE ExactBodyCache ---------------------------
(***************************************************************************)
(* ExactBodyCache (crates/workspace/src/exact_body_cache.rs): a byte-      *)
(* budgeted LRU cache of lowered file bodies with one build per missing    *)
(* key.                                                                    *)
(*                                                                         *)
(* get_or_insert_with looks up under the mutex, builds or waits outside it *)
(* on the OnceLock cell it found or created, and settles under the mutex   *)
(* again: whoever first sees the finished cell in the in-flight slot frees *)
(* the slot and may retain the body.  clear may fall anywhere in between.  *)
(* Cells are the OnceLock allocations; Arc::ptr_eq is equality of cells.   *)
(***************************************************************************)
EXTENDS WeightSums, Sequences

CONSTANTS
  Keys,       \* (FileId, version) pairs
  Callers,    \* threads
  Cells,      \* the OnceLock allocations there can be
  Bytes,      \* Bytes[k]: estimated_exact_body_bytes of k
  Budget,     \* budget_bytes
  MaxClears,  \* bound: calls of clear
  None        \* no cell

ASSUME CacheAssumption ==
  /\ Keys # {} /\ Cells # {}
  /\ Bytes \in [Keys -> Nat]
  /\ Budget \in Nat \ {0}
  /\ MaxClears \in Nat
  /\ None \notin Cells \cup Callers

VARIABLES
  lru,        \* the keys of `entries`, least recently used first
  entry,      \* entry[k]: the cell of k's resident entry, or None
  flight,     \* flight[k]: the cell of k's in-flight slot, or None
  estimated,  \* estimated_bytes
  generation, \* retention_generation
  state,      \* state[x]: "unused", "empty", "building", "some", "none"
  born,       \* born[x]: the flight's retention_generation
  pc,         \* pc[c]: where caller c is
  key,        \* key[c]: its key
  cell,       \* cell[c]: the cell it works on
  flew,       \* flew[c]: it found or created a flight (flight_generation is Some)
  evictor     \* the caller that evicts, mutex in hand, or None

vars == <<lru, entry, flight, estimated, generation, state, born, pc, key, cell, flew, evictor>>

CellStates == {"unused", "empty", "building", "some", "none"}
Places == {"idle", "init", "build", "settle"}

CacheTypeOK ==
  /\ lru \in Seq(Keys)
  /\ entry \in [Keys -> Cells \cup {None}]
  /\ flight \in [Keys -> Cells \cup {None}]
  /\ estimated \in Nat
  /\ generation \in Nat
  /\ state \in [Cells -> CellStates]
  /\ born \in [Cells -> Nat]
  /\ pc \in [Callers -> Places]
  /\ key \in [Callers -> Keys]
  /\ cell \in [Callers -> Cells]
  /\ flew \in [Callers -> BOOLEAN]
  /\ evictor \in Callers \cup {None}

Init ==
  /\ lru = <<>>
  /\ entry = [k \in Keys |-> None]
  /\ flight = [k \in Keys |-> None]
  /\ estimated = 0 /\ generation = 0
  /\ state = [x \in Cells |-> "unused"]
  /\ born = [x \in Cells |-> 0]
  /\ pc = [c \in Callers |-> "idle"]
  /\ key = [c \in Callers |-> CHOOSE k \in Keys : TRUE]
  /\ cell = [c \in Callers |-> CHOOSE x \in Cells : TRUE]
  /\ flew = [c \in Callers |-> FALSE]
  /\ evictor = None

\* The mutex: every other critical section is one action.
Unlocked == evictor = None

\* LruCache moves the key it touches to the back.
Without(s, k) ==
  IF \E i \in DOMAIN s : s[i] = k
  THEN LET p == CHOOSE i \in DOMAIN s : s[i] = k
       IN  [i \in 1..(Len(s) - 1) |-> IF i < p THEN s[i] ELSE s[i + 1]]
  ELSE s
Touch(s, k) == Append(Without(s, k), k)

Resident == {k \in Keys : entry[k] # None}

-----------------------------------------------------------------------------
(* get_or_insert_with: lookup *)

Hit(c, k) ==
  /\ Unlocked /\ pc[c] = "idle"
  /\ entry[k] # None
  /\ lru' = Touch(lru, k)
  /\ pc' = [pc EXCEPT ![c] = "init"]
  /\ key' = [key EXCEPT ![c] = k]
  /\ cell' = [cell EXCEPT ![c] = entry[k]]
  /\ flew' = [flew EXCEPT ![c] = FALSE]
  /\ UNCHANGED <<entry, flight, estimated, generation, state, born, evictor>>

JoinFlight(c, k) ==
  /\ Unlocked /\ pc[c] = "idle"
  /\ entry[k] = None /\ flight[k] # None
  /\ pc' = [pc EXCEPT ![c] = "init"]
  /\ key' = [key EXCEPT ![c] = k]
  /\ cell' = [cell EXCEPT ![c] = flight[k]]
  /\ flew' = [flew EXCEPT ![c] = TRUE]
  /\ UNCHANGED <<lru, entry, flight, estimated, generation, state, born, evictor>>

\* Mutant: a miss does not look for a flight under way.
StartFlightBlindly(c, k, x) ==
  /\ Unlocked /\ pc[c] = "idle"
  /\ entry[k] = None
  /\ state[x] = "unused"
  /\ state' = [state EXCEPT ![x] = "empty"]
  /\ born' = [born EXCEPT ![x] = generation]
  /\ flight' = [flight EXCEPT ![k] = x]
  /\ pc' = [pc EXCEPT ![c] = "init"]
  /\ key' = [key EXCEPT ![c] = k]
  /\ cell' = [cell EXCEPT ![c] = x]
  /\ flew' = [flew EXCEPT ![c] = TRUE]
  /\ UNCHANGED <<lru, entry, estimated, generation, evictor>>

StartFlight(c, k, x) ==
  /\ Unlocked /\ pc[c] = "idle"
  /\ entry[k] = None /\ flight[k] = None
  /\ state[x] = "unused"
  /\ state' = [state EXCEPT ![x] = "empty"]
  /\ born' = [born EXCEPT ![x] = generation]
  /\ flight' = [flight EXCEPT ![k] = x]
  /\ pc' = [pc EXCEPT ![c] = "init"]
  /\ key' = [key EXCEPT ![c] = k]
  /\ cell' = [cell EXCEPT ![c] = x]
  /\ flew' = [flew EXCEPT ![c] = TRUE]
  /\ UNCHANGED <<lru, entry, estimated, generation, evictor>>

-----------------------------------------------------------------------------
(* OnceLock::get_or_init, outside the mutex *)

BeginBuild(c) ==
  /\ pc[c] = "init" /\ state[cell[c]] = "empty"
  /\ pc' = [pc EXCEPT ![c] = "build"]
  /\ state' = [state EXCEPT ![cell[c]] = "building"]
  /\ UNCHANGED <<lru, entry, flight, estimated, generation, born, key, cell, flew, evictor>>

EndBuild(c) ==
  /\ pc[c] = "build"
  /\ pc' = [pc EXCEPT ![c] = "settle"]
  /\ \E outcome \in {"some", "none"} : state' = [state EXCEPT ![cell[c]] = outcome]
  /\ UNCHANGED <<lru, entry, flight, estimated, generation, born, key, cell, flew, evictor>>

\* Mutant: a panic leaves the cell marked as being built.
BuildPanicsForGood(c) ==
  /\ pc[c] = "build"
  /\ pc' = [pc EXCEPT ![c] = "idle"]
  /\ UNCHANGED <<lru, entry, flight, estimated, generation, state, born, key, cell, flew, evictor>>

\* A panicking build leaves the cell empty for a waiter and unwinds past the
\* settling section: the in-flight slot stays.
BuildPanics(c) ==
  /\ pc[c] = "build"
  /\ pc' = [pc EXCEPT ![c] = "idle"]
  /\ state' = [state EXCEPT ![cell[c]] = "empty"]
  /\ UNCHANGED <<lru, entry, flight, estimated, generation, born, key, cell, flew, evictor>>

Observe(c) ==
  /\ pc[c] = "init" /\ state[cell[c]] \in {"some", "none"}
  /\ pc' = [pc EXCEPT ![c] = "settle"]
  /\ UNCHANGED <<lru, entry, flight, estimated, generation, state, born, key, cell, flew, evictor>>

-----------------------------------------------------------------------------
(* get_or_insert_with: settle *)

OwnsSlot(c) == flight[key[c]] = cell[c]

\* Mutant: the generation is not compared.
RetainableAcrossClear(c) ==
  /\ state[cell[c]] = "some"
  /\ Bytes[key[c]] <= Budget

Retainable(c) ==
  /\ state[cell[c]] = "some"
  /\ Bytes[key[c]] <= Budget
  /\ flew[c] /\ born[cell[c]] = generation

\* The slot is freed and the body retained; the mutex stays for the evictions.
Retain(c) ==
  /\ Unlocked /\ pc[c] = "settle"
  /\ OwnsSlot(c) /\ Retainable(c)
  /\ flight' = [flight EXCEPT ![key[c]] = None]
  /\ entry' = [entry EXCEPT ![key[c]] = cell[c]]
  /\ lru' = Touch(lru, key[c])
  /\ estimated' =
       SaturatingSub(estimated + Bytes[key[c]], IF entry[key[c]] = None THEN 0 ELSE Bytes[key[c]])
  /\ evictor' = c
  /\ UNCHANGED <<generation, state, born, pc, key, cell, flew>>

\* The slot is freed without retention, or somebody else has freed it.
Settle(c) ==
  /\ Unlocked /\ pc[c] = "settle"
  /\ OwnsSlot(c) => ~Retainable(c)
  /\ flight' = IF OwnsSlot(c) THEN [flight EXCEPT ![key[c]] = None] ELSE flight
  /\ pc' = [pc EXCEPT ![c] = "idle"]
  /\ UNCHANGED <<lru, entry, estimated, generation, state, born, key, cell, flew, evictor>>

\* pop_lru while over the budget.
Evict(c) ==
  /\ evictor = c
  /\ estimated > Budget /\ lru # <<>>
  /\ lru' = Tail(lru)
  /\ entry' = [entry EXCEPT ![Head(lru)] = None]
  /\ estimated' = SaturatingSub(estimated, Bytes[Head(lru)])
  /\ UNCHANGED <<flight, generation, state, born, pc, key, cell, flew, evictor>>

\* The loop ends; the guard is dropped and the result returned.
StopEvicting(c) ==
  /\ evictor = c
  /\ estimated <= Budget \/ lru = <<>>
  /\ evictor' = None
  /\ pc' = [pc EXCEPT ![c] = "idle"]
  /\ UNCHANGED <<lru, entry, flight, estimated, generation, state, born, key, cell, flew>>

\* Mutant: clear forgets the byte count.
ClearKeepsCount ==
  /\ Unlocked
  /\ generation < MaxClears
  /\ lru' = <<>>
  /\ entry' = [k \in Keys |-> None]
  /\ generation' = generation + 1
  /\ UNCHANGED <<flight, estimated, state, born, pc, key, cell, flew, evictor>>

\* clear: residents go, flights stay.
Clear ==
  /\ Unlocked
  /\ generation < MaxClears
  /\ lru' = <<>>
  /\ entry' = [k \in Keys |-> None]
  /\ estimated' = 0
  /\ generation' = generation + 1
  /\ UNCHANGED <<flight, state, born, pc, key, cell, flew, evictor>>

-----------------------------------------------------------------------------
\* A call that goes on after its lookup.
CallStep(c) ==
  \/ BeginBuild(c) \/ EndBuild(c) \/ Observe(c)
  \/ Retain(c) \/ Settle(c) \/ Evict(c) \/ StopEvicting(c)

Lookup(c, k) == Hit(c, k) \/ JoinFlight(c, k) \/ \E x \in Cells : StartFlight(c, k, x)

Next ==
  \/ \E c \in Callers : CallStep(c) \/ BuildPanics(c)
  \/ \E c \in Callers, k \in Keys : Lookup(c, k)
  \/ Clear

CacheSafetySpec == Init /\ [][Next]_vars

\* A call in progress is scheduled, and the mutex is not refused for ever.
CacheSpec == CacheSafetySpec /\ \A c \in Callers : SF_vars(CallStep(c))

-----------------------------------------------------------------------------
\* At most one caller lowers a file at a time, although the flight of a key
\* can end, be evicted or lose its builder to a panic and start again.
SingleFlight ==
  \A c, d \in Callers :
    (pc[c] = "build" /\ pc[d] = "build" /\ key[c] = key[d]) => c = d

\* No resident body was started before the last `clear`: a build that spans
\* the phase boundary is shared with its waiters and then forgotten.
NoRetentionAcrossClear ==
  \A k \in Resident : born[entry[k]] = generation

\* A transient failure never becomes a negative cache entry.
NoNegativeEntry == \A k \in Resident : state[entry[k]] = "some"

\* The byte count is the sum of the resident estimates, through hits,
\* evictions and clears, and within the budget whenever the mutex is free.
BudgetKept ==
  /\ estimated = TotalWeight(Bytes, Resident)
  /\ Unlocked => estimated <= Budget

\* A key is resident or in flight, never both, so that retaining a body never
\* replaces another one.
ResidentOrInFlight == \A k \in Keys : entry[k] = None \/ flight[k] = None

\* Evictions never take the body they make room for.
NewestSurvives ==
  [][\A c \in Callers : evictor = c /\ evictor' = None => entry[key[c]] = cell[c]]_vars

\* Every call returns: a waiter whose builder panicked builds itself.
CallReturns == \A c \in Callers : pc[c] # "idle" ~> pc[c] = "idle"
=============================================================================
