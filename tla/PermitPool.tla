----------------------------- MODULE PermitPool -----------------------------
(***************************************************************************)
(* SyntaxMemoryPermitPool (crates/common/src/resources.rs): the weighted   *)
(* memory gate that every compiler phase submits its source units to.      *)
(*                                                                         *)
(* One mutex guards `used_bytes`; a thread whose unit does not fit sleeps  *)
(* on the condition variable `available`; dropping a permit gives its      *)
(* bytes back and wakes all sleepers.  A critical section of the code is   *)
(* one action here.  A unit stands for one call of acquire/try_acquire and *)
(* the guard it returns, so a thread with several permits is several       *)
(* units, and a unit is submitted once.                                    *)
(***************************************************************************)
EXTENDS WeightSums

CONSTANTS
  Units,     \* the source units submitted to the gate
  Weight,    \* Weight[u]: weighted_compiler_unit_bytes of unit u
  Capacity,  \* capacity_bytes, or NoLimit where the code has None
  NoLimit

\* The weight has a positive base, and both capacity formulas end in max(1).
ASSUME PoolAssumption ==
  /\ IsFiniteSet(Units)
  /\ Weight \in [Units -> Nat \ {0}]
  /\ NoLimit \notin Nat \ {0}
  /\ Capacity \in (Nat \ {0}) \cup {NoLimit}

VARIABLES
  used,      \* *used_bytes
  held,      \* held[u]: admitted_bytes of u's live permit, 0 without one
  at         \* at[u]: where the thread that submits u is

poolVars == <<used, held, at>>

\* "idle": not submitted; "asleep": in Condvar::wait; "woken": notified, about
\* to take the mutex and test again; "held": owns a permit; "released".
Places == {"idle", "asleep", "woken", "held", "released"}

PoolTypeOK ==
  /\ used \in Nat
  /\ held \in [Units -> Nat]
  /\ at \in [Units -> Places]

PoolInit ==
  /\ used = 0
  /\ held = [u \in Units |-> 0]
  /\ at = [u \in Units |-> "idle"]

-----------------------------------------------------------------------------
\* Mutant: the charge is not clamped to the capacity.
AdmittedUnclamped(u) == IF Capacity = NoLimit THEN 0 ELSE Weight[u]

\* An oversize unit is charged the whole capacity; without a limit, nothing.
Admitted(u) ==
  IF Capacity = NoLimit THEN 0
  ELSE IF Weight[u] <= Capacity THEN Weight[u] ELSE Capacity

\* The negated loop condition of acquire: an empty pool admits any unit.
Fits(u) ==
  \/ Capacity = NoLimit
  \/ used = 0
  \/ used + Admitted(u) <= Capacity

Admit(u) ==
  /\ Fits(u)
  /\ used' = used + Admitted(u)
  /\ held' = [held EXCEPT ![u] = Admitted(u)]
  /\ at' = [at EXCEPT ![u] = "held"]

\* Mutant: the bytes are charged before the wait.
SleepCharged(u) ==
  /\ ~Fits(u)
  /\ at' = [at EXCEPT ![u] = "asleep"]
  /\ used' = used + Admitted(u)
  /\ UNCHANGED held

Sleep(u) ==
  /\ ~Fits(u)
  /\ at' = [at EXCEPT ![u] = "asleep"]
  /\ UNCHANGED <<used, held>>

\* The first test of acquire's loop.
Acquire(u) ==
  /\ at[u] = "idle"
  /\ Admit(u) \/ Sleep(u)

\* A notified (or spuriously woken) thread tests the condition again.
Retry(u) ==
  /\ at[u] = "woken"
  /\ Admit(u) \/ Sleep(u)

\* A condition variable may wake a thread nobody notified.
SpuriousWake(u) ==
  /\ at[u] = "asleep"
  /\ at' = [at EXCEPT ![u] = "woken"]
  /\ UNCHANGED <<used, held>>

\* try_acquire; a refused call leaves the pool as it was.
TryAcquire(u) ==
  /\ at[u] = "idle"
  /\ Admit(u)

\* notify_all
WakeAll(place) == [v \in Units |-> IF place[v] = "asleep" THEN "woken" ELSE place[v]]

\* Mutant: Drop forgets the notification.
ReleaseSilently(u) ==
  /\ at[u] = "held"
  /\ used' = SaturatingSub(used, held[u])
  /\ held' = [held EXCEPT ![u] = 0]
  /\ at' = [at EXCEPT ![u] = "released"]

\* Drop of the permit: an unlimited pool's permit returns before the notify.
Release(u) ==
  /\ at[u] = "held"
  /\ used' = SaturatingSub(used, held[u])
  /\ held' = [held EXCEPT ![u] = 0]
  /\ LET dropped == [at EXCEPT ![u] = "released"]
     IN  at' = IF held[u] = 0 THEN dropped ELSE WakeAll(dropped)

-----------------------------------------------------------------------------
PoolNext ==
  \E u \in Units :
    \/ Acquire(u)
    \/ TryAcquire(u)
    \/ Retry(u)
    \/ SpuriousWake(u)
    \/ Release(u)

PoolSafetySpec == PoolInit /\ [][PoolNext]_poolVars

-----------------------------------------------------------------------------
Holders == {u \in Units : at[u] = "held"}

\* The counter that decides every admission is exactly the bytes of the live
\* permits: no release is lost or applied twice, and the saturating
\* subtraction of Drop never clips (resources.rs:387-394).
UsedIsLivePermits == used = TotalWeight(held, Holders)

\* The live permits never exceed the envelope, although the test `*used > 0`
\* admits into an empty pool without comparing with the capacity.
WithinCapacity == Capacity # NoLimit => TotalWeight(held, Holders) <= Capacity

\* "An oversize unit consumes the whole budget and therefore runs alone":
\* while a unit at least as heavy as the capacity holds its permit, no other
\* unit holds one.
OversizeRunsAlone ==
  Capacity # NoLimit =>
    \A u, v \in Units :
      (at[u] = "held" /\ at[v] = "held" /\ Weight[u] >= Capacity) => u = v

\* A sleeper always has a live permit ahead of it whose drop will wake it, so
\* no thread sleeps beside an empty pool.
SleeperHasWaker ==
  (\E u \in Units : at[u] = "asleep") => \E v \in Units : held[v] > 0

=============================================================================
