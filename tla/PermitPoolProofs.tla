-------------------------- MODULE PermitPoolProofs --------------------------
(* SyntaxMemoryPermitPool keeps its accounts, for any units and capacity.  *)
EXTENDS PermitPool, Sequences, FiniteSetTheorems, TLAPS

(* What a sum of weights does when its set gains or loses an element. *)

\* The tokens of one element are as many as its weight.
LEMMA TokensOfOne ==
  ASSUME NEW x, NEW n \in Nat
  PROVE  IsFiniteSet({x} \X (1..n)) /\ Cardinality({x} \X (1..n)) = n
<1>1. IsFiniteSet({x}) /\ Cardinality({x}) = 1
  BY FS_Singleton
<1>2. IsFiniteSet(1..n) /\ Cardinality(1..n) = n
  BY FS_Interval
<1>3. /\ IsFiniteSet({x} \X (1..n))
      /\ Cardinality({x} \X (1..n)) = Cardinality({x}) * Cardinality(1..n)
  BY <1>1, <1>2, FS_Product
<1>4. 1 * n = n
  OBVIOUS
<1>5. QED
  BY <1>1, <1>2, <1>3, <1>4

\* The empty set weighs nothing.
LEMMA WeightOfEmpty ==
  ASSUME NEW f
  PROVE  IsFiniteSet(WeightTokens(f, {})) /\ TotalWeight(f, {}) = 0
<1>1. WeightTokens(f, {}) = {}
  BY DEF WeightTokens
<1>2. QED
  BY <1>1, FS_EmptySet DEF TotalWeight

\* Only the weights of the set's elements matter.
LEMMA WeightAgree ==
  ASSUME NEW f, NEW g, NEW S, \A x \in S : f[x] = g[x]
  PROVE  WeightTokens(f, S) = WeightTokens(g, S)
BY DEF WeightTokens

\* A new element adds its weight.
LEMMA WeightAdd ==
  ASSUME NEW f, NEW S, NEW x, x \notin S, f[x] \in Nat,
         IsFiniteSet(WeightTokens(f, S))
  PROVE  /\ IsFiniteSet(WeightTokens(f, S \cup {x}))
         /\ TotalWeight(f, S \cup {x}) = TotalWeight(f, S) + f[x]
<1> DEFINE A == WeightTokens(f, S)
           B == {x} \X (1..f[x])
<1>1. WeightTokens(f, S \cup {x}) = A \cup B
  BY DEF WeightTokens
<1>2. A \cap B = {}
  BY DEF WeightTokens
<1>3. IsFiniteSet(B) /\ Cardinality(B) = f[x]
  BY TokensOfOne
<1>4. Cardinality(A) \in Nat
  BY FS_CardinalityType
<1>5. IsFiniteSet(A \cup B) /\ Cardinality(A \cup B) = Cardinality(A) + Cardinality(B) - Cardinality(A \cap B)
  BY <1>3, FS_Union
<1>6. Cardinality(A \cap B) = 0
  BY <1>2, FS_EmptySet
<1> HIDE DEF A, B
<1>7. Cardinality(A \cup B) = Cardinality(A) + f[x]
  BY <1>3, <1>4, <1>5, <1>6
<1>8. TotalWeight(f, S) = Cardinality(A)
  BY DEF TotalWeight, A
<1>9. QED
  BY <1>1, <1>5, <1>7, <1>8 DEF TotalWeight

\* An element that leaves takes its weight with it, and never more than the
\* sum held.
LEMMA WeightRemove ==
  ASSUME NEW f, NEW S, NEW x \in S, f[x] \in Nat,
         IsFiniteSet(WeightTokens(f, S))
  PROVE  /\ IsFiniteSet(WeightTokens(f, S \ {x}))
         /\ TotalWeight(f, S \ {x}) \in Nat
         /\ TotalWeight(f, S) = TotalWeight(f, S \ {x}) + f[x]
<1>1. WeightTokens(f, S \ {x}) \in SUBSET WeightTokens(f, S)
  BY DEF WeightTokens
<1>2. IsFiniteSet(WeightTokens(f, S \ {x}))
  BY <1>1, FS_Subset
<1>3. (S \ {x}) \cup {x} = S
  OBVIOUS
<1>4. TotalWeight(f, (S \ {x}) \cup {x}) = TotalWeight(f, S \ {x}) + f[x]
  BY <1>2, WeightAdd
<1>5. TotalWeight(f, S \ {x}) \in Nat
  BY <1>2, FS_CardinalityType DEF TotalWeight
<1>6. QED
  BY <1>2, <1>3, <1>4, <1>5

\* The sum is a natural number.
LEMMA WeightNat ==
  ASSUME NEW f, NEW S, IsFiniteSet(WeightTokens(f, S))
  PROVE  TotalWeight(f, S) \in Nat
BY FS_CardinalityType DEF TotalWeight

\* A set that weighs something has an element of positive weight.
LEMMA WeightPositive ==
  ASSUME NEW f, NEW S, \A x \in S : f[x] \in Nat, TotalWeight(f, S) # 0
  PROVE  \E x \in S : f[x] > 0
<1> SUFFICES ASSUME \A x \in S : f[x] = 0
             PROVE  TotalWeight(f, S) = 0
  OBVIOUS
<1>1. \A x \in S : {x} \X (1..f[x]) = {}
  <2>1. 1..0 = {}
    OBVIOUS
  <2>2. QED
    BY <2>1
<1>2. WeightTokens(f, S) = {}
  BY <1>1 DEF WeightTokens
<1>3. QED
  BY <1>2, FS_EmptySet DEF TotalWeight

-----------------------------------------------------------------------------
(* The gate. *)

\* A permit carries the admitted bytes of its unit exactly while it is live.
PermitMatchesUnit ==
  \A u \in Units : held[u] = IF at[u] = "held" THEN Admitted(u) ELSE 0

\* The sum over the live permits is a sum over a finite set.
PermitsFinite == IsFiniteSet(WeightTokens(held, Holders))

\* The inductive invariant: `used` alone says nothing of who holds the bytes,
\* so it travels with the bytes of every single permit.
PoolIInv ==
  /\ PoolTypeOK
  /\ PermitMatchesUnit
  /\ PermitsFinite
  /\ UsedIsLivePermits
  /\ Capacity # NoLimit => used <= Capacity

\* What a unit is charged lies between one byte and the capacity.
LEMMA AdmittedBounds ==
  ASSUME NEW u \in Units
  PROVE  /\ Admitted(u) \in Nat
         /\ Capacity # NoLimit => Admitted(u) \in 1..Capacity
         /\ Capacity = NoLimit => Admitted(u) = 0
BY PoolAssumption DEF Admitted

\* A new permit adds its bytes to the sum of the live ones (acquire).
LEMMA AdmitKeepsIInv ==
  ASSUME PoolIInv, NEW u \in Units, at[u] # "held", Admit(u)
  PROVE  PoolIInv'
<1> USE DEF PoolIInv
<1>1. Admitted(u) \in Nat
  BY AdmittedBounds
<1>2. PoolTypeOK'
  BY <1>1 DEF PoolTypeOK, Admit, Places
<1>3. PermitMatchesUnit'
  BY DEF PermitMatchesUnit, Admit, PoolTypeOK, Admitted
<1>4. Holders' = Holders \cup {u} /\ u \notin Holders
  BY DEF Holders, Admit, PoolTypeOK
<1>5. WeightTokens(held', Holders) = WeightTokens(held, Holders)
  <2>1. \A v \in Holders : held'[v] = held[v]
    BY <1>4 DEF Admit, PoolTypeOK, Holders
  <2>2. QED
    BY <2>1, WeightAgree
<1>6. held'[u] = Admitted(u)
  BY DEF Admit, PoolTypeOK
<1>7. /\ IsFiniteSet(WeightTokens(held', Holders \cup {u}))
      /\ TotalWeight(held', Holders \cup {u}) = TotalWeight(held', Holders) + held'[u]
  BY <1>1, <1>4, <1>5, <1>6, WeightAdd DEF PermitsFinite
<1>8. PermitsFinite'
  BY <1>4, <1>7 DEF PermitsFinite
<1>9. UsedIsLivePermits'
  <2>1. TotalWeight(held', Holders) = used
    BY <1>5 DEF UsedIsLivePermits, TotalWeight
  <2>2. TotalWeight(held', Holders') = used + Admitted(u)
    BY <1>4, <1>6, <1>7, <2>1
  <2>3. QED
    BY <2>2 DEF UsedIsLivePermits, Admit
<1>10. (Capacity # NoLimit => used <= Capacity)'
  BY AdmittedBounds, PoolAssumption DEF Admit, Fits, PoolTypeOK
<1>11. QED
  BY <1>2, <1>3, <1>8, <1>9, <1>10

\* A dropped permit takes its bytes out of the sum (Drop).
LEMMA ReleaseKeepsIInv ==
  ASSUME PoolIInv, NEW u \in Units, Release(u)
  PROVE  PoolIInv'
<1> USE DEF PoolIInv
<1>1. held[u] \in Nat /\ u \in Holders
  BY DEF PoolTypeOK, Release, Holders
<1>2. PoolTypeOK'
  BY DEF PoolTypeOK, Release, Places, WakeAll, SaturatingSub
<1>3. /\ at'[u] = "released"
      /\ \A v \in Units \ {u} : at'[v] = "held" <=> at[v] = "held"
  BY DEF Release, WakeAll, PoolTypeOK, Places
<1>4. held' = [held EXCEPT ![u] = 0]
  BY DEF Release
<1>5. PermitMatchesUnit'
  BY <1>3, <1>4 DEF PermitMatchesUnit, PoolTypeOK, Admitted
<1>6. Holders' = Holders \ {u}
  BY <1>3 DEF Holders
<1>7. WeightTokens(held', Holders \ {u}) = WeightTokens(held, Holders \ {u})
  <2>1. \A v \in Holders \ {u} : held'[v] = held[v]
    BY <1>4 DEF PoolTypeOK, Holders
  <2>2. QED
    BY <2>1, WeightAgree
<1>8. /\ IsFiniteSet(WeightTokens(held, Holders \ {u}))
      /\ TotalWeight(held, Holders \ {u}) \in Nat
      /\ TotalWeight(held, Holders) = TotalWeight(held, Holders \ {u}) + held[u]
  BY <1>1, WeightRemove DEF PermitsFinite
<1>9. PermitsFinite'
  BY <1>6, <1>7, <1>8 DEF PermitsFinite
<1>10. used' = TotalWeight(held, Holders \ {u})
  BY <1>1, <1>8 DEF Release, SaturatingSub, UsedIsLivePermits
<1>11. UsedIsLivePermits'
  BY <1>6, <1>7, <1>10 DEF UsedIsLivePermits, TotalWeight
<1>12. (Capacity # NoLimit => used <= Capacity)'
  <2>1. used' <= used
    BY <1>1 DEF Release, SaturatingSub, PoolTypeOK
  <2>2. QED
    BY <1>2, <2>1, PoolAssumption DEF PoolTypeOK
<1>13. QED
  BY <1>2, <1>5, <1>9, <1>11, <1>12

\* A thread that only moves between waiting places leaves the accounts alone.
LEMMA WaitKeepsIInv ==
  ASSUME PoolIInv, NEW u \in Units, at[u] # "held", NEW p \in Places \ {"held"},
         at' = [at EXCEPT ![u] = p], UNCHANGED <<used, held>>
  PROVE  PoolIInv'
<1> USE DEF PoolIInv
<1>1. PoolTypeOK'
  BY DEF PoolTypeOK
<1>2. \A v \in Units : at'[v] = "held" <=> at[v] = "held"
  BY DEF PoolTypeOK
<1>3. Holders' = Holders
  BY <1>2 DEF Holders
<1>4. PermitMatchesUnit'
  BY <1>2 DEF PermitMatchesUnit, Admitted
<1>5. PermitsFinite' /\ UsedIsLivePermits' /\ (Capacity # NoLimit => used <= Capacity)'
  BY <1>3 DEF PermitsFinite, UsedIsLivePermits
<1>6. QED
  BY <1>1, <1>4, <1>5

\* The empty pool satisfies the invariant, and every step keeps it.
THEOREM PoolInvariance == PoolSafetySpec => []PoolIInv
<1>1. PoolInit => PoolIInv
  <2> SUFFICES ASSUME PoolInit PROVE PoolIInv
    OBVIOUS
  <2>1. Holders = {}
    BY DEF PoolInit, Holders
  <2>2. IsFiniteSet(WeightTokens(held, Holders)) /\ TotalWeight(held, Holders) = 0
    BY <2>1, WeightOfEmpty
  <2>3. PoolTypeOK /\ PermitMatchesUnit
    BY DEF PoolInit, PoolTypeOK, Places, PermitMatchesUnit
  <2>4. used = 0 /\ (Capacity # NoLimit => used <= Capacity)
    BY PoolAssumption DEF PoolInit
  <2>5. QED
    BY <2>2, <2>3, <2>4 DEF PoolIInv, PermitsFinite, UsedIsLivePermits
<1>2. PoolIInv /\ [PoolNext]_poolVars => PoolIInv'
  <2> SUFFICES ASSUME PoolIInv, [PoolNext]_poolVars PROVE PoolIInv'
    OBVIOUS
  <2>1. ASSUME NEW u \in Units, at[u] # "held", Admit(u) \/ Sleep(u)
        PROVE  PoolIInv'
    <3>1. CASE Admit(u)
      BY <2>1, <3>1, AdmitKeepsIInv
    <3>2. CASE Sleep(u)
      BY <2>1, <3>2, WaitKeepsIInv DEF Sleep, Places
    <3>3. QED
      BY <2>1, <3>1, <3>2
  <2>2. ASSUME NEW u \in Units, Acquire(u)
        PROVE  PoolIInv'
    BY <2>1, <2>2 DEF Acquire
  <2>3. ASSUME NEW u \in Units, TryAcquire(u)
        PROVE  PoolIInv'
    BY <2>1, <2>3 DEF TryAcquire
  <2>4. ASSUME NEW u \in Units, Retry(u)
        PROVE  PoolIInv'
    BY <2>1, <2>4 DEF Retry
  <2>5. ASSUME NEW u \in Units, SpuriousWake(u)
        PROVE  PoolIInv'
    BY <2>5, WaitKeepsIInv DEF SpuriousWake, Places
  <2>6. ASSUME NEW u \in Units, Release(u)
        PROVE  PoolIInv'
    BY <2>6, ReleaseKeepsIInv
  <2>7. CASE UNCHANGED poolVars
    BY <2>7 DEF poolVars, PoolIInv, PoolTypeOK, PermitMatchesUnit, Admitted, Holders,
       PermitsFinite, UsedIsLivePermits
  <2>8. QED
    BY <2>2, <2>3, <2>4, <2>5, <2>6, <2>7 DEF PoolNext
<1>3. QED
  BY <1>1, <1>2, PTL DEF PoolSafetySpec

\* `used_bytes` is the sum of the live permits' bytes in every reachable
\* state, so that Drop's saturating subtraction never clips.
THEOREM PoolAccounting == PoolSafetySpec => []UsedIsLivePermits
<1>1. PoolIInv => UsedIsLivePermits
  BY DEF PoolIInv
<1>2. QED
  BY <1>1, PoolInvariance, PTL

\* The live permits together never exceed the capacity.
THEOREM PoolWithinCapacity == PoolSafetySpec => []WithinCapacity
<1>1. PoolIInv => WithinCapacity
  BY DEF PoolIInv, UsedIsLivePermits, WithinCapacity
<1>2. QED
  BY <1>1, PoolInvariance, PTL

\* While an oversize unit holds its permit no other unit holds one.
THEOREM PoolOversizeAlone == PoolSafetySpec => []OversizeRunsAlone
<1>1. PoolIInv => OversizeRunsAlone
  <2> SUFFICES ASSUME PoolIInv, Capacity # NoLimit,
                      NEW u \in Units, NEW v \in Units,
                      at[u] = "held", at[v] = "held", Weight[u] >= Capacity, u # v
               PROVE  FALSE
    BY DEF OversizeRunsAlone
  <2>1. held[u] = Capacity /\ held[v] \in 1..Capacity
    BY AdmittedBounds, PoolAssumption DEF PoolIInv, PermitMatchesUnit, Admitted
  <2>2. u \in Holders /\ v \in Holders \ {u}
    BY DEF Holders
  <2>3. held[u] \in Nat /\ held[v] \in Nat
    BY DEF PoolIInv, PoolTypeOK
  <2>4. /\ IsFiniteSet(WeightTokens(held, Holders \ {u}))
        /\ TotalWeight(held, Holders) = TotalWeight(held, Holders \ {u}) + held[u]
    BY <2>2, <2>3, WeightRemove DEF PoolIInv, PermitsFinite
  <2>5. /\ TotalWeight(held, (Holders \ {u}) \ {v}) \in Nat
        /\ TotalWeight(held, Holders \ {u}) = TotalWeight(held, (Holders \ {u}) \ {v}) + held[v]
    BY <2>2, <2>3, <2>4, WeightRemove
  <2>6. used > Capacity
    BY <2>1, <2>3, <2>4, <2>5, PoolAssumption DEF PoolIInv, UsedIsLivePermits
  <2>7. QED
    BY <2>6, PoolAssumption DEF PoolIInv, PoolTypeOK
<1>2. QED
  BY <1>1, PoolInvariance, PTL

\* Nobody sleeps beside an idle counter: the condition a sleeper failed keeps
\* failing until a drop wakes everyone.
SleepersBesideUsedBytes ==
  (\E u \in Units : at[u] = "asleep") => used > 0

\* A sleeper never waits for a notification that cannot come: some live permit
\* holds bytes, and its drop notifies all sleepers.
THEOREM PoolSleeperHasWaker == PoolSafetySpec => []SleeperHasWaker
<1> DEFINE Inv == PoolIInv /\ SleepersBesideUsedBytes
<1>1. PoolInit => SleepersBesideUsedBytes
  BY DEF PoolInit, SleepersBesideUsedBytes
<1>2. Inv /\ [PoolNext]_poolVars => SleepersBesideUsedBytes'
  <2> SUFFICES ASSUME PoolIInv, SleepersBesideUsedBytes, [PoolNext]_poolVars
               PROVE  SleepersBesideUsedBytes'
    OBVIOUS
  <2>t. used \in Nat /\ at \in [Units -> Places]
    BY DEF PoolIInv, PoolTypeOK
  <2>1. ASSUME NEW u \in Units, Admit(u)
        PROVE  SleepersBesideUsedBytes'
    BY <2>1, <2>t, AdmittedBounds, PoolAssumption
       DEF SleepersBesideUsedBytes, Admit, Fits
  <2>2. ASSUME NEW u \in Units, Sleep(u)
        PROVE  SleepersBesideUsedBytes'
    BY <2>2, <2>t DEF SleepersBesideUsedBytes, Sleep, Fits
  <2>3. ASSUME NEW u \in Units, SpuriousWake(u)
        PROVE  SleepersBesideUsedBytes'
    BY <2>3, <2>t DEF SleepersBesideUsedBytes, SpuriousWake
  <2>4. ASSUME NEW u \in Units, Release(u)
        PROVE  SleepersBesideUsedBytes'
    <3>1. CASE held[u] = 0
      <4>1. used' = used
        BY <3>1, <2>4, <2>t DEF Release, SaturatingSub
      <4>2. \A v \in Units : at'[v] = "asleep" => at[v] = "asleep"
        BY <3>1, <2>4, <2>t DEF Release
      <4>3. QED
        BY <4>1, <4>2 DEF SleepersBesideUsedBytes
    <3>2. CASE held[u] # 0
      <4>1. \A v \in Units : at'[v] # "asleep"
        BY <3>2, <2>4, <2>t DEF Release, WakeAll
      <4>2. QED
        BY <4>1 DEF SleepersBesideUsedBytes
    <3>3. QED
      BY <3>1, <3>2
  <2>5. CASE UNCHANGED poolVars
    BY <2>5 DEF poolVars, SleepersBesideUsedBytes
  <2>6. QED
    BY <2>1, <2>2, <2>3, <2>4, <2>5 DEF PoolNext, Acquire, TryAcquire, Retry
<1>3. Inv => SleeperHasWaker
  <2> SUFFICES ASSUME PoolIInv, SleepersBesideUsedBytes, \E u \in Units : at[u] = "asleep"
               PROVE  \E v \in Units : held[v] > 0
    BY DEF SleeperHasWaker
  <2>1. TotalWeight(held, Holders) # 0
    BY DEF PoolIInv, UsedIsLivePermits, SleepersBesideUsedBytes, PoolTypeOK
  <2>2. \A v \in Holders : held[v] \in Nat
    BY DEF PoolIInv, PoolTypeOK, Holders
  <2>3. PICK v \in Holders : held[v] > 0
    BY <2>1, <2>2, WeightPositive
  <2>4. QED
    BY <2>3 DEF Holders
<1>4. QED
  BY <1>1, <1>2, <1>3, PoolInvariance, PTL DEF PoolSafetySpec

-----------------------------------------------------------------------------
(* For the passes whose units go through the gate. *)

\* A release frees its unit, wakes sleepers and moves nobody else.
LEMMA ReleaseFacts ==
  ASSUME PoolTypeOK, NEW u \in Units, Release(u)
  PROVE  /\ PoolTypeOK' /\ at[u] = "held" /\ at'[u] = "released" /\ Holders' = Holders \ {u}
         /\ \A v \in Units : v # u => at'[v] = at[v] \/ (at[v] = "asleep" /\ at'[v] = "woken")
<1>1. used \in Nat /\ held \in [Units -> Nat] /\ at \in [Units -> Places]
  BY DEF PoolTypeOK
<1>2. used' \in Nat
  BY <1>1 DEF Release, SaturatingSub
<1>3. held' \in [Units -> Nat]
  BY <1>1 DEF Release
<1>4. /\ at' \in [Units -> Places] /\ at[u] = "held" /\ at'[u] = "released"
      /\ \A v \in Units : v # u => at'[v] = at[v] \/ (at[v] = "asleep" /\ at'[v] = "woken")
  BY <1>1 DEF Release, WakeAll, Places
<1>5. Holders' = Holders \ {u}
  BY <1>4 DEF Holders
<1>6. QED
  BY <1>2, <1>3, <1>4, <1>5 DEF PoolTypeOK

\* An admission or a wait moves one unit.
LEMMA GateFacts ==
  ASSUME PoolTypeOK, NEW u \in Units, NEW p \in {"held", "asleep"},
         (p = "held" /\ Admit(u)) \/ (p = "asleep" /\ Sleep(u))
  PROVE  /\ PoolTypeOK' /\ at'[u] = p
         /\ \A v \in Units : v # u => at'[v] = at[v]
         /\ p = "held" => Holders' = Holders \cup {u}
         /\ p = "asleep" => Holders' = Holders \ {u}
<1>1. used \in Nat /\ held \in [Units -> Nat] /\ at \in [Units -> Places] /\ Admitted(u) \in Nat
  BY AdmittedBounds DEF PoolTypeOK
<1>2. at' = [at EXCEPT ![u] = p]
  BY DEF Admit, Sleep
<1>3. used' \in Nat /\ held' \in [Units -> Nat]
  BY <1>1 DEF Admit, Sleep
<1>4. PoolTypeOK' /\ at'[u] = p /\ \A v \in Units : v # u => at'[v] = at[v]
  BY <1>1, <1>2, <1>3 DEF PoolTypeOK, Places
<1>5. QED
  BY <1>4 DEF Holders

\* What a channel of units, and one of results with their permits, holds.
WorkSet(q) == {q[i] : i \in DOMAIN q}
ResultSet(q) == {q[i].index : i \in DOMAIN q}
GoodSet(q) == {q[i].index : i \in {j \in DOMAIN q : q[j].ok}}

Distinct(q) == \A i, j \in DOMAIN q : q[i] = q[j] => i = j
DistinctResults(q) == \A i, j \in DOMAIN q : q[i].index = q[j].index => i = j

\* Sending what is not queued yet.
LEMMA WorkAppend ==
  ASSUME NEW q \in Seq(Units), NEW x \in Units, Distinct(q), x \notin WorkSet(q)
  PROVE  /\ Append(q, x) \in Seq(Units) /\ Distinct(Append(q, x))
         /\ WorkSet(Append(q, x)) = WorkSet(q) \cup {x}
<1> DEFINE a == Append(q, x)
<1>1. /\ a \in Seq(Units) /\ Len(q) \in Nat
      /\ DOMAIN q = 1..Len(q) /\ DOMAIN a = 1..(Len(q) + 1)
      /\ \A i \in 1..Len(q) : a[i] = q[i]
      /\ a[Len(q) + 1] = x
  OBVIOUS
<1> HIDE DEF a
<1>2. /\ \A i \in 1..Len(q) : q[i] # x
      /\ \A i, j \in 1..Len(q) : q[i] = q[j] => i = j
  BY <1>1 DEF WorkSet, Distinct
<1>3. Distinct(a)
  BY <1>1, <1>2 DEF Distinct
<1>4. WorkSet(a) = WorkSet(q) \cup {x}
  <2>1. ASSUME NEW y \in WorkSet(a) PROVE y \in WorkSet(q) \cup {x}
    BY <1>1, <2>1 DEF WorkSet
  <2>2. ASSUME NEW y \in WorkSet(q) PROVE y \in WorkSet(a)
    <3>1. PICK i \in 1..Len(q) : y = q[i]
      BY <1>1, <2>2 DEF WorkSet
    <3>2. i \in DOMAIN a /\ a[i] = y
      BY <1>1, <3>1
    <3>3. QED
      BY <3>2 DEF WorkSet
  <2>3. x \in WorkSet(a)
    BY <1>1 DEF WorkSet
  <2>4. QED
    BY <2>1, <2>2, <2>3
<1>5. QED
  BY <1>1, <1>3, <1>4 DEF a

\* The positions of a sequence without its head.
LEMMA TailFacts ==
  ASSUME NEW S, NEW q \in Seq(S), q # <<>>
  PROVE  /\ Len(q) \in Nat /\ Len(q) # 0 /\ DOMAIN q = 1..Len(q)
         /\ Head(q) = q[1] /\ q[1] \in S /\ Tail(q) \in Seq(S)
         /\ DOMAIN Tail(q) = 1..(Len(q) - 1)
         /\ \A i \in 1..(Len(q) - 1) : Tail(q)[i] = q[i + 1]
OBVIOUS

\* Receiving the oldest index.
LEMMA WorkTail ==
  ASSUME NEW q \in Seq(Units), q # <<>>, Distinct(q)
  PROVE  /\ Head(q) \in Units /\ Head(q) \in WorkSet(q)
         /\ Tail(q) \in Seq(Units) /\ Distinct(Tail(q))
         /\ WorkSet(Tail(q)) = WorkSet(q) \ {Head(q)}
<1> DEFINE t == Tail(q)
<1>1. /\ Len(q) \in Nat /\ Len(q) # 0 /\ DOMAIN q = 1..Len(q)
      /\ Head(q) = q[1] /\ q[1] \in Units /\ t \in Seq(Units)
      /\ DOMAIN t = 1..(Len(q) - 1)
      /\ \A i \in 1..(Len(q) - 1) : t[i] = q[i + 1]
  BY TailFacts
<1> HIDE DEF t
<1>2. \A i, j \in 1..Len(q) : q[i] = q[j] => i = j
  BY <1>1 DEF Distinct
<1>3. Distinct(t)
  <2> SUFFICES ASSUME NEW i \in 1..(Len(q) - 1), NEW j \in 1..(Len(q) - 1), t[i] = t[j]
               PROVE  i = j
    BY <1>1 DEF Distinct
  <2>1. i + 1 \in 1..Len(q) /\ j + 1 \in 1..Len(q) /\ q[i + 1] = q[j + 1]
    BY <1>1
  <2>2. i + 1 = j + 1
    BY <1>2, <2>1
  <2>3. QED
    BY <1>1, <2>2
<1>4. WorkSet(t) = WorkSet(q) \ {Head(q)}
  <2>1. ASSUME NEW y \in WorkSet(t) PROVE y \in WorkSet(q) /\ y # Head(q)
    <3>1. PICK i \in 1..(Len(q) - 1) : y = t[i]
      BY <1>1, <2>1 DEF WorkSet
    <3>2. i + 1 \in 1..Len(q) /\ q[i + 1] = y /\ 1 \in 1..Len(q) /\ i + 1 # 1
      BY <1>1, <3>1
    <3>3. QED
      BY <1>1, <1>2, <3>2 DEF WorkSet
  <2>2. ASSUME NEW y \in WorkSet(q), y # Head(q) PROVE y \in WorkSet(t)
    <3>1. PICK i \in 1..Len(q) : y = q[i]
      BY <1>1, <2>2 DEF WorkSet
    <3>2. i - 1 \in DOMAIN t /\ t[i - 1] = y
      BY <1>1, <2>2, <3>1
    <3>3. QED
      BY <3>2 DEF WorkSet
  <2>3. QED
    BY <2>1, <2>2
<1>5. Head(q) \in WorkSet(q)
  BY <1>1 DEF WorkSet
<1>6. QED
  BY <1>1, <1>3, <1>4, <1>5 DEF t

\* Sending a result whose item has none in the channel.
LEMMA ResultAppend ==
  ASSUME NEW q \in Seq([index : Units, ok : BOOLEAN]), NEW u \in Units, NEW good \in BOOLEAN,
         DistinctResults(q), u \notin ResultSet(q)
  PROVE  LET a == Append(q, [index |-> u, ok |-> good])
         IN  /\ a \in Seq([index : Units, ok : BOOLEAN]) /\ DistinctResults(a)
             /\ ResultSet(a) = ResultSet(q) \cup {u}
             /\ good => GoodSet(a) = GoodSet(q) \cup {u}
             /\ ~good => GoodSet(a) = GoodSet(q)
<1> DEFINE r == [index |-> u, ok |-> good]
           a == Append(q, r)
<1>1. r \in [index : Units, ok : BOOLEAN] /\ r.index = u /\ r.ok = good
  OBVIOUS
<1> HIDE DEF r
<1>2. /\ a \in Seq([index : Units, ok : BOOLEAN]) /\ Len(q) \in Nat
      /\ DOMAIN q = 1..Len(q) /\ DOMAIN a = 1..(Len(q) + 1)
      /\ \A i \in 1..Len(q) : a[i] = q[i]
      /\ a[Len(q) + 1] = r
  BY <1>1
<1> HIDE DEF a
<1>3. /\ \A i \in 1..Len(q) : q[i].index # u
      /\ \A i, j \in 1..Len(q) : q[i].index = q[j].index => i = j
  BY <1>2 DEF ResultSet, DistinctResults
<1>4. DistinctResults(a)
  BY <1>1, <1>2, <1>3 DEF DistinctResults
<1>5. \A i \in 1..(Len(q) + 1) : i \in 1..Len(q) \/ i = Len(q) + 1
  BY <1>2
<1>6. ResultSet(a) = ResultSet(q) \cup {u}
  <2>1. ASSUME NEW y \in ResultSet(a) PROVE y \in ResultSet(q) \cup {u}
    BY <1>1, <1>2, <1>5, <2>1 DEF ResultSet
  <2>2. ASSUME NEW i \in 1..Len(q) PROVE q[i].index \in ResultSet(a)
    BY <1>2 DEF ResultSet
  <2>3. u \in ResultSet(a)
    BY <1>1, <1>2 DEF ResultSet
  <2>4. QED
    BY <1>2, <2>1, <2>2, <2>3 DEF ResultSet
<1>7. GoodSet(a) = GoodSet(q) \cup (IF good THEN {u} ELSE {})
  <2>1. ASSUME NEW i \in 1..(Len(q) + 1), a[i].ok
        PROVE  a[i].index \in GoodSet(q) \cup (IF good THEN {u} ELSE {})
    BY <1>1, <1>2, <1>5, <2>1 DEF GoodSet
  <2>2. ASSUME NEW i \in 1..Len(q), q[i].ok PROVE q[i].index \in GoodSet(a)
    <3>1. i \in DOMAIN a /\ a[i] = q[i]
      BY <1>2
    <3>2. QED
      BY <2>2, <3>1 DEF GoodSet
  <2>3. ASSUME good PROVE u \in GoodSet(a)
    <3>1. Len(q) + 1 \in DOMAIN a
      BY <1>2
    <3>2. r.ok /\ r.index = u
      BY <1>1, <2>3, Zenon
    <3>3. a[Len(q) + 1].ok /\ a[Len(q) + 1].index = u
      BY <1>2, <3>2, Zenon
    <3>4. QED
      BY <3>1, <3>3 DEF GoodSet
  <2>4. ASSUME NEW y \in GoodSet(a) PROVE y \in GoodSet(q) \cup (IF good THEN {u} ELSE {})
    BY <1>2, <2>1, <2>4 DEF GoodSet
  <2>5. ASSUME NEW y \in GoodSet(q) PROVE y \in GoodSet(a)
    BY <1>2, <2>2, <2>5 DEF GoodSet
  <2>6. QED
    BY <2>3, <2>4, <2>5
<1>8. QED
  BY <1>2, <1>4, <1>6, <1>7 DEF a, r

\* Receiving the oldest result.
LEMMA ResultTail ==
  ASSUME NEW q \in Seq([index : Units, ok : BOOLEAN]), q # <<>>, DistinctResults(q)
  PROVE  /\ Head(q) \in [index : Units, ok : BOOLEAN] /\ Head(q).index \in Units
         /\ Head(q).index \in ResultSet(q)
         /\ Tail(q) \in Seq([index : Units, ok : BOOLEAN]) /\ DistinctResults(Tail(q))
         /\ ResultSet(Tail(q)) = ResultSet(q) \ {Head(q).index}
         /\ GoodSet(Tail(q)) = GoodSet(q) \ {Head(q).index}
         /\ Head(q).ok <=> Head(q).index \in GoodSet(q)
<1> DEFINE t == Tail(q)
<1>1. /\ Len(q) \in Nat /\ Len(q) # 0 /\ DOMAIN q = 1..Len(q)
      /\ Head(q) = q[1] /\ q[1] \in [index : Units, ok : BOOLEAN]
      /\ t \in Seq([index : Units, ok : BOOLEAN])
      /\ DOMAIN t = 1..(Len(q) - 1)
      /\ \A i \in 1..(Len(q) - 1) : t[i] = q[i + 1]
  BY TailFacts
<1> HIDE DEF t
<1>2. \A i, j \in 1..Len(q) : q[i].index = q[j].index => i = j
  BY <1>1 DEF DistinctResults
<1>3. \A i \in 1..(Len(q) - 1) : i + 1 \in 1..Len(q) /\ t[i] = q[i + 1] /\ q[i + 1].index # q[1].index
  <2> SUFFICES ASSUME NEW i \in 1..(Len(q) - 1)
               PROVE  i + 1 \in 1..Len(q) /\ t[i] = q[i + 1] /\ q[i + 1].index # q[1].index
    OBVIOUS
  <2>1. i + 1 \in 1..Len(q) /\ 1 \in 1..Len(q) /\ i + 1 # 1 /\ t[i] = q[i + 1]
    BY <1>1
  <2>2. QED
    BY <1>2, <2>1
<1>4. \A i \in 1..Len(q) : i = 1 \/ (i - 1 \in 1..(Len(q) - 1) /\ t[i - 1] = q[i])
  BY <1>1
<1>5. DistinctResults(t)
  <2> SUFFICES ASSUME NEW i \in 1..(Len(q) - 1), NEW j \in 1..(Len(q) - 1), t[i].index = t[j].index
               PROVE  i = j
    BY <1>1 DEF DistinctResults
  <2>1. i + 1 = j + 1
    BY <1>2, <1>3
  <2>2. QED
    BY <1>1, <2>1
<1>6. ResultSet(t) = ResultSet(q) \ {Head(q).index}
  <2>1. ASSUME NEW y \in ResultSet(t) PROVE y \in ResultSet(q) /\ y # Head(q).index
    <3>1. PICK i \in 1..(Len(q) - 1) : y = t[i].index
      BY <1>1, <2>1 DEF ResultSet
    <3>2. QED
      BY <1>1, <1>3, <3>1 DEF ResultSet
  <2>2. ASSUME NEW y \in ResultSet(q), y # Head(q).index PROVE y \in ResultSet(t)
    <3>1. PICK i \in 1..Len(q) : y = q[i].index
      BY <1>1, <2>2 DEF ResultSet
    <3>2. i - 1 \in DOMAIN t /\ t[i - 1].index = y
      BY <1>1, <1>4, <2>2, <3>1
    <3>3. QED
      BY <3>2 DEF ResultSet
  <2>3. QED
    BY <2>1, <2>2
<1>7. GoodSet(t) = GoodSet(q) \ {Head(q).index}
  <2>1. ASSUME NEW y \in GoodSet(t) PROVE y \in GoodSet(q) /\ y # Head(q).index
    <3>1. PICK i \in 1..(Len(q) - 1) : y = t[i].index /\ t[i].ok
      BY <1>1, <2>1 DEF GoodSet
    <3>2. QED
      BY <1>1, <1>3, <3>1 DEF GoodSet
  <2>2. ASSUME NEW y \in GoodSet(q), y # Head(q).index PROVE y \in GoodSet(t)
    <3>1. PICK i \in 1..Len(q) : y = q[i].index /\ q[i].ok
      BY <1>1, <2>2 DEF GoodSet
    <3>2. i - 1 \in DOMAIN t /\ t[i - 1].index = y /\ t[i - 1].ok
      BY <1>1, <1>4, <2>2, <3>1
    <3>3. QED
      BY <3>2 DEF GoodSet
  <2>3. QED
    BY <2>1, <2>2
<1>8. Head(q).index \in ResultSet(q) /\ 1 \in 1..Len(q)
  BY <1>1 DEF ResultSet
<1>9. Head(q).ok <=> Head(q).index \in GoodSet(q)
  <2>1. ASSUME Head(q).ok PROVE Head(q).index \in GoodSet(q)
    BY <1>1, <1>8, <2>1 DEF GoodSet
  <2>2. ASSUME Head(q).index \in GoodSet(q) PROVE Head(q).ok
    <3>1. PICK i \in 1..Len(q) : Head(q).index = q[i].index /\ q[i].ok
      BY <1>1, <2>2 DEF GoodSet
    <3>2. i = 1
      BY <1>1, <1>2, <1>8, <3>1
    <3>3. QED
      BY <1>1, <3>1, <3>2
  <2>3. QED
    BY <2>1, <2>2
<1>10. QED
  BY <1>1, <1>5, <1>6, <1>7, <1>8, <1>9 DEF t
=============================================================================
