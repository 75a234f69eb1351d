------------------------- MODULE MemoryBoundProofs -------------------------
(***************************************************************************)
(* The components that keep the analyzer within a memory bound: the exact  *)
(* body cache within its byte budget, the sizing functions within the      *)
(* process limit, and the spilling containers within their resident part,  *)
(* for any keys, sizes, callers and bounds.                                *)
(***************************************************************************)
EXTENDS ExactBodyCache, MemorySchedules, SpillStore,
        FunctionTheorems, FiniteSetTheorems, SequenceTheorems, WellFoundedInduction, TLAPS

(* Sums of sizes. *)

\* The tokens of one element are as many as its weight.
LEMMA TokensOfOne ==
  ASSUME NEW x, NEW n \in Nat
  PROVE  IsFiniteSet({x} \X (1..n)) /\ Cardinality({x} \X (1..n)) = n
<1>1. IsFiniteSet({x}) /\ Cardinality({x}) = 1
  BY FS_Singleton
<1>2. IsFiniteSet(1..n) /\ Cardinality(1..n) = n
  BY FS_Interval
<1>3. /\ IsFiniteSet({x} \X (1..n))
      /\ Cardinality({x} \X (1..n)) = Cardinality({x}) * Cardinality(1..n)
  BY <1>1, <1>2, FS_Product
<1>4. 1 * n = n
  OBVIOUS
<1>5. QED
  BY <1>1, <1>2, <1>3, <1>4

\* The empty set weighs nothing.
LEMMA WeightOfEmpty ==
  ASSUME NEW f
  PROVE  IsFiniteSet(WeightTokens(f, {})) /\ TotalWeight(f, {}) = 0
<1>1. WeightTokens(f, {}) = {}
  BY DEF WeightTokens
<1>2. QED
  BY <1>1, FS_EmptySet DEF TotalWeight

\* A new element adds its weight.
LEMMA WeightAdd ==
  ASSUME NEW f, NEW S, NEW x, x \notin S, f[x] \in Nat,
         IsFiniteSet(WeightTokens(f, S))
  PROVE  /\ IsFiniteSet(WeightTokens(f, S \cup {x}))
         /\ TotalWeight(f, S \cup {x}) = TotalWeight(f, S) + f[x]
<1> DEFINE A == WeightTokens(f, S)
           B == {x} \X (1..f[x])
<1>1. WeightTokens(f, S \cup {x}) = A \cup B
  BY DEF WeightTokens
<1>2. A \cap B = {}
  BY DEF WeightTokens
<1>3. IsFiniteSet(B) /\ Cardinality(B) = f[x]
  BY TokensOfOne
<1>4. Cardinality(A) \in Nat
  BY FS_CardinalityType
<1>5. IsFiniteSet(A \cup B) /\ Cardinality(A \cup B) = Cardinality(A) + Cardinality(B) - Cardinality(A \cap B)
  BY <1>3, FS_Union
<1>6. Cardinality(A \cap B) = 0
  BY <1>2, FS_EmptySet
<1> HIDE DEF A, B
<1>7. Cardinality(A \cup B) = Cardinality(A) + f[x]
  BY <1>3, <1>4, <1>5, <1>6
<1>8. TotalWeight(f, S) = Cardinality(A)
  BY DEF TotalWeight, A
<1>9. QED
  BY <1>1, <1>5, <1>7, <1>8 DEF TotalWeight

\* An element that leaves takes its weight with it, and never more than the
\* sum held.
LEMMA WeightRemove ==
  ASSUME NEW f, NEW S, NEW x \in S, f[x] \in Nat,
         IsFiniteSet(WeightTokens(f, S))
  PROVE  /\ IsFiniteSet(WeightTokens(f, S \ {x}))
         /\ TotalWeight(f, S \ {x}) \in Nat
         /\ TotalWeight(f, S) = TotalWeight(f, S \ {x}) + f[x]
<1>1. WeightTokens(f, S \ {x}) \in SUBSET WeightTokens(f, S)
  BY DEF WeightTokens
<1>2. IsFiniteSet(WeightTokens(f, S \ {x}))
  BY <1>1, FS_Subset
<1>3. (S \ {x}) \cup {x} = S
  OBVIOUS
<1>4. TotalWeight(f, (S \ {x}) \cup {x}) = TotalWeight(f, S \ {x}) + f[x]
  BY <1>2, WeightAdd
<1>5. TotalWeight(f, S \ {x}) \in Nat
  BY <1>2, FS_CardinalityType DEF TotalWeight
<1>6. QED
  BY <1>2, <1>3, <1>4, <1>5

-----------------------------------------------------------------------------
(* More about sums of weights. *)

\* Finitely many finite weights have a sum.
LEMMA WeightFinite ==
  ASSUME NEW f, NEW S, IsFiniteSet(S), \A x \in S : f[x] \in Nat
  PROVE  IsFiniteSet(WeightTokens(f, S)) /\ TotalWeight(f, S) \in Nat
<1> DEFINE row == [x \in S |-> {x} \X (1..f[x])]
           rows == {row[x] : x \in S}
<1>1. IsFiniteSet(rows)
  <2>1. row \in Surjection(S, rows)
    BY Fun_IsSurj
  <2>2. QED
    BY <2>1, FS_Surjection
<1>2. ASSUME NEW T \in rows PROVE IsFiniteSet(T)
  <2>1. PICK x \in S : T = {x} \X (1..f[x])
    OBVIOUS
  <2>2. QED
    BY <2>1, TokensOfOne
<1>3. WeightTokens(f, S) = UNION rows
  BY DEF WeightTokens
<1>4. IsFiniteSet(WeightTokens(f, S))
  BY <1>1, <1>2, <1>3, FS_UNION
<1>5. QED
  BY <1>4, FS_CardinalityType DEF TotalWeight

\* Weights that agree have one sum.
LEMMA WeightAgree ==
  ASSUME NEW f, NEW g, NEW S, \A x \in S : f[x] = g[x]
  PROVE  TotalWeight(f, S) = TotalWeight(g, S)
<1>1. WeightTokens(f, S) = WeightTokens(g, S)
  BY DEF WeightTokens
<1>2. QED
  BY <1>1 DEF TotalWeight

\* The sum over two sets without a common element.
LEMMA WeightUnion ==
  ASSUME NEW f, NEW S, NEW T, IsFiniteSet(S), IsFiniteSet(T), S \cap T = {},
         \A x \in S \cup T : f[x] \in Nat
  PROVE  TotalWeight(f, S \cup T) = TotalWeight(f, S) + TotalWeight(f, T)
<1> DEFINE A == WeightTokens(f, S)
           B == WeightTokens(f, T)
<1>1. WeightTokens(f, S \cup T) = A \cup B /\ A \cap B = {}
  BY DEF WeightTokens
<1>2. IsFiniteSet(A) /\ IsFiniteSet(B) /\ Cardinality(A) \in Nat /\ Cardinality(B) \in Nat
  BY WeightFinite DEF TotalWeight
<1> HIDE DEF A, B
<1>3. Cardinality(A \cup B) = Cardinality(A) + Cardinality(B) - Cardinality(A \cap B)
  BY <1>2, FS_Union
<1>4. Cardinality(A \cap B) = 0
  BY <1>1, FS_EmptySet
<1>5. /\ TotalWeight(f, S \cup T) = Cardinality(A \cup B)
      /\ TotalWeight(f, S) = Cardinality(A) /\ TotalWeight(f, T) = Cardinality(B)
  BY <1>1 DEF A, B, TotalWeight
<1>6. QED
  BY <1>2, <1>3, <1>4, <1>5

\* The sum of weights of at most c each.
LEMMA WeightAtMost ==
  ASSUME NEW f, NEW S, NEW c \in Nat, IsFiniteSet(S), \A x \in S : f[x] \in Nat /\ f[x] <= c
  PROVE  TotalWeight(f, S) <= Cardinality(S) * c
<1>1. WeightTokens(f, S) \subseteq S \X (1..c)
  BY DEF WeightTokens
<1>2. IsFiniteSet(1..c) /\ Cardinality(1..c) = c
  BY FS_Interval
<1>3. IsFiniteSet(S \X (1..c)) /\ Cardinality(S \X (1..c)) = Cardinality(S) * c
  BY <1>2, FS_Product
<1>4. QED
  BY <1>1, <1>3, FS_Subset DEF TotalWeight

\* The sum of weights of at least c each.
LEMMA WeightAtLeast ==
  ASSUME NEW f, NEW S, NEW c \in Nat, IsFiniteSet(S), \A x \in S : f[x] \in Nat /\ f[x] >= c
  PROVE  TotalWeight(f, S) >= Cardinality(S) * c
<1>1. S \X (1..c) \subseteq WeightTokens(f, S)
  BY DEF WeightTokens
<1>2. IsFiniteSet(1..c) /\ Cardinality(1..c) = c
  BY FS_Interval
<1>3. Cardinality(S \X (1..c)) = Cardinality(S) * c /\ Cardinality(S) \in Nat
  BY <1>2, FS_Product, FS_CardinalityType
<1>4. IsFiniteSet(WeightTokens(f, S)) /\ TotalWeight(f, S) \in Nat
  BY WeightFinite
<1>5. Cardinality(S \X (1..c)) <= TotalWeight(f, S)
  BY <1>1, <1>4, FS_Subset DEF TotalWeight
<1>6. QED
  BY <1>3, <1>4, <1>5

\* Renaming the elements leaves the sum as it is.
LEMMA WeightRename ==
  ASSUME NEW f, NEW g, NEW S, NEW T, NEW p \in Bijection(S, T), IsFiniteSet(S),
         \A x \in S : f[x] \in Nat /\ f[x] = g[p[x]]
  PROVE  TotalWeight(f, S) = TotalWeight(g, T)
<1> DEFINE A == WeightTokens(f, S)
           B == WeightTokens(g, T)
           q == [a \in A |-> <<p[a[1]], a[2]>>]
<1>1. p \in [S -> T] /\ (\A x, y \in S : p[x] = p[y] => x = y) /\ (\A y \in T : \E x \in S : p[x] = y)
  BY Fun_BijectionProperties
<1>2. ASSUME NEW a \in A PROVE a = <<a[1], a[2]>> /\ a[1] \in S /\ a[2] \in 1..f[a[1]]
  BY DEF WeightTokens
<1>3. ASSUME NEW x \in S, NEW i \in 1..f[x] PROVE <<x, i>> \in A
  BY DEF WeightTokens
<1>4. ASSUME NEW y \in T, NEW i \in 1..g[y] PROVE <<y, i>> \in B
  BY DEF WeightTokens
<1>5. ASSUME NEW b \in B PROVE b = <<b[1], b[2]>> /\ b[1] \in T /\ b[2] \in 1..g[b[1]]
  BY DEF WeightTokens
<1>6. IsFiniteSet(A)
  BY WeightFinite
<1> HIDE DEF A, B
<1>7. q \in [A -> B]
  BY <1>1, <1>2, <1>4
<1>8. ASSUME NEW a \in A, NEW b \in A, q[a] = q[b] PROVE a = b
  <2>1. p[a[1]] = p[b[1]] /\ a[2] = b[2]
    BY <1>8
  <2>2. a[1] = b[1]
    BY <2>1, <1>1, <1>2
  <2>3. QED
    BY <2>1, <2>2, <1>2
<1>9. ASSUME NEW b \in B PROVE \E a \in A : q[a] = b
  <2>1. PICK x \in S : p[x] = b[1]
    BY <1>1, <1>5
  <2>2. <<x, b[2]>> \in A
    BY <2>1, <1>3, <1>5
  <2>3. q[<<x, b[2]>>] = b
    BY <2>1, <2>2, <1>5
  <2>4. QED
    BY <2>2, <2>3
<1> HIDE DEF q
<1>10. q \in Bijection(A, B)
  BY <1>7, <1>8, <1>9, Fun_IsBij
<1>11. Cardinality(A) = Cardinality(B)
  <2>1. ExistsBijection(A, B)
    BY <1>10 DEF ExistsBijection
  <2>2. QED
    BY <2>1, <1>6, FS_Bijection
<1>12. QED
  BY <1>11 DEF A, B, TotalWeight

-----------------------------------------------------------------------------
(* ExactBodyCache. *)

\* A cell somebody works on, or that fills a slot, is a live allocation.
CellsInUse ==
  /\ \A c \in Callers : pc[c] # "idle" => state[cell[c]] # "unused"
  /\ \A k \in Keys : flight[k] # None => state[flight[k]] # "unused"

\* OnceLock: one builder per cell, and only while the cell is being built.
BuilderIsAlone ==
  /\ \A c \in Callers : pc[c] = "build" => state[cell[c]] = "building"
  /\ \A c, d \in Callers : pc[c] = "build" /\ pc[d] = "build" /\ cell[c] = cell[d] => c = d

\* get_or_init has returned to whoever settles.
SettlersAreDone == \A c \in Callers : pc[c] = "settle" => state[cell[c]] \in {"some", "none"}

\* A cell that is not finished is its key's in-flight slot: nobody can free the
\* slot before the cell is finished.
UnfinishedInFlight ==
  \A c \in Callers :
    pc[c] # "idle" /\ state[cell[c]] \in {"empty", "building"} => flight[key[c]] = cell[c]

\* The inductive invariant of the lookup, build and settle protocol.
FlightInv ==
  /\ CacheTypeOK
  /\ CellsInUse
  /\ BuilderIsAlone
  /\ SettlersAreDone
  /\ UnfinishedInFlight
  /\ ResidentOrInFlight
  /\ NoNegativeEntry
  /\ NoRetentionAcrossClear

\* The recency list names every resident key once.
LruListsResidents ==
  /\ \A i, j \in DOMAIN lru : lru[i] = lru[j] => i = j
  /\ \A k \in Keys : (entry[k] # None) <=> \E i \in DOMAIN lru : lru[i] = k

\* Whoever evicts has just put its own body at the back of the list.
EvictorIsNewest ==
  evictor # None =>
    /\ pc[evictor] = "settle"
    /\ entry[key[evictor]] = cell[evictor]
    /\ Bytes[key[evictor]] <= Budget
    /\ lru # <<>> /\ lru[Len(lru)] = key[evictor]

\* The byte count is a sum over a finite set, within the budget between calls.
LedgerInv ==
  /\ LruListsResidents
  /\ EvictorIsNewest
  /\ IsFiniteSet(WeightTokens(Bytes, Resident))
  /\ BudgetKept

-----------------------------------------------------------------------------
\* The recency list stays a duplicate-free list of its keys and the touched
\* key, and ends in the touched key (LruCache::get, LruCache::push).
LEMMA TouchLists ==
  ASSUME NEW S, NEW s \in Seq(S), NEW k \in S,
         \A i, j \in DOMAIN s : s[i] = s[j] => i = j
  PROVE  /\ Touch(s, k) \in Seq(S)
         /\ Touch(s, k) # <<>> /\ Touch(s, k)[Len(Touch(s, k))] = k
         /\ \A i, j \in DOMAIN Touch(s, k) : Touch(s, k)[i] = Touch(s, k)[j] => i = j
         /\ \A m : (\E i \in DOMAIN Touch(s, k) : Touch(s, k)[i] = m)
                     <=> (m = k \/ \E i \in DOMAIN s : s[i] = m)
<1> DEFINE w == Without(s, k)
<1>1. CASE \A i \in DOMAIN s : s[i] # k
  <2>1. w = s
    BY <1>1 DEF Without
  <2>2. QED
    BY <1>1, <2>1 DEF Touch
<1>2. CASE \E i \in DOMAIN s : s[i] = k
  <2> DEFINE p == CHOOSE i \in DOMAIN s : s[i] = k
  <2>1. p \in 1..Len(s) /\ s[p] = k
    BY <1>2
  <2> HIDE DEF p
  <2>2. w = [i \in 1..(Len(s) - 1) |-> IF i < p THEN s[i] ELSE s[i + 1]]
    BY <1>2 DEF Without, p
  <2>3. w \in Seq(S) /\ Len(w) = Len(s) - 1
    <3>1. \A i \in 1..(Len(s) - 1) : w[i] \in S
      BY <2>1, <2>2
    <3>2. QED
      BY <2>1, <2>2, <3>1
  <2>4. \A i \in 1..Len(w) : w[i] = IF i < p THEN s[i] ELSE s[i + 1]
    BY <2>2, <2>3
  <2> HIDE DEF w
  <2>5. \A i, j \in 1..Len(w) : w[i] = w[j] => i = j
    <3> SUFFICES ASSUME NEW i \in 1..Len(w), NEW j \in 1..Len(w), w[i] = w[j] PROVE i = j
      OBVIOUS
    <3> DEFINE Origin(n) == IF n < p THEN n ELSE n + 1
    <3>1. Origin(i) \in DOMAIN s /\ Origin(j) \in DOMAIN s
      BY <2>1, <2>3
    <3>2. s[Origin(i)] = s[Origin(j)]
      BY <2>4
    <3>3. Origin(i) = Origin(j)
      <4> HIDE DEF Origin
      <4> QED BY <3>1, <3>2
    <3>4. QED
      BY <2>1, <2>3, <3>3
  <2>6. ASSUME NEW i \in 1..Len(w) PROVE w[i] # k
    <3>1. CASE i < p
      <4>1. w[i] = s[i] /\ i \in DOMAIN s /\ i # p
        BY <2>1, <2>3, <2>4, <3>1
      <4>2. QED
        BY <4>1, <2>1
    <3>2. CASE ~(i < p)
      <4>1. w[i] = s[i + 1] /\ i + 1 \in DOMAIN s /\ i + 1 # p
        BY <2>1, <2>3, <2>4, <3>2
      <4>2. QED
        BY <4>1, <2>1
    <3>3. QED
      BY <3>1, <3>2
  <2>7. \A m : m # k => ((\E i \in 1..Len(w) : w[i] = m) <=> \E i \in 1..Len(s) : s[i] = m)
    <3> SUFFICES ASSUME NEW m, m # k
                 PROVE  (\E i \in 1..Len(w) : w[i] = m) <=> \E i \in 1..Len(s) : s[i] = m
      OBVIOUS
    <3>1. ASSUME NEW i \in 1..Len(w), w[i] = m PROVE \E j \in 1..Len(s) : s[j] = m
      BY <2>1, <2>3, <2>4, <3>1
    <3>2. ASSUME NEW i \in 1..Len(s), s[i] = m PROVE \E j \in 1..Len(w) : w[j] = m
      <4>1. i # p
        BY <2>1, <3>2
      <4>2. CASE i < p
        BY <2>1, <2>3, <2>4, <3>2, <4>2
      <4>3. CASE i > p
        <5>1. i - 1 \in 1..Len(w) /\ w[i - 1] = s[i]
          BY <2>1, <2>3, <2>4, <4>3
        <5>2. QED
          BY <5>1, <3>2
      <4>4. QED
        BY <2>1, <4>1, <4>2, <4>3
    <3>3. QED
      BY <3>1, <3>2
  <2>8. Touch(s, k) = Append(w, k)
    BY DEF Touch, w
  <2>9. /\ Append(w, k) \in Seq(S) /\ Len(Append(w, k)) = Len(w) + 1
        /\ Append(w, k)[Len(w) + 1] = k
        /\ \A i \in 1..Len(w) : Append(w, k)[i] = w[i]
    BY <2>3
  <2>10. \A i, j \in 1..(Len(w) + 1) : Append(w, k)[i] = Append(w, k)[j] => i = j
    BY <2>3, <2>5, <2>6, <2>9
  <2>11. \A m : (\E i \in 1..(Len(w) + 1) : Append(w, k)[i] = m)
                  <=> (m = k \/ \E i \in 1..Len(s) : s[i] = m)
    <3>1. \A m : (\E i \in 1..(Len(w) + 1) : Append(w, k)[i] = m)
                   <=> (m = k \/ \E i \in 1..Len(w) : w[i] = m)
      BY <2>3, <2>9
    <3>2. QED
      BY <1>2, <2>7, <3>1
  <2>12. DOMAIN Append(w, k) = 1..(Len(w) + 1) /\ DOMAIN s = 1..Len(s) /\ Append(w, k) # <<>>
    BY <2>3, <2>9
  <2> DEFINE t == Append(w, k)
  <2>13. /\ t \in Seq(S) /\ t # <<>> /\ t[Len(t)] = k
         /\ \A i, j \in DOMAIN t : t[i] = t[j] => i = j
         /\ \A m : (\E i \in DOMAIN t : t[i] = m) <=> (m = k \/ \E i \in DOMAIN s : s[i] = m)
    <3>1. t \in Seq(S) /\ t # <<>> /\ t[Len(t)] = k
      BY <2>9, <2>12
    <3>2. \A i, j \in DOMAIN t : t[i] = t[j] => i = j
      BY <2>10, <2>12
    <3>3. \A m : (\E i \in DOMAIN t : t[i] = m) <=> (m = k \/ \E i \in DOMAIN s : s[i] = m)
      BY <2>11, <2>12
    <3>4. QED
      BY <3>1, <3>2, <3>3
  <2> HIDE DEF t
  <2>14. QED
    BY <2>8, <2>13 DEF t
<1>3. QED
  BY <1>1, <1>2

\* Every step of the lookup, build and settle protocol keeps its invariant.
LEMMA FlightStep ==
  ASSUME FlightInv, LruListsResidents, Next
  PROVE  FlightInv'
<1> USE CacheAssumption DEF FlightInv, CacheTypeOK, CellStates, Places
<1> DEFINE Parts == /\ CellsInUse /\ BuilderIsAlone /\ SettlersAreDone /\ UnfinishedInFlight
                    /\ ResidentOrInFlight /\ NoNegativeEntry /\ NoRetentionAcrossClear
<1>1. ASSUME NEW c \in Callers, NEW k \in Keys, Hit(c, k) PROVE FlightInv'
  <2>1. state[entry[k]] = "some" /\ entry[k] \in Cells
    BY <1>1 DEF Hit, NoNegativeEntry, Resident
  <2>2. Touch(lru, k) \in Seq(Keys)
    BY TouchLists DEF LruListsResidents
  <2>3. CacheTypeOK'
    BY <1>1, <2>1, <2>2 DEF Hit
  <2>4. Parts'
    BY <1>1, <2>1 DEF Hit, CellsInUse, BuilderIsAlone, SettlersAreDone, UnfinishedInFlight,
                      ResidentOrInFlight, NoNegativeEntry, NoRetentionAcrossClear, Resident
  <2>5. QED
    BY <2>3, <2>4
<1>2. ASSUME NEW c \in Callers, NEW k \in Keys, JoinFlight(c, k) PROVE FlightInv'
  <2>1. CacheTypeOK'
    BY <1>2 DEF JoinFlight
  <2>2. Parts'
    BY <1>2 DEF JoinFlight, CellsInUse, BuilderIsAlone, SettlersAreDone, UnfinishedInFlight,
                ResidentOrInFlight, NoNegativeEntry, NoRetentionAcrossClear, Resident
  <2>3. QED
    BY <2>1, <2>2
<1>3. ASSUME NEW c \in Callers, NEW k \in Keys, NEW x \in Cells, StartFlight(c, k, x) PROVE FlightInv'
  <2>1. CacheTypeOK'
    BY <1>3 DEF StartFlight
  <2>2. /\ \A d \in Callers \ {c} : pc[d] # "idle" => cell[d] # x
        /\ \A j \in Keys : flight[j] # x /\ entry[j] # x
    BY <1>3 DEF StartFlight, CellsInUse, NoNegativeEntry, Resident
  <2>3. CellsInUse' /\ BuilderIsAlone' /\ SettlersAreDone'
    BY <1>3, <2>2 DEF StartFlight, CellsInUse, BuilderIsAlone, SettlersAreDone
  <2>4. UnfinishedInFlight'
    BY <1>3, <2>2 DEF StartFlight, UnfinishedInFlight, CellsInUse
  <2>5. ResidentOrInFlight' /\ NoNegativeEntry' /\ NoRetentionAcrossClear'
    BY <1>3, <2>2 DEF StartFlight, ResidentOrInFlight, NoNegativeEntry, NoRetentionAcrossClear, Resident
  <2>6. QED
    BY <2>1, <2>3, <2>4, <2>5
<1>4. ASSUME NEW c \in Callers, BeginBuild(c) PROVE FlightInv'
  <2>1. CacheTypeOK'
    BY <1>4 DEF BeginBuild
  <2>2. Parts'
    BY <1>4 DEF BeginBuild, CellsInUse, BuilderIsAlone, SettlersAreDone, UnfinishedInFlight,
                ResidentOrInFlight, NoNegativeEntry, NoRetentionAcrossClear, Resident
  <2>3. QED
    BY <2>1, <2>2
<1>5. ASSUME NEW c \in Callers, EndBuild(c) PROVE FlightInv'
  <2>1. CacheTypeOK'
    BY <1>5 DEF EndBuild
  <2>2. Parts'
    BY <1>5 DEF EndBuild, CellsInUse, BuilderIsAlone, SettlersAreDone, UnfinishedInFlight,
                ResidentOrInFlight, NoNegativeEntry, NoRetentionAcrossClear, Resident
  <2>3. QED
    BY <2>1, <2>2
<1>6. ASSUME NEW c \in Callers, BuildPanics(c) PROVE FlightInv'
  <2>1. CacheTypeOK'
    BY <1>6 DEF BuildPanics
  <2>2. Parts'
    BY <1>6 DEF BuildPanics, CellsInUse, BuilderIsAlone, SettlersAreDone, UnfinishedInFlight,
                ResidentOrInFlight, NoNegativeEntry, NoRetentionAcrossClear, Resident
  <2>3. QED
    BY <2>1, <2>2
<1>7. ASSUME NEW c \in Callers, Observe(c) PROVE FlightInv'
  <2>1. CacheTypeOK'
    BY <1>7 DEF Observe
  <2>2. Parts'
    BY <1>7 DEF Observe, CellsInUse, BuilderIsAlone, SettlersAreDone, UnfinishedInFlight,
                ResidentOrInFlight, NoNegativeEntry, NoRetentionAcrossClear, Resident
  <2>3. QED
    BY <2>1, <2>2
<1>8. ASSUME NEW c \in Callers, Retain(c) PROVE FlightInv'
  <2>1. Touch(lru, key[c]) \in Seq(Keys)
    BY TouchLists DEF LruListsResidents
  <2>2. CacheTypeOK'
    <3>1. estimated' \in Nat
      BY <1>8 DEF Retain, SaturatingSub
    <3>2. QED
      BY <1>8, <2>1, <3>1 DEF Retain
  <2>3. Parts'
    BY <1>8 DEF Retain, OwnsSlot, Retainable, CellsInUse, BuilderIsAlone, SettlersAreDone,
                UnfinishedInFlight, ResidentOrInFlight, NoNegativeEntry, NoRetentionAcrossClear, Resident
  <2>4. QED
    BY <2>2, <2>3
<1>9. ASSUME NEW c \in Callers, Settle(c) PROVE FlightInv'
  <2>1. CacheTypeOK'
    BY <1>9 DEF Settle
  <2>2. \A k \in Keys : flight'[k] # flight[k] => k = key[c] /\ flight[k] = cell[c] /\ flight'[k] = None
    BY <1>9 DEF Settle, OwnsSlot
  <2>3. UnfinishedInFlight'
    <3> SUFFICES ASSUME NEW d \in Callers, pc'[d] # "idle", state'[cell'[d]] \in {"empty", "building"}
                 PROVE  flight'[key'[d]] = cell'[d]
      BY DEF UnfinishedInFlight
    <3>1. /\ d # c /\ pc'[d] = pc[d] /\ state' = state /\ cell' = cell /\ key' = key
          /\ pc[c] = "settle"
      BY <1>9 DEF Settle
    <3>2. flight[key[d]] = cell[d] /\ key[d] \in Keys
      BY <3>1 DEF UnfinishedInFlight
    <3>3. cell[d] # cell[c]
      BY <3>1 DEF SettlersAreDone
    <3>4. QED
      BY <2>2, <3>1, <3>2, <3>3
  <2>4. CellsInUse' /\ BuilderIsAlone' /\ SettlersAreDone'
    BY <1>9, <2>2 DEF Settle, CellsInUse, BuilderIsAlone, SettlersAreDone
  <2>5. ResidentOrInFlight' /\ NoNegativeEntry' /\ NoRetentionAcrossClear'
    BY <1>9, <2>2 DEF Settle, ResidentOrInFlight, NoNegativeEntry, NoRetentionAcrossClear, Resident
  <2>6. QED
    BY <2>1, <2>3, <2>4, <2>5
<1>10. ASSUME NEW c \in Callers, Evict(c) PROVE FlightInv'
  <2>1. CacheTypeOK'
    <3>1. Head(lru) \in Keys /\ lru' \in Seq(Keys)
      BY <1>10 DEF Evict
    <3>2. estimated' \in Nat
      BY <1>10, <3>1 DEF Evict, SaturatingSub
    <3>3. QED
      BY <1>10, <3>1, <3>2 DEF Evict
  <2>2. Parts'
    BY <1>10 DEF Evict, CellsInUse, BuilderIsAlone, SettlersAreDone, UnfinishedInFlight,
                 ResidentOrInFlight, NoNegativeEntry, NoRetentionAcrossClear, Resident
  <2>3. QED
    BY <2>1, <2>2
<1>11. ASSUME NEW c \in Callers, StopEvicting(c) PROVE FlightInv'
  <2>1. CacheTypeOK'
    BY <1>11 DEF StopEvicting
  <2>2. Parts'
    BY <1>11 DEF StopEvicting, CellsInUse, BuilderIsAlone, SettlersAreDone, UnfinishedInFlight,
                 ResidentOrInFlight, NoNegativeEntry, NoRetentionAcrossClear, Resident
  <2>3. QED
    BY <2>1, <2>2
<1>12. ASSUME Clear PROVE FlightInv'
  <2>1. CacheTypeOK'
    BY <1>12 DEF Clear
  <2>2. Parts'
    BY <1>12 DEF Clear, CellsInUse, BuilderIsAlone, SettlersAreDone, UnfinishedInFlight,
                 ResidentOrInFlight, NoNegativeEntry, NoRetentionAcrossClear, Resident
  <2>3. QED
    BY <2>1, <2>2
<1>13. QED
  BY <1>1, <1>2, <1>3, <1>4, <1>5, <1>6, <1>7, <1>8, <1>9, <1>10, <1>11, <1>12
     DEF Next, CallStep, Lookup

-----------------------------------------------------------------------------
\* A step that leaves the ledger's variables alone, and does not move the
\* evicting caller, leaves the ledger's invariant alone.
LEMMA LedgerStutter ==
  ASSUME LedgerInv, UNCHANGED <<lru, entry, estimated, evictor>>,
         evictor # None => /\ pc'[evictor] = pc[evictor]
                           /\ key'[evictor] = key[evictor]
                           /\ cell'[evictor] = cell[evictor]
  PROVE  LedgerInv'
BY DEF LedgerInv, LruListsResidents, EvictorIsNewest, BudgetKept, Unlocked, Resident

\* A retained body adds its bytes and becomes the newest entry.
LEMMA RetainKeepsLedger ==
  ASSUME FlightInv, LedgerInv, NEW c \in Callers, Retain(c)
  PROVE  LedgerInv'
<1> DEFINE k == key[c]
<1>1. k \in Keys /\ cell[c] \in Cells /\ Bytes[k] \in Nat /\ Bytes[k] <= Budget
  BY CacheAssumption DEF FlightInv, CacheTypeOK, Retain, Retainable
<1>2. entry[k] = None /\ k \notin Resident
  BY <1>1, CacheAssumption DEF FlightInv, ResidentOrInFlight, Retain, OwnsSlot, Resident
<1>3. entry' = [entry EXCEPT ![k] = cell[c]] /\ lru' = Touch(lru, k) /\ evictor' = c
      /\ pc' = pc /\ key' = key /\ cell' = cell
  BY DEF Retain
<1>4. entry \in [Keys -> Cells \cup {None}] /\ lru \in Seq(Keys) /\ estimated \in Nat
  BY DEF FlightInv, CacheTypeOK
<1>5. Resident' = Resident \cup {k}
  BY <1>1, <1>3, <1>4, CacheAssumption DEF Resident
<1>6. estimated' = estimated + Bytes[k]
  BY <1>1, <1>2, <1>4 DEF Retain, SaturatingSub
<1>7. /\ IsFiniteSet(WeightTokens(Bytes, Resident \cup {k}))
      /\ TotalWeight(Bytes, Resident \cup {k}) = TotalWeight(Bytes, Resident) + Bytes[k]
  BY <1>1, <1>2, WeightAdd DEF LedgerInv
<1>8. IsFiniteSet(WeightTokens(Bytes, Resident))' /\ BudgetKept'
  <2>1. c # None
    BY CacheAssumption
  <2>2. QED
    BY <1>3, <1>5, <1>6, <1>7, <2>1 DEF LedgerInv, BudgetKept, Unlocked
<1>9. LruListsResidents'
  <2>1. \A i, j \in DOMAIN lru : lru[i] = lru[j] => i = j
    BY DEF LedgerInv, LruListsResidents
  <2>2. /\ \A i, j \in DOMAIN Touch(lru, k) : Touch(lru, k)[i] = Touch(lru, k)[j] => i = j
        /\ \A m : (\E i \in DOMAIN Touch(lru, k) : Touch(lru, k)[i] = m)
                    <=> (m = k \/ \E i \in DOMAIN lru : lru[i] = m)
    BY <1>1, <1>4, <2>1, TouchLists
  <2>3. \A j \in Keys : (entry'[j] # None) <=> (j = k \/ entry[j] # None)
    BY <1>1, <1>3, <1>4, CacheAssumption
  <2>4. QED
    BY <1>3, <2>2, <2>3 DEF LedgerInv, LruListsResidents
<1>10. EvictorIsNewest'
  <2>1. \A i, j \in DOMAIN lru : lru[i] = lru[j] => i = j
    BY DEF LedgerInv, LruListsResidents
  <2>2. Touch(lru, k) # <<>> /\ Touch(lru, k)[Len(Touch(lru, k))] = k
    BY <1>1, <1>4, <2>1, TouchLists
  <2>3. pc[c] = "settle"
    BY DEF Retain
  <2>4. entry'[k] = cell[c]
    BY <1>1, <1>3, <1>4
  <2>5. QED
    BY <1>1, <1>3, <2>2, <2>3, <2>4 DEF EvictorIsNewest
<1>11. QED
  BY <1>8, <1>9, <1>10 DEF LedgerInv

\* An eviction takes the bytes of the oldest entry, which is not the newest:
\* alone, the newest is within the budget and the loop has ended.
LEMMA EvictKeepsLedger ==
  ASSUME FlightInv, LedgerInv, NEW c \in Callers, Evict(c)
  PROVE  LedgerInv'
<1> DEFINE h == Head(lru)
           n == Len(lru)
<1>1. /\ lru \in Seq(Keys) /\ lru # <<>> /\ n \in Nat \ {0} /\ h = lru[1] /\ h \in Keys
      /\ DOMAIN lru = 1..n
  BY DEF FlightInv, CacheTypeOK, Evict
<1>2. /\ Tail(lru) \in Seq(Keys) /\ Len(Tail(lru)) = n - 1 /\ DOMAIN Tail(lru) = 1..(n - 1)
      /\ \A i \in 1..(n - 1) : Tail(lru)[i] = lru[i + 1]
  BY <1>1
<1>3. /\ lru' = Tail(lru) /\ entry' = [entry EXCEPT ![h] = None]
      /\ evictor = c /\ UNCHANGED <<pc, key, cell, evictor>>
  BY DEF Evict
<1>4. entry \in [Keys -> Cells \cup {None}] /\ estimated \in Nat /\ key[c] \in Keys /\ Bytes[h] \in Nat
  BY <1>1, CacheAssumption DEF FlightInv, CacheTypeOK
<1>5. /\ \A i, j \in 1..n : lru[i] = lru[j] => i = j
      /\ \A k \in Keys : (entry[k] # None) <=> \E i \in 1..n : lru[i] = k
  BY <1>1 DEF LedgerInv, LruListsResidents
<1>6. h \in Resident /\ Resident' = Resident \ {h}
  BY <1>1, <1>3, <1>4, <1>5 DEF Resident
<1>7. /\ IsFiniteSet(WeightTokens(Bytes, Resident \ {h}))
      /\ TotalWeight(Bytes, Resident \ {h}) \in Nat
      /\ TotalWeight(Bytes, Resident) = TotalWeight(Bytes, Resident \ {h}) + Bytes[h]
  BY <1>4, <1>6, WeightRemove DEF LedgerInv
<1>8. estimated = TotalWeight(Bytes, Resident)
  BY DEF LedgerInv, BudgetKept
<1> HIDE DEF h, n
<1>9. estimated' = TotalWeight(Bytes, Resident \ {h})
  <2>1. estimated' = IF estimated >= Bytes[h] THEN estimated - Bytes[h] ELSE 0
    BY DEF Evict, SaturatingSub, h
  <2>2. QED
    BY <1>4, <1>7, <1>8, <2>1
<1>10. IsFiniteSet(WeightTokens(Bytes, Resident))' /\ BudgetKept'
  <2>1. c # None
    BY CacheAssumption
  <2>2. QED
    BY <1>3, <1>6, <1>7, <1>9, <2>1 DEF BudgetKept, Unlocked
<1>11. LruListsResidents'
  <2>1. \A i, j \in 1..(n - 1) : Tail(lru)[i] = Tail(lru)[j] => i = j
    BY <1>1, <1>2, <1>5
  <2>2. \A i \in 1..(n - 1) : Tail(lru)[i] # h
    BY <1>1, <1>2, <1>5
  <2>3. \A k \in Keys \ {h} : (\E i \in 1..n : lru[i] = k) <=> \E i \in 1..(n - 1) : Tail(lru)[i] = k
    <3> SUFFICES ASSUME NEW k \in Keys, k # h
                 PROVE  (\E i \in 1..n : lru[i] = k) <=> \E i \in 1..(n - 1) : Tail(lru)[i] = k
      OBVIOUS
    <3>1. ASSUME NEW i \in 1..n, lru[i] = k PROVE \E j \in 1..(n - 1) : Tail(lru)[j] = k
      <4>1. i # 1
        BY <1>1, <3>1
      <4>2. i - 1 \in 1..(n - 1) /\ Tail(lru)[i - 1] = lru[i]
        BY <1>1, <1>2, <4>1
      <4>3. QED
        BY <3>1, <4>2
    <3>2. ASSUME NEW i \in 1..(n - 1), Tail(lru)[i] = k PROVE \E j \in 1..n : lru[j] = k
      BY <1>1, <1>2, <3>2
    <3>3. QED
      BY <3>1, <3>2
  <2>4. \A k \in Keys : (entry'[k] # None) <=> (k # h /\ entry[k] # None)
    BY <1>1, <1>3, <1>4
  <2>5. \A k \in Keys : (entry'[k] # None) <=> \E i \in 1..(n - 1) : Tail(lru)[i] = k
    BY <1>5, <2>2, <2>3, <2>4
  <2>6. QED
    BY <1>2, <1>3, <2>1, <2>5 DEF LruListsResidents
<1>12. EvictorIsNewest'
  <2>1. /\ pc[c] = "settle" /\ entry[key[c]] = cell[c] /\ Bytes[key[c]] <= Budget
        /\ lru[n] = key[c]
    <3>1. c # None
      BY CacheAssumption
    <3>2. QED
      BY <1>3, <3>1 DEF LedgerInv, EvictorIsNewest, n
  <2>2. n # 1
    <3> SUFFICES ASSUME n = 1 PROVE FALSE
      OBVIOUS
    <3>1. h = key[c]
      BY <1>1, <2>1
    <3>2. Resident \ {h} = {}
      BY <1>1, <1>5 DEF Resident
    <3>3. TotalWeight(Bytes, Resident \ {h}) = 0
      BY <3>2, WeightOfEmpty
    <3>4. estimated = Bytes[h]
      BY <1>4, <1>7, <1>8, <3>3
    <3>5. estimated > Budget
      BY DEF Evict
    <3>6. Bytes[h] <= Budget
      BY <2>1, <3>1
    <3>7. QED
      BY <1>4, <3>4, <3>5, <3>6, CacheAssumption
  <2>3. n - 1 \in 1..(n - 1) /\ (n - 1) + 1 = n
    BY <1>1, <2>2
  <2>4. Tail(lru)[n - 1] = key[c] /\ Tail(lru) # <<>>
    BY <1>2, <2>1, <2>3
  <2>5. h # key[c]
    BY <1>1, <1>5, <2>1, <2>2
  <2>6. entry'[key[c]] = cell[c]
    BY <1>3, <1>4, <2>1, <2>5
  <2>7. QED
    BY <1>2, <1>3, <2>1, <2>4, <2>6 DEF EvictorIsNewest
<1>13. QED
  BY <1>10, <1>11, <1>12 DEF LedgerInv

\* Every step keeps the ledger.
LEMMA LedgerStep ==
  ASSUME FlightInv, LedgerInv, Next
  PROVE  LedgerInv'
<1>1. ASSUME NEW c \in Callers, NEW k \in Keys, Hit(c, k) PROVE LedgerInv'
  <2>1. /\ entry[k] # None /\ lru' = Touch(lru, k) /\ evictor = None
        /\ UNCHANGED <<entry, estimated, evictor>>
    BY <1>1 DEF Hit, Unlocked
  <2>2. lru \in Seq(Keys)
    BY DEF FlightInv, CacheTypeOK
  <2>3. \A i, j \in DOMAIN lru : lru[i] = lru[j] => i = j
    BY DEF LedgerInv, LruListsResidents
  <2>4. /\ \A i, j \in DOMAIN Touch(lru, k) : Touch(lru, k)[i] = Touch(lru, k)[j] => i = j
        /\ \A m : (\E i \in DOMAIN Touch(lru, k) : Touch(lru, k)[i] = m)
                    <=> (m = k \/ \E i \in DOMAIN lru : lru[i] = m)
    BY <2>2, <2>3, TouchLists
  <2>5. LruListsResidents'
    BY <2>1, <2>4 DEF LedgerInv, LruListsResidents
  <2>6. QED
    BY <2>1, <2>5 DEF LedgerInv, EvictorIsNewest, BudgetKept, Unlocked, Resident
<1>2. ASSUME NEW c \in Callers, NEW k \in Keys,
             JoinFlight(c, k) \/ \E x \in Cells : StartFlight(c, k, x)
      PROVE  LedgerInv'
  BY <1>2, LedgerStutter DEF JoinFlight, StartFlight, Unlocked
<1>3. ASSUME NEW c \in Callers, BeginBuild(c) \/ EndBuild(c) \/ BuildPanics(c) \/ Observe(c)
      PROVE  LedgerInv'
  <2>1. evictor # None => pc[evictor] = "settle" /\ evictor \in Callers
    BY DEF LedgerInv, EvictorIsNewest, FlightInv, CacheTypeOK
  <2>2. pc[c] \in {"init", "build"} /\ UNCHANGED <<lru, entry, estimated, evictor, key, cell>>
    BY <1>3 DEF BeginBuild, EndBuild, BuildPanics, Observe
  <2>3. \A d \in Callers \ {c} : pc'[d] = pc[d]
    BY <1>3 DEF BeginBuild, EndBuild, BuildPanics, Observe, FlightInv, CacheTypeOK
  <2>4. QED
    BY <2>1, <2>2, <2>3, LedgerStutter
<1>4. ASSUME NEW c \in Callers, Retain(c) PROVE LedgerInv'
  BY <1>4, RetainKeepsLedger
<1>5. ASSUME NEW c \in Callers, Settle(c) PROVE LedgerInv'
  BY <1>5, LedgerStutter DEF Settle, Unlocked
<1>6. ASSUME NEW c \in Callers, Evict(c) PROVE LedgerInv'
  BY <1>6, EvictKeepsLedger
<1>7. ASSUME NEW c \in Callers, StopEvicting(c) PROVE LedgerInv'
  <2>1. evictor' = None /\ UNCHANGED <<lru, entry, estimated>>
        /\ (estimated <= Budget \/ lru = <<>>)
    BY <1>7 DEF StopEvicting
  <2>2. Resident' = Resident /\ LruListsResidents' /\ EvictorIsNewest'
    BY <2>1 DEF LedgerInv, LruListsResidents, EvictorIsNewest, Resident
  <2>3. estimated <= Budget
    <3> SUFFICES ASSUME lru = <<>> PROVE estimated <= Budget
      BY <2>1
    <3>1. Resident = {}
      BY DEF LedgerInv, LruListsResidents, Resident
    <3>2. estimated = 0
      BY <3>1, WeightOfEmpty DEF LedgerInv, BudgetKept
    <3>3. QED
      BY <3>2, CacheAssumption
  <2>4. QED
    BY <2>1, <2>2, <2>3 DEF LedgerInv, BudgetKept
<1>8. ASSUME Clear PROVE LedgerInv'
  <2>1. /\ lru' = <<>> /\ entry' = [k \in Keys |-> None] /\ estimated' = 0
        /\ evictor = None /\ evictor' = evictor
    BY <1>8 DEF Clear, Unlocked
  <2>2. Resident' = {} /\ LruListsResidents' /\ EvictorIsNewest'
    BY <2>1 DEF Resident, LruListsResidents, EvictorIsNewest
  <2>3. IsFiniteSet(WeightTokens(Bytes, Resident))' /\ BudgetKept'
    BY <2>1, <2>2, WeightOfEmpty, CacheAssumption DEF BudgetKept
  <2>4. QED
    BY <2>2, <2>3 DEF LedgerInv
<1>9. QED
  BY <1>1, <1>2, <1>3, <1>4, <1>5, <1>6, <1>7, <1>8 DEF Next, CallStep, Lookup

\* Both invariants hold in every state of the cache.
THEOREM CacheInvariance == CacheSafetySpec => [](FlightInv /\ LedgerInv)
<1>1. Init => FlightInv /\ LedgerInv
  <2> SUFFICES ASSUME Init PROVE FlightInv /\ LedgerInv
    OBVIOUS
  <2>1. CacheTypeOK
    BY CacheAssumption DEF Init, CacheTypeOK, CellStates, Places
  <2>2. FlightInv
    BY <2>1, CacheAssumption
       DEF FlightInv, Init, CellsInUse, BuilderIsAlone, SettlersAreDone, UnfinishedInFlight,
           ResidentOrInFlight, NoNegativeEntry, NoRetentionAcrossClear, Resident
  <2>3. Resident = {} /\ lru = <<>> /\ evictor = None /\ estimated = 0
    BY DEF Init, Resident
  <2>4. LruListsResidents /\ EvictorIsNewest
    BY <2>3 DEF LruListsResidents, EvictorIsNewest, Resident
  <2>5. IsFiniteSet(WeightTokens(Bytes, Resident)) /\ BudgetKept
    BY <2>3, WeightOfEmpty, CacheAssumption DEF BudgetKept
  <2>6. QED
    BY <2>2, <2>4, <2>5 DEF LedgerInv
<1>2. FlightInv /\ LedgerInv /\ [Next]_vars => (FlightInv /\ LedgerInv)'
  <2> SUFFICES ASSUME FlightInv, LedgerInv, [Next]_vars PROVE FlightInv' /\ LedgerInv'
    OBVIOUS
  <2>1. CASE Next
    BY <2>1, FlightStep, LedgerStep DEF LedgerInv
  <2>2. CASE UNCHANGED vars
    BY <2>2 DEF vars, FlightInv, CacheTypeOK, CellsInUse, BuilderIsAlone, SettlersAreDone,
                UnfinishedInFlight, ResidentOrInFlight, NoNegativeEntry, NoRetentionAcrossClear,
                LedgerInv, LruListsResidents, EvictorIsNewest, BudgetKept, Unlocked, Resident
  <2>3. QED
    BY <2>1, <2>2
<1>3. QED
  BY <1>1, <1>2, PTL DEF CacheSafetySpec

\* Two callers never lower the same file at the same time: builders of one key
\* share the key's in-flight cell, and a OnceLock has one initializer.
THEOREM CacheSingleFlight == CacheSafetySpec => []SingleFlight
<1>1. FlightInv => SingleFlight
  <2> SUFFICES ASSUME FlightInv, NEW c \in Callers, NEW d \in Callers,
                      pc[c] = "build", pc[d] = "build", key[c] = key[d]
               PROVE  c = d
    BY DEF SingleFlight
  <2>1. state[cell[c]] = "building" /\ state[cell[d]] = "building"
    BY DEF FlightInv, BuilderIsAlone
  <2>2. flight[key[c]] = cell[c] /\ flight[key[d]] = cell[d]
    BY <2>1 DEF FlightInv, UnfinishedInFlight
  <2>3. cell[c] = cell[d]
    BY <2>2
  <2>4. QED
    BY <2>3 DEF FlightInv, BuilderIsAlone
<1>2. QED
  BY <1>1, CacheInvariance, PTL

\* No body that was started before a clear stays resident after it, and no
\* failed build becomes an entry.
THEOREM CacheRetention == CacheSafetySpec => [](NoRetentionAcrossClear /\ NoNegativeEntry)
<1>1. FlightInv => NoRetentionAcrossClear /\ NoNegativeEntry
  BY DEF FlightInv
<1>2. QED
  BY <1>1, CacheInvariance, PTL

\* The byte count is exact, and within the budget whenever the mutex is free.
THEOREM CacheBudget == CacheSafetySpec => []BudgetKept
<1>1. LedgerInv => BudgetKept
  BY DEF LedgerInv
<1>2. QED
  BY <1>1, CacheInvariance, PTL

\* The evictions of a call never take the body the call has just retained.
THEOREM CacheNewestSurvives == CacheSafetySpec => NewestSurvives
<1> DEFINE Survives == \A c \in Callers : evictor = c /\ evictor' = None => entry[key[c]] = cell[c]
<1>1. LedgerInv /\ [Next]_vars => [Survives]_vars
  BY CacheAssumption DEF LedgerInv, EvictorIsNewest
<1>2. QED
  BY <1>1, CacheInvariance, PTL DEF CacheSafetySpec, NewestSurvives

-----------------------------------------------------------------------------
(* MemorySchedules: sorting by rank. *)

\* What a surjection is, without its range.
LEMMA SurjectionFacts ==
  ASSUME NEW S, NEW T, NEW f \in Surjection(S, T)
  PROVE  f \in [S -> T] /\ \A y \in T : \E x \in S : f[x] = y
BY DEF Surjection

\* p lists the units 1..n by falling weight.
ListsByWeight(p, n, weight) ==
  /\ p \in [1..n -> 1..n]
  /\ \A i, j \in 1..n : p[i] = p[j] => i = j
  /\ \A i \in 1..n : \E k \in 1..n : p[k] = i
  /\ \A k, l \in 1..n : k <= l => weight[p[k]] >= weight[p[l]]

\* However the units are weighed, ranking them by weight, equal ones by
\* position, puts each of them at its own place from 1 to n, heavier before lighter.
LEMMA RanksSort ==
  ASSUME NEW n \in Nat, NEW weight \in [1..n -> Nat]
  PROVE  \E p \in [1..n -> 1..n] :
           /\ \A k \in 1..n : Cardinality(SortedBefore(weight, p[k])) = k - 1
           /\ \A i, k \in 1..n : Cardinality(SortedBefore(weight, i)) = k - 1 => i = p[k]
           /\ ListsByWeight(p, n, weight)
<1> DEFINE before(i) == SortedBefore(weight, i)
           rank == [i \in 1..n |-> Cardinality(before(i)) + 1]
<1>1. IsFiniteSet(1..n) /\ Cardinality(1..n) = n
  BY FS_Interval
<1>2. ASSUME NEW i \in 1..n
      PROVE  /\ before(i) \subseteq 1..n /\ i \notin before(i)
             /\ IsFiniteSet(before(i)) /\ Cardinality(before(i)) \in Nat
  <2>1. before(i) \subseteq 1..n /\ i \notin before(i)
    BY DEF SortedBefore
  <2>2. QED
    BY <2>1, <1>1, FS_Subset, FS_CardinalityType
<1>3. ASSUME NEW i \in 1..n, NEW j \in 1..n, i # j
      PROVE  i \in before(j) \/ j \in before(i)
  BY <1>3 DEF SortedBefore
<1>4. ASSUME NEW i \in 1..n, NEW j \in 1..n, i \in before(j)
      PROVE  before(i) \subseteq before(j) \ {i} /\ weight[i] >= weight[j]
  BY <1>4 DEF SortedBefore
<1> HIDE DEF before
<1>5. ASSUME NEW i \in 1..n, NEW j \in 1..n, i \in before(j)
      PROVE  rank[i] < rank[j]
  <2>1. IsFiniteSet(before(j) \ {i}) /\ Cardinality(before(j) \ {i}) = Cardinality(before(j)) - 1
    BY <1>2, <1>5, FS_RemoveElement
  <2>2. Cardinality(before(i)) <= Cardinality(before(j) \ {i})
    BY <1>4, <1>5, <2>1, FS_Subset
  <2>3. QED
    BY <1>2, <2>1, <2>2
<1>6. rank \in [1..n -> 1..n]
  <2>1. SUFFICES ASSUME NEW i \in 1..n PROVE Cardinality(before(i)) + 1 \in 1..n
    OBVIOUS
  <2>2. IsFiniteSet((1..n) \ {i}) /\ Cardinality((1..n) \ {i}) = n - 1
    BY <1>1, FS_RemoveElement
  <2>3. before(i) \subseteq (1..n) \ {i}
    BY <1>2
  <2>4. Cardinality(before(i)) <= n - 1
    BY <2>2, <2>3, FS_Subset
  <2>5. QED
    BY <1>2, <2>4
<1>7. ASSUME NEW i \in 1..n PROVE rank[i] = Cardinality(before(i)) + 1
  OBVIOUS
<1> HIDE DEF rank
<1>8. ASSUME NEW i \in 1..n, NEW j \in 1..n, rank[i] = rank[j] PROVE i = j
  <2>1. rank[i] \in Nat /\ rank[j] \in Nat
    BY <1>6
  <2>2. QED
    BY <2>1, <1>3, <1>5, <1>8
<1>9. rank \in Injection(1..n, 1..n)
  BY <1>6, <1>8, Fun_IsInj
<1>10. rank \in Surjection(1..n, 1..n)
  BY <1>1, <1>9, FS_Injection
<1>11. \A k \in 1..n : \E i \in 1..n : rank[i] = k
  <2> DEFINE D == 1..n
  <2>1. rank \in Surjection(D, D)
    BY <1>10
  <2> HIDE DEF D
  <2>2. \A k \in D : \E i \in D : rank[i] = k
    BY <2>1, SurjectionFacts
  <2>3. QED
    BY <2>2 DEF D
<1> DEFINE p == [k \in 1..n |-> CHOOSE i \in 1..n : Cardinality(before(i)) = k - 1]
<1>12. ASSUME NEW k \in 1..n PROVE p[k] \in 1..n /\ Cardinality(before(p[k])) = k - 1
  <2>1. PICK i \in 1..n : rank[i] = k
    BY <1>11
  <2>2. rank[i] = Cardinality(before(i)) + 1 /\ Cardinality(before(i)) \in Nat
    BY <1>2, <1>7
  <2>3. Cardinality(before(i)) = k - 1
    BY <2>1, <2>2
  <2>4. QED
    BY <2>3
<1> HIDE DEF p
<1>13. ASSUME NEW k \in 1..n PROVE p[k] \in 1..n /\ rank[p[k]] = k
  BY <1>7, <1>12
<1>14. ASSUME NEW k \in 1..n, NEW i \in 1..n, Cardinality(before(i)) = k - 1 PROVE i = p[k]
  <2>1. rank[i] = k
    BY <1>7, <1>14
  <2>2. QED
    BY <2>1, <1>8, <1>13
<1>15. p \in [1..n -> 1..n]
  BY <1>12 DEF p
<1>16. ASSUME NEW i \in 1..n PROVE \E k \in 1..n : p[k] = i
  <2>1. rank[i] \in 1..n
    BY <1>6
  <2>2. p[rank[i]] = i
    BY <2>1, <1>13, <1>8
  <2>3. QED
    BY <2>1, <2>2
<1>17. \A k, l \in 1..n : p[k] = p[l] => k = l
  BY <1>13
<1>18. ASSUME NEW k \in 1..n, NEW l \in 1..n, k <= l PROVE weight[p[k]] >= weight[p[l]]
  <2>1. CASE k = l
    BY <2>1, <1>12
  <2>2. CASE k # l
    <3>1. p[k] # p[l] /\ ~(rank[p[l]] < rank[p[k]])
      BY <1>13, <1>18, <2>2
    <3>2. p[k] \in before(p[l])
      BY <3>1, <1>3, <1>5, <1>12
    <3>3. QED
      BY <3>2, <1>4, <1>12
  <2>3. QED
    BY <2>1, <2>2
<1>19. /\ \A k \in 1..n : Cardinality(SortedBefore(weight, p[k])) = k - 1
       /\ \A i, k \in 1..n : Cardinality(SortedBefore(weight, i)) = k - 1 => i = p[k]
  BY <1>12, <1>14 DEF before
<1>20. ListsByWeight(p, n, weight)
  BY <1>15, <1>16, <1>17, <1>18 DEF ListsByWeight
<1>21. QED
  BY <1>15, <1>19, <1>20

\* The k heaviest units weigh at least as much as any k units.
LEMMA HeaviestBound ==
  ASSUME NEW n \in Nat, NEW weight \in [1..n -> Nat], NEW p, ListsByWeight(p, n, weight),
         NEW sorted, \A k \in 1..n : sorted[k] = weight[p[k]],
         NEW units \in SUBSET (1..n), NEW k \in 1..n, Cardinality(units) = k
  PROVE  TotalWeight(weight, units) <= TotalWeight(sorted, 1..k)
<1> DEFINE top == {p[i] : i \in 1..k}
           cut == weight[p[k]]
           q == [i \in 1..k |-> p[i]]
<1>1. /\ p \in [1..n -> 1..n] /\ \A i, j \in 1..n : p[i] = p[j] => i = j
      /\ \A i \in 1..n : \E j \in 1..n : p[j] = i
      /\ \A i, j \in 1..n : i <= j => weight[p[i]] >= weight[p[j]]
  BY DEF ListsByWeight
<1>2. IsFiniteSet(1..n) /\ IsFiniteSet(1..k) /\ Cardinality(1..k) = k /\ 1..k \subseteq 1..n
  BY FS_Interval
<1>3. q \in Bijection(1..k, top)
  <2>1. q \in [1..k -> top]
    OBVIOUS
  <2>2. \A i, j \in 1..k : q[i] = q[j] => i = j
    BY <1>1, <1>2
  <2>3. \A y \in top : \E i \in 1..k : q[i] = y
    OBVIOUS
  <2>4. QED
    BY <2>1, <2>2, <2>3, Fun_IsBij
<1>4. ASSUME NEW i \in 1..k PROVE i \in 1..n /\ p[i] \in 1..n /\ weight[p[i]] \in Nat
  <2>1. i \in 1..n
    BY <1>2
  <2>2. p[i] \in 1..n
    BY <2>1, <1>1
  <2>3. QED
    BY <2>1, <2>2
<1>5. top \subseteq 1..n /\ IsFiniteSet(top) /\ Cardinality(top) = k
  <2>1. ExistsBijection(1..k, top)
    BY <1>3 DEF ExistsBijection
  <2>2. IsFiniteSet(top) /\ Cardinality(top) = k
    BY <1>2, <2>1, FS_Bijection
  <2>3. QED
    BY <1>4, <2>2
<1>6. TotalWeight(sorted, 1..k) = TotalWeight(weight, top)
  <2>1. ASSUME NEW i \in 1..k PROVE sorted[i] \in Nat /\ sorted[i] = weight[q[i]]
    BY <1>4
  <2>2. \A i \in 1..k : sorted[i] \in Nat /\ sorted[i] = weight[q[i]]
    BY <2>1
  <2> HIDE DEF q, top
  <2>3. QED
    BY <2>2, <1>2, <1>3, WeightRename
<1>7. ASSUME NEW x \in units \ top PROVE weight[x] <= cut
  <2>1. PICK j \in 1..n : p[j] = x
    BY <1>1
  <2>2. j \notin 1..k
    BY <2>1
  <2>3. k <= j
    BY <2>2
  <2>4. QED
    BY <2>1, <2>3, <1>1
<1>8. ASSUME NEW x \in top \ units PROVE weight[x] >= cut
  <2>1. PICK j \in 1..k : p[j] = x
    OBVIOUS
  <2>2. j \in 1..n /\ j <= k
    BY <1>2
  <2>3. QED
    BY <2>1, <2>2, <1>1
<1>9. cut \in Nat
  BY <1>1
<1> HIDE DEF top, cut, q
<1> DEFINE A == units \ top
           B == top \ units
           C == units \cap top
<1>10. IsFiniteSet(units) /\ IsFiniteSet(A) /\ IsFiniteSet(B) /\ IsFiniteSet(C)
  BY <1>2, <1>5, FS_Subset, FS_Difference, FS_Intersection
<1>11. Cardinality(A) = Cardinality(B) /\ Cardinality(A) \in Nat
  <2>1. Cardinality(A) = k - Cardinality(C)
    BY <1>10, FS_Difference
  <2>2. Cardinality(B) = k - Cardinality(top \cap units)
    BY <1>5, FS_Difference
  <2>3. top \cap units = C
    OBVIOUS
  <2>4. Cardinality(A) \in Nat
    BY <1>10, FS_CardinalityType
  <2>5. QED
    BY <2>1, <2>2, <2>3, <2>4
<1>12. A \cup C = units /\ B \cup C = top /\ A \cap C = {} /\ B \cap C = {}
       /\ A \subseteq 1..n /\ B \subseteq 1..n /\ C \subseteq 1..n
  BY <1>5
<1>13. TotalWeight(weight, A) <= Cardinality(A) * cut
  BY <1>7, <1>9, <1>10, <1>12, WeightAtMost
<1>14. TotalWeight(weight, B) >= Cardinality(B) * cut
  BY <1>8, <1>9, <1>10, <1>12, WeightAtLeast
<1> HIDE DEF A, B, C
<1>15. /\ TotalWeight(weight, A) \in Nat /\ TotalWeight(weight, B) \in Nat
       /\ TotalWeight(weight, C) \in Nat
  BY <1>10, <1>12, WeightFinite
<1>16. /\ TotalWeight(weight, units) = TotalWeight(weight, A) + TotalWeight(weight, C)
       /\ TotalWeight(weight, top) = TotalWeight(weight, B) + TotalWeight(weight, C)
  BY <1>10, <1>12, WeightUnion
<1>17. Cardinality(A) * cut \in Nat
  BY <1>9, <1>11
<1>18. TotalWeight(weight, A) <= TotalWeight(weight, B)
  BY <1>11, <1>13, <1>14, <1>15, <1>17
<1>19. QED
  BY <1>6, <1>15, <1>16, <1>18

-----------------------------------------------------------------------------
(* The schedules.                                                          *)

JobType == [kind : Kinds \cup {"fixed"}, sources : Seq(U64), cpu : Nat,
            limit : (U64 \ {0}) \cup {NoBytes}, resident : U64 \cup {NoBytes}, transient : U64]

\* The type invariant of a call.
SchedTypeOK ==
  /\ at \in {"idle", "fill", "done"}
  /\ job \in JobType
  /\ start \in Nat /\ end \in Nat /\ bytes \in Nat /\ width \in Nat
  /\ batches \in Seq(Nat \X Nat)

Weights == [i \in 1..Count |-> Weight(i)]

\* The batch being filled: its units are what is left from start on, batch_bytes
\* is their true sum capped at U64Max, and several units are within the window.
BatchBeingFilled ==
  /\ start <= end /\ end <= Count /\ (batches = <<>> => start = 0)
  /\ at = "fill" => start < Count /\ width = 0 /\ job.kind # "fixed"
  /\ at = "idle" => start = 0 /\ end = 0 /\ batches = <<>> /\ width = 0
  /\ bytes = AtMost(TotalWeight(Weights, (start + 1)..end), U64Max)
  /\ job.limit # NoBytes /\ end - start > 1 => bytes <= Window(job.kind, job.limit, job.resident)

\* The inductive invariant of the sizing functions.
SchedInv ==
  /\ SchedTypeOK
  /\ BatchBeingFilled
  /\ BatchesPartition
  /\ BatchesFit
  /\ WidthFitsAnySet

\* What the constants are.
LEMMA ScheduleFacts ==
  /\ U64Max \in Nat /\ U64Max > 1 /\ NoBytes \notin U64 /\ U64 \subseteq Nat
  /\ UnitBase \in Nat /\ UnitBase > 0 /\ Amplification \in Nat
  /\ HeadroomDivisor \in Nat /\ HeadroomDivisor > 0
  /\ CompilerHeadroom \in Nat /\ CompilerHeadroom > 0 /\ SyntaxHeadroom \in Nat /\ SyntaxHeadroom > 0
  /\ IngestionHeadroom \in Nat /\ IngestionHeadroom > 0 /\ Copies \in Nat /\ Copies > 0
  /\ SyntaxReserve \in Nat
BY ScheduleAssumption DEF U64

\* Division leaves a remainder, never a debt.
LEMMA DivBounds ==
  ASSUME NEW a \in Nat, NEW b \in Nat, b > 0
  PROVE  a \div b \in Nat /\ b * (a \div b) <= a /\ a \div b <= a
OBVIOUS

\* Products keep an order.
LEMMA ProductOrder ==
  ASSUME NEW a \in Nat, NEW b \in Nat, NEW c \in Nat, a <= b
  PROVE  c * a <= c * b /\ c * a \in Nat /\ c * b \in Nat
OBVIOUS

\* A unit weighs at least one byte unless it is a raw read.
LEMMA UnitBytesType ==
  ASSUME NEW source \in U64
  PROVE  UnitBytes(source) \in Nat /\ UnitBytes(source) > 0
<1>1. source * Amplification \in Nat
  BY ScheduleFacts
<1>2. QED
  BY <1>1, ScheduleFacts DEF UnitBytes, SaturatingAdd, AtMost

\* What is resident and the headroom are numbers, and the headroom is positive
\* unless the limit is a single byte.
LEMMA WindowParts ==
  ASSUME NEW kind \in Kinds, NEW limit \in U64 \ {0}, NEW resident \in U64 \cup {NoBytes}
  PROVE  /\ ResidentBytes(kind, limit, resident) \in Nat
         /\ Headroom(kind, limit) \in Nat /\ Headroom(kind, limit) < limit
         /\ limit > 1 => Headroom(kind, limit) > 0
<1>1. limit \in Nat /\ limit > 0 /\ limit \div 2 \in Nat /\ limit \div HeadroomDivisor \in Nat
  <2>1. limit \in Nat /\ limit > 0
    BY ScheduleFacts DEF U64
  <2>2. QED
    BY <2>1, DivBounds, ScheduleFacts
<1>2. ResidentBytes(kind, limit, resident) \in Nat
  BY <1>1, ScheduleFacts DEF ResidentBytes
<1> DEFINE named == CASE kind = "compiler"  -> AtLeast(limit \div HeadroomDivisor, CompilerHeadroom)
                      [] kind = "syntax"    -> SyntaxHeadroom
                      [] kind = "ingestion" -> AtLeast(limit \div HeadroomDivisor, IngestionHeadroom)
<1>3. named \in Nat /\ named > 0
  <2>1. CASE kind = "compiler"
    BY <2>1, <1>1, ScheduleFacts DEF AtLeast
  <2>2. CASE kind = "syntax"
    BY <2>2, ScheduleFacts
  <2>3. CASE kind = "ingestion"
    BY <2>3, <1>1, ScheduleFacts DEF AtLeast
  <2>4. QED
    BY <2>1, <2>2, <2>3 DEF Kinds
<1>4. Headroom(kind, limit) = AtMost(named, SaturatingSub(limit, 1))
  BY DEF Headroom
<1> HIDE DEF named
<1>5. QED
  BY <1>1, <1>2, <1>3, <1>4 DEF AtMost, SaturatingSub

\* A window is a positive number below U64Max.
LEMMA WindowType ==
  ASSUME NEW kind \in Kinds, NEW limit \in U64 \ {0}, NEW resident \in U64 \cup {NoBytes}
  PROVE  /\ Free(kind, limit, resident) \in Nat
         /\ Free(kind, limit, resident) > 0 =>
              ResidentBytes(kind, limit, resident) + Headroom(kind, limit) + Free(kind, limit, resident) = limit
         /\ Window(kind, limit, resident) \in Nat /\ Window(kind, limit, resident) < U64Max
         /\ limit # NoBytes
<1> DEFINE r == ResidentBytes(kind, limit, resident)
           h == Headroom(kind, limit)
           f == Free(kind, limit, resident)
<1>1. limit \in Nat /\ limit > 0 /\ limit <= U64Max /\ limit # NoBytes
  BY ScheduleFacts DEF U64
<1>2. r \in Nat /\ h \in Nat /\ h < limit /\ (limit > 1 => h > 0)
  BY WindowParts
<1>3. f = SaturatingSub(SaturatingSub(limit, r), h)
  BY DEF Free
<1> HIDE DEF r, h, f
<1>4. f \in Nat /\ (f > 0 => r + h + f = limit) /\ f <= limit /\ (limit > 1 => f < limit)
  BY <1>1, <1>2, <1>3 DEF SaturatingSub
<1>5. Window(kind, limit, resident) = AtLeast(IF kind = "ingestion" THEN f \div Copies ELSE f, 1)
  BY <1>1 DEF Window, f
<1>6. f \div Copies \in Nat /\ f \div Copies <= f
  BY <1>4, DivBounds, ScheduleFacts
<1>7. Window(kind, limit, resident) \in Nat /\ Window(kind, limit, resident) < U64Max
  BY <1>1, <1>4, <1>5, <1>6, ScheduleFacts DEF AtLeast
<1>8. QED
  BY <1>1, <1>4, <1>7 DEF r, h, f

\* A saturated sum within a window is the true sum, and what it takes, beside
\* what is resident and the headroom, is within the limit; but for a sum of one
\* byte, which the smallest window lets through.
LEMMA WithinWindow ==
  ASSUME NEW kind \in Kinds, NEW limit \in U64 \ {0}, NEW resident \in U64 \cup {NoBytes},
         NEW sum \in Nat, AtMost(sum, U64Max) <= Window(kind, limit, resident)
  PROVE  \/ sum <= 1
         \/ ResidentBytes(kind, limit, resident) + Headroom(kind, limit)
              + (IF kind = "ingestion" THEN Copies ELSE 1) * sum <= limit
<1> DEFINE r == ResidentBytes(kind, limit, resident)
           h == Headroom(kind, limit)
           f == Free(kind, limit, resident)
           w == Window(kind, limit, resident)
<1>1. /\ f \in Nat /\ (f > 0 => r + h + f = limit) /\ w \in Nat /\ w < U64Max /\ limit # NoBytes
      /\ r \in Nat /\ h \in Nat /\ limit \in Nat
  <2>1. limit \in Nat
    BY ScheduleFacts
  <2>2. QED
    BY <2>1, WindowType, WindowParts
<1>2. w = AtLeast(IF kind = "ingestion" THEN f \div Copies ELSE f, 1)
  BY <1>1 DEF Window
<1> HIDE DEF r, h, f, w
<1>3. sum <= w
  <2>1. AtMost(sum, U64Max) <= w
    BY DEF w
  <2>2. QED
    BY <2>1, <1>1, ScheduleFacts DEF AtMost
<1>4. CASE kind = "ingestion"
  <2>1. f \div Copies \in Nat /\ Copies * (f \div Copies) <= f
    BY <1>1, DivBounds, ScheduleFacts
  <2>2. sum > 1 => sum <= f \div Copies
    BY <1>2, <1>3, <1>4, <2>1 DEF AtLeast
  <2>3. sum > 1 => Copies * sum <= f /\ Copies * sum \in Nat
    <3>1. ASSUME sum > 1 PROVE Copies * sum <= Copies * (f \div Copies) /\ Copies * sum \in Nat
                               /\ Copies * (f \div Copies) \in Nat
      BY <2>1, <2>2, <3>1, ProductOrder, ScheduleFacts
    <3>2. QED
      BY <3>1, <2>1, <1>1
  <2>4. sum > 1 => f > 0
    <3>1. ASSUME sum > 1, f = 0 PROVE FALSE
      <4>1. f \div Copies <= f
        BY <1>1, DivBounds, ScheduleFacts
      <4>2. QED
        BY <4>1, <3>1, <2>1, <2>2
    <3>2. QED
      BY <3>1, <1>1
  <2>5. sum > 1 => r + h + Copies * sum <= limit
    BY <1>1, <2>3, <2>4
  <2>6. QED
    BY <1>4, <2>5 DEF r, h
<1>5. CASE kind # "ingestion"
  <2>1. sum > 1 => sum <= f
    BY <1>1, <1>2, <1>3, <1>5 DEF AtLeast
  <2>2. sum > 1 => r + h + sum <= limit
    BY <1>1, <2>1
  <2>3. 1 * sum = sum
    OBVIOUS
  <2>4. QED
    BY <1>5, <2>2, <2>3 DEF r, h
<1>6. QED
  BY <1>4, <1>5

\* Every width is at least one, and one for sources that fit fewer of them.
LEMMA WidthForSourcesType ==
  ASSUME NEW sources \in Seq(U64), NEW cpu \in Nat, NEW limit, NEW resident
  PROVE  WidthForSources(sources, cpu, limit, resident) \in Nat \ {0}
<1> DEFINE most == AtMost(AtLeast(cpu, 1), Len(sources))
           fits(n) == AtMost(TotalWeight(Largest(sources), 1..n), U64Max) <= Window("syntax", limit, resident)
           admitted == {n \in 1..most : \A m \in 2..n : fits(m)}
<1>1. WidthForSources(sources, cpu, limit, resident) =
        IF sources = <<>> THEN 1 ELSE IF limit = NoBytes THEN most ELSE Cardinality(admitted)
  BY DEF WidthForSources
<1>2. sources # <<>> => most \in Nat /\ most >= 1
  <2>1. Len(sources) \in Nat /\ (sources # <<>> => Len(sources) >= 1)
    OBVIOUS
  <2>2. QED
    BY <2>1 DEF AtMost, AtLeast
<1> HIDE DEF most, fits
<1>3. sources # <<>> => Cardinality(admitted) \in Nat \ {0}
  <2> SUFFICES ASSUME sources # <<>> PROVE Cardinality(admitted) \in Nat \ {0}
    OBVIOUS
  <2>1. IsFiniteSet(1..most) /\ admitted \subseteq 1..most
    BY <1>2, FS_Interval
  <2>2. IsFiniteSet(admitted) /\ Cardinality(admitted) \in Nat
    BY <2>1, FS_Subset, FS_CardinalityType
  <2>3. 1 \in admitted
    <3>1. 1 \in 1..most /\ 2..1 = {}
      BY <1>2
    <3>2. QED
      BY <3>1
  <2>4. QED
    BY <2>2, <2>3, FS_EmptySet
<1>4. QED
  BY <1>1, <1>2, <1>3

\* Whichever units are picked, as many of them as the width fit the limit.
LEMMA WidthForSourcesFits ==
  ASSUME NEW sources \in Seq(U64), NEW cpu \in Nat,
         NEW limit \in U64 \ {0}, NEW resident \in U64 \cup {NoBytes},
         NEW units \in SUBSET (1..Len(sources)),
         Cardinality(units) \in 2..WidthForSources(sources, cpu, limit, resident)
  PROVE  ResidentBytes("syntax", limit, resident) + Headroom("syntax", limit)
           + 1 * TotalWeight([i \in 1..Len(sources) |-> UnitBytes(sources[i])], units) <= limit
<1> DEFINE n == Len(sources)
           weight == [i \in 1..n |-> UnitBytes(sources[i])]
           sorted == Largest(sources)
           k == Cardinality(units)
           most == AtMost(AtLeast(cpu, 1), n)
           window == Window("syntax", limit, resident)
           fits(m) == AtMost(TotalWeight(sorted, 1..m), U64Max) <= window
           admitted == {m \in 1..most : \A l \in 2..m : fits(l)}
           total == TotalWeight(weight, units)
<1>1. n \in Nat /\ DOMAIN sources = 1..n /\ (sources = <<>> <=> n = 0)
      /\ \A i \in 1..n : sources[i] \in U64
  OBVIOUS
<1>2. \A i \in 1..n : weight[i] \in Nat /\ weight[i] >= 1
  BY <1>1, UnitBytesType
<1>3. weight \in [1..n -> Nat]
  BY <1>2
<1>4. IsFiniteSet(units) /\ k \in Nat
  <2>1. IsFiniteSet(1..n)
    BY <1>1, FS_Interval
  <2>2. IsFiniteSet(units)
    BY <2>1, FS_Subset
  <2>3. QED
    BY <2>2, FS_CardinalityType
<1>5. limit # NoBytes
  BY ScheduleFacts
<1>6. sources # <<>>
  <2> SUFFICES ASSUME sources = <<>> PROVE FALSE
    OBVIOUS
  <2>1. WidthForSources(sources, cpu, limit, resident) = 1
    BY DEF WidthForSources
  <2>2. QED
    BY <2>1
<1>7. WidthForSources(sources, cpu, limit, resident) = Cardinality(admitted)
  BY <1>5, <1>6 DEF WidthForSources
<1>8. k >= 2 /\ k <= Cardinality(admitted)
  BY <1>4, <1>7, WidthForSourcesType
<1>9. most \in Nat /\ most >= 1 /\ most <= n
  BY <1>1, <1>6 DEF AtMost, AtLeast
<1> HIDE DEF n, weight, sorted, k, most, window, fits, total
<1>10. admitted \subseteq 1..most /\ IsFiniteSet(admitted) /\ Cardinality(admitted) <= most
  <2>1. admitted \subseteq 1..most
    OBVIOUS
  <2>2. IsFiniteSet(1..most) /\ Cardinality(1..most) = most
    BY <1>9, FS_Interval
  <2> HIDE DEF admitted
  <2>3. QED
    BY <2>1, <2>2, FS_Subset
<1>11. Cardinality(admitted) \in Nat
  BY <1>10, FS_CardinalityType
<1>12. fits(k)
  <2> SUFFICES ASSUME ~fits(k) PROVE FALSE
    OBVIOUS
  <2>1. ASSUME NEW m \in admitted PROVE m \in 1..(k - 1)
    <3>1. m \in 1..most /\ \A l \in 2..m : fits(l)
      OBVIOUS
    <3>2. k \notin 2..m
      BY <3>1
    <3>3. QED
      BY <3>1, <3>2, <1>4, <1>8, <1>9
  <2>2. admitted \subseteq 1..(k - 1)
    BY <2>1
  <2> HIDE DEF admitted
  <2>3. IsFiniteSet(1..(k - 1)) /\ Cardinality(1..(k - 1)) = k - 1
    BY <1>4, <1>8, FS_Interval
  <2>4. Cardinality(admitted) <= k - 1
    BY <2>2, <2>3, FS_Subset
  <2>5. QED
    BY <2>4, <1>4, <1>8, <1>11
<1> HIDE DEF admitted
<1>13. k \in 1..n
  BY <1>1, <1>4, <1>8, <1>9, <1>10, <1>11
<1>14. PICK p \in [1..n -> 1..n] :
         /\ \A l \in 1..n : Cardinality(SortedBefore(weight, p[l])) = l - 1
         /\ \A i, l \in 1..n : Cardinality(SortedBefore(weight, i)) = l - 1 => i = p[l]
         /\ ListsByWeight(p, n, weight)
  BY <1>1, <1>3, RanksSort
<1>15. ASSUME NEW l \in 1..n PROVE sorted[l] = weight[p[l]]
  <2>1. DOMAIN sources = 1..n
    BY <1>1
  <2>2. sorted = [m \in 1..n |-> weight[CHOOSE i \in 1..n : Cardinality(SortedBefore(weight, i)) = m - 1]]
    BY <2>1 DEF sorted, weight, Largest
  <2>3. PICK i \in 1..n : i = CHOOSE j \in 1..n : Cardinality(SortedBefore(weight, j)) = l - 1
    BY <1>14
  <2>4. i = p[l]
    BY <2>3, <1>14
  <2>5. QED
    BY <2>2, <2>3, <2>4
<1>16. total <= TotalWeight(sorted, 1..k)
  <2>1. units \in SUBSET (1..n) /\ Cardinality(units) = k
    BY DEF n, k
  <2>2. QED
    <3>1. TotalWeight(weight, units) <= TotalWeight(sorted, 1..k)
      BY <2>1, <1>1, <1>3, <1>13, <1>14, <1>15, HeaviestBound
    <3>2. QED
      BY <3>1 DEF total
<1>17. total \in Nat /\ total >= k
  <2>1. units \in SUBSET (1..n) /\ Cardinality(units) = k
    BY DEF n, k
  <2>2. \A x \in units : weight[x] \in Nat /\ weight[x] >= 1
    BY <2>1, <1>2
  <2>3. total \in Nat
    BY <2>2, <1>4, WeightFinite DEF total
  <2>4. TotalWeight(weight, units) >= Cardinality(units) * 1
    BY <2>2, <1>4, WeightAtLeast
  <2>5. QED
    BY <2>1, <2>3, <2>4, <1>4 DEF total
<1>18. TotalWeight(sorted, 1..k) \in Nat
  <2>1. 1..k \subseteq 1..n /\ IsFiniteSet(1..k)
    <3>1. k \in Int /\ 1..k \subseteq 1..n
      BY <1>1, <1>13
    <3>2. QED
      <4>1. IsFiniteSet(1..k)
        BY <3>1, FS_Interval
      <4>2. QED
        BY <3>1, <4>1
  <2>2. ASSUME NEW l \in 1..k PROVE sorted[l] \in Nat
    <3>1. l \in 1..n
      BY <2>1
    <3>2. p[l] \in 1..n
      BY <3>1
    <3>3. QED
      BY <3>1, <3>2, <1>2, <1>15
  <2>3. QED
    BY <2>1, <2>2, WeightFinite
<1>19. window \in Nat
  BY WindowType DEF window, Kinds
<1>20. AtMost(total, U64Max) <= window
  <2>1. AtMost(TotalWeight(sorted, 1..k), U64Max) <= window
    BY <1>12 DEF fits
  <2>2. QED
    BY <2>1, <1>16, <1>17, <1>18, <1>19, ScheduleFacts DEF AtMost
<1>21. ResidentBytes("syntax", limit, resident) + Headroom("syntax", limit) + 1 * total <= limit
  <2>1. "syntax" \in Kinds /\ "syntax" # "ingestion"
    BY DEF Kinds
  <2>2. ~(total <= 1)
    BY <1>4, <1>8, <1>17
  <2>3. QED
    BY <2>1, <2>2, <1>17, <1>20, WithinWindow DEF window
<1>22. QED
  BY <1>21 DEF total, weight, n

\* A fixed cost per worker is charged for every worker of the width.
LEMMA WidthForLimitFits ==
  ASSUME NEW cpu \in Nat, NEW transient \in U64, NEW reserved \in U64,
         NEW limit \in (U64 \ {0}) \cup {NoBytes}
  PROVE  LET w == WidthForLimit(cpu, transient, reserved, limit)
         IN  /\ w \in Nat \ {0}
             /\ w > 1 /\ limit # NoBytes => reserved + w * transient <= limit
<1> DEFINE w == WidthForLimit(cpu, transient, reserved, limit)
           left == SaturatingSub(limit, reserved)
           cost == AtLeast(transient, 1)
           ratio == left \div cost
<1>1. cpu \in Nat /\ transient \in Nat /\ reserved \in Nat
  BY ScheduleFacts
<1>2. CASE limit = NoBytes
  BY <1>1, <1>2 DEF WidthForLimit, AtLeast
<1>3. CASE limit # NoBytes
  <2>1. limit \in Nat
    BY <1>3, ScheduleFacts
  <2>2. left \in Nat /\ cost \in Nat /\ cost > 0 /\ transient <= cost
    BY <1>1, <2>1 DEF SaturatingSub, AtLeast
  <2>3. left > 0 => reserved + left = limit
    BY <1>1, <2>1 DEF SaturatingSub
  <2>4. w = AtMost(AtLeast(cpu, 1), AtLeast(ratio, 1))
    BY <1>3 DEF WidthForLimit
  <2> HIDE DEF left, cost, w
  <2>5. ratio \in Nat /\ cost * ratio <= left /\ ratio <= left
    BY <2>2, DivBounds
  <2> HIDE DEF ratio
  <2>6. w \in Nat \ {0} /\ (w > 1 => w <= ratio)
    BY <1>1, <2>4, <2>5 DEF AtMost, AtLeast
  <2>7. ASSUME w > 1 PROVE reserved + w * transient <= limit
    <3>1. w \in Nat /\ w <= ratio
      BY <2>6, <2>7
    <3>2. w * transient <= w * cost /\ w * transient \in Nat /\ w * cost \in Nat
      BY <3>1, <2>2, <1>1, ProductOrder
    <3>3. cost * w <= cost * ratio /\ cost * w \in Nat /\ cost * ratio \in Nat
      BY <3>1, <2>2, <2>5, ProductOrder
    <3>4. w * cost = cost * w
      BY <3>1, <2>2
    <3>5. w * transient <= left
      BY <3>2, <3>3, <3>4, <2>2, <2>5
    <3>6. left > 0
      BY <3>1, <2>2, <2>5, <2>7
    <3>7. QED
      BY <3>2, <3>5, <3>6, <2>1, <2>2, <2>3, <1>1
  <2>8. QED
    BY <2>6, <2>7, <1>3 DEF w
<1>4. QED
  BY <1>2, <1>3

\* The units of a call and what they weigh.
LEMMA UnitFacts ==
  ASSUME job \in JobType
  PROVE  /\ Count \in Nat
         /\ Weights \in [1..Count -> Nat]
         /\ ~Raw => \A i \in 1..Count : Weights[i] >= 1
         /\ Raw => \A i \in 1..Count : Weights[i] = job.sources[i]
<1>1. /\ Count \in Nat /\ job.sources \in Seq(U64)
      /\ \A i \in 1..Count : job.sources[i] \in U64
  BY DEF JobType, Count
<1>2. \A i \in 1..Count : job.sources[i] \in Nat
  BY <1>1, ScheduleFacts
<1>3. \A i \in 1..Count : UnitBytes(job.sources[i]) \in Nat /\ UnitBytes(job.sources[i]) >= 1
  BY <1>1, UnitBytesType
<1>4. QED
  BY <1>1, <1>2, <1>3 DEF Weights, Weight

\* A set of units has a sum.
LEMMA SumOfUnits ==
  ASSUME job \in JobType, NEW units \in SUBSET (1..Count)
  PROVE  IsFiniteSet(units) /\ TotalWeight(Weights, units) \in Nat
<1>1. IsFiniteSet(1..Count)
  BY UnitFacts, FS_Interval
<1>2. IsFiniteSet(units)
  BY <1>1, FS_Subset
<1>3. \A x \in units : Weights[x] \in Nat
  BY UnitFacts
<1>4. QED
  BY <1>2, <1>3, WeightFinite

\* Several units whose capped sum is within the window fit the limit.
LEMMA UnitsFit ==
  ASSUME job \in JobType, job.kind # "fixed", job.limit # NoBytes,
         NEW units \in SUBSET (1..Count), Cardinality(units) > 1,
         AtMost(TotalWeight(Weights, units), U64Max) <= Window(job.kind, job.limit, job.resident)
  PROVE  \/ Committed(units, IF Raw THEN Copies ELSE 1) <= job.limit
         \/ Raw /\ TotalWeight(job.sources, units) <= 1
<1> DEFINE sum == TotalWeight(Weights, units)
<1>1. sum \in Nat /\ IsFiniteSet(units)
  BY SumOfUnits
<1>2. job.kind \in Kinds /\ job.limit \in U64 \ {0} /\ job.resident \in U64 \cup {NoBytes}
  BY DEF JobType
<1>3. Committed(units, IF Raw THEN Copies ELSE 1) =
        ResidentBytes(job.kind, job.limit, job.resident) + Headroom(job.kind, job.limit)
          + (IF Raw THEN Copies ELSE 1) * sum
  BY DEF Committed, Weights
<1>4. Raw <=> job.kind = "ingestion"
  BY DEF Raw
<1>5. ~Raw => sum > 1
  <2> SUFFICES ASSUME ~Raw PROVE sum > 1
    OBVIOUS
  <2>1. \A x \in units : Weights[x] \in Nat /\ Weights[x] >= 1
    BY UnitFacts
  <2>2. sum >= Cardinality(units) * 1 /\ Cardinality(units) \in Nat
    BY <2>1, <1>1, WeightAtLeast, FS_CardinalityType
  <2>3. QED
    BY <2>2, <1>1
<1>6. Raw => sum = TotalWeight(job.sources, units)
  <2> SUFFICES ASSUME Raw PROVE sum = TotalWeight(job.sources, units)
    OBVIOUS
  <2> DEFINE f == Weights
             g == job.sources
  <2>1. \A x \in units : f[x] = g[x]
    BY UnitFacts
  <2> HIDE DEF f, g
  <2>2. TotalWeight(f, units) = TotalWeight(g, units)
    BY <2>1, WeightAgree
  <2>3. QED
    BY <2>2 DEF f, g
<1> HIDE DEF sum
<1>7. \/ sum <= 1
      \/ ResidentBytes(job.kind, job.limit, job.resident) + Headroom(job.kind, job.limit)
              + (IF job.kind = "ingestion" THEN Copies ELSE 1) * sum <= job.limit
  <2>1. AtMost(sum, U64Max) <= Window(job.kind, job.limit, job.resident)
    BY DEF sum
  <2>2. QED
    BY <2>1, <1>1, <1>2, WithinWindow
<1>8. CASE Raw
  BY <1>3, <1>4, <1>6, <1>7, <1>8
<1>9. CASE ~Raw
  <2>1. ~(sum <= 1)
    BY <1>1, <1>5, <1>9
  <2>2. QED
    BY <2>1, <1>3, <1>4, <1>7, <1>9
<1>10. QED
  BY <1>8, <1>9

\* A call that nobody changes means the same after the step.
LEMMA SameJob ==
  ASSUME UNCHANGED job
  PROVE  /\ Count' = Count /\ Raw' = Raw /\ Weights' = Weights
         /\ \A units, copies : Committed(units, copies)' = Committed(units, copies)
BY DEF Count, Raw, Weights, Weight, Committed

\* Capping a sum twice is capping it once.
LEMMA CapTwice ==
  ASSUME NEW a \in Nat, NEW b \in Nat
  PROVE  SaturatingAdd(AtMost(a, U64Max), b) = AtMost(a + b, U64Max)
BY ScheduleFacts DEF SaturatingAdd, AtMost

\* Another unit joins the batch.
LEMMA TakeUnitKeeps ==
  ASSUME SchedInv, TakeUnit
  PROVE  SchedInv'
<1>1. /\ at = "fill" /\ end < Count /\ bytes' = SaturatingAdd(bytes, Weight(end + 1))
      /\ end' = end + 1 /\ UNCHANGED <<at, job, start, batches, width>>
  BY DEF TakeUnit, Takes
<1>2. /\ Count' = Count /\ Raw' = Raw /\ Weights' = Weights
      /\ \A units, copies : Committed(units, copies)' = Committed(units, copies)
  BY <1>1, SameJob
<1>3. /\ SchedTypeOK /\ BatchBeingFilled /\ BatchesPartition /\ BatchesFit /\ WidthFitsAnySet
      /\ job \in JobType /\ start \in Nat /\ end \in Nat /\ bytes \in Nat /\ start <= end
  BY DEF SchedInv, SchedTypeOK, BatchBeingFilled
<1>4. Count \in Nat /\ end + 1 \in 1..Count /\ Weights[end + 1] \in Nat /\ Weight(end + 1) = Weights[end + 1]
  <2>1. Count \in Nat /\ end + 1 \in 1..Count
    BY <1>1, <1>3, UnitFacts
  <2>2. QED
    BY <2>1, <1>3, UnitFacts DEF Weights
<1> DEFINE filled == (start + 1)..end
<1>5. /\ filled \subseteq 1..Count /\ (start + 1)..(end + 1) = filled \cup {end + 1}
      /\ end + 1 \notin filled
  BY <1>1, <1>3, <1>4
<1> HIDE DEF filled
<1>6. TotalWeight(Weights, filled) \in Nat /\ IsFiniteSet(WeightTokens(Weights, filled))
  <2>1. IsFiniteSet(filled) /\ TotalWeight(Weights, filled) \in Nat
    BY <1>3, <1>5, SumOfUnits
  <2>2. \A x \in filled : Weights[x] \in Nat
    BY <1>3, <1>5, UnitFacts
  <2>3. QED
    BY <2>1, <2>2, WeightFinite
<1>7. TotalWeight(Weights, filled \cup {end + 1}) = TotalWeight(Weights, filled) + Weights[end + 1]
  BY <1>4, <1>5, <1>6, WeightAdd
<1>8. bytes' = AtMost(TotalWeight(Weights, (start + 1)..(end + 1)), U64Max)
  <2>1. bytes = AtMost(TotalWeight(Weights, filled), U64Max)
    BY <1>3 DEF BatchBeingFilled, filled
  <2>2. QED
    BY <2>1, <1>1, <1>4, <1>5, <1>6, <1>7, CapTwice
<1>9. bytes' \in Nat
  BY <1>1, <1>3, <1>4, ScheduleFacts DEF SaturatingAdd, AtMost
<1>10. SchedTypeOK'
  BY <1>1, <1>3, <1>9 DEF SchedTypeOK
<1>11. job.limit # NoBytes /\ end' - start > 1 => bytes' <= Window(job.kind, job.limit, job.resident)
  <2> SUFFICES ASSUME job.limit # NoBytes, end' - start > 1
               PROVE  bytes' <= Window(job.kind, job.limit, job.resident)
    OBVIOUS
  <2>1. end > start
    BY <1>1, <1>3
  <2>2. Window(job.kind, job.limit, job.resident) # NoBytes
    <3>1. job.kind \in Kinds /\ job.limit \in U64 \ {0} /\ job.resident \in U64 \cup {NoBytes}
      BY <1>1, <1>3 DEF BatchBeingFilled, JobType
    <3>2. /\ Window(job.kind, job.limit, job.resident) \in Nat
          /\ Window(job.kind, job.limit, job.resident) < U64Max
      BY <3>1, WindowType
    <3>3. QED
      BY <3>2, ScheduleFacts DEF U64
  <2>3. QED
    BY <2>1, <2>2, <1>1 DEF TakeUnit, Takes
<1>12. BatchBeingFilled'
  BY <1>1, <1>2, <1>3, <1>4, <1>8, <1>11 DEF BatchBeingFilled
<1>13. BatchesPartition' /\ BatchesFit' /\ WidthFitsAnySet'
  BY <1>1, <1>2, <1>3 DEF BatchesPartition, BatchesFit, WidthFitsAnySet
<1>14. QED
  BY <1>10, <1>12, <1>13 DEF SchedInv

\* The batch is pushed: it is not empty, for its first unit is always taken.
LEMMA CloseBatchKeeps ==
  ASSUME SchedInv, CloseBatch
  PROVE  SchedInv'
<1>1. /\ at = "fill" /\ ~Takes /\ batches' = Append(batches, <<start, end>>)
      /\ start' = end /\ bytes' = 0 /\ at' = (IF end = Count THEN "done" ELSE "fill")
      /\ UNCHANGED <<job, end, width>>
  BY DEF CloseBatch
<1>2. /\ Count' = Count /\ Raw' = Raw /\ Weights' = Weights
      /\ \A units, copies : Committed(units, copies)' = Committed(units, copies)
  BY <1>1, SameJob
<1>3. /\ SchedTypeOK /\ BatchBeingFilled /\ BatchesPartition /\ BatchesFit /\ WidthFitsAnySet
      /\ job \in JobType /\ start \in Nat /\ end \in Nat /\ bytes \in Nat /\ start <= end
      /\ end <= Count /\ start < Count /\ width = 0 /\ job.kind # "fixed"
      /\ batches \in Seq(Nat \X Nat)
  BY <1>1 DEF SchedInv, SchedTypeOK, BatchBeingFilled
<1>4. Count \in Nat
  BY <1>3, UnitFacts
<1>5. start < end
  <2> SUFFICES ASSUME start = end PROVE FALSE
    BY <1>3
  <2>1. job.cpu \in Nat
    BY <1>3 DEF JobType
  <2>2. Takes
    BY <2>1, <1>3 DEF Takes, AtLeast
  <2>3. QED
    BY <2>2, <1>1
<1>6. SchedTypeOK'
  BY <1>1, <1>3 DEF SchedTypeOK
<1>7. BatchBeingFilled'
  <2>1. (end + 1)..end = {}
    BY <1>3
  <2>2. TotalWeight(Weights, (end + 1)..end) = 0
    BY <2>1, WeightOfEmpty
  <2>3. AtMost(0, U64Max) = 0
    BY ScheduleFacts DEF AtMost
  <2>4. QED
    BY <1>1, <1>2, <1>3, <1>4, <2>2, <2>3 DEF BatchBeingFilled
<1> DEFINE b == <<start, end>>
           n == Len(batches)
<1>8. /\ n \in Nat /\ DOMAIN batches = 1..n /\ DOMAIN batches' = 1..(n + 1) /\ Len(batches') = n + 1
      /\ batches'[n + 1] = b /\ \A i \in 1..n : batches'[i] = batches[i]
      /\ batches' # <<>>
  BY <1>1, <1>3
<1>9. b[1] = start /\ b[2] = end
  OBVIOUS
<1> HIDE DEF b, n
<1>10. BatchesPartition'
  <2>1. \A i \in 1..n : batches[i][1] < batches[i][2]
    BY <1>3, <1>8 DEF BatchesPartition
  <2>2. \A i \in 1..n : batches[i][1] = IF i = 1 THEN 0 ELSE batches[i - 1][2]
    BY <1>3, <1>8 DEF BatchesPartition
  <2>3. n # 0 => batches[n][2] = start
    BY <1>3, <1>8 DEF BatchesPartition, n
  <2>4. n = 0 => start = 0
    <3>1. n = 0 => batches = <<>>
      BY <1>3 DEF n
    <3>2. QED
      BY <3>1, <1>3 DEF BatchBeingFilled
  <2>5. \A i \in 1..(n + 1) : batches'[i][1] < batches'[i][2]
    BY <2>1, <1>5, <1>8, <1>9
  <2>6. ASSUME NEW i \in 1..(n + 1)
        PROVE  batches'[i][1] = IF i = 1 THEN 0 ELSE batches'[i - 1][2]
    <3>1. CASE i = n + 1
      BY <3>1, <2>3, <2>4, <1>8, <1>9
    <3>2. CASE i # n + 1
      <4>1. i \in 1..n /\ (i # 1 => i - 1 \in 1..n)
        BY <3>2, <1>8
      <4>2. QED
        BY <4>1, <2>2, <1>8
    <3>3. QED
      BY <3>1, <3>2
  <2>7. batches'[Len(batches')][2] = start'
    BY <1>1, <1>8, <1>9
  <2>8. at' = "done" /\ width' = 0 => start' = Count'
    BY <1>1, <1>2
  <2>9. QED
    BY <2>5, <2>6, <2>7, <2>8, <1>8 DEF BatchesPartition
<1>11. job.limit # NoBytes /\ Cardinality(Units(b)) > 1 =>
         \/ Committed(Units(b), IF Raw THEN Copies ELSE 1) <= job.limit
         \/ Raw /\ TotalWeight(job.sources, Units(b)) <= 1
  <2> SUFFICES ASSUME job.limit # NoBytes, Cardinality(Units(b)) > 1
               PROVE  \/ Committed(Units(b), IF Raw THEN Copies ELSE 1) <= job.limit
                      \/ Raw /\ TotalWeight(job.sources, Units(b)) <= 1
    OBVIOUS
  <2>1. Units(b) = (start + 1)..end
    BY <1>9 DEF Units
  <2>2. Units(b) \subseteq 1..Count
    BY <2>1, <1>3, <1>4
  <2>3. end - start > 1
    <3>1. Cardinality((start + 1)..end) = end - start
      BY <1>3, <1>5, FS_Interval
    <3>2. QED
      BY <3>1, <2>1
  <2>4. AtMost(TotalWeight(Weights, Units(b)), U64Max) <= Window(job.kind, job.limit, job.resident)
    BY <2>1, <2>3, <1>3 DEF BatchBeingFilled
  <2>5. QED
    BY <2>2, <2>4, <1>3, UnitsFit
<1>12. BatchesFit'
  <2> SUFFICES ASSUME job.limit # NoBytes, NEW i \in 1..(n + 1), Cardinality(Units(batches'[i])) > 1
               PROVE  \/ Committed(Units(batches'[i]), IF Raw THEN Copies ELSE 1) <= job.limit
                      \/ Raw /\ TotalWeight(job.sources, Units(batches'[i])) <= 1
    BY <1>1, <1>2, <1>8 DEF BatchesFit, Units
  <2>1. CASE i = n + 1
    BY <2>1, <1>8, <1>11
  <2>2. CASE i # n + 1
    <3>1. i \in 1..n /\ batches'[i] = batches[i]
      BY <2>2, <1>8
    <3>2. QED
      BY <3>1, <1>3, <1>8 DEF BatchesFit
  <2>3. QED
    BY <2>1, <2>2
<1>13. WidthFitsAnySet'
  BY <1>1, <1>3 DEF WidthFitsAnySet
<1>14. QED
  BY <1>6, <1>7, <1>10, <1>12, <1>13 DEF SchedInv

\* Before and after a call there is none: nothing is batched and nothing counted.
LEMMA NoCall ==
  ASSUME SchedInit
  PROVE  SchedInv
<1> USE DEF SchedInit
<1>1. job \in JobType
  BY ScheduleFacts DEF NoJob, JobType, Kinds, U64
<1>2. job.limit = NoBytes /\ Count = 0
  BY DEF NoJob, Count
<1>3. (0 + 1)..0 = {} /\ TotalWeight(Weights, {}) = 0
  BY WeightOfEmpty
<1>4. AtMost(0, U64Max) = 0
  BY ScheduleFacts DEF AtMost
<1>5. SchedTypeOK
  BY <1>1 DEF SchedTypeOK
<1>6. BatchBeingFilled
  BY <1>2, <1>3, <1>4 DEF BatchBeingFilled
<1>7. BatchesPartition /\ BatchesFit /\ WidthFitsAnySet
  BY <1>2 DEF BatchesPartition, BatchesFit, WidthFitsAnySet
<1>8. QED
  BY <1>5, <1>6, <1>7 DEF SchedInv

\* A call begins with nothing batched: only its own arguments and, for a width,
\* its result are to be looked at.
LEMMA CallKeeps ==
  ASSUME SchedInv, at = "idle", job' \in JobType,
         at' = "fill" => Count' > 0 /\ width' = 0 /\ job'.kind # "fixed",
         at' \in {"fill", "done"}, width' \in Nat,
         at' = "done" => width' > 0 \/ Count' = 0,
         UNCHANGED <<start, end, bytes, batches>>, WidthFitsAnySet'
  PROVE  SchedInv'
<1>1. /\ SchedTypeOK /\ BatchBeingFilled /\ start = 0 /\ end = 0 /\ batches = <<>>
      /\ bytes = AtMost(TotalWeight(Weights, (start + 1)..end), U64Max)
  BY DEF SchedInv, BatchBeingFilled
<1>2. (0 + 1)..0 = {} /\ TotalWeight(Weights, {}) = 0 /\ TotalWeight(Weights', {}) = 0
  BY WeightOfEmpty
<1>3. AtMost(0, U64Max) = 0 /\ bytes = AtMost(TotalWeight(Weights, {}), U64Max)
  BY <1>1, <1>2, ScheduleFacts DEF AtMost
<1>4. bytes = 0
  BY <1>2, <1>3
<1>5. Count' \in Nat
  BY DEF JobType, Count
<1>6. SchedTypeOK'
  BY <1>1 DEF SchedTypeOK
<1>7. BatchBeingFilled'
  <2>1. bytes' = AtMost(TotalWeight(Weights', (start' + 1)..end'), U64Max)
    BY <1>1, <1>2, <1>3, <1>4
  <2>2. QED
    BY <2>1, <1>1, <1>5 DEF BatchBeingFilled
<1>8. BatchesPartition'
  BY <1>1, <1>5 DEF BatchesPartition
<1>9. BatchesFit'
  BY <1>1 DEF BatchesFit
<1>10. QED
  BY <1>6, <1>7, <1>8, <1>9 DEF SchedInv

\* A call of a batching function.
LEMMA CallBatchesKeeps ==
  ASSUME SchedInv, NEW kind \in Kinds, NEW sources \in Sources, NEW cpu \in CpuWorkers,
         NEW limit \in Limits, NEW resident \in Residents,
         CallBatches(kind, sources, cpu, limit, resident)
  PROVE  SchedInv'
<1>1. /\ sources \in Seq(U64) /\ cpu \in Nat /\ limit \in (U64 \ {0}) \cup {NoBytes}
      /\ resident \in U64 \cup {NoBytes} /\ 0 \in U64
  BY ScheduleAssumption DEF U64
<1>2. job' \in JobType /\ Count' = Len(sources) /\ job'.kind = kind
  BY <1>1 DEF CallBatches, JobType, Count
<1>3. width = 0
  BY DEF SchedInv, BatchBeingFilled, CallBatches
<1>4. WidthFitsAnySet'
  BY <1>3 DEF CallBatches, WidthFitsAnySet
<1>5. kind # "fixed"
  BY DEF Kinds
<1>6. Len(sources) \in Nat /\ (sources = <<>> <=> Len(sources) = 0)
  BY <1>1
<1>7. QED
  BY <1>2, <1>3, <1>4, <1>5, <1>6, CallKeeps DEF CallBatches

\* A width for weighted sources.
LEMMA CallWidthForSourcesKeeps ==
  ASSUME SchedInv, NEW sources \in Sources, NEW cpu \in CpuWorkers,
         NEW limit \in Limits, NEW resident \in Residents,
         CallWidthForSources(sources, cpu, limit, resident)
  PROVE  SchedInv'
<1>1. /\ sources \in Seq(U64) /\ cpu \in Nat /\ limit \in (U64 \ {0}) \cup {NoBytes}
      /\ resident \in U64 \cup {NoBytes} /\ 0 \in U64
  BY ScheduleAssumption DEF U64
<1>2. /\ job' = [kind |-> "syntax", sources |-> sources, cpu |-> cpu, limit |-> limit,
                 resident |-> resident, transient |-> 0]
      /\ width' = WidthForSources(sources, cpu, limit, resident)
      /\ at = "idle" /\ at' = "done" /\ UNCHANGED <<start, end, bytes, batches>>
  BY DEF CallWidthForSources
<1>3. job' \in JobType /\ Count' = Len(sources)
  BY <1>1, <1>2 DEF JobType, Count, Kinds
<1>4. width' \in Nat /\ width' > 0
  BY <1>1, <1>2, WidthForSourcesType
<1>5. ASSUME limit # NoBytes, NEW units \in SUBSET (1..Len(sources)), Cardinality(units) \in 2..width'
      PROVE  Committed(units, 1)' <= limit
  <2>1. limit \in U64 \ {0}
    BY <1>1, <1>5
  <2>2. ResidentBytes("syntax", limit, resident) + Headroom("syntax", limit)
           + 1 * TotalWeight([i \in 1..Len(sources) |-> UnitBytes(sources[i])], units) <= limit
    BY <2>1, <1>1, <1>2, <1>5, WidthForSourcesFits
  <2>3. [i \in 1..Count |-> Weight(i)]' = [i \in 1..Len(sources) |-> UnitBytes(sources[i])]
    BY <1>2, <1>3 DEF Weight, Raw
  <2>4. Committed(units, 1)' = ResidentBytes("syntax", limit, resident) + Headroom("syntax", limit)
           + 1 * TotalWeight([i \in 1..Len(sources) |-> UnitBytes(sources[i])], units)
    BY <2>3, <1>2 DEF Committed
  <2>5. QED
    BY <2>2, <2>4
<1>6. WidthFitsAnySet'
  <2>1. job'.limit = limit /\ job'.kind # "fixed"
    BY <1>2
  <2>2. QED
    BY <2>1, <1>3, <1>5 DEF WidthFitsAnySet
<1>7. QED
  BY <1>2, <1>3, <1>4, <1>6, CallKeeps

\* A width for a fixed cost per worker.
LEMMA CallWidthForLimitKeeps ==
  ASSUME SchedInv, NEW cpu \in CpuWorkers, NEW transient \in Transients,
         NEW reserved \in Residents, reserved # NoBytes, NEW limit \in Limits,
         CallWidthForLimit(cpu, transient, reserved, limit)
  PROVE  SchedInv'
<1>1. /\ cpu \in Nat /\ limit \in (U64 \ {0}) \cup {NoBytes} /\ transient \in U64
      /\ reserved \in U64
  BY ScheduleAssumption
<1>2. /\ job' = [kind |-> "fixed", sources |-> <<>>, cpu |-> cpu, limit |-> limit,
                 resident |-> reserved, transient |-> transient]
      /\ width' = WidthForLimit(cpu, transient, reserved, limit)
      /\ at = "idle" /\ at' = "done" /\ UNCHANGED <<start, end, bytes, batches>>
  BY DEF CallWidthForLimit
<1>3. job' \in JobType /\ Count' = 0
  BY <1>1, <1>2 DEF JobType, Count
<1>4. /\ width' \in Nat /\ width' > 0
      /\ width' > 1 /\ limit # NoBytes => reserved + width' * transient <= limit
  <2> DEFINE w == WidthForLimit(cpu, transient, reserved, limit)
  <2>1. w \in Nat \ {0} /\ (w > 1 /\ limit # NoBytes => reserved + w * transient <= limit)
    BY <1>1, WidthForLimitFits
  <2>2. width' = w
    BY <1>2
  <2> HIDE DEF w
  <2>3. QED
    BY <2>1, <2>2
<1>5. ASSUME NEW units \in SUBSET (1..0), Cardinality(units) \in 2..width' PROVE FALSE
  <2>1. units = {}
    OBVIOUS
  <2>2. QED
    BY <2>1, <1>5, FS_EmptySet
<1>6. WidthFitsAnySet'
  <2>1. job'.limit = limit /\ job'.resident = reserved /\ job'.transient = transient
    BY <1>2
  <2>2. QED
    BY <2>1, <1>3, <1>4, <1>5 DEF WidthFitsAnySet
<1>7. QED
  BY <1>2, <1>3, <1>4, <1>6, CallKeeps

\* The invariant holds whatever the sizes, the limits and the reserves are.
THEOREM SchedInvariance == SchedSpec => []SchedInv
<1>1. SchedInv /\ [SchedNext]_schedVars => SchedInv'
  <2> SUFFICES ASSUME SchedInv, [SchedNext]_schedVars PROVE SchedInv'
    OBVIOUS
  <2>1. CASE TakeUnit
    BY <2>1, TakeUnitKeeps
  <2>2. CASE CloseBatch
    BY <2>2, CloseBatchKeeps
  <2>3. CASE Return
    <3>1. SchedInit'
      BY <2>3 DEF Return, SchedInit
    <3>2. SchedInit' => SchedInv'
      BY NoCall, PTL
    <3>3. QED
      BY <3>1, <3>2
  <2>4. ASSUME NEW cpu \in CpuWorkers, NEW limit \in Limits, NEW resident \in Residents,
               NEW sources \in Sources, NEW kind \in Kinds,
               CallBatches(kind, sources, cpu, limit, resident)
        PROVE  SchedInv'
    BY <2>4, CallBatchesKeeps
  <2>5. ASSUME NEW cpu \in CpuWorkers, NEW limit \in Limits, NEW resident \in Residents,
               NEW sources \in Sources, CallWidthForSources(sources, cpu, limit, resident)
        PROVE  SchedInv'
    BY <2>5, CallWidthForSourcesKeeps
  <2>6. ASSUME NEW cpu \in CpuWorkers, NEW limit \in Limits, NEW resident \in Residents,
               NEW transient \in Transients, resident # NoBytes,
               CallWidthForLimit(cpu, transient, resident, limit)
        PROVE  SchedInv'
    BY <2>6, CallWidthForLimitKeeps
  <2>7. CASE UNCHANGED schedVars
    <3>1. /\ Count' = Count /\ Raw' = Raw /\ Weights' = Weights
          /\ \A units, copies : Committed(units, copies)' = Committed(units, copies)
      BY <2>7, SameJob DEF schedVars
    <3>2. QED
      BY <2>7, <3>1 DEF schedVars, SchedInv, SchedTypeOK, BatchBeingFilled, BatchesPartition,
                        BatchesFit, WidthFitsAnySet
  <2>8. QED
    BY <2>1, <2>2, <2>3, <2>4, <2>5, <2>6, <2>7 DEF SchedNext
<1>2. QED
  BY <1>1, NoCall, PTL DEF SchedSpec

\* The batches are a partition of the sources in their order, and a batch that
\* could be made smaller fits the process limit in true sums.
THEOREM SchedBatchesExact == SchedSpec => []BatchesExact
<1>1. SchedInv => BatchesExact
  BY DEF SchedInv, BatchesExact
<1>2. QED
  BY <1>1, SchedInvariance, PTL

\* No choice of files by the workers exceeds the limit the width was computed for.
THEOREM SchedWidthFits == SchedSpec => []WidthFitsAnySet
<1>1. SchedInv => WidthFitsAnySet
  BY DEF SchedInv
<1>2. QED
  BY <1>1, SchedInvariance, PTL

-----------------------------------------------------------------------------
(* SpillStore: least elements and ascending sequences. *)

\* A set of naturals has a least element.
LEMMA Least ==
  ASSUME NEW T \in SUBSET Nat, T # {}
  PROVE  \E x \in T : \A y \in T : x <= y
<1> DEFINE R == OpToRel(<, Nat)
<1>1. IsWellFoundedOn(R, Nat)
  BY NatLessThanWellFounded, Zenon
<1>2. R = {ss \in Nat \X Nat : ss[1] < ss[2]}
  BY DEF OpToRel
<1> HIDE DEF R
<1>3. PICK x \in T : \A y \in T : ~ (<<y, x>> \in R)
  BY <1>1, WFMin
<1>4. ASSUME NEW y \in T PROVE x <= y
  <2>1. x \in Nat /\ y \in Nat
    OBVIOUS
  <2>2. <<y, x>> \in Nat \X Nat /\ <<y, x>>[1] = y /\ <<y, x>>[2] = x
    BY <2>1
  <2>3. ~(y < x)
    BY <1>2, <1>3, <2>2
  <2>4. QED
    BY <2>1, <2>3
<1>5. QED
  BY <1>4

\* LeastOr finds it.
LEMMA LeastOrFacts ==
  ASSUME NEW T \in SUBSET Nat, NEW n
  PROVE  /\ T = {} => LeastOr(T, n) = n
         /\ T # {} => LeastOr(T, n) \in T /\ \A y \in T : LeastOr(T, n) <= y
<1>1. CASE T = {}
  BY <1>1 DEF LeastOr
<1>2. CASE T # {}
  <2>1. \E x \in T : \A y \in T : x <= y
    BY <1>2, Least
  <2>2. LeastOr(T, n) = CHOOSE x \in T : \A y \in T : x <= y
    BY <1>2 DEF LeastOr
  <2>3. QED
    BY <1>2, <2>1, <2>2
<1>3. QED
  BY <1>1, <1>2

\* Positions closed downwards are the first ones, as many as there are.
LEMMA InitialSegment ==
  ASSUME NEW n \in Nat, NEW D \in SUBSET (1..n), \A i \in D, j \in 1..n : j <= i => j \in D
  PROVE  Cardinality(D) \in 0..n /\ D = 1..Cardinality(D)
<1> DEFINE T == {m \in Nat : m + 1 \notin D}
<1>1. n \in T
  OBVIOUS
<1>2. PICK m \in T : \A y \in T : m <= y
  BY <1>1, Least
<1>3. m \in Nat /\ m + 1 \notin D /\ m <= n
  BY <1>1, <1>2
<1>4. ASSUME NEW i \in 1..m PROVE i \in D
  <2>1. i - 1 \in Nat /\ (i - 1) + 1 = i /\ ~(m <= i - 1)
    BY <1>3
  <2>2. i - 1 \notin T
    BY <1>2, <2>1
  <2>3. QED
    BY <2>1, <2>2
<1>5. ASSUME NEW i \in D PROVE i \in 1..m
  <2>1. i \in 1..n
    OBVIOUS
  <2>2. CASE i > m
    <3>1. m + 1 \in 1..n /\ m + 1 <= i
      BY <1>3, <2>1, <2>2
    <3>2. QED
      BY <1>3, <3>1
  <2>3. QED
    BY <1>3, <2>1, <2>2
<1>6. D = 1..m
  BY <1>4, <1>5
<1>7. Cardinality(1..m) = m
  BY <1>3, FS_Interval
<1>8. QED
  BY <1>3, <1>6, <1>7

\* A strictly ascending sequence of keys.
Ascending(q) ==
  /\ q \in Seq(Nat)
  /\ \A i, j \in 1..Len(q) : i < j => q[i] < q[j]

LEMMA AscendingFacts ==
  ASSUME NEW q, Ascending(q)
  PROVE  /\ q \in Seq(Nat) /\ Len(q) \in Nat /\ DOMAIN q = 1..Len(q)
         /\ \A i \in 1..Len(q) : q[i] \in Nat
         /\ \A i, j \in 1..Len(q) : (i < j <=> q[i] < q[j]) /\ (q[i] = q[j] => i = j)
<1>1. q \in Seq(Nat) /\ Len(q) \in Nat /\ DOMAIN q = 1..Len(q) /\ \A i \in 1..Len(q) : q[i] \in Nat
  BY DEF Ascending
<1>2. ASSUME NEW i \in 1..Len(q), NEW j \in 1..Len(q)
      PROVE  (i < j <=> q[i] < q[j]) /\ (q[i] = q[j] => i = j)
  <2>1. q[i] \in Nat /\ q[j] \in Nat /\ i \in Nat /\ j \in Nat
    BY <1>1
  <2>2. (i < j => q[i] < q[j]) /\ (j < i => q[j] < q[i])
    BY DEF Ascending
  <2>3. QED
    BY <2>1, <2>2
<1>3. QED
  BY <1>1, <1>2

\* The keys below a bound come first.
LEMMA BelowFacts ==
  ASSUME NEW q, Ascending(q), NEW k \in Int
  PROVE  /\ Below(q, k) \in 0..Len(q)
         /\ \A i \in 1..Len(q) : q[i] < k <=> i <= Below(q, k)
<1> DEFINE n == Len(q)
           D == {i \in DOMAIN q : q[i] < k}
<1>1. n \in Nat /\ DOMAIN q = 1..n /\ \A i \in 1..n : q[i] \in Nat
  BY AscendingFacts
<1>2. D \in SUBSET (1..n)
  BY <1>1
<1>3. ASSUME NEW i \in D, NEW j \in 1..n, j <= i PROVE j \in D
  <2>1. i \in 1..n /\ q[i] < k /\ q[i] \in Nat /\ q[j] \in Nat
    BY <1>1
  <2>2. j = i \/ q[j] < q[i]
    BY <1>3, <2>1, AscendingFacts
  <2>3. q[j] < k
    BY <2>1, <2>2
  <2>4. QED
    BY <1>1, <2>3
<1>4. Cardinality(D) \in 0..n /\ D = 1..Cardinality(D)
  <2> HIDE DEF D, n
  <2>1. QED
    BY <1>1, <1>2, <1>3, InitialSegment
<1>5. Below(q, k) = Cardinality(D)
  BY DEF Below
<1>6. ASSUME NEW i \in 1..n PROVE q[i] < k <=> i <= Cardinality(D)
  <2>1. q[i] < k <=> i \in D
    BY <1>1
  <2>2. i \in D <=> i <= Cardinality(D)
    <3> HIDE DEF D, n
    <3>1. QED
      BY <1>1, <1>4
  <2>3. QED
    BY <2>1, <2>2
<1>7. QED
  BY <1>4, <1>5, <1>6

\* Sorted lists a finite set of keys in ascending order.
LEMMA SortedFacts ==
  ASSUME NEW S \in SUBSET Nat, IsFiniteSet(S)
  PROVE  /\ Ascending(Sorted(S))
         /\ ToSet(Sorted(S)) = S
         /\ Len(Sorted(S)) = Cardinality(S)
<1> DEFINE n == Cardinality(S)
           before(x) == {y \in S : y < x}
           rank == [x \in S |-> Cardinality(before(x)) + 1]
<1>1. n \in Nat
  BY FS_CardinalityType
<1>2. ASSUME NEW x \in S
      PROVE  /\ before(x) \subseteq S \ {x}
             /\ IsFiniteSet(before(x)) /\ Cardinality(before(x)) \in Nat
  <2>1. before(x) \subseteq S \ {x}
    OBVIOUS
  <2>2. before(x) \in SUBSET S
    OBVIOUS
  <2>3. IsFiniteSet(before(x))
    BY <2>2, FS_Subset
  <2>4. QED
    BY <2>1, <2>3, FS_CardinalityType
<1>3. ASSUME NEW x \in S, NEW z \in S, x < z
      PROVE  x \in before(z) /\ before(x) \in SUBSET (before(z) \ {x})
  <2>1. x \in Nat /\ z \in Nat
    OBVIOUS
  <2>2. ASSUME NEW y \in before(x) PROVE y \in before(z) \ {x}
    <3>1. y \in S /\ y \in Nat /\ y < x
      OBVIOUS
    <3>2. y < z /\ y # x
      BY <1>3, <2>1, <3>1
    <3>3. QED
      BY <3>1, <3>2
  <2>3. x \in before(z)
    BY <1>3
  <2>4. QED
    BY <2>2, <2>3
<1> HIDE DEF before
<1>4. ASSUME NEW x \in S, NEW z \in S, x < z PROVE rank[x] < rank[z]
  <2>1. IsFiniteSet(before(z) \ {x}) /\ Cardinality(before(z) \ {x}) = Cardinality(before(z)) - 1
    BY <1>2, <1>3, <1>4, FS_RemoveElement
  <2>2. Cardinality(before(x)) <= Cardinality(before(z) \ {x})
    BY <1>3, <1>4, <2>1, FS_Subset
  <2>3. QED
    BY <1>2, <2>1, <2>2
<1>5. rank \in [S -> 1..n]
  <2>1. SUFFICES ASSUME NEW x \in S PROVE Cardinality(before(x)) + 1 \in 1..n
    OBVIOUS
  <2>2. IsFiniteSet(S \ {x}) /\ Cardinality(S \ {x}) = n - 1
    BY FS_RemoveElement
  <2>3. Cardinality(before(x)) <= n - 1
    BY <1>2, <2>2, FS_Subset
  <2>4. QED
    BY <1>1, <1>2, <2>3
<1>6. ASSUME NEW x \in S PROVE rank[x] = Cardinality(before(x)) + 1
  OBVIOUS
<1> HIDE DEF rank
<1>7. ASSUME NEW x \in S, NEW z \in S, rank[x] = rank[z] PROVE x = z
  <2>1. rank[x] \in Nat /\ rank[z] \in Nat /\ x \in Nat /\ z \in Nat
    BY <1>5
  <2>2. ~(x < z) /\ ~(z < x)
    BY <1>4, <1>7, <2>1
  <2>3. QED
    BY <2>1, <2>2
<1>8. rank \in Injection(S, 1..n)
  BY <1>5, <1>7, Fun_IsInj
<1>9. \A k \in 1..n : \E x \in S : rank[x] = k
  <2> DEFINE D == 1..n
  <2>1. IsFiniteSet(D) /\ Cardinality(D) = n
    BY <1>1, FS_Interval
  <2>2. rank \in Injection(S, D)
    BY <1>8
  <2> HIDE DEF D
  <2>3. rank \in Surjection(S, D)
    BY <2>1, <2>2, FS_Injection
  <2>4. \A k \in D : \E x \in S : rank[x] = k
    BY <2>3, SurjectionFacts
  <2>5. QED
    BY <2>4 DEF D
<1> DEFINE q == Sorted(S)
<1>10. q = [i \in 1..n |-> CHOOSE x \in S : Cardinality(before(x)) = i - 1]
  BY DEF Sorted, before
<1>11. ASSUME NEW i \in 1..n PROVE q[i] \in S /\ rank[q[i]] = i
  <2>1. PICK x \in S : rank[x] = i
    BY <1>9
  <2>2. Cardinality(before(x)) = i - 1
    BY <2>1, <1>2, <1>6
  <2>3. q[i] = CHOOSE y \in S : Cardinality(before(y)) = i - 1
    BY <1>10
  <2>4. q[i] \in S /\ Cardinality(before(q[i])) = i - 1
    BY <2>2, <2>3
  <2> HIDE DEF q
  <2>5. rank[q[i]] = Cardinality(before(q[i])) + 1
    BY <2>4, <1>6
  <2>6. QED
    BY <2>4, <2>5
<1>12. DOMAIN q = 1..n
  BY <1>10
<1>13. q \in Seq(Nat) /\ Len(q) = n
  <2>1. \A i \in 1..n : q[i] \in Nat
    BY <1>11
  <2>2. q = [i \in 1..n |-> q[i]]
    BY <1>10
  <2> HIDE DEF q
  <2>3. q \in [1..n -> Nat]
    BY <2>1, <2>2
  <2>4. QED
    BY <1>1, <2>3
<1> HIDE DEF q
<1>14. ASSUME NEW i \in 1..n, NEW j \in 1..n, i < j PROVE q[i] < q[j]
  <2>1. q[i] \in S /\ q[j] \in S /\ rank[q[i]] = i /\ rank[q[j]] = j /\ q[i] \in Nat /\ q[j] \in Nat
    BY <1>11
  <2>2. ~(q[j] < q[i]) /\ q[i] # q[j]
    BY <1>4, <1>14, <2>1
  <2>3. QED
    BY <2>1, <2>2
<1>15. ASSUME NEW x \in S PROVE \E i \in 1..n : q[i] = x
  <2>1. rank[x] \in 1..n
    BY <1>5
  <2>2. q[rank[x]] \in S /\ rank[q[rank[x]]] = rank[x]
    BY <1>11, <2>1
  <2>3. q[rank[x]] = x
    BY <1>7, <2>2
  <2>4. QED
    BY <2>1, <2>3
<1>16. ToSet(q) = S
  <2>1. ToSet(q) = {q[i] : i \in 1..n}
    BY <1>12 DEF ToSet
  <2>2. {q[i] : i \in 1..n} \subseteq S
    BY <1>11
  <2>3. S \subseteq {q[i] : i \in 1..n}
    BY <1>15
  <2>4. QED
    BY <2>1, <2>2, <2>3
<1>17. Ascending(q)
  BY <1>13, <1>14 DEF Ascending
<1>18. QED
  BY <1>13, <1>16, <1>17 DEF q

\* The keys of an ascending sequence are as many as its positions.
LEMMA AscendingCount ==
  ASSUME NEW q, Ascending(q)
  PROVE  IsFiniteSet(ToSet(q)) /\ Cardinality(ToSet(q)) = Len(q) /\ ToSet(q) \in SUBSET Nat
<1> DEFINE S == ToSet(q)
           n == Len(q)
<1>1. n \in Nat /\ DOMAIN q = 1..n /\ S \in SUBSET Nat /\ q \in [1..n -> S]
  BY AscendingFacts DEF ToSet
<1>2. \A y \in S : \E x \in 1..n : q[x] = y
  BY <1>1 DEF ToSet
<1>3. q \in Surjection(1..n, S)
  BY <1>1, <1>2, Fun_IsSurj
<1>4. q \in Injection(1..n, S)
  BY <1>1, AscendingFacts, Fun_IsInj
<1>5. IsFiniteSet(1..n) /\ Cardinality(1..n) = n
  BY <1>1, FS_Interval
<1>6. QED
  BY <1>1, <1>3, <1>4, <1>5, FS_Surjection

-----------------------------------------------------------------------------
(* Runs: a key is found through the checkpoints exactly if it is there. *)

\* Where a key of an ascending sequence stands.
LEMMA MemberAt ==
  ASSUME NEW q, Ascending(q), NEW k \in Nat
  PROVE  /\ k \in ToSet(q) <=> Below(q, k) < Len(q) /\ q[Below(q, k) + 1] = k
         /\ \A j \in 1..Len(q) : q[j] = k => Below(q, k) = j - 1
<1> DEFINE n == Len(q)
           b == Below(q, k)
<1>1. n \in Nat /\ DOMAIN q = 1..n /\ \A i \in 1..n : q[i] \in Nat
  BY AscendingFacts
<1>2. b \in 0..n /\ \A i \in 1..n : q[i] < k <=> i <= b
  BY BelowFacts
<1>3. \A i, j \in 1..n : (i < j <=> q[i] < q[j]) /\ (q[i] = q[j] => i = j)
  BY AscendingFacts
<1> HIDE DEF b, n
<1>4. ASSUME NEW j \in 1..n, q[j] = k PROVE b = j - 1
  <2>1. ~(j <= b)
    BY <1>2, <1>4
  <2>2. CASE b + 1 < j
    <3>1. b + 1 \in 1..n /\ q[b + 1] < q[j]
      BY <1>1, <1>2, <1>3, <2>2
    <3>2. b + 1 <= b
      BY <1>2, <1>4, <3>1
    <3>3. QED
      BY <1>2, <3>2
  <2>3. QED
    BY <1>1, <1>2, <2>1, <2>2
<1>5. k \in ToSet(q) <=> \E j \in 1..n : q[j] = k
  BY <1>1 DEF ToSet
<1>6. ASSUME NEW j \in 1..n, q[j] = k PROVE b < n /\ q[b + 1] = k
  BY <1>1, <1>4, <1>6
<1>7. b < n => b + 1 \in 1..n
  BY <1>1, <1>2
<1>8. QED
  BY <1>4, <1>5, <1>6, <1>7 DEF b, n

\* A block of an ascending sequence.
LEMMA SliceFacts ==
  ASSUME NEW q, Ascending(q), NEW i \in Nat \ {0}, NEW n \in Nat
  PROVE  /\ Ascending(Slice(q, i, n))
         /\ Len(Slice(q, i, n)) = IF i > Len(q) THEN 0
                                  ELSE IF Len(q) < i + n - 1 THEN Len(q) - i + 1 ELSE n
         /\ \A j \in 1..Len(Slice(q, i, n)) : i + j - 1 \in 1..Len(q) /\ Slice(q, i, n)[j] = q[i + j - 1]
<1> DEFINE l == IF Len(q) < i + n - 1 THEN Len(q) ELSE i + n - 1
           t == Slice(q, i, n)
<1>1. Len(q) \in Nat /\ (\A m \in 1..Len(q) : q[m] \in Nat) /\ l \in Nat
  BY AscendingFacts
<1>2. t = SubSeq(q, i, l)
  BY DEF Slice
<1>3. l <= Len(q) /\ \A m \in i..l : q[m] \in Nat
  BY <1>1
<1>4. /\ t \in Seq(Nat) /\ Len(t) = IF i <= l THEN l - i + 1 ELSE 0
      /\ \A j \in 1..(l - i + 1) : t[j] = q[i + j - 1]
  <2> HIDE DEF l
  <2>1. QED
    BY <1>1, <1>2, <1>3, SubSeqProperties
<1>5. Len(t) = IF i > Len(q) THEN 0 ELSE IF Len(q) < i + n - 1 THEN Len(q) - i + 1 ELSE n
  BY <1>1, <1>4
<1>6. \A j \in 1..Len(t) : i + j - 1 \in 1..Len(q) /\ t[j] = q[i + j - 1]
  <2> HIDE DEF l
  <2>1. QED
    BY <1>1, <1>3, <1>4
<1> HIDE DEF t, l
<1>7. ASSUME NEW j \in 1..Len(t), NEW m \in 1..Len(t), j < m PROVE t[j] < t[m]
  <2>1. Len(t) \in Nat
    BY <1>4
  <2>2. i + j - 1 < i + m - 1
    BY <1>7, <2>1
  <2>3. /\ i + j - 1 \in 1..Len(q) /\ t[j] = q[i + j - 1]
        /\ i + m - 1 \in 1..Len(q) /\ t[m] = q[i + m - 1]
    BY <1>6
  <2>4. q[i + j - 1] < q[i + m - 1]
    <3>1. \A x, y \in 1..Len(q) : x < y => q[x] < q[y]
      BY AscendingFacts
    <3>2. QED
      BY <2>2, <2>3, <3>1
  <2>5. QED
    BY <2>3, <2>4
<1>8. Ascending(t)
  BY <1>4, <1>7 DEF Ascending
<1>9. QED
  BY <1>5, <1>6, <1>8 DEF t

\* The checkpoints are every stride-th position, from the first one on.
LEMMA CheckpointPlaces ==
  ASSUME NEW n \in Nat, NEW s \in Nat, s > 0
  PROVE  /\ (n + s - 1) \div s \in Nat
         /\ \A i \in Nat \ {0} : (i - 1) * s \in Nat
                                 /\ (i <= (n + s - 1) \div s <=> (i - 1) * s + 1 <= n)
<1> DEFINE c == (n + s - 1) \div s
<1>1. c \in Nat /\ s * c <= n + s - 1 /\ n + s - 1 < s * c + s
  OBVIOUS
<1> HIDE DEF c
<1>2. ASSUME NEW i \in Nat \ {0}
      PROVE  (i - 1) * s \in Nat /\ (i <= c <=> (i - 1) * s + 1 <= n)
  <2> DEFINE p == (i - 1) * s
             r == s * c
  <2>1. p \in Nat /\ r \in Nat /\ s * i = p + s
    BY <1>1
  <2>2. i <= c => s * i <= r
    BY <1>1
  <2>3. i > c => s * i >= r + s
    <3>1. i > c => s * i >= s * (c + 1)
      BY <1>1
    <3>2. s * (c + 1) = r + s
      BY <1>1
    <3>3. QED
      BY <3>1, <3>2
  <2> HIDE DEF p, r
  <2>4. r <= n + s - 1 /\ n + s - 1 < r + s
    BY <1>1 DEF r
  <2>5. i <= c => p + 1 <= n
    BY <2>1, <2>2, <2>4
  <2>6. i > c => ~(p + 1 <= n)
    BY <2>1, <2>3, <2>4
  <2>7. QED
    BY <1>1, <2>1, <2>5, <2>6 DEF p
<1>3. QED
  BY <1>1, <1>2 DEF c

\* The checkpoints ascend as their run does.
LEMMA CheckpointFacts ==
  ASSUME NEW run, Ascending(run)
  PROVE  /\ Ascending(Checkpoints(run))
         /\ \A i \in Nat \ {0} :
              /\ (i - 1) * RunIndexStride \in Nat
              /\ i <= Len(Checkpoints(run)) <=> (i - 1) * RunIndexStride + 1 <= Len(run)
              /\ i <= Len(Checkpoints(run)) => Checkpoints(run)[i] = run[(i - 1) * RunIndexStride + 1]
<1> DEFINE n == Len(run)
           s == RunIndexStride
           c == (n + s - 1) \div s
           cp == Checkpoints(run)
<1>1. n \in Nat /\ s \in Nat /\ s > 0 /\ \A i \in 1..n : run[i] \in Nat
  BY AscendingFacts, SpillAssumption
<1>2. c \in Nat /\ \A i \in Nat \ {0} : (i - 1) * s \in Nat /\ (i <= c <=> (i - 1) * s + 1 <= n)
  BY <1>1, CheckpointPlaces
<1>3. cp = [i \in 1..c |-> run[(i - 1) * s + 1]]
  BY DEF Checkpoints
<1>4. ASSUME NEW i \in 1..c PROVE (i - 1) * s + 1 \in 1..n /\ cp[i] = run[(i - 1) * s + 1] /\ cp[i] \in Nat
  <2>1. i \in Nat \ {0} /\ i <= c
    BY <1>2
  <2>2. (i - 1) * s \in Nat /\ (i - 1) * s + 1 <= n
    BY <2>1, <1>2
  <2>3. (i - 1) * s + 1 \in 1..n
    BY <2>2, <1>1
  <2>4. QED
    BY <2>3, <1>1, <1>3
<1> HIDE DEF n, s, c
<1>5. cp \in [1..c -> Nat]
  BY <1>3, <1>4
<1>6. cp \in Seq(Nat) /\ Len(cp) = c
  <2> HIDE DEF cp
  <2>1. QED
    BY <1>2, <1>5
<1>7. ASSUME NEW i \in 1..c, NEW j \in 1..c, i < j PROVE cp[i] < cp[j]
  <2>1. (i - 1) * s + 1 < (j - 1) * s + 1
    <3>1. i - 1 \in Nat /\ j - 1 \in Nat /\ i - 1 < j - 1
      BY <1>2, <1>7
    <3>2. (j - 1) * s >= (i - 1) * s + s /\ (i - 1) * s \in Nat /\ (j - 1) * s \in Nat
      BY <3>1, <1>1
    <3>3. QED
      BY <3>2, <1>1
  <2>2. (i - 1) * s + 1 \in 1..Len(run) /\ (j - 1) * s + 1 \in 1..Len(run)
    BY <1>4 DEF n
  <2>3. run[(i - 1) * s + 1] < run[(j - 1) * s + 1]
    BY <2>1, <2>2, AscendingFacts
  <2>4. QED
    BY <2>3, <1>4
<1>8. Ascending(cp)
  BY <1>6, <1>7 DEF Ascending
<1>9. ASSUME NEW i \in Nat \ {0}
      PROVE  /\ (i - 1) * s \in Nat /\ (i <= c <=> (i - 1) * s + 1 <= n)
             /\ i <= c => cp[i] = run[(i - 1) * s + 1]
  BY <1>2, <1>4
<1>10. QED
  BY <1>6, <1>8, <1>9 DEF n, s

\* locate answers for the whole run although it looks into one block: nothing
\* before the block reaches the key, nothing after it is within it.
LEMMA LocateFacts ==
  ASSUME NEW run, Ascending(run), NEW k \in Nat
  PROVE  Locate(run, k) = [index |-> Below(run, k), found |-> k \in ToSet(run)]
<1> DEFINE n == Len(run)
           s == RunIndexStride
           cp == Checkpoints(run)
           b == Below(cp, k + 1)
           from == BlockStart(run, k)
           block == Slice(run, from + 1, s)
           w == Below(run, k)
           v == Below(block, k)
           l == IF n < from + s THEN n ELSE from + s
<1>1. n \in Nat /\ s \in Nat /\ s > 0 /\ \A i \in 1..n : run[i] \in Nat
  BY AscendingFacts, SpillAssumption
<1>2. /\ Ascending(cp)
      /\ \A i \in Nat \ {0} :
           /\ (i - 1) * s \in Nat
           /\ i <= Len(cp) <=> (i - 1) * s + 1 <= n
           /\ i <= Len(cp) => cp[i] = run[(i - 1) * s + 1]
  BY CheckpointFacts
<1>3. /\ b \in 0..Len(cp) /\ Len(cp) \in Nat
      /\ \A i \in 1..Len(cp) : cp[i] \in Nat /\ (cp[i] < k + 1 <=> i <= b)
  <2>1. k + 1 \in Int /\ Ascending(cp)
    BY <1>2
  <2> HIDE DEF cp
  <2>2. b \in 0..Len(cp) /\ \A i \in 1..Len(cp) : cp[i] < k + 1 <=> i <= b
    BY <2>1, BelowFacts
  <2>3. QED
    BY <2>1, <2>2, AscendingFacts
<1>4. from = IF b = 0 THEN 0 ELSE (b - 1) * s
  <2>1. DOMAIN cp = 1..Len(cp)
    BY <1>2, AscendingFacts
  <2>2. {i \in DOMAIN cp : cp[i] <= k} = {i \in DOMAIN cp : cp[i] < k + 1}
    BY <1>3, <2>1
  <2>3. b = Cardinality({i \in DOMAIN cp : cp[i] <= k})
    BY <2>2 DEF Below
  <2>4. from = (IF b = 0 THEN 0 ELSE b - 1) * s
    BY <2>3 DEF BlockStart
  <2> HIDE DEF b, from, s
  <2>5. QED
    BY <1>1, <2>4
<1>5. w \in 0..n /\ \A i \in 1..n : run[i] < k <=> i <= w
  BY BelowFacts
<1>6. k \in ToSet(run) <=> w < n /\ run[w + 1] = k
  BY MemberAt
<1> HIDE DEF n, s, cp, b, from, w
<1>7. from \in Nat /\ from <= n /\ from <= w
  <2>1. CASE b = 0
    BY <1>1, <1>4, <1>5, <2>1
  <2>2. CASE b # 0
    <3>1. b \in Nat \ {0} /\ b <= Len(cp) /\ b \in 1..Len(cp)
      BY <1>3, <2>2
    <3>2. from \in Nat /\ from + 1 <= n /\ cp[b] = run[from + 1]
      BY <1>2, <1>4, <2>2, <3>1
    <3>3. cp[b] < k + 1 /\ cp[b] \in Nat
      BY <1>3, <3>1
    <3>4. CASE from = 0
      BY <1>1, <1>5, <3>2, <3>4
    <3>5. CASE from > 0
      <4>1. from \in 1..n /\ from + 1 \in 1..n /\ from < from + 1
        BY <1>1, <3>2, <3>5
      <4>2. run[from] < run[from + 1] /\ run[from] \in Nat /\ run[from + 1] \in Nat
        BY <1>1, <4>1, AscendingFacts DEF n
      <4>3. run[from] < k
        BY <3>2, <3>3, <4>2
      <4>4. QED
        BY <1>5, <3>2, <4>1, <4>3
    <3>6. QED
      BY <3>2, <3>4, <3>5
  <2>3. QED
    BY <2>1, <2>2
<1>8. ASSUME from + s < n PROVE run[from + s + 1] > k /\ from + s + 1 \in 1..n
  <2>1. from + s + 1 \in 1..n
    BY <1>1, <1>7, <1>8
  <2>2. CASE b = 0
    <3>1. (1 - 1) * s = 0 /\ 1 \in Nat \ {0}
      BY <1>1
    <3>2. 1 <= Len(cp) /\ cp[1] = run[1]
      BY <1>1, <1>2, <1>8, <1>7, <3>1
    <3>3. 1 \in 1..Len(cp) /\ 1 \in 1..n
      BY <1>1, <1>3, <1>7, <1>8, <3>2
    <3>4. ~(run[1] < k + 1) /\ run[1] \in Nat
      BY <1>1, <1>3, <2>2, <3>2, <3>3
    <3>5. 1 < from + s + 1
      BY <1>1, <1>7
    <3>6. run[1] < run[from + s + 1] /\ run[from + s + 1] \in Nat
      BY <1>1, <2>1, <3>3, <3>5, AscendingFacts DEF n
    <3>7. QED
      BY <2>1, <3>4, <3>6
  <2>3. CASE b # 0
    <3>1. b \in Nat /\ b + 1 \in Nat \ {0} /\ ((b + 1) - 1) * s = from + s
      <4>1. b \in Nat \ {0}
        BY <1>3, <2>3
      <4>2. b * s = (b - 1) * s + s
        BY <4>1, <1>1
      <4>3. QED
        BY <4>1, <4>2, <1>4, <2>3
    <3>2. b + 1 <= Len(cp) /\ cp[b + 1] = run[from + s + 1]
      <4>1. /\ b + 1 <= Len(cp) <=> ((b + 1) - 1) * s + 1 <= n
            /\ b + 1 <= Len(cp) => cp[b + 1] = run[((b + 1) - 1) * s + 1]
        BY <1>2, <3>1
      <4>2. from + s + 1 <= n
        BY <1>1, <1>7, <1>8
      <4>3. QED
        BY <3>1, <4>1, <4>2
    <3>3. b + 1 \in 1..Len(cp) /\ ~(b + 1 <= b)
      BY <1>3, <3>1, <3>2
    <3>4. ~(cp[b + 1] < k + 1) /\ cp[b + 1] \in Nat
      BY <1>3, <3>3
    <3>5. QED
      BY <2>1, <3>2, <3>4
  <2>4. QED
    BY <2>2, <2>3
<1>9. w <= l /\ l \in Nat /\ from <= l /\ l <= n
  <2>1. from + s < n => w < from + s + 1
    <3> SUFFICES ASSUME from + s < n PROVE ~(from + s + 1 <= w)
      BY <1>1, <1>5, <1>7
    <3>1. run[from + s + 1] \in Nat /\ ~(run[from + s + 1] < k)
      BY <1>1, <1>8
    <3>2. QED
      BY <1>5, <1>8, <3>1
  <2>2. QED
    BY <1>1, <1>5, <1>7, <2>1
<1>10. /\ Ascending(block) /\ Len(block) = l - from
       /\ \A j \in 1..Len(block) : from + j \in 1..n /\ block[j] = run[from + j]
  <2>1. from + 1 \in Nat \ {0}
    BY <1>7
  <2>2. /\ Ascending(block)
        /\ Len(block) = IF from + 1 > n THEN 0 ELSE IF n < from + 1 + s - 1 THEN n - (from + 1) + 1 ELSE s
        /\ \A j \in 1..Len(block) : from + 1 + j - 1 \in 1..n /\ block[j] = run[from + 1 + j - 1]
    BY <1>1, <2>1, SliceFacts DEF n
  <2>3. Len(block) = l - from
    <3> HIDE DEF block
    <3>1. from + 1 > n <=> from = n
      BY <1>1, <1>7
    <3>2. CASE from = n
      BY <1>1, <1>7, <2>2, <3>1, <3>2
    <3>3. CASE from # n
      BY <1>1, <1>7, <2>2, <3>1, <3>3
    <3>4. QED
      BY <3>2, <3>3
  <2>4. ASSUME NEW j \in 1..Len(block) PROVE from + 1 + j - 1 = from + j
    BY <1>7, <1>9, <2>3
  <2>5. QED
    BY <2>2, <2>3, <2>4
<1> HIDE DEF block, l
<1>11. v \in 0..Len(block) /\ \A j \in 1..Len(block) : block[j] < k <=> j <= v
  <2>1. k \in Int /\ Ascending(block)
    BY <1>10
  <2>2. QED
    BY <2>1, BelowFacts
<1> HIDE DEF v
<1>12. ASSUME NEW j \in 1..Len(block) PROVE j <= v <=> from + j <= w
  BY <1>5, <1>10, <1>11
<1>13. from + v = w
  <2>1. CASE from + v < w
    <3>1. v + 1 \in 1..Len(block) /\ from + (v + 1) <= w
      BY <1>5, <1>7, <1>9, <1>10, <1>11, <2>1
    <3>2. v + 1 <= v
      BY <1>12, <3>1
    <3>3. QED
      BY <1>11, <3>2
  <2>2. CASE from + v > w
    <3>1. v \in 1..Len(block) /\ ~(from + v <= w)
      BY <1>5, <1>7, <1>9, <1>10, <1>11, <2>2
    <3>2. ~(v <= v)
      BY <1>12, <3>1
    <3>3. QED
      BY <1>11, <3>2
  <2>3. QED
    BY <1>5, <1>7, <1>11, <2>1, <2>2
<1>14. (v < Len(block) /\ block[v + 1] = k) <=> (w < n /\ run[w + 1] = k)
  <2>1. CASE v < Len(block)
    <3>1. v \in Nat /\ v + 1 \in 1..Len(block) /\ from + (v + 1) = w + 1
      BY <1>7, <1>9, <1>10, <1>11, <1>13, <2>1
    <3>2. from + (v + 1) \in 1..n
      BY <1>10, <3>1
    <3>3. w < n
      BY <1>1, <1>5, <3>1, <3>2
    <3>4. block[v + 1] = run[w + 1]
      BY <1>10, <3>1
    <3>5. QED
      BY <2>1, <3>3, <3>4
  <2>2. CASE ~(v < Len(block))
    <3>1. w = l
      BY <1>7, <1>9, <1>10, <1>11, <1>13, <2>2
    <3>2. w < n => from + s < n /\ w = from + s
      BY <1>1, <1>7, <3>1 DEF l
    <3>3. w < n => run[w + 1] # k
      <4> SUFFICES ASSUME w < n PROVE run[w + 1] # k
        OBVIOUS
      <4>1. run[w + 1] > k
        BY <1>8, <3>2
      <4>2. QED
        BY <4>1
    <3>4. QED
      BY <2>2, <3>3
  <2>3. QED
    BY <2>1, <2>2
<1>15. Locate(run, k) = [index |-> from + v, found |-> v < Len(block) /\ block[v + 1] = k]
  BY DEF Locate, LocateInBlock, from, block, v, s
<1>16. QED
  BY <1>6, <1>13, <1>14, <1>15 DEF w

-----------------------------------------------------------------------------
(* Pages of a prefix. *)

\* Below an element of an ascending sequence are the elements before it.
LEMMA SmallerCount ==
  ASSUME NEW q, Ascending(q), NEW i \in 1..Len(q)
  PROVE  /\ IsFiniteSet({y \in ToSet(q) : y < q[i]})
         /\ Cardinality({y \in ToSet(q) : y < q[i]}) = i - 1
<1> DEFINE D == {y \in ToSet(q) : y < q[i]}
           f == [j \in 1..(i - 1) |-> q[j]]
<1>1. /\ Len(q) \in Nat /\ DOMAIN q = 1..Len(q) /\ i \in Nat /\ i - 1 \in Nat
      /\ \A j \in 1..Len(q) : q[j] \in Nat
      /\ \A j, k \in 1..Len(q) : (j < k <=> q[j] < q[k]) /\ (q[j] = q[k] => j = k)
  BY AscendingFacts
<1>2. \A j \in 1..(i - 1) : j \in 1..Len(q) /\ j < i
  BY <1>1
<1>3. f \in [1..(i - 1) -> D]
  <2>1. ASSUME NEW j \in 1..(i - 1) PROVE q[j] \in D
    <3>1. q[j] \in ToSet(q)
      BY <1>1, <1>2 DEF ToSet
    <3>2. q[j] < q[i]
      BY <1>1, <1>2
    <3>3. QED
      BY <3>1, <3>2
  <2> HIDE DEF D
  <2>2. QED
    BY <2>1
<1>4. ASSUME NEW y \in D PROVE \E j \in 1..(i - 1) : f[j] = y
  <2>1. PICK j \in 1..Len(q) : q[j] = y
    BY <1>1 DEF ToSet
  <2>2. q[j] < q[i]
    BY <2>1
  <2>3. j < i
    BY <1>1, <2>2
  <2>4. j \in 1..(i - 1)
    BY <1>1, <2>3
  <2>5. QED
    BY <2>1, <2>4
<1>5. ASSUME NEW j \in 1..(i - 1), NEW k \in 1..(i - 1), f[j] = f[k] PROVE j = k
  BY <1>1, <1>2, <1>5
<1> HIDE DEF D, f
<1>6. f \in Bijection(1..(i - 1), D)
  BY <1>3, <1>4, <1>5, Fun_IsBij
<1>7. IsFiniteSet(1..(i - 1)) /\ Cardinality(1..(i - 1)) = i - 1
  <2> DEFINE m == i - 1
  <2>1. m \in Nat
    BY <1>1
  <2> HIDE DEF m
  <2>2. IsFiniteSet(1..m) /\ Cardinality(1..m) = IF 1 > m THEN 0 ELSE m - 1 + 1
    BY <2>1, FS_Interval
  <2>3. Cardinality(1..m) = m
    BY <2>1, <2>2
  <2>4. QED
    BY <2>2, <2>3 DEF m
<1>8. IsFiniteSet(D) /\ Cardinality(D) = i - 1
  <2>1. \E g : g \in Bijection(1..(i - 1), D)
    BY <1>6
  <2>2. ExistsBijection(1..(i - 1), D)
    BY <2>1 DEF ExistsBijection
  <2>3. QED
    BY <1>7, <2>2, FS_Bijection
<1>9. QED
  BY <1>8 DEF D

\* The n smallest elements of a set.
Smallest(S, n) == {x \in S : Cardinality({y \in S : y < x}) < n}

\* An ascending sequence is the sorted sequence of its elements.
LEMMA AscendingIsSorted ==
  ASSUME NEW q, Ascending(q)
  PROVE  Sorted(ToSet(q)) = q
<1> DEFINE r == Sorted(ToSet(q))
           n == Len(q)
<1>1. IsFiniteSet(ToSet(q)) /\ Cardinality(ToSet(q)) = n /\ ToSet(q) \in SUBSET Nat
  BY AscendingCount
<1>2. Ascending(r) /\ ToSet(r) = ToSet(q) /\ Len(r) = n
  BY <1>1, SortedFacts
<1> HIDE DEF r
<1>3. /\ q \in Seq(Nat) /\ n \in Nat /\ DOMAIN q = 1..n
      /\ \A i \in 1..n : q[i] \in Nat
      /\ \A i, j \in 1..n : (i < j <=> q[i] < q[j])
  BY AscendingFacts
<1>4. /\ r \in Seq(Nat) /\ DOMAIN r = 1..n
      /\ \A i \in 1..n : r[i] \in Nat
      /\ \A i, j \in 1..n : (i < j <=> r[i] < r[j])
  BY <1>2, AscendingFacts
<1>5. ASSUME NEW i \in 1..n PROVE r[i] = q[i]
  <2>1. q[i] \in ToSet(q) /\ r[i] \in ToSet(r)
    BY <1>3, <1>4 DEF ToSet
  <2>2. /\ Below(r, q[i]) + 1 \in 1..n /\ r[Below(r, q[i]) + 1] = q[i]
    <3>1. Below(r, q[i]) < n /\ r[Below(r, q[i]) + 1] = q[i]
      BY <1>2, <1>3, <2>1, MemberAt
    <3>2. Below(r, q[i]) \in 0..n
      BY <1>2, <1>3, BelowFacts
    <3>3. QED
      BY <1>3, <3>1, <3>2
  <2> DEFINE D == {y \in ToSet(q) : y < q[i]}
  <2>3. Cardinality(D) = i - 1
    BY <1>3, SmallerCount
  <2>4. PICK j \in 1..n : r[j] = q[i]
    BY <2>2
  <2>5. Cardinality({y \in ToSet(r) : y < r[j]}) = j - 1
    BY <1>2, <1>4, SmallerCount
  <2>6. Cardinality(D) = j - 1
    BY <1>2, <2>4, <2>5
  <2> HIDE DEF D
  <2>7. i = j
    BY <1>3, <2>3, <2>6
  <2>8. QED
    BY <2>4, <2>7
<1>6. r = q
  BY <1>2, <1>3, <1>4, <1>5, SeqEqual
<1>7. QED
  BY <1>6 DEF r

\* A page of a sorted set is its smallest elements in order.
LEMMA SmallestFacts ==
  ASSUME NEW S \in SUBSET Nat, IsFiniteSet(S), NEW n \in Nat
  PROVE  /\ Smallest(S, n) \in SUBSET S /\ IsFiniteSet(Smallest(S, n))
         /\ ToSet(Slice(Sorted(S), 1, n)) = Smallest(S, n)
         /\ Slice(Sorted(S), 1, n) = Sorted(Smallest(S, n))
         /\ Cardinality(S) >= n => Cardinality(Smallest(S, n)) = n
<1> DEFINE q == Sorted(S)
           t == Slice(q, 1, n)
           c == Len(q)
           l == Len(t)
<1>1. Ascending(q) /\ ToSet(q) = S /\ c = Cardinality(S)
  BY SortedFacts
<1>2. /\ c \in Nat /\ DOMAIN q = 1..c
      /\ \A j \in 1..c : q[j] \in Nat
  BY <1>1, AscendingFacts
<1>3. \A j \in 1..c : Cardinality({y \in S : y < q[j]}) = j - 1
  <2> HIDE DEF q
  <2>1. \A j \in 1..c : Cardinality({y \in ToSet(q) : y < q[j]}) = j - 1
    BY <1>1, SmallerCount
  <2>2. QED
    BY <1>1, <2>1
<1> HIDE DEF q, c
<1>4. /\ Ascending(t)
      /\ l = IF 1 > c THEN 0 ELSE IF c < 1 + n - 1 THEN c - 1 + 1 ELSE n
      /\ \A j \in 1..l : 1 + j - 1 \in 1..c /\ t[j] = q[1 + j - 1]
  <2>1. 1 \in Nat \ {0}
    OBVIOUS
  <2>2. QED
    BY <1>1, <2>1, SliceFacts DEF c
<1>5. l = IF c < n THEN c ELSE n
  BY <1>2, <1>4
<1>6. \A j \in 1..l : j \in 1..c /\ t[j] = q[j]
  <2>1. l \in Nat
    BY <1>2, <1>5
  <2>2. \A j \in 1..l : 1 + j - 1 = j
    BY <2>1
  <2>3. QED
    BY <1>4, <2>2
<1>7. DOMAIN t = 1..l
  BY <1>4, AscendingFacts
<1> HIDE DEF t, l
<1>8. ASSUME NEW x \in ToSet(t) PROVE x \in Smallest(S, n)
  <2>1. PICK j \in 1..l : t[j] = x
    BY <1>7 DEF ToSet
  <2>2. j \in 1..c /\ q[j] = x
    BY <1>6, <2>1
  <2>3. x \in S
    BY <1>1, <1>2, <2>2 DEF ToSet
  <2>4. Cardinality({y \in S : y < x}) = j - 1
    BY <1>3, <2>2
  <2>5. j - 1 < n
    BY <1>2, <1>5, <2>2
  <2>6. QED
    BY <2>3, <2>4, <2>5 DEF Smallest
<1>9. ASSUME NEW x \in Smallest(S, n) PROVE x \in ToSet(t)
  <2>1. x \in S /\ Cardinality({y \in S : y < x}) < n
    BY DEF Smallest
  <2>2. PICK j \in 1..c : q[j] = x
    BY <1>1, <1>2, <2>1 DEF ToSet
  <2>3. j - 1 < n
    BY <1>3, <2>1, <2>2
  <2>4. j \in 1..l
    BY <1>2, <1>5, <2>3
  <2>5. QED
    BY <1>6, <1>7, <2>2, <2>4 DEF ToSet
<1>10. ToSet(t) = Smallest(S, n)
  BY <1>8, <1>9
<1>11. Sorted(ToSet(t)) = t /\ IsFiniteSet(ToSet(t)) /\ Cardinality(ToSet(t)) = l
  BY <1>4, AscendingIsSorted, AscendingCount DEF l
<1>12. Smallest(S, n) \in SUBSET S
  BY DEF Smallest
<1>13. c >= n => l = n
  BY <1>2, <1>5
<1>14. QED
  BY <1>1, <1>10, <1>11, <1>12, <1>13 DEF t, q

SmallestOfParts(P, n) == UNION {Smallest(X, n) : X \in P}

\* The smallest elements of a union are among the smallest of its parts.
LEMMA SmallestOfUnion ==
  ASSUME NEW P, NEW S, S = UNION P, S \in SUBSET Nat, IsFiniteSet(S), NEW n \in Nat
  PROVE  /\ SmallestOfParts(P, n) \in SUBSET S /\ IsFiniteSet(SmallestOfParts(P, n))
         /\ Smallest(SmallestOfParts(P, n), n) = Smallest(S, n)
<1> DEFINE T == SmallestOfParts(P, n)
           before(A, x) == {y \in A : y < x}
<1>1. T \in SUBSET S
  BY DEF SmallestOfParts, Smallest
<1>2. IsFiniteSet(T)
  BY <1>1, FS_Subset
<1>3. \A A \in SUBSET S, x \in S : /\ before(A, x) \in SUBSET before(S, x) /\ IsFiniteSet(before(S, x))
                                   /\ IsFiniteSet(before(A, x)) /\ Cardinality(before(A, x)) \in Nat
                                   /\ Cardinality(before(A, x)) <= Cardinality(before(S, x))
  <2> SUFFICES ASSUME NEW A \in SUBSET S, NEW x \in S
               PROVE  /\ before(A, x) \in SUBSET before(S, x) /\ IsFiniteSet(before(S, x))
                      /\ IsFiniteSet(before(A, x)) /\ Cardinality(before(A, x)) \in Nat
                      /\ Cardinality(before(A, x)) <= Cardinality(before(S, x))
    OBVIOUS
  <2>1. before(A, x) \in SUBSET before(S, x) /\ before(S, x) \in SUBSET S
    OBVIOUS
  <2> HIDE DEF T, before
  <2>2. IsFiniteSet(before(S, x))
    BY <2>1, FS_Subset
  <2>3. IsFiniteSet(before(A, x)) /\ Cardinality(before(A, x)) <= Cardinality(before(S, x))
    BY <2>1, <2>2, FS_Subset
  <2>4. QED
    BY <2>1, <2>2, <2>3, FS_CardinalityType
<1>4. ASSUME NEW x \in Smallest(S, n) PROVE x \in T /\ x \in Smallest(T, n)
  <2>1. x \in S /\ Cardinality(before(S, x)) < n
    BY DEF Smallest
  <2>2. PICK X \in P : x \in X
    BY <2>1
  <2>3. X \in SUBSET S
    OBVIOUS
  <2> HIDE DEF T, before
  <2>4. Cardinality(before(X, x)) < n /\ Cardinality(before(T, x)) < n
    <3>1. \A a, b \in Nat : a <= b /\ b < n => a < n
      OBVIOUS
    <3>2. Cardinality(before(S, x)) \in Nat
      BY <1>3, <2>1
    <3>3. QED
      BY <1>1, <1>3, <2>1, <2>3, <3>1, <3>2
  <2>5. x \in Smallest(X, n)
    BY <2>2, <2>4 DEF Smallest, before
  <2>6. x \in T
    BY <2>2, <2>5 DEF T, SmallestOfParts
  <2>7. QED
    BY <2>4, <2>6 DEF Smallest, before
<1>5. ASSUME NEW x \in Smallest(T, n) PROVE x \in Smallest(S, n)
  <2>1. x \in T /\ Cardinality(before(T, x)) < n /\ x \in S
    BY <1>1 DEF Smallest
  <2> SUFFICES ASSUME x \notin Smallest(S, n) PROVE FALSE
    OBVIOUS
  <2> HIDE DEF T, before
  <2>2. Cardinality(before(S, x)) >= n
    <3>1. ~(Cardinality(before(S, x)) < n)
      BY <2>1 DEF Smallest, before
    <3>2. Cardinality(before(S, x)) \in Nat
      BY <1>3, <2>1
    <3>3. QED
      BY <3>1, <3>2
  <2>3. ASSUME NEW y \in Smallest(S, n) PROVE y \in before(T, x)
    <3>1. y \in T /\ y \in S /\ Cardinality(before(S, y)) < n
      BY <1>4 DEF Smallest, before
    <3>2. CASE y < x
      BY <3>1, <3>2 DEF before
    <3>3. CASE ~(y < x)
      <4>1. before(S, x) \in SUBSET before(S, y)
        <5>1. x \in Nat /\ y \in Nat /\ \A z \in S : z \in Nat
          BY <2>1, <3>1
        <5>2. \A z \in S : z < x => z < y
          BY <3>3, <5>1
        <5>3. QED
          BY <5>2 DEF before
      <4>2. Cardinality(before(S, x)) <= Cardinality(before(S, y))
        BY <1>3, <3>1, <4>1, FS_Subset
      <4>3. Cardinality(before(S, x)) \in Nat /\ Cardinality(before(S, y)) \in Nat
        BY <1>3, <2>1, <3>1
      <4>4. QED
        BY <2>2, <3>1, <4>2, <4>3
    <3>4. QED
      BY <3>2, <3>3
  <2>4. IsFiniteSet(before(T, x)) /\ Cardinality(before(T, x)) \in Nat
    BY <1>1, <1>3, <2>1
  <2>5. Cardinality(S) >= n
    <3>1. before(S, x) \in SUBSET S
      BY DEF before
    <3>2. Cardinality(before(S, x)) <= Cardinality(S) /\ Cardinality(S) \in Nat
      BY <3>1, FS_Subset, FS_CardinalityType
    <3>3. Cardinality(before(S, x)) \in Nat
      BY <1>3, <2>1
    <3>4. QED
      BY <2>2, <3>2, <3>3
  <2>6. Cardinality(Smallest(S, n)) = n
    BY <2>5, SmallestFacts
  <2>7. Smallest(S, n) \in SUBSET before(T, x)
    BY <2>3
  <2>8. n <= Cardinality(before(T, x))
    <3>1. Cardinality(Smallest(S, n)) <= Cardinality(before(T, x))
      BY <2>4, <2>7, FS_Subset
    <3>2. QED
      BY <2>6, <3>1
  <2>9. QED
    BY <2>1, <2>4, <2>8
<1>6. Smallest(T, n) = Smallest(S, n)
  BY <1>4, <1>5
<1>7. QED
  BY <1>1, <1>2, <1>6

\* The keys of a prefix are an interval.
LEMMA PrefixIsInterval ==
  ASSUME NEW k \in Nat, NEW p \in Nat, NEW u \in Nat, u > 0
  PROVE  /\ p * u \in Nat /\ (p + 1) * u \in Nat
         /\ k \div u = p <=> p * u <= k /\ k <= (p + 1) * u - 1
<1> DEFINE q == k \div u
<1>1. q \in Nat /\ q * u <= k /\ k < q * u + u
  OBVIOUS
<1> HIDE DEF q
<1>2. /\ p * u \in Nat /\ q * u \in Nat /\ (p + 1) * u = p * u + u /\ (q + 1) * u = q * u + u
  BY <1>1
<1>3. p < q => (p + 1) * u <= q * u
  BY <1>1
<1>4. q < p => (q + 1) * u <= p * u
  BY <1>1
<1>5. q = p <=> p * u <= k /\ k <= (p + 1) * u - 1
  BY <1>1, <1>2, <1>3, <1>4
<1>6. QED
  BY <1>2, <1>5 DEF q

\* append_prefix_batch reads the first keys of the prefix that follow `after`:
\* it starts where the checkpoints say and stops at the first key beyond.
LEMMA PageOfRun ==
  ASSUME NEW run, Ascending(run), NEW prefix \in Nat, NEW after \in Int, after >= -1, NEW limit \in Nat
  PROVE  ToSet(AppendPrefixBatch(run, prefix, after, limit))
           = Smallest({k \in ToSet(run) : k \div PrefixUnit = prefix /\ k > after}, limit)
<1> DEFINE lower == prefix * PrefixUnit
           upper == (prefix + 1) * PrefixUnit - 1
           first == IF after + 1 > lower THEN after + 1 ELSE lower
           from == Locate(run, first).index + 1
           beyond == {i \in from..Len(run) : run[i] > upper}
           stop == LeastOr(beyond, Len(run) + 1)
           block == SubSeq(run, from, stop - 1)
           F == {k \in ToSet(run) : k \div PrefixUnit = prefix /\ k > after}
           n == Len(run)
           page == AppendPrefixBatch(run, prefix, after, limit)
<1>1. /\ run \in Seq(Nat) /\ n \in Nat /\ DOMAIN run = 1..n
      /\ \A i \in 1..n : run[i] \in Nat
      /\ \A i, j \in 1..n : i < j <=> run[i] < run[j]
  BY AscendingFacts
<1>2. PrefixUnit \in Nat /\ PrefixUnit > 0
  BY SpillAssumption
<1>3. lower \in Nat /\ upper \in Int /\ \A k \in Nat : k \div PrefixUnit = prefix <=> lower <= k /\ k <= upper
  BY <1>2, PrefixIsInterval
<1>4. page = IF after >= upper THEN <<>> ELSE Slice(block, 1, limit)
  BY DEF AppendPrefixBatch
<1> HIDE DEF lower, upper
<1>5. first \in Nat /\ \A k \in Nat : (k > after /\ lower <= k) <=> first <= k
  BY <1>3
<1> HIDE DEF first
<1>6. /\ from \in 1..(n + 1)
      /\ \A i \in 1..n : first <= run[i] <=> from <= i
  <2> DEFINE b == Below(run, first)
  <2>1. from = b + 1
    BY <1>5, LocateFacts
  <2>2. b \in 0..n /\ \A i \in 1..n : run[i] < first <=> i <= b
    BY <1>5, BelowFacts
  <2> HIDE DEF b, from
  <2>3. QED
    BY <1>1, <1>5, <2>1, <2>2
<1> HIDE DEF from
<1>7. /\ beyond \in SUBSET Nat
      /\ beyond = {} => stop = n + 1
      /\ beyond # {} => stop \in beyond /\ \A i \in beyond : stop <= i
  <2>1. beyond \in SUBSET Nat
    BY <1>1, <1>6
  <2> HIDE DEF beyond
  <2>2. QED
    BY <2>1, LeastOrFacts
<1> HIDE DEF stop
<1>8. /\ stop \in Nat /\ from <= stop /\ stop <= n + 1
      /\ \A i \in from..n : run[i] <= upper <=> i < stop
  <2>1. CASE beyond = {}
    <3>1. stop = n + 1
      BY <1>7, <2>1
    <3>2. \A i \in from..n : ~(run[i] > upper)
      BY <2>1
    <3>3. \A i \in from..n : run[i] \in Nat
      BY <1>1, <1>6
    <3>4. QED
      BY <1>1, <1>3, <1>6, <3>1, <3>2, <3>3
  <2>2. CASE beyond # {}
    <3>1. stop \in from..n /\ run[stop] > upper /\ \A i \in from..n : run[i] > upper => stop <= i
      BY <1>7, <2>2
    <3>2. stop \in 1..n
      BY <1>1, <1>6, <3>1
    <3>3. ASSUME NEW i \in from..n PROVE run[i] <= upper <=> i < stop
      <4>1. i \in 1..n /\ run[i] \in Nat /\ run[stop] \in Nat
        BY <1>1, <1>6, <3>2
      <4>2. i > stop => run[stop] < run[i]
        BY <1>1, <3>2, <4>1
      <4>3. run[i] > upper => stop <= i
        BY <3>1
      <4>4. i = stop => run[i] > upper
        BY <3>1
      <4>5. QED
        BY <1>3, <3>1, <3>2, <4>1, <4>2, <4>3, <4>4
    <3>4. QED
      BY <1>1, <1>6, <3>1, <3>3
  <2>3. QED
    BY <2>1, <2>2
<1> HIDE DEF beyond
<1>9. \A i \in 1..n : run[i] \in F <=> from <= i /\ i < stop
  <2> SUFFICES ASSUME NEW i \in 1..n PROVE run[i] \in F <=> from <= i /\ i < stop
    OBVIOUS
  <2>1. run[i] \in ToSet(run) /\ run[i] \in Nat
    BY <1>1 DEF ToSet
  <2>2. run[i] \in F <=> first <= run[i] /\ run[i] <= upper
    BY <1>3, <1>5, <2>1
  <2>3. from <= i => i \in from..n
    BY <1>1, <1>6
  <2>4. QED
    BY <1>6, <1>8, <2>2, <2>3
<1>10. CASE after >= upper
  <2>1. page = <<>>
    BY <1>4, <1>10
  <2>2. F = {}
    <3>1. ASSUME NEW k \in F PROVE FALSE
      <4>1. k \in Nat
        BY <1>1 DEF ToSet
      <4>2. k <= upper /\ k > after
        BY <1>3, <4>1
      <4>3. QED
        BY <1>3, <1>10, <4>1, <4>2
    <3>2. QED
      BY <3>1
  <2> HIDE DEF F, page
  <2>3. ToSet(page) = {} /\ Smallest(F, limit) = {}
    BY <2>1, <2>2 DEF ToSet, Smallest
  <2>4. QED
    BY <2>3 DEF F, page
<1>11. CASE ~(after >= upper)
  <2>1. page = Slice(block, 1, limit)
    BY <1>4, <1>11
  <2>2. Ascending(block) /\ ToSet(block) = F
    <3> DEFINE l == stop - from
    <3>1. l \in Nat /\ (stop - 1) - from + 1 = l /\ (from <= stop - 1 <=> l > 0)
      BY <1>1, <1>6, <1>8
    <3>2. \A i \in 1..l : from + i - 1 \in 1..n /\ from <= from + i - 1 /\ from + i - 1 < stop
      BY <1>1, <1>6, <1>8
    <3>3. \A i \in from..(stop - 1) : run[i] \in Nat
      BY <1>1, <1>6, <1>8
    <3>4. from \in Int /\ stop - 1 \in Int
      BY <1>6, <1>8
    <3>5. /\ block \in Seq(Nat)
          /\ Len(block) = IF from <= stop - 1 THEN stop - 1 - from + 1 ELSE 0
          /\ \A i \in 1..(stop - 1 - from + 1) : block[i] = run[from + i - 1]
      BY <3>3, <3>4, SubSeqProperties
    <3>6. 0 <= l
      BY <3>1
    <3> HIDE DEF l, block, F
    <3>7. /\ block \in Seq(Nat) /\ Len(block) = l
          /\ \A i \in 1..l : block[i] = run[from + i - 1]
      BY <3>1, <3>5
    <3>8. Ascending(block)
      <4>1. ASSUME NEW i \in 1..l, NEW j \in 1..l, i < j PROVE block[i] < block[j]
        <5>1. /\ from + i - 1 \in 1..n /\ from + j - 1 \in 1..n
              /\ from + i - 1 < from + j - 1
          <6>1. from + i - 1 \in 1..n /\ from + j - 1 \in 1..n
            BY <3>2
          <6>2. i \in Int /\ j \in Int /\ from \in Int
            BY <3>1, <3>4
          <6>3. from + i - 1 < from + j - 1
            BY <4>1, <6>2
          <6>4. QED
            BY <6>1, <6>3
        <5>2. run[from + i - 1] < run[from + j - 1]
          BY <1>1, <5>1
        <5>3. QED
          BY <3>7, <5>2
      <4>2. QED
        BY <3>7, <4>1 DEF Ascending
    <3>9. DOMAIN block = 1..l
      BY <3>7
    <3>10. ASSUME NEW k \in ToSet(block) PROVE k \in F
      <4>1. PICK i \in 1..l : block[i] = k
        BY <3>9 DEF ToSet
      <4>2. run[from + i - 1] \in F
        BY <1>9, <3>2
      <4>3. QED
        BY <3>7, <4>1, <4>2
    <3>11. ASSUME NEW k \in F PROVE k \in ToSet(block)
      <4>1. PICK j \in 1..n : run[j] = k
        BY <1>1 DEF F, ToSet
      <4>2. from <= j /\ j < stop
        BY <1>9, <4>1
      <4> DEFINE i == j - from + 1
      <4>3. i \in 1..l /\ from + i - 1 = j
        BY <1>6, <1>8, <4>2 DEF l
      <4> HIDE DEF i
      <4>4. block[i] = k
        BY <3>7, <4>1, <4>3
      <4>5. QED
        BY <3>9, <4>3, <4>4 DEF ToSet
    <3>12. QED
      BY <3>8, <3>10, <3>11
  <2> HIDE DEF block, F, page
  <2>3. Sorted(F) = block
    BY <2>2, AscendingIsSorted
  <2>4. F \in SUBSET Nat /\ IsFiniteSet(F)
    BY <2>2, AscendingCount
  <2>5. ToSet(Slice(Sorted(F), 1, limit)) = Smallest(F, limit)
    BY <2>4, SmallestFacts
  <2>6. QED
    BY <2>1, <2>3, <2>5 DEF F, page
<1>12. QED
  BY <1>10, <1>11

-----------------------------------------------------------------------------
(* Levels: the new run climbs like the carry of a binary counter. *)

\* Powers of two double: a set with one more element has twice the subsets.
LEMMA PowerOfTwo ==
  ASSUME NEW n \in Nat
  PROVE  2^n \in Nat /\ 2^0 = 1 /\ 2^(n + 1) = 2^n + 2^n
<1> DEFINE A == SUBSET (1..n)
           f == [T \in A |-> T \cup {n + 1}]
           B == {f[T] : T \in A}
<1>1. /\ IsFiniteSet(1..n) /\ Cardinality(1..n) = n
      /\ IsFiniteSet(1..(n + 1)) /\ Cardinality(1..(n + 1)) = n + 1
  BY FS_Interval
<1>2. /\ IsFiniteSet(A) /\ Cardinality(A) = 2^n /\ Cardinality(A) \in Nat
      /\ Cardinality(SUBSET (1..(n + 1))) = 2^(n + 1)
  <2>1. IsFiniteSet(A) /\ Cardinality(A) = 2^Cardinality(1..n)
    BY <1>1, FS_SUBSET
  <2>2. Cardinality(SUBSET (1..(n + 1))) = 2^Cardinality(1..(n + 1))
    BY <1>1, FS_SUBSET
  <2>3. QED
    BY <1>1, <2>1, <2>2, FS_CardinalityType
<1>3. ASSUME NEW T \in A, NEW U \in A, f[T] = f[U] PROVE T = U
  <2>1. n + 1 \notin T /\ n + 1 \notin U /\ T \cup {n + 1} = U \cup {n + 1}
    BY <1>3
  <2>2. QED
    BY <2>1
<1>4. f \in Surjection(A, B)
  BY Fun_IsSurj
<1>5. f \in Injection(A, B)
  <2>1. f \in [A -> B]
    OBVIOUS
  <2> HIDE DEF A, B, f
  <2>2. QED
    BY <1>3, <2>1, Fun_IsInj
<1>6. IsFiniteSet(B) /\ Cardinality(B) = Cardinality(A)
  <2> HIDE DEF A, B, f
  <2>1. QED
    BY <1>2, <1>4, <1>5, FS_Surjection
<1>7. SUBSET (1..(n + 1)) = A \cup B
  <2>1. ASSUME NEW T \in SUBSET (1..(n + 1)) PROVE T \in A \cup B
    <3>1. CASE n + 1 \notin T
      <4>1. \A x \in T : x \in 1..n
        BY <3>1
      <4>2. QED
        BY <4>1
    <3>2. CASE n + 1 \in T
      <4>1. T \ {n + 1} \in A
        OBVIOUS
      <4>2. f[T \ {n + 1}] = T
        BY <3>2, <4>1
      <4>3. QED
        BY <4>1, <4>2
    <3>3. QED
      BY <3>1, <3>2
  <2>2. ASSUME NEW T \in A PROVE T \in SUBSET (1..(n + 1)) /\ f[T] \in SUBSET (1..(n + 1))
    <3>1. 1..n \subseteq 1..(n + 1) /\ n + 1 \in 1..(n + 1)
      OBVIOUS
    <3>2. QED
      BY <3>1
  <2>3. ASSUME NEW U \in B PROVE U \in SUBSET (1..(n + 1))
    <3>1. PICK T \in A : U = f[T]
      OBVIOUS
    <3>2. QED
      BY <2>2, <3>1
  <2> HIDE DEF A, B, f
  <2>4. QED
    BY <2>1, <2>2, <2>3
<1>8. A \cap B = {}
  <2>1. \A T \in A : n + 1 \notin T
    OBVIOUS
  <2>2. \A T \in B : n + 1 \in T
    OBVIOUS
  <2>3. QED
    BY <2>1, <2>2
<1> HIDE DEF A, B, f
<1>9. Cardinality(A \cup B) = Cardinality(A) + Cardinality(B) - Cardinality(A \cap B)
  BY <1>2, <1>6, FS_Union
<1>10. Cardinality(A \cap B) = 0
  BY <1>8, FS_EmptySet
<1>11. 2^(n + 1) = 2^n + 2^n /\ 2^n \in Nat
  <2> DEFINE a == 2^n
             b == 2^(n + 1)
  <2>1. Cardinality(A) = a /\ Cardinality(A \cup B) = b
    BY <1>2, <1>7
  <2> HIDE DEF a, b
  <2>2. b = a + a /\ a \in Nat
    BY <2>1, <1>2, <1>6, <1>9, <1>10
  <2>3. QED
    BY <2>2 DEF a, b
<1>12. 2^0 = 1
  <2>1. Cardinality(SUBSET {}) = 2^Cardinality({})
    BY FS_EmptySet, FS_SUBSET
  <2>2. SUBSET {} = {{}}
    OBVIOUS
  <2>3. QED
    BY <2>1, <2>2, FS_EmptySet, FS_Singleton
<1>13. QED
  BY <1>11, <1>12

\* Two runs without a common key merge into one of both.
LEMMA MergeRunsFacts ==
  ASSUME NEW l, NEW r, Ascending(l), Ascending(r), ToSet(l) \cap ToSet(r) = {}
  PROVE  /\ Ascending(MergeRuns(l, r))
         /\ ToSet(MergeRuns(l, r)) = ToSet(l) \cup ToSet(r)
         /\ Len(MergeRuns(l, r)) = Len(l) + Len(r)
<1> DEFINE A == ToSet(l)
           B == ToSet(r)
<1>1. /\ IsFiniteSet(A) /\ A \in SUBSET Nat /\ Cardinality(A) = Len(l)
      /\ IsFiniteSet(B) /\ B \in SUBSET Nat /\ Cardinality(B) = Len(r)
      /\ Len(l) \in Nat /\ Len(r) \in Nat /\ A \cap B = {}
  BY AscendingCount, AscendingFacts
<1>2. MergeRuns(l, r) = Sorted(A \cup B)
  BY DEF MergeRuns
<1> HIDE DEF A, B
<1>3. /\ IsFiniteSet(A \cup B)
      /\ Cardinality(A \cup B) = Cardinality(A) + Cardinality(B) - Cardinality(A \cap B)
  BY <1>1, FS_Union
<1>4. Cardinality(A \cap B) = 0
  BY <1>1, FS_EmptySet
<1>5. Cardinality(A \cup B) = Len(l) + Len(r) /\ A \cup B \in SUBSET Nat
  BY <1>1, <1>3, <1>4
<1>6. /\ Ascending(Sorted(A \cup B)) /\ ToSet(Sorted(A \cup B)) = A \cup B
      /\ Len(Sorted(A \cup B)) = Cardinality(A \cup B)
  BY <1>3, <1>5, SortedFacts
<1>7. QED
  BY <1>2, <1>5, <1>6 DEF A, B

\* m[i] is the run after it merged with the levels up to i.
IsClimb(m, levels, run, n) ==
  m = [i \in 0..n |-> IF i = 0 THEN run ELSE MergeRuns(levels[i], m[i-1])]

\* The recursion of the climb defines a function.
LEMMA ClimbExists ==
  ASSUME NEW levels, NEW run, NEW n \in Nat
  PROVE  \E m : IsClimb(m, levels, run, n)
<1> DEFINE Bad == {j \in Nat : ~ \E m : IsClimb(m, levels, run, j)}
<1> SUFFICES ASSUME Bad # {} PROVE FALSE
  OBVIOUS
<1>1. PICK j \in Bad : \A y \in Bad : j <= y
  BY Least
<1>2. CASE j = 0
  <2> DEFINE m == [i \in 0..0 |-> run]
  <2>1. IsClimb(m, levels, run, 0)
    BY DEF IsClimb
  <2>2. QED
    BY <1>1, <1>2, <2>1
<1>3. CASE j # 0
  <2>1. j \in Nat /\ j - 1 \in Nat /\ j - 1 \notin Bad
    BY <1>1, <1>3
  <2>2. PICK m : IsClimb(m, levels, run, j - 1)
    BY <2>1
  <2> DEFINE g == [i \in 0..j |-> IF i = j THEN MergeRuns(levels[j], m[j-1]) ELSE m[i]]
  <2>3. m = [i \in 0..(j - 1) |-> IF i = 0 THEN run ELSE MergeRuns(levels[i], m[i-1])]
    BY <2>2 DEF IsClimb
  <2>4. ASSUME NEW i \in 0..j PROVE g[i] = IF i = 0 THEN run ELSE MergeRuns(levels[i], g[i-1])
    <3>1. CASE i = 0
      BY <1>3, <2>1, <2>3, <3>1
    <3>2. CASE i # 0 /\ i # j
      <4>1. i \in 0..(j - 1) /\ i - 1 \in 0..(j - 1) /\ i - 1 # j /\ i - 1 \in 0..j
        BY <2>1, <3>2
      <4>2. m[i] = MergeRuns(levels[i], m[i-1]) /\ g[i] = m[i] /\ g[i-1] = m[i-1]
        BY <2>3, <3>2, <4>1
      <4>3. QED
        BY <3>2, <4>2
    <3>3. CASE i = j
      <4>1. i - 1 \in 0..j /\ i - 1 # j /\ i # 0
        BY <1>3, <2>1, <3>3
      <4>2. g[i-1] = m[i-1] /\ g[i] = MergeRuns(levels[i], m[i-1])
        BY <3>3, <4>1
      <4>3. QED
        BY <4>1, <4>2
    <3>4. QED
      BY <3>1, <3>2, <3>3
  <2>5. g = [i \in 0..j |-> g[i]]
    OBVIOUS
  <2> HIDE DEF g
  <2>6. IsClimb(g, levels, run, j)
    BY <2>4, <2>5 DEF IsClimb
  <2>7. QED
    BY <1>1, <2>6
<1>4. QED
  BY <1>2, <1>3

\* The first free level, above all of them if none is.
FreeLevel(levels) == LeastOr({i \in DOMAIN levels : levels[i] = <<>>}, Len(levels) + 1)

\* The levels after a run climbed to level `free`, as the chain m of its merges.
Climbs(m, levels, free) ==
  [i \in 1..(IF free > Len(levels) THEN free ELSE Len(levels)) |->
     IF i < free THEN <<>> ELSE IF i = free THEN m[free-1] ELSE levels[i]]

LEMMA PushRunIs ==
  ASSUME NEW levels, NEW run, FreeLevel(levels) - 1 \in Nat
  PROVE  \E m : /\ IsClimb(m, levels, run, FreeLevel(levels) - 1)
                /\ PushRun(levels, run) = Climbs(m, levels, FreeLevel(levels))
<1> DEFINE free == FreeLevel(levels)
           M(m) == m = [i \in 0..(free - 1) |-> IF i = 0 THEN run ELSE MergeRuns(levels[i], m[i-1])]
           c == CHOOSE m : M(m)
<1>1. \E m : M(m)
  <2>1. PICK m : IsClimb(m, levels, run, free - 1)
    BY ClimbExists
  <2>2. M(m)
    BY <2>1 DEF IsClimb
  <2>3. QED
    BY <2>2
<1>2. M(c)
  <2> HIDE DEF M
  <2> QED BY <1>1
<1>3. PushRun(levels, run) = Climbs(c, levels, free)
  BY DEF PushRun, Climbs, FreeLevel
<1> HIDE DEF c
<1>4. IsClimb(c, levels, run, free - 1)
  BY <1>2 DEF IsClimb
<1>5. QED
  BY <1>3, <1>4

\* The keys of the runs.
Spilled(levels) == UNION {ToSet(levels[i]) : i \in 1..Len(levels)}

\* Every level is empty or holds an ascending run of its size, and no key is on
\* two levels.
LevelsExact(levels) ==
  /\ levels \in Seq(Seq(Nat))
  /\ \A i \in 1..Len(levels) :
       levels[i] # <<>> => Ascending(levels[i]) /\ Len(levels[i]) = MaxResident * 2^(i - 1)
  /\ \A i, j \in 1..Len(levels) : i # j => ToSet(levels[i]) \cap ToSet(levels[j]) = {}

\* The climbing run is ascending, has the size of the level it reached, and
\* holds what it merged with.
Climbed(m, levels, run, i) ==
  /\ Ascending(m[i])
  /\ Len(m[i]) = MaxResident * 2^i
  /\ ToSet(m[i]) = ToSet(run) \cup UNION {ToSet(levels[j]) : j \in 1..i}

LEMMA ClimbFacts ==
  ASSUME NEW levels, LevelsExact(levels), NEW run, Ascending(run), Len(run) = MaxResident,
         ToSet(run) \cap Spilled(levels) = {},
         NEW n \in 0..Len(levels), \A i \in 1..n : levels[i] # <<>>,
         NEW m, IsClimb(m, levels, run, n)
  PROVE  \A i \in 0..n : Climbed(m, levels, run, i)
<1> DEFINE Bad == {i \in 0..n : ~Climbed(m, levels, run, i)}
<1> SUFFICES ASSUME Bad # {} PROVE FALSE
  OBVIOUS
<1>1. n \in Nat /\ Len(levels) \in Nat /\ n <= Len(levels)
  BY DEF LevelsExact
<1>2. Bad \in SUBSET Nat
  BY <1>1
<1>3. PICK i \in Bad : \A y \in Bad : i <= y
  BY <1>2, Least
<1>4. i \in 0..n /\ i \in Nat /\ ~Climbed(m, levels, run, i)
  BY <1>1, <1>3
<1>5. m[i] = IF i = 0 THEN run ELSE MergeRuns(levels[i], m[i-1])
  BY <1>4 DEF IsClimb
<1>6. MaxResident \in Nat
  BY SpillAssumption
<1>7. CASE i = 0
  <2>1. UNION {ToSet(levels[j]) : j \in 1..0} = {}
    OBVIOUS
  <2>2. 2^0 = 1 /\ MaxResident * 1 = MaxResident
    BY <1>6, PowerOfTwo
  <2>3. QED
    BY <1>4, <1>5, <1>7, <2>1, <2>2 DEF Climbed
<1>8. CASE i # 0
  <2>1. i - 1 \in 0..n /\ i - 1 \in Nat /\ i \in 1..n /\ i \in 1..Len(levels) /\ ~(i <= i - 1) /\ (i - 1) + 1 = i
    BY <1>1, <1>4, <1>8
  <2>2. Climbed(m, levels, run, i - 1)
    BY <1>3, <2>1
  <2> DEFINE l == levels[i]
             r == m[i-1]
             Up == UNION {ToSet(levels[j]) : j \in 1..(i-1)}
  <2>3. Ascending(l) /\ Len(l) = MaxResident * 2^(i - 1)
    BY <2>1 DEF LevelsExact
  <2>4. Ascending(r) /\ Len(r) = MaxResident * 2^(i - 1) /\ ToSet(r) = ToSet(run) \cup Up
    BY <2>2 DEF Climbed
  <2>5. ToSet(l) \cap ToSet(run) = {}
    BY <2>1 DEF Spilled
  <2>6. ToSet(l) \cap Up = {}
    <3>1. ASSUME NEW j \in 1..(i-1) PROVE ToSet(l) \cap ToSet(levels[j]) = {}
      <4>1. j \in 1..Len(levels) /\ j # i
        BY <1>1, <1>4
      <4>2. QED
        BY <2>1, <4>1 DEF LevelsExact
    <3> HIDE DEF l
    <3>2. QED
      BY <3>1
  <2>7. ToSet(levels[i]) \cup Up = UNION {ToSet(levels[j]) : j \in 1..i}
    <3>1. 1..i = (1..(i-1)) \cup {i}
      BY <2>1
    <3>2. QED
      BY <3>1
  <2>8. m[i] = MergeRuns(l, r)
    BY <1>5, <1>8
  <2> HIDE DEF l, r, Up
  <2>9. ToSet(l) \cap ToSet(r) = {}
    BY <2>4, <2>5, <2>6
  <2>10. /\ Ascending(m[i]) /\ ToSet(m[i]) = ToSet(l) \cup ToSet(r) /\ Len(m[i]) = Len(l) + Len(r)
    BY <2>3, <2>4, <2>8, <2>9, MergeRunsFacts
  <2>11. Len(m[i]) = MaxResident * 2^i
    <3> DEFINE a == 2^(i - 1)
               b == 2^i
    <3>1. b = a + a /\ a \in Nat
      <4>1. 2^(i - 1) \in Nat /\ 2^((i - 1) + 1) = 2^(i - 1) + 2^(i - 1)
        BY <2>1, PowerOfTwo
      <4>2. QED
        BY <2>1, <4>1
    <3>2. Len(l) = MaxResident * a /\ Len(r) = MaxResident * a
      BY <2>3, <2>4
    <3> HIDE DEF a, b
    <3>3. Len(l) + Len(r) = MaxResident * b
      BY <1>6, <3>1, <3>2
    <3>4. QED
      BY <2>10, <3>3 DEF b
  <2>12. ToSet(m[i]) = ToSet(run) \cup UNION {ToSet(levels[j]) : j \in 1..i}
    <3>1. ToSet(m[i]) = ToSet(run) \cup (ToSet(l) \cup Up)
      BY <2>4, <2>10
    <3>2. QED
      BY <2>7, <3>1 DEF l
  <2>13. QED
    BY <1>4, <2>10, <2>11, <2>12 DEF Climbed
<1>9. QED
  BY <1>7, <1>8

\* push_run keeps the levels exact and adds the keys of the run.
LEMMA PushRunFacts ==
  ASSUME NEW levels, LevelsExact(levels), NEW run, Ascending(run), Len(run) = MaxResident,
         ToSet(run) \cap Spilled(levels) = {}
  PROVE  /\ LevelsExact(PushRun(levels, run))
         /\ Spilled(PushRun(levels, run)) = Spilled(levels) \cup ToSet(run)
         /\ PushRun(levels, run) # <<>>
<1> DEFINE n == Len(levels)
           Empties == {i \in DOMAIN levels : levels[i] = <<>>}
           free == FreeLevel(levels)
           top == IF free > n THEN free ELSE n
           t == PushRun(levels, run)
<1>1. n \in Nat /\ DOMAIN levels = 1..n /\ \A i \in 1..n : levels[i] \in Seq(Nat)
  BY DEF LevelsExact
<1>2. /\ free \in 1..(n + 1) /\ free - 1 \in 0..n /\ free - 1 \in Nat
      /\ \A i \in 1..(free - 1) : levels[i] # <<>>
      /\ free \in 1..n => levels[free] = <<>>
  <2>1. Empties \in SUBSET Nat /\ Empties \in SUBSET (1..n)
    BY <1>1
  <2>2. /\ Empties = {} => free = n + 1
        /\ Empties # {} => free \in Empties /\ \A y \in Empties : free <= y
    BY <2>1, LeastOrFacts DEF FreeLevel
  <2>3. free \in 1..(n + 1) /\ (free \in 1..n => free \in Empties)
    <3> HIDE DEF Empties, free
    <3>1. CASE Empties = {}
      BY <1>1, <2>2, <3>1
    <3>2. CASE Empties # {}
      <4>1. free \in Empties
        BY <2>2, <3>2
      <4>2. free \in 1..n
        BY <2>1, <4>1
      <4>3. QED
        BY <1>1, <4>1, <4>2
    <3>3. QED
      BY <3>1, <3>2
  <2>4. ASSUME NEW i \in 1..(free - 1) PROVE levels[i] # <<>>
    <3>1. i \in 1..n /\ ~(free <= i)
      <4> HIDE DEF free
      <4> QED BY <1>1, <2>3
    <3>2. i \notin Empties
      <4> HIDE DEF Empties, free
      <4> QED BY <2>2, <3>1
    <3>3. QED
      BY <1>1, <3>1, <3>2
  <2>5. free \in 1..n => levels[free] = <<>>
    BY <2>3
  <2> HIDE DEF free
  <2>6. QED
    BY <1>1, <2>3, <2>4, <2>5
<1>3. PICK m : /\ IsClimb(m, levels, run, free - 1)
               /\ t = [i \in 1..top |-> IF i < free THEN <<>> ELSE IF i = free THEN m[free-1] ELSE levels[i]]
  <2>1. \E m : /\ IsClimb(m, levels, run, free - 1)
               /\ PushRun(levels, run) = Climbs(m, levels, free)
    BY <1>2, PushRunIs
  <2> HIDE DEF free
  <2>2. QED
    BY <2>1 DEF Climbs
<1> HIDE DEF t, free, Empties
<1>4. Climbed(m, levels, run, free - 1)
  <2> DEFINE f == free - 1
  <2>1. f \in 0..Len(levels) /\ (\A i \in 1..f : levels[i] # <<>>) /\ IsClimb(m, levels, run, f)
    BY <1>2, <1>3
  <2> HIDE DEF f
  <2>2. \A i \in 0..f : Climbed(m, levels, run, i)
    BY <2>1, ClimbFacts
  <2>3. f \in 0..f
    BY <1>2 DEF f
  <2>4. QED
    BY <2>2, <2>3 DEF f
<1> DEFINE new == m[free - 1]
           Lower == UNION {ToSet(levels[j]) : j \in 1..(free - 1)}
<1>5. /\ Ascending(new) /\ Len(new) = MaxResident * 2^(free - 1)
      /\ ToSet(new) = ToSet(run) \cup Lower
  BY <1>4 DEF Climbed
<1>6. top \in Nat /\ top >= 1 /\ top >= n /\ free \in 1..top
  BY <1>1, <1>2
<1>7. \A i \in 1..top : t[i] = IF i < free THEN <<>> ELSE IF i = free THEN new ELSE levels[i]
  BY <1>3
<1>8. DOMAIN t = 1..top
  BY <1>3
<1>9. \A i \in 1..top : i > free => i \in 1..n
  BY <1>1, <1>2
<1> HIDE DEF new, top, n
<1>10. t \in [1..top -> Seq(Nat)]
  <2>1. new \in Seq(Nat)
    BY <1>5 DEF Ascending
  <2>2. ASSUME NEW i \in 1..top PROVE t[i] \in Seq(Nat)
    <3>1. CASE i < free
      <4>1. t[i] = <<>>
        BY <1>7, <3>1
      <4>2. QED
        BY <4>1, EmptySeq
    <3>2. CASE i = free
      BY <1>7, <2>1, <3>2, <1>2
    <3>3. CASE i > free
      BY <1>1, <1>2, <1>7, <1>9, <3>3
    <3>4. QED
      BY <1>2, <1>6, <3>1, <3>2, <3>3
  <2>3. t = [i \in 1..top |-> t[i]]
    BY <1>3
  <2>4. QED
    BY <2>2, <2>3
<1>11. t \in Seq(Seq(Nat)) /\ Len(t) = top /\ t # <<>>
  <2>1. t \in Seq(Seq(Nat)) /\ Len(t) = top
    BY <1>6, <1>10
  <2>2. QED
    BY <1>6, <2>1
<1>12. ASSUME NEW i \in 1..top
       PROVE  /\ i < free => t[i] = <<>> /\ ToSet(t[i]) = {}
              /\ i = free => t[i] = new
              /\ i > free => t[i] = levels[i] /\ i \in 1..n
              /\ i < free \/ i = free \/ i > free
  <2>1. ToSet(<<>>) = {}
    BY DEF ToSet
  <2>2. QED
    BY <1>2, <1>6, <1>7, <1>9, <2>1
<1>13. ASSUME NEW i \in 1..top, t[i] # <<>>
       PROVE  Ascending(t[i]) /\ Len(t[i]) = MaxResident * 2^(i - 1)
  <2>1. CASE i = free
    BY <1>5, <1>12, <2>1
  <2>2. CASE i > free
    BY <1>12, <1>13, <2>2 DEF LevelsExact, n
  <2>3. QED
    BY <1>12, <1>13, <2>1, <2>2
<1>14. ASSUME NEW j \in 1..n, j > free PROVE ToSet(new) \cap ToSet(levels[j]) = {}
  <2>1. ToSet(run) \cap ToSet(levels[j]) = {}
    BY DEF Spilled, n
  <2>2. ASSUME NEW i \in 1..(free - 1) PROVE ToSet(levels[i]) \cap ToSet(levels[j]) = {}
    <3>1. i \in 1..n /\ i # j
      BY <1>1, <1>2, <1>14
    <3>2. QED
      BY <3>1 DEF LevelsExact, n
  <2>3. QED
    BY <1>5, <2>1, <2>2
<1>15. ASSUME NEW i \in 1..top, NEW j \in 1..top, i < j PROVE ToSet(t[i]) \cap ToSet(t[j]) = {}
  <2>1. i \in Nat /\ j \in Nat /\ free \in Nat
    BY <1>2, <1>6
  <2>2. CASE i < free
    BY <1>12, <2>2
  <2>3. CASE i = free
    <3>1. j > free
      BY <1>15, <2>1, <2>3
    <3>2. QED
      BY <1>12, <1>14, <2>3, <3>1
  <2>4. CASE i > free
    <3>1. j > free /\ i # j
      BY <1>15, <2>1, <2>4
    <3>2. t[i] = levels[i] /\ t[j] = levels[j] /\ i \in 1..n /\ j \in 1..n
      BY <1>12, <2>4, <3>1
    <3>3. QED
      BY <3>1, <3>2 DEF LevelsExact, n
  <2>5. QED
    BY <1>12, <2>2, <2>3, <2>4
<1>16. LevelsExact(t)
  <2>1. ASSUME NEW i \in 1..top, NEW j \in 1..top, i # j PROVE ToSet(t[i]) \cap ToSet(t[j]) = {}
    <3>1. i < j \/ j < i
      BY <1>6, <2>1
    <3>2. QED
      BY <1>15, <3>1
  <2>2. QED
    BY <1>11, <1>13, <2>1 DEF LevelsExact
<1>17. Spilled(t) = Spilled(levels) \cup ToSet(run)
  <2>1. ASSUME NEW x \in Spilled(t) PROVE x \in Spilled(levels) \cup ToSet(run)
    <3>1. PICK i \in 1..top : x \in ToSet(t[i])
      BY <1>11 DEF Spilled
    <3>2. CASE i = free
      <4>1. x \in ToSet(run) \/ \E j \in 1..(free - 1) : x \in ToSet(levels[j])
        BY <1>5, <1>12, <3>1, <3>2
      <4>2. \A j \in 1..(free - 1) : j \in 1..n
        BY <1>1, <1>2
      <4>3. QED
        BY <4>1, <4>2 DEF Spilled, n
    <3>3. CASE i > free
      BY <1>12, <3>1, <3>3 DEF Spilled, n
    <3>4. QED
      BY <1>12, <3>1, <3>2, <3>3
  <2>2. ASSUME NEW x \in ToSet(run) PROVE x \in Spilled(t)
    <3>1. x \in ToSet(t[free])
      BY <1>5, <1>6, <1>12
    <3>2. QED
      BY <1>6, <1>11, <3>1 DEF Spilled
  <2>3. ASSUME NEW x \in Spilled(levels) PROVE x \in Spilled(t)
    <3>1. PICK j \in 1..n : x \in ToSet(levels[j])
      BY DEF Spilled, n
    <3>2. j \in Nat /\ free \in Nat /\ j \in 1..top
      BY <1>1, <1>2, <1>6
    <3>3. CASE j < free
      <4>1. j \in 1..(free - 1)
        BY <3>2, <3>3
      <4>2. x \in ToSet(t[free])
        BY <1>5, <1>6, <1>12, <3>1, <4>1
      <4>3. QED
        BY <1>6, <1>11, <4>2 DEF Spilled
    <3>4. CASE j = free
      <4>1. levels[j] = <<>>
        BY <1>2, <3>4
      <4>2. QED
        BY <3>1, <4>1 DEF ToSet
    <3>5. CASE j > free
      <4>1. t[j] = levels[j]
        BY <1>12, <3>2, <3>5
      <4>2. QED
        BY <1>11, <3>1, <3>2, <4>1 DEF Spilled
    <3>6. QED
      BY <3>2, <3>3, <3>4, <3>5
  <2>4. QED
    BY <2>1, <2>2, <2>3
<1>18. QED
  BY <1>11, <1>16, <1>17 DEF t

-----------------------------------------------------------------------------
(* The recent-positive cache. *)

Way == [key : Nat, ref : BOOLEAN]

\* One cache set: its ways hold different keys of M, no more than there is room for.
WaysExact(ways, M) ==
  /\ ways \in Seq(Way)
  /\ Len(ways) <= Associativity
  /\ \A i \in 1..Len(ways) : ways[i].key \in M
  /\ \A i, j \in 1..Len(ways) : ways[i].key = ways[j].key => i = j

\* A cache that answers only for keys of M.
CacheHolds(cache, M) ==
  /\ cache \in [1..SetCount -> [ways : Seq(Way), hand : Nat]]
  /\ \A c \in 1..SetCount : WaysExact(cache[c].ways, M)

LEMMA SetIndexType ==
  ASSUME NEW k \in Nat
  PROVE  SetIndex(k) \in 1..SetCount
<1> DEFINE h == mix64(k)
<1>1. h \in Nat
  <2>1. k \div 5 \in Nat
    OBVIOUS
  <2>2. QED
    BY <2>1 DEF mix64
<1> HIDE DEF h
<1>2. SetCount \in Nat /\ SetCount > 0
  BY SpillAssumption
<1>3. h % SetCount \in 0..(SetCount - 1)
  BY <1>1, <1>2
<1>4. QED
  BY <1>2, <1>3 DEF SetIndex, h

\* Before the first spill nothing is cached.
LEMMA EmptyCacheHolds ==
  ASSUME NEW M
  PROVE  CacheHolds(EmptyCache, M)
<1>1. <<>> \in Seq(Way) /\ Len(<<>>) = 0
  BY EmptySeq
<1>2. Associativity \in Nat
  BY SpillAssumption
<1>3. EmptyCache \in [1..SetCount -> [ways : Seq(Way), hand : Nat]]
  BY <1>1 DEF EmptyCache
<1>4. \A c \in 1..SetCount : EmptyCache[c].ways = <<>>
  BY DEF EmptyCache
<1>5. WaysExact(<<>>, M)
  BY <1>1, <1>2 DEF WaysExact
<1>6. QED
  BY <1>3, <1>4, <1>5 DEF CacheHolds

\* A cache answers for more if there are more keys.
LEMMA CacheGrows ==
  ASSUME NEW cache, NEW M, NEW N, CacheHolds(cache, M), M \subseteq N
  PROVE  CacheHolds(cache, N)
BY DEF CacheHolds, WaysExact

\* A cache one set of which is replaced.
LEMMA CacheSetReplaced ==
  ASSUME NEW cache, NEW M, CacheHolds(cache, M), NEW c \in 1..SetCount,
         NEW set \in [ways : Seq(Way), hand : Nat], WaysExact(set.ways, M)
  PROVE  CacheHolds([cache EXCEPT ![c] = set], M)
BY DEF CacheHolds

\* A hit refreshes a bit and moves no key.
LEMMA TouchKeyKeeps ==
  ASSUME NEW cache, NEW M, CacheHolds(cache, M), NEW k \in Nat
  PROVE  CacheHolds(TouchKey(cache, k), M)
<1>1. CASE ~Cached(cache, k)
  BY <1>1 DEF TouchKey
<1>2. CASE Cached(cache, k)
  <2> DEFINE c == SetIndex(k)
             w == cache[c].ways
             v == [i \in DOMAIN w |-> IF w[i].key = k THEN [w[i] EXCEPT !.ref = TRUE] ELSE w[i]]
             set == [cache[c] EXCEPT !.ways = v]
  <2>1. c \in 1..SetCount
    BY SetIndexType
  <2>2. cache[c] \in [ways : Seq(Way), hand : Nat] /\ WaysExact(w, M)
    BY <2>1 DEF CacheHolds
  <2>3. TouchKey(cache, k) = [cache EXCEPT ![c] = set]
    <3>1. cache \in [1..SetCount -> [ways : Seq(Way), hand : Nat]]
      BY DEF CacheHolds
    <3>2. TouchKey(cache, k) = [cache EXCEPT ![c].ways = v]
      BY <1>2 DEF TouchKey
    <3>3. QED
      BY <2>1, <3>1, <3>2
  <2> HIDE DEF c, w
  <2>4. /\ w \in Seq(Way) /\ DOMAIN w = 1..Len(w) /\ Len(w) \in Nat
        /\ \A i \in 1..Len(w) : w[i] \in Way
    BY <2>2 DEF WaysExact
  <2>5. ASSUME NEW i \in 1..Len(w) PROVE v[i] \in Way /\ v[i].key = w[i].key
    <3>1. w[i] \in Way
      BY <2>4
    <3>2. [w[i] EXCEPT !.ref = TRUE] \in Way /\ [w[i] EXCEPT !.ref = TRUE].key = w[i].key
      BY <3>1 DEF Way
    <3>3. QED
      BY <2>4, <3>1, <3>2
  <2>6. v \in Seq(Way) /\ Len(v) = Len(w)
    <3>1. v \in [1..Len(w) -> Way]
      BY <2>4, <2>5
    <3> HIDE DEF v
    <3>2. QED
      BY <2>4, <3>1
  <2> HIDE DEF v
  <2>7. WaysExact(v, M)
    BY <2>2, <2>5, <2>6 DEF WaysExact
  <2>8. set \in [ways : Seq(Way), hand : Nat] /\ set.ways = v
    BY <2>2, <2>6
  <2> HIDE DEF set
  <2>9. WaysExact(set.ways, M)
    BY <2>7, <2>8
  <2>10. CacheHolds([cache EXCEPT ![c] = set], M)
    BY <2>1, <2>8, <2>9, CacheSetReplaced
  <2>11. QED
    BY <2>3, <2>10
<1>3. QED
  BY <1>1, <1>2

\* A key that is not cached takes a free way or the place of one other key.
LEMMA RememberAbsentKeeps ==
  ASSUME NEW cache, NEW M, CacheHolds(cache, M), NEW k \in Nat, k \in M, ~Cached(cache, k)
  PROVE  CacheHolds(RememberAbsent(cache, k), M)
<1> DEFINE c == SetIndex(k)
           set == cache[c]
           w == set.ways
           way == [key |-> k, ref |-> TRUE]
           place(d) == 1 + ((set.hand + d) % Associativity)
           cold == {d \in 0..(Associativity - 1) : ~set.ways[place(d)].ref}
           dist == LeastOr(cold, Associativity)
           swept == [i \in 1..Associativity |->
                       IF i = place(dist) THEN way
                       ELSE IF \E d \in 0..(dist - 1) : place(d) = i
                            THEN [w[i] EXCEPT !.ref = FALSE]
                            ELSE w[i]]
           appended == [set EXCEPT !.ways = Append(@, way)]
           replaced == [ways |-> swept, hand |-> (set.hand + dist + 1) % Associativity]
<1>1. c \in 1..SetCount
  BY SetIndexType
<1>2. cache[c] \in [ways : Seq(Way), hand : Nat] /\ WaysExact(cache[c].ways, M)
  BY <1>1 DEF CacheHolds
<1>3. Associativity \in Nat /\ Associativity > 0
  BY SpillAssumption
<1>4. RememberAbsent(cache, k) =
        [cache EXCEPT ![c] = IF Len(w) < Associativity THEN appended ELSE replaced]
  BY DEF RememberAbsent
<1>5. way \in Way /\ way.key = k
  BY DEF Way
<1>6. set \in [ways : Seq(Way), hand : Nat] /\ WaysExact(w, M) /\ set.hand \in Nat
  BY <1>2
<1>7. cache # <<>>
  <2>1. DOMAIN cache = 1..SetCount /\ 1 \in 1..SetCount
    BY SpillAssumption DEF CacheHolds
  <2>2. DOMAIN <<>> = {}
    OBVIOUS
  <2>3. QED
    BY <2>1, <2>2
<1>8. \A i \in DOMAIN w : w[i].key # k
  BY <1>7 DEF Cached
<1>9. dist \in Nat
  <2>1. cold \in SUBSET Nat
    BY <1>3
  <2> HIDE DEF cold
  <2>2. QED
    BY <1>3, <2>1, LeastOrFacts
<1> HIDE DEF c, set, way, dist, cold
<1>10. /\ w \in Seq(Way) /\ DOMAIN w = 1..Len(w) /\ Len(w) \in Nat /\ Len(w) <= Associativity
       /\ \A i \in 1..Len(w) : w[i] \in Way /\ w[i].key \in M /\ w[i].key # k
       /\ \A i, j \in 1..Len(w) : w[i].key = w[j].key => i = j
  BY <1>6, <1>8 DEF WaysExact
<1>11. CASE Len(w) < Associativity
  <2> DEFINE v == Append(w, way)
  <2>1. appended \in [ways : Seq(Way), hand : Nat] /\ appended.ways = v
    <3>1. v \in Seq(Way)
      BY <1>5, <1>10
    <3>2. appended = [set EXCEPT !.ways = v]
      OBVIOUS
    <3> HIDE DEF v, appended
    <3>3. QED
      BY <1>6, <3>1, <3>2
  <2>2. /\ v \in Seq(Way) /\ Len(v) = Len(w) + 1
        /\ \A i \in 1..Len(w) : v[i] = w[i]
        /\ v[Len(w) + 1] = way
    BY <1>5, <1>10, AppendProperties
  <2> HIDE DEF v, w
  <2>3. \A i \in 1..(Len(w) + 1) : i \in 1..Len(w) \/ i = Len(w) + 1
    BY <1>10
  <2>4. \A i \in 1..Len(v) : v[i].key \in M
    BY <1>5, <1>10, <2>2, <2>3
  <2>5. ASSUME NEW i \in 1..Len(v), NEW j \in 1..Len(v), v[i].key = v[j].key PROVE i = j
    <3>1. i \in 1..Len(w) \/ i = Len(w) + 1
      BY <2>2, <2>3
    <3>2. j \in 1..Len(w) \/ j = Len(w) + 1
      BY <2>2, <2>3
    <3>3. QED
      BY <1>5, <1>10, <2>2, <2>5, <3>1, <3>2
  <2>6. WaysExact(v, M)
    BY <1>3, <1>10, <1>11, <2>2, <2>4, <2>5 DEF WaysExact
  <2>7. RememberAbsent(cache, k) = [cache EXCEPT ![c] = appended]
    BY <1>4, <1>11
  <2> HIDE DEF appended
  <2>8. WaysExact(appended.ways, M)
    BY <2>1, <2>6
  <2>9. CacheHolds([cache EXCEPT ![c] = appended], M)
    BY <1>1, <2>1, <2>8, CacheSetReplaced
  <2>10. QED
    BY <2>7, <2>9
<1>12. CASE ~(Len(w) < Associativity)
  <2>1. Len(w) = Associativity
    BY <1>3, <1>10, <1>12
  <2> HIDE DEF w, place
  <2>2. ASSUME NEW i \in 1..Associativity
        PROVE  swept[i] \in Way /\ swept[i].key = IF i = place(dist) THEN k ELSE w[i].key
    <3>1. w[i] \in Way
      BY <1>10, <2>1
    <3>2. [w[i] EXCEPT !.ref = FALSE] \in Way /\ [w[i] EXCEPT !.ref = FALSE].key = w[i].key
      BY <3>1 DEF Way
    <3>3. QED
      BY <1>5, <3>1, <3>2
  <2>3. swept \in Seq(Way) /\ Len(swept) = Associativity
    <3>1. swept \in [1..Associativity -> Way]
      BY <2>2
    <3> HIDE DEF swept
    <3>2. QED
      BY <1>3, <3>1
  <2>4. (set.hand + dist + 1) % Associativity \in Nat
    BY <1>3, <1>6, <1>9
  <2>5. replaced \in [ways : Seq(Way), hand : Nat] /\ replaced.ways = swept
    BY <2>3, <2>4
  <2> HIDE DEF swept
  <2>6. WaysExact(swept, M)
    <3>1. \A i \in 1..Len(swept) : swept[i].key \in M
      BY <1>10, <2>1, <2>2, <2>3
    <3>2. ASSUME NEW i \in 1..Len(swept), NEW j \in 1..Len(swept), swept[i].key = swept[j].key
          PROVE  i = j
      BY <1>10, <2>1, <2>2, <2>3, <3>2
    <3>3. QED
      BY <1>3, <2>3, <3>1, <3>2 DEF WaysExact
  <2>7. RememberAbsent(cache, k) = [cache EXCEPT ![c] = replaced]
    BY <1>4, <1>12
  <2> HIDE DEF replaced
  <2>8. WaysExact(replaced.ways, M)
    BY <2>5, <2>6
  <2>9. CacheHolds([cache EXCEPT ![c] = replaced], M)
    BY <1>1, <2>5, <2>8, CacheSetReplaced
  <2>10. QED
    BY <2>7, <2>9
<1>13. QED
  BY <1>11, <1>12

\* remember refreshes a key or takes it in.
LEMMA RememberKeeps ==
  ASSUME NEW cache, NEW M, CacheHolds(cache, M), NEW k \in Nat, k \in M
  PROVE  CacheHolds(Remember(cache, k), M)
BY TouchKeyKeeps, RememberAbsentKeeps DEF Remember

\* a[i] is the cache after the first i keys.
IsRemembering(a, cache, keys, n) ==
  a = [i \in 0..n |-> IF i = 0 THEN cache ELSE Remember(a[i-1], keys[i])]

\* The recursion of remember_all defines a function.
LEMMA RememberingExists ==
  ASSUME NEW cache, NEW keys, NEW n \in Nat
  PROVE  \E a : IsRemembering(a, cache, keys, n)
<1> DEFINE Bad == {j \in Nat : ~ \E a : IsRemembering(a, cache, keys, j)}
<1> SUFFICES ASSUME Bad # {} PROVE FALSE
  OBVIOUS
<1>1. PICK j \in Bad : \A y \in Bad : j <= y
  BY Least
<1>2. CASE j = 0
  <2> DEFINE a == [i \in 0..0 |-> cache]
  <2>1. IsRemembering(a, cache, keys, 0)
    BY DEF IsRemembering
  <2>2. QED
    BY <1>1, <1>2, <2>1
<1>3. CASE j # 0
  <2>1. j \in Nat /\ j - 1 \in Nat /\ j - 1 \notin Bad
    BY <1>1, <1>3
  <2>2. PICK a : IsRemembering(a, cache, keys, j - 1)
    BY <2>1
  <2> DEFINE g == [i \in 0..j |-> IF i = j THEN Remember(a[j-1], keys[j]) ELSE a[i]]
  <2>3. a = [i \in 0..(j - 1) |-> IF i = 0 THEN cache ELSE Remember(a[i-1], keys[i])]
    BY <2>2 DEF IsRemembering
  <2>4. ASSUME NEW i \in 0..j PROVE g[i] = IF i = 0 THEN cache ELSE Remember(g[i-1], keys[i])
    <3>1. CASE i = 0
      BY <1>3, <2>1, <2>3, <3>1
    <3>2. CASE i # 0 /\ i # j
      <4>1. i \in 0..(j - 1) /\ i - 1 \in 0..(j - 1) /\ i - 1 # j /\ i - 1 \in 0..j
        BY <2>1, <3>2
      <4>2. a[i] = Remember(a[i-1], keys[i]) /\ g[i] = a[i] /\ g[i-1] = a[i-1]
        BY <2>3, <3>2, <4>1
      <4>3. QED
        BY <3>2, <4>2
    <3>3. CASE i = j
      <4>1. i - 1 \in 0..j /\ i - 1 # j /\ i # 0
        BY <1>3, <2>1, <3>3
      <4>2. g[i-1] = a[i-1] /\ g[i] = Remember(a[i-1], keys[i])
        BY <3>3, <4>1
      <4>3. QED
        BY <4>1, <4>2
    <3>4. QED
      BY <3>1, <3>2, <3>3
  <2>5. g = [i \in 0..j |-> g[i]]
    OBVIOUS
  <2> HIDE DEF g
  <2>6. IsRemembering(g, cache, keys, j)
    BY <2>4, <2>5 DEF IsRemembering
  <2>7. QED
    BY <1>1, <2>6
<1>4. QED
  BY <1>2, <1>3

\* A flush may remember any keys that stay in the set.
LEMMA RememberAllKeeps ==
  ASSUME NEW cache, NEW M \in SUBSET Nat, CacheHolds(cache, M), NEW keys \in Seq(M)
  PROVE  CacheHolds(RememberAll(cache, keys), M)
<1> DEFINE n == Len(keys)
           A(a) == a = [i \in 0..n |-> IF i = 0 THEN cache ELSE Remember(a[i-1], keys[i])]
           a == CHOOSE f : A(f)
<1>1. n \in Nat /\ \A i \in 1..n : keys[i] \in M
  OBVIOUS
<1>2. A(a)
  <2>1. PICK f : IsRemembering(f, cache, keys, n)
    BY <1>1, RememberingExists
  <2>2. A(f)
    BY <2>1 DEF IsRemembering
  <2> HIDE DEF A
  <2>3. QED
    BY <2>2
<1>3. RememberAll(cache, keys) = a[n]
  BY DEF RememberAll
<1> HIDE DEF a, n
<1>4. ASSUME NEW i \in 0..n PROVE a[i] = IF i = 0 THEN cache ELSE Remember(a[i-1], keys[i])
  BY <1>2
<1> DEFINE Bad == {i \in 0..n : ~CacheHolds(a[i], M)}
<1>5. ASSUME Bad # {} PROVE FALSE
  <2>1. Bad \in SUBSET Nat
    BY <1>1
  <2>2. PICK i \in Bad : \A y \in Bad : i <= y
    BY <1>5, <2>1, Least
  <2>3. i \in 0..n /\ i \in Nat /\ ~CacheHolds(a[i], M)
    BY <1>1, <2>2
  <2>4. CASE i = 0
    BY <1>4, <2>3, <2>4
  <2>5. CASE i # 0
    <3>1. i - 1 \in 0..n /\ ~(i <= i - 1) /\ i \in 1..n
      BY <1>1, <2>3, <2>5
    <3>2. CacheHolds(a[i-1], M)
      BY <2>2, <3>1
    <3>3. keys[i] \in M /\ keys[i] \in Nat
      BY <1>1, <3>1
    <3>4. CacheHolds(Remember(a[i-1], keys[i]), M)
      BY <3>2, <3>3, RememberKeeps
    <3>5. QED
      BY <1>4, <2>3, <2>5, <3>4
  <2>6. QED
    BY <2>4, <2>5
<1>6. n \in 0..n
  BY <1>1
<1>7. QED
  BY <1>3, <1>5, <1>6

-----------------------------------------------------------------------------
(* SpillSet. *)

\* The keys of a set.
Members(s) == s.resident \cup Spilled(s.levels)

SpillSetType ==
  [resident : SUBSET Nat, recent : {<<>>} \cup [1..SetCount -> [ways : Seq(Way), hand : Nat]],
   byPrefix : SUBSET Nat, track : BOOLEAN, levels : Seq(Seq(Nat)), filter : SUBSET Int, len : Nat]

\* The cache of a set: allocated with the first level, and of members only.
RecentExact(s, recent) ==
  IF s.levels = <<>> THEN recent = <<>> ELSE CacheHolds(recent, Members(s))

\* A set whose resident table may still have to be flushed.
StoresOnce(s) ==
  /\ s \in SpillSetType
  /\ IsFiniteSet(s.resident)
  /\ LevelsExact(s.levels)
  /\ s.resident \cap Spilled(s.levels) = {}
  /\ s.len = Cardinality(Members(s))
  /\ \A k \in Spilled(s.levels) : MayContain(s.filter, k)
  /\ s.track => s.byPrefix = s.resident
  /\ RecentExact(s, s.recent)

\* The invariant of a SpillSet between two operations.
SpillSetInv(s) == StoresOnce(s) /\ Cardinality(s.resident) < MaxResident

\* The keys on the levels are finitely many naturals.
LEMMA SpilledFinite ==
  ASSUME NEW levels, LevelsExact(levels)
  PROVE  IsFiniteSet(Spilled(levels)) /\ Spilled(levels) \in SUBSET Nat
<1> DEFINE n == Len(levels)
           f == [i \in 1..n |-> ToSet(levels[i])]
           T == {f[i] : i \in 1..n}
<1>1. n \in Nat /\ \A i \in 1..n : levels[i] \in Seq(Nat)
  BY DEF LevelsExact
<1>2. ASSUME NEW i \in 1..n PROVE IsFiniteSet(ToSet(levels[i])) /\ ToSet(levels[i]) \in SUBSET Nat
  <2>1. CASE levels[i] = <<>>
    <3>1. ToSet(levels[i]) = {}
      BY <2>1 DEF ToSet
    <3>2. QED
      BY <3>1, FS_EmptySet
  <2>2. CASE levels[i] # <<>>
    <3>1. Ascending(levels[i])
      BY <2>2 DEF LevelsExact
    <3>2. QED
      BY <3>1, AscendingCount
  <2>3. QED
    BY <2>1, <2>2
<1>3. IsFiniteSet(T)
  <2>1. IsFiniteSet(1..n)
    BY <1>1, FS_Interval
  <2>2. f \in Surjection(1..n, T)
    BY Fun_IsSurj
  <2>3. QED
    BY <2>1, <2>2, FS_Surjection
<1>4. \A U \in T : IsFiniteSet(U)
  BY <1>2
<1>5. IsFiniteSet(UNION T)
  <2> HIDE DEF T
  <2> QED BY <1>3, <1>4, FS_UNION
<1>6. Spilled(levels) = UNION T
  BY DEF Spilled
<1>7. Spilled(levels) \in SUBSET Nat
  BY <1>2 DEF Spilled
<1>8. QED
  BY <1>5, <1>6, <1>7

\* The runs of a set hold its spilled keys.
LEMMA RunsHoldSpilled ==
  ASSUME NEW s, LevelsExact(s.levels)
  PROVE  UNION {ToSet(run) : run \in RunsOf(s)} = Spilled(s.levels)
<1>1. DOMAIN s.levels = 1..Len(s.levels)
  BY DEF LevelsExact
<1>2. ToSet(<<>>) = {}
  BY DEF ToSet
<1>3. ASSUME NEW x \in Spilled(s.levels) PROVE x \in UNION {ToSet(run) : run \in RunsOf(s)}
  <2>1. PICK i \in 1..Len(s.levels) : x \in ToSet(s.levels[i])
    BY DEF Spilled
  <2>2. s.levels[i] # <<>>
    BY <1>2, <2>1
  <2>3. s.levels[i] \in RunsOf(s)
    BY <1>1, <2>2 DEF RunsOf
  <2>4. QED
    BY <2>1, <2>3
<1>4. ASSUME NEW x, NEW run \in RunsOf(s), x \in ToSet(run) PROVE x \in Spilled(s.levels)
  <2>1. PICK i \in 1..Len(s.levels) : run = s.levels[i]
    BY <1>1 DEF RunsOf
  <2>2. QED
    BY <1>4, <2>1 DEF Spilled
<1>5. QED
  BY <1>3, <1>4

\* A lookup behind the filter and the checkpoints finds exactly the spilled keys.
LEMMA RunsAnswer ==
  ASSUME NEW s, StoresOnce(s), NEW k \in Nat
  PROVE  ContainsInRuns(s, k) <=> k \in Spilled(s.levels)
<1>1. LevelsExact(s.levels) /\ \A x \in Spilled(s.levels) : MayContain(s.filter, x)
  BY DEF StoresOnce
<1>2. DOMAIN s.levels = 1..Len(s.levels) /\ s.levels \in Seq(Seq(Nat))
  BY <1>1 DEF LevelsExact
<1>3. ASSUME NEW run \in RunsOf(s) PROVE Locate(run, k).found <=> k \in ToSet(run)
  <2>1. PICK i \in 1..Len(s.levels) : run = s.levels[i] /\ run # <<>>
    BY <1>2 DEF RunsOf
  <2>2. Ascending(run)
    BY <1>1, <2>1 DEF LevelsExact
  <2>3. Locate(run, k) = [index |-> Below(run, k), found |-> k \in ToSet(run)]
    BY <2>2, LocateFacts
  <2>4. Locate(run, k).found = (k \in ToSet(run))
    BY <2>3
  <2>5. QED
    BY <2>4, Zenon
<1>4. k \in Spilled(s.levels) <=> \E run \in RunsOf(s) : k \in ToSet(run)
  <2>1. UNION {ToSet(run) : run \in RunsOf(s)} = Spilled(s.levels)
    BY <1>1, RunsHoldSpilled
  <2>2. QED
    BY <2>1
<1>5. k \in Spilled(s.levels) => s.levels # <<>>
  <2> SUFFICES ASSUME s.levels = <<>> PROVE Spilled(s.levels) = {}
    OBVIOUS
  <2>1. Len(s.levels) = 0
    BY <1>2
  <2>2. QED
    BY <2>1 DEF Spilled
<1>6. QED
  BY <1>1, <1>3, <1>4, <1>5 DEF ContainsInRuns

\* What the invariant says of a set's parts.
LEMMA StoresOnceFacts ==
  ASSUME NEW s, StoresOnce(s)
  PROVE  /\ IsFiniteSet(s.resident) /\ s.resident \in SUBSET Nat /\ Cardinality(s.resident) \in Nat
         /\ IsFiniteSet(Spilled(s.levels)) /\ Spilled(s.levels) \in SUBSET Nat
         /\ IsFiniteSet(Members(s)) /\ Members(s) \in SUBSET Nat /\ Cardinality(Members(s)) \in Nat
         /\ DOMAIN s.levels = 1..Len(s.levels) /\ Len(s.levels) \in Nat
<1>1. IsFiniteSet(s.resident) /\ s.resident \in SUBSET Nat /\ LevelsExact(s.levels)
  BY DEF StoresOnce, SpillSetType
<1>2. IsFiniteSet(Spilled(s.levels)) /\ Spilled(s.levels) \in SUBSET Nat
  BY <1>1, SpilledFinite
<1>3. IsFiniteSet(Members(s)) /\ Members(s) \in SUBSET Nat
  BY <1>1, <1>2, FS_Union DEF Members
<1>4. DOMAIN s.levels = 1..Len(s.levels) /\ Len(s.levels) \in Nat
  BY <1>1 DEF LevelsExact
<1>5. QED
  BY <1>1, <1>2, <1>3, <1>4, FS_CardinalityType

\* No level, no spilled key.
LEMMA NothingSpilled ==
  ASSUME NEW levels, levels = <<>>
  PROVE  Spilled(levels) = {}
<1>1. Len(levels) = 0
  BY EmptySeq
<1>2. QED
  BY <1>1 DEF Spilled

\* What is cached is in the set.
LEMMA CachedIsMember ==
  ASSUME NEW s, StoresOnce(s), NEW k \in Nat, Cached(s.recent, k)
  PROVE  k \in Members(s) /\ s.levels # <<>>
<1>1. s.recent # <<>> /\ RecentExact(s, s.recent)
  BY DEF Cached, StoresOnce
<1>2. s.levels # <<>> /\ CacheHolds(s.recent, Members(s))
  BY <1>1 DEF RecentExact
<1> DEFINE w == s.recent[SetIndex(k)].ways
<1>3. WaysExact(w, Members(s))
  BY <1>2, SetIndexType DEF CacheHolds
<1>4. PICK i \in DOMAIN w : w[i].key = k
  BY DEF Cached
<1> HIDE DEF w
<1>5. i \in 1..Len(w)
  BY <1>3, <1>4 DEF WaysExact
<1>6. QED
  BY <1>2, <1>3, <1>4, <1>5 DEF WaysExact

\* The invariant is what the users of the sets rely on: every member is stored
\* once, a run has the size of its level and is found key by key through its
\* checkpoints, the filter misses nothing, and the cache holds members, none twice.
THEOREM SpillSetExact ==
  ASSUME NEW s, SpillSetInv(s)
  PROVE  SetIsExact(s) /\ CacheIsExact(s)
<1>1. StoresOnce(s)
  BY DEF SpillSetInv
<1>2. /\ LevelsExact(s.levels) /\ s.resident \cap Spilled(s.levels) = {}
      /\ s.len = Cardinality(Members(s)) /\ RecentExact(s, s.recent)
      /\ \A k \in Spilled(s.levels) : MayContain(s.filter, k)
      /\ s.track => s.byPrefix = s.resident
  BY <1>1 DEF StoresOnce
<1>3. UNION {ToSet(run) : run \in RunsOf(s)} = Spilled(s.levels)
  BY <1>2, RunsHoldSpilled
<1>4. DOMAIN s.levels = 1..Len(s.levels)
  BY <1>1, StoresOnceFacts
<1>5. ASSUME NEW i \in 1..Len(s.levels), s.levels[i] # <<>>
      PROVE  /\ Len(s.levels[i]) = MaxResident * 2^(i - 1)
             /\ \A j \in DOMAIN s.levels[i] :
                  Locate(s.levels[i], s.levels[i][j]) = [index |-> j - 1, found |-> TRUE]
  <2> DEFINE run == s.levels[i]
  <2>1. Ascending(run) /\ Len(run) = MaxResident * 2^(i - 1)
    BY <1>2, <1>5 DEF LevelsExact
  <2> HIDE DEF run
  <2>2. ASSUME NEW j \in DOMAIN run PROVE Locate(run, run[j]) = [index |-> j - 1, found |-> TRUE]
    <3>1. j \in 1..Len(run) /\ run[j] \in Nat
      BY <2>1, AscendingFacts
    <3>2. Locate(run, run[j]) = [index |-> Below(run, run[j]), found |-> run[j] \in ToSet(run)]
      BY <2>1, <3>1, LocateFacts
    <3>3. Below(run, run[j]) = j - 1
      BY <2>1, <3>1, MemberAt
    <3>4. run[j] \in ToSet(run)
      BY DEF ToSet
    <3>5. (run[j] \in ToSet(run)) = TRUE
      BY <3>4, Zenon
    <3>6. QED
      BY <3>2, <3>3, <3>5, Zenon
  <2>3. QED
    BY <2>1, <2>2 DEF run
<1>6. \A i, j \in 1..Len(s.levels) : i # j => ToSet(s.levels[i]) \cap ToSet(s.levels[j]) = {}
  BY <1>2 DEF LevelsExact
<1>7. SetIsExact(s)
  BY <1>2, <1>3, <1>4, <1>5, <1>6 DEF SetIsExact, Members
<1>8. CacheIsExact(s)
  <2>1. CASE s.levels = <<>>
    <3>1. s.recent = <<>>
      BY <1>2, <2>1 DEF RecentExact
    <3>2. DOMAIN s.recent = {}
      BY <3>1
    <3>3. QED
      BY <2>1, <3>1, <3>2 DEF CacheIsExact
  <2>2. CASE s.levels # <<>>
    <3>1. CacheHolds(s.recent, Members(s))
      BY <1>2, <2>2 DEF RecentExact
    <3>2. DOMAIN s.recent = 1..SetCount /\ 1 \in 1..SetCount
      BY <3>1, SpillAssumption DEF CacheHolds
    <3>3. s.recent # <<>>
      <4>1. DOMAIN <<>> = {}
        OBVIOUS
      <4>2. QED
        BY <3>2, <4>1
    <3>4. ASSUME NEW c \in DOMAIN s.recent
          PROVE  LET ways == s.recent[c].ways
                 IN  /\ Len(ways) <= Associativity
                     /\ \A i \in DOMAIN ways : ways[i].key \in Members(s)
                     /\ \A i, j \in DOMAIN ways : ways[i].key = ways[j].key => i = j
      <4> DEFINE w == s.recent[c].ways
      <4>1. WaysExact(w, Members(s))
        BY <3>1, <3>2 DEF CacheHolds
      <4> HIDE DEF w
      <4>2. DOMAIN w = 1..Len(w)
        BY <4>1 DEF WaysExact
      <4>3. /\ Len(w) <= Associativity
            /\ \A i \in DOMAIN w : w[i].key \in Members(s)
            /\ \A i, j \in DOMAIN w : w[i].key = w[j].key => i = j
        BY <4>1, <4>2 DEF WaysExact
      <4>4. QED
        BY <4>3 DEF w
    <3>5. QED
      BY <1>3, <2>2, <3>3, <3>4 DEF CacheIsExact, Members
  <2>3. QED
    BY <2>1, <2>2
<1>9. QED
  BY <1>7, <1>8

\* A new set is exact and empty.
THEOREM SpillSetEmpty ==
  ASSUME NEW track \in BOOLEAN
  PROVE  SpillSetInv(EmptySpillSet(track)) /\ Members(EmptySpillSet(track)) = {}
<1> DEFINE s == EmptySpillSet(track)
<1>1. /\ s.resident = {} /\ s.recent = <<>> /\ s.byPrefix = {} /\ s.levels = <<>>
      /\ s.filter = {} /\ s.len = 0 /\ s.track = track
  BY DEF EmptySpillSet
<1>2. s \in SpillSetType
  <2>1. <<>> \in Seq(Seq(Nat))
    BY EmptySeq
  <2>2. QED
    BY <2>1 DEF EmptySpillSet, SpillSetType
<1>3. Spilled(s.levels) = {}
  BY <1>1, NothingSpilled
<1>4. LevelsExact(s.levels)
  <2>1. s.levels \in Seq(Seq(Nat)) /\ Len(s.levels) = 0
    BY <1>1, EmptySeq
  <2>2. QED
    BY <2>1 DEF LevelsExact
<1>5. Members(s) = {}
  BY <1>1, <1>3 DEF Members
<1>6. IsFiniteSet(s.resident) /\ Cardinality(s.resident) = 0 /\ Cardinality(Members(s)) = 0
  BY <1>1, <1>5, FS_EmptySet
<1> HIDE DEF s
<1>7. StoresOnce(s)
  BY <1>1, <1>2, <1>3, <1>4, <1>6 DEF StoresOnce, RecentExact
<1>8. QED
  BY <1>5, <1>6, <1>7, SpillAssumption DEF SpillSetInv, s

\* A step that only replaces the cache by one of members keeps the set.
LEMMA RecentReplaced ==
  ASSUME NEW s, StoresOnce(s), s.levels # <<>>, NEW cache, CacheHolds(cache, Members(s)),
         NEW t, t = [s EXCEPT !.recent = cache]
  PROVE  /\ StoresOnce(t) /\ Members(t) = Members(s)
         /\ t.resident = s.resident /\ t.levels = s.levels
<1>1. s \in SpillSetType
  BY DEF StoresOnce
<1>2. cache \in [1..SetCount -> [ways : Seq(Way), hand : Nat]]
  BY DEF CacheHolds
<1>3. /\ t.resident = s.resident /\ t.levels = s.levels /\ t.byPrefix = s.byPrefix
      /\ t.track = s.track /\ t.filter = s.filter /\ t.len = s.len /\ t.recent = cache
  BY <1>1 DEF SpillSetType
<1>4. t \in SpillSetType
  BY <1>1, <1>2 DEF SpillSetType
<1>5. Members(t) = Members(s)
  BY <1>3 DEF Members
<1>6. RecentExact(t, t.recent)
  BY <1>3, <1>5 DEF RecentExact
<1>7. QED
  BY <1>3, <1>4, <1>5, <1>6 DEF StoresOnce

\* The filter holds the bits of a key as integers.
LEMMA BloomBitsType ==
  ASSUME NEW k \in Nat
  PROVE  BloomBitsOf(k) \in SUBSET Int
<1> DEFINE a == mix64(k)
           b == 2 * mix64(k + 3) + 1
<1>1. a \in Nat /\ b \in Nat
  <2>1. k \div 5 \in Nat /\ (k + 3) \div 5 \in Nat
    OBVIOUS
  <2>2. QED
    BY <2>1 DEF mix64
<1>2. BloomBits \in Nat /\ BloomBits > 0 /\ BloomHashCount \in Nat
  BY SpillAssumption
<1>3. BloomBitsOf(k) = {(a + round * b) % BloomBits : round \in 0..(BloomHashCount - 1)}
  BY DEF BloomBitsOf
<1> HIDE DEF a, b
<1>4. ASSUME NEW round \in 0..(BloomHashCount - 1) PROVE (a + round * b) % BloomBits \in Int
  <2>1. round * b \in Nat
    BY <1>1, <1>2
  <2>2. QED
    BY <1>1, <1>2, <2>1
<1>5. QED
  BY <1>3, <1>4

\* A flush moves the resident keys into a run and forgets nothing.
LEMMA FlushFacts ==
  ASSUME NEW s, StoresOnce(s), Cardinality(s.resident) = MaxResident
  PROVE  /\ SpillSetInv(Flush(s)) /\ Members(Flush(s)) = Members(s)
         /\ Spilled(s.levels) \subseteq Spilled(Flush(s).levels)
<1> DEFINE keys == Sorted(s.resident)
           old == IF s.recent = <<>> THEN EmptyCache ELSE s.recent
           recent == RememberAll(old, keys)
           filter == s.filter \cup UNION {BloomBitsOf(k) : k \in s.resident}
           levels == PushRun(s.levels, keys)
           t == Flush(s)
<1>1. /\ s \in SpillSetType /\ LevelsExact(s.levels) /\ s.resident \cap Spilled(s.levels) = {}
      /\ s.len = Cardinality(Members(s)) /\ RecentExact(s, s.recent)
      /\ \A k \in Spilled(s.levels) : MayContain(s.filter, k)
  BY DEF StoresOnce
<1>2. /\ IsFiniteSet(s.resident) /\ s.resident \in SUBSET Nat
      /\ Members(s) \in SUBSET Nat /\ s.filter \in SUBSET Int
  BY <1>1, StoresOnceFacts DEF SpillSetType
<1>3. Ascending(keys) /\ ToSet(keys) = s.resident /\ Len(keys) = MaxResident
  BY <1>2, SortedFacts
<1>4. /\ t.resident = {} /\ t.recent = recent /\ t.byPrefix = {} /\ t.track = s.track
      /\ t.levels = levels /\ t.filter = filter /\ t.len = s.len
  BY <1>1 DEF Flush, SpillSetType
<1>5. t = [s EXCEPT !.resident = {}, !.recent = recent, !.filter = filter,
                    !.byPrefix = {}, !.levels = levels]
  BY DEF Flush
<1> HIDE DEF keys, t
<1>6. LevelsExact(levels) /\ Spilled(levels) = Spilled(s.levels) \cup s.resident /\ levels # <<>>
  <2>1. ToSet(keys) \cap Spilled(s.levels) = {}
    BY <1>1, <1>3
  <2>2. QED
    BY <1>1, <1>3, <2>1, PushRunFacts
<1> HIDE DEF levels
<1>7. CacheHolds(old, Members(s))
  <2>1. CASE s.levels = <<>>
    <3>1. s.recent = <<>>
      BY <1>1, <2>1 DEF RecentExact
    <3>2. QED
      BY <3>1, EmptyCacheHolds
  <2>2. CASE s.levels # <<>>
    <3>1. CacheHolds(s.recent, Members(s))
      BY <1>1, <2>2 DEF RecentExact
    <3>2. QED
      BY <3>1, EmptyCacheHolds
  <2>3. QED
    BY <2>1, <2>2
<1> HIDE DEF old
<1>8. CacheHolds(recent, Members(s))
  <2>1. keys \in Seq(Members(s))
    <3>1. \A i \in 1..Len(keys) : keys[i] \in Members(s)
      BY <1>3, AscendingFacts DEF ToSet, Members
    <3>2. keys \in Seq(Nat)
      BY <1>3, AscendingFacts
    <3>3. QED
      BY <3>1, <3>2
  <2>2. QED
    BY <1>2, <1>7, <2>1, RememberAllKeeps
<1> HIDE DEF recent
<1>9. Members(t) = Members(s)
  BY <1>4, <1>6 DEF Members
<1>10. filter \in SUBSET Int
  BY <1>2, BloomBitsType
<1>11. t \in SpillSetType
  <2>1. recent \in [1..SetCount -> [ways : Seq(Way), hand : Nat]]
    BY <1>8 DEF CacheHolds
  <2>2. levels \in Seq(Seq(Nat))
    BY <1>6 DEF LevelsExact
  <2> HIDE DEF filter
  <2>3. QED
    BY <1>1, <1>5, <1>10, <2>1, <2>2 DEF SpillSetType
<1>12. ASSUME NEW k \in Spilled(levels) PROVE MayContain(filter, k)
  <2>1. CASE k \in Spilled(s.levels)
    BY <1>1, <2>1 DEF MayContain
  <2>2. CASE k \in s.resident
    BY <2>2 DEF MayContain
  <2>3. QED
    BY <1>6, <2>1, <2>2
<1>13. RecentExact(t, t.recent)
  BY <1>4, <1>6, <1>8, <1>9 DEF RecentExact
<1> HIDE DEF filter
<1>14. StoresOnce(t)
  <2>1. IsFiniteSet(t.resident) /\ t.resident \cap Spilled(t.levels) = {}
    BY <1>4, FS_EmptySet
  <2>2. QED
    BY <1>1, <1>4, <1>6, <1>9, <1>11, <1>12, <1>13, <2>1 DEF StoresOnce
<1>15. Cardinality(t.resident) < MaxResident
  BY <1>4, FS_EmptySet, SpillAssumption
<1>16. QED
  BY <1>4, <1>6, <1>9, <1>14, <1>15 DEF SpillSetInv, t

\* insert tells a new key from a known one, adds it, loses nothing, and leaves
\* room in the resident table, whether the answer came from the table, the
\* cache or the runs and whether the table had to be flushed.
THEOREM SpillSetInsert ==
  ASSUME NEW s, SpillSetInv(s), NEW k \in Nat
  PROVE  /\ SpillSetInv(Insert(s, k).set)
         /\ Members(Insert(s, k).set) = Members(s) \cup {k}
         /\ Insert(s, k).new <=> k \notin Members(s)
         /\ Spilled(s.levels) \subseteq Spilled(Insert(s, k).set.levels)
<1>1. StoresOnce(s) /\ Cardinality(s.resident) < MaxResident
  BY DEF SpillSetInv
<1>2. ContainsInRuns(s, k) <=> k \in Spilled(s.levels)
  BY <1>1, RunsAnswer
<1>3. /\ s \in SpillSetType /\ LevelsExact(s.levels) /\ RecentExact(s, s.recent)
      /\ s.resident \cap Spilled(s.levels) = {} /\ s.len = Cardinality(Members(s))
      /\ \A x \in Spilled(s.levels) : MayContain(s.filter, x)
      /\ s.track => s.byPrefix = s.resident
  BY <1>1 DEF StoresOnce
<1>4. CASE k \in s.resident
  <2>1. Insert(s, k) = [new |-> FALSE, set |-> s]
    BY <1>4 DEF Insert
  <2>2. k \in Members(s)
    BY <1>4 DEF Members
  <2>3. Insert(s, k).set = s /\ ~Insert(s, k).new
    BY <2>1
  <2>4. QED
    BY <2>2, <2>3
<1>5. CASE k \notin s.resident /\ Cached(s.recent, k)
  <2> DEFINE t == [s EXCEPT !.recent = TouchKey(s.recent, k)]
  <2>1. Insert(s, k) = [new |-> FALSE, set |-> t]
    BY <1>5 DEF Insert
  <2>2. k \in Members(s) /\ s.levels # <<>>
    BY <1>1, <1>5, CachedIsMember
  <2>3. CacheHolds(TouchKey(s.recent, k), Members(s))
    BY <1>3, <2>2, TouchKeyKeeps DEF RecentExact
  <2>4. StoresOnce(t) /\ Members(t) = Members(s) /\ t.resident = s.resident /\ t.levels = s.levels
    BY <1>1, <2>2, <2>3, RecentReplaced
  <2> HIDE DEF t
  <2>5. Insert(s, k).set = t /\ ~Insert(s, k).new
    BY <2>1
  <2>6. QED
    BY <1>1, <2>2, <2>4, <2>5 DEF SpillSetInv
<1>6. CASE k \notin s.resident /\ ~Cached(s.recent, k) /\ ContainsInRuns(s, k)
  <2> DEFINE t == [s EXCEPT !.recent = RememberAbsent(s.recent, k)]
  <2>1. Insert(s, k) = [new |-> FALSE, set |-> t]
    BY <1>6 DEF Insert
  <2>2. k \in Members(s) /\ s.levels # <<>>
    BY <1>2, <1>6, NothingSpilled DEF Members
  <2>3. CacheHolds(RememberAbsent(s.recent, k), Members(s))
    BY <1>3, <1>6, <2>2, RememberAbsentKeeps DEF RecentExact
  <2>4. StoresOnce(t) /\ Members(t) = Members(s) /\ t.resident = s.resident /\ t.levels = s.levels
    BY <1>1, <2>2, <2>3, RecentReplaced
  <2> HIDE DEF t
  <2>5. Insert(s, k).set = t /\ ~Insert(s, k).new
    BY <2>1
  <2>6. QED
    BY <1>1, <2>2, <2>4, <2>5 DEF SpillSetInv
<1>7. CASE k \notin s.resident /\ ~Cached(s.recent, k) /\ ~ContainsInRuns(s, k)
  <2> DEFINE recent == IF s.recent = <<>> THEN s.recent ELSE RememberAbsent(s.recent, k)
             rows == IF s.track THEN s.byPrefix \cup {k} ELSE s.byPrefix
             u == [s EXCEPT !.resident = s.resident \cup {k}, !.recent = recent,
                            !.byPrefix = rows, !.len = s.len + 1]
             t == FlushIfFull(u)
  <2>1. Insert(s, k) = [new |-> TRUE, set |-> t]
    BY <1>7 DEF Insert
  <2>2. k \notin Members(s) /\ k \notin Spilled(s.levels)
    BY <1>2, <1>7 DEF Members
  <2>3. /\ u.resident = s.resident \cup {k} /\ u.recent = recent /\ u.byPrefix = rows
        /\ u.len = s.len + 1 /\ u.levels = s.levels /\ u.filter = s.filter /\ u.track = s.track
    BY <1>3 DEF SpillSetType
  <2>4. Members(u) = Members(s) \cup {k}
    BY <2>3 DEF Members
  <2>5. /\ IsFiniteSet(s.resident) /\ s.resident \in SUBSET Nat /\ Cardinality(s.resident) \in Nat
        /\ IsFiniteSet(Members(s)) /\ Cardinality(Members(s)) \in Nat
    BY <1>1, StoresOnceFacts
  <2>6. /\ IsFiniteSet(u.resident) /\ Cardinality(u.resident) = Cardinality(s.resident) + 1
        /\ u.len = Cardinality(Members(u)) /\ u.len \in Nat
    <3> DEFINE R == s.resident
               M == Members(s)
    <3>1. k \notin R /\ IsFiniteSet(R) /\ k \notin M /\ IsFiniteSet(M)
      BY <1>7, <2>2, <2>5
    <3> HIDE DEF R, M
    <3>2. /\ IsFiniteSet(R \cup {k}) /\ Cardinality(R \cup {k}) = Cardinality(R) + 1
          /\ Cardinality(M \cup {k}) = Cardinality(M) + 1
      BY <3>1, FS_AddElement
    <3>3. u.resident = R \cup {k} /\ Members(u) = M \cup {k} /\ u.len = Cardinality(M) + 1
      BY <1>3, <2>3, <2>4 DEF R, M
    <3>4. Cardinality(M) \in Nat
      BY <2>5 DEF M
    <3> HIDE DEF u
    <3>5. QED
      BY <3>2, <3>3, <3>4 DEF R
  <2>7. RecentExact(u, recent)
    <3>1. CASE s.levels = <<>>
      BY <1>3, <2>3, <3>1 DEF RecentExact
    <3>2. CASE s.levels # <<>>
      <4>1. CacheHolds(s.recent, Members(s))
        BY <1>3, <3>2 DEF RecentExact
      <4>2. CacheHolds(s.recent, Members(u))
        BY <2>4, <4>1, CacheGrows
      <4>3. CacheHolds(RememberAbsent(s.recent, k), Members(u))
        BY <1>7, <2>4, <4>2, RememberAbsentKeeps
      <4>4. CacheHolds(recent, Members(u))
        BY <4>2, <4>3
      <4>5. QED
        BY <2>3, <3>2, <4>4 DEF RecentExact
    <3>3. QED
      BY <3>1, <3>2
  <2>8. recent \in {<<>>} \cup [1..SetCount -> [ways : Seq(Way), hand : Nat]]
    BY <2>7 DEF RecentExact, CacheHolds
  <2>9. rows \in SUBSET Nat /\ (s.track => rows = s.resident \cup {k})
    BY <1>3 DEF SpillSetType
  <2> HIDE DEF recent, rows
  <2>10. u \in SpillSetType
    <3>1. s.resident \cup {k} \in SUBSET Nat /\ s.len + 1 \in Nat
      BY <2>3, <2>5, <2>6
    <3>2. QED
      BY <1>3, <2>8, <2>9, <3>1 DEF SpillSetType
  <2> HIDE DEF u
  <2>11. u.resident \cap Spilled(u.levels) = {}
    BY <1>3, <2>2, <2>3
  <2>12. StoresOnce(u)
    BY <1>3, <2>3, <2>6, <2>7, <2>9, <2>10, <2>11 DEF StoresOnce
  <2>13. /\ SpillSetInv(t) /\ Members(t) = Members(u)
         /\ Spilled(u.levels) \subseteq Spilled(t.levels)
    <3>1. MaxResident \in Nat
      BY SpillAssumption
    <3>2. CASE Cardinality(u.resident) >= MaxResident
      <4>1. Cardinality(u.resident) = MaxResident /\ t = Flush(u)
        BY <1>1, <2>5, <2>6, <3>1, <3>2 DEF FlushIfFull
      <4>2. QED
        BY <2>12, <4>1, FlushFacts
    <3>3. CASE ~(Cardinality(u.resident) >= MaxResident)
      <4>1. Cardinality(u.resident) < MaxResident /\ t = u
        BY <2>5, <2>6, <3>1, <3>3 DEF FlushIfFull
      <4>2. QED
        BY <2>12, <4>1 DEF SpillSetInv
    <3>4. QED
      BY <3>2, <3>3
  <2> HIDE DEF t
  <2>14. Insert(s, k).set = t /\ Insert(s, k).new
    BY <2>1
  <2>15. QED
    BY <2>2, <2>3, <2>4, <2>13, <2>14
<1>8. QED
  BY <1>4, <1>5, <1>6, <1>7

\* A reader's lookup under the shared lock answers exactly, and asks for a
\* promotion only of a key that is on disk.
THEOREM SpillSetLookup ==
  ASSUME NEW s, SpillSetInv(s), NEW k \in Nat
  PROVE  /\ SpillSetInv(LookupKey(s, k).set)
         /\ Members(LookupKey(s, k).set) = Members(s)
         /\ LookupKey(s, k).found <=> k \in Members(s)
         /\ LookupKey(s, k).promote => k \in Spilled(s.levels)
         /\ LookupKey(s, k).set.levels = s.levels
<1> DEFINE hit == k \in s.resident \/ Cached(s.recent, k)
           inRuns == ContainsInRuns(s, k)
           t == [s EXCEPT !.recent = TouchKey(s.recent, k)]
<1>1. StoresOnce(s) /\ Cardinality(s.resident) < MaxResident /\ RecentExact(s, s.recent)
  BY DEF SpillSetInv, StoresOnce
<1>2. LookupKey(s, k) = [found |-> hit \/ inRuns, promote |-> ~hit /\ inRuns, set |-> t]
  BY DEF LookupKey, Found
<1>3. inRuns <=> k \in Spilled(s.levels)
  BY <1>1, RunsAnswer
<1>4. (hit \/ inRuns) <=> k \in Members(s)
  BY <1>1, <1>3, CachedIsMember DEF Members
<1>5. StoresOnce(t) /\ Members(t) = Members(s) /\ t.resident = s.resident /\ t.levels = s.levels
  <2>1. CASE s.levels = <<>>
    <3>1. s.recent = <<>>
      BY <1>1, <2>1 DEF RecentExact
    <3>2. TouchKey(s.recent, k) = s.recent
      BY <3>1 DEF TouchKey, Cached
    <3>3. s \in SpillSetType
      BY <1>1 DEF StoresOnce
    <3>4. t = s
      BY <3>2, <3>3 DEF SpillSetType
    <3>5. QED
      BY <1>1, <3>4
  <2>2. CASE s.levels # <<>>
    <3>1. CacheHolds(TouchKey(s.recent, k), Members(s))
      BY <1>1, <2>2, TouchKeyKeeps DEF RecentExact
    <3>2. QED
      BY <1>1, <2>2, <3>1, RecentReplaced
  <2>3. QED
    BY <2>1, <2>2
<1> HIDE DEF hit, inRuns, t
<1>6. /\ LookupKey(s, k).set = t /\ LookupKey(s, k).found = (hit \/ inRuns)
      /\ LookupKey(s, k).promote = (~hit /\ inRuns)
  BY <1>2
<1>7. LookupKey(s, k).promote => k \in Spilled(s.levels)
  BY <1>3, <1>6, Zenon
<1>8. LookupKey(s, k).found <=> k \in Members(s)
  BY <1>4, <1>6, Zenon
<1>9. SpillSetInv(t)
  BY <1>1, <1>5 DEF SpillSetInv
<1>10. QED
  BY <1>5, <1>6, <1>7, <1>8, <1>9

\* The promotion under the exclusive lock keeps the invariant and the members of
\* the set it finds, however late it comes and whoever promoted the key before.
THEOREM SpillSetPromote ==
  ASSUME NEW s, SpillSetInv(s), NEW k \in Nat, k \in Spilled(s.levels)
  PROVE  /\ SpillSetInv(Promote(s, k)) /\ Members(Promote(s, k)) = Members(s)
         /\ Promote(s, k).levels = s.levels
<1> DEFINE t == [s EXCEPT !.recent = Remember(s.recent, k)]
<1>1. StoresOnce(s) /\ Cardinality(s.resident) < MaxResident /\ RecentExact(s, s.recent)
  BY DEF SpillSetInv, StoresOnce
<1>2. Promote(s, k) = t
  BY DEF Promote
<1>3. s.levels # <<>> /\ k \in Members(s)
  BY NothingSpilled DEF Members
<1>4. CacheHolds(Remember(s.recent, k), Members(s))
  BY <1>1, <1>3, RememberKeeps DEF RecentExact
<1>5. StoresOnce(t) /\ Members(t) = Members(s) /\ t.resident = s.resident /\ t.levels = s.levels
  BY <1>1, <1>3, <1>4, RecentReplaced
<1> HIDE DEF t
<1>6. QED
  BY <1>1, <1>2, <1>5 DEF SpillSetInv

\* contains answers membership exactly, and neither its lookup nor its promotion
\* changes the members.
THEOREM SpillSetContains ==
  ASSUME NEW s, SpillSetInv(s), NEW k \in Nat
  PROVE  /\ SpillSetInv(ContainsKey(s, k).set)
         /\ Members(ContainsKey(s, k).set) = Members(s)
         /\ ContainsKey(s, k).found <=> k \in Members(s)
<1> DEFINE seen == LookupKey(s, k)
           t == IF seen.promote THEN Promote(seen.set, k) ELSE seen.set
<1>1. /\ SpillSetInv(seen.set) /\ Members(seen.set) = Members(s)
      /\ seen.found <=> k \in Members(s)
      /\ seen.promote => k \in Spilled(s.levels)
      /\ seen.set.levels = s.levels
  BY SpillSetLookup
<1>2. ContainsKey(s, k) = [found |-> seen.found, set |-> t]
  BY DEF ContainsKey, Promoted
<1> HIDE DEF seen
<1>3. SpillSetInv(t) /\ Members(t) = Members(s)
  <2>1. CASE seen.promote
    <3>1. k \in Spilled(seen.set.levels)
      BY <1>1, <2>1
    <3>2. t = Promote(seen.set, k)
      BY <2>1
    <3>3. QED
      BY <1>1, <3>1, <3>2, SpillSetPromote
  <2>2. CASE ~seen.promote
    BY <1>1, <2>2
  <2>3. QED
    BY <2>1, <2>2
<1> HIDE DEF t
<1>4. ContainsKey(s, k).set = t /\ ContainsKey(s, k).found = seen.found
  BY <1>2
<1>5. ContainsKey(s, k).found <=> k \in Members(s)
  BY <1>1, <1>4, Zenon
<1>6. QED
  BY <1>3, <1>4, <1>5

\* keys_with_prefix_batch returns, in order, the first keys of the prefix that
\* follow `after` in the whole set, although it asks the resident rows and each
\* run for as many keys by themselves; a caller that goes on after the last key
\* of a page therefore sees every key of the prefix once.
THEOREM SpillSetPage ==
  ASSUME NEW s, SpillSetInv(s), s.track, NEW prefix \in Nat, NEW after \in Int, after >= -1,
         NEW limit \in Nat
  PROVE  KeysWithPrefixBatch(s, prefix, after, limit)
           = Slice(Sorted({k \in Members(s) : k \div PrefixUnit = prefix /\ k > after}), 1, limit)
<1> DEFINE Wanted(K) == {k \in K : k \div PrefixUnit = prefix /\ k > after}
           filed == {k \in s.byPrefix : k \div PrefixUnit = prefix /\ k > after}
           runs == {Wanted(ToSet(run)) : run \in RunsOf(s)}
           P == {Wanted(s.resident)} \cup runs
           S == Wanted(Members(s))
           T == SmallestOfParts(P, limit)
           read == ToSet(Slice(Sorted(filed), 1, limit))
                     \cup UNION {ToSet(AppendPrefixBatch(run, prefix, after, limit)) : run \in RunsOf(s)}
<1>1. /\ LevelsExact(s.levels) /\ s.byPrefix = s.resident
      /\ IsFiniteSet(s.resident) /\ s.resident \in SUBSET Nat
      /\ IsFiniteSet(Members(s)) /\ Members(s) \in SUBSET Nat
  BY StoresOnceFacts DEF SpillSetInv, StoresOnce
<1>2. KeysWithPrefixBatch(s, prefix, after, limit) = Slice(Sorted(read), 1, limit)
  BY DEF KeysWithPrefixBatch
<1>3. filed = Wanted(s.resident)
  BY <1>1
<1>4. Wanted(s.resident) \in SUBSET Nat /\ IsFiniteSet(Wanted(s.resident))
  <2>1. Wanted(s.resident) \in SUBSET s.resident
    OBVIOUS
  <2> HIDE DEF Wanted
  <2>2. QED
    BY <1>1, <2>1, FS_Subset
<1>5. S \in SUBSET Nat /\ IsFiniteSet(S)
  <2>1. S \in SUBSET Members(s)
    OBVIOUS
  <2> HIDE DEF S
  <2>2. QED
    BY <1>1, <2>1, FS_Subset
<1>6. S = UNION P
  <2>1. UNION {ToSet(run) : run \in RunsOf(s)} = Spilled(s.levels)
    BY <1>1, RunsHoldSpilled
  <2>2. ASSUME NEW k PROVE k \in Members(s) <=> k \in s.resident \/ \E run \in RunsOf(s) : k \in ToSet(run)
    BY <2>1 DEF Members
  <2>3. ASSUME NEW k PROVE k \in UNION P <=> k \in Wanted(s.resident) \/ \E run \in RunsOf(s) : k \in Wanted(ToSet(run))
    <3> HIDE DEF Wanted
    <3>1. QED
      OBVIOUS
  <2>4. ASSUME NEW k PROVE k \in S <=> k \in UNION P
    <3> HIDE DEF P
    <3>1. QED
      BY <2>2, <2>3
  <2>5. QED
    BY <2>4
<1>7. ASSUME NEW run \in RunsOf(s)
      PROVE  ToSet(AppendPrefixBatch(run, prefix, after, limit)) = Smallest(Wanted(ToSet(run)), limit)
  <2>1. DOMAIN s.levels = 1..Len(s.levels)
    BY <1>1 DEF LevelsExact
  <2>2. PICK i \in 1..Len(s.levels) : run = s.levels[i] /\ run # <<>>
    BY <2>1 DEF RunsOf
  <2>3. Ascending(run)
    BY <1>1, <2>2 DEF LevelsExact
  <2>4. QED
    BY <2>3, PageOfRun
<1>8. ToSet(Slice(Sorted(filed), 1, limit)) = Smallest(Wanted(s.resident), limit)
  <2> HIDE DEF Wanted, filed
  <2>1. QED
    BY <1>3, <1>4, SmallestFacts
<1>9. read = T
  <2> HIDE DEF Wanted, filed
  <2> DEFINE Read(run) == ToSet(AppendPrefixBatch(run, prefix, after, limit))
  <2>1. \A run \in RunsOf(s) : Read(run) = Smallest(Wanted(ToSet(run)), limit)
    BY <1>7
  <2>2. read = Smallest(Wanted(s.resident), limit) \cup UNION {Read(run) : run \in RunsOf(s)}
    BY <1>8
  <2> HIDE DEF Read, read
  <2>3. ASSUME NEW k PROVE k \in read <=> k \in T
    BY <2>1, <2>2 DEF SmallestOfParts
  <2>4. QED
    BY <2>3
<1> HIDE DEF P, S, read
<1>10. T \in SUBSET S /\ IsFiniteSet(T) /\ Smallest(T, limit) = Smallest(S, limit)
  BY <1>5, <1>6, SmallestOfUnion
<1> HIDE DEF T
<1>11. Slice(Sorted(T), 1, limit) = Sorted(Smallest(T, limit))
  BY <1>5, <1>10, SmallestFacts
<1>12. Slice(Sorted(S), 1, limit) = Sorted(Smallest(S, limit))
  BY <1>5, SmallestFacts
<1>13. QED
  BY <1>2, <1>9, <1>10, <1>11, <1>12 DEF S

\* No operation changes whether a set files its keys by prefix, so a set made
\* for pages answers pages for good.
THEOREM SpillSetTracks ==
  ASSUME NEW s, SpillSetInv(s), NEW k \in Nat
  PROVE  /\ Insert(s, k).set.track = s.track
         /\ LookupKey(s, k).set.track = s.track
         /\ Promote(s, k).track = s.track
<1>1. s \in SpillSetType
  BY DEF SpillSetInv, StoresOnce
<1>2. ASSUME NEW t \in SpillSetType, NEW recent
      PROVE  [t EXCEPT !.recent = recent].track = t.track
  BY DEF SpillSetType
<1>3. LookupKey(s, k).set.track = s.track
  <2>1. LookupKey(s, k).set = [s EXCEPT !.recent = TouchKey(s.recent, k)]
    BY DEF LookupKey, Found
  <2>2. QED
    BY <1>1, <1>2, <2>1
<1>4. Promote(s, k).track = s.track
  BY <1>1, <1>2 DEF Promote
<1>5. Insert(s, k).set.track = s.track
  <2> DEFINE t == [s EXCEPT !.resident = @ \cup {k},
                            !.recent = IF @ = <<>> THEN @ ELSE RememberAbsent(@, k),
                            !.byPrefix = IF s.track THEN @ \cup {k} ELSE @,
                            !.len = @ + 1]
  <2>1. \/ Insert(s, k).set = s
        \/ Insert(s, k).set = [s EXCEPT !.recent = TouchKey(s.recent, k)]
        \/ Insert(s, k).set = [s EXCEPT !.recent = RememberAbsent(s.recent, k)]
        \/ Insert(s, k).set = FlushIfFull(t)
    BY DEF Insert
  <2>2. t.track = s.track /\ DOMAIN t = DOMAIN s /\ "track" \in DOMAIN t
    BY <1>1 DEF SpillSetType
  <2> HIDE DEF t
  <2>3. Flush(t).track = t.track
    BY <1>1, <2>2 DEF Flush, SpillSetType
  <2>4. FlushIfFull(t).track = s.track
    BY <2>2, <2>3 DEF FlushIfFull
  <2>5. /\ [s EXCEPT !.recent = TouchKey(s.recent, k)].track = s.track
        /\ [s EXCEPT !.recent = RememberAbsent(s.recent, k)].track = s.track
    BY <1>1, <1>2
  <2>6. QED
    BY <2>1, <2>4, <2>5, Zenon
<1>6. QED
  BY <1>3, <1>4, <1>5

-----------------------------------------------------------------------------
(* SpillStack. *)

Chunk == [offset : Nat, len : Nat]

StackType == [resident : Seq(Nat), file : Seq(Nat), chunks : Seq(Chunk), len : Nat]

\* One chunk after the other from the start of a file of n keys to its end, each
\* of them no larger than what is read back at once.
Tiles(chunks, n) ==
  /\ \A i \in DOMAIN chunks :
        /\ chunks[i].len > 0 /\ chunks[i].len <= MaxFrontier
        /\ chunks[i].offset = IF i = 1 THEN 0 ELSE chunks[i-1].offset + chunks[i-1].len
  /\ n = IF chunks = <<>> THEN 0 ELSE Last(chunks).offset + Last(chunks).len

\* The fields of a frontier agree: r the resident keys, f the file, c its chunks
\* and n the length.
StackHolds(r, f, c, n) ==
  /\ r \in Seq(Nat) /\ f \in Seq(Nat) /\ c \in Seq(Chunk) /\ n \in Nat
  /\ Tiles(c, Len(f))
  /\ n = Len(r) + Len(f)

\* A frontier between two operations.
StackInv(s) ==
  /\ s \in StackType
  /\ StackHolds(s.resident, s.file, s.chunks, s.len)
  /\ Len(s.resident) < MaxFrontier

\* The keys of a stack, oldest first.
StackKeys(s) == s.file \o s.resident

\* A frontier that keeps the invariant satisfies what IdgQuery checks of it: its
\* chunks tile its file and its length counts every key (SpillStack, idg).
THEOREM SpillStackExact ==
  ASSUME NEW s, StackInv(s)
  PROVE  StackIsExact(s)
BY DEF StackInv, StackHolds, Tiles, StackIsExact

\* SpillStack::new holds nothing.
THEOREM SpillStackEmpty == StackInv(EmptySpillStack) /\ StackKeys(EmptySpillStack) = <<>>
<1>1. EmptySpillStack \in StackType
  BY DEF EmptySpillStack, StackType
<1>2. Tiles(<<>>, 0)
  BY DEF Tiles
<1>3. StackHolds(<<>>, <<>>, <<>>, 0)
  BY <1>2 DEF StackHolds
<1>4. QED
  BY <1>1, <1>3, SpillAssumption DEF StackInv, StackKeys, EmptySpillStack

LEMMA ConcatAppend ==
  ASSUME NEW S, NEW s \in Seq(S), NEW t \in Seq(S), NEW x \in S
  PROVE  s \o Append(t, x) = Append(s \o t, x)
<1>1. <<x>> \in Seq(S)
  OBVIOUS
<1>2. s \o t \in Seq(S)
  BY ConcatProperties
<1>3. QED
  BY <1>1, <1>2, AppendIsConcat, ConcatAssociative

LEMMA TilesAppend ==
  ASSUME NEW chunks \in Seq(Chunk), NEW n \in Nat, Tiles(chunks, n),
         NEW m \in Nat, m > 0, m <= MaxFrontier
  PROVE  Tiles(Append(chunks, [offset |-> n, len |-> m]), n + m)
<1> DEFINE c == [offset |-> n, len |-> m]
           t == Append(chunks, c)
           k == Len(chunks)
<1>1. c \in Chunk /\ c.offset = n /\ c.len = m
  BY DEF Chunk
<1> HIDE DEF c
<1>2. /\ k \in Nat /\ DOMAIN chunks = 1..k /\ DOMAIN t = 1..(k + 1) /\ Len(t) = k + 1
      /\ t[k + 1] = c /\ \A i \in 1..k : t[i] = chunks[i]
  BY <1>1
<1>3. t # <<>> /\ Last(t) = c
  BY <1>1 DEF Last
<1>4. k = 0 => n = 0
  <2>1. k = 0 => chunks = <<>>
    OBVIOUS
  <2>2. QED
    BY <2>1 DEF Tiles
<1>5. k # 0 => n = chunks[k].offset + chunks[k].len
  <2>1. k # 0 => chunks # <<>>
    OBVIOUS
  <2>2. QED
    BY <2>1 DEF Tiles, Last
<1>6. \A i \in 1..k : /\ chunks[i].len > 0 /\ chunks[i].len <= MaxFrontier
                      /\ chunks[i].offset = IF i = 1 THEN 0 ELSE chunks[i-1].offset + chunks[i-1].len
  BY <1>2 DEF Tiles
<1> HIDE DEF t, k
<1>7. ASSUME NEW i \in 1..(k + 1)
      PROVE  /\ t[i].len > 0 /\ t[i].len <= MaxFrontier
             /\ t[i].offset = IF i = 1 THEN 0 ELSE t[i-1].offset + t[i-1].len
  <2>1. CASE i = k + 1
    <3>1. CASE k = 0
      BY <1>1, <1>2, <1>4, <2>1, <3>1
    <3>2. CASE k # 0
      <4>1. i # 1 /\ i - 1 = k /\ t[i - 1] = chunks[k] /\ t[i] = c
        BY <1>2, <2>1, <3>2
      <4>2. QED
        BY <4>1, <3>2, <1>1, <1>5
    <3>3. QED
      BY <3>1, <3>2
  <2>2. CASE i # k + 1
    <3>1. i \in 1..k /\ t[i] = chunks[i] /\ (i # 1 => t[i - 1] = chunks[i - 1])
      BY <1>2, <2>2
    <3>2. QED
      BY <3>1, <1>6
  <2>3. QED
    BY <2>1, <2>2
<1>8. Tiles(t, n + m)
  BY <1>1, <1>2, <1>3, <1>7 DEF Tiles
<1>9. QED
  BY <1>8 DEF t, c

LEMMA TilesFront ==
  ASSUME NEW chunks \in Seq(Chunk), NEW n \in Nat, Tiles(chunks, n), chunks # <<>>
  PROVE  /\ Last(chunks) \in Chunk /\ Front(chunks) \in Seq(Chunk)
         /\ Last(chunks).len > 0 /\ Last(chunks).len <= MaxFrontier
         /\ n = Last(chunks).offset + Last(chunks).len
         /\ Tiles(Front(chunks), Last(chunks).offset)
<1> DEFINE t == Front(chunks)
           k == Len(chunks)
<1>1. /\ k \in Nat \ {0} /\ DOMAIN chunks = 1..k /\ k \in 1..k
      /\ \A i \in 1..k : chunks[i] \in Chunk
  OBVIOUS
<1>2. Last(chunks) = chunks[k]
  BY DEF Last
<1>3. /\ t \in Seq(Chunk) /\ Len(t) = k - 1 /\ DOMAIN t = 1..(k - 1)
      /\ \A i \in 1..(k - 1) : t[i] = chunks[i]
  BY <1>1 DEF Front
<1>4. \A i \in 1..k : /\ chunks[i].len > 0 /\ chunks[i].len <= MaxFrontier
                      /\ chunks[i].offset = IF i = 1 THEN 0 ELSE chunks[i-1].offset + chunks[i-1].len
  BY <1>1 DEF Tiles
<1>5. n = chunks[k].offset + chunks[k].len
  BY <1>2 DEF Tiles
<1>6. t = <<>> <=> k = 1
  BY <1>1, <1>3
<1>7. k # 1 => Last(t) = chunks[k - 1]
  BY <1>1, <1>3 DEF Last
<1> HIDE DEF t, k
<1>8. ASSUME NEW i \in 1..(k - 1)
      PROVE  /\ t[i].len > 0 /\ t[i].len <= MaxFrontier
             /\ t[i].offset = IF i = 1 THEN 0 ELSE t[i-1].offset + t[i-1].len
  <2>1. i \in 1..k /\ t[i] = chunks[i] /\ (i # 1 => t[i - 1] = chunks[i - 1])
    BY <1>1, <1>3
  <2>2. QED
    BY <2>1, <1>4
<1>9. chunks[k].offset = IF t = <<>> THEN 0 ELSE Last(t).offset + Last(t).len
  BY <1>1, <1>4, <1>6, <1>7
<1>10. Tiles(t, chunks[k].offset)
  BY <1>3, <1>8, <1>9 DEF Tiles
<1>11. QED
  BY <1>1, <1>2, <1>3, <1>4, <1>5, <1>10 DEF t

LEMMA HoldsCount ==
  ASSUME NEW r, NEW f, NEW c, NEW n, StackHolds(r, f, c, n)
  PROVE  /\ f \o r \in Seq(Nat) /\ Len(f \o r) = n
         /\ (f \o r = <<>>) <=> n = 0
<1>1. r \in Seq(Nat) /\ f \in Seq(Nat) /\ n = Len(r) + Len(f) /\ Len(r) \in Nat /\ Len(f) \in Nat
  BY DEF StackHolds
<1> DEFINE all == f \o r
<1>2. all \in Seq(Nat) /\ Len(all) = Len(f) + Len(r)
  BY <1>1, ConcatProperties
<1> HIDE DEF all
<1>3. /\ all \in Seq(Nat) /\ Len(all) = n
      /\ (all = <<>>) <=> n = 0
  BY <1>1, <1>2
<1>4. QED
  BY <1>3 DEF all

LEMMA HoldsPush ==
  ASSUME NEW r, NEW f, NEW c, NEW n, StackHolds(r, f, c, n), NEW x \in Nat
  PROVE  /\ StackHolds(Append(r, x), f, c, n + 1)
         /\ Append(r, x) \in Seq(Nat) /\ Len(Append(r, x)) = Len(r) + 1
         /\ f \o Append(r, x) = Append(f \o r, x)
<1>1. /\ r \in Seq(Nat) /\ f \in Seq(Nat) /\ n = Len(r) + Len(f) /\ Len(r) \in Nat /\ Len(f) \in Nat
      /\ c \in Seq(Chunk) /\ n \in Nat /\ Tiles(c, Len(f))
  BY DEF StackHolds
<1> DEFINE up == Append(r, x)
<1>2. up \in Seq(Nat) /\ Len(up) = Len(r) + 1
  BY <1>1
<1>3. f \o up = Append(f \o r, x)
  BY <1>1, ConcatAppend
<1> HIDE DEF up
<1>4. n + 1 \in Nat /\ n + 1 = Len(up) + Len(f)
  BY <1>1, <1>2
<1>5. StackHolds(up, f, c, n + 1)
  BY <1>1, <1>2, <1>4 DEF StackHolds
<1>6. QED
  BY <1>2, <1>3, <1>5 DEF up

LEMMA HoldsPop ==
  ASSUME NEW r, NEW f, NEW c, NEW n, StackHolds(r, f, c, n), r # <<>>
  PROVE  /\ StackHolds(Front(r), f, c, n - 1)
         /\ Front(r) \in Seq(Nat) /\ Len(Front(r)) = Len(r) - 1 /\ n - 1 \in Nat
         /\ f \o r = Append(f \o Front(r), Last(r))
<1>1. /\ r \in Seq(Nat) /\ f \in Seq(Nat) /\ n = Len(r) + Len(f) /\ Len(r) \in Nat /\ Len(f) \in Nat
      /\ c \in Seq(Chunk) /\ n \in Nat /\ Tiles(c, Len(f))
  BY DEF StackHolds
<1> DEFINE low == Front(r)
           top == Last(r)
<1>2. /\ Len(r) # 0
      /\ \A i \in 1..Len(r) : r[i] \in Nat
  BY <1>1
<1>3. /\ low \in Seq(Nat) /\ Len(low) = Len(r) - 1
      /\ \A i \in 1..(Len(r) - 1) : low[i] = r[i]
  <2>1. low = SubSeq(r, 1, Len(r) - 1)
    BY DEF Front
  <2>2. Len(r) - 1 \in Nat /\ 1 <= Len(r)
    BY <1>1, <1>2
  <2>3. \A i \in 1..(Len(r) - 1) : r[i] \in Nat
    BY <1>1, <1>2
  <2>4. QED
    <3> DEFINE m == Len(r) - 1
    <3>1. m \in Nat /\ m - 1 + 1 = m /\ (~(1 <= m) => m = 0)
      <4>1. m \in Nat
        BY <2>2
      <4> HIDE DEF m
      <4>2. QED
        BY <4>1
    <3>2. \A i \in 1..m : 1 + i - 1 = i
      BY <3>1
    <3> HIDE DEF m
    <3>3. /\ SubSeq(r, 1, m) \in Seq(Nat)
          /\ Len(SubSeq(r, 1, m)) = IF 1 <= m THEN m - 1 + 1 ELSE 0
          /\ \A i \in 1..(m - 1 + 1) : SubSeq(r, 1, m)[i] = r[1 + i - 1]
      <4>1. \A i \in 1..m : r[i] \in Nat
        BY <2>3 DEF m
      <4>2. QED
        BY <4>1, <3>1, SubSeqProperties
    <3>4. low = SubSeq(r, 1, m)
      BY <2>1 DEF m
    <3> HIDE DEF low
    <3>5. low \in Seq(Nat) /\ Len(low) = m /\ \A i \in 1..m : low[i] = r[i]
      BY <3>1, <3>2, <3>3, <3>4
    <3>6. QED
      BY <3>5 DEF m
<1>4. top = r[Len(r)] /\ top \in Nat
  BY <1>1, <1>2 DEF Last
<1> HIDE DEF low, top
<1>5. r = Append(low, top)
  <2> DEFINE b == Append(low, top)
  <2>1. /\ b \in Seq(Nat) /\ Len(b) = Len(low) + 1
        /\ \A i \in 1..Len(low) : b[i] = low[i]
        /\ b[Len(low) + 1] = top
    BY <1>3, <1>4, AppendProperties
  <2> HIDE DEF b
  <2>2. Len(b) = Len(r) /\ \A i \in 1..Len(r) : b[i] = r[i]
    <3>1. Len(low) + 1 = Len(r) /\ Len(b) = Len(r)
      BY <2>1, <1>1, <1>3
    <3>2. ASSUME NEW i \in 1..Len(r) PROVE b[i] = r[i]
      <4>1. CASE i = Len(r)
        BY <4>1, <3>1, <2>1, <1>4
      <4>2. CASE i # Len(r)
        <5>1. i \in 1..Len(low) /\ i \in 1..(Len(r) - 1)
          BY <4>2, <1>1, <1>3
        <5>2. QED
          BY <5>1, <2>1, <1>3
      <4>3. QED
        BY <4>1, <4>2
    <3>3. QED
      BY <3>1, <3>2
  <2>3. b = r
    BY <2>1, <2>2, <1>1, SeqEqual
  <2>4. QED
    BY <2>3 DEF b
<1>6. f \o Append(low, top) = Append(f \o low, top)
  <2>1. f \in Seq(Nat) /\ low \in Seq(Nat) /\ top \in Nat
    BY <1>1, <1>3, <1>4
  <2>2. QED
    BY <2>1, ConcatAppend
<1>7. n - 1 \in Nat /\ n - 1 = Len(low) + Len(f)
  BY <1>1, <1>2, <1>3
<1>8. StackHolds(low, f, c, n - 1)
  BY <1>1, <1>3, <1>7 DEF StackHolds
<1>9. f \o r = Append(f \o low, top)
  BY <1>5, <1>6, Zenon
<1>10. QED
  BY <1>3, <1>7, <1>8, <1>9 DEF low, top

LEMMA HoldsFlush ==
  ASSUME NEW r, NEW f, NEW c, NEW n, StackHolds(r, f, c, n), Len(r) = MaxFrontier
  PROVE  LET d == Append(c, [offset |-> Len(f), len |-> Len(r)])
         IN  /\ StackHolds(<<>>, f \o r, d, n) /\ d \in Seq(Chunk)
             /\ f \o r \in Seq(Nat) /\ (f \o r) \o <<>> = f \o r
<1>1. /\ r \in Seq(Nat) /\ f \in Seq(Nat) /\ n = Len(r) + Len(f) /\ Len(r) \in Nat /\ Len(f) \in Nat
      /\ c \in Seq(Chunk) /\ n \in Nat /\ Tiles(c, Len(f))
  BY DEF StackHolds
<1> DEFINE new == [offset |-> Len(f), len |-> Len(r)]
           all == f \o r
           d == Append(c, new)
<1>2. new \in Chunk
  BY <1>1 DEF Chunk
<1>3. Len(r) > 0 /\ Len(r) <= MaxFrontier
  BY <1>1, SpillAssumption
<1>4. Tiles(d, Len(f) + Len(r))
  BY <1>1, <1>3, TilesAppend
<1>5. all \in Seq(Nat) /\ Len(all) = Len(f) + Len(r)
  BY <1>1, ConcatProperties
<1>6. all \o <<>> = all
  BY <1>5, ConcatEmptySeq
<1>7. d \in Seq(Chunk)
  <2> HIDE DEF new
  <2>1. QED
    BY <1>1, <1>2
<1>8. <<>> \in Seq(Nat) /\ Len(<<>>) = 0
  OBVIOUS
<1> HIDE DEF new, all, d
<1>9. n = Len(<<>>) + Len(all)
  BY <1>1, <1>5, <1>8
<1>10. StackHolds(<<>>, all, d, n)
  BY <1>1, <1>4, <1>5, <1>7, <1>8, <1>9 DEF StackHolds
<1>11. QED
  BY <1>5, <1>6, <1>7, <1>10 DEF new, all, d

LEMMA HoldsReload ==
  ASSUME NEW f, NEW c, NEW n, StackHolds(<<>>, f, c, n), c # <<>>
  PROVE  LET chunk == Last(c)
             high  == SubSeq(f, chunk.offset + 1, chunk.offset + chunk.len)
             low   == SubSeq(f, 1, chunk.offset)
         IN  /\ StackHolds(high, low, Front(c), n)
             /\ high # <<>> /\ Len(high) <= MaxFrontier
             /\ low \o high = f \o <<>>
<1> DEFINE chunk == Last(c)
           a == chunk.offset
           b == chunk.len
           high == SubSeq(f, a + 1, a + b)
           low == SubSeq(f, 1, a)
<1>1. /\ f \in Seq(Nat) /\ n = Len(<<>>) + Len(f) /\ Len(f) \in Nat
      /\ c \in Seq(Chunk) /\ n \in Nat /\ Tiles(c, Len(f))
  BY DEF StackHolds
<1>2. n = Len(f)
  BY <1>1
<1>3. /\ chunk \in Chunk /\ Front(c) \in Seq(Chunk) /\ b > 0 /\ b <= MaxFrontier
      /\ Len(f) = a + b /\ Tiles(Front(c), a)
  BY <1>1, TilesFront
<1>4. a \in Nat /\ b \in Nat
  BY <1>3 DEF Chunk
<1> HIDE DEF chunk, a, b
<1>5. low \in Seq(Nat) /\ Len(low) = a
  <2>1. \A i \in 1..a : f[i] \in Nat
    BY <1>1, <1>3, <1>4
  <2>2. QED
    BY <2>1, <1>4, SubSeqProperties
<1>6. high \in Seq(Nat) /\ Len(high) = b
  <2>1. ASSUME NEW i \in (a + 1)..(a + b) PROVE f[i] \in Nat
    <3>1. i \in 1..Len(f)
      BY <1>3, <1>4
    <3>2. QED
      BY <3>1, <1>1
  <2>2. a + 1 <= a + b /\ (a + b) - (a + 1) + 1 = b
    BY <1>3, <1>4
  <2>3. QED
    BY <2>1, <2>2, <1>4, SubSeqProperties
<1>7. low \o high = f
  <2>1. 1 \in 1..(Len(f) + 1)
    BY <1>1
  <2>2. a \in 0..Len(f)
    <3>1. 0 <= a /\ a <= a + b
      BY <1>4
    <3>2. QED
      BY <3>1, <1>3, <1>4
  <2>3. a + b \in a..Len(f)
    <3>1. a + b \in Int /\ a <= a + b
      BY <1>4
    <3>2. QED
      BY <3>1, <1>3, <1>4
  <2>4. 0 = 1 - 1
    OBVIOUS
  <2>5. low \o high = SubSeq(f, 1, a + b)
    BY <2>1, <2>2, <2>3, <2>4, <1>1, ConcatAdjacentSubSeq, Zenon
  <2>6. SubSeq(f, 1, a + b) = f
    BY <1>1, <1>3, SubSeqFull
  <2>7. QED
    BY <2>5, <2>6, Zenon
<1>8. f \o <<>> = f
  BY <1>1, ConcatEmptySeq
<1> HIDE DEF high, low
<1>9. n = Len(high) + Len(low)
  BY <1>2, <1>3, <1>4, <1>5, <1>6
<1>10. StackHolds(high, low, Front(c), n)
  BY <1>1, <1>3, <1>5, <1>6, <1>9 DEF StackHolds
<1>11. high # <<>> /\ Len(high) <= MaxFrontier
  BY <1>3, <1>6
<1>12. QED
  BY <1>7, <1>8, <1>10, <1>11 DEF high, low, a, b, chunk

\* SpillStack::push puts one key on top and keeps the frontier exact, whether or
\* not the resident part is written out.
THEOREM SpillStackPush ==
  ASSUME NEW s, StackInv(s), NEW x \in Nat
  PROVE  StackInv(Push(s, x)) /\ StackKeys(Push(s, x)) = Append(StackKeys(s), x)
<1> DEFINE r == Append(s.resident, x)
           m == s.len + 1
           t == [s EXCEPT !.resident = r, !.len = m]
           u == FlushStack(t)
<1>1. s \in StackType /\ StackHolds(s.resident, s.file, s.chunks, s.len) /\ Len(s.resident) < MaxFrontier
  BY DEF StackInv
<1>2. /\ StackHolds(r, s.file, s.chunks, m) /\ r \in Seq(Nat) /\ m \in Nat
      /\ Len(r) = Len(s.resident) + 1 /\ s.file \o r = Append(s.file \o s.resident, x)
  <2>1. /\ StackHolds(r, s.file, s.chunks, m) /\ r \in Seq(Nat)
        /\ Len(r) = Len(s.resident) + 1 /\ s.file \o r = Append(s.file \o s.resident, x)
    BY <1>1, HoldsPush, Zenon
  <2>2. s.len \in Nat
    BY <1>1 DEF StackHolds
  <2>3. m \in Nat
    BY <2>2
  <2>4. QED
    BY <2>1, <2>3, Zenon
<1>3. Push(s, x) = IF Len(t.resident) >= MaxFrontier THEN u ELSE t
  BY DEF Push
<1>4. Len(s.resident) \in Nat
  BY <1>1 DEF StackHolds
<1> HIDE DEF r, m
<1>5. /\ t \in StackType
      /\ t.resident = r /\ t.file = s.file /\ t.chunks = s.chunks /\ t.len = m
  BY <1>1, <1>2 DEF StackType
<1> HIDE DEF t
<1>6. StackHolds(t.resident, t.file, t.chunks, t.len) /\ StackKeys(t) = Append(StackKeys(s), x)
  BY <1>2, <1>5 DEF StackKeys
<1>7. Len(t.resident) \in Nat /\ Len(t.resident) <= MaxFrontier /\ MaxFrontier \in Nat
  BY <1>1, <1>2, <1>4, <1>5, SpillAssumption
<1>8. CASE Len(t.resident) >= MaxFrontier
  <2> DEFINE f == t.file \o t.resident
             d == Append(t.chunks, [offset |-> Len(t.file), len |-> Len(t.resident)])
  <2>1. Len(t.resident) = MaxFrontier
    BY <1>7, <1>8
  <2>2. /\ StackHolds(<<>>, f, d, t.len) /\ f \in Seq(Nat) /\ d \in Seq(Chunk) /\ f \o <<>> = f
    BY <2>1, <1>6, HoldsFlush
  <2>3. u = [t EXCEPT !.file = f, !.chunks = d, !.resident = <<>>]
    BY DEF FlushStack
  <2>4. StackKeys(t) = f
    BY DEF StackKeys
  <2>5. <<>> \in Seq(Nat) /\ Len(<<>>) = 0
    OBVIOUS
  <2> HIDE DEF f, d, u
  <2>6. /\ u \in StackType
        /\ u.resident = <<>> /\ u.file = f /\ u.chunks = d /\ u.len = t.len
    BY <1>5, <2>2, <2>3, <2>5 DEF StackType
  <2>7. Len(u.resident) < MaxFrontier
    BY <2>5, <2>6, SpillAssumption
  <2>8. StackInv(u)
    BY <2>2, <2>6, <2>7 DEF StackInv
  <2>9. StackKeys(u) = StackKeys(t)
    BY <2>2, <2>4, <2>6 DEF StackKeys
  <2>10. Push(s, x) = u
    BY <1>3, <1>8
  <2>11. QED
    BY <2>8, <2>9, <2>10, <1>6
<1>9. CASE ~(Len(t.resident) >= MaxFrontier)
  <2>1. Push(s, x) = t
    BY <1>3, <1>9
  <2>2. Len(t.resident) < MaxFrontier
    BY <1>7, <1>9
  <2>3. QED
    BY <1>5, <1>6, <2>1, <2>2 DEF StackInv
<1>10. QED
  BY <1>8, <1>9

\* The newest chunk comes back; nothing of the file below it moves.
LEMMA ReloadStackKeeps ==
  ASSUME NEW s, StackInv(s), s.resident = <<>>, s.chunks # <<>>
  PROVE  LET t == ReloadStack(s)
         IN  /\ t \in StackType /\ StackHolds(t.resident, t.file, t.chunks, t.len)
             /\ t.resident # <<>> /\ Len(t.resident) <= MaxFrontier
             /\ StackKeys(t) = StackKeys(s)
<1> DEFINE chunk == Last(s.chunks)
           high == SubSeq(s.file, chunk.offset + 1, chunk.offset + chunk.len)
           low == SubSeq(s.file, 1, chunk.offset)
           rest == Front(s.chunks)
           t == ReloadStack(s)
<1>1. s \in StackType /\ StackHolds(<<>>, s.file, s.chunks, s.len)
  BY DEF StackInv
<1>2. /\ StackHolds(high, low, rest, s.len) /\ high # <<>> /\ Len(high) <= MaxFrontier
      /\ low \o high = s.file \o <<>>
  BY <1>1, HoldsReload
<1>3. t = [s EXCEPT !.chunks = rest, !.resident = high, !.file = low]
  BY DEF ReloadStack
<1>4. StackKeys(s) = s.file \o <<>>
  BY DEF StackKeys
<1> HIDE DEF high, low, rest, t
<1>5. high \in Seq(Nat) /\ low \in Seq(Nat) /\ rest \in Seq(Chunk)
  BY <1>2 DEF StackHolds
<1>6. /\ t \in StackType
      /\ t.chunks = rest /\ t.file = low /\ t.len = s.len /\ t.resident = high
  BY <1>1, <1>3, <1>5 DEF StackType
<1>7. StackKeys(t) = StackKeys(s)
  BY <1>2, <1>4, <1>6 DEF StackKeys
<1>8. QED
  BY <1>2, <1>6, <1>7 DEF t

\* SpillStack::pop answers none exactly when nothing is stacked, and otherwise
\* takes the key pushed last, wherever it was kept.
THEOREM SpillStackPop ==
  ASSUME NEW s, StackInv(s)
  PROVE  LET p == Pop(s)
         IN  /\ StackInv(p.stack)
             /\ p.some <=> StackKeys(s) # <<>>
             /\ p.some <=> ~StackIsEmpty(s)
             /\ p.some => StackKeys(s) = Append(StackKeys(p.stack), p.key)
             /\ ~p.some => p.stack = s
<1> DEFINE p == Pop(s)
           t == IF s.resident = <<>> THEN ReloadStack(s) ELSE s
           r == Front(t.resident)
           u == [t EXCEPT !.resident = r, !.len = @ - 1]
<1>1. s \in StackType /\ StackHolds(s.resident, s.file, s.chunks, s.len) /\ Len(s.resident) < MaxFrontier
  BY DEF StackInv
<1>2. (StackKeys(s) = <<>>) <=> StackIsEmpty(s)
  BY <1>1, HoldsCount DEF StackKeys, StackIsEmpty
<1>3. p = IF t.resident = <<>> THEN [some |-> FALSE, key |-> 0, stack |-> t]
          ELSE [some |-> TRUE, key |-> Last(t.resident), stack |-> u]
  BY DEF Pop
<1>4. CASE s.resident = <<>> /\ s.chunks = <<>>
  <2>1. t = s
    BY <1>4 DEF ReloadStack
  <2>2. p.some = FALSE /\ p.stack = s
    BY <2>1, <1>3, <1>4
  <2>3. s.len = 0
    BY <1>1, <1>4 DEF StackHolds, Tiles
  <2>4. StackIsEmpty(s)
    BY <2>3 DEF StackIsEmpty
  <2> HIDE DEF p
  <2>5. QED
    BY <2>2, <2>4, <1>2 DEF p
<1>5. CASE ~(s.resident = <<>> /\ s.chunks = <<>>)
  <2>1. /\ t \in StackType /\ StackHolds(t.resident, t.file, t.chunks, t.len)
        /\ t.resident # <<>> /\ Len(t.resident) <= MaxFrontier
        /\ StackKeys(t) = StackKeys(s)
    <3>1. CASE s.resident = <<>>
      BY <3>1, <1>5, ReloadStackKeeps
    <3>2. CASE s.resident # <<>>
      <4>1. Len(s.resident) \in Nat /\ t = s
        BY <1>1, <3>2 DEF StackHolds
      <4>2. QED
        BY <4>1, <1>1, <3>2, SpillAssumption
    <3>3. QED
      BY <3>1, <3>2
  <2>2. p.some = TRUE /\ p.key = Last(t.resident) /\ p.stack = u
    BY <1>3, <2>1
  <2> HIDE DEF t, p
  <2>3. /\ StackHolds(r, t.file, t.chunks, t.len - 1) /\ t.len - 1 \in Nat
        /\ r \in Seq(Nat) /\ Len(r) = Len(t.resident) - 1
        /\ t.file \o t.resident = Append(t.file \o r, Last(t.resident))
    BY <2>1, HoldsPop
  <2> HIDE DEF r
  <2>4. /\ u \in StackType
        /\ u.resident = r /\ u.file = t.file /\ u.chunks = t.chunks /\ u.len = t.len - 1
    BY <2>1, <2>3 DEF StackType
  <2> HIDE DEF u
  <2>5. Len(t.resident) \in Nat
    BY <2>1 DEF StackHolds
  <2>6. Len(u.resident) < MaxFrontier
    BY <2>1, <2>3, <2>4, <2>5, SpillAssumption
  <2>7. StackInv(u)
    BY <2>3, <2>4, <2>6 DEF StackInv
  <2>8. StackKeys(s) = Append(StackKeys(u), p.key)
    BY <2>1, <2>2, <2>3, <2>4 DEF StackKeys
  <2>9. t.file \o t.resident # <<>>
    <3>1. t.len # 0
      <4>1. t.len \in Nat
        BY <2>1 DEF StackHolds
      <4>2. QED
        BY <4>1, <2>3
    <3>2. QED
      BY <2>1, <3>1, HoldsCount
  <2>10. StackKeys(s) # <<>>
    BY <2>1, <2>9 DEF StackKeys
  <2>11. QED
    BY <2>2, <2>7, <2>8, <2>10, <1>2 DEF p
<1>6. QED
  BY <1>4, <1>5

=============================================================================
