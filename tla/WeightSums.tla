----------------------------- MODULE WeightSums -----------------------------
(***************************************************************************)
(* The sum of the weights f[x] over a finite set S, as the number of       *)
(* tokens <<x, i>> with i \in 1..f[x].  Every byte budget of the system    *)
(* (permits, queued payloads, cached bodies) is a counter that must equal  *)
(* such a sum; written as a cardinality it is open to proof without        *)
(* induction.                                                              *)
(***************************************************************************)
EXTENDS Naturals, FiniteSets

WeightTokens(f, S) == UNION {{x} \X (1..f[x]) : x \in S}

TotalWeight(f, S) == Cardinality(WeightTokens(f, S))

\* u64::saturating_sub, with which every budget gives bytes back.
SaturatingSub(a, b) == IF a >= b THEN a - b ELSE 0
=============================================================================
