-------------------------- MODULE MCMemorySchedules --------------------------
(* Up to four units: empty, small and as large as a u64 can say. *)
EXTENDS MemorySchedules

CONSTANTS Sizes, MaxUnits

MCSources == UNION {[1..n -> Sizes] : n \in 0..MaxUnits}
=============================================================================
