--------------------------- MODULE MCCompilerVisit ---------------------------
(* Two workers, five items and a window of three on a gate of four: the     *)
(* second item is heavier than the gate, the first and the fourth may fail  *)
(* to be lowered, the third may fail to be visited.                         *)
EXTENDS CompilerVisit

MCUnits == 0..(ItemCount - 1)
MCWeight == [u \in MCUnits |-> IF u = 1 THEN 5 ELSE 2]
=============================================================================
