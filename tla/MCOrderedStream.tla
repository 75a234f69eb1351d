--------------------------- MODULE MCOrderedStream ---------------------------
(* Two workers, seven files, a window of four: the head of the order can be *)
(* slow, the third file is oversize and runs alone, the others fit the gate *)
(* together, so that the result channel fills up and the work queue is      *)
(* refilled.                                                                *)
EXTENDS OrderedStream

MCUnits == 0..(FileCount - 1)
MCWeight == [u \in MCUnits |-> IF u = 2 THEN 5 ELSE 1]
=============================================================================
