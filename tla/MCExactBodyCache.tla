-------------------------- MODULE MCExactBodyCache --------------------------
(* Two keys that do not fit together, three flights, two callers, one clear. *)
EXTENDS ExactBodyCache, TLC

CONSTANTS k1, k2

MCBytes == k1 :> 2 @@ k2 :> 1
=============================================================================
