-------------------------- MODULE MCFactStoreWriter --------------------------
(* Three owned entries, two of them with the same key, one empty and one     *)
(* larger than the budget, and a streamed entry, over a queue of two.        *)
EXTENDS PersistSession, TLC

CONSTANTS a, b, big, s

MCKeyOf == a :> 1 @@ b :> 2 @@ big :> 2 @@ s :> 3
MCSizeOf == a :> 0 @@ b :> 2 @@ big :> 5 @@ s :> 9
=============================================================================
