------------------------------- MODULE MCVfs -------------------------------
(* Two spellings of one path and a second path with the same basename. *)
EXTENDS Vfs

MCKey == [n \in Names |-> IF n = "y/f" THEN "y/f" ELSE "x/f"]
MCBaseOf == [k \in {"x/f", "y/f"} |-> "f"]
MCEndsIn == [s \in Suffixes |-> IF s = "f" THEN {"x/f", "y/f"} ELSE {"x/f"}]
MCSuffixBase == [s \in Suffixes |-> "f"]
=============================================================================
