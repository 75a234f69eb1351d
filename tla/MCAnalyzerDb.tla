---------------------------- MODULE MCAnalyzerDb ----------------------------
EXTENDS AnalyzerDb, TLC

\* Version 1 of file 1 has one declaration less than version 0.
ShrinkingDeclCount == [f \in Files |-> [v \in Versions |-> IF f = 1 /\ v = 0 THEN 2 ELSE 1]]

\* Threads run the same code and are told apart by no property.
ThreadSymmetry == Permutations(Threads)
\* Edits and their invalidation while no query runs.
SerialSpec ==
  Init /\ [][Next /\ (vfsVars' # vfsVars => \A t \in Threads : at[t] = "idle")
                 /\ (pending # None => vfsVars' # vfsVars)]_vars
=============================================================================
