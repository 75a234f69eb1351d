--------------------------- MODULE MCParserCache ---------------------------
EXTENDS ParserCache, TLC

\* Threads run the same code, contexts are only compared with each other, and no
\* property of this run tells two of either apart.
ThreadContextSymmetry == Permutations(Threads) \cup Permutations(Contexts)
=============================================================================
