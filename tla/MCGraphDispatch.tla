--------------------------- MODULE MCGraphDispatch ---------------------------
EXTENDS GraphDispatch, TLC
MCSymmetry == Permutations(Procs) \union Permutations(Attempts)
=============================================================================
