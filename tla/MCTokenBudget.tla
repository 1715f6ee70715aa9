--------------------------- MODULE MCTokenBudget ---------------------------
EXTENDS TokenBudget, TLC

Symmetry == Permutations(Thread)
=============================================================================
