----------------------------- MODULE MCAlwaysOn -----------------------------
EXTENDS AlwaysOn, TLC

CONSTANTS m1, m2, r1, p1, p2

Symmetry == Permutations(Manager) \cup Permutations(Pid)
=============================================================================
