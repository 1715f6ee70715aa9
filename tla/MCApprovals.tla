---------------------------- MODULE MCApprovals ----------------------------
EXTENDS Approvals, TLC

CONSTANTS c1, c2, c3, cli, server

Symmetry == Permutations(Call)
=============================================================================
