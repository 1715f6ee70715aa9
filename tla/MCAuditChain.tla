---------------------------- MODULE MCAuditChain ----------------------------
(* One process with two threads beside one with a single thread. *)
EXTENDS AuditVerify, TLC

CONSTANTS A, B

TwoAndOne == {<<A, 1>>, <<A, 2>>, <<B, 1>>}

Symmetry == Permutations(Key)
=============================================================================
