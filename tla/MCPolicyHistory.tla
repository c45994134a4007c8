-------------------------- MODULE MCPolicyHistory --------------------------
(* Small instances of PolicyHistory for TLC.                               *)
EXTENDS PolicyHistory, TLC

CONSTANTS p1, p2

MCAdminLists == {<< >>, <<p1>>}
Symmetry == Permutations(Workers)
=============================================================================
