-------------------------- MODULE MCPolicyOutcome --------------------------
(* Small instances of PolicyOutcome for TLC.           *)
EXTENDS PolicyOutcome, TLC

CONSTANTS p1, p2

MCAdminLists == {<< >>, <<p1>>, <<p1, p2>>}
MCFewLists == {<< >>, <<p1>>}
Symmetry == Permutations(Workers)
=============================================================================
