------------------------------ MODULE MCSessions ------------------------------
(* A browser with two tabs *)
EXTENDS Sessions, TLC

CONSTANTS t1, t2, c1, c2

Symmetry == Permutations(Tab) \cup Permutations(Call)
=============================================================================
