----------------------------- MODULE MCAuditChain -----------------------------
(* Small instances of AuditChain.                                          *)
EXTENDS AuditChain, TLC

CONSTANTS w1, w2, w3

MCWriters2 == {w1, w2}
MCWriters3 == {w1, w2, w3}
Symmetry == Permutations(Writer)
=============================================================================
