----------------------------- MODULE MCPackage -----------------------------
(* Two create commands and a verify command with one output path.          *)
EXTENDS EvidencePackage, TLC

CONSTANTS p1, p2, r1

Symmetry == Permutations(Publisher)
=============================================================================
