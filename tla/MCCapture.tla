----------------------------- MODULE MCCapture -----------------------------
(* Two receivers, two Informs of the selected CPE and one of another.    *)
EXTENDS InformCapture, TLC

CONSTANTS p1, p2, r1, r2, other

Symmetry == Permutations(Process) \cup Permutations(Selected)
=============================================================================
