--------------------------- MODULE MCVerification ---------------------------
(* More calls than slots, and a single thread.                           *)
EXTENDS Verification

CONSTANTS r1, r2, r3
=============================================================================
