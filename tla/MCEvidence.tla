------------------------------ MODULE MCEvidence ------------------------------
(* Small instances of Evidence. *)
EXTENDS Evidence

CONSTANTS a1, a2, r1, r2
=============================================================================
