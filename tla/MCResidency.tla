----------------------------- MODULE MCResidency -----------------------------
(* Residency for TLC: interchangeable workers.                             *)
EXTENDS Residency

CONSTANTS w1, w2, w3
=============================================================================
