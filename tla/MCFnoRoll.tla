------------------------------ MODULE MCFnoRoll ------------------------------
(* Instances of FnoRoll for TLC: two strikes.                              *)
EXTENDS FnoRoll

CONSTANTS near, far
=============================================================================
