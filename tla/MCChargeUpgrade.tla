-------------------------- MODULE MCChargeUpgrade --------------------------
(* Small instances of ChargeUpgrade for TLC.                               *)
EXTENDS ChargeUpgrade, TLC

CONSTANTS c1, c2
Alike == Permutations(Charges)
=============================================================================
