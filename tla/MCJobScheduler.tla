--------------------------- MODULE MCJobScheduler ---------------------------
(* Small instances of JobScheduler for TLC.                                *)
EXTENDS JobScheduler, TLC

CONSTANTS a1, n1, m1, q1
=============================================================================
