---------------------------- MODULE MCDailyTask ----------------------------
(* Small instances of DailyTask for TLC.                                   *)
EXTENDS DailyTask, TLC

CONSTANTS r1, r2, r3

AlikeRuns == Permutations(Runs)
=============================================================================
