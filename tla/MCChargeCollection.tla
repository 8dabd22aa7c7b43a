------------------------- MODULE MCChargeCollection -------------------------
(* Small instances of ChargeCollection for TLC.                            *)
EXTENDS ChargeCollection, TLC

CONSTANTS r1, r2

\* The account has charges when it is bound.
HistoryInit == Init /\ visible > 0
HistorySpec == HistoryInit /\ [][Next]_vars /\ Fairness

\* Charges 3 and 4 fall in the same second.
Tied == [c \in Charges |-> IF c < 4 THEN c ELSE c - 1]

AlikeRuns == Permutations(Runs)
=============================================================================
