------------------------------- MODULE CoinDay -------------------------------
(***************************************************************************)
(* What the daily task promises about the coins of one day: they are given *)
(* according to a plan.  A plan is made while the day is open, for one     *)
(* run at a time, and fits at that moment into the target of the day and   *)
(* above the protected coins, counting what earlier plans have given.  A   *)
(* coin is given only under a plan; it uses up a part of the plan unless   *)
(* the answer is lost, which is counted as an excess.  A plan may be       *)
(* dropped at any time.  The day is closed once, with a record that claims *)
(* no coin that was not given, and ends the plan.                          *)
(*                                                                         *)
(* Nothing is said of runs, requests, retries, restarts and row locks.     *)
(***************************************************************************)
EXTENDS Integers

CONSTANTS Target,    \* coins to give in a day
          Protected  \* coins to keep

VARIABLES given,    \* coins given today
          left,     \* coins left
          excess,   \* those of the given that no plan accounts for
          planned,  \* what the present plan has still to give
          closed,   \* whether the day's record is there
          claimed   \* how many coins it claims

cvars == <<given, left, excess, planned, closed, claimed>>

Init ==
    /\ given \in Nat /\ left \in Nat
    /\ excess = 0 /\ planned = 0
    /\ closed = FALSE /\ claimed = 0

Plan(n) ==
    /\ ~closed /\ planned = 0
    /\ given + n <= Target /\ Protected + n <= left
    /\ planned' = n
    /\ UNCHANGED <<given, left, excess, closed, claimed>>

Coin == planned > 0 /\ given' = given + 1 /\ left' = left - 1 /\ UNCHANGED <<closed, claimed>>

Give == Coin /\ planned' = planned - 1 /\ excess' = excess
Lose == Coin /\ planned' = planned /\ excess' = excess + 1

Drop == planned' = 0 /\ UNCHANGED <<given, left, excess, closed, claimed>>

Close ==
    /\ ~closed /\ closed' = TRUE
    /\ claimed' \in 0..given
    /\ planned' = 0
    /\ UNCHANGED <<given, left, excess>>

Next == (\E n \in 1..Target : Plan(n)) \/ Give \/ Lose \/ Drop \/ Close

Spec == Init /\ [][Next]_cvars
=============================================================================
