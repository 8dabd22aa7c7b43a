---------------------------- MODULE ChargeLedger ----------------------------
(***************************************************************************)
(* What the collection of an account's charges promises: it is as if       *)
(* charges were recorded in single steps, each of which takes some of the  *)
(* charges made so far, decides for good which of them are announced, and  *)
(* may advance a frontier.  To be announced is to be recorded for the      *)
(* first time when newer than the frontier.  The frontier never goes back, *)
(* is the time of a recorded charge, and has no unrecorded one before it.  *)
(*                                                                         *)
(* Nothing is said of runs, pages, failures and the order of reading.      *)
(***************************************************************************)
EXTENDS Naturals

CONSTANTS Charges,  \* charges that may be made
          Time      \* charge -> when it is made; 0 is before all of them

VARIABLES made,       \* charges made so far
          recorded,   \* charges with a record
          announced,  \* those of them that are told to the owner
          frontier    \* how far the account has been collected, 0 at first

lvars == <<made, recorded, announced, frontier>>

Init == made \in SUBSET Charges /\ recorded = {} /\ announced = {} /\ frontier = 0

\* Charges are made in the order of time.
Make(c) ==
    /\ c \in Charges \ made /\ \A d \in made : Time[d] <= Time[c]
    /\ made' = made \cup {c}
    /\ UNCHANGED <<recorded, announced, frontier>>

Record(C, t) ==
    /\ recorded' = recorded \cup C
    /\ announced' = announced \cup {c \in C : frontier # 0 /\ Time[c] > frontier}
    /\ t >= frontier
    /\ t = frontier \/ \E d \in recorded' : Time[d] = t
    /\ \A c \in made : Time[c] < t => c \in recorded'
    /\ frontier' = t
    /\ UNCHANGED made

Next ==
    \/ \E c \in Charges : Make(c)
    \/ \E C \in SUBSET (made \ recorded), t \in {frontier} \cup {Time[c] : c \in made} : Record(C, t)

Spec == Init /\ [][Next]_lvars
=============================================================================
