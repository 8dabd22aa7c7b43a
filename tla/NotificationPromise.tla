------------------------- MODULE NotificationPromise -------------------------
(***************************************************************************)
(* What the notification pipeline promises about a message, that is a pair *)
(* of an event and a channel: it is sent by one pass at a time, and once a *)
(* success has been recorded it is never sent again.  An attempt may end   *)
(* without a trace (crash, rollback) or with a recorded success.           *)
(*                                                                         *)
(* Three exceptions are part of the promise: the record of a message whose *)
(* dedupe key may be used again (Reusable) is forgotten with its event,    *)
(* the successes of a removed channel no longer bind, and neither does one *)
(* recorded before somebody asked for the message again.                   *)
(***************************************************************************)
CONSTANTS Channels,  \* where messages go
          Messages,  \* pairs of an event and a channel
          Reusable   \* those of them whose event may legitimately occur again

VARIABLES reached,   \* messages with a recorded success
          sending,   \* messages whose outcome is not recorded yet
          removed    \* channels that no longer exist

pvars == <<reached, sending, removed>>

Init == reached = {} /\ sending = {} /\ removed = {}

Begin(m) ==
    /\ m \in Messages \ sending
    /\ m \notin reached \/ m[2] \in removed
    /\ sending' = sending \cup {m}
    /\ UNCHANGED <<reached, removed>>

\* The attempts S end; those in ok are recorded as successes.
Settle(S, ok) ==
    /\ ok \subseteq S /\ S \subseteq sending
    /\ sending' = sending \ S
    /\ reached' = reached \cup ok
    /\ UNCHANGED removed

Remove(c) ==
    /\ removed' = removed \cup {c}
    /\ UNCHANGED <<reached, sending>>

Forget(F) ==
    /\ F \subseteq Reusable
    /\ reached' = reached \ F
    /\ UNCHANGED <<sending, removed>>

\* Somebody asks for m again.
Again(m) ==
    /\ reached' = reached \ {m}
    /\ UNCHANGED <<sending, removed>>

Next ==
    \/ \E m \in Messages : Begin(m) \/ Again(m)
    \/ \E S \in SUBSET sending : \E ok \in SUBSET S : Settle(S, ok)
    \/ \E c \in Channels : Remove(c)
    \/ \E F \in SUBSET Reusable : Forget(F)

Spec == Init /\ [][Next]_pvars
=============================================================================
