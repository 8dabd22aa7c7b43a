--------------------------- MODULE ChargeUpgrade ---------------------------
(***************************************************************************)
(* Deploying the migration 0006_canonical_charge_keys: what it makes of    *)
(* the charge records and events an older version has left, the start of   *)
(* the application on either schema (main.py lifespan, readiness.py), and  *)
(* what collection, reconciliation, delivery, retry and cleanup then do    *)
(* with the outcome.                                                       *)
(*                                                                         *)
(* The older version identified a charge by its text and stored it again,  *)
(* with another event, when the supporter's name came out differently.     *)
(* The migration gives every record the key of its charge, keeps the       *)
(* oldest record of each and one of its events; it is one transaction.     *)
(*                                                                         *)
(* Rows are numbered in the order of their creation.  A record and the     *)
(* event that was enqueued with it have the same number.  One account, one *)
(* channel: an event that is delivered has told the owner of its charge.   *)
(***************************************************************************)
EXTENDS Naturals, FiniteSetsExt

CONSTANTS
    Charges,   \* the charges there are
    Legacy,    \* number of rows the older version has used
    MaxRows,   \* bound on the rows of both versions
    None

VARIABLES
    current,   \* the schema is the one this code expects
    app,       \* "down", "idle" (without scheduler) or "up"
    record,    \* row -> charge record, or None
    event,     \* row -> event in the outbox, or None
    told,      \* charge -> announcements since the migration
    due,       \* history: charges the migration found with events, none delivered
    closed,    \* history: those it found without event or with delivered ones only
    known      \* history: charges of which it found the supporter's name

past == <<due, closed, known>>
vars == <<current, app, record, event, told, past>>

Rows == 1..MaxRows
\* named: the name is more than the uid; recent: made within the lookback of
\* reconciliation, which is shorter than the retention of events.
Record == [charge : Charges, named : BOOLEAN, eligible : BOOLEAN, recent : BOOLEAN]
Status == {"pending", "delivered", "failed", "merged"}
\* key: the row whose event id is in the dedupe key; into: merged_into_outbox_id.
Event == [charge : Charges, status : Status, key : Rows, into : Rows \cup {None}]

ASSUME UpgradeAssumption ==
    /\ Legacy \in Nat /\ MaxRows \in Nat /\ Legacy <= MaxRows
    /\ None \notin Record /\ None \notin Event /\ None \notin Rows

TypeOK ==
    /\ current \in BOOLEAN /\ app \in {"down", "idle", "up"}
    /\ record \in [Rows -> Record \cup {None}]
    /\ event \in [Rows -> Event \cup {None}]
    /\ told \in [Charges -> Nat]
    /\ due \subseteq Charges /\ closed \subseteq Charges /\ known \subseteq Charges

Stored(r) == record[r] # None
Group(c) == {r \in Rows : Stored(r) /\ record[r].charge = c}
Events(c) == {r \in Rows : event[r] # None /\ event[r].charge = c}

\* Tables an older version may leave: an event belongs to its record; it may be
\* gone after its retention, and a record of the first scan never had one.
Init ==
    /\ current = FALSE /\ app = "down"
    /\ record \in [Rows -> [charge : Charges, named : BOOLEAN, eligible : {TRUE},
                            recent : BOOLEAN] \cup {None}]
    /\ \A r \in Rows : Stored(r) <=> r <= Legacy
    /\ \E status \in [1..Legacy -> {"pending", "delivered", "failed", "gone"}] :
          event = [r \in Rows |->
                     IF r > Legacy \/ status[r] = "gone" THEN None
                     ELSE [charge |-> record[r].charge, status |-> status[r],
                           key |-> r, into |-> None]]
    /\ told = [c \in Charges |-> 0] /\ due = {} /\ closed = {} /\ known = {}

-----------------------------------------------------------------------------
(* The migration.                                                          *)

Canonical(c) == Min(Group(c))

\* The event of the canonical record, or else the oldest one of the charge.
Keeper(c) == IF Canonical(c) \in Events(c) THEN Canonical(c) ELSE Min(Events(c))

MergedRecordEligible(r) ==
    [record[r] EXCEPT !.named = \E d \in Group(record[r].charge) : record[d].named]
MergedRecordPlain(r) == [record[r] EXCEPT !.eligible = FALSE]
\* The canonical record takes the name a duplicate may have, and is history.
MergedRecord(r) ==
    [record[r] EXCEPT !.eligible = FALSE,
                      !.named = \E d \in Group(record[r].charge) : record[d].named]

MergedEventUnmarked(r) ==
    IF r = Keeper(event[r].charge) THEN [event[r] EXCEPT !.key = Canonical(event[r].charge)]
    ELSE event[r]
MergedEventUnkeyed(r) ==
    LET c == event[r].charge
    IN  IF r = Keeper(c) THEN event[r] ELSE [event[r] EXCEPT !.status = "merged", !.into = Keeper(c)]
\* One event of the charge stays, under the key of the canonical record.
MergedEvent(r) ==
    LET c == event[r].charge
    IN  IF r = Keeper(c) THEN [event[r] EXCEPT !.key = Canonical(c)]
        ELSE [event[r] EXCEPT !.status = "merged", !.into = Keeper(c)]

\* alembic upgrade head, which the container runs before the application.
Upgrade ==
    /\ ~current /\ current' = TRUE
    /\ record' = [r \in Rows |-> IF Stored(r) /\ r = Canonical(record[r].charge)
                                 THEN MergedRecord(r) ELSE None]
    /\ event' = [r \in Rows |-> IF event[r] = None THEN None ELSE MergedEvent(r)]
    /\ due' = {c \in Charges : Events(c) # {} /\ \A r \in Events(c) : event[r].status # "delivered"}
    /\ closed' = {c \in Charges : Group(c) # {} /\ \A r \in Events(c) : event[r].status = "delivered"}
    /\ known' = {c \in Charges : \E r \in Group(c) : record[r].named}
    /\ UNCHANGED <<app, told>>

\* lifespan: without the expected revision the scheduler stays off, and does so
\* until the next start.
StartApp ==
    /\ app = "down" /\ app' = IF current THEN "up" ELSE "idle"
    /\ UNCHANGED <<current, record, event, told, past>>

StopApp ==
    /\ app # "down" /\ app' = "down"
    /\ UNCHANGED <<current, record, event, told, past>>

-----------------------------------------------------------------------------
(* This version at work.  The routes need its columns, and a job may be run   *)
(* by hand on a scheduler that was not started; only cleanup needs the timer, *)
(* which is started only on the current schema.                              *)

Serves == app # "down" /\ current

NewEvent(r, c) == [charge |-> c, status |-> "pending", key |-> r, into |-> None]

\* Collection meets a charge it has no record of; whether the charge is newer
\* than the watermark decides if it is announced.
CollectNew(c) == \E r \in Rows, named \in BOOLEAN, eligible \in BOOLEAN :
    /\ Serves /\ Group(c) = {}
    /\ r > Legacy /\ ~Stored(r) /\ event[r] = None
    /\ record' = [record EXCEPT ![r] = [charge |-> c, named |-> named, eligible |-> eligible,
                                        recent |-> TRUE]]
    /\ event' = IF eligible THEN [event EXCEPT ![r] = NewEvent(r, c)] ELSE event
    /\ UNCHANGED <<current, app, told, past>>

\* Or one it finds by its key: a name is filled in, and that is all.
CollectAgain(c) == \E r \in Group(c) :
    /\ Serves /\ ~record[r].named
    /\ record' = [record EXCEPT ![r].named = TRUE]
    /\ UNCHANGED <<current, app, event, told, past>>

\* Reconciliation makes up for a missing event of a recent, eligible record.
Reconcile(r) ==
    /\ Serves /\ Stored(r) /\ record[r].eligible /\ record[r].recent
    /\ event' = IF \E e \in Rows : event[e] # None /\ event[e].key = r THEN event
                ELSE [event EXCEPT ![r] = NewEvent(r, record[r].charge)]
    /\ UNCHANGED <<current, app, record, told, past>>

Waiting(r) == Serves /\ event[r] # None /\ event[r].status = "pending"

\* A delivery pass, or the attempt that exhausts the budget of an event.
Deliver(r) ==
    /\ Waiting(r)
    /\ event' = [event EXCEPT ![r].status = "delivered"]
    /\ told' = [told EXCEPT ![event[r].charge] = @ + 1]
    /\ UNCHANGED <<current, app, record, past>>
GiveUp(r) ==
    /\ Waiting(r)
    /\ event' = [event EXCEPT ![r].status = "failed"]
    /\ UNCHANGED <<current, app, record, told, past>>

RetryAny(r) ==
    /\ Serves /\ event[r] # None /\ event[r].status \in {"failed", "merged"}
    /\ event' = [event EXCEPT ![r].status = "pending"]
    /\ UNCHANGED <<current, app, record, told, past>>

\* POST /deliveries/{id}/retry of a failed delivery; never of a merged event.
Retry(r) ==
    /\ Serves /\ event[r] # None /\ event[r].status = "failed"
    /\ event' = [event EXCEPT ![r].status = "pending"]
    /\ UNCHANGED <<current, app, record, told, past>>

\* Time passes for a record; then cleanup_expired deletes its finished event.
Ages(r) ==
    /\ Stored(r) /\ record[r].recent
    /\ record' = [record EXCEPT ![r].recent = FALSE]
    /\ UNCHANGED <<current, app, event, told, past>>
CleanUp(r) ==
    /\ app = "up" /\ event[r] # None /\ event[r].status \in {"delivered", "failed"}
    /\ \A k \in Group(event[r].charge) : ~record[k].recent
    /\ event' = [event EXCEPT ![r] = None]
    /\ due' = due \ {event[r].charge}
    /\ UNCHANGED <<current, app, record, told, closed, known>>

Next ==
    \/ Upgrade \/ StartApp \/ StopApp
    \/ \E c \in Charges : CollectNew(c) \/ CollectAgain(c)
    \/ \E r \in Rows : \/ Reconcile(r) \/ Deliver(r) \/ GiveUp(r) \/ Retry(r)
                       \/ Ages(r) \/ CleanUp(r)

Spec == Init /\ [][Next]_vars

-----------------------------------------------------------------------------
(* Properties.                                                             *)

\* NoSecondTelling: once the schema is current a charge is announced at most
\* once more, whatever became of the events of its duplicates; and not at all if
\* the migration found it announced, or as history that never was to be.  A
\* charge of which one duplicate was announced and another is still pending
\* counts as due: it is told a second time in all.
NoSecondTelling == \A c \in Charges : told[c] <= IF c \in closed THEN 0 ELSE 1

\* NothingLost: a charge whose announcement was still due when the migration ran
\* has been announced since or has an event under the key of its record that is
\* to be sent or may be retried, until cleanup ends its retention; and a name
\* that a duplicate had is kept.
NothingLost ==
    /\ \A c \in due : \/ told[c] > 0
                      \/ \E e \in Events(c) : /\ event[e].status \in {"pending", "failed"}
                                              /\ event[e].key \in Group(c)
    /\ \A c \in known : \A r \in Group(c) : record[r].named
=============================================================================
