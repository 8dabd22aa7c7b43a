------------------------ MODULE NotificationPipeline ------------------------
(***************************************************************************)
(* The notification pipeline of app/notifications/service.py and           *)
(* app/services/reconciliation.py: the outbox table, one delivery row per  *)
(* (event, channel), the delivery passes that drain the outbox, the hourly *)
(* reconciliation that repairs it, manual retries and the channel settings.*)
(*                                                                         *)
(* Delivery passes are coroutines of ONE event loop: `loop` names the pass *)
(* that is running, and a pass gives the loop up only while it awaits      *)
(* provider.send.  Endpoints declared with `def` run in a thread pool, so  *)
(* their transactions may fall between any two database accesses of a      *)
(* pass.  A pass works on rows it loaded earlier (expire_on_commit=False)  *)
(* and an UPDATE writes only the columns the pass changed.  PostgreSQL at  *)
(* READ COMMITTED: a row a pass has flushed but not committed is locked.   *)
(*                                                                         *)
(* Time is counted in units of 30 seconds; `wait` is how long a row's      *)
(* available_at still lies ahead, 0 when it has passed.                    *)
(***************************************************************************)
EXTENDS Integers, FiniteSets

CONSTANTS
    Users,        \* tenants
    EventTypes,   \* EVENT_TYPES
    Keys,         \* dedupe keys, one outbox row each
    Records,      \* the keys of charge records: their events are new_charge
    Channels,     \* notification channels, existing or still to be created
    Workers,      \* concurrent delivery passes of NOTIFICATION_RETRY jobs
    Clicks,       \* manual "retry this delivery" requests
    Selections,   \* the sets of (channel, event type) rules users submit
    Owner,        \* tenant of a key, channel or pass
    Kind,         \* event type of a key
    FailureKey,   \* the key scheduled:{job_id} of each tenant's retry job
    MaxAttempts,  \* MAX_ATTEMPTS
    BatchLimit,   \* how many events one pass selects (100 in the code)
    None          \* no key, no channel

ASSUME SetsAssumption ==
    /\ Records \subseteq Keys
    /\ None \notin Keys \cup Channels
    /\ Workers \cap {"free", "hung"} = {}
    /\ Selections \subseteq SUBSET (Channels \X EventTypes)

ASSUME FunctionsAssumption ==
    /\ Owner \in [Keys \cup Channels \cup Workers -> Users]
    /\ Kind \in [Keys -> EventTypes]
    /\ \A j, k \in Records : Kind[j] = Kind[k]
    /\ FailureKey \in [Users -> Keys \ Records]
    /\ \A u \in Users : Owner[FailureKey[u]] = u

ASSUME LimitsAssumption == MaxAttempts \in Nat \ {0} /\ BatchLimit \in Nat \ {0}

VARIABLES
    outbox,   \* key -> row of notification_outbox
    older,    \* pairs of keys in order of created_at
    dlv,      \* (key, channel) -> row of notification_deliveries
    chan,     \* channel -> "unborn", "on", "off" or "deleted"
    sub,      \* enabled subscriptions: pairs (channel, event type)
    stored,   \* notification_eligible charge records that are committed
    window,   \* those created within the reconciliation lookback
    loop,     \* the pass holding the event loop, "free", or "hung"
    pc,       \* pass -> "idle", "event", "channel" or "send"
    batch,    \* pass -> selected events not handled yet
    seen,     \* pass -> the event rows as they were selected
    cur,      \* pass -> event being delivered
    subs,     \* pass -> channels the event goes to
    todo,     \* pass -> those not visited yet
    at,       \* pass -> channel whose provider.send is awaited
    mine,     \* pass -> delivery rows changed in its open transaction
    base,     \* pass -> status those rows were loaded with, or "new"
    flushed,  \* pass -> channels whose rows are flushed, hence locked
    failing,  \* pass -> failures > 0
    req,      \* manual retry request -> what it has read
    audit,    \* what the reconciliation request under way has read
    done      \* history: pairs whose success has been committed, and that were
              \* not retried by hand since

database == <<outbox, older, dlv>>
settings == <<chan, sub>>
facts    == <<stored, window>>
worker   == <<pc, batch, seen, cur, subs, todo, at, mine, base, flushed, failing>>
vars     == <<database, settings, facts, loop, worker, req, audit, done>>

Statuses == {"none", "pending", "retry", "delivered", "failed", "succeeded"}
Row(s, n, t) == [st |-> s, attempts |-> n, wait |-> t]
NoRow == Row("none", 0, 0)
Rows == [st : Statuses, attempts : Nat, wait : Int]
Pairs == Keys \X Channels

Backoff(n) == 2^n
Exists(k) == outbox[k].st # "none"
\* Mistaken variants, named after their mistake, precede the definition they
\* vary; they are not part of Spec.  Each is caught by a property below.
DueIgnoringBudget(k) == outbox[k].st \in {"pending", "retry"} /\ outbox[k].wait <= 0
DueOnlyOnce(k) == outbox[k].st = "pending" /\ outbox[k].wait <= 0 /\ outbox[k].attempts < MaxAttempts
Due(k) == outbox[k].st \in {"pending", "retry"} /\ outbox[k].wait <= 0
                                                 /\ outbox[k].attempts < MaxAttempts

TargetsOfAnyone(k) == {c \in Channels : <<c, Kind[k]>> \in sub /\ chan[c] = "on"}
\* The join of enabled subscriptions and enabled channels of the event's owner.
Targets(k) == {c \in Channels : /\ <<c, Kind[k]>> \in sub
                                /\ chan[c] = "on"
                                /\ Owner[c] = Owner[k]}

\* Inserting keys K creates rows younger than all present ones.
AgeAfter(K) == older \cup ({j \in Keys : Exists(j)} \X K)
Enqueued(K) == [k \in Keys |-> IF k \in K /\ ~Exists(k) THEN Row("pending", 0, 0) ELSE outbox[k]]
Orders(K) == {R \in SUBSET (K \X K) : /\ \A j, k \in K : j # k => (<<j, k>> \in R <=> <<k, j>> \notin R)
                                      /\ \A k \in K : <<k, k>> \notin R
                                      /\ \A i, j, k \in K : <<i, j>> \in R /\ <<j, k>> \in R => <<i, k>> \in R}

\* A reconciliation request has read the status of the records it is to repair,
\* "none" if the event is missing, and the rows it is to add.
NoAudit == [st |-> [k \in Keys |-> "unread"], rows |-> {}]
Auditing == \E k \in Keys : audit.st[k] # "unread"

LockedRow(k, c) == \E w \in Workers : cur[w] = k /\ c \in flushed[w]

IdleReq == [pc |-> "idle", key |-> None, chan |-> None, event |-> NoRow]

\* A charge record may be stored without its event: the gap reconciliation repairs.
Init ==
    /\ outbox = [k \in Keys |-> NoRow]
    /\ older = {}
    /\ dlv = [p \in Pairs |-> NoRow]
    /\ chan \in [Channels -> {"unborn", "on", "off"}]
    /\ sub \in {s \in Selections : \A p \in s : chan[p[1]] # "unborn"}
    /\ stored \in SUBSET Records
    /\ window = stored
    /\ loop = "free"
    /\ pc = [w \in Workers |-> "idle"]
    /\ batch = [w \in Workers |-> {}]
    /\ seen = [w \in Workers |-> [k \in Keys |-> NoRow]]
    /\ cur = [w \in Workers |-> None]
    /\ subs = [w \in Workers |-> {}]
    /\ todo = [w \in Workers |-> {}]
    /\ at = [w \in Workers |-> None]
    /\ mine = [w \in Workers |-> [c \in Channels |-> NoRow]]
    /\ base = [w \in Workers |-> [c \in Channels |-> "none"]]
    /\ flushed = [w \in Workers |-> {}]
    /\ failing = [w \in Workers |-> FALSE]
    /\ req = [q \in Clicks |-> IdleReq]
    /\ audit = NoAudit
    /\ done = {}

-----------------------------------------------------------------------------
(* The delivery pass: process_pending_summary and deliver_event.           *)

SelectableOfAnyone(u) == {k \in Keys : Due(k)}
Selectable(u) == {k \in Keys : Due(k) /\ Owner[k] = u}
Batch(u) == {k \in Selectable(u) :
                Cardinality({j \in Selectable(u) : <<j, k>> \in older}) < BatchLimit}

\* Go on with the events of b, or end the pass and release the loop.
Continue(w, b) ==
    /\ batch' = [batch EXCEPT ![w] = b]
    /\ seen' = [seen EXCEPT ![w] = [k \in Keys |-> IF k \in b THEN seen[w][k] ELSE NoRow]]
    /\ pc' = [pc EXCEPT ![w] = IF b = {} THEN "idle" ELSE "event"]
    /\ loop' = IF b = {} THEN "free" ELSE w
    /\ cur' = [cur EXCEPT ![w] = None]
    /\ subs' = [subs EXCEPT ![w] = {}]
    /\ todo' = [todo EXCEPT ![w] = {}]
    /\ at' = [at EXCEPT ![w] = None]
    /\ mine' = [mine EXCEPT ![w] = [c \in Channels |-> NoRow]]
    /\ base' = [base EXCEPT ![w] = [c \in Channels |-> "none"]]
    /\ flushed' = [flushed EXCEPT ![w] = {}]
    /\ failing' = [failing EXCEPT ![w] = FALSE]

\* The select of a pass; an empty result ends the pass at once.
Scan(w) ==
    /\ loop = "free" /\ pc[w] = "idle"
    /\ Batch(Owner[w]) # {}
    /\ batch' = [batch EXCEPT ![w] = Batch(Owner[w])]
    /\ seen' = [seen EXCEPT ![w] = [k \in Keys |-> IF k \in Batch(Owner[w]) THEN outbox[k] ELSE NoRow]]
    /\ pc' = [pc EXCEPT ![w] = "event"]
    /\ loop' = w
    /\ UNCHANGED <<database, settings, facts, cur, subs, todo, at, mine, base, flushed, failing, req, audit, done>>

\* The oldest event of the batch; one without subscriber goes back to pending.
Oldest(w, k) == k \in batch[w] /\ \A j \in batch[w] : <<j, k>> \notin older

PutBack(w, k) ==
    /\ Targets(k) = {}
    /\ outbox' = [outbox EXCEPT ![k] = IF seen[w][k].st = "pending" THEN @
                                                ELSE Row("pending", @.attempts, @.wait)]
    /\ Continue(w, batch[w] \ {k})

Take(w, k) ==
    /\ Targets(k) # {}
    /\ cur' = [cur EXCEPT ![w] = k]
    /\ subs' = [subs EXCEPT ![w] = Targets(k)]
    /\ todo' = [todo EXCEPT ![w] = Targets(k)]
    /\ pc' = [pc EXCEPT ![w] = "channel"]
    /\ UNCHANGED <<outbox, loop, batch, seen, at, mine, base, flushed, failing>>

Open(w) ==
    /\ loop = w /\ pc[w] = "event"
    /\ \E k \in batch[w] : Oldest(w, k) /\ (PutBack(w, k) \/ Take(w, k))
    /\ UNCHANGED <<older, dlv, settings, facts, req, audit, done>>

\* Every query first flushes the rows changed so far; so does the commit.
Dirty(w) == {c \in Channels : mine[w][c].st # "none"}
Waiting(w) == \E c \in Dirty(w) \ flushed[w], v \in Workers \ {w} : cur[v] = cur[w] /\ c \in flushed[v]
Conflict(w) == \E c \in Dirty(w) \ flushed[w] :
                  base[w][c] = "new" /\ (dlv[<<cur[w], c>>].st # "none" \/ chan[c] = "deleted")

\* Pass w needs a row that the reconciliation request has written but not
\* committed, a delivery or the event it closes, while the request itself waits
\* for a row that pass v has flushed.
Entangled(w, v) ==
    /\ \E c \in flushed[v] : <<cur[v], c>> \in audit.rows
    /\ \/ \E c \in Dirty(w) \ flushed[w] : base[w][c] = "new" /\ <<cur[w], c>> \in audit.rows
       \/ todo[w] = {} /\ audit.st[cur[w]] = "delivered"

\* A succeeded channel is skipped; one in backoff counts as a failure.
Skip(w, c, row) ==
    /\ row.st = "succeeded" \/ row.wait > 0
    /\ todo' = [todo EXCEPT ![w] = @ \ {c}]
    /\ failing' = [failing EXCEPT ![w] = @ \/ row.st # "succeeded"]
    /\ UNCHANGED <<loop, pc, at, mine, base>>

StartSendAgain(w, c, row) ==
    /\ row.wait <= 0
    /\ mine' = [mine EXCEPT ![w][c] = Row("pending", row.attempts + 1, 0)]
    /\ base' = [base EXCEPT ![w][c] = IF row.st = "none" THEN "new" ELSE row.st]
    /\ at' = [at EXCEPT ![w] = c]
    /\ pc' = [pc EXCEPT ![w] = "send"]
    /\ loop' = "free"
    /\ UNCHANGED <<todo, failing>>

\* Otherwise the attempt is counted and provider.send awaited.
StartSend(w, c, row) ==
    /\ row.st # "succeeded" /\ row.wait <= 0
    /\ mine' = [mine EXCEPT ![w][c] = Row("pending", row.attempts + 1, 0)]
    /\ base' = [base EXCEPT ![w][c] = IF row.st = "none" THEN "new" ELSE row.st]
    /\ at' = [at EXCEPT ![w] = c]
    /\ pc' = [pc EXCEPT ![w] = "send"]
    /\ loop' = "free"
    /\ UNCHANGED <<todo, failing>>

\* One iteration of the loop over subscriptions, up to the await.
Examine(w) ==
    /\ loop = w /\ pc[w] = "channel"
    /\ ~Waiting(w) /\ ~Conflict(w)
    /\ \E c \in todo[w] : \/ Skip(w, c, dlv[<<cur[w], c>>])
                          \/ StartSend(w, c, dlv[<<cur[w], c>>])
    /\ flushed' = [flushed EXCEPT ![w] = Dirty(w)]
    /\ UNCHANGED <<database, settings, facts, batch, seen, cur, subs, req, audit, done>>

\* provider.send returns success or rejection, or raises.
Respond(w, ok) ==
    /\ loop = "free" /\ pc[w] = "send"
    /\ LET n == mine[w][at[w]].attempts IN
       mine' = [mine EXCEPT ![w][at[w]] = IF ok THEN Row("succeeded", n, 0)
                                                ELSE Row("failed", n, Backoff(n))]
    /\ failing' = [failing EXCEPT ![w] = @ \/ ~ok]
    /\ todo' = [todo EXCEPT ![w] = @ \ {at[w]}]
    /\ at' = [at EXCEPT ![w] = None]
    /\ pc' = [pc EXCEPT ![w] = "channel"]
    /\ loop' = w
    /\ UNCHANGED <<database, settings, facts, batch, seen, cur, subs, base, flushed, req, audit, done>>

\* The row an UPDATE or INSERT of the pass leaves: unchanged columns keep the
\* committed value, and a row whose channel was deleted is out of reach.
Merged(w, c) ==
    LET m == mine[w][c]  row == dlv[<<cur[w], c>>] IN
    IF base[w][c] # "new" /\ row.st = "none" THEN NoRow
    ELSE Row(IF m.st = base[w][c] THEN row.st ELSE m.st,
             m.attempts,
             IF m.st = "succeeded" THEN row.wait ELSE m.wait)

ClosedByAnySuccess(w) == IF ~failing[w] \/ \E c \in Channels : mine[w][c].st = "succeeded" THEN "delivered"
                         ELSE IF seen[w][cur[w]].attempts + 1 >= MaxAttempts THEN "failed" ELSE "retry"
ClosedStatus(w) == IF ~failing[w] THEN "delivered"
                   ELSE IF seen[w][cur[w]].attempts + 1 >= MaxAttempts THEN "failed" ELSE "retry"

\* All channels visited: count the attempt, settle the event, commit.
Close(w) ==
    /\ loop = w /\ pc[w] = "channel" /\ todo[w] = {}
    /\ ~Waiting(w) /\ ~Conflict(w)
    /\ LET k == cur[w]  n == seen[w][k].attempts + 1  st == ClosedStatus(w) IN
        /\ outbox' = [outbox EXCEPT ![k] =
                        Row(IF st = seen[w][k].st THEN @.st ELSE st, n,
                            IF st = "retry" THEN Backoff(n) ELSE @.wait)]
        /\ dlv' = [p \in Pairs |-> IF p[1] = k /\ p[2] \in Dirty(w) THEN Merged(w, p[2]) ELSE dlv[p]]
        /\ done' = done \cup {<<k, c>> : c \in {d \in Dirty(w) : mine[w][d].st = "succeeded"}}
        /\ Continue(w, batch[w] \ {k})
    /\ UNCHANGED <<older, settings, facts, req, audit>>

\* A flush hits a unique or foreign key, or PostgreSQL ends the pass because it
\* and a reconciliation request wait for each other: the pass rolls back and
\* dispatch reports the failed job as an event of its own.
Abort(w) ==
    /\ loop = w /\ pc[w] = "channel" /\ (Conflict(w) \/ Entangled(w, w))
    /\ outbox' = Enqueued({FailureKey[Owner[w]]})
    /\ older' = IF Exists(FailureKey[Owner[w]]) THEN older ELSE AgeAfter({FailureKey[Owner[w]]})
    /\ Continue(w, {})
    /\ UNCHANGED <<dlv, settings, facts, req, audit, done>>

\* A flush waits for a row another suspended pass has locked, be it through a
\* reconciliation request: both passes share the thread, so the event loop
\* never runs again.
Hang(w) ==
    /\ loop = w /\ pc[w] = "channel"
    /\ Waiting(w) \/ \E v \in Workers \ {w} : Entangled(w, v)
    /\ loop' = "hung"
    /\ UNCHANGED <<database, settings, facts, worker, req, audit, done>>

\* Process restart, graceful or not: open transactions roll back, passes end.
Restart ==
    /\ loop' = "free"
    /\ pc' = [w \in Workers |-> "idle"]
    /\ batch' = [w \in Workers |-> {}]
    /\ seen' = [w \in Workers |-> [k \in Keys |-> NoRow]]
    /\ cur' = [w \in Workers |-> None]
    /\ subs' = [w \in Workers |-> {}]
    /\ todo' = [w \in Workers |-> {}]
    /\ at' = [w \in Workers |-> None]
    /\ mine' = [w \in Workers |-> [c \in Channels |-> NoRow]]
    /\ base' = [w \in Workers |-> [c \in Channels |-> "none"]]
    /\ flushed' = [w \in Workers |-> {}]
    /\ failing' = [w \in Workers |-> FALSE]
    /\ req' = [q \in Clicks |-> IF req[q].pc = "read" THEN [IdleReq EXCEPT !.pc = "done"] ELSE req[q]]
    /\ audit' = NoAudit
    /\ UNCHANGED <<database, settings, facts, done>>

-----------------------------------------------------------------------------
(* Events and charge records.                                              *)

\* An event of another service (coupon, daily task, collection failure).
Enqueue(k) ==
    /\ k \in Keys \ Records /\ ~Exists(k)
    /\ outbox' = Enqueued({k})
    /\ older' = AgeAfter({k})
    /\ UNCHANGED <<dlv, settings, facts, loop, worker, req, audit, done>>

StoreOnlyEvent(r) ==
    /\ r \in Records \ stored
    /\ window' = window \cup {r}
    /\ outbox' = Enqueued({r})
    /\ older' = IF Exists(r) THEN older ELSE AgeAfter({r})
    /\ UNCHANGED <<dlv, settings, stored, loop, worker, req, audit, done>>

\* Collection commits a new eligible record together with its event.
Store(r) ==
    /\ r \in Records \ stored
    /\ stored' = stored \cup {r}
    /\ window' = window \cup {r}
    /\ outbox' = Enqueued({r})
    /\ older' = IF Exists(r) THEN older ELSE AgeAfter({r})
    /\ UNCHANGED <<dlv, settings, loop, worker, req, audit, done>>

\* The record's age passes the lookback.
LeaveWindow(r) ==
    /\ r \in window
    /\ window' = window \ {r}
    /\ UNCHANGED <<database, settings, stored, loop, worker, req, audit, done>>

CleanupTooEarly(D) ==
    /\ D # {} /\ loop = "free"
    /\ \A k \in D : outbox[k].st \in {"delivered", "failed"}
    /\ outbox' = [k \in Keys |-> IF k \in D THEN NoRow ELSE outbox[k]]
    /\ dlv' = [p \in Pairs |-> IF p[1] \in D THEN NoRow ELSE dlv[p]]
    /\ older' = {p \in older : p[1] \notin D /\ p[2] \notin D}
    /\ done' = {p \in done : p[1] \notin D \ Records}
    /\ UNCHANGED <<settings, facts, loop, worker, req, audit>>

\* cleanup_expired: settled events older than the retention, deliveries
\* cascading.  The retention is at least 7 days and the lookback at most 7.
Cleanup(D) ==
    /\ D # {} /\ loop = "free"
    /\ \A k \in D : /\ outbox[k].st \in {"delivered", "failed"}
                    /\ k \notin window
                    /\ \A w \in Workers : k \notin batch[w]
                    /\ \A q \in Clicks : req[q].pc = "read" => req[q].key # k
                    /\ audit.st[k] = "unread"
    /\ outbox' = [k \in Keys |-> IF k \in D THEN NoRow ELSE outbox[k]]
    /\ dlv' = [p \in Pairs |-> IF p[1] \in D THEN NoRow ELSE dlv[p]]
    /\ older' = {p \in older : p[1] \notin D /\ p[2] \notin D}
    /\ done' = {p \in done : p[1] \notin D \ Records}
    /\ UNCHANGED <<settings, facts, loop, worker, req, audit>>

-----------------------------------------------------------------------------
(* Reconciliation: _run_locked over the records in the lookback.           *)

MissingInFailed(r) == {c \in Targets(r) : dlv[<<r, c>>].st = "none"}
Missing(r) == IF outbox[r].st = "failed" THEN {} ELSE {c \in Targets(r) : dlv[<<r, c>>].st = "none"}
RepairsWithoutLookback == {p \in Pairs : p[1] \in stored /\ p[2] \in Missing(p[1])}
Repairs == {p \in Pairs : p[1] \in window /\ p[2] \in Missing(p[1])}

GapsWithSubscriber == {r \in window : ~Exists(r) /\ Targets(r) # {}}
Gaps == {r \in window : ~Exists(r)}

\* Delivered events that gained a channel are delivered again.
Requeued == {k \in window : outbox[k].st = "delivered" /\ Missing(k) # {}}

\* The events created, the deliveries added and the events requeued.
Reconciled(G, P, Q) ==
    /\ outbox' = [k \in Keys |-> IF k \in G THEN Row("pending", 0, 0)
                                 ELSE IF k \in Q THEN Row("retry", outbox[k].attempts, 0) ELSE outbox[k]]
    /\ \E R \in Orders(G) : older' = AgeAfter(G) \cup R
    /\ dlv' = [p \in Pairs |-> IF p \in P THEN Row("pending", 0, 0) ELSE dlv[p]]
    /\ UNCHANGED <<settings, facts, worker, req, done>>

LockedRepair == \E p \in Repairs : LockedRow(p[1], p[2])

\* The hourly run executes on the event loop: if it must wait for a row of a
\* suspended pass, nothing can ever release it.  It is skipped while a request
\* holds _reconciliation_lock.
ReconcileOnLoop ==
    /\ loop = "free" /\ ~Auditing
    /\ \/ /\ ~LockedRepair
          /\ Reconciled(Gaps, Repairs, Requeued)
          /\ UNCHANGED <<loop, audit>>
       \/ /\ LockedRepair
          /\ loop' = "hung"
          /\ UNCHANGED <<database, settings, facts, worker, req, audit, done>>

\* POST /reconcile runs in a thread: it reads the records one after the other,
\* without locking what it reads ...
ReconcileRead(r) ==
    /\ audit.st[r] = "unread"
    /\ r \in Gaps \/ \E p \in Repairs : p[1] = r
    /\ audit' = [st |-> [audit.st EXCEPT ![r] = outbox[r].st],
                 rows |-> audit.rows \cup {p \in Repairs : p[1] = r}]
    /\ UNCHANGED <<database, settings, facts, loop, worker, req, done>>

LockedAudit == \E p \in audit.rows : LockedRow(p[1], p[2])

\* A record for which a row has appeared or a channel was deleted since: its
\* inserts hit a unique or foreign key and its savepoint is rolled back.
Overtaken(r) == \E p \in audit.rows : p[1] = r /\ (dlv[p].st # "none" \/ chan[p[2]] = "deleted")

\* ... then waits for locked rows, writes what it has found missing, whatever
\* became of the events meanwhile, and commits.
ReconcileWrite ==
    /\ Auditing /\ ~LockedAudit
    /\ LET A(st) == {k \in Keys : audit.st[k] = st /\ ~Overtaken(k)}
       IN  Reconciled(A("none"), {p \in audit.rows : ~Overtaken(p[1])}, A("delivered"))
    /\ audit' = NoAudit
    /\ loop' = loop

-----------------------------------------------------------------------------
(* Endpoints that run in the thread pool.                                  *)

ChannelRules(c, s) == {p \in sub : p[1] # c} \cup {p \in s : p[1] = c}

CreateChannel(c, on, s) ==
    /\ chan[c] = "unborn"
    /\ chan' = [chan EXCEPT ![c] = IF on THEN "on" ELSE "off"]
    /\ sub' = ChannelRules(c, s)
    /\ UNCHANGED <<database, facts, loop, worker, req, audit, done>>

UpdateChannel(c, on, s) ==
    /\ chan[c] \in {"on", "off"}
    /\ chan' = [chan EXCEPT ![c] = IF on THEN "on" ELSE "off"]
    /\ sub' = ChannelRules(c, s)
    /\ UNCHANGED <<database, facts, loop, worker, req, audit, done>>

SetChannelEnabled(c, on) ==
    /\ chan[c] \in {"on", "off"}
    /\ chan' = [chan EXCEPT ![c] = IF on THEN "on" ELSE "off"]
    /\ UNCHANGED <<database, sub, facts, loop, worker, req, audit, done>>

\* The channel's deliveries lose their channel_id; a locked one delays it.
DeleteChannel(c) ==
    /\ chan[c] \in {"on", "off"}
    /\ \A w \in Workers : c \notin flushed[w]
    /\ chan' = [chan EXCEPT ![c] = "deleted"]
    /\ sub' = {p \in sub : p[1] # c}
    /\ dlv' = [p \in Pairs |-> IF p[2] = c THEN NoRow ELSE dlv[p]]
    /\ UNCHANGED <<outbox, older, facts, loop, worker, req, audit, done>>

\* PUT /subscriptions replaces the rules of all the user's channels.
UpdateSubscriptions(u, s) ==
    /\ \A p \in s : Owner[p[1]] = u /\ chan[p[1]] \in {"on", "off"}
    /\ sub' = {p \in sub : Owner[p[1]] # u} \cup s
    /\ UNCHANGED <<database, chan, facts, loop, worker, req, audit, done>>

\* retry_delivery reads and checks the rows ...
ClickRead(q) ==
    /\ req[q].pc = "idle"
    /\ \E k \in Keys, c \in Channels :
        /\ dlv[<<k, c>>].st = "failed" /\ Exists(k) /\ chan[c] = "on"
        /\ req' = [req EXCEPT ![q] = [pc |-> "read", key |-> k, chan |-> c, event |-> outbox[k]]]
    /\ UNCHANGED <<database, settings, facts, loop, worker, audit, done>>

\* ... and then resets both retry budgets, whatever they are by now.  From then
\* on the message is due again: a success recorded before binds no longer.
ClickWrite(q) ==
    LET k == req[q].key  c == req[q].chan  e == req[q].event IN
    /\ req[q].pc = "read" /\ ~LockedRow(k, c)
    /\ req' = [req EXCEPT ![q].pc = "done", ![q].event = NoRow]
    /\ done' = done \ {<<k, c>>}
    /\ outbox' = [outbox EXCEPT ![k] =
                    IF @.st = "none" THEN @
                    ELSE Row(IF e.st = "retry" THEN @.st ELSE "retry",
                             IF e.attempts = 0 THEN @.attempts ELSE 0, 0)]
    /\ dlv' = [dlv EXCEPT ![<<k, c>>] = IF @.st = "none" THEN @ ELSE Row("pending", 0, 0)]
    /\ UNCHANGED <<older, settings, facts, loop, worker, audit>>

-----------------------------------------------------------------------------
Sooner(row) == IF row.wait > 0 THEN [row EXCEPT !.wait = @ - 1] ELSE row

\* Time passes only while the loop is idle and no request is being handled,
\* unless reconciliation waits for a lock: code between two awaits is instant.
Tick ==
    /\ loop = "free"
    /\ \A q \in Clicks : req[q].pc # "read"
    /\ Auditing => LockedAudit
    /\ \/ \E k \in Keys : outbox[k].wait > 0
       \/ \E p \in Pairs : dlv[p].wait > 0
       \/ \E w \in Workers, c \in Channels : mine[w][c].wait > 0
    /\ outbox' = [k \in Keys |-> Sooner(outbox[k])]
    /\ dlv' = [p \in Pairs |-> Sooner(dlv[p])]
    /\ mine' = [w \in Workers |-> [c \in Channels |-> Sooner(mine[w][c])]]
    /\ UNCHANGED <<older, settings, facts, loop, pc, batch, seen, cur, subs, todo, at,
                   base, flushed, failing, req, audit, done>>

Pass(w) == Scan(w) \/ Open(w) \/ Examine(w) \/ Respond(w, TRUE) \/ Respond(w, FALSE)
           \/ Close(w) \/ Abort(w) \/ Hang(w)

Settings ==
    \/ \E c \in Channels, on \in BOOLEAN, s \in Selections : CreateChannel(c, on, s) \/ UpdateChannel(c, on, s)
    \/ \E c \in Channels, on \in BOOLEAN : SetChannelEnabled(c, on)
    \/ \E c \in Channels : DeleteChannel(c)
    \/ \E u \in Users, s \in Selections : UpdateSubscriptions(u, s)

Next ==
    \/ \E w \in Workers : Pass(w)
    \/ \E k \in Keys : Enqueue(k)
    \/ \E r \in Records : Store(r) \/ LeaveWindow(r) \/ ReconcileRead(r)
    \/ \E D \in SUBSET Keys : Cleanup(D)
    \/ ReconcileOnLoop \/ ReconcileWrite
    \/ Settings
    \/ \E q \in Clicks : ClickRead(q) \/ ClickWrite(q)
    \/ Restart
    \/ Tick

Spec == Init /\ [][Next]_vars

\* The retry job fires every minute and HTTP calls time out; a request that has
\* read its rows goes on to write them, and a lock it waits for is granted in
\* turn.  Between two of its runs the loop is idle, so time passes and the
\* hourly job gets its turn.  The process is not restarted forever.
Fairness == /\ \A w \in Workers : WF_vars(Pass(w))
            /\ \A q \in Clicks : WF_vars(ClickWrite(q))
            /\ SF_vars(Tick)
            /\ SF_vars(ReconcileOnLoop)
            /\ SF_vars(ReconcileWrite)
            /\ <>[][~Restart]_vars

FairSpec == Spec /\ Fairness

(***************************************************************************)
(* Properties.                                                             *)
(***************************************************************************)

\* A pass that delivers has an event, and one that sends has a channel.
Focused == \A w \in Workers : /\ pc[w] \in {"channel", "send"} => cur[w] \in Keys
                              /\ pc[w] = "send" => at[w] \in Channels

\* Every variable keeps its type.
TypeOK ==
    /\ outbox \in [Keys -> Rows]
    /\ older \subseteq Keys \X Keys
    /\ dlv \in [Pairs -> Rows]
    /\ chan \in [Channels -> {"unborn", "on", "off", "deleted"}]
    /\ sub \subseteq Channels \X EventTypes
    /\ stored \subseteq Records
    /\ window \subseteq stored
    /\ loop \in Workers \cup {"free", "hung"}
    /\ pc \in [Workers -> {"idle", "event", "channel", "send"}]
    /\ Focused
    /\ batch \in [Workers -> SUBSET Keys]
    /\ seen \in [Workers -> [Keys -> Rows]]
    /\ cur \in [Workers -> Keys \cup {None}]
    /\ subs \in [Workers -> SUBSET Channels]
    /\ todo \in [Workers -> SUBSET Channels]
    /\ at \in [Workers -> Channels \cup {None}]
    /\ mine \in [Workers -> [Channels -> Rows]]
    /\ base \in [Workers -> [Channels -> Statuses \cup {"new"}]]
    /\ flushed \in [Workers -> SUBSET Channels]
    /\ failing \in [Workers -> BOOLEAN]
    /\ req \in [Clicks -> [pc : {"idle", "read", "done"}, key : Keys \cup {None},
                           chan : Channels \cup {None}, event : Rows]]
    /\ audit \in [st : [Keys -> Statuses \cup {"unread"}], rows : SUBSET Pairs]
    /\ done \subseteq Pairs

\* The inductive invariant behind NeverResent, in named parts.
\* A pass holds only events of its own tenant that exist, and delivers one of them.
OwnEvents ==
    \A w \in Workers :
        /\ \A k \in batch[w] : Owner[k] = Owner[w] /\ Exists(k)
        /\ cur[w] # None => cur[w] \in batch[w]
        /\ pc[w] \in {"channel", "send"} <=> cur[w] # None

\* Rows are changed only while an event is delivered; the channels still to
\* visit have none, except the one being sent to.
OpenRows ==
    \A w \in Workers :
        /\ cur[w] = None => Dirty(w) = {}
        /\ pc[w] = "channel" => todo[w] \cap Dirty(w) = {}
        /\ pc[w] = "send" => at[w] \in todo[w] /\ todo[w] \cap Dirty(w) = {at[w]}

\* A changed row was loaded from a row that is still there, not succeeded.
LoadedRows ==
    \A w \in Workers : \A c \in Dirty(w) :
        /\ base[w][c] # "succeeded"
        /\ base[w][c] # "new" => dlv[<<cur[w], c>>].st # "none" \/ chan[c] = "deleted"

\* No pass has in its transaction a message with a recorded success.
NotInProgress == \A w \in Workers : \A c \in Dirty(w) : <<cur[w], c>> \in done => chan[c] = "deleted"

\* A recorded success shows in its row until the event is cleaned up, and then
\* the record is too old to be reconciled: the retention covers the lookback.
Remembered ==
    \A p \in done : \/ chan[p[2]] = "deleted"
                    \/ Exists(p[1]) /\ dlv[p].st = "succeeded"
                    \/ ~Exists(p[1]) /\ p[1] \in stored \ window

\* The event of a charge record exists only if the record is stored.
EventsHaveRecords == \A r \in Records : Exists(r) => r \in stored

Books == OwnEvents /\ OpenRows /\ LoadedRows /\ NotInProgress /\ Remembered /\ EventsHaveRecords

\* What a reconciliation request may rely on when it writes: the records it has
\* read are stored, an event it found is still there, and one it found missing
\* is still missing, with no success recorded; it adds to no event that it
\* found given up.
Audited ==
    /\ \A p \in audit.rows : audit.st[p[1]] \notin {"unread", "failed"}
    /\ \A k \in Keys : audit.st[k] # "unread" =>
           /\ k \in stored
           /\ audit.st[k] = "none" <=> ~Exists(k)
           /\ ~Exists(k) => \A c \in Channels : <<k, c>> \in done => chan[c] = "deleted"

Bookkeeping == Books /\ Audited

\* README "a delivered notification is never resent": no pass starts a send to
\* a channel for which a success has been committed.  The guarantee rests on
\* the delivery rows alone (deliver_event skips succeeded ones), across crashes,
\* rollbacks, reconciliation and cleanup.  It does not extend to a channel that
\* is deleted under a pass: deletion detaches the succeeded row.
StartsSend(w) == pc[w] # "send" /\ pc'[w] = "send"
NeverResent ==
    [][\A w \in Workers : StartsSend(w) /\ chan[at'[w]] # "deleted" => <<cur[w], at'[w]>> \notin done]_vars

\* The manual retries written for k, and for k on c.
Retries(k) == {q \in Clicks : req[q].pc = "done" /\ req[q].key = k}
Asked(k, c) == \E q \in Retries(k) : req[q].chan = c
Granted(k) == MaxAttempts * Cardinality(Retries(k))

\* An event is closed as delivered only when every channel it was opened for
\* has a committed success, except channels deleted in the meantime and those a
\* manual retry has reset under the pass: it checks and writes in two steps.
DeliveredMeansReached ==
    [][\A k \in Keys : outbox[k].st # "delivered" /\ outbox'[k].st = "delivered"
            => \E w \in Workers : /\ cur[w] = k
                                  /\ \A c \in subs[w] : \/ chan[c] = "deleted" \/ Asked(k, c)
                                                         \/ dlv'[<<k, c>>].st = "succeeded"]_vars

\* Every attempt on a channel is paid from the event's budget, and the budget
\* is never overdrawn: rollbacks and requeues keep both counters in step.  A
\* manual retry grants the channels of its event one budget more, as it resets
\* the event and one delivery only.
WithinBudget == \A k \in Keys :
    /\ outbox[k].attempts <= MaxAttempts
    /\ \A c \in Channels : dlv[<<k, c>>].attempts <= outbox[k].attempts + Granted(k)

\* A reconciliation request writes what it decided before k failed.
Overtook(k) == audit.st[k] \notin {"unread", "failed"} /\ audit' = NoAudit

\* operations.md "an exhausted outbox is only audited": but for a manual retry
\* a failed event is never revived, nothing is sent for it and no delivery is
\* added, unless a reconciliation request read the event before a pass gave it
\* up; even that gives no attempt back.
FailedIsFinal ==
    [][\A k \in Keys : outbox[k].st = "failed" /\ Retries(k)' = Retries(k) =>
            /\ \/ Overtook(k)
               \/ /\ outbox'[k].st \in {"failed", "none"}
                  /\ \A c \in Channels : dlv[<<k, c>>].st = "none" => dlv'[<<k, c>>].st = "none"
            /\ outbox'[k].attempts = outbox[k].attempts \/ outbox'[k].st = "none"
            /\ \A w \in Workers : StartsSend(w) => cur[w] # k]_vars

\* The pipeline implements NotificationPromise: a message is in progress from
\* the start of its send to the commit or rollback of the pass.
InProgress == {p \in Pairs : \E w \in Workers : cur[w] = p[1] /\ p[2] \in Dirty(w)}
Removed == {c \in Channels : chan[c] = "deleted"}
Promise == INSTANCE NotificationPromise WITH
    Channels <- Channels,
    Messages <- Pairs,
    Reusable <- (Keys \ Records) \X Channels,
    reached  <- done,
    sending  <- InProgress,
    removed  <- Removed
PromiseKept == Promise!Spec

\* Strict tenant boundary: passes only carry events of their own tenant, and
\* no delivery row joins an event and a channel of different tenants.
TenantIsolation ==
    /\ \A p \in Pairs : dlv[p].st # "none" => Owner[p[1]] = Owner[p[2]]
    /\ \A w \in Workers : \A k \in batch[w] : Owner[k] = Owner[w]

\* An event that has a subscriber is eventually delivered or given up.
Settled(k) == Exists(k) /\ Targets(k) # {} => outbox[k].st \in {"delivered", "failed"}
EventuallySettled == \A k \in Keys : Exists(k) ~> Settled(k)

\* A record without event gets one while it is in the lookback.
GapRepaired == \A r \in Records : r \in window /\ ~Exists(r) ~> r \notin window \/ Exists(r)

\* What it takes to hang: a pass suspended in a send holds a flushed row of an
\* event that another pass delivers too or that reconciliation repairs.
HangNeedsOverlap ==
    [][loop # "hung" /\ loop' = "hung" =>
            \E v \in Workers : /\ pc[v] = "send" /\ flushed[v] # {}
                               /\ \/ \E w \in Workers \ {v} : pc[w] = "channel" /\ cur[w] = cur[v]
                                  \/ cur[v] \in window \/ audit.st[cur[v]] # "unread"]_vars
=============================================================================
