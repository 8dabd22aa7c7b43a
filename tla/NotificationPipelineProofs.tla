---------------------- MODULE NotificationPipelineProofs ----------------------
(* Proofs about NotificationPipeline, for every value of its constants.     *)
EXTENDS NotificationPipeline, FiniteSetTheorems, TLAPS

USE SetsAssumption, FunctionsAssumption, LimitsAssumption

-----------------------------------------------------------------------------
(* Operators the actions are built from return values of the right type.    *)

\* Row builds a row.
LEMMA RowType ==
    ASSUME NEW s \in Statuses, NEW n \in Nat, NEW t \in Int
    PROVE  Row(s, n, t) \in Rows
  BY DEF Row, Rows

\* The absent row is a row.
LEMMA NoRowType == NoRow \in Rows
  BY RowType DEF NoRow, Statuses

\* The exponential backoff of service.py is an integer.
LEMMA BackoffType == ASSUME NEW n \in Nat PROVE Backoff(n) \in Int
  BY DEF Backoff

\* Counting down keeps a row a row.
LEMMA SoonerType == ASSUME NEW r \in Rows PROVE Sooner(r) \in Rows
  BY DEF Sooner, Rows

\* Enqueueing keeps the outbox a table of rows.
LEMMA EnqueuedType ==
    ASSUME outbox \in [Keys -> Rows], NEW K \in SUBSET Keys
    PROVE  Enqueued(K) \in [Keys -> Rows]
  BY RowType DEF Enqueued, Statuses

\* The rows a pass commits are rows.
LEMMA MergedType ==
    ASSUME TypeOK, NEW w \in Workers, NEW c \in Channels, cur[w] \in Keys
    PROVE  Merged(w, c) \in Rows
<1> DEFINE m == mine[w][c]
           row == dlv[<<cur[w], c>>]
<1>1. m \in Rows /\ row \in Rows
  BY DEF TypeOK, Pairs
<1>2. CASE base[w][c] # "new" /\ row.st = "none"
  BY <1>2, NoRowType DEF Merged
<1>3. CASE ~(base[w][c] # "new" /\ row.st = "none")
  <2>1. m.st \in Statuses /\ row.st \in Statuses /\ m.attempts \in Nat /\ m.wait \in Int /\ row.wait \in Int
    BY <1>1 DEF Rows
  <2>2. Merged(w, c) = Row(IF m.st = base[w][c] THEN row.st ELSE m.st, m.attempts,
                           IF m.st = "succeeded" THEN row.wait ELSE m.wait)
    BY <1>3 DEF Merged
  <2> QED BY <2>1, <2>2, RowType
<1> QED BY <1>2, <1>3

\* What moving on to the events b leaves of a pass is well typed.
LEMMA ContinueType ==
    ASSUME TypeOK, NEW w \in Workers, NEW b \in SUBSET Keys, Continue(w, b)
    PROVE  /\ loop' \in Workers \cup {"free", "hung"}
           /\ pc' \in [Workers -> {"idle", "event", "channel", "send"}]
           /\ batch' \in [Workers -> SUBSET Keys]
           /\ seen' \in [Workers -> [Keys -> Rows]]
           /\ Focused'
           /\ cur' \in [Workers -> Keys \cup {None}]
           /\ subs' \in [Workers -> SUBSET Channels]
           /\ todo' \in [Workers -> SUBSET Channels]
           /\ at' \in [Workers -> Channels \cup {None}]
           /\ mine' \in [Workers -> [Channels -> Rows]]
           /\ base' \in [Workers -> [Channels -> Statuses \cup {"new"}]]
           /\ flushed' \in [Workers -> SUBSET Channels]
           /\ failing' \in [Workers -> BOOLEAN]
<1> USE DEF TypeOK, Continue
<1>1. seen' \in [Workers -> [Keys -> Rows]]
  BY NoRowType
<1>2. mine' \in [Workers -> [Channels -> Rows]]
  BY NoRowType
<1>3. base' \in [Workers -> [Channels -> Statuses \cup {"new"}]]
  BY DEF Statuses
<1>4. failing' \in [Workers -> BOOLEAN]
  BY Zenon
<1>5. pc' \in [Workers -> {"idle", "event", "channel", "send"}]
  OBVIOUS
<1>6. Focused'
  BY DEF Focused
<1> QED BY <1>1, <1>2, <1>3, <1>4, <1>5, <1>6
-----------------------------------------------------------------------------
(* Type correctness.                                                        *)

\* The initial state is well typed.
LEMMA InitType == Init => TypeOK
<1> SUFFICES ASSUME Init PROVE TypeOK
  OBVIOUS
<1> USE DEF Init, NoRow, IdleReq
<1>1. NoRow \in Rows
  BY NoRowType
<1>2. sub \subseteq Channels \X EventTypes
  BY DEF Init
<1>3. req \in [Clicks -> [pc : {"idle", "read", "done"}, key : Keys \cup {None},
                          chan : Channels \cup {None}, event : Rows]]
  BY <1>1
<1>4. base \in [Workers -> [Channels -> Statuses \cup {"new"}]]
  BY DEF Statuses
<1>5. /\ outbox \in [Keys -> Rows] /\ dlv \in [Pairs -> Rows]
      /\ seen \in [Workers -> [Keys -> Rows]] /\ mine \in [Workers -> [Channels -> Rows]]
  BY <1>1
<1>6. Focused
  BY DEF Focused
<1>7. audit \in [st : [Keys -> Statuses \cup {"unread"}], rows : SUBSET Pairs]
  BY DEF NoAudit
<1> QED BY <1>2, <1>3, <1>4, <1>5, <1>6, <1>7 DEF TypeOK

\* The steps of a delivery pass keep the types.
LEMMA PassType == ASSUME TypeOK, NEW w \in Workers, Pass(w) PROVE TypeOK'
<1>1. CASE Scan(w)
  BY <1>1, NoRowType DEF TypeOK, Scan, Focused, Batch, Selectable, settings, facts, database
<1>2. CASE Open(w)
  <2>1. PICK k \in batch[w] : PutBack(w, k) \/ Take(w, k)
    BY <1>2 DEF Open
  <2>2. k \in Keys
    BY <2>1 DEF TypeOK
  <2>3. CASE PutBack(w, k)
    <3>1. outbox' \in [Keys -> Rows]
      BY <2>2, <2>3 DEF PutBack, TypeOK, Row, Rows, Statuses
    <3>2. Continue(w, batch[w] \ {k}) /\ batch[w] \ {k} \in SUBSET Keys
      BY <2>3 DEF TypeOK, PutBack
    <3> QED BY <1>2, <3>1, <3>2, ContinueType DEF TypeOK, Open, settings, facts
  <2>4. CASE Take(w, k)
    BY <1>2, <2>2, <2>4 DEF TypeOK, Open, Take, Targets, Focused, settings, facts
  <2> QED BY <2>1, <2>3, <2>4
<1>3. CASE Examine(w)
  <2> DEFINE row(c) == dlv[<<cur[w], c>>]
  <2>1. PICK c \in todo[w] : Skip(w, c, row(c)) \/ StartSend(w, c, row(c))
    BY <1>3 DEF Examine
  <2>2. c \in Channels
    BY <2>1 DEF TypeOK
  <2>3. flushed' \in [Workers -> SUBSET Channels]
    BY <1>3 DEF Examine, TypeOK, Dirty
  <2>4. CASE Skip(w, c, row(c))
    BY <1>3, <2>2, <2>3, <2>4 DEF Examine, Skip, Focused, TypeOK, settings, facts, database
  <2>5. CASE StartSend(w, c, row(c))
    <3>1. cur[w] \in Keys /\ row(c) \in Rows
      BY <1>3, <2>2 DEF Examine, TypeOK, Focused, Pairs
    <3>2. Row("pending", row(c).attempts + 1, 0) \in Rows /\ row(c).st \in Statuses
      <4>1. row(c).attempts + 1 \in Nat /\ row(c).st \in Statuses
        BY <3>1 DEF Rows
      <4> QED BY <4>1, RowType DEF Statuses
    <3> QED BY <3>1, <3>2, <1>3, <2>2, <2>3, <2>5 DEF Examine, StartSend, Focused, TypeOK, settings, facts, database
  <2> QED BY <2>1, <2>4, <2>5
<1>4. CASE \E ok \in BOOLEAN : Respond(w, ok)
  <2>1. PICK ok \in BOOLEAN : Respond(w, ok)
    BY <1>4
  <2> DEFINE n == mine[w][at[w]].attempts
             row == IF ok THEN Row("succeeded", n, 0) ELSE Row("failed", n, Backoff(n))
  <2>2. at[w] \in Channels /\ mine[w][at[w]] \in Rows
    <3>1. at[w] \in Channels
      BY <2>1 DEF Respond, TypeOK, Focused
    <3> QED BY <3>1 DEF TypeOK
  <2>3. n \in Nat
    BY <2>2 DEF Rows
  <2>4. row \in Rows
    BY <2>3, RowType, BackoffType DEF Statuses
  <2>5. mine' = [mine EXCEPT ![w][at[w]] = row]
    BY <2>1 DEF Respond
  <2>6. mine' \in [Workers -> [Channels -> Rows]]
    BY <2>2, <2>4, <2>5 DEF TypeOK
  <2>7. failing' \in [Workers -> BOOLEAN]
    BY <2>1, Zenon DEF Respond, TypeOK
  <2>8. Focused'
    BY <2>1 DEF Respond, TypeOK, Focused
  <2> QED BY <2>1, <2>6, <2>7, <2>8 DEF TypeOK, Respond, settings, facts, database
<1>5. CASE Close(w)
  <2> DEFINE k == cur[w]
  <2>1. k \in Keys
    BY <1>5 DEF Close, TypeOK, Focused
  <2>2. outbox' \in [Keys -> Rows]
    <3> DEFINE n == seen[w][k].attempts + 1
               st == ClosedStatus(w)
               row == Row(IF st = seen[w][k].st THEN outbox[k].st ELSE st, n,
                          IF st = "retry" THEN Backoff(n) ELSE outbox[k].wait)
    <3>1. seen[w][k] \in Rows /\ outbox[k] \in Rows
      BY <2>1 DEF TypeOK
    <3>2. n \in Nat /\ outbox[k].st \in Statuses /\ outbox[k].wait \in Int
      BY <3>1 DEF Rows
    <3>3. st \in Statuses /\ Backoff(n) \in Int
      BY <3>2, BackoffType DEF ClosedStatus, Statuses
    <3>4. row \in Rows
      BY <3>2, <3>3, RowType
    <3>5. outbox' = [outbox EXCEPT ![k] = row]
      BY <1>5 DEF Close
    <3> QED BY <3>4, <3>5, <2>1 DEF TypeOK
  <2>3. dlv' \in [Pairs -> Rows]
    BY <1>5, <2>1, MergedType DEF TypeOK, Close, Pairs
  <2>4. done' \subseteq Pairs
    BY <1>5, <2>1 DEF TypeOK, Close, Dirty, Pairs
  <2>5. Continue(w, batch[w] \ {k}) /\ batch[w] \ {k} \in SUBSET Keys
    BY <1>5 DEF Close, TypeOK, Focused
  <2> QED BY <1>5, <2>2, <2>3, <2>4, <2>5, ContinueType DEF TypeOK, Close, settings, facts
<1>6. CASE Abort(w)
  <2>1. FailureKey[Owner[w]] \in Keys
    OBVIOUS
  <2>2. outbox' \in [Keys -> Rows]
    <3>1. Enqueued({FailureKey[Owner[w]]}) \in [Keys -> Rows]
      BY <2>1, EnqueuedType DEF TypeOK
    <3> QED BY <1>6, <3>1 DEF Abort
  <2>3. older' \subseteq Keys \X Keys
    BY <1>6, <2>1 DEF Abort, TypeOK, AgeAfter
  <2>4. Continue(w, {})
    BY <1>6 DEF Abort
  <2> QED BY <1>6, <2>2, <2>3, <2>4, ContinueType DEF TypeOK, Abort, settings, facts
<1>7. CASE Hang(w)
  BY <1>7 DEF TypeOK, Hang, Focused, settings, facts, database, worker
<1> QED BY <1>1, <1>2, <1>3, <1>4, <1>5, <1>6, <1>7 DEF Pass

\* Events and records that appear, age and are cleaned up keep the types.
LEMMA SourceType ==
    ASSUME TypeOK,
           \/ \E k \in Keys : Enqueue(k)
           \/ \E r \in Records : Store(r) \/ LeaveWindow(r)
           \/ \E D \in SUBSET Keys : Cleanup(D)
    PROVE  TypeOK'
<1> USE DEF settings, facts, database, worker, Focused
<1>1. ASSUME NEW k \in Keys, Enqueue(k) PROVE TypeOK'
  <2>1. outbox' \in [Keys -> Rows] /\ older' \subseteq Keys \X Keys
    BY <1>1, EnqueuedType DEF Enqueue, TypeOK, AgeAfter
  <2> QED BY <1>1, <2>1 DEF Enqueue, TypeOK
<1>2. ASSUME NEW r \in Records, Store(r) PROVE TypeOK'
  <2>1. {r} \in SUBSET Keys
    OBVIOUS
  <2>2. outbox' \in [Keys -> Rows]
    BY <1>2, <2>1, EnqueuedType DEF Store, TypeOK
  <2>3. older' \subseteq Keys \X Keys
    BY <1>2, <2>1 DEF Store, TypeOK, AgeAfter
  <2> QED BY <1>2, <2>2, <2>3 DEF Store, TypeOK
<1>3. ASSUME NEW r \in Records, LeaveWindow(r) PROVE TypeOK'
  BY <1>3 DEF LeaveWindow, TypeOK
<1>4. ASSUME NEW D \in SUBSET Keys, Cleanup(D) PROVE TypeOK'
  <2>1. outbox' \in [Keys -> Rows] /\ dlv' \in [Pairs -> Rows]
    BY <1>4, NoRowType DEF Cleanup, TypeOK
  <2> QED BY <1>4, <2>1 DEF Cleanup, TypeOK
<1> QED BY <1>1, <1>2, <1>3, <1>4

\* Reconciliation keeps the types, whichever way it runs.
LEMMA ReconcileType ==
    ASSUME TypeOK, \/ ReconcileOnLoop \/ ReconcileWrite
                   \/ \E r \in Records : ReconcileRead(r)
    PROVE  TypeOK'
<1> USE DEF settings, facts, database, worker, Focused
<1>1. ASSUME NEW G \in SUBSET Keys, NEW P \in SUBSET Pairs, NEW Q \in SUBSET Keys, Reconciled(G, P, Q),
             loop' = loop,
             audit' \in [st : [Keys -> Statuses \cup {"unread"}], rows : SUBSET Pairs]
      PROVE  TypeOK'
  <2>1. outbox' \in [Keys -> Rows]
    <3>1. ASSUME NEW k \in Keys PROVE Row("retry", outbox[k].attempts, 0) \in Rows
      <4>1. outbox[k].attempts \in Nat
        BY DEF TypeOK, Rows
      <4> QED BY <4>1, RowType DEF Statuses
    <3>2. Row("pending", 0, 0) \in Rows
      BY RowType DEF Statuses
    <3> QED BY <1>1, <3>1, <3>2 DEF Reconciled, TypeOK
  <2>2. dlv' \in [Pairs -> Rows]
    BY <1>1, RowType DEF Reconciled, TypeOK, Statuses
  <2>3. older' \subseteq Keys \X Keys
    BY <1>1 DEF Reconciled, TypeOK, Orders, AgeAfter
  <2> QED BY <1>1, <2>1, <2>2, <2>3 DEF Reconciled, TypeOK
<1>2. NoAudit \in [st : [Keys -> Statuses \cup {"unread"}], rows : SUBSET Pairs]
  BY DEF NoAudit
<1>3. CASE ReconcileOnLoop
  <2>1. CASE loop' = "hung" /\ UNCHANGED <<database, settings, facts, worker, req, audit, done>>
    BY <2>1 DEF TypeOK
  <2>2. CASE Reconciled(Gaps, Repairs, Requeued) /\ UNCHANGED <<loop, audit>>
    <3>1. Gaps \in SUBSET Keys /\ Repairs \in SUBSET Pairs /\ Requeued \in SUBSET Keys
      BY DEF Gaps, Repairs, Requeued, TypeOK
    <3> QED BY <1>1, <2>2, <3>1 DEF TypeOK
  <2> QED BY <1>3, <2>1, <2>2 DEF ReconcileOnLoop
<1>4. CASE ReconcileWrite
  <2>1. PICK G \in SUBSET Keys, P \in SUBSET audit.rows, Q \in SUBSET Keys : Reconciled(G, P, Q)
    BY <1>4 DEF ReconcileWrite
  <2>2. P \in SUBSET Pairs
    BY DEF TypeOK
  <2> QED BY <1>1, <1>2, <1>4, <2>1, <2>2 DEF ReconcileWrite
<1>5. ASSUME NEW r \in Records, ReconcileRead(r) PROVE TypeOK'
  <2>1. r \in Keys /\ outbox[r].st \in Statuses
    BY DEF TypeOK, Rows
  <2>2. [audit.st EXCEPT ![r] = outbox[r].st] \in [Keys -> Statuses \cup {"unread"}]
    BY <2>1 DEF TypeOK
  <2>3. audit.rows \cup {p \in Repairs : p[1] = r} \in SUBSET Pairs
    BY DEF Repairs, TypeOK
  <2>4. audit' \in [st : [Keys -> Statuses \cup {"unread"}], rows : SUBSET Pairs]
    BY <1>5, <2>2, <2>3 DEF ReconcileRead
  <2> QED BY <1>5, <2>4 DEF ReconcileRead, TypeOK
<1> QED BY <1>3, <1>4, <1>5

\* Changes of channels and subscriptions keep the types.
LEMMA SettingsType == ASSUME TypeOK, Settings PROVE TypeOK'
<1> USE DEF facts, database, worker, Focused
<1>1. ASSUME NEW c \in Channels, NEW on \in BOOLEAN, NEW s \in Selections,
             CreateChannel(c, on, s) \/ UpdateChannel(c, on, s)
      PROVE  TypeOK'
  <2>1. chan' \in [Channels -> {"unborn", "on", "off", "deleted"}]
    BY <1>1 DEF CreateChannel, UpdateChannel, TypeOK
  <2>2. ChannelRules(c, s) \subseteq Channels \X EventTypes
    BY SetsAssumption DEF ChannelRules, TypeOK
  <2>3. sub' \subseteq Channels \X EventTypes
    BY <1>1, <2>2 DEF CreateChannel, UpdateChannel
  <2>4. UNCHANGED <<database, facts, loop, worker, req, audit, done>>
    BY <1>1 DEF CreateChannel, UpdateChannel
  <2> QED BY <2>1, <2>3, <2>4 DEF TypeOK
<1>2. ASSUME NEW c \in Channels, NEW on \in BOOLEAN, SetChannelEnabled(c, on) PROVE TypeOK'
  BY <1>2 DEF SetChannelEnabled, TypeOK
<1>3. ASSUME NEW c \in Channels, DeleteChannel(c) PROVE TypeOK'
  <2>1. dlv' \in [Pairs -> Rows]
    BY <1>3, NoRowType DEF DeleteChannel, TypeOK
  <2> QED BY <1>3, <2>1 DEF DeleteChannel, TypeOK
<1>4. ASSUME NEW u \in Users, NEW s \in Selections, UpdateSubscriptions(u, s) PROVE TypeOK'
  BY <1>4 DEF UpdateSubscriptions, TypeOK
<1> QED BY <1>1, <1>2, <1>3, <1>4 DEF Settings

\* Manual retries keep the types.
LEMMA ClickType ==
    ASSUME TypeOK, NEW q \in Clicks, ClickRead(q) \/ ClickWrite(q)
    PROVE  TypeOK'
<1> USE DEF settings, facts, database, worker, Focused
<1>1. CASE ClickRead(q)
  BY <1>1 DEF ClickRead, TypeOK
<1>2. CASE ClickWrite(q)
  <2>1. req' \in [Clicks -> [pc : {"idle", "read", "done"}, key : Keys \cup {None},
                             chan : Channels \cup {None}, event : Rows]]
    <3>1. req[q] \in [pc : {"idle", "read", "done"}, key : Keys \cup {None}, chan : Channels \cup {None}, event : Rows]
      BY DEF TypeOK
    <3>2. req' = [req EXCEPT ![q] = [req[q] EXCEPT !.pc = "done", !.event = NoRow]]
      BY <1>2 DEF ClickWrite
    <3>3. [req[q] EXCEPT !.pc = "done", !.event = NoRow]
             \in [pc : {"idle", "read", "done"}, key : Keys \cup {None}, chan : Channels \cup {None}, event : Rows]
      BY <3>1, NoRowType
    <3> QED BY <3>2, <3>3 DEF TypeOK
  <2>2. outbox' \in [Keys -> Rows]
    <3> DEFINE k == req[q].key
               e == req[q].event
               st == IF e.st = "retry" THEN outbox[k].st ELSE "retry"
               n == IF e.attempts = 0 THEN outbox[k].attempts ELSE 0
               row == Row(st, n, 0)
    <3>1. ASSUME k \in Keys PROVE row \in Rows
      <4>1. outbox[k] \in Rows
        BY <3>1 DEF TypeOK
      <4>2. outbox[k].st \in Statuses /\ outbox[k].attempts \in Nat
        BY <4>1 DEF Rows
      <4>3. st \in Statuses /\ n \in Nat
        BY <4>2 DEF Statuses
      <4> HIDE DEF st, n
      <4> QED BY <4>3, RowType
    <3>2. outbox' = [outbox EXCEPT ![k] = IF outbox[k].st = "none" THEN outbox[k] ELSE row]
      BY <1>2 DEF ClickWrite
    <3>3. ASSUME NEW j \in Keys PROVE outbox'[j] \in Rows
      <4>1. outbox'[j] = IF j = k /\ outbox[k].st # "none" THEN row ELSE outbox[j]
        BY <3>2 DEF TypeOK
      <4>2. outbox[j] \in Rows
        BY DEF TypeOK
      <4> QED BY <3>1, <4>1, <4>2
    <3>4. outbox' = [j \in Keys |-> outbox'[j]]
      BY <3>2 DEF TypeOK
    <3> HIDE DEF k, row
    <3> QED BY <3>3, <3>4
  <2>3. dlv' \in [Pairs -> Rows]
    <3>1. Row("pending", 0, 0) \in Rows
      BY RowType DEF Statuses
    <3> DEFINE p == <<req[q].key, req[q].chan>>
    <3>2. dlv' = [dlv EXCEPT ![p] = IF dlv[p].st = "none" THEN dlv[p] ELSE Row("pending", 0, 0)]
      BY <1>2 DEF ClickWrite
    <3> HIDE DEF p
    <3> QED BY <3>1, <3>2 DEF TypeOK
  <2> QED BY <1>2, <2>1, <2>2, <2>3 DEF ClickWrite, TypeOK
<1> QED BY <1>1, <1>2

\* So do a restart and the passing of time.
LEMMA RestartType == ASSUME TypeOK, Restart PROVE TypeOK'
<1> USE DEF settings, facts, database, Focused
<1>0. audit' \in [st : [Keys -> Statuses \cup {"unread"}], rows : SUBSET Pairs]
  BY DEF Restart, NoAudit
<1>1. req' \in [Clicks -> [pc : {"idle", "read", "done"}, key : Keys \cup {None},
                           chan : Channels \cup {None}, event : Rows]]
  BY NoRowType DEF Restart, TypeOK, IdleReq
<1>2. /\ seen' \in [Workers -> [Keys -> Rows]] /\ mine' \in [Workers -> [Channels -> Rows]]
      /\ base' \in [Workers -> [Channels -> Statuses \cup {"new"}]]
  BY NoRowType DEF Restart, Statuses
<1> QED BY <1>0, <1>1, <1>2 DEF Restart, TypeOK

LEMMA TickType == ASSUME TypeOK, Tick PROVE TypeOK'
<1>1. /\ outbox' \in [Keys -> Rows] /\ dlv' \in [Pairs -> Rows]
      /\ mine' \in [Workers -> [Channels -> Rows]]
  BY SoonerType DEF Tick, TypeOK
<1> QED BY <1>1 DEF Tick, TypeOK, settings, facts, Focused

\* Every reachable state is well typed.
THEOREM TypeCorrect == Spec => []TypeOK
<1>1. TypeOK /\ [Next]_vars => TypeOK'
  <2> SUFFICES ASSUME TypeOK, [Next]_vars PROVE TypeOK'
    OBVIOUS
  <2>1. CASE UNCHANGED vars
    BY <2>1 DEF vars, settings, facts, database, worker, TypeOK, Focused
  <2>2. CASE Next
    BY <2>2, PassType, SourceType, ReconcileType, SettingsType, ClickType, RestartType, TickType DEF Next
  <2> QED BY <2>1, <2>2
<1> QED BY InitType, <1>1, PTL DEF Spec

-----------------------------------------------------------------------------
(* No message with a recorded success is sent again, when every tenant has  *)
(* one pass at a time.                                                     *)

OnePassPerTenant == \A v, w \in Workers : Owner[v] = Owner[w] => v = w

\* Two passes never deliver the same event.
LEMMA DistinctEvents ==
    ASSUME OnePassPerTenant, OwnEvents, NEW v \in Workers, NEW w \in Workers, v # w, cur[w] # None
    PROVE  cur[v] # cur[w]
  BY DEF OnePassPerTenant, OwnEvents

\* The invariant holds initially.
LEMMA InitBooks == Init => Books
  BY DEF Init, Books, OwnEvents, OpenRows, LoadedRows, NotInProgress, Remembered,
         EventsHaveRecords, Dirty, Exists, NoRow, Row

LEMMA InitAudited == Init => Audited
  BY DEF Init, Audited, NoAudit

\* What moving on leaves: nothing in progress in w, the other passes untouched.
LEMMA ContinueEffect ==
    ASSUME TypeOK, NEW w \in Workers, NEW b \in SUBSET Keys, Continue(w, b)
    PROVE  /\ batch'[w] = b /\ cur'[w] = None /\ pc'[w] \in {"idle", "event"} /\ Dirty(w)' = {}
           /\ \A v \in Workers \ {w} : /\ batch'[v] = batch[v] /\ cur'[v] = cur[v] /\ pc'[v] = pc[v]
                                       /\ todo'[v] = todo[v] /\ at'[v] = at[v]
                                       /\ base'[v] = base[v] /\ Dirty(v)' = Dirty(v)
  BY DEF Continue, TypeOK, Dirty, NoRow, Row

\* A step that leaves the passes alone keeps the invariant if the events in a
\* batch survive with their delivery rows, and no success is forgotten too early.
LEMMA Environment ==
    ASSUME TypeOK, Books, UNCHANGED <<pc, batch, cur, todo, at, mine, base>>,
           done' \subseteq done,
           \A c \in Channels : chan[c] = "deleted" => chan'[c] = "deleted",
           \A w \in Workers : \A k \in batch[w] :
               /\ Exists(k)'
               /\ \A c \in Channels : dlv[<<k, c>>].st # "none" => dlv'[<<k, c>>].st # "none" \/ chan'[c] = "deleted",
           Remembered', EventsHaveRecords'
    PROVE  Books'
<1>1. OwnEvents' /\ OpenRows'
  BY DEF Books, OwnEvents, OpenRows, Dirty
<1>2. LoadedRows'
  <2> SUFFICES ASSUME NEW w \in Workers, NEW c \in Dirty(w)
               PROVE  /\ base[w][c] # "succeeded"
                      /\ base[w][c] # "new" => dlv'[<<cur[w], c>>].st # "none" \/ chan'[c] = "deleted"
    BY DEF LoadedRows, Dirty
  <2>1. c \in Channels /\ cur[w] \in batch[w]
    BY DEF Books, OwnEvents, OpenRows, Dirty
  <2> QED BY <2>1 DEF Books, LoadedRows
<1>3. NotInProgress'
  BY DEF Books, NotInProgress, Dirty
<1> QED BY <1>1, <1>2, <1>3 DEF Books

\* An event that appears does not disturb what is there.
LEMMA EnqueueBooks ==
    ASSUME TypeOK, Books, NEW k \in Keys, Enqueue(k)
    PROVE  Books'
<1> USE DEF Enqueue, worker, facts, settings
<1>1. \A j \in Keys : Exists(j)' <=> Exists(j) \/ j = k
  BY DEF Exists, Enqueued, Row
<1>2. Remembered' /\ EventsHaveRecords'
  BY <1>1 DEF Books, Remembered, EventsHaveRecords, TypeOK, Pairs
<1>3. \A w \in Workers : \A j \in batch[w] : Exists(j)'
  BY <1>1 DEF Books, OwnEvents, TypeOK
<1> QED BY <1>2, <1>3, Environment

LEMMA StoreBooks ==
    ASSUME TypeOK, Books, NEW r \in Records, Store(r)
    PROVE  Books'
<1> USE DEF Store, worker, settings
<1>1. \A j \in Keys : Exists(j)' <=> Exists(j) \/ j = r
  BY DEF Exists, Enqueued, Row
<1>2. Remembered' /\ EventsHaveRecords'
  BY <1>1 DEF Books, Remembered, EventsHaveRecords, TypeOK, Pairs
<1>3. \A w \in Workers : \A j \in batch[w] : Exists(j)'
  BY <1>1 DEF Books, OwnEvents, TypeOK
<1> QED BY <1>2, <1>3, Environment

\* A record that leaves the lookback can no longer be reconciled.
LEMMA LeaveWindowBooks ==
    ASSUME TypeOK, Books, NEW r \in Records, LeaveWindow(r)
    PROVE  Books'
<1> USE DEF LeaveWindow, worker, settings, database
<1>1. Remembered' /\ EventsHaveRecords'
  BY DEF Books, Remembered, EventsHaveRecords, Exists
<1>2. \A w \in Workers : \A j \in batch[w] : Exists(j)'
  BY DEF Books, OwnEvents, Exists
<1> QED BY <1>1, <1>2, Environment

\* Cleanup forgets only what cannot come back: a key that is not a record, or
\* a record outside the lookback.
LEMMA CleanupBooks ==
    ASSUME TypeOK, Books, NEW D \in SUBSET Keys, Cleanup(D)
    PROVE  Books'
<1> USE DEF Cleanup, worker, settings, facts
<1>1. \A k \in Keys : /\ k \in D => ~Exists(k)' /\ Exists(k) /\ k \notin window
                      /\ k \notin D => (Exists(k)' <=> Exists(k)) /\ \A c \in Channels : dlv'[<<k, c>>] = dlv[<<k, c>>]
  BY DEF Exists, NoRow, Row, Pairs
<1>2. EventsHaveRecords'
  BY <1>1 DEF Books, EventsHaveRecords
<1>3. Remembered'
  <2> SUFFICES ASSUME NEW p \in done'
               PROVE  (\/ chan[p[2]] = "deleted"
                       \/ Exists(p[1]) /\ dlv[p].st = "succeeded"
                       \/ ~Exists(p[1]) /\ p[1] \in stored \ window)'
    BY DEF Remembered
  <2>1. p \in done /\ p[1] \notin D \ Records /\ p \in Pairs
    BY DEF TypeOK
  <2>2. PICK k \in Keys, c \in Channels : p = <<k, c>>
    BY <2>1 DEF Pairs
  <2>3. CASE k \in D
    <3>1. k \in Records
      BY <2>1, <2>2, <2>3
    <3> QED BY <1>1, <2>2, <2>3, <3>1 DEF Books, EventsHaveRecords
  <2>4. CASE k \notin D
    BY <1>1, <2>1, <2>2, <2>4 DEF Books, Remembered
  <2> QED BY <2>3, <2>4
<1>4. \A w \in Workers : \A k \in batch[w] :
          Exists(k)' /\ \A c \in Channels : dlv'[<<k, c>>] = dlv[<<k, c>>]
  BY <1>1 DEF Books, OwnEvents, TypeOK
<1> QED BY <1>2, <1>3, <1>4, Environment

\* What reconciliation repairs, when it writes: stored records without event and
\* without recorded success, absent deliveries, and events that are there.
Repairable(G, P, Q) ==
    /\ \A k \in G : /\ k \in stored /\ ~Exists(k)
                    /\ \A c \in Channels : <<k, c>> \in done => chan[c] = "deleted"
    /\ \A p \in P : dlv[p].st = "none"
    /\ \A k \in Q : Exists(k) /\ outbox[k].st # "none"

\* The run on the event loop decides and writes in one step.
LEMMA LoopRepairs == ASSUME TypeOK, Books PROVE Repairable(Gaps, Repairs, Requeued)
<1>1. ASSUME NEW k \in Gaps
      PROVE  k \in stored /\ ~Exists(k) /\ \A c \in Channels : <<k, c>> \in done => chan[c] = "deleted"
  BY DEF Gaps, Books, Remembered, TypeOK
<1>2. \A p \in Repairs : dlv[p].st = "none"
  BY DEF Repairs, Missing, Pairs
<1>3. \A k \in Requeued : Exists(k)
  BY DEF Requeued, Exists
<1> QED BY <1>1, <1>2, <1>3 DEF Repairable, Exists

\* A request finds what it has read fit to repair, but for what overtook it.
LEMMA RequestRepairs ==
    ASSUME TypeOK, Audited, ReconcileWrite
    PROVE  \E G, Q \in SUBSET Keys, P \in SUBSET audit.rows :
               /\ Reconciled(G, P, Q) /\ Repairable(G, P, Q)
               /\ \A k \in Q : audit.st[k] = "delivered"
<1> DEFINE A(st) == {k \in Keys : audit.st[k] = st /\ ~Overtaken(k)}
           P == {p \in audit.rows : ~Overtaken(p[1])}
<1>1. Reconciled(A("none"), P, A("delivered"))
  BY DEF ReconcileWrite
<1>2. \A p \in P : dlv[p].st = "none"
  BY DEF Overtaken
<1>3. \A k \in A("delivered") : Exists(k)
  BY DEF Audited
<1>4. \A k \in A("none") : k \in stored /\ ~Exists(k) /\ \A c \in Channels : <<k, c>> \in done => chan[c] = "deleted"
  BY DEF Audited
<1>5. Repairable(A("none"), P, A("delivered"))
  BY <1>2, <1>3, <1>4 DEF Repairable, Exists
<1>6. \A k \in A("delivered") : audit.st[k] = "delivered"
  OBVIOUS
<1>7. A("none") \in SUBSET Keys /\ A("delivered") \in SUBSET Keys /\ P \in SUBSET audit.rows
  OBVIOUS
<1> HIDE DEF A, P
<1> QED BY <1>1, <1>5, <1>6, <1>7

\* Reconciliation writes rows only where there are none.
LEMMA RepairBooks ==
    ASSUME TypeOK, Books, NEW G \in SUBSET Keys, NEW P \in SUBSET Pairs, NEW Q \in SUBSET Keys,
           Reconciled(G, P, Q), Repairable(G, P, Q)
    PROVE  Books'
<1> USE DEF worker, settings, facts
<1>1. \A k \in Keys : /\ Exists(k) => Exists(k)'
                      /\ Exists(k)' => Exists(k) \/ k \in G
  BY DEF Reconciled, Repairable, Exists, Row
<1>2. \A p \in Pairs : dlv[p].st # "none" => dlv'[p] = dlv[p]
  BY DEF Reconciled, Repairable
<1>3. UNCHANGED <<chan, stored, window, pc, batch, cur, todo, at, mine, base, done>>
  BY DEF Reconciled
<1>4. EventsHaveRecords'
  BY <1>1, <1>3 DEF Books, EventsHaveRecords, Repairable, TypeOK
<1>5. Remembered'
  <2> SUFFICES ASSUME NEW p \in done
               PROVE  (\/ chan[p[2]] = "deleted"
                       \/ Exists(p[1]) /\ dlv[p].st = "succeeded"
                       \/ ~Exists(p[1]) /\ p[1] \in stored \ window)'
    BY <1>3 DEF Remembered
  <2>1. p \in Pairs /\ p[1] \in Keys /\ p[2] \in Channels /\ p = <<p[1], p[2]>>
    BY DEF TypeOK, Pairs
  <2>2. CASE p[1] \in G
    BY <1>3, <2>1, <2>2 DEF Repairable
  <2>3. CASE p[1] \notin G
    BY <1>1, <1>2, <1>3, <2>1, <2>3 DEF Books, Remembered
  <2> QED BY <2>2, <2>3
<1>6. ASSUME NEW w \in Workers, NEW k \in batch[w]
      PROVE  Exists(k)' /\ \A c \in Channels : dlv[<<k, c>>].st # "none" => dlv'[<<k, c>>].st # "none"
  <2>1. k \in Keys /\ Exists(k)
    BY DEF Books, OwnEvents, TypeOK
  <2>2. \A c \in Channels : <<k, c>> \in Pairs
    BY <2>1 DEF Pairs
  <2> QED BY <1>1, <1>2, <2>1, <2>2
<1> QED BY <1>3, <1>4, <1>5, <1>6, Environment

LEMMA ReconcileBooks ==
    ASSUME TypeOK, Books, Audited, ReconcileOnLoop \/ ReconcileWrite
    PROVE  Books'
<1>1. CASE Reconciled(Gaps, Repairs, Requeued)
  <2>1. Gaps \in SUBSET Keys /\ Repairs \in SUBSET Pairs /\ Requeued \in SUBSET Keys
    BY DEF Gaps, Repairs, Requeued, TypeOK
  <2> QED BY <1>1, <2>1, LoopRepairs, RepairBooks
<1>2. CASE ReconcileWrite
  <2>1. \A P \in SUBSET audit.rows : P \in SUBSET Pairs
    BY DEF TypeOK
  <2> QED BY <1>2, <2>1, RequestRepairs, RepairBooks
<1>3. CASE UNCHANGED <<database, settings, facts, worker, req, audit, done>>
  BY <1>3 DEF Books, OwnEvents, OpenRows, LoadedRows, NotInProgress, Remembered,
              EventsHaveRecords, Dirty, Exists, database, settings, facts, worker
<1> QED BY <1>1, <1>2, <1>3 DEF ReconcileOnLoop

\* Deleting a channel detaches its rows; the other settings touch none.
LEMMA SettingsBooks ==
    ASSUME TypeOK, Books, Settings
    PROVE  Books'
<1> USE DEF worker, facts, database
<1>1. /\ UNCHANGED <<outbox, facts, worker, done>>
      /\ \A c \in Channels : chan[c] = "deleted" => chan'[c] = "deleted"
      /\ \A p \in Pairs : dlv'[p] = dlv[p] \/ chan'[p[2]] = "deleted"
  BY DEF Settings, CreateChannel, UpdateChannel, SetChannelEnabled, DeleteChannel, UpdateSubscriptions, TypeOK, Pairs
<1>2. EventsHaveRecords'
  BY <1>1 DEF Books, EventsHaveRecords, Exists
<1>3. Remembered'
  <2> SUFFICES ASSUME NEW p \in done
               PROVE  (\/ chan[p[2]] = "deleted"
                       \/ Exists(p[1]) /\ dlv[p].st = "succeeded"
                       \/ ~Exists(p[1]) /\ p[1] \in stored \ window)'
    BY <1>1 DEF Remembered
  <2>1. p \in Pairs /\ p[2] \in Channels
    BY DEF TypeOK, Pairs
  <2> QED BY <1>1, <2>1 DEF Books, Remembered, Exists
<1>4. \A w \in Workers : \A k \in batch[w] :
          /\ Exists(k)'
          /\ \A c \in Channels : dlv'[<<k, c>>] = dlv[<<k, c>>] \/ chan'[c] = "deleted"
  BY <1>1 DEF Books, OwnEvents, TypeOK, Pairs, Exists
<1> QED BY <1>1, <1>2, <1>3, <1>4, Environment

\* What a manual retry does to the tables: it resets one event and one of its
\* deliveries, removes nothing, and withdraws the success of that delivery.
LEMMA ClickEffect ==
    ASSUME TypeOK, NEW q \in Clicks, ClickWrite(q)
    PROVE  /\ \A k \in Keys : Exists(k)' <=> Exists(k)
           /\ \A k \in Keys : \/ outbox'[k] = outbox[k]
                              \/ /\ k = req[q].key /\ Exists(k)
                                 /\ outbox'[k].st \in {outbox[k].st, "retry"}
                                 /\ outbox'[k].attempts \in {outbox[k].attempts, 0}
           /\ \A p \in Pairs : \/ dlv'[p] = dlv[p]
                               \/ /\ p = <<req[q].key, req[q].chan>>
                                  /\ dlv[p].st # "none" /\ dlv'[p] = Row("pending", 0, 0)
           /\ done' = done \ {<<req[q].key, req[q].chan>>}
<1> DEFINE k == req[q].key
           e == req[q].event
           st == IF e.st = "retry" THEN outbox[k].st ELSE "retry"
           n == IF e.attempts = 0 THEN outbox[k].attempts ELSE 0
           p == <<req[q].key, req[q].chan>>
<1>1. \A j \in Keys : outbox'[j] = IF j = k /\ outbox[k].st # "none" THEN Row(st, n, 0) ELSE outbox[j]
  BY DEF ClickWrite, TypeOK
<1>2. \A r \in Pairs : dlv'[r] = IF r = p /\ dlv[p].st # "none" THEN Row("pending", 0, 0) ELSE dlv[r]
  BY DEF ClickWrite, TypeOK
<1>3. done' = done \ {p}
  BY DEF ClickWrite
<1>4. /\ st \in {outbox[k].st, "retry"} /\ n \in {outbox[k].attempts, 0}
      /\ Row(st, n, 0).st = st /\ Row(st, n, 0).attempts = n
  BY DEF Row
<1> HIDE DEF st, n, p, k
<1>5. \A j \in Keys : Exists(j)' <=> Exists(j)
  BY <1>1, <1>4 DEF Exists
<1>6. \A j \in Keys : outbox'[j] # outbox[j] =>
          /\ j = k /\ Exists(j)
          /\ outbox'[j].st \in {outbox[j].st, "retry"} /\ outbox'[j].attempts \in {outbox[j].attempts, 0}
  BY <1>1, <1>4 DEF Exists
<1>7. \A r \in Pairs : dlv'[r] # dlv[r] => r = p /\ dlv[r].st # "none" /\ dlv'[r] = Row("pending", 0, 0)
  BY <1>2
<1> QED BY <1>3, <1>5, <1>6, <1>7 DEF p, k

\* A manual retry withdraws the success it resets, under a pass or not.
LEMMA ClickBooks ==
    ASSUME TypeOK, Books, NEW q \in Clicks, ClickRead(q) \/ ClickWrite(q)
    PROVE  Books'
<1> USE DEF worker, facts, settings, database
<1>1. CASE ClickRead(q)
  BY <1>1 DEF ClickRead, Books, OwnEvents, OpenRows, LoadedRows, NotInProgress, Remembered,
              EventsHaveRecords, Dirty, Exists
<1>2. CASE ClickWrite(q)
  <2>1. UNCHANGED <<chan, stored, window, pc, batch, cur, todo, at, mine, base>>
    BY <1>2 DEF ClickWrite
  <2>2. /\ \A k \in Keys : Exists(k)' <=> Exists(k)
        /\ \A p \in Pairs : /\ dlv[p].st # "none" => dlv'[p].st # "none"
                            /\ p \in done' => p \in done /\ dlv'[p] = dlv[p]
        /\ done' \subseteq done
    BY <1>2, ClickEffect DEF Row
  <2>3. EventsHaveRecords'
    BY <2>1, <2>2 DEF Books, EventsHaveRecords
  <2>4. Remembered'
    BY <2>1, <2>2 DEF Books, Remembered, TypeOK, Pairs
  <2>5. ASSUME NEW w \in Workers, NEW k \in batch[w]
        PROVE  Exists(k)' /\ \A c \in Channels : dlv[<<k, c>>].st # "none" => dlv'[<<k, c>>].st # "none"
    <3>1. k \in Keys /\ Exists(k)
      BY DEF Books, OwnEvents, TypeOK
    <3>2. \A c \in Channels : <<k, c>> \in Pairs
      BY <3>1 DEF Pairs
    <3> QED BY <2>2, <3>1, <3>2
  <2> QED BY <2>1, <2>2, <2>3, <2>4, <2>5, Environment
<1> QED BY <1>1, <1>2

\* A restart drops what the passes hold.
LEMMA RestartBooks ==
    ASSUME TypeOK, Books, Restart
    PROVE  Books'
  BY DEF Restart, Books, OwnEvents, OpenRows, LoadedRows, NotInProgress, Remembered,
         EventsHaveRecords, Dirty, Exists, NoRow, Row, settings, facts, database

\* Time changes no status.
LEMMA TickBooks ==
    ASSUME TypeOK, Books, Tick
    PROVE  Books'
<1>1. \A r \in Rows : Sooner(r).st = r.st
  BY DEF Sooner, Rows
<1>2. /\ \A k \in Keys : outbox'[k].st = outbox[k].st
      /\ \A p \in Pairs : dlv'[p].st = dlv[p].st
      /\ \A w \in Workers : Dirty(w)' = Dirty(w)
  <2>1. /\ \A k \in Keys : outbox'[k] = Sooner(outbox[k]) /\ outbox[k] \in Rows
        /\ \A p \in Pairs : dlv'[p] = Sooner(dlv[p]) /\ dlv[p] \in Rows
    BY DEF Tick, TypeOK
  <2>2. \A w \in Workers, c \in Channels : mine'[w][c] = Sooner(mine[w][c]) /\ mine[w][c] \in Rows
    BY DEF Tick, TypeOK
  <2>3. \A w \in Workers : Dirty(w)' = Dirty(w)
    BY <1>1, <2>2 DEF Dirty
  <2> QED BY <1>1, <2>1, <2>3
<1>3. /\ UNCHANGED <<chan, stored, window, pc, batch, cur, todo, at, base, done>>
  BY DEF Tick, settings, facts
<1>4. OwnEvents' /\ EventsHaveRecords' /\ OpenRows' /\ NotInProgress'
  <2>1. OwnEvents'
    <3>1. \A w \in Workers : \A k \in batch[w] : k \in Keys /\ Owner[k] = Owner[w] /\ Exists(k)
      BY DEF Books, OwnEvents, TypeOK
    <3>2. \A w \in Workers : \A k \in batch[w] : Owner[k] = Owner[w] /\ Exists(k)'
      BY <1>2, <3>1 DEF Exists
    <3> QED BY <1>3, <3>2 DEF Books, OwnEvents
  <2>2. EventsHaveRecords'
    BY <1>2, <1>3 DEF Books, EventsHaveRecords, Exists
  <2>3. OpenRows'
    BY <1>2, <1>3 DEF Books, OpenRows
  <2>4. NotInProgress'
    BY <1>2, <1>3 DEF Books, NotInProgress
  <2> QED BY <2>1, <2>2, <2>3, <2>4
<1>5. Remembered'
  <2> SUFFICES ASSUME NEW p \in done
               PROVE  \/ chan[p[2]] = "deleted"
                      \/ Exists(p[1])' /\ dlv'[p].st = "succeeded"
                      \/ ~Exists(p[1])' /\ p[1] \in stored \ window
    BY <1>3 DEF Remembered
  <2>1. p \in Pairs /\ p[1] \in Keys
    BY DEF TypeOK, Pairs
  <2>2. (Exists(p[1])' <=> Exists(p[1])) /\ dlv'[p].st = dlv[p].st
    BY <1>2, <2>1 DEF Exists
  <2> QED BY <2>2 DEF Books, Remembered
<1>6. LoadedRows'
  <2> SUFFICES ASSUME NEW w \in Workers, NEW c \in Dirty(w)
               PROVE  /\ base[w][c] # "succeeded"
                      /\ base[w][c] # "new" => dlv'[<<cur[w], c>>].st # "none" \/ chan[c] = "deleted"
    BY <1>2, <1>3 DEF LoadedRows
  <2>1. <<cur[w], c>> \in Pairs
    BY DEF Books, OpenRows, TypeOK, Dirty, Pairs
  <2> QED BY <1>2, <2>1 DEF Books, LoadedRows
<1> QED BY <1>4, <1>5, <1>6 DEF Books

-----------------------------------------------------------------------------
(* The steps of a pass.                                                     *)

\* When w moves on, only the tables decide whether the invariant still holds:
\* the other passes must find their events, and their rows, where they were.
LEMMA MoveOn ==
    ASSUME TypeOK, Books, NEW w \in Workers, NEW b \in SUBSET Keys, Continue(w, b), b \subseteq batch[w],
           UNCHANGED chan,
           \A k \in Keys : Exists(k) => Exists(k)',
           \A v \in Workers \ {w} : \A c \in Dirty(v) :
               /\ dlv[<<cur[v], c>>].st # "none" => dlv'[<<cur[v], c>>].st # "none" \/ chan[c] = "deleted"
               /\ <<cur[v], c>> \in done' => <<cur[v], c>> \in done,
           Remembered', EventsHaveRecords'
    PROVE  Books'
<1>1. /\ batch'[w] = b /\ cur'[w] = None /\ pc'[w] \in {"idle", "event"} /\ Dirty(w)' = {}
      /\ \A v \in Workers \ {w} : /\ batch'[v] = batch[v] /\ cur'[v] = cur[v] /\ pc'[v] = pc[v]
                                  /\ todo'[v] = todo[v] /\ at'[v] = at[v]
                                  /\ base'[v] = base[v] /\ Dirty(v)' = Dirty(v)
  BY ContinueEffect
<1>2. OwnEvents'
  <2>1. \A k \in b : Owner[k] = Owner[w] /\ Exists(k)
    BY DEF Books, OwnEvents
  <2>2. \A v \in Workers : \A k \in batch[v] : k \in Keys /\ Exists(k)'
    BY DEF Books, OwnEvents, TypeOK
  <2> QED BY <1>1, <2>1, <2>2 DEF Books, OwnEvents
<1>3. OpenRows'
  BY <1>1 DEF Books, OpenRows
<1>4. LoadedRows'
  BY <1>1 DEF Books, LoadedRows
<1>5. NotInProgress'
  BY <1>1 DEF Books, NotInProgress
<1> QED BY <1>2, <1>3, <1>4, <1>5 DEF Books

\* Selecting a batch: events of the tenant that exist.
LEMMA ScanBooks ==
    ASSUME TypeOK, Books, NEW w \in Workers, Scan(w)
    PROVE  Books'
<1>1. \A k \in Batch(Owner[w]) : k \in Keys /\ Owner[k] = Owner[w] /\ Exists(k)
  BY DEF Batch, Selectable, Due, Exists
<1>2. cur[w] = None
  BY DEF Scan, Books, OwnEvents, TypeOK
<1>3. OwnEvents'
  BY <1>1, <1>2 DEF Scan, Books, OwnEvents, TypeOK, Exists, database
<1>4. OpenRows'
  BY <1>2 DEF Scan, Books, OpenRows, TypeOK, Dirty, database
<1>5. LoadedRows' /\ NotInProgress' /\ Remembered' /\ EventsHaveRecords'
  BY DEF Scan, Books, LoadedRows, NotInProgress, Remembered, EventsHaveRecords, Dirty, Exists,
         database, settings, facts
<1> QED BY <1>3, <1>4, <1>5 DEF Books

\* Opening an event.
LEMMA OpenBooks ==
    ASSUME TypeOK, Books, NEW w \in Workers, Open(w)
    PROVE  Books'
<1>1. PICK k \in batch[w] : PutBack(w, k) \/ Take(w, k)
  BY DEF Open
<1>2. UNCHANGED <<older, dlv, chan, stored, window, done>>
  BY DEF Open, settings, facts
<1>3. k \in Keys
  BY DEF TypeOK
<1>4. CASE PutBack(w, k)
  <2>1. \A j \in Keys : Exists(j)' <=> Exists(j)
    BY <1>3, <1>4 DEF PutBack, Exists, Row, Books, OwnEvents, TypeOK
  <2>2. Remembered' /\ EventsHaveRecords'
    BY <1>2, <2>1 DEF Books, Remembered, EventsHaveRecords, TypeOK, Pairs
  <2>3. Continue(w, batch[w] \ {k}) /\ batch[w] \ {k} \in SUBSET Keys
    BY <1>4 DEF PutBack, TypeOK
  <2> QED BY <1>2, <2>1, <2>2, <2>3, MoveOn
<1>5. CASE Take(w, k)
  <2>1. cur[w] = None /\ Dirty(w) = {}
    BY DEF Open, Books, OwnEvents, OpenRows, TypeOK
  <2>2. k # None
    BY <1>3
  <2>3. /\ UNCHANGED <<outbox, batch, mine, base, at>>
        /\ cur' = [cur EXCEPT ![w] = k] /\ pc' = [pc EXCEPT ![w] = "channel"]
        /\ todo' = [todo EXCEPT ![w] = Targets(k)]
    BY <1>5 DEF Take
  <2>4. OwnEvents'
    BY <2>2, <2>3 DEF Books, OwnEvents, TypeOK, Exists
  <2>5. OpenRows'
    BY <2>1, <2>2, <2>3 DEF Books, OpenRows, TypeOK, Dirty
  <2>6. LoadedRows' /\ NotInProgress'
    BY <1>2, <2>1, <2>3 DEF Books, LoadedRows, NotInProgress, TypeOK, Dirty
  <2>7. Remembered' /\ EventsHaveRecords'
    BY <1>2, <2>3 DEF Books, Remembered, EventsHaveRecords, Exists
  <2> QED BY <2>4, <2>5, <2>6, <2>7 DEF Books
<1> QED BY <1>1, <1>4, <1>5

\* A send starts only for a row without success, so for no recorded success.
LEMMA StartIsFresh ==
    ASSUME TypeOK, Books, NEW w \in Workers, NEW c \in Channels, cur[w] \in Keys,
           dlv[<<cur[w], c>>].st # "succeeded", <<cur[w], c>> \in done
    PROVE  chan[c] = "deleted"
  BY DEF Books, Remembered, OwnEvents

LEMMA ExamineBooks ==
    ASSUME TypeOK, Books, NEW w \in Workers, Examine(w)
    PROVE  Books'
<1> DEFINE row(c) == dlv[<<cur[w], c>>]
<1>1. PICK c \in todo[w] : Skip(w, c, row(c)) \/ StartSend(w, c, row(c))
  BY DEF Examine
<1>2. c \in Channels /\ cur[w] \in Keys /\ pc[w] = "channel"
  BY DEF Examine, TypeOK, Focused
<1>3. UNCHANGED <<outbox, dlv, chan, stored, window, batch, cur, done>>
  BY DEF Examine, settings, facts, database
<1>4. Remembered' /\ EventsHaveRecords'
  BY <1>3 DEF Books, Remembered, EventsHaveRecords, Exists
<1>5. CASE Skip(w, c, row(c))
  <2>1. UNCHANGED <<pc, at, mine, base>> /\ todo' = [todo EXCEPT ![w] = @ \ {c}]
    BY <1>5 DEF Skip
  <2>2. OwnEvents' /\ LoadedRows' /\ NotInProgress'
    BY <1>3, <2>1 DEF Books, OwnEvents, LoadedRows, NotInProgress, Dirty, Exists
  <2>3. OpenRows'
    BY <1>2, <1>3, <2>1 DEF Books, OpenRows, TypeOK, Dirty
  <2> QED BY <1>4, <2>2, <2>3 DEF Books
<1>6. CASE StartSend(w, c, row(c))
  <2> DEFINE m == Row("pending", row(c).attempts + 1, 0)
             b == IF row(c).st = "none" THEN "new" ELSE row(c).st
  <2>1. /\ mine' = [mine EXCEPT ![w][c] = m] /\ base' = [base EXCEPT ![w][c] = b]
        /\ at' = [at EXCEPT ![w] = c] /\ pc' = [pc EXCEPT ![w] = "send"] /\ UNCHANGED todo
        /\ row(c).st # "succeeded"
    BY <1>6 DEF StartSend
  <2>2. m.st = "pending" /\ b # "succeeded" /\ (b # "new" => row(c).st # "none")
    BY <2>1 DEF Row
  <2> HIDE DEF m, b
  <2>3. Dirty(w)' = Dirty(w) \cup {c} /\ \A v \in Workers \ {w} : Dirty(v)' = Dirty(v)
    BY <1>2, <2>1, <2>2 DEF Dirty, TypeOK
  <2>4. OwnEvents'
    BY <1>2, <1>3, <2>1 DEF Books, OwnEvents, Exists, TypeOK
  <2>5. OpenRows'
    BY <1>2, <1>3, <2>1, <2>3 DEF Books, OpenRows, TypeOK
  <2>6. LoadedRows'
    <3>1. ASSUME NEW v \in Workers, NEW d \in Dirty(v)'
          PROVE  /\ base'[v][d] # "succeeded"
                 /\ base'[v][d] # "new" => dlv[<<cur[v], d>>].st # "none" \/ chan[d] = "deleted"
      <4>1. CASE v = w /\ d = c
        BY <1>2, <2>1, <2>2, <4>1 DEF TypeOK
      <4>2. CASE ~(v = w /\ d = c)
        <5>1. d \in Dirty(v) /\ d \in Channels
          BY <2>3, <4>2 DEF Dirty
        <5>2. base'[v][d] = base[v][d]
          BY <2>1, <4>2, <5>1 DEF TypeOK
        <5> QED BY <5>1, <5>2 DEF Books, LoadedRows
      <4> QED BY <4>1, <4>2
    <3> QED BY <1>3, <3>1 DEF LoadedRows
  <2>7. NotInProgress'
    BY <1>2, <1>3, <2>1, <2>3, StartIsFresh DEF Books, NotInProgress
  <2> QED BY <1>4, <2>4, <2>5, <2>6, <2>7 DEF Books
<1> QED BY <1>1, <1>5, <1>6

\* The answer of the provider changes the row, not which rows are changed.
LEMMA RespondBooks ==
    ASSUME TypeOK, Books, NEW w \in Workers, NEW ok \in BOOLEAN, Respond(w, ok)
    PROVE  Books'
<1>1. UNCHANGED <<outbox, dlv, chan, stored, window, batch, cur, base, done>>
  BY DEF Respond, settings, facts, database
<1>2. pc[w] = "send" /\ at[w] \in Channels /\ at[w] \in todo[w] /\ todo[w] \cap Dirty(w) = {at[w]}
  <2>1. pc[w] = "send"
    BY DEF Respond
  <2>2. at[w] \in Channels
    BY <2>1 DEF TypeOK, Focused
  <2>3. at[w] \in todo[w] /\ todo[w] \cap Dirty(w) = {at[w]}
    BY <2>1 DEF Books, OpenRows
  <2> QED BY <2>1, <2>2, <2>3
<1> DEFINE n == mine[w][at[w]].attempts
           row == IF ok THEN Row("succeeded", n, 0) ELSE Row("failed", n, Backoff(n))
<1>3. /\ mine' = [mine EXCEPT ![w][at[w]] = row] /\ row.st # "none"
      /\ todo' = [todo EXCEPT ![w] = @ \ {at[w]}]
      /\ pc' = [pc EXCEPT ![w] = "channel"] /\ at' = [at EXCEPT ![w] = None]
  BY DEF Respond, Row
<1> HIDE DEF row, n
<1>4. \A v \in Workers : Dirty(v)' = Dirty(v)
  BY <1>2, <1>3 DEF Dirty, TypeOK
<1>5. OwnEvents'
  BY <1>1, <1>2, <1>3 DEF Books, OwnEvents, Exists, TypeOK
<1>6. OpenRows'
  BY <1>1, <1>2, <1>3, <1>4 DEF Books, OpenRows, TypeOK
<1>7. LoadedRows' /\ NotInProgress'
  BY <1>1, <1>4 DEF Books, LoadedRows, NotInProgress
<1>8. Remembered' /\ EventsHaveRecords'
  BY <1>1 DEF Books, Remembered, EventsHaveRecords, Exists
<1> QED BY <1>5, <1>6, <1>7, <1>8 DEF Books

\* A committed success leaves a succeeded row, unless the channel is gone.
LEMMA CommittedSuccess ==
    ASSUME TypeOK, Books, NEW w \in Workers, NEW c \in Dirty(w), mine[w][c].st = "succeeded"
    PROVE  Merged(w, c).st = "succeeded" \/ chan[c] = "deleted"
<1>1. CASE base[w][c] # "new" /\ dlv[<<cur[w], c>>].st = "none"
  BY <1>1 DEF Books, LoadedRows
<1>2. CASE ~(base[w][c] # "new" /\ dlv[<<cur[w], c>>].st = "none")
  BY <1>2 DEF Books, LoadedRows, Merged, Row
<1> QED BY <1>1, <1>2

\* Closing an event settles it; no event appears or disappears.
LEMMA CloseKeepsEvents ==
    ASSUME TypeOK, Books, NEW w \in Workers, Close(w)
    PROVE  /\ cur[w] \in Keys /\ Exists(cur[w])
           /\ \A j \in Keys : Exists(j)' <=> Exists(j)
<1> DEFINE k == cur[w]
           n == seen[w][k].attempts + 1
           st == IF ClosedStatus(w) = seen[w][k].st THEN outbox[k].st ELSE ClosedStatus(w)
           t == IF ClosedStatus(w) = "retry" THEN Backoff(n) ELSE outbox[k].wait
<1>1. k \in Keys /\ k # None /\ k \in batch[w] /\ Exists(k)
  BY DEF Close, TypeOK, Focused, Books, OwnEvents
<1>2. outbox' = [outbox EXCEPT ![k] = Row(st, n, t)]
  BY DEF Close
<1>3. st # "none"
  BY <1>1 DEF ClosedStatus, Exists
<1> HIDE DEF k, st, n, t
<1>4. \A j \in Keys : Exists(j)' <=> Exists(j)
  BY <1>1, <1>2, <1>3 DEF Exists, Row, TypeOK
<1> QED BY <1>1, <1>4 DEF k

\* Committing touches the rows of the pass only.
LEMMA CloseBooks ==
    ASSUME OnePassPerTenant, TypeOK, Books, NEW w \in Workers, Close(w)
    PROVE  Books'
<1> DEFINE k == cur[w]
           ok == {c \in Dirty(w) : mine[w][c].st = "succeeded"}
<1>1. k \in Keys /\ k # None /\ k \in batch[w] /\ Exists(k)
  BY DEF Close, TypeOK, Focused, Books, OwnEvents
<1>2. UNCHANGED <<chan, stored, window>>
  BY DEF Close, settings, facts
<1>3. done' = done \cup {<<k, c>> : c \in ok}
  BY DEF Close
<1>4. \A p \in Pairs : dlv'[p] = IF p[1] = k /\ p[2] \in Dirty(w) THEN Merged(w, p[2]) ELSE dlv[p]
  BY DEF Close
<1>5. \A j \in Keys : Exists(j)' <=> Exists(j)
  BY CloseKeepsEvents
<1>6. Remembered'
  <2> SUFFICES ASSUME NEW p \in done'
               PROVE  (\/ chan[p[2]] = "deleted"
                       \/ Exists(p[1]) /\ dlv[p].st = "succeeded"
                       \/ ~Exists(p[1]) /\ p[1] \in stored \ window)'
    BY DEF Remembered
  <2>1. CASE p \in done
    <3>1. p \in Pairs /\ p[1] \in Keys /\ p = <<p[1], p[2]>>
      BY <2>1 DEF TypeOK, Pairs
    <3>2. CASE p[1] = k /\ p[2] \in Dirty(w)
      BY <1>2, <2>1, <3>1, <3>2 DEF Books, NotInProgress
    <3>3. CASE ~(p[1] = k /\ p[2] \in Dirty(w))
      BY <1>2, <1>4, <1>5, <2>1, <3>1, <3>3 DEF Books, Remembered
    <3> QED BY <3>2, <3>3
  <2>2. CASE p \notin done
    <3>1. PICK c \in ok : p = <<k, c>>
      BY <1>3, <2>2
    <3>2. c \in Dirty(w) /\ p \in Pairs
      BY <1>1, <3>1 DEF Dirty, Pairs
    <3>3. dlv'[p] = Merged(w, c)
      BY <1>4, <3>1, <3>2
    <3>4. Merged(w, c).st = "succeeded" \/ chan[c] = "deleted"
      BY <3>1, <3>2, CommittedSuccess
    <3> QED BY <1>1, <1>2, <1>5, <3>1, <3>3, <3>4
  <2> QED BY <2>1, <2>2
<1>7. EventsHaveRecords'
  BY <1>2, <1>5 DEF Books, EventsHaveRecords
<1>8. \A v \in Workers \ {w} : \A c \in Dirty(v) :
          /\ dlv'[<<cur[v], c>>] = dlv[<<cur[v], c>>]
          /\ <<cur[v], c>> \in done' => <<cur[v], c>> \in done
  <2> SUFFICES ASSUME NEW v \in Workers \ {w}, NEW c \in Dirty(v)
               PROVE  /\ dlv'[<<cur[v], c>>] = dlv[<<cur[v], c>>]
                      /\ <<cur[v], c>> \in done' => <<cur[v], c>> \in done
    OBVIOUS
  <2>1. cur[v] # None /\ cur[v] \in Keys /\ c \in Channels
    BY DEF Books, OpenRows, TypeOK, Dirty
  <2>2. cur[v] # k
    BY <1>1, <2>1, DistinctEvents DEF Books
  <2> QED BY <1>3, <1>4, <2>1, <2>2 DEF Pairs
<1>9. Continue(w, batch[w] \ {k}) /\ batch[w] \ {k} \in SUBSET Keys
  BY DEF Close, TypeOK
<1> QED BY <1>2, <1>5, <1>6, <1>7, <1>8, <1>9, MoveOn

\* A rollback leaves the rows as they were and reports a failed job.
LEMMA AbortBooks ==
    ASSUME TypeOK, Books, NEW w \in Workers, Abort(w)
    PROVE  Books'
<1> DEFINE f == FailureKey[Owner[w]]
<1>1. f \in Keys \ Records
  OBVIOUS
<1>2. UNCHANGED <<dlv, chan, stored, window, done>> /\ Continue(w, {})
  BY DEF Abort, settings, facts
<1>3. \A j \in Keys : Exists(j)' <=> Exists(j) \/ j = f
  BY <1>1 DEF Abort, Exists, Enqueued, Row
<1>4. Remembered' /\ EventsHaveRecords'
  BY <1>1, <1>2, <1>3 DEF Books, Remembered, EventsHaveRecords, TypeOK, Pairs
<1> QED BY <1>2, <1>3, <1>4, MoveOn

\* What a reconciliation request has read stays true while the events of its
\* records come and go not, and no success is recorded for a missing one.
LEMMA AuditStays ==
    ASSUME TypeOK, Audited, UNCHANGED audit, stored \subseteq stored',
           \A c \in Channels : chan[c] = "deleted" => chan'[c] = "deleted",
           \A k \in Keys : audit.st[k] # "unread" => (Exists(k)' <=> Exists(k)),
           \A k \in Keys, c \in Channels : ~Exists(k) /\ <<k, c>> \in done' => <<k, c>> \in done
    PROVE  Audited'
<1>0. \A p \in audit.rows : audit.st[p[1]] \notin {"unread", "failed"}
  BY DEF Audited
<1> SUFFICES ASSUME NEW k \in Keys, audit.st[k] # "unread"
             PROVE  /\ k \in stored'
                    /\ audit.st[k] = "none" <=> ~Exists(k)'
                    /\ ~Exists(k)' => \A c \in Channels : <<k, c>> \in done' => chan'[c] = "deleted"
  BY <1>0 DEF Audited
<1>1. /\ k \in stored /\ (audit.st[k] = "none" <=> ~Exists(k))
      /\ ~Exists(k) => \A c \in Channels : <<k, c>> \in done => chan[c] = "deleted"
  BY DEF Audited
<1> QED BY <1>1

\* A record is read while it is in the lookback.
LEMMA ReadAudited ==
    ASSUME TypeOK, Books, Audited, NEW r \in Records, ReconcileRead(r)
    PROVE  Audited'
<1>1. r \in window /\ r \in stored /\ r \in Keys
  BY DEF ReconcileRead, Gaps, Repairs, TypeOK
<1>2. UNCHANGED <<outbox, chan, stored, done>>
  BY DEF ReconcileRead, database, settings, facts
<1>3. \A k \in Keys : audit'.st[k] = IF k = r THEN outbox[r].st ELSE audit.st[k]
  BY DEF ReconcileRead, TypeOK
<1>4. ~Exists(r) => \A c \in Channels : <<r, c>> \in done => chan[c] = "deleted"
  BY <1>1 DEF Books, Remembered
<1>5. \A p \in audit'.rows : audit'.st[p[1]] \notin {"unread", "failed"}
  <2> SUFFICES ASSUME NEW p \in audit'.rows PROVE audit'.st[p[1]] \notin {"unread", "failed"}
    OBVIOUS
  <2>1. p \in audit.rows \/ (p \in Repairs /\ p[1] = r)
    BY DEF ReconcileRead
  <2>2. p[1] \in Keys
    BY <2>1 DEF TypeOK, Pairs, Repairs
  <2>3. CASE p[1] # r
    BY <1>3, <2>1, <2>2, <2>3 DEF Audited
  <2>4. CASE p[1] = r /\ p \in Repairs
    <3>1. outbox[r].st # "failed" /\ outbox[r].st \in Statuses
      BY <1>1, <2>4 DEF Repairs, Missing, TypeOK, Rows
    <3> QED BY <1>3, <2>2, <2>4, <3>1 DEF Statuses
  <2>5. CASE p[1] = r /\ p \in audit.rows
    BY <2>5 DEF ReconcileRead, Audited
  <2> QED BY <2>1, <2>3, <2>4, <2>5
<1> QED BY <1>1, <1>2, <1>3, <1>4, <1>5 DEF Audited, Exists

\* Passes end events, but remove none, and report failures under other keys.
LEMMA PassAudited ==
    ASSUME TypeOK, Books, Audited, NEW w \in Workers, Pass(w)
    PROVE  Audited'
<1>0. UNCHANGED <<audit, chan, stored>>
  BY DEF Pass, Scan, Open, Examine, Respond, Close, Abort, Hang, settings, facts
<1>1. CASE UNCHANGED <<outbox, done>>
  BY <1>0, <1>1, AuditStays DEF Exists
<1>2. CASE Open(w)
  <2>1. PICK k \in batch[w] : PutBack(w, k) \/ Take(w, k)
    BY <1>2 DEF Open
  <2>2. k \in Keys /\ Exists(k) /\ done' = done
    BY <1>2 DEF Open, Books, OwnEvents, TypeOK
  <2>3. outbox \in [Keys -> Rows]
    BY DEF TypeOK
  <2>4. \A j \in Keys : outbox'[j].st = outbox[j].st \/ (j = k /\ outbox'[j].st = "pending")
    BY <2>1, <2>3 DEF PutBack, Take, Row
  <2>5. \A j \in Keys : Exists(j)' <=> Exists(j)
    BY <2>2, <2>4 DEF Exists
  <2> QED BY <1>0, <2>2, <2>5, AuditStays
<1>3. CASE Close(w)
  <2>1. cur[w] \in Keys /\ Exists(cur[w]) /\ \A j \in Keys : Exists(j)' <=> Exists(j)
    BY <1>3, CloseKeepsEvents
  <2>2. \A k \in Keys, c \in Channels : <<k, c>> \in done' => <<k, c>> \in done \/ k = cur[w]
    BY <1>3 DEF Close
  <2> QED BY <1>0, <2>1, <2>2, AuditStays
<1>4. CASE Abort(w)
  <2>1. \A k \in Records : outbox'[k] = outbox[k]
    BY <1>4 DEF Abort, Enqueued
  <2>2. \A k \in Keys : audit.st[k] # "unread" => k \in Records
    BY DEF Audited, TypeOK
  <2>3. done' = done
    BY <1>4 DEF Abort
  <2> QED BY <1>0, <2>1, <2>2, <2>3, AuditStays DEF Exists
<1> QED BY <1>1, <1>2, <1>3, <1>4 DEF Pass, Scan, Examine, Respond, Hang, database

LEMMA StepAudited ==
    ASSUME TypeOK, Books, Audited, [Next]_vars
    PROVE  Audited'
<1>1. \A k \in Keys : audit.st[k] # "unread" => k \in stored /\ k \in Records
  BY DEF Audited, TypeOK
<1>2. CASE ReconcileWrite \/ Restart
  BY <1>2 DEF ReconcileWrite, Restart, Audited, NoAudit
<1>3. CASE ReconcileOnLoop
  BY <1>3 DEF ReconcileOnLoop, Auditing, Audited
<1>4. CASE UNCHANGED vars \/ \E r \in Records : LeaveWindow(r)
  BY <1>4, AuditStays DEF vars, LeaveWindow, database, settings, facts, Exists
<1>5. CASE \E k \in Keys : Enqueue(k)
  <2>1. UNCHANGED <<audit, chan, stored, done>>
    BY <1>5 DEF Enqueue, settings, facts
  <2>2. \A k \in Records : outbox'[k] = outbox[k]
    BY <1>5 DEF Enqueue, Enqueued
  <2> QED BY <1>1, <2>1, <2>2, AuditStays DEF Exists
<1>6. CASE \E r \in Records : Store(r)
  <2>1. UNCHANGED <<audit, chan, done>> /\ stored \subseteq stored'
    BY <1>6 DEF Store, settings
  <2>2. \A k \in stored : outbox'[k] = outbox[k]
    BY <1>6 DEF Store, Enqueued, TypeOK
  <2> QED BY <1>1, <2>1, <2>2, AuditStays DEF Exists
<1>7. CASE \E D \in SUBSET Keys : Cleanup(D)
  <2>1. UNCHANGED <<audit, chan, stored>> /\ done' \subseteq done
    BY <1>7 DEF Cleanup, settings, facts
  <2>2. \A k \in Keys : audit.st[k] # "unread" => outbox'[k] = outbox[k]
    BY <1>7 DEF Cleanup
  <2> QED BY <2>1, <2>2, AuditStays DEF Exists
<1>8. CASE Settings
  <2>1. UNCHANGED <<audit, outbox, stored, done>> /\ \A c \in Channels : chan[c] = "deleted" => chan'[c] = "deleted"
    BY <1>8 DEF Settings, CreateChannel, UpdateChannel, SetChannelEnabled, DeleteChannel,
                UpdateSubscriptions, TypeOK, database, facts
  <2> QED BY <2>1, AuditStays DEF Exists
<1>9. ASSUME NEW q \in Clicks, ClickRead(q) PROVE Audited'
  BY <1>9, AuditStays DEF ClickRead, database, settings, facts, Exists
<1>10. ASSUME NEW q \in Clicks, ClickWrite(q) PROVE Audited'
  <2>1. (\A k \in Keys : Exists(k)' <=> Exists(k)) /\ done' \subseteq done
    BY <1>10, ClickEffect
  <2> QED BY <1>10, <2>1, AuditStays DEF ClickWrite, settings, facts
<1>11. CASE Tick
  <2>1. \A r \in Rows : Sooner(r).st = r.st
    BY DEF Sooner, Rows
  <2>2. \A k \in Keys : outbox'[k].st = outbox[k].st
    BY <1>11, <2>1 DEF Tick, TypeOK
  <2> QED BY <1>11, <2>2, AuditStays DEF Tick, settings, facts, Exists
<1> QED BY <1>2, <1>3, <1>4, <1>5, <1>6, <1>7, <1>8, <1>9, <1>10, <1>11, ReadAudited, PassAudited DEF Next

\* The bookkeeping is an invariant.
THEOREM BookkeepingInvariant ==
    ASSUME OnePassPerTenant
    PROVE  Spec => []Bookkeeping
<1>1. TypeOK /\ Books /\ Audited /\ [Next]_vars => Books'
  <2> SUFFICES ASSUME TypeOK, Books, Audited, [Next]_vars PROVE Books'
    OBVIOUS
  <2> DEFINE Same == UNCHANGED <<outbox, dlv, chan, stored, window, pc, batch, cur, todo, at, mine, base, done>>
  <2>1. CASE Same
    BY <2>1 DEF Books, OwnEvents, OpenRows, LoadedRows, NotInProgress, Remembered, EventsHaveRecords,
                Dirty, Exists
  <2>2. ASSUME NEW w \in Workers, Pass(w) PROVE Books'
    <3>1. Hang(w) => Same
      BY DEF Hang, worker, settings, facts, database
    <3> QED BY <2>1, <2>2, <3>1, ScanBooks, OpenBooks, ExamineBooks, RespondBooks,
               CloseBooks, AbortBooks DEF Pass
  <2>3. UNCHANGED vars \/ (\E r \in Records : ReconcileRead(r)) => Same
    BY DEF vars, ReconcileRead, worker, settings, facts, database
  <2> QED BY <2>1, <2>2, <2>3, EnqueueBooks, StoreBooks, LeaveWindowBooks,
             CleanupBooks, ReconcileBooks, SettingsBooks, ClickBooks,
             RestartBooks, TickBooks DEF Next
<1>2. TypeOK /\ Books /\ Audited /\ [Next]_vars => Audited'
  BY StepAudited
<1> QED BY InitBooks, InitAudited, <1>1, <1>2, TypeCorrect, PTL DEF Spec, Bookkeeping

\* The part of it that speaks of the passes.
LEMMA BooksKept ==
    ASSUME OnePassPerTenant
    PROVE  Spec => []Books
<1>1. Bookkeeping => Books
  BY DEF Bookkeeping
<1> QED BY <1>1, BookkeepingInvariant, PTL

\* Only the examination of a channel starts a send, and only for that pass.
LEMMA OnlyExamineSends ==
    ASSUME TypeOK, [Next]_vars, NEW w \in Workers, StartsSend(w)
    PROVE  \E c \in todo[w] : pc[w] = "channel" /\ at'[w] = c /\ StartSend(w, c, dlv[<<cur[w], c>>])
<1> USE DEF StartsSend
<1>1. ~(pc' = pc)
  OBVIOUS
<1>2. ASSUME NEW v \in Workers, NEW b \in SUBSET Keys, Continue(v, b) PROVE FALSE
  BY <1>2 DEF Continue, TypeOK
<1>3. ASSUME Restart PROVE FALSE
  BY <1>3 DEF Restart
<1>4. PICK v \in Workers : Pass(v)
  BY <1>1, <1>3 DEF Next, vars, Enqueue, Store, LeaveWindow, Cleanup, ReconcileOnLoop, ReconcileRead, ReconcileWrite,
     Reconciled, Settings, CreateChannel, UpdateChannel, SetChannelEnabled, DeleteChannel,
     UpdateSubscriptions, ClickRead, ClickWrite, Tick, worker
<1>5. ~Scan(v) /\ ~Hang(v) /\ \A ok \in BOOLEAN : ~Respond(v, ok)
  BY DEF Scan, Hang, Respond, worker, TypeOK
<1>6. ~Close(v) /\ ~Abort(v)
  BY <1>2 DEF Close, Abort, TypeOK
<1>7. ~Open(v)
  <2>1. ASSUME NEW k \in batch[v], PutBack(v, k) PROVE FALSE
    BY <1>2, <2>1 DEF PutBack, TypeOK
  <2>2. ASSUME NEW k \in batch[v], Take(v, k), pc[v] = "event" PROVE FALSE
    BY <2>2 DEF Take, TypeOK
  <2> QED BY <2>1, <2>2 DEF Open
<1>8. Examine(v)
  BY <1>4, <1>5, <1>6, <1>7 DEF Pass
<1>9. PICK c \in todo[v] : Skip(v, c, dlv[<<cur[v], c>>]) \/ StartSend(v, c, dlv[<<cur[v], c>>])
  BY <1>8 DEF Examine
<1>10. StartSend(v, c, dlv[<<cur[v], c>>])
  BY <1>1, <1>9 DEF Skip
<1>11. v = w
  BY <1>10 DEF StartSend, TypeOK
<1>12. pc[v] = "channel"
  BY <1>8 DEF Examine
<1>13. at'[v] = c
  BY <1>10 DEF StartSend, TypeOK
<1> QED BY <1>9, <1>10, <1>11, <1>12, <1>13

\* README "a delivered notification is never resent", as far as one pass per
\* tenant runs at a time: only a manual retry makes a message due again.
THEOREM DeliveredIsNeverResent ==
    ASSUME OnePassPerTenant
    PROVE  Spec => NeverResent
<1> DEFINE A == \A w \in Workers :
                    StartsSend(w) /\ chan[at'[w]] # "deleted" => <<cur[w], at'[w]>> \notin done
<1>1. TypeOK /\ Books /\ [Next]_vars => A
  <2> SUFFICES ASSUME TypeOK, Books, [Next]_vars, NEW w \in Workers,
                      StartsSend(w), chan[at'[w]] # "deleted"
               PROVE  <<cur[w], at'[w]>> \notin done
    OBVIOUS
  <2>1. PICK c \in todo[w] : pc[w] = "channel" /\ at'[w] = c /\ StartSend(w, c, dlv[<<cur[w], c>>])
    BY OnlyExamineSends
  <2>2. c \in Channels /\ cur[w] \in Keys
    BY <2>1 DEF TypeOK, Focused
  <2>3. dlv[<<cur[w], c>>].st # "succeeded"
    BY <2>1 DEF StartSend
  <2> QED BY <2>1, <2>2, <2>3, StartIsFresh
<1>2. TypeOK /\ Books /\ [Next]_vars => [A]_vars
  BY <1>1
<1>3. [][A]_vars => NeverResent
  BY PTL DEF NeverResent
<1> QED BY <1>2, <1>3, TypeCorrect, BooksKept, PTL DEF Spec, NeverResent

-----------------------------------------------------------------------------
(* The pipeline implements NotificationPromise.                             *)

\* Ending the event of w ends exactly its messages.
LEMMA ContinueEnds ==
    ASSUME OnePassPerTenant, TypeOK, Books, NEW w \in Workers, NEW b \in SUBSET Keys, Continue(w, b)
    PROVE  InProgress' = InProgress \ {p \in InProgress : p[1] = cur[w]}
<1>1. /\ cur'[w] = None /\ Dirty(w)' = {}
      /\ \A v \in Workers \ {w} : cur'[v] = cur[v] /\ Dirty(v)' = Dirty(v)
  BY ContinueEffect
<1>2. \A v \in Workers \ {w} : Dirty(v) # {} => cur[v] # cur[w]
  BY DistinctEvents DEF Books, OpenRows
<1> QED BY <1>1, <1>2 DEF InProgress

\* The abstract actions, seen from the pipeline.
LEMMA PassKeepsPromise ==
    ASSUME OnePassPerTenant, TypeOK, Books, NEW w \in Workers, Pass(w)
    PROVE  [Promise!Next]_Promise!pvars
<1> USE DEF Promise!Next, Promise!pvars, Promise!Settle, Promise!Begin
<1>1. CASE Scan(w) \/ Hang(w)
  <2>1. UNCHANGED <<cur, mine, done, chan>>
    BY <1>1 DEF Scan, Hang, worker, settings
  <2> QED BY <2>1 DEF InProgress, Removed, Dirty
<1>2. CASE \E ok \in BOOLEAN : Respond(w, ok)
  <2>1. PICK ok \in BOOLEAN : Respond(w, ok)
    BY <1>2
  <2>2. UNCHANGED <<cur, done, chan>>
    BY <2>1 DEF Respond, settings
  <2>3. \A v \in Workers : Dirty(v)' = Dirty(v)
    <3>1. at[w] \in Channels /\ at[w] \in Dirty(w)
      BY <2>1 DEF Respond, Books, OpenRows, TypeOK, Focused
    <3> DEFINE n == mine[w][at[w]].attempts
               row == IF ok THEN Row("succeeded", n, 0) ELSE Row("failed", n, Backoff(n))
    <3>2. mine' = [mine EXCEPT ![w][at[w]] = row] /\ row.st # "none"
      BY <2>1 DEF Respond, Row
    <3> HIDE DEF row, n
    <3> QED BY <3>1, <3>2 DEF Dirty, TypeOK
  <2> QED BY <2>2, <2>3 DEF InProgress, Removed
<1>3. CASE Open(w)
  <2>1. PICK k \in batch[w] : PutBack(w, k) \/ Take(w, k)
    BY <1>3 DEF Open
  <2>2. UNCHANGED <<done, chan>> /\ cur[w] = None /\ Dirty(w) = {}
    BY <1>3 DEF Open, Books, OwnEvents, OpenRows, TypeOK, settings
  <2>3. InProgress' = InProgress
    <3>1. CASE PutBack(w, k)
      <4>1. Continue(w, batch[w] \ {k}) /\ batch[w] \ {k} \in SUBSET Keys
        BY <3>1 DEF PutBack, TypeOK
      <4>2. \A p \in InProgress : p[1] # None
        BY DEF InProgress, Pairs
      <4>3. InProgress' = InProgress \ {p \in InProgress : p[1] = cur[w]}
        BY <4>1, ContinueEnds
      <4>4. \A p \in InProgress : p[1] # cur[w]
        BY <2>2, <4>2
      <4> HIDE DEF InProgress
      <4> QED BY <4>3, <4>4
    <3>2. CASE Take(w, k)
      <4>1. cur' = [cur EXCEPT ![w] = k] /\ mine' = mine
        BY <3>2 DEF Take
      <4> QED BY <2>2, <4>1 DEF InProgress, Dirty, TypeOK
    <3> QED BY <2>1, <3>1, <3>2
  <2> QED BY <2>2, <2>3 DEF Removed
<1>4. CASE Examine(w)
  <2> DEFINE row(c) == dlv[<<cur[w], c>>]
  <2>1. PICK c \in todo[w] : Skip(w, c, row(c)) \/ StartSend(w, c, row(c))
    BY <1>4 DEF Examine
  <2>2. c \in Channels /\ cur[w] \in Keys /\ cur[w] # None /\ c \notin Dirty(w)
    BY <1>4, <2>1 DEF Examine, TypeOK, Focused, Books, OpenRows
  <2>3. UNCHANGED <<cur, done, chan>>
    BY <1>4 DEF Examine, settings
  <2>4. CASE Skip(w, c, row(c))
    BY <2>3, <2>4 DEF Skip, InProgress, Removed, Dirty
  <2>5. CASE StartSend(w, c, row(c))
    <3> DEFINE m == <<cur[w], c>>
               r == Row("pending", row(c).attempts + 1, 0)
    <3>1. m \in Pairs /\ m \notin InProgress
      BY <2>2, DistinctEvents DEF InProgress, Pairs, Books
    <3>2. m \notin done \/ c \in Removed
      BY <2>2, <2>5, StartIsFresh DEF StartSend, Removed
    <3>3. mine' = [mine EXCEPT ![w][c] = r] /\ r.st = "pending"
      BY <2>5 DEF StartSend, Row
    <3> HIDE DEF r
    <3>4. Dirty(w)' = Dirty(w) \cup {c} /\ \A v \in Workers \ {w} : Dirty(v)' = Dirty(v)
      BY <2>2, <3>3 DEF Dirty, TypeOK
    <3>5. InProgress' = InProgress \cup {m}
      BY <2>2, <2>3, <3>4 DEF InProgress, Pairs
    <3>6. Removed' = Removed /\ m[2] = c
      BY <2>3 DEF Removed
    <3> HIDE DEF m
    <3>7. Promise!Begin(m)
      BY <2>3, <3>1, <3>2, <3>5, <3>6
    <3> QED BY <3>1, <3>7
  <2> QED BY <2>1, <2>4, <2>5
<1>5. CASE Close(w)
  <2> DEFINE S == {p \in InProgress : p[1] = cur[w]}
             ok == {<<cur[w], c>> : c \in {d \in Dirty(w) : mine[w][d].st = "succeeded"}}
  <2>1. Continue(w, batch[w] \ {cur[w]}) /\ batch[w] \ {cur[w]} \in SUBSET Keys
    BY <1>5 DEF Close, TypeOK
  <2>2. InProgress' = InProgress \ S
    BY <2>1, ContinueEnds
  <2>3. done' = done \cup ok /\ Removed' = Removed
    BY <1>5 DEF Close, Removed, settings
  <2>4. cur[w] \in Keys
    BY <1>5 DEF Close, TypeOK, Focused
  <2>5. ok \subseteq S /\ S \subseteq InProgress
    BY <2>4 DEF InProgress, Pairs, Dirty
  <2> HIDE DEF S, ok
  <2>6. Promise!Settle(S, ok)
    BY <2>2, <2>3, <2>5
  <2> QED BY <2>5, <2>6
<1>6. CASE Abort(w)
  <2> DEFINE S == {p \in InProgress : p[1] = cur[w]}
  <2>1. Continue(w, {}) /\ done' = done /\ Removed' = Removed
    BY <1>6 DEF Abort, Removed, settings
  <2>2. InProgress' = InProgress \ S /\ S \subseteq InProgress
    BY <2>1, ContinueEnds
  <2> HIDE DEF S
  <2>3. Promise!Settle(S, {})
    BY <2>1, <2>2
  <2> QED BY <2>2, <2>3
<1> QED BY <1>1, <1>2, <1>3, <1>4, <1>5, <1>6 DEF Pass

\* The refinement, with one pass per tenant.  A manual retry is the promise's
\* Again: it withdraws a recorded success and touches no attempt in progress.
THEOREM PipelineKeepsPromise ==
    ASSUME OnePassPerTenant
    PROVE  Spec => PromiseKept
<1>1. Init => Promise!Init
  <2> SUFFICES ASSUME Init PROVE Promise!Init
    OBVIOUS
  <2>1. \A w \in Workers : Dirty(w) = {}
    BY DEF Init, Dirty, NoRow, Row
  <2>2. InProgress = {} /\ Removed = {} /\ done = {}
    BY <2>1 DEF Init, InProgress, Removed
  <2> QED BY <2>2 DEF Promise!Init
<1>2. TypeOK /\ Books /\ [Next]_vars => [Promise!Next]_Promise!pvars
  <2> SUFFICES ASSUME TypeOK, Books, [Next]_vars PROVE [Promise!Next]_Promise!pvars
    OBVIOUS
  <2> USE DEF Promise!Next, Promise!pvars
  <2>1. CASE UNCHANGED <<cur, chan, done>> /\ \A w \in Workers : Dirty(w)' = Dirty(w)
    BY <2>1 DEF InProgress, Removed
  <2>2. CASE UNCHANGED <<cur, mine, chan, done>>
    BY <2>1, <2>2 DEF Dirty
  <2>3. CASE Tick
    <3>1. \A r \in Rows : Sooner(r).st = r.st
      BY DEF Sooner, Rows
    <3>2. \A w \in Workers : Dirty(w)' = Dirty(w)
      BY <2>3, <3>1 DEF Tick, TypeOK, Dirty
    <3> QED BY <2>1, <2>3, <3>2 DEF Tick, settings
  <2>4. CASE Restart
    <3>1. InProgress' = {} /\ done' = done /\ Removed' = Removed
      BY <2>4 DEF Restart, InProgress, Removed, Dirty, NoRow, Row, settings
    <3>2. Promise!Settle(InProgress, {})
      BY <3>1 DEF Promise!Settle
    <3> QED BY <3>2
  <2>5. ASSUME NEW D \in SUBSET Keys, Cleanup(D) PROVE [Promise!Next]_Promise!pvars
    <3> DEFINE F == {p \in (Keys \ Records) \X Channels : p[1] \in D}
    <3>1. done' = done \ F
      BY <2>5 DEF Cleanup, TypeOK, Pairs
    <3>2. InProgress' = InProgress /\ Removed' = Removed
      BY <2>5 DEF Cleanup, worker, settings, InProgress, Removed, Dirty
    <3>3. F \in SUBSET ((Keys \ Records) \X Channels)
      OBVIOUS
    <3> HIDE DEF F
    <3>4. Promise!Forget(F)
      BY <3>1, <3>2, <3>3 DEF Promise!Forget
    <3> QED BY <3>3, <3>4
  <2>6. ASSUME NEW c \in Channels, DeleteChannel(c) PROVE [Promise!Next]_Promise!pvars
    <3>1. Removed' = Removed \cup {c}
      BY <2>6 DEF DeleteChannel, Removed, TypeOK
    <3>2. InProgress' = InProgress /\ done' = done
      BY <2>6 DEF DeleteChannel, worker, InProgress, Dirty
    <3>3. Promise!Remove(c)
      BY <3>1, <3>2 DEF Promise!Remove
    <3>4. \E d \in Channels : Promise!Remove(d)
      BY <3>3
    <3> QED BY <3>4 DEF Promise!Next
  <2>7a. ASSUME NEW c \in Channels, NEW on \in BOOLEAN, NEW s \in Selections,
                CreateChannel(c, on, s) \/ UpdateChannel(c, on, s)
         PROVE  [Promise!Next]_Promise!pvars
    <3>1. Removed' = Removed
      BY <2>7a DEF CreateChannel, UpdateChannel, Removed, TypeOK
    <3>2. InProgress' = InProgress /\ done' = done
      BY <2>7a DEF CreateChannel, UpdateChannel, worker, InProgress, Dirty
    <3> QED BY <3>1, <3>2
  <2>7b. ASSUME NEW c \in Channels, NEW on \in BOOLEAN, SetChannelEnabled(c, on)
         PROVE  [Promise!Next]_Promise!pvars
    <3>1. Removed' = Removed
      BY <2>7b DEF SetChannelEnabled, Removed, TypeOK
    <3>2. InProgress' = InProgress /\ done' = done
      BY <2>7b DEF SetChannelEnabled, worker, InProgress, Dirty
    <3> QED BY <3>1, <3>2
  <2>8. ASSUME NEW u \in Users, NEW s \in Selections, UpdateSubscriptions(u, s)
        PROVE  UNCHANGED <<cur, mine, chan, done>>
    BY <2>8 DEF UpdateSubscriptions, worker
  <2>9. ASSUME \/ \E k \in Keys : Enqueue(k)
               \/ \E r \in Records : Store(r) \/ LeaveWindow(r)
               \/ ReconcileOnLoop \/ ReconcileWrite \/ \E r \in Records : ReconcileRead(r)
               \/ UNCHANGED vars
        PROVE  UNCHANGED <<cur, mine, chan, done>>
    BY <2>9 DEF Enqueue, Store, LeaveWindow, ReconcileOnLoop, ReconcileRead, ReconcileWrite, Reconciled, vars, worker, settings
  <2> HIDE DEF Promise!Next, Promise!pvars
  <2>10. CASE \E w \in Workers : Pass(w)
    BY <2>10, PassKeepsPromise
  <2>11. CASE Settings
    <3>1. CASE \/ \E c \in Channels, on \in BOOLEAN, s \in Selections :
                      CreateChannel(c, on, s) \/ UpdateChannel(c, on, s)
               \/ \E c \in Channels, on \in BOOLEAN : SetChannelEnabled(c, on)
      BY <2>7a, <2>7b, <3>1
    <3>2. CASE \E c \in Channels : DeleteChannel(c)
      BY <2>6, <3>2
    <3>3. CASE \E u \in Users, s \in Selections : UpdateSubscriptions(u, s)
      BY <2>2, <2>8, <3>3
    <3> QED BY <2>11, <3>1, <3>2, <3>3 DEF Settings
  <2>12. CASE \E D \in SUBSET Keys : Cleanup(D)
    BY <2>5, <2>12
  <2>13. CASE \/ \E k \in Keys : Enqueue(k)
              \/ \E r \in Records : Store(r) \/ LeaveWindow(r)
              \/ ReconcileOnLoop \/ ReconcileWrite \/ \E r \in Records : ReconcileRead(r)
              \/ UNCHANGED vars
    BY <2>2, <2>9, <2>13
  <2>14. ASSUME NEW q \in Clicks, ClickWrite(q) PROVE [Promise!Next]_Promise!pvars
    <3> DEFINE p == <<req[q].key, req[q].chan>>
    <3>1. done' = done \ {p}
      BY <2>14, ClickEffect
    <3>2. InProgress' = InProgress /\ Removed' = Removed
      BY <2>14 DEF ClickWrite, worker, settings, InProgress, Removed, Dirty
    <3> HIDE DEF p
    <3>3. CASE p \in Pairs
      <4>1. Promise!Again(p)
        BY <3>1, <3>2 DEF Promise!Again
      <4> QED BY <3>3, <4>1 DEF Promise!Next
    <3>4. CASE p \notin Pairs
      <4>1. done' = done
        BY <3>1, <3>4 DEF TypeOK
      <4> QED BY <3>2, <4>1 DEF Promise!pvars
    <3> QED BY <3>3, <3>4
  <2>15. CASE \E q \in Clicks : ClickRead(q)
    BY <2>2, <2>15 DEF ClickRead, worker, settings
  <2> QED BY <2>3, <2>4, <2>10, <2>11, <2>12, <2>13, <2>14, <2>15 DEF Next
<1> QED BY <1>1, <1>2, TypeCorrect, BooksKept, PTL DEF Spec, PromiseKept, Promise!Spec

-----------------------------------------------------------------------------
(* The tenant boundary, for any number of passes and manual retries.        *)

\* A pass works on rows of its event's tenant only, and outside an event on none.
Theirs ==
    \A w \in Workers :
        /\ pc[w] \notin {"channel", "send"} => todo[w] = {} /\ Dirty(w) = {}
        /\ pc[w] = "send" => at[w] \in todo[w]
        /\ \A c \in todo[w] \cup Dirty(w) : Owner[c] = Owner[cur[w]]
Boundary == TenantIsolation /\ Theirs

\* The end of an event leaves nothing to cross the boundary with.
LEMMA ContinueBoundary ==
    ASSUME TypeOK, Boundary, NEW w \in Workers, NEW b \in SUBSET Keys, Continue(w, b), b \subseteq batch[w],
           \A q \in Pairs : dlv'[q].st # "none" => dlv[q].st # "none" \/ Owner[q[1]] = Owner[q[2]]
    PROVE  Boundary'
<1>1. todo'[w] = {}
  BY DEF Continue, TypeOK
<1>2. /\ batch'[w] = b /\ cur'[w] = None /\ pc'[w] \in {"idle", "event"} /\ Dirty(w)' = {}
      /\ \A v \in Workers \ {w} : /\ batch'[v] = batch[v] /\ cur'[v] = cur[v] /\ pc'[v] = pc[v]
                                  /\ todo'[v] = todo[v] /\ at'[v] = at[v] /\ Dirty(v)' = Dirty(v)
  BY ContinueEffect
<1>3. Theirs'
  BY <1>1, <1>2 DEF Boundary, Theirs
<1>4. TenantIsolation'
  BY <1>2 DEF Boundary, TenantIsolation
<1> QED BY <1>3, <1>4 DEF Boundary

\* The steps of a pass stay within the tenant.
LEMMA PassBoundary == ASSUME TypeOK, Boundary, NEW w \in Workers, Pass(w) PROVE Boundary'
<1>1. CASE Scan(w)
  <2>1. \A k \in Batch(Owner[w]) : Owner[k] = Owner[w]
    BY DEF Batch, Selectable
  <2>2. UNCHANGED <<dlv, todo, mine, at, cur>> /\ pc' = [pc EXCEPT ![w] = "event"] /\ pc[w] = "idle"
    BY <1>1 DEF Scan, database
  <2>3. Theirs'
    BY <2>2 DEF Boundary, Theirs, Dirty, TypeOK
  <2>4. TenantIsolation'
    BY <1>1, <2>1, <2>2 DEF Scan, Boundary, TenantIsolation, TypeOK
  <2> QED BY <2>3, <2>4 DEF Boundary
<1>2. CASE Open(w)
  <2>1. PICK k \in batch[w] : PutBack(w, k) \/ Take(w, k)
    BY <1>2 DEF Open
  <2>2. dlv' = dlv /\ pc[w] = "event"
    BY <1>2 DEF Open
  <2>3. CASE PutBack(w, k)
    <3>1. Continue(w, batch[w] \ {k}) /\ batch[w] \ {k} \in SUBSET Keys
      BY <2>3 DEF PutBack, TypeOK
    <3> QED BY <2>2, <3>1, ContinueBoundary
  <2>4. CASE Take(w, k)
    <3>1. /\ cur' = [cur EXCEPT ![w] = k] /\ todo' = [todo EXCEPT ![w] = Targets(k)]
          /\ pc' = [pc EXCEPT ![w] = "channel"] /\ UNCHANGED <<batch, at, mine>>
      BY <2>4 DEF Take
    <3>2. Theirs'
      BY <2>2, <3>1 DEF Boundary, Theirs, Dirty, Targets, TypeOK
    <3>3. TenantIsolation'
      BY <2>2, <3>1 DEF Boundary, TenantIsolation
    <3> QED BY <3>2, <3>3 DEF Boundary
  <2> QED BY <2>1, <2>3, <2>4
<1>3. CASE Examine(w)
  <2> DEFINE row(c) == dlv[<<cur[w], c>>]
  <2>1. PICK c \in todo[w] : Skip(w, c, row(c)) \/ StartSend(w, c, row(c))
    BY <1>3 DEF Examine
  <2>2. UNCHANGED <<dlv, batch, cur>> /\ pc[w] = "channel"
    BY <1>3 DEF Examine, database
  <2>3. TenantIsolation'
    BY <2>2 DEF Boundary, TenantIsolation
  <2>4. CASE Skip(w, c, row(c))
    <3>1. UNCHANGED <<pc, at, mine>> /\ todo' = [todo EXCEPT ![w] = @ \ {c}]
      BY <2>4 DEF Skip
    <3>2. Theirs'
      BY <2>2, <3>1 DEF Boundary, Theirs, Dirty, TypeOK
    <3> QED BY <2>3, <3>2 DEF Boundary
  <2>5. CASE StartSend(w, c, row(c))
    <3>1. /\ mine' = [mine EXCEPT ![w][c] = Row("pending", row(c).attempts + 1, 0)]
          /\ at' = [at EXCEPT ![w] = c] /\ pc' = [pc EXCEPT ![w] = "send"] /\ UNCHANGED todo
      BY <2>5 DEF StartSend
    <3>2. Dirty(w)' \subseteq Dirty(w) \cup {c} /\ \A v \in Workers \ {w} : Dirty(v)' = Dirty(v)
      BY <3>1 DEF Dirty, TypeOK
    <3>3. Theirs'
      BY <2>1, <2>2, <3>1, <3>2 DEF Boundary, Theirs, TypeOK
    <3> QED BY <2>3, <3>3 DEF Boundary
  <2> QED BY <2>1, <2>4, <2>5
<1>4. ASSUME NEW ok \in BOOLEAN, Respond(w, ok) PROVE Boundary'
  <2> DEFINE n == mine[w][at[w]].attempts
             row == IF ok THEN Row("succeeded", n, 0) ELSE Row("failed", n, Backoff(n))
  <2>1. /\ mine' = [mine EXCEPT ![w][at[w]] = row]
        /\ todo' = [todo EXCEPT ![w] = @ \ {at[w]}]
        /\ pc' = [pc EXCEPT ![w] = "channel"] /\ at' = [at EXCEPT ![w] = None]
        /\ UNCHANGED <<dlv, batch, cur>> /\ pc[w] = "send"
    BY <1>4 DEF Respond, database
  <2> HIDE DEF row, n
  <2>2. at[w] \in todo[w]
    BY <2>1 DEF Boundary, Theirs
  <2>3. Dirty(w)' \subseteq Dirty(w) \cup {at[w]} /\ \A v \in Workers \ {w} : Dirty(v)' = Dirty(v)
    BY <2>1 DEF Dirty, TypeOK
  <2>4. Theirs'
    BY <2>1, <2>2, <2>3 DEF Boundary, Theirs, TypeOK
  <2>5. TenantIsolation'
    BY <2>1 DEF Boundary, TenantIsolation
  <2> QED BY <2>4, <2>5 DEF Boundary
<1>5. CASE Close(w)
  <2>1. Continue(w, batch[w] \ {cur[w]}) /\ batch[w] \ {cur[w]} \in SUBSET Keys
    BY <1>5 DEF Close, TypeOK
  <2>2. \A p \in Pairs : (p[1] = cur[w] /\ p[2] \in Dirty(w)) \/ dlv'[p] = dlv[p]
    BY <1>5 DEF Close
  <2> QED BY <2>1, <2>2, ContinueBoundary DEF Boundary, Theirs
<1>6. CASE Abort(w)
  BY <1>6, ContinueBoundary DEF Abort
<1>7. CASE Hang(w)
  BY <1>7 DEF Hang, Boundary, Theirs, TenantIsolation, Dirty, worker, database
<1> QED BY <1>1, <1>2, <1>3, <1>4, <1>5, <1>6, <1>7 DEF Pass

\* A reconciliation request adds rows to records it has read, within their tenant.
RequestedRows == \A p \in audit.rows : audit.st[p[1]] # "unread" /\ Owner[p[1]] = Owner[p[2]]

LEMMA RequestedRowsKept == Spec => []RequestedRows
<1>1. Init => RequestedRows
  BY DEF Init, RequestedRows, NoAudit
<1>2. TypeOK /\ RequestedRows /\ [Next]_vars => RequestedRows'
  <2> SUFFICES ASSUME TypeOK, RequestedRows, [Next]_vars PROVE RequestedRows'
    OBVIOUS
  <2>1. CASE UNCHANGED audit
    BY <2>1 DEF RequestedRows
  <2>2. CASE ReconcileWrite \/ Restart
    BY <2>2 DEF ReconcileWrite, Restart, RequestedRows, NoAudit
  <2>3. ASSUME NEW r \in Records, ReconcileRead(r) PROVE RequestedRows'
    <3>1. \A p \in Repairs : Owner[p[1]] = Owner[p[2]]
      BY DEF Repairs, Missing, Targets
    <3>2. \A k \in Keys : audit'.st[k] = IF k = r THEN outbox[r].st ELSE audit.st[k]
      BY <2>3 DEF ReconcileRead, TypeOK
    <3>3. outbox[r].st # "unread"
      BY DEF TypeOK, Rows, Statuses
    <3>4. \A p \in audit'.rows : p[1] \in Keys /\ (p \in audit.rows \/ (p \in Repairs /\ p[1] = r))
      BY <2>3 DEF ReconcileRead, TypeOK, Pairs, Repairs
    <3> QED BY <3>1, <3>2, <3>3, <3>4 DEF RequestedRows
  <2>4. ASSUME NEW w \in Workers, Pass(w) PROVE UNCHANGED audit
    BY <2>4 DEF Pass, Scan, Open, Examine, Respond, Close, Abort, Hang
  <2>5. UNCHANGED vars \/ Settings => UNCHANGED audit
    BY DEF vars, Settings, CreateChannel, UpdateChannel, SetChannelEnabled, DeleteChannel, UpdateSubscriptions
  <2>6. CASE \/ \E k \in Keys : Enqueue(k)
             \/ \E r \in Records : Store(r) \/ LeaveWindow(r)
             \/ \E D \in SUBSET Keys : Cleanup(D)
             \/ \E q \in Clicks : ClickRead(q) \/ ClickWrite(q)
             \/ ReconcileOnLoop \/ Tick
    <3>1. UNCHANGED audit
      BY <2>6 DEF Enqueue, Store, LeaveWindow, Cleanup, ClickRead, ClickWrite, ReconcileOnLoop, Tick
    <3> QED BY <2>1, <3>1
  <2> QED BY <2>1, <2>2, <2>3, <2>4, <2>5, <2>6 DEF Next
<1> QED BY <1>1, <1>2, TypeCorrect, PTL DEF Spec

\* README "strict tenant boundary": whatever the passes, reconciliations,
\* settings and manual retries do, an event is only delivered to channels of
\* its own tenant, by passes of that tenant.
THEOREM TenantsStayApart == Spec => []TenantIsolation
<1>1. Init => Boundary
  BY DEF Init, Boundary, TenantIsolation, Theirs, Dirty, NoRow, Row
<1>2. TypeOK /\ Boundary /\ RequestedRows /\ [Next]_vars => Boundary'
  <2> SUFFICES ASSUME TypeOK, Boundary, RequestedRows, [Next]_vars PROVE Boundary'
    OBVIOUS
  <2>0. ASSUME UNCHANGED <<pc, batch, cur, todo, at>>, \A w \in Workers : Dirty(w)' = Dirty(w),
               \A q \in Pairs : dlv'[q].st # "none" => dlv[q].st # "none" \/ Owner[q[1]] = Owner[q[2]]
        PROVE  Boundary'
    BY <2>0 DEF Boundary, TenantIsolation, Theirs
  <2>1. ASSUME UNCHANGED worker,
               \A q \in Pairs : dlv'[q].st # "none" => dlv[q].st # "none" \/ Owner[q[1]] = Owner[q[2]]
        PROVE  Boundary'
    BY <2>0, <2>1 DEF worker, Dirty
  <2>2. CASE \/ \E k \in Keys : Enqueue(k)
             \/ \E r \in Records : Store(r) \/ LeaveWindow(r)
             \/ \E r \in Records : ReconcileRead(r)
             \/ \E q \in Clicks : ClickRead(q)
             \/ UNCHANGED vars
    BY <2>1, <2>2 DEF Enqueue, Store, LeaveWindow, ReconcileRead, ClickRead, vars, database
  <2>3. ASSUME NEW D \in SUBSET Keys, Cleanup(D) PROVE Boundary'
    <3>1. \A q \in Pairs : dlv'[q].st # "none" => dlv[q].st # "none"
      BY <2>3 DEF Cleanup, NoRow, Row
    <3> QED BY <2>1, <2>3, <3>1 DEF Cleanup
  <2>4. ASSUME NEW G, NEW P, NEW Q, Reconciled(G, P, Q), \A p \in P : Owner[p[1]] = Owner[p[2]]
        PROVE  Boundary'
    <3>1. \A q \in Pairs : dlv'[q].st # "none" => dlv[q].st # "none" \/ Owner[q[1]] = Owner[q[2]]
      BY <2>4 DEF Reconciled
    <3> QED BY <2>1, <2>4, <3>1 DEF Reconciled
  <2>5a. CASE ReconcileOnLoop
    <3>1. \A p \in Repairs : Owner[p[1]] = Owner[p[2]]
      BY DEF Repairs, Missing, Targets
    <3> QED BY <2>1, <2>4, <2>5a, <3>1 DEF ReconcileOnLoop, database
  <2>5b. CASE ReconcileWrite
    <3>1. \E G, Q, P : Reconciled(G, P, Q) /\ P \subseteq audit.rows
      BY <2>5b DEF ReconcileWrite
    <3> QED BY <2>4, <3>1 DEF RequestedRows
  <2>6. CASE Settings
    <3>1. \A q \in Pairs : dlv'[q].st # "none" => dlv[q].st # "none"
      BY <2>6 DEF Settings, CreateChannel, UpdateChannel, SetChannelEnabled, DeleteChannel,
                  UpdateSubscriptions, database, NoRow, Row
    <3>2. UNCHANGED worker
      BY <2>6 DEF Settings, CreateChannel, UpdateChannel, SetChannelEnabled, DeleteChannel, UpdateSubscriptions
    <3> QED BY <2>1, <3>1, <3>2
  <2>7. ASSUME NEW q \in Clicks, ClickWrite(q) PROVE Boundary'
    <3> DEFINE p == <<req[q].key, req[q].chan>>
    <3>1. dlv' = [dlv EXCEPT ![p] = IF dlv[p].st = "none" THEN dlv[p] ELSE Row("pending", 0, 0)]
      BY <2>7 DEF ClickWrite
    <3> HIDE DEF p
    <3>2. \A x \in Pairs : dlv'[x].st # "none" => dlv[x].st # "none"
      BY <3>1 DEF TypeOK
    <3> QED BY <2>1, <2>7, <3>2 DEF ClickWrite
  <2>8. CASE Restart
    BY <2>8 DEF Restart, Boundary, TenantIsolation, Theirs, Dirty, NoRow, Row, database
  <2>9. CASE Tick
    <3>1. \A r \in Rows : Sooner(r).st = r.st
      BY DEF Sooner, Rows
    <3>2. /\ \A q \in Pairs : dlv'[q].st = dlv[q].st
          /\ \A w \in Workers : Dirty(w)' = Dirty(w)
      BY <2>9, <3>1 DEF Tick, TypeOK, Dirty
    <3> QED BY <2>0, <2>9, <3>2 DEF Tick
  <2> QED BY <2>2, <2>3, <2>5a, <2>5b, <2>6, <2>7, <2>8, <2>9, PassBoundary DEF Next
<1>3. Boundary => TenantIsolation
  BY DEF Boundary
<1> QED BY <1>1, <1>2, <1>3, TypeCorrect, RequestedRowsKept, PTL DEF Spec

-----------------------------------------------------------------------------
(* Attempts and successes of an event, with one pass per tenant.            *)

\* The events a pass holds are open, and had attempts left when it read them.
\* Nobody else gives them up or counts an attempt; a manual retry may reset
\* the count under the pass.
StillOpen ==
    \A w \in Workers : \A k \in batch[w] :
        /\ outbox[k].st # "failed"
        /\ outbox[k].attempts <= seen[w][k].attempts
        /\ seen[w][k].attempts < MaxAttempts

\* An open send is at most one attempt ahead of the budget the pass has read.
Prepaid ==
    \A w \in Workers, k \in Keys : cur[w] = k =>
        \A c \in Dirty(w) : mine[w][c].attempts <= seen[w][k].attempts + 1 + Granted(k)
Unused == \A k \in Keys : ~Exists(k) => outbox[k].attempts = 0

\* As long as nothing failed, every channel visited has been reached, or was
\* reset by a manual retry.
Reached ==
    \A w \in Workers, k \in Keys : cur[w] = k /\ ~failing[w] =>
        \A c \in subs[w] \ todo[w] : \/ chan[c] = "deleted" \/ Asked(k, c)
                                     \/ c \in Dirty(w) /\ mine[w][c].st = "succeeded"
                                     \/ c \notin Dirty(w) /\ dlv[<<k, c>>].st = "succeeded"

\* Only finitely many manual retries have been made so far.
FiniteRetries == \A k \in Keys : IsFiniteSet(Retries(k))

Accounts == StillOpen /\ Prepaid /\ Unused /\ WithinBudget /\ Reached /\ FiniteRetries

LEMMA InitAccounts == Init => Accounts
<1> SUFFICES ASSUME Init PROVE Accounts
  OBVIOUS
<1>1. NoRow.st = "none" /\ NoRow.attempts = 0
  BY DEF NoRow, Row
<1>2. ASSUME NEW k \in Keys PROVE Retries(k) = {} /\ IsFiniteSet(Retries(k)) /\ Granted(k) = 0
  <2>1. Retries(k) = {}
    BY DEF Init, Retries, IdleReq
  <2> QED BY <2>1, FS_EmptySet DEF Granted
<1>3. WithinBudget /\ Unused /\ FiniteRetries
  BY <1>1, <1>2 DEF Init, WithinBudget, Unused, Pairs, FiniteRetries
<1>4. StillOpen /\ Prepaid /\ Reached
  BY <1>1 DEF Init, StillOpen, Prepaid, Reached, Dirty
<1> QED BY <1>3, <1>4 DEF Accounts

\* A row whose event and deliveries count in step, in numbers.
LEMMA AttemptsType ==
    ASSUME TypeOK
    PROVE  /\ \A k \in Keys : outbox[k].attempts \in Nat
           /\ \A p \in Pairs : dlv[p].attempts \in Nat
           /\ \A w \in Workers, c \in Channels : mine[w][c].attempts \in Nat
           /\ \A w \in Workers, k \in Keys : seen[w][k].attempts \in Nat
  BY DEF TypeOK, Rows

\* A step that withdraws no manual retry.
KeepsRetries == \A k \in Keys : \A q \in Retries(k) : q \in Retries(k)' /\ req'[q].chan = req[q].chan

\* What the manual retries grant is a number that never shrinks.
LEMMA GrantedGrows ==
    ASSUME FiniteRetries, FiniteRetries', KeepsRetries, NEW k \in Keys
    PROVE  /\ Granted(k) \in Nat /\ Granted(k)' \in Nat /\ Granted(k) <= Granted(k)'
           /\ \A c \in Channels : Asked(k, c) => Asked(k, c)'
<1> DEFINE R == Retries(k)
           S == Retries(k)'
<1>1. R \in SUBSET S /\ IsFiniteSet(R) /\ IsFiniteSet(S)
  BY DEF FiniteRetries, KeepsRetries
<1>2. \A c \in Channels : Asked(k, c) => Asked(k, c)'
  BY DEF KeepsRetries, Asked
<1>3. Granted(k) = MaxAttempts * Cardinality(R) /\ Granted(k)' = MaxAttempts * Cardinality(S)
  BY DEF Granted
<1> HIDE DEF R, S
<1>4. Cardinality(R) \in Nat /\ Cardinality(S) \in Nat /\ Cardinality(R) <= Cardinality(S)
  BY <1>1, FS_CardinalityType, FS_Subset
<1>5. \A m, n \in Nat : m <= n => MaxAttempts * m \in Nat /\ MaxAttempts * m <= MaxAttempts * n
  OBVIOUS
<1> QED BY <1>2, <1>3, <1>4, <1>5

\* No step but the second half of a manual retry changes what has been granted.
LEMMA SameRetries ==
    ASSUME TypeOK, FiniteRetries, UNCHANGED req \/ Restart \/ \E q \in Clicks : ClickRead(q)
    PROVE  FiniteRetries' /\ KeepsRetries /\ \A k \in Keys : Retries(k)' = Retries(k)
<1>1. ASSUME NEW k \in Keys, NEW q \in Clicks
      PROVE  /\ req'[q].pc = "done" /\ req'[q].key = k <=> req[q].pc = "done" /\ req[q].key = k
             /\ req[q].pc = "done" /\ req[q].key = k => req'[q] = req[q]
  <2>1. CASE UNCHANGED req
    BY <2>1
  <2>2. CASE Restart
    BY <2>2 DEF Restart, IdleReq
  <2>3. CASE \E r \in Clicks : ClickRead(r)
    BY <2>3 DEF ClickRead, TypeOK
  <2> QED BY <2>1, <2>2, <2>3
<1>2. \A k \in Keys : Retries(k)' = Retries(k)
  BY <1>1 DEF Retries
<1>3. KeepsRetries
  BY <1>1, <1>2 DEF KeepsRetries, Retries
<1> QED BY <1>2, <1>3 DEF FiniteRetries

\* The budget is kept by a step that counts no attempt and resets whole events
\* or single deliveries only.
LEMMA BudgetStays ==
    ASSUME TypeOK, WithinBudget, FiniteRetries, FiniteRetries', KeepsRetries,
           \A k \in Keys :
               \/ /\ outbox'[k].attempts = outbox[k].attempts
                  /\ \A c \in Channels : dlv'[<<k, c>>].attempts \in {0, dlv[<<k, c>>].attempts}
               \/ /\ outbox'[k].attempts = 0
                  /\ \A c \in Channels : dlv'[<<k, c>>].attempts = 0
    PROVE  WithinBudget'
<1> SUFFICES ASSUME NEW k \in Keys
             PROVE  /\ outbox'[k].attempts <= MaxAttempts
                    /\ \A c \in Channels : dlv'[<<k, c>>].attempts <= outbox'[k].attempts + Granted(k)'
  BY DEF WithinBudget
<1>1. Granted(k) \in Nat /\ Granted(k)' \in Nat /\ Granted(k) <= Granted(k)'
  BY GrantedGrows
<1>2. outbox[k].attempts \in Nat /\ \A c \in Channels : dlv[<<k, c>>].attempts \in Nat
  BY AttemptsType DEF Pairs
<1>3. outbox[k].attempts <= MaxAttempts /\ \A c \in Channels : dlv[<<k, c>>].attempts <= outbox[k].attempts + Granted(k)
  BY DEF WithinBudget
<1> QED BY <1>1, <1>2, <1>3

\* What is prepaid stays so when more is granted.
LEMMA PrepaidGrows ==
    ASSUME TypeOK, Accounts, FiniteRetries', KeepsRetries,
           NEW w \in Workers, NEW k \in Keys, cur[w] = k, NEW c \in Dirty(w)
    PROVE  mine[w][c].attempts <= seen[w][k].attempts + 1 + Granted(k)'
<1>1. /\ Granted(k) \in Nat /\ Granted(k)' \in Nat /\ Granted(k) <= Granted(k)'
  BY GrantedGrows DEF Accounts
<1>2. mine[w][c].attempts \in Nat /\ seen[w][k].attempts \in Nat
  BY AttemptsType DEF Dirty
<1>3. mine[w][c].attempts <= seen[w][k].attempts + 1 + Granted(k)
  BY DEF Accounts, Prepaid
<1> QED BY <1>1, <1>2, <1>3

\* A step that leaves the passes alone keeps the accounts if it counts no
\* attempt of an event in a batch and withdraws no success that was not asked for.
LEMMA EnvironmentAccounts ==
    ASSUME TypeOK, Books, Accounts,
           UNCHANGED <<batch, seen, cur, subs, todo, mine, failing>>,
           \A c \in Channels : chan[c] = "deleted" => chan'[c] = "deleted",
           \A w \in Workers : \A k \in batch[w] :
               /\ outbox'[k].attempts \in {0, outbox[k].attempts}
               /\ outbox'[k].st = "failed" => outbox[k].st = "failed"
               /\ \A c \in Channels : dlv[<<k, c>>].st = "succeeded" =>
                      dlv'[<<k, c>>].st = "succeeded" \/ chan'[c] = "deleted" \/ Asked(k, c)',
           FiniteRetries', KeepsRetries, Unused', WithinBudget'
    PROVE  Accounts'
<1>1. StillOpen'
  <2> SUFFICES ASSUME NEW w \in Workers, NEW k \in batch[w]
               PROVE  /\ outbox'[k].st # "failed"
                      /\ outbox'[k].attempts <= seen[w][k].attempts
                      /\ seen[w][k].attempts < MaxAttempts
    BY DEF StillOpen
  <2>1. seen[w][k].attempts \in Nat
    BY AttemptsType DEF TypeOK
  <2> QED BY <2>1 DEF Accounts, StillOpen
<1>2. \A w \in Workers : \A k \in Keys : cur[w] = k => k \in batch[w]
  BY DEF Books, OwnEvents
<1>3. \A w \in Workers : Dirty(w)' = Dirty(w)
  BY DEF Dirty
<1>4. Prepaid'
  BY <1>3, PrepaidGrows DEF Prepaid
<1>5. Reached'
  <2> SUFFICES ASSUME NEW w \in Workers, NEW k \in Keys, cur[w] = k, ~failing[w], NEW c \in subs[w] \ todo[w]
               PROVE  \/ chan'[c] = "deleted" \/ Asked(k, c)'
                      \/ c \in Dirty(w) /\ mine[w][c].st = "succeeded"
                      \/ c \notin Dirty(w) /\ dlv'[<<k, c>>].st = "succeeded"
    BY <1>3 DEF Reached
  <2>1. c \in Channels
    BY DEF TypeOK
  <2>2. Asked(k, c) => Asked(k, c)'
    BY <2>1, GrantedGrows DEF Accounts
  <2> QED BY <1>2, <2>1, <2>2 DEF Accounts, Reached
<1> QED BY <1>1, <1>4, <1>5 DEF Accounts

\* So does a step that changes nothing they speak of.
LEMMA SameAccounts ==
    ASSUME TypeOK, Accounts, UNCHANGED <<outbox, dlv, chan, batch, seen, cur, subs, todo, mine, failing, req>>
    PROVE  Accounts'
  BY DEF Accounts, StillOpen, Prepaid, Unused, WithinBudget, Reached, FiniteRetries, Dirty, Exists,
         Retries, Asked, Granted

\* An event that appears starts with an unused budget.
LEMMA EnqueuedAccounts ==
    ASSUME TypeOK, Books, Accounts, NEW k \in Keys, outbox' = Enqueued({k}),
           UNCHANGED <<dlv, settings, worker, req>>
    PROVE  Accounts'
<1>1. \A j \in Keys : /\ outbox'[j].attempts = outbox[j].attempts
                      /\ outbox'[j].st = "failed" => outbox[j].st = "failed"
                      /\ Exists(j) => Exists(j)'
  BY DEF Enqueued, Exists, Row, Accounts, Unused
<1>2. FiniteRetries' /\ KeepsRetries
  BY SameRetries DEF Accounts
<1>3. Unused' /\ WithinBudget'
  BY <1>1, <1>2, BudgetStays DEF Accounts, Unused
<1>4. \A w \in Workers : \A j \in batch[w] : j \in Keys
  BY DEF TypeOK
<1> QED BY <1>1, <1>2, <1>3, <1>4, EnvironmentAccounts DEF settings, worker

\* Cleanup removes whole events, and none that is in a batch.
LEMMA CleanupAccounts ==
    ASSUME TypeOK, Books, Accounts, NEW D \in SUBSET Keys, Cleanup(D)
    PROVE  Accounts'
<1> USE DEF Cleanup, worker, settings
<1>1. \A k \in Keys : IF k \in D THEN /\ outbox'[k].st = "none" /\ outbox'[k].attempts = 0
                                      /\ \A c \in Channels : dlv'[<<k, c>>].attempts = 0
                      ELSE outbox'[k] = outbox[k] /\ \A c \in Channels : dlv'[<<k, c>>] = dlv[<<k, c>>]
  BY DEF NoRow, Row, Pairs
<1>2. FiniteRetries' /\ KeepsRetries
  BY SameRetries DEF Accounts
<1>3. Unused'
  BY <1>1 DEF Accounts, Unused, Exists
<1>4. WithinBudget'
  BY <1>1, <1>2, BudgetStays DEF Accounts
<1>5. \A w \in Workers : \A k \in batch[w] : k \in Keys \ D
  BY DEF TypeOK
<1> QED BY <1>1, <1>2, <1>3, <1>4, <1>5, EnvironmentAccounts

\* A delivery that reconciliation adds has no attempts, and neither has a new event.
LEMMA RepairAccounts ==
    ASSUME TypeOK, Books, Accounts, NEW G \in SUBSET Keys, NEW P \in SUBSET Pairs, NEW Q \in SUBSET Keys,
           Reconciled(G, P, Q), Repairable(G, P, Q)
    PROVE  Accounts'
<1>1. ASSUME NEW k \in Keys
      PROVE  /\ outbox'[k].attempts = outbox[k].attempts
             /\ outbox'[k].st = "failed" => outbox[k].st = "failed"
             /\ Exists(k) => Exists(k)'
  <2>1. CASE k \in G
    <3>1. outbox'[k] = Row("pending", 0, 0) /\ ~Exists(k) /\ outbox[k].attempts = 0
      BY <2>1 DEF Reconciled, Repairable, Accounts, Unused
    <3> QED BY <3>1 DEF Row, Exists
  <2>2. CASE outbox'[k] = Row("retry", outbox[k].attempts, 0)
    BY <2>2 DEF Row, Exists
  <2>3. CASE outbox'[k] = outbox[k]
    BY <2>3 DEF Exists
  <2> QED BY <2>1, <2>2, <2>3 DEF Reconciled
<1>2. \A p \in Pairs : /\ dlv'[p].attempts \in {0, dlv[p].attempts}
                       /\ dlv[p].st # "none" => dlv'[p] = dlv[p]
  BY DEF Reconciled, Repairable, Row
<1>3. Unused'
  BY <1>1 DEF Accounts, Unused
<1>4. FiniteRetries' /\ KeepsRetries
  BY SameRetries DEF Reconciled, Accounts
<1>5. WithinBudget'
  BY <1>1, <1>2, <1>4, BudgetStays DEF Accounts, Pairs
<1>6. \A w \in Workers : \A k \in batch[w] : k \in Keys /\ \A c \in Channels : <<k, c>> \in Pairs
  BY DEF TypeOK, Pairs
<1>7. UNCHANGED <<chan, batch, seen, cur, subs, todo, mine, failing>>
  BY DEF Reconciled, settings, worker
<1> QED BY <1>1, <1>2, <1>3, <1>4, <1>5, <1>6, <1>7, EnvironmentAccounts

LEMMA ReconcileAccounts ==
    ASSUME TypeOK, Books, Audited, Accounts, ReconcileOnLoop \/ ReconcileWrite
    PROVE  Accounts'
<1>1. CASE Reconciled(Gaps, Repairs, Requeued)
  <2>1. Gaps \in SUBSET Keys /\ Repairs \in SUBSET Pairs /\ Requeued \in SUBSET Keys
    BY DEF Gaps, Repairs, Requeued, TypeOK
  <2> QED BY <1>1, <2>1, LoopRepairs, RepairAccounts
<1>2. CASE ReconcileWrite
  <2>1. \A P \in SUBSET audit.rows : P \in SUBSET Pairs
    BY DEF TypeOK
  <2> QED BY <1>2, <2>1, RequestRepairs, RepairAccounts
<1>3. CASE UNCHANGED <<database, settings, facts, worker, req, audit, done>>
  BY <1>3, SameAccounts DEF database, settings, worker
<1> QED BY <1>1, <1>2, <1>3 DEF ReconcileOnLoop

\* A deleted channel takes its rows with it.
LEMMA SettingsAccounts ==
    ASSUME TypeOK, Books, Accounts, Settings
    PROVE  Accounts'
<1>1. /\ UNCHANGED <<outbox, worker, req>>
      /\ \A c \in Channels : chan[c] = "deleted" => chan'[c] = "deleted"
      /\ \A p \in Pairs : dlv'[p] = dlv[p] \/ (chan'[p[2]] = "deleted" /\ dlv'[p].attempts = 0)
  BY DEF Settings, CreateChannel, UpdateChannel, SetChannelEnabled, DeleteChannel, UpdateSubscriptions,
         TypeOK, Pairs, NoRow, Row, database
<1>2. Unused'
  BY <1>1 DEF Accounts, Unused, Exists
<1>3. FiniteRetries' /\ KeepsRetries
  BY <1>1, SameRetries DEF Accounts
<1>4. WithinBudget'
  BY <1>1, <1>3, BudgetStays DEF Accounts, Pairs
<1>5. \A w \in Workers : \A k \in batch[w] : \A c \in Channels :
          dlv'[<<k, c>>] = dlv[<<k, c>>] \/ chan'[c] = "deleted"
  BY <1>1 DEF TypeOK, Pairs
<1> QED BY <1>1, <1>2, <1>3, <1>4, <1>5, EnvironmentAccounts DEF worker

\* A restart drops what the passes hold; time counts no attempts.
LEMMA RestartAccounts == ASSUME TypeOK, Accounts, Restart PROVE Accounts'
<1>1. FiniteRetries' /\ KeepsRetries
  BY SameRetries DEF Accounts
<1>2. UNCHANGED <<outbox, dlv>>
  BY DEF Restart, database
<1>3. Unused' /\ WithinBudget'
  BY <1>1, <1>2, BudgetStays DEF Accounts, Unused, Exists
<1>4. StillOpen' /\ Prepaid' /\ Reached'
  BY DEF Restart, StillOpen, Prepaid, Reached, Dirty, NoRow, Row
<1> QED BY <1>1, <1>3, <1>4 DEF Accounts

LEMMA TickAccounts == ASSUME TypeOK, Books, Accounts, Tick PROVE Accounts'
<1>1. \A r \in Rows : Sooner(r).st = r.st /\ Sooner(r).attempts = r.attempts
  BY DEF Sooner, Rows
<1>2. /\ \A k \in Keys : outbox'[k].st = outbox[k].st /\ outbox'[k].attempts = outbox[k].attempts
      /\ \A p \in Pairs : dlv'[p].st = dlv[p].st /\ dlv'[p].attempts = dlv[p].attempts
      /\ \A w \in Workers, c \in Channels : /\ mine'[w][c].st = mine[w][c].st
                                            /\ mine'[w][c].attempts = mine[w][c].attempts
  BY <1>1 DEF Tick, TypeOK
<1>3. \A w \in Workers : Dirty(w)' = Dirty(w) /\ Dirty(w) \subseteq Channels
  BY <1>2 DEF Dirty
<1>4. UNCHANGED <<batch, seen, cur, subs, todo, failing, chan, req>>
  BY DEF Tick, settings
<1>5. StillOpen'
  <2> SUFFICES ASSUME NEW w \in Workers, NEW k \in batch[w]
               PROVE  /\ outbox'[k].st # "failed"
                      /\ outbox'[k].attempts <= seen[w][k].attempts
                      /\ seen[w][k].attempts < MaxAttempts
    BY <1>4 DEF StillOpen
  <2>1. k \in Keys
    BY DEF TypeOK
  <2>2. /\ outbox[k].st # "failed"
        /\ outbox[k].attempts <= seen[w][k].attempts
        /\ seen[w][k].attempts < MaxAttempts
    BY DEF Accounts, StillOpen
  <2> QED BY <1>2, <2>1, <2>2
<1>6. FiniteRetries' /\ KeepsRetries
  BY <1>4, SameRetries DEF Accounts
<1>7. Unused' /\ WithinBudget'
  <2>1. \A k \in Keys, c \in Channels : <<k, c>> \in Pairs
    BY DEF Pairs
  <2>2. WithinBudget'
    BY <1>2, <1>6, <2>1, BudgetStays DEF Accounts
  <2> QED BY <1>2, <2>2 DEF Accounts, Unused, Exists
<1>8. Prepaid'
  <2> SUFFICES ASSUME NEW w \in Workers, NEW k \in Keys, cur[w] = k, NEW c \in Dirty(w)
               PROVE  mine'[w][c].attempts <= seen[w][k].attempts + 1 + Granted(k)'
    BY <1>3, <1>4 DEF Prepaid
  <2> QED BY <1>2, <1>3, <1>6, PrepaidGrows
<1>9. Reached'
  <2> SUFFICES ASSUME NEW w \in Workers, NEW k \in Keys, cur[w] = k, ~failing[w], NEW c \in subs[w] \ todo[w]
               PROVE  \/ chan[c] = "deleted" \/ Asked(k, c)'
                      \/ c \in Dirty(w) /\ mine'[w][c].st = "succeeded"
                      \/ c \notin Dirty(w) /\ dlv'[<<k, c>>].st = "succeeded"
    BY <1>3, <1>4 DEF Reached
  <2>1. c \in Channels /\ <<k, c>> \in Pairs
    BY DEF TypeOK, Pairs
  <2>2. Asked(k, c) => Asked(k, c)'
    BY <1>6, <2>1, GrantedGrows DEF Accounts
  <2> QED BY <1>2, <2>1, <2>2 DEF Accounts, Reached
<1> QED BY <1>5, <1>6, <1>7, <1>8, <1>9 DEF Accounts

\* When w moves on, what counts is what it leaves in the tables.
LEMMA MoveOnAccounts ==
    ASSUME TypeOK, Books, Accounts, NEW w \in Workers, NEW b \in SUBSET Keys,
           Continue(w, b), b \subseteq batch[w], UNCHANGED <<chan, req>>,
           \A v \in Workers : \A k \in batch'[v] :
               /\ outbox'[k].attempts = outbox[k].attempts
               /\ outbox'[k].st = "failed" => outbox[k].st = "failed",
           \A v \in Workers \ {w} : cur[v] # None =>
               \A c \in Channels : dlv'[<<cur[v], c>>] = dlv[<<cur[v], c>>],
           Unused', WithinBudget'
    PROVE  Accounts'
<1>1. /\ batch'[w] = b /\ cur'[w] = None /\ Dirty(w)' = {}
      /\ \A v \in Workers \ {w} : /\ batch'[v] = batch[v] /\ cur'[v] = cur[v]
                                  /\ todo'[v] = todo[v] /\ Dirty(v)' = Dirty(v)
  BY ContinueEffect
<1>2. /\ \A k \in b : seen'[w][k] = seen[w][k]
      /\ \A v \in Workers \ {w} : /\ seen'[v] = seen[v] /\ subs'[v] = subs[v]
                                  /\ mine'[v] = mine[v] /\ failing'[v] = failing[v]
  BY DEF Continue, TypeOK
<1>3. StillOpen'
  <2> SUFFICES ASSUME NEW v \in Workers, NEW k \in batch'[v]
               PROVE  /\ outbox'[k].st # "failed"
                      /\ outbox'[k].attempts <= seen'[v][k].attempts
                      /\ seen'[v][k].attempts < MaxAttempts
    BY DEF StillOpen
  <2>1. k \in batch[v] /\ seen'[v][k] = seen[v][k]
    BY <1>1, <1>2
  <2> QED BY <2>1 DEF Accounts, StillOpen
<1>4. FiniteRetries' /\ KeepsRetries
  BY SameRetries DEF Accounts
<1>5. Prepaid'
  <2> SUFFICES ASSUME NEW v \in Workers, NEW k \in Keys, cur'[v] = k, NEW c \in Dirty(v)'
               PROVE  mine'[v][c].attempts <= seen'[v][k].attempts + 1 + Granted(k)'
    BY DEF Prepaid
  <2>1. v # w
    BY <1>1
  <2>2. cur[v] = k /\ c \in Dirty(v) /\ seen'[v] = seen[v] /\ mine'[v] = mine[v]
    BY <1>1, <1>2, <2>1
  <2> QED BY <1>4, <2>2, PrepaidGrows
<1>6. Reached'
  <2> SUFFICES ASSUME NEW v \in Workers, NEW k \in Keys, cur'[v] = k, ~failing'[v], NEW c \in subs'[v] \ todo'[v]
               PROVE  \/ chan[c] = "deleted" \/ Asked(k, c)'
                      \/ c \in Dirty(v)' /\ mine'[v][c].st = "succeeded"
                      \/ c \notin Dirty(v)' /\ dlv'[<<k, c>>].st = "succeeded"
    BY DEF Reached
  <2>1. v # w
    BY <1>1
  <2>2. c \in Channels /\ cur[v] = k /\ k # None
    BY <1>1, <1>2, <2>1 DEF TypeOK
  <2>3. Asked(k, c) => Asked(k, c)'
    BY <1>4, <2>2, GrantedGrows DEF Accounts
  <2> QED BY <1>1, <1>2, <2>1, <2>2, <2>3 DEF Accounts, Reached
<1> QED BY <1>3, <1>4, <1>5, <1>6 DEF Accounts

\* Selecting a batch: events that are due, as they are.
LEMMA ScanAccounts ==
    ASSUME TypeOK, Books, Accounts, NEW w \in Workers, Scan(w)
    PROVE  Accounts'
<1>1. UNCHANGED <<outbox, dlv, chan, cur, subs, todo, mine, failing, req>>
  BY DEF Scan, database, settings
<1>2. Dirty(w) = {} /\ \A v \in Workers : Dirty(v)' = Dirty(v)
  BY <1>1 DEF Scan, Books, OwnEvents, OpenRows, Dirty
<1>3. StillOpen'
  <2>1. \A k \in Batch(Owner[w]) : /\ k \in Keys /\ outbox[k].st # "failed"
                                   /\ outbox[k].attempts < MaxAttempts
    BY DEF Batch, Selectable, Due
  <2>2. /\ batch' = [batch EXCEPT ![w] = Batch(Owner[w])]
        /\ seen' = [seen EXCEPT ![w] = [k \in Keys |-> IF k \in Batch(Owner[w]) THEN outbox[k] ELSE NoRow]]
    BY DEF Scan
  <2> HIDE DEF Batch
  <2>3. \A k \in Keys : outbox[k].attempts \in Nat
    BY AttemptsType
  <2> QED BY <1>1, <2>1, <2>2, <2>3 DEF Accounts, StillOpen, TypeOK
<1>4. Prepaid'
  <2>1. \A v \in Workers \ {w} : seen'[v] = seen[v]
    BY DEF Scan, TypeOK
  <2>2. \A k \in Keys : Granted(k)' = Granted(k)
    BY <1>1 DEF Granted, Retries
  <2> QED BY <1>1, <1>2, <2>1, <2>2 DEF Accounts, Prepaid
<1>5. Unused' /\ WithinBudget' /\ Reached' /\ FiniteRetries'
  BY <1>1, <1>2 DEF Accounts, Unused, WithinBudget, Reached, FiniteRetries, Exists, Granted, Asked, Retries
<1> QED BY <1>3, <1>4, <1>5 DEF Accounts

\* Putting an event back changes its status only; taking it starts with every
\* channel still to visit.
LEMMA OpenAccounts ==
    ASSUME TypeOK, Books, Accounts, NEW w \in Workers, Open(w)
    PROVE  Accounts'
<1>1. PICK k \in batch[w] : PutBack(w, k) \/ Take(w, k)
  BY DEF Open
<1>2. UNCHANGED <<dlv, chan, req>> /\ k \in Keys /\ Exists(k)
  BY DEF Open, settings, TypeOK, Books, OwnEvents
<1>3. CASE PutBack(w, k)
  <2>1. \A j \in Keys : /\ outbox'[j].attempts = outbox[j].attempts
                        /\ outbox'[j].st = "failed" => outbox[j].st = "failed"
                        /\ outbox'[j].st = "none" => outbox[j].st = "none"
    BY <1>2, <1>3 DEF PutBack, Row, TypeOK
  <2>2. Unused' /\ WithinBudget'
    BY <1>2, <2>1, SameRetries, BudgetStays DEF Accounts, Unused, Exists
  <2>3. Continue(w, batch[w] \ {k}) /\ batch[w] \ {k} \in SUBSET Keys
    BY <1>3 DEF PutBack, TypeOK
  <2>4. \A v \in Workers : \A j \in batch'[v] : j \in Keys
    BY <2>3, ContinueType
  <2> QED BY <1>2, <2>1, <2>2, <2>3, <2>4, MoveOnAccounts
<1>4. CASE Take(w, k)
  <2>1. /\ cur' = [cur EXCEPT ![w] = k]
        /\ subs' = [subs EXCEPT ![w] = Targets(k)] /\ todo' = [todo EXCEPT ![w] = Targets(k)]
        /\ UNCHANGED <<outbox, batch, seen, mine, failing>>
    BY <1>4 DEF Take
  <2>2. Dirty(w) = {} /\ \A v \in Workers : Dirty(v)' = Dirty(v)
    BY <2>1 DEF Open, Books, OwnEvents, OpenRows, Dirty
  <2>3. StillOpen' /\ Unused' /\ WithinBudget' /\ FiniteRetries'
    BY <1>2, <2>1 DEF Accounts, StillOpen, Unused, WithinBudget, FiniteRetries, Exists, Granted, Retries
  <2>4. Prepaid'
    <3>1. \A j \in Keys : Granted(j)' = Granted(j)
      BY <1>2 DEF Granted, Retries
    <3> QED BY <2>1, <2>2, <3>1 DEF Accounts, Prepaid, TypeOK
  <2> HIDE DEF Targets
  <2>5. Reached'
    BY <1>2, <2>1, <2>2 DEF Accounts, Reached, TypeOK, Asked, Retries
  <2> QED BY <2>3, <2>4, <2>5 DEF Accounts
<1> QED BY <1>1, <1>3, <1>4

\* A channel skipped without a failure has its success; one being sent to is
\* still to visit.
LEMMA ExamineAccounts ==
    ASSUME TypeOK, Books, Accounts, NEW w \in Workers, Examine(w)
    PROVE  Accounts'
<1> DEFINE row(c) == dlv[<<cur[w], c>>]
<1>1. PICK c \in todo[w] : Skip(w, c, row(c)) \/ StartSend(w, c, row(c))
  BY DEF Examine
<1>2. c \in Channels /\ cur[w] \in Keys /\ c \notin Dirty(w)
  BY DEF Examine, TypeOK, Focused, Books, OpenRows
<1>3. UNCHANGED <<outbox, dlv, chan, batch, seen, cur, subs, req>>
  BY DEF Examine, settings, database
<1>4. /\ StillOpen' /\ Unused' /\ WithinBudget' /\ FiniteRetries'
      /\ \A k \in Keys : Granted(k)' = Granted(k) /\ \A d \in Channels : Asked(k, d)' <=> Asked(k, d)
  BY <1>3 DEF Accounts, StillOpen, Unused, WithinBudget, FiniteRetries, Exists, Granted, Asked, Retries
<1>5. CASE Skip(w, c, row(c))
  <2>1. /\ mine' = mine /\ todo' = [todo EXCEPT ![w] = @ \ {c}]
        /\ \A v \in Workers \ {w} : failing'[v] = failing[v]
        /\ ~failing'[w] => ~failing[w] /\ row(c).st = "succeeded"
    <3>1. mine' = mine /\ todo' = [todo EXCEPT ![w] = @ \ {c}]
      BY <1>5 DEF Skip
    <3>2. failing' = [failing EXCEPT ![w] = failing[w] \/ row(c).st # "succeeded"]
      BY <1>5, Zenon DEF Skip
    <3>3. failing \in [Workers -> BOOLEAN]
      BY DEF TypeOK
    <3>4. /\ \A v \in Workers \ {w} : failing'[v] = failing[v]
          /\ ~failing'[w] => ~failing[w] /\ row(c).st = "succeeded"
      BY <3>2, <3>3
    <3> QED BY <3>1, <3>4
  <2>2. \A v \in Workers : Dirty(v)' = Dirty(v)
    BY <2>1 DEF Dirty
  <2>3. Prepaid'
    BY <1>3, <1>4, <2>1, <2>2 DEF Accounts, Prepaid
  <2>4. Reached'
    <3> SUFFICES ASSUME NEW v \in Workers, NEW k \in Keys, cur[v] = k, ~failing'[v], NEW d \in subs[v] \ todo'[v]
                 PROVE  \/ chan[d] = "deleted" \/ Asked(k, d)'
                        \/ d \in Dirty(v) /\ mine[v][d].st = "succeeded"
                        \/ d \notin Dirty(v) /\ dlv[<<k, d>>].st = "succeeded"
      BY <1>3, <2>1, <2>2 DEF Reached
    <3>1. CASE v = w /\ d = c
      BY <1>2, <2>1, <3>1
    <3>2. CASE ~(v = w /\ d = c)
      <4>1. d \in subs[v] \ todo[v] /\ ~failing[v] /\ d \in Channels
        BY <2>1, <3>2 DEF TypeOK
      <4> QED BY <1>4, <4>1 DEF Accounts, Reached
    <3> QED BY <3>1, <3>2
  <2> QED BY <1>4, <2>3, <2>4 DEF Accounts
<1>6. CASE StartSend(w, c, row(c))
  <2> DEFINE m == Row("pending", row(c).attempts + 1, 0)
  <2>1. mine' = [mine EXCEPT ![w][c] = m] /\ UNCHANGED <<todo, failing>>
    BY <1>6 DEF StartSend
  <2>2. m.st = "pending" /\ m.attempts = row(c).attempts + 1
    BY DEF Row
  <2> HIDE DEF m
  <2>3. Dirty(w)' = Dirty(w) \cup {c} /\ \A v \in Workers \ {w} : Dirty(v)' = Dirty(v)
    BY <1>2, <2>1, <2>2 DEF Dirty, TypeOK
  <2>4. \A v \in Workers, d \in Channels : ~(v = w /\ d = c) => mine'[v][d] = mine[v][d]
    BY <2>1 DEF TypeOK
  <2>5. Prepaid'
    <3> SUFFICES ASSUME NEW v \in Workers, NEW k \in Keys, cur[v] = k, NEW d \in Dirty(v)'
                 PROVE  mine'[v][d].attempts <= seen[v][k].attempts + 1 + Granted(k)
      BY <1>3, <1>4 DEF Prepaid
    <3>1. CASE v = w /\ d = c
      <4>1. <<k, c>> \in Pairs /\ k \in batch[w]
        BY <1>2, <3>1 DEF Pairs, Books, OwnEvents
      <4>2. row(c).attempts \in Nat /\ outbox[k].attempts \in Nat /\ seen[w][k].attempts \in Nat
        BY <3>1, <4>1, AttemptsType
      <4>3. Granted(k) \in Nat
        BY <1>3, SameRetries, GrantedGrows DEF Accounts
      <4>4. row(c).attempts <= outbox[k].attempts + Granted(k) /\ outbox[k].attempts <= seen[w][k].attempts
        BY <1>2, <3>1, <4>1 DEF Accounts, WithinBudget, StillOpen
      <4>5. mine'[v][d].attempts = row(c).attempts + 1
        BY <1>2, <2>1, <2>2, <3>1 DEF TypeOK
      <4> QED BY <3>1, <4>2, <4>3, <4>4, <4>5
    <3>2. CASE ~(v = w /\ d = c)
      <4>1. d \in Dirty(v) /\ d \in Channels
        BY <2>3, <3>2 DEF Dirty
      <4> QED BY <2>4, <3>2, <4>1 DEF Accounts, Prepaid
    <3> QED BY <3>1, <3>2
  <2>6. Reached'
    <3> SUFFICES ASSUME NEW v \in Workers, NEW k \in Keys, cur[v] = k, ~failing[v], NEW d \in subs[v] \ todo[v]
                 PROVE  \/ chan[d] = "deleted" \/ Asked(k, d)'
                        \/ d \in Dirty(v)' /\ mine'[v][d].st = "succeeded"
                        \/ d \notin Dirty(v)' /\ dlv[<<k, d>>].st = "succeeded"
      BY <1>3, <2>1 DEF Reached
    <3>1. ~(v = w /\ d = c) /\ d \in Channels
      BY DEF TypeOK
    <3> QED BY <1>4, <2>3, <2>4, <3>1 DEF Accounts, Reached
  <2> QED BY <1>4, <2>5, <2>6 DEF Accounts
<1> QED BY <1>1, <1>5, <1>6

\* An answer makes the channel reached, or the event failing.
LEMMA RespondAccounts ==
    ASSUME TypeOK, Books, Accounts, NEW w \in Workers, NEW ok \in BOOLEAN, Respond(w, ok)
    PROVE  Accounts'
<1>1. UNCHANGED <<outbox, dlv, chan, batch, seen, cur, subs, req>>
  BY DEF Respond, settings, database
<1>2. at[w] \in Channels /\ at[w] \in todo[w] /\ at[w] \in Dirty(w)
  <2>1. pc[w] = "send"
    BY DEF Respond
  <2>2. at[w] \in Channels
    BY <2>1 DEF TypeOK, Focused
  <2>3. at[w] \in todo[w] /\ todo[w] \cap Dirty(w) = {at[w]}
    BY <2>1 DEF Books, OpenRows
  <2> QED BY <2>2, <2>3
<1> DEFINE n == mine[w][at[w]].attempts
           row == IF ok THEN Row("succeeded", n, 0) ELSE Row("failed", n, Backoff(n))
<1>3. /\ mine' = [mine EXCEPT ![w][at[w]] = row]
      /\ row.st = (IF ok THEN "succeeded" ELSE "failed") /\ row.attempts = n
      /\ todo' = [todo EXCEPT ![w] = @ \ {at[w]}]
  BY DEF Respond, Row
<1> HIDE DEF row
<1>4. \A v \in Workers : Dirty(v)' = Dirty(v)
  BY <1>2, <1>3 DEF Dirty, TypeOK
<1>5. /\ mine'[w][at[w]] = row
      /\ \A v \in Workers, d \in Channels : ~(v = w /\ d = at[w]) => mine'[v][d] = mine[v][d]
      /\ \A v \in Workers, d \in Channels : mine'[v][d].attempts = mine[v][d].attempts
  BY <1>2, <1>3 DEF TypeOK
<1>6. /\ StillOpen' /\ Unused' /\ WithinBudget' /\ FiniteRetries'
      /\ \A k \in Keys : Granted(k)' = Granted(k) /\ \A d \in Channels : Asked(k, d)' <=> Asked(k, d)
  BY <1>1 DEF Accounts, StillOpen, Unused, WithinBudget, FiniteRetries, Exists, Granted, Asked, Retries
<1>7. Prepaid'
  <2>1. \A v \in Workers : Dirty(v) \subseteq Channels
    BY DEF Dirty
  <2> QED BY <1>1, <1>4, <1>5, <1>6, <2>1 DEF Accounts, Prepaid
<1>8. \A v \in Workers : ~failing'[v] => ~failing[v] /\ (v = w => ok)
  <2>1. failing' = [failing EXCEPT ![w] = failing[w] \/ ~ok]
    BY Zenon DEF Respond
  <2>2. failing \in [Workers -> BOOLEAN]
    BY DEF TypeOK
  <2>3. /\ \A v \in Workers \ {w} : failing'[v] = failing[v]
        /\ ~failing'[w] => ~failing[w] /\ ok
    BY <2>1, <2>2
  <2> QED BY <2>3
<1>9. Reached'
  <2> SUFFICES ASSUME NEW v \in Workers, NEW k \in Keys, cur[v] = k, ~failing'[v], NEW d \in subs[v] \ todo'[v]
               PROVE  \/ chan[d] = "deleted" \/ Asked(k, d)'
                      \/ d \in Dirty(v) /\ mine'[v][d].st = "succeeded"
                      \/ d \notin Dirty(v) /\ dlv[<<k, d>>].st = "succeeded"
    BY <1>1, <1>4 DEF Reached
  <2>1. CASE v = w /\ d = at[w]
    BY <1>2, <1>3, <1>5, <1>8, <2>1
  <2>2. CASE ~(v = w /\ d = at[w])
    <3>1. d \in Channels /\ d \in subs[v] \ todo[v]
      BY <1>3, <2>2 DEF TypeOK
    <3> QED BY <1>5, <1>6, <1>8, <2>2, <3>1 DEF Accounts, Reached
  <2> QED BY <2>1, <2>2
<1> QED BY <1>6, <1>7, <1>9 DEF Accounts

\* What the commit writes to the event: one attempt more, and an end only in
\* the status ClosedStatus.
LEMMA CloseEffect ==
    ASSUME TypeOK, Books, Accounts, NEW w \in Workers, Close(w)
    PROVE  /\ cur[w] \in Keys /\ cur[w] # None /\ cur[w] \in batch[w]
           /\ outbox'[cur[w]].attempts = seen[w][cur[w]].attempts + 1
           /\ outbox'[cur[w]].attempts <= MaxAttempts
           /\ outbox'[cur[w]].st # "none"
           /\ outbox'[cur[w]].st \in {outbox[cur[w]].st, ClosedStatus(w)}
           /\ \A k \in Keys \ {cur[w]} : outbox'[k] = outbox[k]
<1> DEFINE k == cur[w]
           n == seen[w][k].attempts + 1
           st == IF ClosedStatus(w) = seen[w][k].st THEN outbox[k].st ELSE ClosedStatus(w)
           t == IF ClosedStatus(w) = "retry" THEN Backoff(n) ELSE outbox[k].wait
<1>1. k \in Keys /\ k # None /\ k \in batch[w] /\ Exists(k)
  BY DEF Close, TypeOK, Focused, Books, OwnEvents
<1>2. outbox' = [outbox EXCEPT ![k] = Row(st, n, t)]
  BY DEF Close
<1>3. st # "none" /\ st \in {outbox[k].st, ClosedStatus(w)}
  BY <1>1 DEF ClosedStatus, Exists
<1>4. n = seen[w][k].attempts + 1 /\ n <= MaxAttempts
  BY <1>1, AttemptsType DEF Accounts, StillOpen
<1> HIDE DEF k, n, st, t
<1>5. outbox'[k].st = st /\ outbox'[k].attempts = n /\ \A j \in Keys \ {k} : outbox'[j] = outbox[j]
  BY <1>1, <1>2 DEF Row, TypeOK
<1> QED BY <1>1, <1>3, <1>4, <1>5 DEF k

LEMMA CloseAccounts ==
    ASSUME OnePassPerTenant, TypeOK, Books, Accounts, NEW w \in Workers, Close(w)
    PROVE  Accounts'
<1> DEFINE k == cur[w]
<1>1. /\ k \in Keys /\ k # None /\ k \in batch[w]
      /\ outbox'[k].attempts = seen[w][k].attempts + 1 /\ outbox'[k].attempts <= MaxAttempts
      /\ outbox'[k].st # "none"
      /\ \A j \in Keys \ {k} : outbox'[j] = outbox[j]
  BY CloseEffect
<1>2. \A q \in Pairs : dlv'[q] = IF q[1] = k /\ q[2] \in Dirty(w) THEN Merged(w, q[2]) ELSE dlv[q]
  BY DEF Close
<1>3. Continue(w, batch[w] \ {k}) /\ batch[w] \ {k} \in SUBSET Keys /\ UNCHANGED <<chan, req>>
  BY DEF Close, TypeOK, settings
<1> HIDE DEF k
<1>4. Unused'
  BY <1>1 DEF Accounts, Unused, Exists
<1>5. WithinBudget'
  <2>1. \A j \in Keys : outbox'[j].attempts <= MaxAttempts
    BY <1>1 DEF Accounts, WithinBudget
  <2>2. ASSUME NEW j \in Keys, NEW c \in Channels
        PROVE  dlv'[<<j, c>>].attempts <= outbox'[j].attempts + Granted(j)
    <3>1. /\ <<j, c>> \in Pairs /\ outbox[j].attempts \in Nat /\ dlv[<<j, c>>].attempts \in Nat
          /\ seen[w][j].attempts \in Nat
      BY AttemptsType DEF Pairs
    <3>2. dlv[<<j, c>>].attempts <= outbox[j].attempts + Granted(j)
      BY DEF Accounts, WithinBudget
    <3>3. Granted(j) \in Nat
      BY <1>3, SameRetries, GrantedGrows DEF Accounts
    <3>4. CASE j = k /\ c \in Dirty(w)
      <4>1. Merged(w, c).attempts \in {0, mine[w][c].attempts}
        BY DEF Merged, NoRow, Row
      <4>2. mine[w][c].attempts <= seen[w][k].attempts + 1 + Granted(k)
        BY <1>1, <3>4 DEF Accounts, Prepaid, k
      <4> QED BY <1>1, <1>2, <3>1, <3>3, <3>4, <4>1, <4>2
    <3>5. CASE ~(j = k /\ c \in Dirty(w))
      <4>1. dlv'[<<j, c>>] = dlv[<<j, c>>]
        BY <1>2, <3>1, <3>5
      <4>2. outbox[j].attempts <= outbox'[j].attempts /\ outbox'[j].attempts \in Nat
        <5>1. CASE j = k
          BY <1>1, <3>1, <5>1 DEF Accounts, StillOpen
        <5>2. CASE j # k
          BY <1>1, <3>1, <5>2
        <5> QED BY <5>1, <5>2
      <4> QED BY <3>1, <3>2, <3>3, <4>1, <4>2
    <3> QED BY <3>4, <3>5
  <2>3. \A j \in Keys : Granted(j)' = Granted(j)
    BY <1>3 DEF Granted, Retries
  <2> QED BY <2>1, <2>2, <2>3 DEF WithinBudget
<1>6. \A v \in Workers : \A j \in batch'[v] : j \in Keys \ {k}
  <2>1. batch'[w] = batch[w] \ {k} /\ \A v \in Workers \ {w} : batch'[v] = batch[v]
    BY <1>3, ContinueEffect
  <2>2. \A v \in Workers \ {w} : k \notin batch[v]
    BY <1>1 DEF OnePassPerTenant, Books, OwnEvents
  <2>3. \A v \in Workers : batch[v] \subseteq Keys
    BY DEF TypeOK
  <2> QED BY <2>1, <2>2, <2>3
<1>7. \A v \in Workers \ {w} : cur[v] # None =>
          \A c \in Channels : dlv'[<<cur[v], c>>] = dlv[<<cur[v], c>>]
  <2> SUFFICES ASSUME NEW v \in Workers \ {w}, cur[v] # None, NEW c \in Channels
               PROVE  dlv'[<<cur[v], c>>] = dlv[<<cur[v], c>>]
    OBVIOUS
  <2>1. cur[v] # k /\ <<cur[v], c>> \in Pairs
    BY <1>1, DistinctEvents DEF Books, TypeOK, Pairs, k
  <2> QED BY <1>2, <2>1
<1> QED BY <1>1, <1>3, <1>4, <1>5, <1>6, <1>7, MoveOnAccounts

LEMMA AbortAccounts ==
    ASSUME TypeOK, Books, Accounts, NEW w \in Workers, Abort(w)
    PROVE  Accounts'
<1> DEFINE f == FailureKey[Owner[w]]
<1>1. outbox' = Enqueued({f}) /\ UNCHANGED <<dlv, chan, req>> /\ Continue(w, {})
  BY DEF Abort, settings
<1>2. \A j \in Keys : /\ outbox'[j].attempts = outbox[j].attempts
                      /\ outbox'[j].st = "failed" => outbox[j].st = "failed"
                      /\ Exists(j) => Exists(j)'
  BY <1>1 DEF Enqueued, Exists, Row, Accounts, Unused
<1>3. Unused' /\ WithinBudget'
  BY <1>1, <1>2, SameRetries, BudgetStays DEF Accounts, Unused
<1>4. {} \in SUBSET Keys /\ {} \subseteq batch[w] /\ \A v \in Workers : \A j \in batch'[v] : j \in Keys
  BY <1>1, ContinueType
<1> QED BY <1>1, <1>2, <1>3, <1>4, MoveOnAccounts

\* A manual retry grants the channels of its event one budget more, so it may
\* reset the event at any moment, also under a pass that goes on counting from
\* what it has read.
LEMMA ClickAccounts ==
    ASSUME TypeOK, Books, Accounts, NEW q \in Clicks, ClickWrite(q)
    PROVE  Accounts'
<1> DEFINE j == req[q].key
<1>1. /\ UNCHANGED <<chan, batch, seen, cur, subs, todo, mine, failing>>
      /\ req' = [req EXCEPT ![q].pc = "done", ![q].event = NoRow] /\ req[q].pc = "read"
  BY DEF ClickWrite, settings, worker
<1>2. /\ req'[q].pc = "done" /\ req'[q].key = req[q].key /\ req'[q].chan = req[q].chan
      /\ \A r \in Clicks \ {q} : req'[r] = req[r]
  <2>1. req[q] \in [pc : {"idle", "read", "done"}, key : Keys \cup {None}, chan : Channels \cup {None}, event : Rows]
    BY DEF TypeOK
  <2> QED BY <1>1, <2>1 DEF TypeOK
<1>3. \A k \in Keys : Retries(k)' = IF k = j THEN Retries(k) \cup {q} ELSE Retries(k)
  <2> SUFFICES ASSUME NEW k \in Keys
               PROVE  Retries(k)' = IF k = j THEN Retries(k) \cup {q} ELSE Retries(k)
    OBVIOUS
  <2>1. \A r \in Clicks : r \in Retries(k)' <=> r \in Retries(k) \/ (r = q /\ k = j)
    BY <1>1, <1>2 DEF Retries
  <2>2. Retries(k) \subseteq Clicks /\ Retries(k)' \subseteq Clicks
    BY DEF Retries
  <2>3. CASE k = j
    BY <2>1, <2>2, <2>3
  <2>4. CASE k # j
    BY <2>1, <2>2, <2>4
  <2> QED BY <2>3, <2>4
<1>4. FiniteRetries'
  <2> SUFFICES ASSUME NEW k \in Keys PROVE IsFiniteSet(Retries(k)')
    BY DEF FiniteRetries
  <2>1. IsFiniteSet(Retries(k)) /\ IsFiniteSet(Retries(k) \cup {q})
    BY FS_AddElement DEF Accounts, FiniteRetries
  <2> QED BY <1>3, <2>1
<1>5. KeepsRetries
  BY <1>1, <1>2, <1>3 DEF KeepsRetries, Retries
<1>6. \A k \in Keys, c \in Channels : <<k, c>> = <<j, req[q].chan>> => Asked(k, c)'
  BY <1>2, <1>3 DEF Asked
<1>7. /\ \A k \in Keys : Exists(k)' <=> Exists(k)
      /\ \A k \in Keys : \/ outbox'[k] = outbox[k]
                         \/ /\ k = j /\ Exists(k)
                            /\ outbox'[k].st \in {outbox[k].st, "retry"}
                            /\ outbox'[k].attempts \in {outbox[k].attempts, 0}
      /\ \A p \in Pairs : \/ dlv'[p] = dlv[p]
                          \/ p = <<j, req[q].chan>> /\ dlv'[p].attempts = 0
  BY ClickEffect DEF Row
<1> HIDE DEF j
<1>8. Unused'
  BY <1>7 DEF Accounts, Unused
<1>9. WithinBudget'
  <2> SUFFICES ASSUME NEW k \in Keys
               PROVE  /\ outbox'[k].attempts <= MaxAttempts
                      /\ \A c \in Channels : dlv'[<<k, c>>].attempts <= outbox'[k].attempts + Granted(k)'
    BY DEF WithinBudget
  <2>1. outbox[k].attempts \in Nat /\ \A c \in Channels : <<k, c>> \in Pairs /\ dlv[<<k, c>>].attempts \in Nat
    BY AttemptsType DEF Pairs
  <2>2. /\ outbox[k].attempts <= MaxAttempts
        /\ \A c \in Channels : dlv[<<k, c>>].attempts <= outbox[k].attempts + Granted(k)
    BY DEF Accounts, WithinBudget
  <2>3. Granted(k) \in Nat /\ Granted(k)' \in Nat
    BY <1>4, <1>5, GrantedGrows DEF Accounts
  <2>4. CASE k # j
    <3>1. Granted(k)' = Granted(k)
      BY <1>3, <2>4 DEF Granted
    <3>2. outbox'[k] = outbox[k] /\ \A c \in Channels : dlv'[<<k, c>>] = dlv[<<k, c>>]
      BY <1>7, <2>1, <2>4
    <3> QED BY <2>2, <3>1, <3>2
  <2>5. CASE k = j
    <3>1. Granted(k)' = Granted(k) + MaxAttempts
      <4> DEFINE n == Cardinality(Retries(k))
      <4>1. n \in Nat /\ Cardinality(Retries(k) \cup {q}) = n + 1
        <5>1. IsFiniteSet(Retries(k)) /\ q \notin Retries(k)
          BY <1>1 DEF Accounts, FiniteRetries, Retries
        <5> QED BY <5>1, FS_AddElement, FS_CardinalityType
      <4>2. Granted(k) = MaxAttempts * n /\ Granted(k)' = MaxAttempts * (n + 1)
        BY <1>3, <2>5, <4>1 DEF Granted
      <4> HIDE DEF n
      <4> QED BY <4>1, <4>2
    <3>2. outbox'[k].attempts \in {outbox[k].attempts, 0}
      BY <1>7
    <3>3. \A c \in Channels : dlv'[<<k, c>>].attempts \in {dlv[<<k, c>>].attempts, 0}
      BY <1>7, <2>1
    <3> QED BY <2>1, <2>2, <2>3, <3>1, <3>2, <3>3
  <2> QED BY <2>4, <2>5
<1>10. ASSUME NEW w \in Workers, NEW k \in batch[w]
       PROVE  /\ outbox'[k].attempts \in {0, outbox[k].attempts}
              /\ outbox'[k].st = "failed" => outbox[k].st = "failed"
              /\ \A c \in Channels : dlv'[<<k, c>>] = dlv[<<k, c>>] \/ Asked(k, c)'
  <2>1. k \in Keys /\ \A c \in Channels : <<k, c>> \in Pairs
    BY DEF TypeOK, Pairs
  <2> QED BY <1>6, <1>7, <2>1
<1> QED BY <1>1, <1>4, <1>5, <1>8, <1>9, <1>10, EnvironmentAccounts

\* The accounts are kept by every step.
LEMMA StepAccounts ==
    ASSUME OnePassPerTenant, TypeOK, Bookkeeping, Accounts, [Next]_vars
    PROVE  Accounts'
<1>0. Books /\ Audited
  BY DEF Bookkeeping
<1> DEFINE Same == UNCHANGED <<outbox, dlv, chan, batch, seen, cur, subs, todo, mine, failing, req>>
<1>1. CASE Same
  BY <1>1, SameAccounts
<1>2. ASSUME NEW w \in Workers, Pass(w) PROVE Accounts'
  <2>1. Hang(w) => Same
    BY DEF Hang, worker, settings, database
  <2> QED BY <1>0, <1>1, <1>2, <2>1, ScanAccounts, OpenAccounts, ExamineAccounts, RespondAccounts,
             CloseAccounts, AbortAccounts DEF Pass
<1>3. CASE UNCHANGED vars \/ \E r \in Records : LeaveWindow(r) \/ ReconcileRead(r)
  BY <1>1, <1>3 DEF vars, LeaveWindow, ReconcileRead, worker, settings, database
<1>4. CASE (\E k \in Keys : Enqueue(k)) \/ \E r \in Records : Store(r)
  BY <1>0, <1>4, EnqueuedAccounts DEF Enqueue, Store
<1>5. CASE \E q \in Clicks : ClickRead(q)
  <2>1. UNCHANGED <<outbox, dlv, chan, batch, seen, cur, subs, todo, mine, failing>>
    BY <1>5 DEF ClickRead, settings, worker, database
  <2>2. FiniteRetries' /\ KeepsRetries
    BY <1>5, SameRetries DEF Accounts
  <2>3. Unused' /\ WithinBudget'
    BY <2>1, <2>2, BudgetStays DEF Accounts, Unused, Exists
  <2> QED BY <1>0, <2>1, <2>2, <2>3, EnvironmentAccounts
<1> QED BY <1>0, <1>2, <1>3, <1>4, <1>5, CleanupAccounts, ReconcileAccounts, SettingsAccounts, ClickAccounts,
           RestartAccounts, TickAccounts DEF Next

\* The retry budget: attempts are counted once per pass and per channel, across
\* rollbacks, reconciliation, cleanup and manual retries under a pass.
THEOREM BudgetIsKept ==
    ASSUME OnePassPerTenant
    PROVE  Spec => []WithinBudget
<1>1. TypeOK /\ Bookkeeping /\ Accounts /\ [Next]_vars => Accounts'
  BY StepAccounts
<1>2. Accounts => WithinBudget
  BY DEF Accounts
<1> QED BY <1>1, <1>2, InitAccounts, TypeCorrect, BookkeepingInvariant, PTL DEF Spec

-----------------------------------------------------------------------------
(* The budget of an event, for any number of passes and manual retries.     *)

\* No event counts more than MAX_ATTEMPTS attempts: the half of WithinBudget
\* that does not rest on one pass per tenant.
EventBudget == \A k \in Keys : outbox[k].attempts <= MaxAttempts

\* Close writes the count its pass selected plus one, whatever the row holds by
\* then: two passes over one event may lose an attempt, never count one too many.
SelectedBelow ==
    \A w \in Workers : /\ pc[w] \in {"idle", "event"} => cur[w] \notin Keys
                       /\ cur[w] \in Keys => cur[w] \in batch[w]
                       /\ \A k \in batch[w] : seen[w][k].attempts < MaxAttempts

\* The end of an event leaves the others of the batch as they were selected.
LEMMA ContinueBelow ==
    ASSUME TypeOK, SelectedBelow, NEW w \in Workers, NEW b \in SUBSET Keys, Continue(w, b), b \subseteq batch[w]
    PROVE  SelectedBelow'
<1>1. /\ batch'[w] = b /\ cur'[w] = None
      /\ \A v \in Workers \ {w} : batch'[v] = batch[v] /\ cur'[v] = cur[v] /\ pc'[v] = pc[v]
  BY ContinueEffect
<1>2. /\ \A k \in b : seen'[w][k] = seen[w][k]
      /\ \A v \in Workers \ {w} : seen'[v] = seen[v]
  BY DEF Continue, TypeOK
<1> QED BY <1>1, <1>2 DEF SelectedBelow

\* The steps of a pass: it selects due events and counts one attempt of each.
LEMMA PassBudget ==
    ASSUME TypeOK, EventBudget, SelectedBelow, NEW w \in Workers, Pass(w)
    PROVE  EventBudget' /\ SelectedBelow'
<1>1. CASE Scan(w)
  <2>1. /\ UNCHANGED <<outbox, cur>> /\ pc[w] = "idle"
        /\ pc' = [pc EXCEPT ![w] = "event"]
        /\ batch' = [batch EXCEPT ![w] = Batch(Owner[w])]
        /\ seen' = [seen EXCEPT ![w] = [k \in Keys |-> IF k \in Batch(Owner[w]) THEN outbox[k] ELSE NoRow]]
    BY <1>1 DEF Scan, database
  <2>2. \A k \in Batch(Owner[w]) : k \in Keys /\ outbox[k].attempts < MaxAttempts
    BY DEF Batch, Selectable, Due
  <2>3. EventBudget'
    BY <2>1 DEF EventBudget
  <2>4. SelectedBelow'
    BY <2>1, <2>2 DEF SelectedBelow, TypeOK
  <2> QED BY <2>3, <2>4
<1>2. CASE Open(w)
  <2>1. PICK k \in batch[w] : PutBack(w, k) \/ Take(w, k)
    BY <1>2 DEF Open
  <2>2. k \in Keys
    BY DEF TypeOK
  <2>3. CASE PutBack(w, k)
    <3>1. Continue(w, batch[w] \ {k}) /\ batch[w] \ {k} \in SUBSET Keys
      BY <2>3 DEF PutBack, TypeOK
    <3>2. \A j \in Keys : outbox'[j].attempts = outbox[j].attempts
      BY <2>3 DEF PutBack, TypeOK, Row
    <3> QED BY <3>1, <3>2, ContinueBelow DEF EventBudget
  <2>4. CASE Take(w, k)
    <3>1. /\ UNCHANGED <<outbox, batch, seen>>
          /\ cur' = [cur EXCEPT ![w] = k] /\ pc' = [pc EXCEPT ![w] = "channel"]
      BY <2>4 DEF Take
    <3> QED BY <3>1, <2>2 DEF EventBudget, SelectedBelow, TypeOK
  <2> QED BY <2>1, <2>3, <2>4
<1>3. ASSUME UNCHANGED <<outbox, batch, seen, cur>>,
             \A v \in Workers : pc'[v] = pc[v] \/ pc'[v] \in {"channel", "send"}
      PROVE  EventBudget' /\ SelectedBelow'
  BY <1>3 DEF EventBudget, SelectedBelow
<1>4. CASE Examine(w)
  BY <1>3, <1>4 DEF Examine, Skip, StartSend, database, TypeOK
<1>5. CASE Respond(w, TRUE) \/ Respond(w, FALSE)
  BY <1>3, <1>5 DEF Respond, database, TypeOK
<1>6. CASE Close(w)
  <2> DEFINE k == cur[w]
  <2>1. k \in Keys /\ k \in batch[w]
    BY <1>6 DEF Close, TypeOK, Focused, SelectedBelow
  <2>2. Continue(w, batch[w] \ {k}) /\ batch[w] \ {k} \in SUBSET Keys
    BY <1>6 DEF Close, TypeOK
  <2>3. outbox'[k].attempts = seen[w][k].attempts + 1 /\ \A j \in Keys \ {k} : outbox'[j] = outbox[j]
    BY <1>6, <2>1 DEF Close, TypeOK, Row
  <2>4. seen[w][k].attempts \in Nat /\ seen[w][k].attempts < MaxAttempts
    BY <2>1 DEF SelectedBelow, TypeOK, Rows
  <2> HIDE DEF k
  <2>5. EventBudget'
    BY <2>3, <2>4 DEF EventBudget
  <2> QED BY <2>2, <2>5, ContinueBelow
<1>7. CASE Abort(w)
  <2>1. \A j \in Keys : outbox'[j].attempts \in {0, outbox[j].attempts}
    BY <1>7 DEF Abort, Enqueued, Row
  <2>2. EventBudget'
    BY <2>1 DEF EventBudget
  <2> QED BY <1>7, <2>2, ContinueBelow DEF Abort
<1>8. CASE Hang(w)
  BY <1>8 DEF Hang, worker, database, EventBudget, SelectedBelow
<1> QED BY <1>1, <1>2, <1>4, <1>5, <1>6, <1>7, <1>8 DEF Pass

\* No event is attempted more often than the retry limit allows, even when the
\* scheduled job, a manual dispatch and manual retries overlap on it: the count
\* selected with the event is below the limit, and closing it adds one.
THEOREM EventBudgetIsKept == Spec => []EventBudget
<1>1. Init => EventBudget /\ SelectedBelow
  BY SetsAssumption DEF Init, EventBudget, SelectedBelow, NoRow, Row
<1>2. TypeOK /\ EventBudget /\ SelectedBelow /\ [Next]_vars => EventBudget' /\ SelectedBelow'
  <2> SUFFICES ASSUME TypeOK, EventBudget, SelectedBelow, [Next]_vars PROVE EventBudget' /\ SelectedBelow'
    OBVIOUS
  <2>1. ASSUME UNCHANGED <<pc, batch, seen, cur>>,
               \A k \in Keys : outbox'[k].attempts \in {0, outbox[k].attempts}
        PROVE  EventBudget' /\ SelectedBelow'
    BY <2>1 DEF EventBudget, SelectedBelow
  <2>2. CASE UNCHANGED vars \/ Settings \/ \E r \in Records : LeaveWindow(r) \/ ReconcileRead(r)
    BY <2>1, <2>2 DEF vars, Settings, CreateChannel, UpdateChannel, SetChannelEnabled, DeleteChannel,
                      UpdateSubscriptions, LeaveWindow, ReconcileRead, worker, database
  <2>3. CASE (\E k \in Keys : Enqueue(k)) \/ \E r \in Records : Store(r)
    <3>1. UNCHANGED <<pc, batch, seen, cur>> /\ \E K \in SUBSET Keys : outbox' = Enqueued(K)
      BY <2>3 DEF Enqueue, Store, worker
    <3>2. \A k \in Keys : outbox'[k].attempts \in {0, outbox[k].attempts}
      BY <3>1 DEF Enqueued, Row
    <3> QED BY <2>1, <3>1, <3>2
  <2>4. CASE \E D \in SUBSET Keys : Cleanup(D)
    BY <2>1, <2>4 DEF Cleanup, NoRow, Row, worker
  <2>5. CASE ReconcileOnLoop \/ ReconcileWrite
    <3>1. ASSUME NEW G, NEW P, NEW Q, Reconciled(G, P, Q) PROVE EventBudget' /\ SelectedBelow'
      BY <2>1, <3>1 DEF Reconciled, Row, worker
    <3>2. ReconcileWrite => \E G, P, Q : Reconciled(G, P, Q)
      BY DEF ReconcileWrite
    <3> QED BY <2>1, <2>5, <3>1, <3>2 DEF ReconcileOnLoop, worker, database
  <2>6. ASSUME NEW q \in Clicks, ClickRead(q) \/ ClickWrite(q) PROVE EventBudget' /\ SelectedBelow'
    <3>1. UNCHANGED <<pc, batch, seen, cur>>
      BY <2>6 DEF ClickRead, ClickWrite, worker
    <3>2. ClickRead(q) => outbox' = outbox
      BY DEF ClickRead, database
    <3>3. ClickWrite(q) => \A k \in Keys : outbox'[k].attempts \in {0, outbox[k].attempts}
      BY DEF ClickWrite, Row, TypeOK
    <3> QED BY <2>1, <2>6, <3>1, <3>2, <3>3
  <2>7. CASE Restart
    BY <2>7, SetsAssumption DEF Restart, database, EventBudget, SelectedBelow
  <2>8. CASE Tick
    BY <2>1, <2>8 DEF Tick, Sooner, TypeOK, Rows
  <2> QED BY PassBudget, <2>2, <2>3, <2>4, <2>5, <2>6, <2>7, <2>8 DEF Next
<1> QED BY <1>1, <1>2, TypeCorrect, PTL DEF Spec

-----------------------------------------------------------------------------
(* How an event is settled, and what follows from it.                       *)

\* What a step that is not one of a pass writes to the tables: it delivers no
\* event, and neither revives nor adds rows to one that was given up, unless it
\* is a manual retry of that event or a request that read it before; only
\* the manual retry gives attempts back.
LEMMA OthersSettleNothing ==
    ASSUME TypeOK, Bookkeeping, [Next]_vars, \A w \in Workers : ~Pass(w), NEW k \in Keys
    PROVE  /\ outbox'[k].st = "delivered" => outbox[k].st = "delivered"
           /\ outbox[k].st = "failed" /\ Retries(k)' = Retries(k) =>
                 /\ \/ Overtook(k)
                    \/ /\ outbox'[k].st \in {"failed", "none"}
                       /\ \A c \in Channels : dlv[<<k, c>>].st = "none" => dlv'[<<k, c>>].st = "none"
                 /\ outbox'[k].attempts = outbox[k].attempts \/ outbox'[k].st = "none"
<1> DEFINE A == /\ outbox'[k].st = "delivered" => outbox[k].st = "delivered"
                /\ outbox[k].st = "failed" /\ Retries(k)' = Retries(k) =>
                      /\ \/ Overtook(k)
                         \/ /\ outbox'[k].st \in {"failed", "none"}
                            /\ \A c \in Channels : dlv[<<k, c>>].st = "none" => dlv'[<<k, c>>].st = "none"
                      /\ outbox'[k].attempts = outbox[k].attempts \/ outbox'[k].st = "none"
<1>0. \A c \in Channels : <<k, c>> \in Pairs
  BY DEF Pairs
<1>1. ASSUME UNCHANGED database PROVE A
  BY <1>1 DEF database
<1>2. ASSUME NEW j \in Keys, outbox' = Enqueued({j}), UNCHANGED dlv PROVE A
  BY <1>2 DEF Enqueued, Exists, Row
<1>3. CASE (\E j \in Keys : Enqueue(j)) \/ (\E r \in Records : Store(r))
  BY <1>2, <1>3 DEF Enqueue, Store
<1>4. CASE UNCHANGED vars \/ (\E r \in Records : LeaveWindow(r)) \/ Restart
  BY <1>1, <1>4 DEF vars, LeaveWindow, Restart
<1>5. ASSUME NEW D \in SUBSET Keys, Cleanup(D) PROVE A
  BY <1>0, <1>5 DEF Cleanup, NoRow, Row
<1>6. CASE ReconcileOnLoop
  <2>1. CASE Reconciled(Gaps, Repairs, Requeued)
    <3>1. k \in Gaps => outbox[k].st = "none"
      BY DEF Gaps, Exists
    <3>2. k \in Requeued => outbox[k].st = "delivered"
      BY DEF Requeued
    <3>3. /\ outbox'[k].st = "delivered" => outbox[k].st = "delivered"
          /\ outbox[k].st = "failed" => outbox'[k] = outbox[k]
      BY <2>1, <3>1, <3>2 DEF Reconciled, Row
    <3>4. ASSUME outbox[k].st = "failed", NEW c \in Channels PROVE dlv'[<<k, c>>] = dlv[<<k, c>>]
      BY <1>0, <2>1, <3>4 DEF Reconciled, Repairs, Missing
    <3> QED BY <3>3, <3>4
  <2> QED BY <1>1, <1>6, <2>1 DEF ReconcileOnLoop
<1>7. CASE ReconcileWrite
  <2>1. PICK G \in SUBSET Keys, Q \in SUBSET Keys, P \in SUBSET audit.rows :
            Reconciled(G, P, Q) /\ Repairable(G, P, Q) /\ \A j \in Q : audit.st[j] = "delivered"
    BY <1>7, RequestRepairs DEF Bookkeeping
  <2>2. outbox'[k].st = "delivered" => outbox[k].st = "delivered"
    BY <2>1 DEF Reconciled, Row
  <2>3. audit' = NoAudit /\ \A p \in audit.rows : audit.st[p[1]] \notin {"unread", "failed"}
    BY <1>7 DEF ReconcileWrite, Bookkeeping, Audited
  <2>4. ASSUME outbox[k].st = "failed", audit.st[k] \in {"unread", "failed"}
        PROVE  outbox'[k] = outbox[k] /\ \A c \in Channels : dlv'[<<k, c>>] = dlv[<<k, c>>]
    <3>1. k \notin G /\ k \notin Q /\ \A c \in Channels : <<k, c>> \notin P
      BY <2>1, <2>3, <2>4 DEF Repairable, Exists
    <3> QED BY <1>0, <2>1, <3>1 DEF Reconciled
  <2>5. outbox[k].st = "failed" => outbox'[k].attempts = outbox[k].attempts
    <3>1. outbox[k].st = "failed" => k \notin G
      BY <2>1 DEF Repairable, Exists
    <3> QED BY <2>1, <3>1 DEF Reconciled, Row
  <2> QED BY <2>2, <2>3, <2>4, <2>5 DEF Overtook
<1>7a. CASE \E r \in Records : ReconcileRead(r)
  BY <1>1, <1>7a DEF ReconcileRead
<1>8. CASE Settings
  <2>1. outbox' = outbox
    BY <1>8 DEF Settings, CreateChannel, UpdateChannel, SetChannelEnabled, DeleteChannel,
                UpdateSubscriptions, database
  <2>2. \A c \in Channels : dlv[<<k, c>>].st = "none" => dlv'[<<k, c>>].st = "none"
    BY <1>0, <1>8 DEF Settings, CreateChannel, UpdateChannel, SetChannelEnabled, DeleteChannel,
                UpdateSubscriptions, database, NoRow, Row
  <2> QED BY <2>1, <2>2
<1>9. CASE Tick
  <2>1. \A r \in Rows : Sooner(r).st = r.st /\ Sooner(r).attempts = r.attempts
    BY DEF Sooner, Rows
  <2>2. outbox'[k].st = outbox[k].st /\ outbox'[k].attempts = outbox[k].attempts
    BY <1>9, <2>1 DEF Tick, TypeOK
  <2>3. \A c \in Channels : dlv'[<<k, c>>].st = dlv[<<k, c>>].st
    BY <1>0, <1>9, <2>1 DEF Tick, TypeOK
  <2> QED BY <2>2, <2>3
<1>10. ASSUME NEW q \in Clicks, ClickWrite(q) PROVE A
  <2>1. k = req[q].key => Retries(k)' # Retries(k)
    <3>1. req[q].pc = "read" /\ req' = [req EXCEPT ![q].pc = "done", ![q].event = NoRow]
      BY <1>10 DEF ClickWrite
    <3>2. req[q] \in [pc : {"idle", "read", "done"}, key : Keys \cup {None}, chan : Channels \cup {None}, event : Rows]
      BY DEF TypeOK
    <3>3. req'[q].pc = "done" /\ req'[q].key = req[q].key
      BY <3>1, <3>2 DEF TypeOK
    <3>4. q \notin Retries(k)
      BY <3>1 DEF Retries
    <3>5. k = req[q].key => q \in Retries(k)'
      BY <3>3 DEF Retries
    <3> QED BY <3>4, <3>5
  <2>2. k # req[q].key => outbox'[k] = outbox[k] /\ \A c \in Channels : dlv'[<<k, c>>] = dlv[<<k, c>>]
    BY <1>0, <1>10, ClickEffect
  <2>3. outbox'[k].st \in {outbox[k].st, "retry"}
    BY <1>10, ClickEffect
  <2> QED BY <2>1, <2>2, <2>3
<1>11. CASE \E q \in Clicks : ClickRead(q)
  BY <1>1, <1>11 DEF ClickRead
<1>12. A
  BY <1>3, <1>4, <1>5, <1>6, <1>7, <1>7a, <1>8, <1>9, <1>10, <1>11 DEF Next
<1> QED BY <1>12

\* What a pass writes: only the event it delivers is settled, and no event that
\* was given up is touched.
LEMMA PassSettlesItsEvent ==
    ASSUME TypeOK, Books, Accounts, NEW w \in Workers, Pass(w), NEW k \in Keys
    PROVE  /\ \/ outbox'[k].st = "delivered" => outbox[k].st = "delivered"
              \/ Close(w) /\ cur[w] = k /\ ClosedStatus(w) = "delivered"
           /\ outbox[k].st = "failed" =>
                 /\ outbox'[k] = outbox[k]
                 /\ \A c \in Channels : dlv[<<k, c>>].st = "none" => dlv'[<<k, c>>].st = "none"
<1>1. CASE UNCHANGED <<outbox, dlv>>
  BY <1>1
<1>2. CASE Scan(w) \/ Examine(w) \/ Hang(w) \/ \E ok \in BOOLEAN : Respond(w, ok)
  BY <1>1, <1>2 DEF Scan, Examine, Hang, Respond, database
<1>3. CASE Open(w)
  <2>1. PICK j \in batch[w] : PutBack(w, j) \/ Take(w, j)
    BY <1>3 DEF Open
  <2>2. dlv' = dlv /\ outbox[j].st # "failed"
    BY <1>3 DEF Open, Accounts, StillOpen
  <2>3. CASE PutBack(w, j)
    <3>1. \/ outbox'[k] = outbox[k]
          \/ k = j /\ outbox'[k].st = "pending"
      BY <2>3 DEF PutBack, Row, TypeOK
    <3> QED BY <2>2, <3>1
  <2>4. CASE Take(w, j)
    BY <1>1, <2>2, <2>4 DEF Take
  <2> QED BY <2>1, <2>3, <2>4
<1>4. CASE Close(w)
  <2>1. /\ cur[w] \in batch[w]
        /\ outbox'[cur[w]].st \in {outbox[cur[w]].st, ClosedStatus(w)}
        /\ \A j \in Keys \ {cur[w]} : outbox'[j] = outbox[j]
    BY <1>4, CloseEffect
  <2>2. outbox[cur[w]].st # "failed"
    BY <2>1 DEF Accounts, StillOpen
  <2>3. ASSUME k # cur[w], NEW c \in Channels PROVE dlv'[<<k, c>>] = dlv[<<k, c>>]
    BY <1>4, <2>3 DEF Close, Pairs
  <2> QED BY <1>4, <2>1, <2>2, <2>3
<1>5. CASE Abort(w)
  <2>1. UNCHANGED dlv /\ outbox'[k].st \in {outbox[k].st, "pending"}
    BY <1>5 DEF Abort, Enqueued, Row
  <2>2. outbox[k].st = "failed" => outbox'[k] = outbox[k]
    BY <1>5 DEF Abort, Enqueued, Exists
  <2> QED BY <2>1, <2>2
<1> QED BY <1>2, <1>3, <1>4, <1>5 DEF Pass

\* operations.md "an exhausted outbox is only audited": no pass holds an event
\* that was given up, and reconciliation leaves it alone unless it was overtaken
\* by the pass that gave it up; only a manual retry gives attempts back.
THEOREM FailedStaysFailed ==
    ASSUME OnePassPerTenant
    PROVE  Spec => FailedIsFinal
<1> DEFINE Final(k) == /\ \/ Overtook(k)
                          \/ /\ outbox'[k].st \in {"failed", "none"}
                             /\ \A c \in Channels : dlv[<<k, c>>].st = "none" => dlv'[<<k, c>>].st = "none"
                       /\ outbox'[k].attempts = outbox[k].attempts \/ outbox'[k].st = "none"
           A == \A k \in Keys : outbox[k].st = "failed" /\ Retries(k)' = Retries(k) =>
                    /\ \/ Overtook(k)
                       \/ /\ outbox'[k].st \in {"failed", "none"}
                          /\ \A c \in Channels : dlv[<<k, c>>].st = "none" => dlv'[<<k, c>>].st = "none"
                    /\ outbox'[k].attempts = outbox[k].attempts \/ outbox'[k].st = "none"
                    /\ \A w \in Workers : StartsSend(w) => cur[w] # k
<1>1. TypeOK /\ Bookkeeping /\ Accounts /\ [Next]_vars => A
  <2> SUFFICES ASSUME TypeOK, Bookkeeping, Accounts, [Next]_vars, NEW k \in Keys,
                      outbox[k].st = "failed", Retries(k)' = Retries(k)
               PROVE  Final(k) /\ \A w \in Workers : StartsSend(w) => cur[w] # k
    OBVIOUS
  <2>0. Books
    BY DEF Bookkeeping
  <2>1. ASSUME NEW w \in Workers, StartsSend(w) PROVE cur[w] # k
    <3>1. pc[w] = "channel"
      BY <2>1, OnlyExamineSends
    <3>2. cur[w] \in batch[w]
      BY <2>0, <3>1 DEF Books, OwnEvents
    <3> QED BY <3>2 DEF Accounts, StillOpen
  <2>2. Final(k)
    <3>1. CASE \E w \in Workers : Pass(w)
      BY <2>0, <3>1, PassSettlesItsEvent
    <3>2. CASE \A w \in Workers : ~Pass(w)
      BY <3>2, OthersSettleNothing
    <3> QED BY <3>1, <3>2
  <2> QED BY <2>1, <2>2
<1>2. TypeOK /\ Bookkeeping /\ Accounts /\ [Next]_vars => Accounts'
  BY StepAccounts
<1>3. TypeOK /\ Bookkeeping /\ Accounts /\ [Next]_vars => [A]_vars
  BY <1>1
<1>4. [][A]_vars => FailedIsFinal
  BY PTL DEF FailedIsFinal
<1> QED BY <1>2, <1>3, InitAccounts, TypeCorrect, BookkeepingInvariant, PTL DEF Spec, FailedIsFinal

\* An event is closed as delivered only if every channel it was opened for has
\* a committed success, has been deleted or was reset by a manual retry,
\* whatever happened in between.
THEOREM DeliveredIsReached ==
    ASSUME OnePassPerTenant
    PROVE  Spec => DeliveredMeansReached
<1> DEFINE A == \A k \in Keys : outbox[k].st # "delivered" /\ outbox'[k].st = "delivered"
                    => \E w \in Workers : /\ cur[w] = k
                                          /\ \A c \in subs[w] : \/ chan[c] = "deleted" \/ Asked(k, c)
                                                                 \/ dlv'[<<k, c>>].st = "succeeded"
<1>1. TypeOK /\ Bookkeeping /\ Accounts /\ [Next]_vars => A
  <2> SUFFICES ASSUME TypeOK, Bookkeeping, Accounts, [Next]_vars, NEW k \in Keys,
                      outbox[k].st # "delivered", outbox'[k].st = "delivered"
               PROVE  \E w \in Workers : /\ cur[w] = k
                                         /\ \A c \in subs[w] : \/ chan[c] = "deleted" \/ Asked(k, c)
                                                                \/ dlv'[<<k, c>>].st = "succeeded"
    OBVIOUS
  <2>0. Books
    BY DEF Bookkeeping
  <2>1. PICK w \in Workers : Close(w) /\ cur[w] = k /\ ClosedStatus(w) = "delivered"
    BY <2>0, PassSettlesItsEvent, OthersSettleNothing
  <2>2. ~failing[w] /\ todo[w] = {} /\ cur[w] # None
    <3>1. ~failing[w]
      BY <2>1 DEF ClosedStatus
    <3>2. todo[w] = {} /\ pc[w] = "channel"
      BY <2>1 DEF Close
    <3> QED BY <2>0, <3>1, <3>2 DEF Books, OwnEvents
  <2>3. ASSUME NEW c \in subs[w]
        PROVE  chan[c] = "deleted" \/ Asked(k, c) \/ dlv'[<<k, c>>].st = "succeeded"
    <3>1. c \in Channels /\ <<k, c>> \in Pairs
      BY <2>3 DEF TypeOK, Pairs
    <3>2. \/ chan[c] = "deleted" \/ Asked(k, c)
          \/ c \in Dirty(w) /\ mine[w][c].st = "succeeded"
          \/ c \notin Dirty(w) /\ dlv[<<k, c>>].st = "succeeded"
      BY <2>1, <2>2, <2>3 DEF Accounts, Reached
    <3>3. dlv'[<<k, c>>] = IF c \in Dirty(w) THEN Merged(w, c) ELSE dlv[<<k, c>>]
      BY <2>1, <3>1 DEF Close
    <3> QED BY <2>0, <3>2, <3>3, CommittedSuccess
  <2> QED BY <2>1, <2>3
<1>2. TypeOK /\ Bookkeeping /\ Accounts /\ [Next]_vars => Accounts'
  BY StepAccounts
<1>3. TypeOK /\ Bookkeeping /\ Accounts /\ [Next]_vars => [A]_vars
  BY <1>1
<1>4. [][A]_vars => DeliveredMeansReached
  BY PTL DEF DeliveredMeansReached
<1> QED BY <1>2, <1>3, InitAccounts, TypeCorrect, BookkeepingInvariant, PTL DEF Spec, DeliveredMeansReached

-----------------------------------------------------------------------------
(* What it takes to hang, for any number of passes and manual retries.      *)

\* A pass that is not waiting for an answer holds the loop, and only a pass
\* that delivers has flushed rows.
HoldsLoop ==
    \A w \in Workers : /\ pc[w] \in {"event", "channel"} => loop \in {w, "hung"}
                       /\ flushed[w] # {} => pc[w] \in {"channel", "send"}

LEMMA StepHoldsLoop == TypeOK /\ HoldsLoop /\ [Next]_vars => HoldsLoop'
<1> SUFFICES ASSUME TypeOK, HoldsLoop, [Next]_vars PROVE HoldsLoop'
  OBVIOUS
<1>0. ASSUME UNCHANGED <<pc, flushed>>, loop' = loop \/ loop' = "hung" PROVE HoldsLoop'
  BY <1>0 DEF HoldsLoop
<1>1. ASSUME NEW w \in Workers, NEW b \in SUBSET Keys, Continue(w, b), loop = w PROVE HoldsLoop'
  <2>1. /\ flushed'[w] = {} /\ pc'[w] = (IF b = {} THEN "idle" ELSE "event")
        /\ loop' = (IF b = {} THEN "free" ELSE w)
        /\ \A v \in Workers \ {w} : pc'[v] = pc[v] /\ flushed'[v] = flushed[v]
    BY <1>1 DEF Continue, TypeOK
  <2>2. w # "hung"
    OBVIOUS
  <2>3. \A v \in Workers \ {w} : pc[v] \notin {"event", "channel"}
    BY <1>1, <2>2 DEF HoldsLoop
  <2> QED BY <2>1, <2>3 DEF HoldsLoop
<1>2. ASSUME NEW w \in Workers, Scan(w) PROVE HoldsLoop'
  <2>1. \A v \in Workers : pc[v] \notin {"event", "channel"}
    BY <1>2 DEF Scan, HoldsLoop
  <2> QED BY <1>2, <2>1 DEF Scan, HoldsLoop, TypeOK
<1>3. ASSUME NEW w \in Workers, Open(w) PROVE HoldsLoop'
  <2>1. PICK k \in batch[w] : PutBack(w, k) \/ Take(w, k)
    BY <1>3 DEF Open
  <2>2. CASE PutBack(w, k)
    <3>1. Continue(w, batch[w] \ {k}) /\ batch[w] \ {k} \in SUBSET Keys /\ loop = w
      BY <1>3, <2>2 DEF PutBack, Open, TypeOK
    <3> QED BY <1>1, <3>1
  <2>3. CASE Take(w, k)
    BY <1>3, <2>3 DEF Open, Take, HoldsLoop, TypeOK
  <2> QED BY <2>1, <2>2, <2>3
<1>4. ASSUME NEW w \in Workers, Examine(w) PROVE HoldsLoop'
  <2>1. PICK c \in todo[w] : Skip(w, c, dlv[<<cur[w], c>>]) \/ StartSend(w, c, dlv[<<cur[w], c>>])
    BY <1>4 DEF Examine
  <2>2. \/ UNCHANGED <<pc, loop>>
        \/ pc' = [pc EXCEPT ![w] = "send"] /\ loop' = "free"
    BY <2>1 DEF Skip, StartSend
  <2>3. flushed' = [flushed EXCEPT ![w] = Dirty(w)] /\ pc[w] = "channel" /\ loop = w /\ w # "hung"
    BY <1>4 DEF Examine
  <2>4. \A v \in Workers \ {w} : pc[v] \notin {"event", "channel"}
    BY <2>3 DEF HoldsLoop
  <2> QED BY <2>2, <2>3, <2>4 DEF HoldsLoop, TypeOK
<1>5. ASSUME NEW w \in Workers, NEW ok \in BOOLEAN, Respond(w, ok) PROVE HoldsLoop'
  <2>1. \A v \in Workers : pc[v] \notin {"event", "channel"}
    BY <1>5 DEF Respond, HoldsLoop
  <2> QED BY <1>5, <2>1 DEF Respond, HoldsLoop, TypeOK
<1>6. ASSUME NEW w \in Workers, Close(w) \/ Abort(w) PROVE HoldsLoop'
  <2>1. PICK b \in SUBSET Keys : Continue(w, b)
    BY <1>6 DEF Close, Abort, TypeOK
  <2> QED BY <1>1, <1>6, <2>1 DEF Close, Abort
<1>7. ASSUME NEW w \in Workers, Hang(w) PROVE HoldsLoop'
  BY <1>0, <1>7 DEF Hang, worker
<1>8. CASE Restart
  BY <1>8 DEF Restart, HoldsLoop
<1>9. CASE \/ \E k \in Keys : Enqueue(k)
           \/ \E r \in Records : Store(r) \/ LeaveWindow(r) \/ ReconcileRead(r)
           \/ \E D \in SUBSET Keys : Cleanup(D)
           \/ ReconcileOnLoop \/ ReconcileWrite
           \/ Settings
           \/ \E q \in Clicks : ClickRead(q) \/ ClickWrite(q)
           \/ Tick \/ UNCHANGED vars
  <2>1. UNCHANGED <<pc, flushed>> /\ (loop' = loop \/ loop' = "hung")
    BY <1>9 DEF Enqueue, Store, LeaveWindow, Cleanup, ReconcileOnLoop, ReconcileRead, ReconcileWrite, Reconciled,
       Settings, CreateChannel, UpdateChannel, SetChannelEnabled, DeleteChannel, UpdateSubscriptions,
       ClickRead, ClickWrite, Tick, vars, worker
  <2> QED BY <1>0, <2>1
<1> QED BY <1>2, <1>3, <1>4, <1>5, <1>6, <1>7, <1>8, <1>9 DEF Next, Pass

\* The process hangs only if a pass suspended in a send holds a row of an event
\* that another pass delivers as well or that reconciliation looks at.
THEOREM HangTakesTwo == Spec => HangNeedsOverlap
<1> DEFINE A == loop # "hung" /\ loop' = "hung" =>
                    \E v \in Workers : /\ pc[v] = "send" /\ flushed[v] # {}
                                       /\ \/ \E w \in Workers \ {v} : pc[w] = "channel" /\ cur[w] = cur[v]
                                          \/ cur[v] \in window \/ audit.st[cur[v]] # "unread"
<1>1. Init => HoldsLoop
  BY DEF Init, HoldsLoop
<1>2. TypeOK /\ HoldsLoop /\ RequestedRows /\ [Next]_vars => A
  <2> SUFFICES ASSUME TypeOK, HoldsLoop, RequestedRows, [Next]_vars, loop # "hung", loop' = "hung" PROVE A
    OBVIOUS
  <2>1. ASSUME NEW w \in Workers, Hang(w) PROVE A
    <3>1. PICK v \in Workers \ {w} : /\ flushed[v] # {}
                                     /\ cur[v] = cur[w] \/ audit.st[cur[v]] # "unread"
      <4>1. ASSUME NEW v \in Workers \ {w}, Entangled(w, v) PROVE flushed[v] # {} /\ audit.st[cur[v]] # "unread"
        BY <4>1 DEF Entangled, RequestedRows
      <4> QED BY <2>1, <4>1 DEF Hang, Waiting
    <3>2. loop = w /\ pc[w] = "channel"
      BY <2>1 DEF Hang
    <3>3. pc[v] = "send"
      BY <3>1, <3>2 DEF HoldsLoop
    <3> QED BY <3>1, <3>2, <3>3
  <2>2. CASE ReconcileOnLoop
    <3>1. loop = "free" /\ LockedRepair
      BY <2>2 DEF ReconcileOnLoop
    <3>2. PICK p \in Repairs, v \in Workers : cur[v] = p[1] /\ p[2] \in flushed[v]
      BY <3>1 DEF LockedRepair, LockedRow
    <3>3. pc[v] = "send" /\ flushed[v] # {}
      BY <3>1, <3>2 DEF HoldsLoop
    <3>4. cur[v] \in window
      BY <3>2 DEF Repairs
    <3> QED BY <3>3, <3>4
  <2>3. ASSUME NEW w \in Workers, NEW b, Continue(w, b) PROVE loop' # "hung"
    BY <2>3 DEF Continue
  <2>4. ASSUME NEW w \in Workers, Pass(w) PROVE Hang(w)
    <3>1. ~Scan(w) /\ \A ok \in BOOLEAN : ~Respond(w, ok)
      BY DEF Scan, Respond
    <3>2. ~Close(w) /\ ~Abort(w)
      BY <2>3 DEF Close, Abort
    <3>3. ~Open(w)
      BY <2>3 DEF Open, PutBack, Take
    <3>4. ~Examine(w)
      BY DEF Examine, Skip, StartSend
    <3> QED BY <2>4, <3>1, <3>2, <3>3, <3>4 DEF Pass
  <2>5. ~Restart /\ loop' # loop
    BY DEF Restart
  <2>6. (\E w \in Workers : Pass(w)) \/ ReconcileOnLoop
    BY <2>5 DEF Next, vars, Enqueue, Store, LeaveWindow, Cleanup, ReconcileRead, ReconcileWrite, Settings, CreateChannel,
       UpdateChannel, SetChannelEnabled, DeleteChannel, UpdateSubscriptions, ClickRead, ClickWrite, Tick
  <2> QED BY <2>1, <2>2, <2>4, <2>6
<1>3. TypeOK /\ HoldsLoop /\ RequestedRows /\ [Next]_vars => [A]_vars
  BY <1>2
<1>4. [][A]_vars => HangNeedsOverlap
  BY PTL DEF HangNeedsOverlap
<1> QED BY <1>1, <1>3, <1>4, StepHoldsLoop, RequestedRowsKept, TypeCorrect, PTL DEF Spec, HangNeedsOverlap
=============================================================================
