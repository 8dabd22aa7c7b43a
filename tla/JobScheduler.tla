---------------------------- MODULE JobScheduler ----------------------------
(***************************************************************************)
(* The jobs of one account in the database, the runtime jobs APScheduler   *)
(* holds for them in memory, and the runs they start                       *)
(* (app/services/scheduler.py, routers/jobs.py, routers/accounts.py).      *)
(*                                                                         *)
(* Dispatches and the QR login run on the event loop and interleave at     *)
(* awaits only; the other requests run in threads and interleave anywhere. *)
(* A request commits the row of a job first and synchronises the runtime   *)
(* job afterwards, from what it has read before (expire_on_commit=False).  *)
(* A dispatch ends by reading the row again and dropping the runtime job   *)
(* of a job that should not run.  next_run_at is not modelled: the code    *)
(* displays it and never reads it back.                                    *)
(***************************************************************************)
EXTENDS Integers, FiniteSets

CONSTANTS
    Jobs,      \* identifiers of jobs, never used twice
    Retry,     \* those of kind NOTIFICATION_RETRY, which need no account
    Default,   \* those of the kind a QR login creates if the account has none
    Careless,  \* those that may be given a trigger which cannot be built
    Manual,    \* dispatches requested by hand that may be under way at once
    Requests   \* request threads

ASSUME SchedulerAssumption ==
    /\ Retry \subseteq Jobs /\ Default \subseteq Jobs \ Retry /\ Careless \subseteq Jobs
    /\ Jobs # {} /\ Jobs \cap Manual = {}

VARIABLES
    up,       \* the process runs
    account,  \* status of the account
    row,      \* job -> whether its row exists
    enabled,  \* job -> ScheduleJob.enabled
    valid,    \* job -> its trigger_config can be built
    runtime,  \* jobs APScheduler holds
    pc,       \* dispatch -> where its coroutine is
    job,      \* dispatch -> its job
    status,   \* dispatch -> status of the JobRun it works on or left unfinished
    request   \* request thread -> what it has still to do

vars == <<up, account, row, enabled, valid, runtime, pc, job, status, request>>
rows == <<row, enabled, valid>>
dispatches == <<pc, job, status>>

\* Mistaken variants, named after their mistake, precede the definition they
\* vary; they are not part of Spec.  Each is caught by a property below.

\* A job has one scheduled dispatch at a time (max_instances=1); it bears the
\* name of the job.
Dispatches == Jobs \cup Manual
Open == {"queued", "running"}
Final == {"succeeded", "failed"}

\* The job of an idle dispatch, and an idle request.
Some == CHOOSE j \in Jobs : TRUE
Own(d) == IF d \in Jobs THEN d ELSE Some
Idle == [pc |-> "idle", job |-> Some]

Init ==
    /\ up = TRUE
    /\ account = "none"
    /\ row = [j \in Jobs |-> "unborn"]
    /\ enabled = [j \in Jobs |-> FALSE]
    /\ valid = [j \in Jobs |-> TRUE]
    /\ runtime = {}
    /\ pc = [d \in Dispatches |-> "idle"]
    /\ job = [d \in Dispatches |-> Own(d)]
    /\ status = [d \in Dispatches |-> "none"]
    /\ request = [q \in Requests |-> Idle]

Exists(j) == row[j] = "there"
OfAccount == {j \in Jobs \ Retry : Exists(j)}
Bound == account \in {"active", "expired"}
Runnable(j) == Exists(j) /\ enabled[j] /\ (j \in Retry \/ account = "active")

\* Delete rows.
Erase(S) ==
    /\ row' = [j \in Jobs |-> IF j \in S THEN "gone" ELSE row[j]]
    /\ enabled' = [j \in Jobs |-> j \notin S /\ enabled[j]]
    /\ valid' = [j \in Jobs |-> j \in S \/ valid[j]]

-----------------------------------------------------------------------------
(* Requests.                                                               *)

Serving(q) == up /\ request[q].pc = "idle"
Then(q, step, j) == request' = [request EXCEPT ![q] = [pc |-> step, job |-> j]]
Done(q) == request' = [request EXCEPT ![q] = Idle]

\* POST /jobs, the switch of the daily task and the first channel's retry job.
\* A job whose trigger turns out to be impossible is deleted again.
CreateJob(q) ==
    /\ Serving(q)
    /\ \E j \in Jobs, e \in BOOLEAN, v \in BOOLEAN :
        /\ v \/ j \in Careless
        /\ row[j] = "unborn" /\ (j \in Retry \/ Bound)
        /\ row' = [row EXCEPT ![j] = "there"]
        /\ enabled' = [enabled EXCEPT ![j] = e]
        /\ valid' = [valid EXCEPT ![j] = v]
        /\ IF e THEN Then(q, IF v THEN "sync" ELSE "delete", j) ELSE UNCHANGED request
    /\ UNCHANGED <<up, account, runtime, dispatches>>

SetEnabledUnchecked(q) ==
    /\ Serving(q)
    /\ \E j \in Jobs, e \in BOOLEAN :
        /\ enabled' = [enabled EXCEPT ![j] = e]
        /\ IF e /\ ~valid[j] THEN UNCHANGED request ELSE Then(q, IF e THEN "sync" ELSE "unsync", j)
    /\ UNCHANGED <<up, account, row, valid, runtime, dispatches>>

\* PATCH /jobs/{id}/enabled.  If the trigger cannot be built, sync_job raises
\* and the job stays enabled.
SetEnabled(q) ==
    /\ Serving(q)
    /\ \E j \in Jobs, e \in BOOLEAN :
        /\ Exists(j)
        /\ enabled' = [enabled EXCEPT ![j] = e]
        /\ IF e /\ ~valid[j] THEN UNCHANGED request ELSE Then(q, IF e THEN "sync" ELSE "unsync", j)
    /\ UNCHANGED <<up, account, row, valid, runtime, dispatches>>

\* PATCH /jobs/{id}/schedule: the trigger of a disabled job is stored as it is;
\* one that cannot be built is refused only if the job is enabled.
UpdateSchedule(q) ==
    /\ Serving(q)
    /\ \E j \in Jobs, v \in BOOLEAN :
        /\ v \/ j \in Careless
        /\ Exists(j)
        /\ IF enabled[j]
           THEN v /\ Then(q, IF valid[j] THEN "sync" ELSE "replace", j) /\ UNCHANGED valid
           ELSE valid' = [valid EXCEPT ![j] = v] /\ UNCHANGED request
    /\ UNCHANGED <<up, account, row, enabled, runtime, dispatches>>

\* sync_job of a job that was enabled when it was read, and the commit of the
\* trigger it replaces.
Sync(q) ==
    LET j == request[q].job IN
    /\ request[q].pc \in {"sync", "replace"}
    /\ runtime' = runtime \cup {j}
    /\ valid' = IF request[q].pc = "replace" THEN [valid EXCEPT ![j] = TRUE] ELSE valid
    /\ Done(q)
    /\ UNCHANGED <<up, account, row, enabled, dispatches>>

\* sync_job of a disabled job.
Unsync(q) ==
    /\ request[q].pc = "unsync"
    /\ runtime' = runtime \ {request[q].job}
    /\ Done(q)
    /\ UNCHANGED <<up, account, rows, dispatches>>

\* DELETE /jobs/{id} and DELETE /bili/accounts/{id}: the runtime jobs go first.
DeleteJob(q) ==
    /\ Serving(q)
    /\ \E j \in Jobs :
        /\ Exists(j)
        /\ runtime' = runtime \ {j}
        /\ Then(q, "delete", j)
    /\ UNCHANGED <<up, account, rows, dispatches>>

DeleteRow(q) ==
    /\ request[q].pc = "delete"
    /\ Erase({request[q].job})
    /\ Done(q)
    /\ UNCHANGED <<up, account, runtime, dispatches>>

Unbind(q) ==
    /\ Serving(q) /\ Bound
    /\ runtime' = runtime \ OfAccount
    /\ Then(q, "unbind", Some)
    /\ UNCHANGED <<up, account, rows, dispatches>>

DeleteAccount(q) ==
    /\ request[q].pc = "unbind"
    /\ account' = "gone"
    /\ Erase(OfAccount)
    /\ Done(q)
    /\ UNCHANGED <<up, runtime, dispatches>>

-----------------------------------------------------------------------------
(* The event loop.                                                         *)

\* Nobody is between the read and the write of _persist_next_run_at.
LoopFree == up /\ \A d \in Dispatches : pc[d] \notin {"drop", "dropAll"}

\* A completed QR login, which creates the default job if the account has none
\* (as far as there are identifiers left: a bound of the model).
Login ==
    LET fresh == {j \in Default : row[j] = "unborn"} IN
    /\ LoopFree /\ account # "gone"
    /\ account' = "active"
    /\ \E new \in SUBSET fresh :
        /\ Cardinality(new) = IF fresh = {} \/ \E j \in Default : Exists(j) THEN 0 ELSE 1
        /\ row' = [j \in Jobs |-> IF j \in new THEN "there" ELSE row[j]]
        /\ enabled' = [j \in Jobs |-> j \in new \/ enabled[j]]
        /\ runtime' = runtime \cup new
    /\ UNCHANGED <<up, valid, dispatches, request>>

\* POST /jobs/{id}/run: a queued run and its task.
RunNow(d) ==
    /\ LoopFree /\ pc[d] = "idle"
    /\ \E j \in Jobs : Exists(j) /\ job' = [job EXCEPT ![d] = j]
    /\ status' = [status EXCEPT ![d] = "queued"]
    /\ pc' = [pc EXCEPT ![d] = "start"]
    /\ UNCHANGED <<up, account, rows, runtime, request>>

At(d, step, s) == pc' = [pc EXCEPT ![d] = step] /\ status' = [status EXCEPT ![d] = s]

BeginForgetful(d) ==
    LET j == job[d] IN
    /\ IF ~Exists(j) \/ ~enabled[j]
       THEN At(d, "close", status[d])
       ELSE IF j \in Retry THEN At(d, "work", "queued")
       ELSE IF account = "active" THEN At(d, "work", "running")
       ELSE At(d, "close", "failed")
    /\ UNCHANGED <<up, account, rows, runtime, job, request>>

\* dispatch up to its first await: a run that may not work is finished as
\* failed; a scheduled one of a disabled job is not even created.
Begin(d) ==
    LET j == job[d] IN
    /\ IF ~Exists(j) \/ ~enabled[j]
       THEN At(d, "close", IF d \in Manual THEN "failed" ELSE status[d])
       ELSE IF j \in Retry THEN At(d, "work", "queued")
       ELSE IF account = "active" THEN At(d, "work", "running")
       ELSE At(d, "close", "failed")
    /\ UNCHANGED <<up, account, rows, runtime, job, request>>

BeginManual(d) == LoopFree /\ pc[d] = "start" /\ Begin(d)
Fire(j) == LoopFree /\ j \in runtime /\ pc[j] = "idle" /\ Begin(j)

Working(d) == LoopFree /\ pc[d] = "work"

Succeed(d) ==
    /\ Working(d)
    /\ At(d, "close", "succeeded")
    /\ UNCHANGED <<up, account, rows, runtime, job, request>>

\* The handler raises, or the rows it writes to are gone.
Error(d) ==
    /\ Working(d)
    /\ At(d, "close", "failed")
    /\ runtime' = IF Exists(job[d]) /\ ~enabled[job[d]] THEN runtime \ {job[d]} ELSE runtime
    /\ UNCHANGED <<up, account, rows, job, request>>

\* Bilibili refuses the cookie, perhaps one that a login has replaced since.
AuthenticationError(d) ==
    /\ Working(d) /\ job[d] \notin Retry /\ Bound
    /\ At(d, "close", "failed")
    /\ account' = "expired"
    /\ enabled' = [j \in Jobs |-> j \notin OfAccount /\ enabled[j]]
    /\ runtime' = IF Exists(job[d]) THEN runtime \ {job[d]} ELSE runtime
    /\ UNCHANGED <<up, row, valid, job, request>>

\* The end of a dispatch; nobody looks at its run again.
Over(d) == At(d, "idle", "none") /\ job' = [job EXCEPT ![d] = Own(d)]

\* _persist_next_run_at: what to drop.
PersistRead(d) ==
    LET j == job[d] IN
    /\ LoopFree /\ pc[d] = "close"
    /\ IF Runnable(j)
       THEN Over(d)
       ELSE /\ At(d, IF Exists(j) /\ j \notin Retry /\ account # "active" THEN "dropAll" ELSE "drop", "none")
            /\ UNCHANGED job
    /\ UNCHANGED <<up, account, rows, runtime, request>>

DropNothing(d) ==
    /\ pc[d] \in {"drop", "dropAll"}
    /\ Over(d)
    /\ UNCHANGED <<up, account, rows, runtime, request>>

\* remove_job, or remove_account_jobs with the jobs the account has now.
Drop(d) ==
    /\ pc[d] \in {"drop", "dropAll"}
    /\ runtime' = runtime \ (IF pc[d] = "drop" THEN {job[d]} ELSE OfAccount)
    /\ Over(d)
    /\ UNCHANGED <<up, account, rows, request>>

-----------------------------------------------------------------------------
(* The process.                                                            *)

FailAnyway(s) == "failed"

\* _fail_run.
Fail(s) == IF s \in Open THEN "failed" ELSE s

Down ==
    /\ up /\ up' = FALSE
    /\ runtime' = {}
    /\ pc' = [d \in Dispatches |-> "idle"] /\ job' = [d \in Dispatches |-> Own(d)]
    /\ request' = [q \in Requests |-> Idle]
    /\ UNCHANGED <<account, rows>>

\* shutdown_gracefully cancels the dispatches that do not end in time; one that
\* has not begun never gets to its handler of the cancellation.
Shutdown ==
    /\ Down
    /\ status' = [d \in Dispatches |-> IF pc[d] \in {"work", "close"} THEN Fail(status[d]) ELSE status[d]]

Crash == Down /\ status' = [d \in Dispatches |-> IF status[d] \in Open THEN status[d] ELSE "none"]

RecoverRunning == [d \in Dispatches |-> IF status[d] = "queued" THEN "queued" ELSE "none"]

\* recover_interrupted_runs.
Recovered == [d \in Dispatches |-> IF status[d] \in Open THEN "failed" ELSE "none"]

\* start: recover the runs, then schedule every enabled job; one that cannot be
\* scheduled ends the process.
Boot ==
    LET chosen == {j \in Jobs : Exists(j) /\ enabled[j]} IN
    /\ ~up
    /\ status' = Recovered
    /\ IF \A j \in chosen : valid[j]
       THEN up' = TRUE /\ runtime' = chosen
       ELSE UNCHANGED <<up, runtime>>
    /\ UNCHANGED <<account, rows, pc, job, request>>

\* What the event loop does for a dispatch.
Step(d) ==
    \/ d \in Jobs /\ Fire(d)
    \/ d \in Manual /\ BeginManual(d)
    \/ Succeed(d) \/ Error(d) \/ AuthenticationError(d)
    \/ PersistRead(d) \/ Drop(d)

Next ==
    \/ \E q \in Requests :
        \/ CreateJob(q) \/ SetEnabled(q) \/ UpdateSchedule(q) \/ Sync(q) \/ Unsync(q)
        \/ DeleteJob(q) \/ DeleteRow(q) \/ Unbind(q) \/ DeleteAccount(q)
    \/ Login
    \/ \E d \in Manual : RunNow(d)
    \/ \E d \in Dispatches : Step(d)
    \/ Shutdown \/ Crash \/ Boot

Spec == Init /\ [][Next]_vars

\* The loop gets round to every dispatch, intervals elapse, handlers end (all
\* their requests have timeouts), and the container is started again.  A step of
\* a dispatch moves its pc, so pc stands for all variables in its fairness.
Fairness == WF_vars(Boot) /\ \A d \in Dispatches : SF_pc(Step(d))

FairSpec == Spec /\ Fairness

(***************************************************************************)
(* Properties.                                                             *)
(***************************************************************************)

\* Every variable keeps its type.
TypeOK ==
    /\ up \in BOOLEAN
    /\ account \in {"none", "active", "expired", "gone"}
    /\ row \in [Jobs -> {"unborn", "there", "gone"}]
    /\ enabled \in [Jobs -> BOOLEAN] /\ valid \in [Jobs -> BOOLEAN]
    /\ \A j \in Jobs : ~Exists(j) => ~enabled[j] /\ valid[j]
    /\ runtime \subseteq Jobs
    /\ pc \in [Dispatches -> {"idle", "start", "work", "close", "drop", "dropAll"}]
    /\ job \in [Dispatches -> Jobs]
    /\ status \in [Dispatches -> Open \cup Final \cup {"none"}]
    /\ request \in [Requests -> [pc : {"idle", "sync", "replace", "unsync", "delete", "unbind"}, job : Jobs]]

\* No run is left behind: in a running process a run that is not finished has a
\* dispatch that will finish it.
NoOrphan == up => \A d \in Dispatches : status[d] \in Open <=> pc[d] \in {"start", "work"}

\* A finished run stays as it finished, whatever fails or is cancelled later.
\* (A dispatch slot that begins anew has a new run.)
FinalIsFinal ==
    [][\A d \in Dispatches :
            status[d] \in Final /\ status'[d] \notin {status[d], "none"} => pc[d] = "idle"]_vars

\* Every run is eventually finished, in this process or by the next one.
RunsEnd == \A d \in Dispatches : status[d] \in Open ~> status[d] \notin Open

\* README "pauses the account's jobs when the login expires": a job that is
\* disabled, deleted or whose account is not active does not stay scheduled,
\* whatever a request that raced with that wrote to the scheduler.
PausedEventually == \A j \in Jobs : j \in runtime /\ ~Runnable(j) ~> j \notin runtime \/ Runnable(j)
=============================================================================
