# bilibili-charge-hub: verification project

bilibili-charge-hub is a self-hosted service: users bind Bilibili accounts by
QR login, scheduled jobs collect the account's "charge" (donation) records,
carry out daily tasks and claim a monthly coupon, and what happened is sent to
notification channels through an outbox. It is one asyncio process (FastAPI,
APScheduler) in front of PostgreSQL.

This directory holds TLA+ models of the parts in which ordering, concurrency
and failure matter, TLC configurations that check them on small instances, and
TLAPS proofs of the main safety properties for every value of the constants.
The models are written from the source; line numbers refer to it.

    tlc -config Pipeline.cfg MCNotificationPipeline   # check one run
    tlapm NotificationPipelineProofs.tla              # check the proofs of a module

`PROJECT.json` lists components, runs, mutants, theorems, hazards and, under
`map`, the source lines each definition stands for.

1. [Inventory](#1-inventory)
2. [What all models share](#2-what-all-models-share)
3. [Notification pipeline](#3-notification-pipeline)
4. [Charge collection](#4-charge-collection)
5. [Daily task](#5-daily-task)
6. [Job scheduler](#6-job-scheduler)
7. [Users and sessions](#7-users-and-sessions)
8. [Coupon claim and login](#8-coupon-claim-and-login)
9. [Dashboard shares and the unlock limit](#9-dashboard-shares-and-the-unlock-limit)
10. [Migration of duplicate charges](#10-migration-of-duplicate-charges)
11. [Proofs](#11-proofs)
12. [Where the code departs from its documentation](#12-where-the-code-departs-from-its-documentation)
13. [What is not modelled](#13-what-is-not-modelled)
14. [Plan](#14-plan)

## 1. Inventory

| Component | Source | State | Operations |
|---|---|---|---|
| Notification pipeline | `notifications/service.py`, `notifications/events.py`, `services/reconciliation.py`, `routers/notifications.py` | tables `notification_outbox`, `notification_deliveries`, `notification_channels`, `notification_subscriptions`; per pass the loaded rows and an open transaction | enqueue, delivery pass, reconciliation, manual retry, channel and subscription settings, retention cleanup, channel test |
| Charge collection | `services/collection.py` | `charge_records`, `collection_watermark_at`, an asyncio lock per account | one run: page, insert, advance; fail, expire, skip |
| Daily task | `services/daily_task.py` | one `daily_task_records` row per account and day, profile | one run: watch, share, donate coins; skip; fail |
| Coupon claim | `services/coupon.py` | one `coupon_claims` row per account and month | claim from a job or from an endpoint |
| Job scheduler | `services/scheduler.py`, `routers/jobs.py`, `routers/accounts.py` | `schedule_jobs`, `job_runs`; in memory APScheduler's jobs, the task set, the cleanup and reconciliation jobs | dispatch, create/switch/reschedule/delete/run a job, login, expiry, unbind, start, recovery, shutdown |
| QR login | `routers/accounts.py` | `bili_login_sessions`, accounts | start, poll, complete, cancel |
| Users and sessions | `auth.py`, `routers/auth.py`, `security.py` | `users`, `user_sessions` | first administrator, login, logout, revocation |
| Request protection | `web_security.py` | in-memory sliding windows | admit or refuse a request |
| Bilibili client | `bilibili/client.py` | none (a cookie) | signed requests, retries, paging |
| Providers | `notifications/providers.py` | none | send |
| Dashboard, charges, shares | `routers/dashboard.py`, `routers/charges.py` | `share_links` | queries, share creation and revocation |
| Start-up | `main.py`, `readiness.py`, `migrations/` | revision of the schema | migrate, refuse to start, start the scheduler |
| Credentials, settings, schemas, logging, web interface, deployment | the rest | none | none |

How they interact:

- The **scheduler** starts every handler (`dispatch`, scheduler.py:240-320).
  Handlers are coroutines of the one event loop. `POST /jobs/{id}/run` starts
  the same dispatch as a task of its own, beside the scheduled one.
- **Handlers** (collection, daily task, coupon) and `dispatch` itself insert
  outbox rows in their own transactions; the deduplication key makes an event
  unique. **Delivery passes** (jobs of kind NOTIFICATION_RETRY) drain the
  outbox; **reconciliation** (hourly, on the loop; or by request, in a thread)
  repairs it from the charge records.
- An **authentication error** of a handler expires the account, disables its
  jobs and removes them from APScheduler; a **QR login** activates it again.
- **Requests** declared with `def` run in a thread pool and change the same
  rows between any two database accesses of a coroutine; the ones declared
  with `async def` run on the loop.

What is hard:

- Coroutines keep loaded rows and open transactions across awaits
  (`expire_on_commit=False`): what they act on may be stale, what they have
  flushed is locked, and a *synchronous* statement that waits for such a lock
  stops the loop its owner needs.
- The process may die at any point: open transactions vanish, external effects
  (messages sent, coins given) do not.
- Retries: attempts are counted per event and per channel, and reset or
  requeued by three different parties.
- The scheduler's memory and the job table change in separate steps.

What makes each component correct:

- *Pipeline*: a delivered message is never sent again; every event with a
  subscriber is eventually delivered or given up, within its budget; a record
  without event gets one; an exhausted event is left alone; tenants never mix.
- *Collection*: nothing older than the watermark is missing; whatever is charged
  after the baseline is announced, history is not; the watermark never goes
  back; every charge is eventually stored.
- *Daily task*: never more coins than the target or than the protection
  allows; a closed day stays closed; the audit does not overstate.
- *Scheduler*: every run is finished, once; a job that should be paused does
  not stay scheduled; the process comes up with what the database says.
- *Users*: no session survives the change of the password it was opened with;
  there is an administrator.
- *Coupon*: a month is recorded as claimed only if it was; a final result
  stays; an account expires only for cause.
- *Shares*: one working link per share; a password share is served only to who
  has unlocked this link lately; the number of attempts is limited.
- *Migration*: merging duplicates neither loses an announcement nor repeats one.

`PROJECT.json` lists the hazards behind these under `hazards`, each at its line.

## 2. What all models share

**Granularity.** An action is the code between two points where somebody else
may act. For a coroutine these are its awaits; for a pooled request they lie
between its database statements where the outcome depends on it (a check and
the write after it, a commit and the call into the scheduler). Within such a
stretch a handler is modelled whole: flushes, commits, trailing refreshes.

**Database.** PostgreSQL at READ COMMITTED. Committed rows are the shared
variables; what a transaction has changed but not committed is a variable of
its owner; flushed rows are locked. SQLite, which the tests use, has coarser
locks and none of the interleavings at issue.

**Mistaken variants.** Each module defines, next to some definitions, a variant
with a plausible bug (`StartSendAgain` beside `StartSend`: the test for a
success dropped). They are not reachable from `Spec`. Replacing the correct
definition by the variant makes TLC find a violation of the property that the
`mutants` entry names; this is how the project makes sure that a property can
fail.

**History variables** record facts the code does not keep and are read by no
guard; they exist for the properties: `done` (pipeline; a manual retry removes its
message from it, and `req` remembers what it asked for), `baseline`, `atBind`
(collection), `lost` (daily task), the fields `pw` and `late` of a session,
`raced` of an account, `unlocked` and `admitted` (shares), `told`, `due`,
`closed` and `known` (migration). Upstream's own state (`coins`, `balance`,
`live`, `granted`) is not history: it decides what upstream answers.

## 3. Notification pipeline

`NotificationPipeline.tla` with `MCNotificationPipeline.tla`; abstract
specification `NotificationPromise.tla`; proofs `NotificationPipelineProofs.tla`.

### State

| Variable | Code |
|---|---|
| `outbox[k]` | row of `notification_outbox` with dedupe key `k`: status, attempts, and `wait`, how far `available_at` lies ahead; status `"none"` if there is no row |
| `older` | order of `created_at` |
| `dlv[<<k, c>>]` | row of `notification_deliveries` for event and channel |
| `chan`, `sub` | existence and `enabled` of channels, enabled subscription rules |
| `stored`, `window` | committed eligible charge records, and those young enough for the reconciliation lookback |
| `loop` | which pass executes on the event loop now, `"free"`, or `"hung"` |
| `pc`, `batch`, `seen`, `cur`, `subs`, `todo`, `at` | the locals of `process_pending_summary` and `deliver_event`: the selected events, their rows as loaded, the current event, its subscriptions, the channel awaited |
| `mine`, `base`, `flushed` | the open transaction of a pass: changed delivery rows, the status they were loaded with, and which of them are flushed and hence locked |
| `failing` | `failures > 0` |
| `req` | what a manual retry request has read |
| `audit` | what the reconciliation request under way has read: the status of each record's event and the deliveries it is going to add |

Time is counted in units of 30 seconds, so that the backoff `30 * 2**attempts`
is `2^attempts`; `wait` counts down in `Tick`.

### Actions

`Scan` (the select, service.py:170), `Open` (targets of one event; `PutBack`
when it has none), `Examine` (one iteration of the channel loop up to
`await provider.send`), `Respond`, `Close` (settle and commit) make up a pass.
`Abort` is a unique or foreign key violation in a flush: the pass rolls back
and `dispatch` enqueues `scheduled_job_failed`. `Hang` is a flush that waits
for a row locked by another suspended pass of the same thread. `Restart` ends
all passes and rolls back. `Store` and `Enqueue` are the producers,
`ReconcileOnLoop` the hourly job, `ReconcileRead` and `ReconcileWrite` the
endpoint, which runs in a thread; `Cleanup` the retention job; `CreateChannel`, `UpdateChannel`, `SetChannelEnabled`,
`DeleteChannel` and `UpdateSubscriptions` the settings; `ClickRead` and
`ClickWrite` the two halves of `retry_delivery`.

`Merged` spells out what the UPDATE of a pass leaves in a row somebody else has
changed since it was loaded: the ORM writes only changed columns.

Abstractions: the first select of a pass that finds nothing is a stutter;
`max_records` of the reconciliation is taken as large enough and its counters
are left out; `Tick` does not occur while a request stands between its
read and its write, unless it waits for a lock; `Cleanup` leaves alone keys held by
a pass or a request, since 7 days is the smallest retention.

A reconciliation request reads one record after the other and locks nothing it
has read, so any step of a pass or of another request comes in between: a pass may
close the event as failed after the request has found it pending (the test is at
reconciliation.py:153, the insert at 236, the commit at 136). Its flushes and its
commit are one step, `ReconcileWrite`: what it has flushed is invisible until the
commit, and shows before only in that others wait for it. `Entangled` says when
that matters: a pass waits for a row of the request while the request waits for a row
some pass has flushed. If that pass is the waiting one, PostgreSQL ends one of the two
(`Abort`; when it ends the request instead, the record is skipped, as it is when
the commit of the pass comes first), if it is another, suspended one, the loop hangs.
A record whose inserts meet a row or a deleted channel is skipped
(`Overtaken`, the savepoint of reconciliation.py:124). The hourly run holds the
event loop throughout, so no pass takes a step in it; requests that fall into it
leave what they leave when they come before or after it. The lock of
reconciliation.py:93 keeps the two kinds of run apart (`Auditing`).

### Runs

| Run | Instance | Question | Distinct states |
|---|---|---|---|
| Pipeline | 1 tenant, 2 channels, 2 events, 1 pass, 1 manual retry, 2 attempts | bookkeeping, no resend, budget, closing | 659,550 |
| PipelineTenants | 2 tenants with a channel, a pass and a failure event each, one charge event, 1 manual retry, 1 attempt | tenant boundary, refinement of `NotificationPromise` | 231,384 |
| PipelineLive | 1 channel, 2 events, 1 manual retry, 2 attempts, fairness | events are settled, gaps are repaired | 8,067 |
| PipelineOverlap | 2 passes of one tenant, 1 attempt | what a hang needs | 386,411 |
| PipelineResent | 2 passes of one tenant, 2 attempts | a delivered message is sent again, section 12 | a violation |

In Pipeline, PipelineTenants and PipelineOverlap the subscription rules are fixed:
who is reached depends on which channels exist and are enabled, which the settings
change at any time. The rules themselves (`UpdateSubscriptions`) vary in PipelineLive
and PipelineResent.

Safety properties:

- `NeverResent`: no pass starts a send to a channel whose success for this
  event is committed and was not reset by a manual retry since. Its hazards are rollbacks after a send, reconciliation
  requeuing a delivered event, cleanup followed by reconciliation, and stale
  rows.
- `DeliveredMeansReached`: an event closes as delivered only if each channel it
  was opened for has a committed success, is deleted, or was reset by a manual
  retry (which may come under the pass, after its read and before its write).
- `WithinBudget`: an event never has more attempts than `MAX_ATTEMPTS`, and a
  channel no more than its event and `MAX_ATTEMPTS` for each manual retry of the
  event (`Granted`). Nothing in the code compares the two counters, and a retry
  resets the event with one of its channels only.
- `FailedIsFinal`: but for a manual retry, nothing is sent for an exhausted event
  and no attempt is given back to it. It is not revived and gets no new delivery
  either, unless a reconciliation request writes what it decided before a pass gave
  the event up (`Overtook`; section 12): the code cannot prevent that, only
  what would follow from it.
- `TenantIsolation`, and `PromiseKept`: the refinement. In progress is a
  message from the start of its send to the commit or rollback of its pass;
  deleted channels, the reuse of a key after cleanup and a message asked for
  again are explicit exceptions of `NotificationPromise`.
- `HangNeedsOverlap`: with two passes, a hang happens only if a suspended pass
  holds a flushed row that another pass or reconciliation needs too. Reconciliation
  by request does not block the loop itself, but a pass that waits for the request does.

Liveness: `EventuallySettled` and `GapRepaired`.

### Bounds

Two channels are needed for partial success (one in backoff, one done) and for
rows flushed while another channel is awaited; two events so that an event can
follow or be put back behind another one. Two attempts let the counters of a
channel and of its event drift apart and meet the limit, with a manual retry in
between; five, as in the code, repeat the same cases, and the theorems of section
11 hold for any number. `BatchLimit` 2 never binds: the limit of 100 matters
only for the starvation listed in section 12. With one manual retry (Pipeline,
PipelineTenants, PipelineLive) every race of its two halves with a pass occurs. Channels are interchangeable
in Pipeline, hence the symmetry; the liveness run has none.

### Fairness

`Fairness` of `FairSpec`: passes are weakly fair (the retry job fires every
minute, HTTP calls have timeouts, so `Respond` comes); a request that has read
goes on to write, and a reconciliation request that waits for a lock gets it in turn
(strong fairness of `ReconcileWrite`); time passes and the hourly reconciliation gets its turn
infinitely often if the loop is idle infinitely often (strong fairness, since
passes come and go in between); and the process is not restarted forever. Nothing
is assumed about channels or producers.

## 4. Charge collection

`ChargeCollection.tla` with `MCChargeCollection.tla`; abstract specification
`ChargeLedger.tla`; proofs in `ChargeCollectionProofs.tla`.

### State and actions

Charges are numbered in upstream order; `Time` gives `charged_at`, with ties.
`visible` charges exist upstream, `stored` have a committed record, `eligible`
are `notification_eligible` and have their event. `scan[r]` holds the locals of
a run: page, `previous_watermark`, `newest_seen`, the number of consecutive
known pages and the records inserted but not committed; `lock` is the account's
asyncio lock.

`Start`, `NextPage`, `Finish` are a run without failure; `Fail` (a failing
request or a cancellation), `Reject` (a record that cannot be parsed) and
`AuthFail` commit what was inserted and leave the watermark, as the handlers of
collection.py:286-330 do; `Crash` loses it. `Charge` shifts all pages by one,
between any two page requests of a run. Whether the answer carries a total is
a choice of each page. Enrichment of known records, counters and supporters'
names are left out.

### Runs

`Collection` (32,770 states): 2 overlapping runs, 6 charges, two of them in
one second, one that cannot be parsed, one charge per page. One charge per page
makes every shift of the pages visible; six charges are enough for a baseline,
two known pages, a new one behind them, and an interrupted run that leaves a
gap. The account has charges when it is bound (`HistorySpec`); from `Spec`,
which allows it to have none, TLC refutes `NewIsNotified`, section 12.

- `NothingMissed`: nothing older than the watermark is missing. This is what
  justifies that a run stops after two known pages, and what a run that failed
  half-way could break by advancing the watermark.
- `NewIsNotified`: a charge made after the first successful run is announced,
  unless it shares the second of its predecessor.
- `HistoryIsSilent`: what was charged before binding never is, however the first
  runs fail.
- `WatermarkAdvances`: overlapping runs do not move it back.
- `LedgerKept`: the refinement of `ChargeLedger`. There charges are recorded in
  single steps, each of which decides for good what is announced (what is newer
  than the frontier) and may advance the frontier to the time of a recorded charge
  that has no unrecorded one before it. So a run of many pages, between which
  charges arrive and other runs begin, fail or die, is as good as one step at the
  moment of its commit. `visible`, `stored`, `eligible` and `watermark` are the four
  variables of the ledger; the locals of the runs and the lock have no counterpart.
- `EventuallyCollected`: every charge is stored, unless the account expires or
  an item that cannot be parsed stands in the way.

Fairness: the collection job keeps firing while the account is active, a page
request ends, and failures and crashes do not go on forever. Without the last
two nothing could be collected.

`MAX_PAGES` is 8 in these runs and not reached; with it at 100 an account with
more than 5,000 charges at its first run loses the oldest, section 12.

## 5. Daily task

`DailyTask.tla` with `MCDailyTask.tla`; abstract specification `CoinDay.tla`;
proofs `DailyTaskProofs.tla`.

### State and actions

One account on one local day. `rec` is the committed `DailyTaskRecord`; `lock`
the run that has inserted it without committing; `run` the status of the
`JobRun`s; `work[r]` the locals of a run, `pc` naming the await it stands at;
`coins` and `balance` are upstream's, `lost` counts coins taken by POSTs whose
response was lost.

`StartDisabled`, `StartFinished`, `Start`, `Insert` lead to the record;
`ReadExp`, `ReadBalance`, `Pick`, `Accepted`, `Rejected`, `Lost`, `GiveUp` are
`_donate_coins`; `Complete` and `Fail` the two ends; `Restart` a crash and the
recovery; `UpdateProfile` and `Rebind` the user. `Lost` repeats the POST as
`_request_json` does (client.py:178). `Hang` is an INSERT that waits for the
record of a suspended run.

Abstractions: the watch and share tasks are one flag (did one of them get
done); the choice of videos is a choice; target and protection are fixed during
the day, `enabled` is not; the day does not change under a run. Coins of the
account are given by runs only: what its owner gave by hand earlier is the choice of
`coins` in `Init`, what the owner gives between two requests of a run is left out.

### Run

`Daily` (103,140 states): three runs, target 2, 1 protected coin, up to 4
coins of balance, 4 candidate videos (10 in the code), 3 tries per POST. Three
runs give one that died with coins given, one at work and one that overlaps it;
a target of 2 makes "part of it given by an earlier run" possible; a balance on
both sides of the protection plus target.

- `OneAtATime`: one run at a time works on the day and only while it is open.
  The guard is not a lock but the uniqueness of an uncommitted row.
- `Allowance`, `WithinTargetButLost`, `ProtectedButLost`: what a run still
  means to give fits the target and the protection at every await, though it was
  computed once from values read long before; each lost response may cost one
  coin more, and nothing else may.
- `DayClosedOnce`: a committed record is never rewritten and no coin is given
  after it.
- `AuditNeverOverstates`: the record never claims a coin that was not given.
  (It may claim fewer, section 12.)
- `DayKept`: the refinement of `CoinDay`, which knows no runs, requests, retries or
  locks. There coins are given under one plan at a time; a plan is made only while
  the day is open and fits the target and the protection at that moment, counting
  what earlier plans gave; it may be dropped, and the day is closed in one step with
  a record that claims no more than was given. The plan (`Planned`) is what the run
  that holds the day has still to give once it has read the balance; a run that dies
  or fails drops it and the next one plans anew.

Types are proved for every instance (`DailyTyped`), not checked by this run.

The system may not stop: `UpdateProfile` is always possible, so deadlock
checking has no meaning here; hanging is a state (`hung`).

## 6. Job scheduler

`JobScheduler.tla` with `MCJobScheduler.tla`; proofs `JobSchedulerProofs.tla`.

### State and actions

`row`, `enabled`, `valid` are `schedule_jobs` (`valid`: the trigger can be
built); `account` its status; `runtime` the jobs APScheduler holds. A dispatch
has a `pc`, a `job` and the `status` of its `JobRun`. A job has one scheduled
dispatch at a time (`max_instances=1`), which carries its name; those started by
hand are in `Manual`. `request[q]` is what a pooled request has still to do
after its commit.

`Fire`, `BeginManual` are `dispatch` up to its first await, with its six early
returns; `Succeed`, `Error`, `AuthenticationError` its ends; `PersistRead` and
`Drop` the two halves of `_persist_next_run_at`. `CreateJob`, `SetEnabled`,
`UpdateSchedule`, `DeleteJob`, `Unbind` are requests, continued by `Sync`,
`Unsync`, `DeleteRow`, `DeleteAccount`. `Login`, `RunNow`, `Shutdown`, `Crash`
and `Boot` (recovery and start) are on the loop. `next_run_at` is displayed and
never read back, so it is left out.

### Runs

`Scheduler` (153,600 states): a job of the account and a retry job, one manual
dispatch, one request thread. Both kinds of job are needed because only one
depends on the account; a scheduled and a manual dispatch of the same job can
overlap, and a request falls between any two of their steps. Only the retry job
may get a trigger that cannot be built (`Careless`), which keeps the instance
small; nothing depends on which one it is.

- `NoOrphan`: in a running process every unfinished run has a dispatch that will
  finish it. `FinalIsFinal`: a finished run stays as it finished.
- `RunsEnd`: every run is finished, by its process or the next one.
- `PausedEventually`: a job that is disabled, deleted or whose account is not
  active does not stay scheduled. Requests do race with this: they put jobs back
  that have been deleted or paused meanwhile, and it is the trailing refresh of
  the next dispatch that cleans up.

Fairness: each step of a dispatch is strongly fair (the loop is shared, all
requests of a handler have timeouts, intervals elapse; every such step moves `pc`, so
`SF_pc` says the same as `SF_vars` and is cheaper to check), and the process is
started again (`restart: unless-stopped` in compose.yaml).

A stored trigger that cannot be built keeps the process from coming up; `Boot`
has that case, section 12.

## 7. Users and sessions

`UserSessions.tla` with `MCUserSessions.tla`; proofs `UserSessionsProofs.tla`.

### State and actions

`user[n]` is the row of `users` with that name, `sess[t]` the row of
`user_sessions` for a token, `req[q]` what an endpoint thread has read and is
about to write. The endpoints are plain functions; each authenticates, reads and
checks, hashes a password, and then writes and commits. So each is two actions,
the check (`SetupAdmin`, `Login`, `RecoverAdmin`, `ChangePassword`, `CreateUser`,
`UpdateUser`, `ResetPassword`) and its commit (`SetupCommit`, ..., `ResetCommit`),
with anything in between. `Logout`, `Expire`, `Cleanup` (of the scheduler) and
`Restart` are single steps. A check that fails ends its request and is no step.

Left out: hashing, the wording of errors and roles other than administrator or
not. A user is never deleted by this code.

### Run

`Sessions` (216,542 states): two names, passwords, tokens and requests, all
interchangeable. Two requests are every race of one check with one write; two
names are an administrator and another user, or two administrators.

- `NoStaleSession`: a stored session belongs to an active user and was opened
  with the present password. Revocation deletes rows, it does not mark them, so
  a session inserted afterwards escapes it: only by a login that had passed its
  check when the password changed (`late`).
- `LastAdminStays`: the step that leaves no active administrator is an update
  authorised for an administrator who has been disabled meanwhile.

## 8. Coupon claim and login

`CouponClaim.tla` with `MCCouponClaim.tla`; proofs `CouponClaimProofs.tla`.

### State and actions

`account` and `job` are the account's row and its coupon job; `claim[c]` holds
the locals of `CouponService.claim` across its await; `run` the status of the
`JobRun`; `row[m]` the `coupon_claims` row of a month; `told` whether the event
that announces an expiry is in the outbox. Upstream is `live` (the cookies it
accepts) and `granted` (the months whose coupon it has given out); it is not
under `src/` and is modelled by what the answers of `claim_coupon` distinguish.

`ClaimNow` and `Dispatch` start a claim by the endpoint or the scheduler.
`Upstream` is the moment Bilibili decides, `Record` or `Refused` the moment its
answer has arrived; `AnswerLost` gives the coupon and loses the answer, which
`_request_json` asks for again. `RecordFails` is the unique key of a month met in
the commit, `ClaimFails` the end without an answer. `Login` is the poll of a QR
session that creates or renews the account; `SetJob`, `CookieDies`, `NextMonth`,
`Restart` and `CleanupRun` the rest. `Restart` includes the recovery of runs.

### Run

`Coupon` (1,960,931 states): two claims of one account, two cookies, two months.
Two claims give every overlap; two cookies a login under a claim; two months a
claim that begins in one and is answered in the next. `NextMonth` lets no claim
last into a second month, since its requests take at most minutes.

- `FinalIsGranted`: what is recorded as claimed was given out.
- `FinalStays`: a final result is overwritten only by a claim that read the row
  before; that this can happen is listed in section 12.
- `ExpiredForCause`: an expired account has a dead cookie, or the refusal of an
  old cookie raced a login; and the outbox tells the owner.

## 9. Dashboard shares and the unlock limit

`ShareAccess.tla` with `MCShareAccess.tla`; proofs `ShareAccessProofs.tla`.

### State and actions

`share[s]` is a row of `dashboard_shares`, `given` the links somebody may hold,
`cookie` the access cookies of visitors (signed by the server, which keeps no
copy), `attempts` the deques of `SlidingWindowLimiter`, `page` a dashboard request
between its checks and its answer. A share made before migration 0007 has a random
token stored as a hash; a newer one a token derived from its id; `get_share` tries
both ways, so each share has two tokens here.

`CreateShare`, `DeleteShare`, `RegenerateShare` are the owner's endpoints;
`Unlock`, `UnlockRefused`, `UnlockLimited` the outcomes of an unlock request;
`OpenPage` and `ServePage` the two ends of GET `/api/share/{token}`; `Restart`
forgets the limiter. Signatures are taken as unforgeable: a cookie exists for a
token only if `Unlock` made it. Addresses behind proxies, the masking of names
and the payload are left out.

### Run

`Shares` (1,443,515 states): one share, new or legacy, one visitor, lifetimes of
2 and 4, TTL 2, a limit of 2 attempts in 2 steps, time up to 5. A share's links
do not touch those of another, nor a visitor's cookies those of another, so one
of each is enough; the lifetimes lie at and beyond the TTL, so that a cookie can
be cut short by either; time 5 lets two windows and two TTLs go by. Deadlock does
not occur because `Restart` is always possible.

- `OneLink`: the two ways of `get_share` never open one share by two links.
- `ServedForCause`: a password share is served only to a visitor that gave the
  password on this link within the TTL, through regeneration, expiry and restarts.
- `WithinLimit`, `RefusedForCause`: no window of any position lets more than the limit
  through, and an attempt is refused only if the window that ends now is full.
  The code drops from the front, by the time of the *present* attempt, and counts
  what is left; nothing it keeps speaks of other windows.

## 10. Migration of duplicate charges

`ChargeUpgrade.tla` with `MCChargeUpgrade.tla`; proofs `ChargeUpgradeProofs.tla`.

### State and actions

`record[r]` and `event[r]` are the rows of `charge_records` and of the outbox in
the order of their creation, `current` and `app` the schema and the application.
An older version stored a charge again, with another event, when the supporter's
name came out differently; `Init` is every table it can have left: any number of
records of a charge, each with its event pending, delivered, failed or cleaned up.

`Upgrade` is migration 0006, one transaction: `MergedRecord` and `MergedEvent` say
what becomes of a row. `StartApp` is `lifespan` (the scheduler only with the expected
revision), `StopApp` its end. Jobs can be run by hand whether or not the scheduler
runs (`Serves`); only `CleanUp` needs its timer. `CollectNew`, `CollectAgain`, `Reconcile`, `Deliver`,
`GiveUp`, `Retry`, `Ages` and `CleanUp` are the operations of sections 3 and 4 as far
as they touch these rows; a pass is one step, since the interleaving of passes is
the subject of section 3. The age of a record is whether reconciliation still looks
at it; `CleanUp` waits for that, as retention is 7 days at least and the lookback 7
days at most.

### Run

`Upgrade` (81,422 states): two charges, three old rows, one new row. Three rows
give a charge with three duplicates, with two and another charge, or none; the
fourth is a charge collected after the migration. Nothing in 0006 compares charges
with each other.

- `NoSecondTelling`: a charge is announced at most once after the migration, and
  not at all if all its events had been delivered or cleaned up.
- `NothingLost`: an announcement still due is made, or its event waits or may be
  retried under the key of the surviving record; a name known to any duplicate
  survives.

## 11. Proofs

All theorems hold for every value of the constants that satisfies the named
assumptions of the module (`SetsAssumption`, `FunctionsAssumption`,
`LimitsAssumption`, `ChargesAssumption`, `DailyAssumption`, `SchedulerAssumption`,
`SessionsAssumption`, `ClaimAssumption`, `ShareAssumption`,
`UpgradeAssumption`), which TLC evaluates in the runs as well. Lemmas say what
one action or helper does; theorems combine them.

| Theorem | States | Further assumptions |
|---|---|---|
| `TypeCorrect` | `Spec => []TypeOK` (pipeline) | none |
| `BookkeepingInvariant` | `[]Bookkeeping` | one pass per tenant |
| `DeliveredIsNeverResent` | `NeverResent` | the same |
| `PipelineKeepsPromise` | the pipeline implements `NotificationPromise` | the same |
| `BudgetIsKept` | `WithinBudget` | the same |
| `EventBudgetIsKept` | `[]EventBudget`: its half about events | none |
| `FailedStaysFailed` | `FailedIsFinal` | the same |
| `DeliveredIsReached` | `DeliveredMeansReached` | the same |
| `TenantsStayApart` | `TenantIsolation` | none |
| `HangTakesTwo` | `HangNeedsOverlap` | none |
| `CollectionTyped` | `[]TypeOK` (collection) | none |
| `BindingIsSilent` | `HistoryIsSilent` | none |
| `WatermarkOnlyAdvances` | `WatermarkAdvances` | none |
| `NothingIsMissed` | `NothingMissed` | `Reach`, `TiesFit` |
| `NewChargesAreNotified` | `NewIsNotified` | `Reach`, `TiesFit`, a charge when bound |
| `CollectionKeepsLedger` | the collection implements `ChargeLedger` | `Reach`, `TiesFit` |
| `DailyInvariant` | `[](TypeOK /\ OneAtATime)` | none |
| `DayIsClosedOnce` | `DayClosedOnce` | none |
| `DonatesWithinMeans` | `WithinTargetButLost`, `ProtectedButLost` | none |
| `AllowanceStands` | `Allowance` | none |
| `AuditIsHonest` | `AuditNeverOverstates` | none |
| `DailyTyped` | `[]TypeOK` (daily task) | none |
| `DailyKeepsPlan` | the daily task implements `CoinDay` | none |
| `RunsHaveDispatches` | `[](TypeOK /\ NoOrphan)` (scheduler) | none |
| `RunsStayFinished` | `FinalIsFinal` | none |
| `SchedulerTyped` | `[]TypeOK` (scheduler) | none |
| `SessionsTyped` | `[]TypeOK` (sessions) | none |
| `SessionsFollowTheUser` | `NoStaleSession` | none |
| `AdministratorsRemain` | `LastAdminStays` | none |
| `CouponsTyped` | `[]TypeOK` (coupon) | none |
| `RecordedIsGranted` | `FinalIsGranted` | none |
| `ExpiryHasACause` | `ExpiredForCause` | none |
| `FinalResultsStay` | `FinalStays` | none |
| `SingleLink` | `OneLink` | none |
| `EveryPageEarned` | `ServedForCause` | none |
| `LimitKept` | `WithinLimit` | none |
| `RefusalHasACause` | `RefusedForCause` | none |
| `SharesTyped` | `[]TypeOK` (shares) | none |
| `UpgradeTyped` | `[]TypeOK` (migration) | none |
| `UpgradeTellsOnce` | `NoSecondTelling` | none |
| `UpgradeLosesNothing` | `NothingLost` | none |

**Why a delivered message is not resent.** `NeverResent` speaks of the rows a
pass reads when it starts a send; to be inductive it needs to know that a
recorded success shows in its row as long as anything might send the message
again. `Bookkeeping` is `Books`, which the steps of the passes keep, with `Audited`,
what a reconciliation request relies on when it writes. `Books` is the conjunction of:

- `OwnEvents`: a pass holds existing events of its own tenant, and delivers one
  of them;
- `OpenRows`: it has changed rows only for the event it delivers, and none for a
  channel it has still to visit but the one being sent to;
- `LoadedRows`: a row it has changed was not succeeded when loaded, and is still
  there unless its channel was deleted;
- `NotInProgress`: no pass has a message with a recorded success in its open
  transaction;
- `Remembered`: a recorded success shows in its row, or the channel is deleted,
  or the event was cleaned up and its record is outside the lookback;
- `EventsHaveRecords`: the event of a charge exists only for a stored record.

`Audited` says that between the reads and the writes of a request an event it found is
still there, one it found missing is still missing, with no success recorded, and
it adds to no event that it found given up. What it decided may be out of date all the
same, since a pass may have settled the event. Its writes keep `Books` (`RequestRepairs`,
`RepairBooks`) because they put rows only where there are none.

The critical steps: `Close` must not overwrite a success it did not see
(`LoadedRows`, `NotInProgress`), and `Cleanup` must not forget an event that
reconciliation would rebuild (`Remembered`: retention of at least 7 days against
a lookback of at most 7). A manual retry may
fall between any two steps of a pass: it makes the message due again, and the
lemma `ClickBooks` shows that a pass under way keeps its bookkeeping, whichever
of its rows are reset. The assumption is necessary: two passes of one tenant do resend
(run PipelineResent). The other theorems that make it need it too: on the instance
of PipelineOverlap TLC refutes `FailedIsFinal` and `WithinBudget`, and with two
attempts `DeliveredMeansReached`.

**The refinement.** `InProgress`, `done` and the deleted channels stand for
`sending`, `reached`, `removed`. `Examine` that sends maps to `Begin`, `Close`,
`Abort` and `Restart` to `Settle`, `DeleteChannel` to `Remove`, `Cleanup` to
`Forget`, `ClickWrite` to `Again`; everything else to a stutter. The proof needs `Bookkeeping` and
that two passes never hold the same event (`DistinctEvents`).

**Attempts and successes.** `Accounts` is inductive relative to `Bookkeeping`:

- `StillOpen`: nobody else counts an attempt on an event a pass holds or gives it
  up, and it had attempts left when the pass read it; a manual retry may have set
  its count back since;
- `Prepaid`, `Unused`: a row changed in an open transaction is at most one
  attempt ahead of the count its pass has read, plus what manual retries granted,
  and an event that is not there has none;
- `Reached`: as long as no channel of the event failed, every channel visited
  has its success, in the transaction or in the table, is deleted, or was reset by
  a manual retry;
- `FiniteRetries`: only finitely many retries were made so far, so that one more
  raises `Granted` (`GrantedGrows`). This is an invariant and no assumption: the
  set of requests that may come is unbounded.

`BudgetIsKept` follows from the commit (`CloseEffect`), which counts one attempt
of the event for at most one of each channel. Its half about events holds for any
number of passes (`EventBudgetIsKept`): the commit writes the count selected with
the event plus one, and only events below the limit are selected
(`SelectedBelow`), so overlapping passes lose attempts but never exceed the
limit. The half about deliveries does not extend: a pass that selected the event
before another one's commit may count a second attempt on a channel and write the
same count of the event. `FailedStaysFailed` follows from
`StillOpen`, and from `Audited` for the request that was overtaken; `DeliveredIsReached` from `Reached` when no channel is left.

**Tenants and the loop.** `TenantsStayApart` and `HangTakesTwo` need no
assumption: `Theirs` says that a pass works on rows of its event's tenant only,
`RequestedRows` that a reconciliation request adds rows within the tenant of a record
it has read,
`HoldsLoop` that a pass which is not suspended in a send holds the loop.

**Collection.** `Base` (types, the lock, the phases of a run, what is recorded is
real, the silent history) is inductive without assumptions. `Whole == Solid /\
Fresh /\ Seen` says that the records have no hole below what a successful run
has passed, that a run under way has read all it has gone past, and that what an
interrupted run left behind cannot end the next one too early. It needs

- `Reach`: `MaxPages` pages hold the whole history;
- `TiesFit`: the charges of one second fit a page and one more. Without it,
  two pages of known charges can hide an unread one of the same second.

Both are necessary: TLC refutes `NothingMissed` where either fails (section 12).
`Notified` carries `NewIsNotified` on top, from accounts that have a charge when
they are bound.

`CollectionKeepsLedger` maps every commit to `Record` (`CommitIsRecord`) and a new
charge to `Make`; everything else is a stutter. That a commit decides against the
*present* frontier, although a run judges by the watermark it read when it started,
is what `Locked` says; that the frontier passes no unrecorded charge follows from
`Whole` in the state after the commit.

**Daily task.** `IInv == TypeOK /\ OneAtATime` is inductive. `Allowance` is
inductive relative to it: only the run that holds the day's record moves coins,
so what others computed cannot go stale under it. `DonatesWithinMeans` follows
from `Allowance` before the step in which a coin goes. `AuditIsHonest` needs that no
run counts more coins than were given (`Counted`). `DailyKeepsPlan` puts them
together: `ReadBalance` maps to `Plan`, `Accepted` to `Give`, `Lost` to `Lose`,
`GiveUp` and a final `Rejected` to `Drop`, and `Complete`, `Fail` of the run that
holds the day and the skipped record of `StartDisabled` to `Close`; `Restart` drops the
plan; the rest is a stutter. That the plan fits
when it is made needs one more invariant, `Exact`: between reading the experience
and the balance nobody else takes a coin, so the two answers, read in different
requests, belong together. That a coin is given only under a plan is `Allowance`.

**Scheduler.** `NoOrphan` needs `Quiet`: a process that is down has no
dispatches, so that `Boot` starts from none.

**Sessions.** `TypeOK /\ RequestsKnown /\ NoStaleSession` is inductive:
`RequestsKnown` says that whoever a request is about exists, which no operation
undoes since users are not deleted, and that nobody disables itself. From it
`LastAdminStays` follows for each step: only the commit of an update takes an
administrator away, and the last one did not ask for that itself.

**Coupon.** `TypeOK /\ ClaimsKnown /\ FinalIsGranted /\ ExpiredForCause`.
`ClaimsKnown` describes a claim under way: its cookie is not newer than the
account's, it read no final result and began in this month or the last, a final
answer it holds has been granted, and a refusal it holds means that its cookie is
dead.

**Shares.** `Typed /\ KindsAgree /\ CookiesEarned /\ PagesKnown /\
ServedForCause`. `KindsAgree` (the scheme of a share is the kind of the hash it
stores) gives `OneLink`; `CookiesEarned` (a cookie was issued when the password
was last right and ends within the TTL) carries what the server does not store.

**The limiter.** `Limited` says of each client and link that the deque is an end
piece of the list of all attempts let through, and that the attempts before it are
out of the window for good (`Remembers`); that no attempt lies in the future; and that
no window of any end has more than the limit. Dropping from the front keeps
`Remembers` (`RecentRemembers`, by the least index still in the window,
`MinOfNumbers`). An attempt let through adds to windows that end now or later only,
and these hold nothing but what the deque holds (`AdmitKeepsLimit`), which is an
interval of fewer than `Limit` indices. Since attempts are in the order of time
(`InOrder`), the deque holds only what is in the window that ends now
(`RecentIsFresh`), and a full deque is a full window.

**Migration.** `TypeOK /\ Before /\ After /\ NothingLost`. `Before` is what an
older version leaves; `After` says of the current schema that a charge has one
record, at most one live event, under the key of that record, that a record
which reconciliation would look at has its event, and what has been told so far.
The step `Upgrade` establishes `After` from `Before`; that the oldest row of a
group is in the group is proved from the well-foundedness of the naturals
(`MinIsMember`).

Model-checked only: all liveness properties (`EventuallySettled`,
`GapRepaired`, `EventuallyCollected`, `RunsEnd`, `PausedEventually`), which TLAPS
cannot prove under fairness here. Every other property of a passing run has a
theorem.

## 12. Where the code departs from its documentation

The first has a run, `PipelineResent`, whose only property is what the
documentation says; TLC's counterexample is the behaviour described. The next
four are behaviours of the models as they stand.

1. **A delivered message is sent again** (scheduler.py:274). A manual run of the
   retry job beside the scheduled one, or two retry jobs, work on the same
   events; the second sends after the first has committed its success.
   (README.md:36 says delivered notifications are never resent.)
2. **An exhausted event is requeued** (reconciliation.py:165). An event
   delivered with its last attempt and requeued for a new channel keeps
   `attempts = MAX_ATTEMPTS`. The select of a pass wants fewer, so the new
   channel is never served. `EventuallySettled` is checked with one channel,
   where this does not occur.
3. **The process hangs** (scheduler.py:194). The hourly reconciliation executes
   its statements on the event loop. If a pass is suspended in a send with a
   flushed delivery that reconciliation wants to insert, the INSERT waits for a
   transaction only this loop could end. The process hangs until restarted.
   `HangNeedsOverlap` says what it takes.
4. **The first charge of an empty account** (collection.py:254). An account
   bound without charges has no watermark after its first run, so its first
   charge ever is taken for history and not announced (README.md:21).
5. **The process does not come up** (routers/jobs.py:192, scheduler.py:69). A cron
   expression is stored unchecked while its job is disabled. Enabling the job
   commits before the trigger is built, and from then on the start of the
   scheduler raises: the application does not come up.

Further observations:

- A reconciliation request that is overtaken by a pass adds deliveries to an event
  that has failed since it was checked (reconciliation.py:153 and 236;
  docs/operations.md says an exhausted outbox is only audited). If the event had
  been delivered when it was checked, retried by hand and failed meanwhile, it is
  even set back to `retry`, with its budget spent. Nothing is sent for it until a manual
  retry asks for it. `FailedIsFinal` admits exactly this (`Overtook`).
- A delivery that reconciliation adds while its event is being delivered is left
  pending when the pass closes the event (reconciliation.py:161). The next
  reconciliation does not see it as missing.
- `retry_delivery` checks and resets in separate statements (service.py:68), and
  whatever the event's subscriptions are. A retried delivery whose channel is no
  longer subscribed, or that is reset under a pass, stays pending when the pass
  closes the event as delivered. It cannot be retried again (only a failed
  delivery can) and is served only if its event is opened once more.
  `DeliveredMeansReached` excepts the channels reset under a pass (`Asked`).
- A manual retry of one channel gives the other channels of its event a further
  budget, which `Granted` counts (service.py:68).
- The daily task's INSERT can hang the loop like 3 (daily_task.py:120). It is
  part of the model (`hung`) but no property forbids it.
- A skipped or failed daily run closes the day: later runs of the day report
  that it is done already (daily_task.py:136). A second disabled run of a
  day violates the unique key and is reported as failed.
- A failed daily run records no coins though it may have given some
  (daily_task.py:233; README.md:25 speaks of an audit).
- A coin POST whose response is lost is repeated (client.py:178); with the
  cap on coins per video the damage is one coin per loss.
- More than `MAX_PAGES` pages of history are not read, and never will be
  (collection.py:199, README.md:21).
- A run that is interrupted after it has stored the newest of many charges of one
  second leaves known charges at the top. The next run ends after two pages of
  known charges (collection.py:242), so if more than a page and one charge fall
  in that second the rest is never stored. With pages of one charge and three
  charges of one second TLC refutes `NothingMissed`.
- A hundred events without subscriber, older than the rest, fill every batch
  (service.py:177).
- A failed test event stays in the outbox and is sent to all subscribers of its
  type later.
- A job that was disabled by an expiry and enabled again before the login comes
  back only at the next process start.
- An authentication error of a request made with the old cookie expires an
  account that has just logged in again (collection.py:277). The scheduler model
  has this step (`AuthenticationError`); the account stays expired until the
  next login. `ExpiredForCause` admits exactly this (`raced`).
- Two requests may both create the first administrator (README.md:17).
- Runs that end PARTIAL_SUCCESS are never cleaned up (scheduler.py:223,
  docs/operations.md:126).
- The second expiry of a cookie has the deduplication key of the first, so it is
  not announced while the first event is kept.
- `_persist_next_run_at` reads that a job is disabled, a request enables and
  schedules it, and the job is dropped: it stays enabled and unscheduled until
  the next start (scheduler.py:382). The converse is `PausedEventually`.
- The cleanup of runs older than six hours may finish a run that is still
  working and finishes itself later.
- Two coupon claims of a month: the second violates the unique key in the commit
  that was to end its run, which the direct endpoint leaves RUNNING until the
  next start or the cleanup after six hours (coupon.py:85). `RecordFails`.
- A claim that read a failed result overwrites a success that another has stored
  since (coupon.py:85). `FinalStays` says that nothing else does.
- A coupon whose answer is lost is recorded as `already_claimed` (client.py:178).
- Two administrators can disable each other and leave none (routers/auth.py:218).
  `LastAdminStays` says that nothing else does; POST /auth/setup then works again.
- A login that passed the check before a password change inserts its session
  after it (routers/auth.py:98). `NoStaleSession` admits exactly this (`late`).
- A charge one of whose duplicates had been delivered is announced once more by
  migration 0006 if the event it keeps is still pending; never twice.
- An application started on the old schema keeps its scheduler off when the
  schema is migrated under it, until the next start (main.py:64).

## 13. What is not modelled

- **Channel test**: the test event and its late commit are a further producer of
  the outbox; planned, section 14.
- **QR login sessions**: the rows of sessions that wait for a scan; the login that
  ends one is `Login` of CouponClaim and of JobScheduler.
- **Request protection** but the limiter of unlock attempts: origin and CSRF
  checks, headers, body limits; they keep no state.
- **Bilibili client**: request signing, parsing and the other endpoints are I/O;
  its paging is in ChargeCollection, its repeated POST in DailyTask.
- **Providers**: building and sending an HTTP request. A send is an outcome.
- **Dashboard payload, charge queries, delivery view**: read-only.
- **Readiness and migrations** (but 0006, and the rows that 0007 finds): a
  comparison of sets; statements run once in a transaction.
- **Credentials, settings, database, logging, schemas, errors, web interface,
  deployment**: declarations, presentation or library calls.
- Inside modelled components: `max_records` and the counters of reconciliation;
  SQLite; `next_run_at`; the retention of job runs; videos, watching and
  sharing; enrichment of known charges; midnight under a daily run.

## 14. Plan

Done, in this order: NotificationPipeline with NotificationPromise,
ChargeCollection with ChargeLedger, DailyTask with CoinDay, JobScheduler,
UserSessions, CouponClaim, ShareAccess, ChargeUpgrade, and the proofs of all of them.

Next modules, most important first:

1. `ChannelTest`: the test event and its late commit, as a further actor of the
   outbox; then the delivery stranded by reconciliation as a liveness question.
2. The videos of the daily task: watching and sharing as steps of their own.
3. `LoginSession`: QR sessions, polled by several requests.

Composition: the producers of the outbox (ChargeCollection, DailyTask,
CouponClaim) against the pipeline's `Store` and `Enqueue`, each shown to commit a
record and its event together; JobScheduler with one handler, so that expiry
reaches collection.

Further abstract specifications: a claim of the month for CouponClaim, in which the
answer of upstream and the record of it are one step. With `ChargeLedger` and
`NotificationPromise` the collection and the pipeline can be composed: the records that
the ledger announces are those the pipeline stores, and each is told once.
