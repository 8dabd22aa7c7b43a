----------------------------- MODULE DailyTask -----------------------------
(***************************************************************************)
(* The daily task of one account on one local day,                         *)
(* app/services/daily_task.py: runs, scheduled or manual, that donate      *)
(* coins up to a target, and the day's record that keeps them from doing   *)
(* it twice.                                                               *)
(*                                                                         *)
(* Runs are coroutines of one event loop; every action is the code between *)
(* two awaits.  A run inserts the day's record early and commits it when   *)
(* it ends, so its row is locked and invisible until then.  PostgreSQL.    *)
(* The watch and share tasks are reduced to whether one of them is done.   *)
(***************************************************************************)
EXTENDS Integers

CONSTANTS
    Runs,         \* dispatches of the DAILY_TASK job during the day
    Target,       \* profile.target_coins
    Protected,    \* profile.protected_coins
    MaxAttempts,  \* MAX_DONATE_ATTEMPTS (10)
    MaxTries,     \* attempts of _request_json (3)
    MaxBalance,   \* bound on the balance the account starts with
    NoRun

ASSUME DailyAssumption ==
    /\ Target \in Nat /\ Protected \in Nat /\ MaxBalance \in Nat
    /\ MaxAttempts \in Nat \ {0} /\ MaxTries \in Nat \ {0}
    /\ NoRun \notin Runs

VARIABLES
    rec,      \* the committed DailyTaskRecord of the day
    lock,     \* the run that has inserted a record it has not committed
    run,      \* run -> status of its JobRun
    work,     \* run -> local variables of the coroutine
    enabled,  \* profile.enabled
    active,   \* account.status is ACTIVE
    coins,    \* upstream: coins donated today
    balance,  \* upstream: coins left
    hung,     \* the event loop waits for a row lock
    lost      \* history: coins given by POSTs whose response was lost

vars == <<rec, lock, run, work, enabled, active, coins, balance, hung, lost>>
upstream == <<coins, balance, lost>>
settings == <<enabled, active>>

\* Mistaken variants, named after their mistake, precede the definition they
\* vary; they are not part of Spec.  Each is caught by a property below.
Record(s, n) == [st |-> s, coins |-> n]
Ended == [pc |-> "idle", need |-> 0, success |-> 0, attempts |-> 0, tries |-> 0, here |-> 0, other |-> FALSE]

Init ==
    /\ rec = Record("none", 0)
    /\ lock = NoRun
    /\ run = [r \in Runs |-> "none"]
    /\ work = [r \in Runs |-> Ended]
    /\ enabled \in BOOLEAN /\ active = TRUE
    /\ coins \in {0, 1}
    /\ balance \in 0..MaxBalance
    /\ hung = FALSE
    /\ lost = 0

Least(a, b) == IF a <= b THEN a ELSE b
At(r, pc) == ~hung /\ work[r].pc = pc
LockedByOther(r) == lock \notin {r, NoRun}

Move(r, w) == work' = [work EXCEPT ![r] = w]
End(r, status) == run' = [run EXCEPT ![r] = status] /\ Move(r, Ended)

\* A synchronous INSERT waits for the commit of a suspended coroutine of the
\* same thread.
Hang(r) == LockedByOther(r) /\ hung' = TRUE /\ UNCHANGED <<rec, lock, run, work, settings, upstream>>

-----------------------------------------------------------------------------
(* A run up to the insertion of the day's record.                          *)

Startable(r) == ~hung /\ active /\ run[r] = "none"

StartDisabledAnyway(r) ==
    /\ Startable(r) /\ ~enabled
    /\ rec' = Record("skipped", 0)
    /\ End(r, "skipped")
    /\ UNCHANGED <<lock, settings, upstream, hung>>

\* A disabled profile: the day is closed with a skipped record; if it has one
\* already the insertion fails and dispatch marks the run failed.
StartDisabled(r) ==
    /\ Startable(r) /\ ~enabled
    /\ \/ Hang(r)
       \/ /\ ~LockedByOther(r)
          /\ rec' = IF rec.st = "none" THEN Record("skipped", 0) ELSE rec
          /\ End(r, IF rec.st = "none" THEN "skipped" ELSE "failed")
          /\ UNCHANGED <<lock, settings, upstream, hung>>

\* Today's task is finished already.
StartFinished(r) ==
    /\ Startable(r) /\ enabled
    /\ rec.st \in {"success", "partial"}
    /\ End(r, "skipped")
    /\ UNCHANGED <<rec, lock, settings, upstream, hung>>

Start(r) ==
    /\ Startable(r) /\ enabled
    /\ rec.st \notin {"success", "partial"}
    /\ run' = [run EXCEPT ![r] = "running"]
    /\ Move(r, [work[r] EXCEPT !.pc = "reward"])
    /\ UNCHANGED <<rec, lock, settings, upstream, hung>>

InsertOverwriting(r) ==
    /\ At(r, "reward") /\ ~LockedByOther(r)
    /\ lock' = r
    /\ \E other \in BOOLEAN : Move(r, [work[r] EXCEPT !.pc = "exp", !.other = other])
    /\ UNCHANGED <<rec, run, settings, upstream, hung>>

\* The reward and nav answers are in: insert the record, or find that another
\* run has committed one.  (Then the watch and share tasks are attempted.)
Insert(r) ==
    /\ At(r, "reward")
    /\ \/ Hang(r)
       \/ /\ ~LockedByOther(r) /\ rec.st # "none"
          /\ End(r, "skipped")
          /\ UNCHANGED <<rec, lock, settings, upstream, hung>>
       \/ /\ ~LockedByOther(r) /\ rec.st = "none"
          /\ lock' = r
          /\ \E other \in BOOLEAN : Move(r, [work[r] EXCEPT !.pc = "exp", !.other = other])
          /\ UNCHANGED <<rec, run, settings, upstream, hung>>

-----------------------------------------------------------------------------
(* _donate_coins.                                                          *)

\* Nothing (more) to donate, for whatever reason.
GiveUp(r) ==
    /\ ~hung /\ work[r].pc \in {"exp", "balance", "pick"}
    /\ Move(r, [work[r] EXCEPT !.pc = "close"])
    /\ UNCHANGED <<rec, lock, run, settings, upstream, hung>>

ReadExpFromZero(r) ==
    /\ At(r, "exp") /\ Target > 0
    /\ Move(r, [work[r] EXCEPT !.pc = "balance", !.need = Target])
    /\ UNCHANGED <<rec, lock, run, settings, upstream, hung>>

\* Coins donated earlier today count.
ReadExp(r) ==
    /\ At(r, "exp") /\ Target > coins
    /\ Move(r, [work[r] EXCEPT !.pc = "balance", !.need = Target - coins])
    /\ UNCHANGED <<rec, lock, run, settings, upstream, hung>>

ReadBalanceAtLeast(r) ==
    /\ At(r, "balance") /\ balance > Protected
    /\ Move(r, [work[r] EXCEPT !.pc = "pick", !.need = Least(@, MaxAttempts)])
    /\ UNCHANGED <<rec, lock, run, settings, upstream, hung>>

ReadBalance(r) ==
    /\ At(r, "balance") /\ balance > Protected
    /\ Move(r, [work[r] EXCEPT !.pc = "pick", !.need = Least(Least(@, balance - Protected), MaxAttempts)])
    /\ UNCHANGED <<rec, lock, run, settings, upstream, hung>>

\* The next candidate video and the coins it has from this account; one with
\* two, or an unreadable one, only costs an attempt.
Pick(r) ==
    /\ At(r, "pick")
    /\ work[r].success < work[r].need /\ work[r].attempts < MaxAttempts
    /\ \/ Move(r, [work[r] EXCEPT !.attempts = @ + 1])
       \/ \E here \in {0, 1} :
            Move(r, [work[r] EXCEPT !.pc = "post", !.attempts = @ + 1, !.here = here, !.tries = 0])
    /\ UNCHANGED <<rec, lock, run, settings, upstream, hung>>

Posting(r) == At(r, "post") /\ work[r].tries < MaxTries

\* Upstream takes a coin: at most two per video.
Donated(r) ==
    /\ work[r].here < 2 /\ balance > 0
    /\ coins' = coins + 1
    /\ balance' = balance - 1

AcceptedCountingTwice(r) ==
    /\ Posting(r) /\ Donated(r)
    /\ Move(r, [work[r] EXCEPT !.pc = "pick", !.success = @ + 2])
    /\ UNCHANGED <<rec, lock, run, settings, hung, lost>>

Accepted(r) ==
    /\ Posting(r) /\ Donated(r)
    /\ Move(r, [work[r] EXCEPT !.pc = "pick", !.success = @ + 1])
    /\ UNCHANGED <<rec, lock, run, settings, hung, lost>>

\* A business code: some mean "another video", the others end the donating.
Rejected(r) ==
    /\ Posting(r)
    /\ \E next \in {"pick", "close"} : Move(r, [work[r] EXCEPT !.pc = next])
    /\ UNCHANGED <<rec, lock, run, settings, upstream, hung>>

\* The POST took effect but its response did not arrive: _request_json repeats
\* it, and raises after the last try.
Lost(r) ==
    /\ Posting(r) /\ Donated(r)
    /\ lost' = lost + 1
    /\ Move(r, [work[r] EXCEPT !.tries = @ + 1, !.here = @ + 1])
    /\ UNCHANGED <<rec, lock, run, settings, hung>>

-----------------------------------------------------------------------------
(* The end of a run.                                                       *)

\* The final balance has been read: record the results and commit.
Complete(r) ==
    /\ At(r, "close")
    /\ LET completed == work[r].other \/ work[r].success > 0 IN
        /\ rec' = Record(IF completed THEN "success" ELSE "partial", work[r].success)
        /\ End(r, IF completed THEN "succeeded" ELSE "partial_success")
    /\ lock' = NoRun
    /\ UNCHANGED <<settings, upstream, hung>>

\* A request raises or the task is cancelled: the record is committed as it
\* was inserted.  An authentication error also expires the account.
Fail(r) ==
    /\ ~hung /\ work[r].pc # "idle"
    /\ rec' = IF lock = r THEN Record("running", 0) ELSE rec
    /\ lock' = IF lock = r THEN NoRun ELSE lock
    /\ End(r, "failed")
    /\ active' \in {active, FALSE}
    /\ UNCHANGED <<enabled, upstream, hung>>

\* The process dies and starts again: open transactions are lost and
\* recover_interrupted_runs fails the runs.
Restart ==
    /\ \E r \in Runs : work[r].pc # "idle"
    /\ lock' = NoRun /\ hung' = FALSE
    /\ run' = [r \in Runs |-> IF run[r] = "running" THEN "failed" ELSE run[r]]
    /\ work' = [r \in Runs |-> Ended]
    /\ UNCHANGED <<rec, settings, upstream>>

\* PUT /daily-task, from the thread pool.
UpdateProfile == enabled' = ~enabled /\ UNCHANGED <<rec, lock, run, work, active, upstream, hung>>

\* Another QR login.
Rebind == ~hung /\ ~active /\ active' = TRUE
          /\ UNCHANGED <<rec, lock, run, work, enabled, upstream, hung>>

Next ==
    \/ \E r \in Runs :
        \/ StartDisabled(r) \/ StartFinished(r) \/ Start(r) \/ Insert(r)
        \/ GiveUp(r) \/ ReadExp(r) \/ ReadBalance(r) \/ Pick(r)
        \/ Accepted(r) \/ Rejected(r) \/ Lost(r)
        \/ Complete(r) \/ Fail(r)
    \/ Restart \/ UpdateProfile \/ Rebind

Spec == Init /\ [][Next]_vars

(***************************************************************************)
(* Properties.                                                             *)
(***************************************************************************)

Works == [pc : {"idle", "reward", "exp", "balance", "pick", "post", "close"}, need : Nat, success : Nat,
          attempts : 0..MaxAttempts, tries : 0..MaxTries, here : 0..2, other : BOOLEAN]

\* Every variable keeps its type.
TypeOK ==
    /\ rec \in [st : {"none", "skipped", "running", "success", "partial"}, coins : Nat]
    /\ lock \in Runs \cup {NoRun}
    /\ run \in [Runs -> {"none", "running", "succeeded", "partial_success", "skipped", "failed"}]
    /\ work \in [Runs -> Works]
    /\ enabled \in BOOLEAN /\ active \in BOOLEAN /\ hung \in BOOLEAN
    /\ coins \in Nat /\ balance \in Nat /\ lost \in Nat

\* One run at a time works on the day, and only while the day is open: its
\* uncommitted record keeps the others out.
Donating == {"exp", "balance", "pick", "post", "close"}
OneAtATime ==
    \A r \in Runs : /\ work[r].pc \in Donating <=> lock = r /\ rec.st = "none"
                    /\ lock = r => rec.st = "none"
                    /\ run[r] = "running" <=> work[r].pc # "idle"

\* What a run still intends to give fits into the day's target and leaves the
\* protected coins alone, at every await, but for the coins of lost responses.
Fits(w) == LET rest == w.need - w.success IN
    /\ w.pc \in {"idle", "reward", "exp", "balance"} => w.success = 0
    /\ w.pc = "balance" => coins + rest <= Target + lost
    /\ w.pc \in {"pick", "post"} =>
            rest >= 0 /\ coins + rest <= Target + lost /\ Protected + rest <= balance + lost
    /\ w.pc = "post" => rest > 0
Allowance == \A r \in Runs : Fits(work[r])

\* _donate_coins "up to target_coins coins": no run donates beyond the target of
\* the day, whatever earlier runs gave before they failed, were cancelled or
\* died with the process; a lost response costs one coin and no more.
WithinTargetButLost == [][coins' > coins => coins' <= Target + lost']_vars

\* _donate_coins "with balance protections": likewise, donating never takes the
\* balance below the protected number of coins.
ProtectedButLost == [][balance' < balance => balance' + lost' >= Protected]_vars

\* README "deduplicated per day": once the day's record is closed, in whatever
\* way, it is never rewritten and no coin is donated any more that day.
DayClosedOnce == [][rec.st # "none" => rec' = rec /\ coins' = coins]_vars

\* The audit trail never claims a coin that was not given.
AuditNeverOverstates == rec.coins <= coins

\* What the present plan of CoinDay has still to give: the rest of the run that
\* holds the day, once it has read the balance.
Planned == IF lock # NoRun /\ work[lock].pc \in {"pick", "post"} THEN work[lock].need - work[lock].success ELSE 0
Day == INSTANCE CoinDay WITH Target <- Target, Protected <- Protected,
    given <- coins, left <- balance, excess <- lost,
    planned <- Planned, closed <- rec.st # "none", claimed <- rec.coins

\* What _donate_coins computes from today's experience and the balance is one
\* plan at a time: made within the target and above the protected coins, given
\* coin by coin, dropped by failures and restarts, and ended by the one record
\* that closes the day.
DayKept == Day!Spec
=============================================================================
