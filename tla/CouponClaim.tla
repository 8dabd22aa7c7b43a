---------------------------- MODULE CouponClaim ----------------------------
(***************************************************************************)
(* A Bilibili account, its logins and its monthly coupon (services/        *)
(* coupon.py, routers/coupons.py, the login half of routers/accounts.py,   *)
(* BilibiliClient.claim_coupon).                                           *)
(*                                                                         *)
(* A claim reads the account and the month's result, commits its run as    *)
(* RUNNING, waits for Bilibili and then writes everything in one step.     *)
(* Claims of the job, of "run now" and of the endpoint may overlap.  The   *)
(* answer is given at one moment (Upstream) and arrives at another         *)
(* (Record, Refused), so that answers overtake each other and a login may  *)
(* renew the cookie in between.                                            *)
(*                                                                         *)
(* One user and one account.  Cookies are numbered in the order in which   *)
(* Bilibili hands them out.  The jobs a login makes share their fate here: *)
(* "job" is the one for the coupon.  The events that announce a result go  *)
(* to the outbox in the step that stores it; only the one about the login  *)
(* is kept here.                                                           *)
(***************************************************************************)
EXTENDS Naturals

CONSTANTS
    Claims,      \* claim requests, each with the run it writes
    MaxLogins,   \* bound on the cookies handed out
    MaxMonth,    \* bound on the months that pass
    None

VARIABLES
    account,   \* row of the account, or None
    job,       \* its coupon job: "none", "on", "off"
    live,      \* cookies Bilibili accepts
    claim,     \* request -> what it has read and been told, or None
    run,       \* request -> status of its last run
    row,       \* month -> status of the stored result, or None
    told,      \* the outbox holds the event cookie:{account}
    granted,   \* months whose coupon Bilibili has given out
    month      \* current month

vars == <<account, job, live, claim, run, row, told, granted, month>>

Months == 1..MaxMonth
Cookies == 1..MaxLogins
\* raced: the account was found expired with a cookie that a login had already
\* replaced.  It serves the properties only.
Account == [status : {"active", "expired"}, cookie : Cookies, raced : BOOLEAN]

Final == {"success", "already_claimed"}
Results == Final \cup {"ineligible", "error"}
Answers == Results \cup {"auth"}
\* seen, was: status of the result and of the account when they were read.
Claim == [direct : BOOLEAN, month : Months, seen : Results \cup {None},
          was : {"active", "expired"}, cookie : Cookies, answer : Answers \cup {None}]
RunStatus == {"none", "running", "succeeded", "failed", "skipped"}

ASSUME ClaimAssumption ==
    /\ MaxMonth \in Nat \ {0} /\ MaxLogins \in Nat
    /\ None \notin Claim /\ None \notin Account /\ None \notin Answers

TypeOK ==
    /\ account \in Account \cup {None}
    /\ job \in {"none", "on", "off"}
    /\ live \subseteq Cookies
    /\ claim \in [Claims -> Claim \cup {None}]
    /\ run \in [Claims -> RunStatus]
    /\ row \in [Months -> Results \cup {None}]
    /\ told \in BOOLEAN
    /\ granted \subseteq Months /\ month \in Months

Init ==
    /\ account = None /\ job = "none" /\ live = {}
    /\ claim = [c \in Claims |-> None]
    /\ run = [c \in Claims |-> "none"]
    /\ row = [m \in Months |-> None]
    /\ told = FALSE /\ granted = {} /\ month = 1

Bound == account # None

-----------------------------------------------------------------------------
(* The account.                                                            *)

\* The next number: cookies are used one after the other.
NextCookie == IF Bound THEN account.cookie + 1 ELSE 1

LoginStillExpired ==
    /\ NextCookie \in Cookies /\ live' = live \cup {NextCookie}
    /\ account' = [status |-> IF Bound THEN account.status ELSE "active",
                   cookie |-> NextCookie, raced |-> FALSE]
    /\ job' = IF job = "none" THEN "on" ELSE job
    /\ UNCHANGED <<claim, run, row, told, granted, month>>

\* A poll of a QR session that Bilibili answers with a login: one step up to
\* its commit.  Jobs that are there are left as they are.
Login ==
    /\ NextCookie \in Cookies /\ live' = live \cup {NextCookie}
    /\ account' = [status |-> "active", cookie |-> NextCookie, raced |-> FALSE]
    /\ job' = IF job = "none" THEN "on" ELSE job
    /\ UNCHANGED <<claim, run, row, told, granted, month>>

\* Bilibili stops accepting a cookie.
CookieDies == \E cookie \in live :
    /\ live' = live \ {cookie}
    /\ UNCHANGED <<account, job, claim, run, row, told, granted, month>>

\* The owner switches, deletes or makes the job.
SetJob == \E state \in {"none", "on", "off"} :
    /\ Bound /\ job # state /\ job' = state
    /\ UNCHANGED <<account, live, claim, run, row, told, granted, month>>

-----------------------------------------------------------------------------
(* The start of a claim.                                                   *)

Asks(c, direct) ==
    /\ run' = [run EXCEPT ![c] = "running"]
    /\ claim' = [claim EXCEPT ![c] =
         [direct |-> direct, month |-> month, seen |-> row[month],
          was |-> account.status, cookie |-> account.cookie, answer |-> None]]
Skips(c) == run' = [run EXCEPT ![c] = "skipped"] /\ UNCHANGED claim

BeginAlways(c, direct) ==
    /\ Bound /\ claim[c] = None /\ run[c] # "running"
    /\ Asks(c, direct)
    /\ UNCHANGED <<account, job, live, row, told, granted, month>>

\* A month whose result is final is not asked for again.
Begin(c, direct) ==
    /\ Bound /\ claim[c] = None /\ run[c] # "running"
    /\ IF row[month] \in Final THEN Skips(c) ELSE Asks(c, direct)
    /\ UNCHANGED <<account, job, live, row, told, granted, month>>

\* POST /accounts/{id}/coupon-claim, whatever the account's status.
ClaimNow(c) == Begin(c, TRUE)

\* SchedulerManager.dispatch, by the job's timer or by "run now".
Dispatch(c) == Bound /\ account.status = "active" /\ job = "on" /\ Begin(c, FALSE)

-----------------------------------------------------------------------------
(* Bilibili.                                                               *)

Asking(c) == claim[c] # None /\ claim[c].answer = None
Accepted(c) == claim[c].cookie \in live

\* It answers for the month it is then.
Upstream(c) == \E answer \in Answers :
    /\ Asking(c)
    /\ IF Accepted(c)
       THEN answer # "auth" /\ (answer = "already_claimed" <=> month \in granted)
       ELSE answer = "auth"
    /\ claim' = [claim EXCEPT ![c].answer = answer]
    /\ granted' = IF answer = "success" THEN granted \cup {month} ELSE granted
    /\ UNCHANGED <<account, job, live, run, row, told, month>>

\* It gives the coupon and its answer is lost; _request_json asks again.
AnswerLost(c) ==
    /\ Asking(c) /\ Accepted(c) /\ month \notin granted
    /\ granted' = granted \cup {month}
    /\ UNCHANGED <<account, job, live, claim, run, row, told, month>>

-----------------------------------------------------------------------------
(* The end of a claim.                                                     *)

Answered(c, answers) == claim[c] # None /\ claim[c].answer \in answers
Ends(c, status) ==
    /\ claim' = [claim EXCEPT ![c] = None]
    /\ run' = [run EXCEPT ![c] = status]

\* The claim read no result and would INSERT one that is there by now.
Conflict(c) == claim[c].seen = None /\ row[claim[c].month] # None

RecordThisMonth(c) ==
    /\ Answered(c, Results) /\ ~Conflict(c)
    /\ row' = [row EXCEPT ![month] = claim[c].answer]
    /\ Ends(c, IF claim[c].answer = "error" THEN "failed" ELSE "succeeded")
    /\ UNCHANGED <<account, job, live, told, granted, month>>

\* The month is the one the claim began in.  A status equal to the one that was
\* read is not written again.
Record(c) ==
    /\ Answered(c, Results) /\ ~Conflict(c)
    /\ LET m == claim[c].month  status == claim[c].answer
       IN  /\ row' = [row EXCEPT ![m] = IF status = claim[c].seen THEN @ ELSE status]
           /\ Ends(c, IF status = "error" THEN "failed" ELSE "succeeded")
    /\ UNCHANGED <<account, job, live, told, granted, month>>

\* The flush fails, and with it the commit that was to end the run; only
\* dispatch then marks the run as failed.
RecordFails(c) ==
    /\ Answered(c, Results) /\ Conflict(c)
    /\ Ends(c, IF claim[c].direct THEN "running" ELSE "failed")
    /\ UNCHANGED <<account, job, live, row, told, granted, month>>

\* The account expires, unless it had when it was read, and its jobs are
\* switched off.
Refused(c) ==
    /\ Answered(c, {"auth"})
    /\ account' = IF claim[c].was = "expired" THEN account
                  ELSE [account EXCEPT !.status = "expired",
                                       !.raced = claim[c].cookie # account.cookie]
    /\ job' = IF job = "on" THEN "off" ELSE job
    /\ told' = TRUE
    /\ Ends(c, "failed")
    /\ UNCHANGED <<live, row, granted, month>>

\* No usable answer after three attempts.
ClaimFails(c) ==
    /\ Asking(c) /\ Ends(c, "failed")
    /\ UNCHANGED <<account, job, live, row, told, granted, month>>

-----------------------------------------------------------------------------
(* The rest of the system.                                                 *)

\* A claim takes a minute or so: none lasts into a second month.
NextMonth ==
    /\ month < MaxMonth /\ month' = month + 1
    /\ \A c \in Claims : claim[c] # None => claim[c].month = month
    /\ UNCHANGED <<account, job, live, claim, run, row, told, granted>>

\* A restart ends every request; its start fails the runs it finds.
Restart ==
    /\ claim' = [c \in Claims |-> None]
    /\ run' = [c \in Claims |-> IF run[c] = "running" THEN "failed" ELSE run[c]]
    /\ UNCHANGED <<account, job, live, row, told, granted, month>>

\* cleanup_expired, six hours after the start of a run that nothing ended.
CleanupRun(c) ==
    /\ claim[c] = None /\ run[c] = "running" /\ run' = [run EXCEPT ![c] = "failed"]
    /\ UNCHANGED <<account, job, live, claim, row, told, granted, month>>

Next ==
    \/ Login \/ CookieDies \/ SetJob \/ NextMonth \/ Restart
    \/ \E c \in Claims :
          \/ ClaimNow(c) \/ Dispatch(c) \/ Upstream(c) \/ AnswerLost(c)
          \/ Record(c) \/ RecordFails(c) \/ Refused(c) \/ ClaimFails(c) \/ CleanupRun(c)

Spec == Init /\ [][Next]_vars

-----------------------------------------------------------------------------
(* Properties.                                                             *)

\* FinalIsGranted: a month is recorded as claimed only when Bilibili has given
\* out its coupon, or the one of the next month to a claim that was under way
\* when the month changed.
FinalIsGranted == \A m \in Months : row[m] \in Final => granted \cap {m, m + 1} # {}

\* FinalStays: a result that says the coupon is there is replaced only by a
\* claim that had read the result before, and was under way since.
FinalStays == [][\A m \in Months :
    row[m] \in Final /\ row'[m] # row[m] =>
      \E c \in Claims : /\ claim[c] # None /\ claim'[c] = None
                        /\ claim[c].month = m /\ claim[c].seen \notin Final]_vars

\* ExpiredForCause: an account is marked expired only while Bilibili refuses its
\* cookie, or when a login had renewed the cookie under a claim that was refused
\* with the old one; and its owner has been told.
ExpiredForCause ==
    Bound /\ account.status = "expired" =>
        (account.cookie \in live => account.raced) /\ told
=============================================================================
