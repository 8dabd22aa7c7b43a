-------------------------- MODULE ChargeCollection --------------------------
(***************************************************************************)
(* Collection of one account's charge records, app/services/collection.py: *)
(* a run pages through the upstream list, newest charge first, inserts the *)
(* records it does not have and advances the account's watermark when it   *)
(* ends well.  A record charged after the watermark the run started from   *)
(* is notification_eligible, and its event is inserted with it.            *)
(*                                                                         *)
(* Runs are coroutines: between two pages anything else may happen, other  *)
(* runs of the account and new charges included.  What a run has inserted  *)
(* is committed when it ends, however it ends, but not if the process dies.*)
(*                                                                         *)
(* Charges are numbered in the order in which upstream lists them, which   *)
(* is the order of Time.  A watermark of 0 stands for None.                *)
(***************************************************************************)
EXTENDS Integers, FiniteSets

CONSTANTS
    N,          \* number of charges that ever happen
    Time,       \* charge -> charged_at
    Malformed,  \* charges build_charge_record cannot parse
    Runs,       \* collection runs: the scheduled one and manual ones
    PageSize,   \* PAGE_SIZE (50)
    MaxPages,   \* MAX_PAGES (100)
    Free        \* the lock of the account is free

Charges == 1..N

ASSUME ChargesAssumption ==
    /\ N \in Nat
    /\ Time \in [Charges -> Nat \ {0}]
    /\ \A c, d \in Charges : c <= d => Time[c] <= Time[d]
    /\ Malformed \subseteq Charges

ASSUME LimitsAssumption ==
    /\ PageSize \in Nat \ {0} /\ MaxPages \in Nat \ {0}
    /\ Free \notin Runs

VARIABLES
    visible,    \* number of charges upstream shows
    stored,     \* charges with a committed record
    eligible,   \* those of them that are notification_eligible, with their event
    watermark,  \* collection_watermark_at
    active,     \* account.status is ACTIVE
    lock,       \* the run holding the account's asyncio lock
    scan,       \* run -> its position and what it has inserted
    baseline,   \* history: the number of charges at the first successful run's end
    atBind      \* history: the number of charges when the account was bound

vars == <<visible, stored, eligible, watermark, active, lock, scan, baseline, atBind>>

Idle == [page |-> 0, prev |-> 0, newest |-> 0, known |-> 0, got |-> {}]
NoBaseline == N + 1

Init ==
    /\ visible \in 0..N
    /\ atBind = visible
    /\ stored = {} /\ eligible = {}
    /\ watermark = 0
    /\ active = TRUE
    /\ lock = Free
    /\ scan = [r \in Runs |-> Idle]
    /\ baseline = NoBaseline

\* Mistaken variants, named after their mistake, precede the definition they
\* vary; they are not part of Spec.  Each is caught by a property below.

\* What upstream answers: the charges on a page, and whether there are more,
\* told by the total or, if the response has none, by a full page.
Items(p) == {c \in 1..visible : (p - 1) * PageSize <= visible - c /\ visible - c < p * PageSize}
More(p, total) == IF total THEN p * PageSize < visible ELSE Cardinality(Items(p)) >= PageSize

EligibleByNewest(r, c) == scan[r].prev # 0 /\ Time[c] > scan[r].newest
EligibleWithoutWatermark(r, c) == Time[c] > scan[r].prev
IsEligible(r, c) == scan[r].prev # 0 /\ Time[c] > scan[r].prev

\* The transaction of run r, with the records C, is committed.
Commit(r, C) ==
    /\ stored' = stored \cup C
    /\ eligible' = eligible \cup {c \in C : IsEligible(r, c)}

StartUnlocked(r) ==
    /\ scan[r] = Idle
    /\ lock' = r
    /\ scan' = [scan EXCEPT ![r] = [page |-> 1, prev |-> watermark, newest |-> watermark,
                                  known |-> 0, got |-> {}]]
    /\ UNCHANGED <<visible, stored, eligible, watermark, active, baseline, atBind>>

\* collect: a run that finds the account locked gives up without effect.
\* Scheduled runs also need an active account; manual ones do not.
Start(r) ==
    /\ scan[r] = Idle
    /\ lock = Free
    /\ lock' = r
    /\ scan' = [scan EXCEPT ![r] = [page |-> 1, prev |-> watermark, newest |-> watermark,
                                  known |-> 0, got |-> {}]]
    /\ UNCHANGED <<visible, stored, eligible, watermark, active, baseline, atBind>>

EndLocked(r) == lock' = lock /\ scan' = [scan EXCEPT ![r] = Idle]
End(r) == lock' = Free /\ scan' = [scan EXCEPT ![r] = Idle]

NewOn(r) == Items(scan[r].page) \ (stored \cup scan[r].got)
NewestOn(r) == LET seen == {scan[r].newest} \cup {Time[c] : c \in Items(scan[r].page)}
               IN  CHOOSE t \in seen : \A s \in seen : s <= t

KnownByRecords(r) == NewOn(r) = {} /\ scan[r].prev # 0 /\ Items(scan[r].page) # {}
\* A page without new record, none of it beyond the previous watermark.
Known(r) == /\ NewOn(r) = {}
            /\ scan[r].prev # 0 /\ Items(scan[r].page) # {}
            /\ \A c \in Items(scan[r].page) : Time[c] <= scan[r].prev
KnownPages(r) == IF Known(r) THEN scan[r].known + 1 ELSE 0

Stops(r, total) == ~More(scan[r].page, total) \/ KnownPages(r) >= 2 \/ scan[r].page = MaxPages

\* A page arrives and its items are parsed.
Parsed(r) == scan[r].page > 0 /\ Items(scan[r].page) \cap Malformed = {}

NextPage(r) ==
    /\ Parsed(r)
    /\ \E total \in BOOLEAN : ~Stops(r, total)
    /\ scan' = [scan EXCEPT ![r] = [page |-> scan[r].page + 1, prev |-> scan[r].prev, newest |-> NewestOn(r),
                                  known |-> KnownPages(r), got |-> scan[r].got \cup NewOn(r)]]
    /\ UNCHANGED <<visible, stored, eligible, watermark, active, lock, baseline, atBind>>

\* The last page: the run has succeeded.
Finish(r) ==
    /\ Parsed(r)
    /\ \E total \in BOOLEAN : Stops(r, total)
    /\ Commit(r, scan[r].got \cup NewOn(r))
    /\ watermark' = NewestOn(r)
    /\ baseline' = IF baseline = NoBaseline THEN visible ELSE baseline
    /\ End(r)
    /\ UNCHANGED <<visible, active, atBind>>

FailAndAdvance(r) ==
    /\ scan[r].page > 0
    /\ Commit(r, scan[r].got)
    /\ watermark' = scan[r].newest
    /\ End(r)
    /\ UNCHANGED <<visible, active, baseline, atBind>>

\* A request fails, or the task is cancelled by a shutdown: what was
\* inserted is kept, the watermark stays.
Fail(r) ==
    /\ scan[r].page > 0
    /\ Commit(r, scan[r].got)
    /\ End(r)
    /\ UNCHANGED <<visible, watermark, active, baseline, atBind>>

\* build_charge_record raises: the newer items of the page are kept as well.
Reject(r) ==
    /\ scan[r].page > 0
    /\ \E m \in Items(scan[r].page) \cap Malformed :
        /\ \A d \in Items(scan[r].page) \cap Malformed : d <= m
        /\ Commit(r, scan[r].got \cup {c \in NewOn(r) : c > m})
    /\ End(r)
    /\ UNCHANGED <<visible, watermark, active, baseline, atBind>>

\* Upstream rejects the cookie: the account expires.
AuthFail(r) ==
    /\ scan[r].page > 0
    /\ Commit(r, scan[r].got)
    /\ active' = FALSE
    /\ End(r)
    /\ UNCHANGED <<visible, watermark, baseline, atBind>>

\* Another QR login of the same Bilibili user.
Rebind ==
    /\ ~active
    /\ active' = TRUE
    /\ UNCHANGED <<visible, stored, eligible, watermark, lock, scan, baseline, atBind>>

\* The process dies: open transactions are lost.
Crash ==
    /\ lock # Free
    /\ lock' = Free
    /\ scan' = [r \in Runs |-> Idle]
    /\ UNCHANGED <<visible, stored, eligible, watermark, active, baseline, atBind>>

\* Somebody charges.
Charge ==
    /\ visible < N
    /\ visible' = visible + 1
    /\ UNCHANGED <<stored, eligible, watermark, active, lock, scan, baseline, atBind>>

Step(r) == NextPage(r) \/ Finish(r)

Next ==
    \/ \E r \in Runs : Start(r) \/ Step(r) \/ Fail(r) \/ Reject(r) \/ AuthFail(r)
    \/ Rebind \/ Crash \/ Charge

Spec == Init /\ [][Next]_vars

\* The collection job fires periodically, requests time out, and upstream does
\* not fail forever.
Fairness ==
    /\ \E r \in Runs : WF_vars(active /\ Start(r))
    /\ \A r \in Runs : WF_vars(Step(r))
    /\ <>[][~\E r \in Runs : Fail(r) \/ AuthFail(r)]_vars
    /\ <>[][~Crash]_vars
FairSpec == Spec /\ Fairness

(***************************************************************************)
(* Properties.                                                             *)
(***************************************************************************)

Positions == [page : Nat, prev : Nat, newest : Nat, known : 0..1, got : SUBSET Charges]

\* Every variable keeps its type.
TypeOK ==
    /\ visible \in 0..N /\ atBind \in 0..visible /\ baseline \in 0..NoBaseline
    /\ stored \subseteq Charges
    /\ eligible \subseteq stored
    /\ watermark \in Nat
    /\ active \in BOOLEAN
    /\ lock \in Runs \cup {Free}
    /\ scan \in [Runs -> Positions]

\* README "paging through all the charge records": whatever failed, crashed or
\* arrived meanwhile, nothing older than the watermark is missing.  This is what
\* lets a later run stop after two known pages.
NothingMissed == \A c \in 1..visible : Time[c] < watermark => c \in stored

\* README "only new records after the watermark enter the outbox": a charge made
\* after the first successful collection is never stored as silent history.  A
\* charge in the same second as its predecessor may be: `>` excludes it if a run
\* ended between the two.
NewIsNotified == \A c \in stored :
    c > baseline /\ baseline # NoBaseline /\ (c > 1 => Time[c - 1] < Time[c]) => c \in eligible

\* README "the first collection only establishes the historical baseline": a
\* charge older than the binding is never announced, however often the first
\* collections fail half-way.
HistoryIsSilent == \A c \in eligible : c > atBind

\* Overlapping or failing runs never move the watermark back.
WatermarkAdvances == [][watermark' >= watermark]_vars

\* LedgerKept: paging runs that overlap, fail and die implement the atomic steps
\* of ChargeLedger: each charge is decided on once, against a watermark that
\* has no unrecorded charge before it.
Ledger == INSTANCE ChargeLedger WITH
    made <- 1..visible, recorded <- stored, announced <- eligible, frontier <- watermark
LedgerKept == Ledger!Spec

\* A charge is eventually stored, unless the account expires or upstream lists
\* one that cannot be parsed.
Blocked == ~active \/ \E m \in Malformed : m <= visible
EventuallyCollected == \A c \in Charges : c <= visible ~> c \in stored \/ Blocked
=============================================================================
