---------------------- MODULE ChargeCollectionProofs ----------------------
(***************************************************************************)
(* Proofs about ChargeCollection, for any number of charges and runs and   *)
(* any size of a page.                                                     *)
(*                                                                         *)
(* Base needs no assumption beyond those of the model.  Whole, which says  *)
(* that the records below the watermark are complete, needs two:           *)
(* MAX_PAGES pages reach the oldest charge, and the charges of one second  *)
(* fit on one page and one charge more.                                    *)
(***************************************************************************)
EXTENDS ChargeCollection, FiniteSetTheorems, TLAPS

(* Pages.                                                                  *)

\* The number of charges on the pages before page p.
Before(p) == (p - 1) * PageSize

LEMMA PageAfterPage ==
    ASSUME NEW p \in Nat
    PROVE  Before(p) \in Int /\ Before(p + 1) = p * PageSize /\ p * PageSize = Before(p) + PageSize
BY LimitsAssumption, SMT DEF Before

LEMMA PageStart == ASSUME NEW p \in Nat \ {0} PROVE Before(p) \in Nat /\ Before(1) = 0
BY LimitsAssumption, SMT DEF Before

\* The newest charge of a page, if it has one.
LEMMA TopOfPage ==
    ASSUME TypeOK, NEW p \in Nat \ {0}
    PROVE  /\ Items(p) \subseteq 1..visible
           /\ Items(p) # {} => visible - Before(p) \in Items(p)
           /\ \A c \in Items(p) : c <= visible - Before(p)
<1>1. Before(p) \in Nat /\ PageSize \in Nat \ {0} /\ p * PageSize = Before(p) + PageSize
  BY PageAfterPage, PageStart, LimitsAssumption
<1>2. visible \in Nat
  BY ChargesAssumption DEF TypeOK
<1>3. Items(p) = {c \in 1..visible : Before(p) <= visible - c /\ visible - c < Before(p) + PageSize}
  BY <1>1 DEF Items, Before
<1> QED BY <1>1, <1>2, <1>3

\* Once TopOfPage is there, the newest second a run has seen.
LEMMA NewestIs ==
    ASSUME TypeOK, NEW r \in Runs, scan[r].page > 0
    PROVE  /\ NewestOn(r) \in {scan[r].newest} \cup {Time[c] : c \in Items(scan[r].page)}
           /\ NewestOn(r) \in Nat /\ NewestOn(r) >= scan[r].newest
           /\ \A c \in Items(scan[r].page) : Time[c] <= NewestOn(r)
<1> DEFINE p == scan[r].page
           top == visible - Before(p)
           seen == {scan[r].newest} \cup {Time[c] : c \in Items(p)}
<1>1. p \in Nat \ {0} /\ scan[r].newest \in Nat
  BY DEF TypeOK, Positions
<1>2. /\ Items(p) \subseteq 1..visible
      /\ Items(p) # {} => top \in Items(p)
      /\ \A c \in Items(p) : c <= top
  BY <1>1, TopOfPage
<1>3. visible \in 0..N /\ N \in Nat
  BY ChargesAssumption DEF TypeOK
<1>4. \A c \in Items(p) : c \in Charges /\ Time[c] \in Nat
  BY <1>2, <1>3, ChargesAssumption DEF Charges
<1>5. \E t \in seen : \A s \in seen : s <= t
  <2>1. CASE Items(p) = {}
    BY <2>1, <1>1
  <2>2. CASE Items(p) # {}
    <3>1. \A c \in Items(p) : Time[c] <= Time[top]
      BY <2>2, <1>2, <1>4, ChargesAssumption
    <3>2. CASE Time[top] <= scan[r].newest
      <4>1. \A c \in Items(p) : Time[c] <= scan[r].newest
        BY <3>1, <3>2, <1>1, <1>2, <1>4, <2>2
      <4> QED BY <4>1, <1>1
    <3>3. CASE ~(Time[top] <= scan[r].newest)
      <4>1. Time[top] \in seen /\ scan[r].newest <= Time[top]
        BY <3>3, <2>2, <1>1, <1>2, <1>4
      <4> QED BY <4>1, <3>1
    <3> QED BY <3>2, <3>3
  <2> QED BY <2>1, <2>2
<1>6. NewestOn(r) = CHOOSE t \in seen : \A s \in seen : s <= t
  BY DEF NewestOn
<1>7. NewestOn(r) \in seen /\ \A s \in seen : s <= NewestOn(r)
  BY <1>5, <1>6
<1> QED BY <1>1, <1>4, <1>7

-----------------------------------------------------------------------------
(* Base: one run at a time, from the present watermark.                    *)

\* A run at work holds the lock and knows the watermark; nobody else stores.
Locked == \A r \in Runs : scan[r].page > 0 =>
    /\ lock = r
    /\ scan[r].prev = watermark /\ scan[r].newest >= watermark
    /\ scan[r].got \cap stored = {}
Waiting == \A r \in Runs : scan[r].page = 0 => scan[r] = Idle
\* Records are of charges that have been made.
Real == stored \subseteq 1..visible /\ \A r \in Runs : scan[r].got \subseteq 1..visible
\* A watermark, and what is to become one, is past the charges of the binding.
Past == /\ watermark # 0 => \A c \in 1..atBind : Time[c] <= watermark
        /\ \A r \in Runs : scan[r].page > 1 => \A c \in 1..atBind : Time[c] <= scan[r].newest

Base == TypeOK /\ Locked /\ Waiting /\ Real /\ Past /\ HistoryIsSilent

LEMMA InitBase == Init => Base
<1> SUFFICES ASSUME Init PROVE Base
  OBVIOUS
<1> USE DEF Init, Idle, NoBaseline
<1>1. Idle \in Positions
  BY DEF Positions
<1>2. N \in Nat
  BY ChargesAssumption
<1>3. TypeOK
  BY <1>1, <1>2 DEF TypeOK, Charges
<1>4. Locked /\ Waiting /\ Real /\ Past /\ HistoryIsSilent
  BY DEF Locked, Waiting, Real, Past, HistoryIsSilent
<1> QED BY <1>3, <1>4 DEF Base

\* A run that ends leaves no run at work.
LEMMA EndIsQuiet ==
    ASSUME Base, NEW r \in Runs, scan[r].page > 0, End(r)
    PROVE  /\ lock' = Free /\ scan' \in [Runs -> Positions]
           /\ \A x \in Runs : scan'[x] = Idle
<1>1. Idle \in Positions
  BY DEF Positions, Idle
<1>2. scan \in [Runs -> Positions]
  BY DEF Base, TypeOK
<1>3. ASSUME NEW x \in Runs, x # r PROVE scan[x] = Idle
  <2>1. ~(scan[x].page > 0)
    BY <1>3 DEF Base, Locked
  <2>2. scan[x].page \in Nat
    BY <1>2 DEF Positions
  <2> QED BY <2>1, <2>2 DEF Base, Waiting
<1> QED BY <1>1, <1>2, <1>3 DEF End

LEMMA QuietIsLocked ==
    ASSUME \A x \in Runs : scan'[x] = Idle
    PROVE  /\ Locked' /\ Waiting'
           /\ \A x \in Runs : scan'[x].got = {} /\ ~(scan'[x].page > 1)
BY DEF Locked, Waiting, Idle

\* What a run stores is announced only if it is past the binding.
LEMMA CommitIsSilent ==
    ASSUME Base, NEW r \in Runs, scan[r].page > 0, NEW C \in SUBSET (1..visible), Commit(r, C),
           atBind' = atBind
    PROVE  HistoryIsSilent' /\ stored' \subseteq 1..visible /\ eligible' \subseteq stored'
<1>1. stored' \subseteq 1..visible /\ eligible' \subseteq stored'
  BY DEF Base, TypeOK, Real, Commit
<1>2. ASSUME NEW c \in C, IsEligible(r, c) PROVE c > atBind
  <2>1. watermark # 0 /\ Time[c] > watermark
    BY <1>2 DEF IsEligible, Base, Locked
  <2>2. c \in 1..visible /\ visible \in 0..N /\ atBind \in 0..visible /\ watermark \in Nat /\ N \in Nat
    BY ChargesAssumption DEF Base, TypeOK
  <2>3. CASE c \in 1..atBind
    <3>1. c \in Charges /\ Time[c] \in Nat
      BY <2>2, ChargesAssumption DEF Charges
    <3>2. Time[c] <= watermark
      BY <2>1, <2>3 DEF Base, Past
    <3> QED BY <2>1, <2>2, <3>1, <3>2
  <2> QED BY <2>2, <2>3
<1>3. \A c \in eligible' : c \in eligible \/ (c \in C /\ IsEligible(r, c))
  BY DEF Commit
<1> QED BY <1>1, <1>2, <1>3 DEF Base, HistoryIsSilent

\* A run that ends by storing C and moving the watermark forward.
LEMMA EndKeepsBase ==
    ASSUME Base, NEW r \in Runs, scan[r].page > 0, NEW C \in SUBSET (1..visible), Commit(r, C), End(r),
           visible' = visible, atBind' = atBind, active' \in BOOLEAN, baseline' \in 0..NoBaseline,
           watermark' \in Nat, watermark' >= watermark,
           watermark' # 0 => \A c \in 1..atBind : Time[c] <= watermark'
    PROVE  Base'
<1>1. /\ lock' = Free /\ scan' \in [Runs -> Positions]
      /\ \A x \in Runs : scan'[x] = Idle
  BY EndIsQuiet
<1>2. /\ Locked' /\ Waiting'
      /\ \A x \in Runs : scan'[x].got = {} /\ ~(scan'[x].page > 1)
  BY <1>1, QuietIsLocked
<1>3. HistoryIsSilent' /\ stored' \subseteq 1..visible /\ eligible' \subseteq stored'
  BY CommitIsSilent
<1>4. 1..visible \subseteq Charges
  BY ChargesAssumption DEF Base, TypeOK, Charges
<1>5. TypeOK'
  BY <1>1, <1>3, <1>4 DEF Base, TypeOK, NoBaseline
<1>6. Real'
  BY <1>2, <1>3 DEF Real
<1>7. Past'
  BY <1>2 DEF Past
<1> QED BY <1>2, <1>3, <1>5, <1>6, <1>7 DEF Base

\* An end that keeps the watermark.
LEMMA StopKeepsBase ==
    ASSUME Base, NEW r \in Runs, scan[r].page > 0, NEW C \in SUBSET (1..visible), Commit(r, C), End(r),
           visible' = visible, atBind' = atBind, active' \in BOOLEAN, baseline' = baseline,
           watermark' = watermark
    PROVE  Base'
<1>1. watermark \in Nat /\ baseline \in 0..NoBaseline
  BY DEF Base, TypeOK
<1>2. watermark # 0 => \A c \in 1..atBind : Time[c] <= watermark
  BY DEF Base, Past
<1> QED BY <1>1, <1>2, EndKeepsBase

\* The newest second a run has seen is past the charges of the binding.
LEMMA NewestIsPast ==
    ASSUME Base, NEW r \in Runs, scan[r].page > 0
    PROVE  /\ NewestOn(r) \in Nat /\ NewestOn(r) >= watermark
           /\ \A c \in 1..atBind : Time[c] <= NewestOn(r)
           /\ NewOn(r) \subseteq 1..visible
<1> DEFINE p == scan[r].page
<1>1. /\ p \in Nat \ {0} /\ scan[r].newest \in Nat /\ watermark \in Nat
      /\ visible \in 0..N /\ atBind \in 0..visible /\ N \in Nat
  BY ChargesAssumption DEF Base, TypeOK, Positions
<1>2. /\ NewestOn(r) \in Nat /\ NewestOn(r) >= scan[r].newest
      /\ \A c \in Items(p) : Time[c] <= NewestOn(r)
  BY NewestIs DEF Base
<1>3. scan[r].newest >= watermark
  BY DEF Base, Locked
<1>4. Items(p) \subseteq 1..visible
  BY <1>1, TopOfPage DEF Base
<1>5. ASSUME NEW c \in 1..atBind PROVE Time[c] <= NewestOn(r)
  <2>1. c \in Charges /\ Time[c] \in Nat /\ visible \in Charges /\ Time[visible] \in Nat /\ c <= visible
    BY <1>1, <1>5, ChargesAssumption DEF Charges
  <2>2. CASE p > 1
    <3>1. Time[c] <= scan[r].newest
      BY <2>2, <1>5 DEF Base, Past
    <3> QED BY <3>1, <1>1, <1>2, <2>1
  <2>3. CASE p = 1
    <3>1. visible \in Items(p)
      BY <2>1, <2>3, <1>1, LimitsAssumption DEF Items
    <3>2. Time[c] <= Time[visible]
      BY <2>1, ChargesAssumption
    <3> QED BY <3>1, <3>2, <1>2, <2>1
  <2> QED BY <2>2, <2>3, <1>1
<1> QED BY <1>1, <1>2, <1>3, <1>4, <1>5 DEF NewOn

\* Steps that leave the records, the watermark and the runs alone.
LEMMA AsideKeepsBase ==
    ASSUME Base, UNCHANGED <<stored, eligible, watermark, lock, scan, baseline, atBind>>,
           visible' \in visible..N, active' \in BOOLEAN
    PROVE  Base'
<1>1. visible \in 0..N /\ atBind \in 0..visible /\ N \in Nat
  BY ChargesAssumption DEF Base, TypeOK
<1>2. visible' \in 0..N /\ atBind \in 0..visible' /\ 1..visible \subseteq 1..visible'
  BY <1>1
<1>3. TypeOK'
  BY <1>2 DEF Base, TypeOK, NoBaseline
<1>4. Locked' /\ Waiting' /\ Past' /\ HistoryIsSilent'
  BY DEF Base, Locked, Waiting, Past, HistoryIsSilent
<1>5. Real'
  BY <1>2 DEF Base, Real
<1> QED BY <1>3, <1>4, <1>5 DEF Base

LEMMA StartKeepsBase == ASSUME Base, NEW r \in Runs, Start(r) PROVE Base'
<1> DEFINE new == [page |-> 1, prev |-> watermark, newest |-> watermark, known |-> 0, got |-> {}]
<1>1. /\ scan \in [Runs -> Positions] /\ watermark \in Nat /\ Free \notin Runs
      /\ UNCHANGED <<visible, stored, eligible, watermark, active, baseline, atBind>>
      /\ lock = Free /\ lock' = r /\ scan' = [scan EXCEPT ![r] = new]
  BY LimitsAssumption DEF Start, Base, TypeOK
<1>2. /\ new \in Positions /\ new.page = 1 /\ new.prev = watermark /\ new.newest = watermark
      /\ new.got = {}
  BY <1>1 DEF Positions
<1> HIDE DEF new
<1>3. TypeOK'
  BY <1>1, <1>2 DEF Base, TypeOK, NoBaseline
<1>4. \A x \in Runs : scan[x].page = 0
  BY <1>1 DEF Base, Locked, Positions
<1>5. Locked' /\ Waiting'
  BY <1>1, <1>2, <1>4 DEF Base, Locked, Waiting
<1>6. Real' /\ Past' /\ HistoryIsSilent'
  BY <1>1, <1>2 DEF Base, Real, Past, HistoryIsSilent
<1> QED BY <1>3, <1>5, <1>6 DEF Base

LEMMA NextPageKeepsBase == ASSUME Base, NEW r \in Runs, NextPage(r) PROVE Base'
<1> DEFINE new == [page |-> scan[r].page + 1, prev |-> scan[r].prev, newest |-> NewestOn(r),
                   known |-> KnownPages(r), got |-> scan[r].got \cup NewOn(r)]
<1>1. /\ scan \in [Runs -> Positions] /\ scan[r].page > 0
      /\ UNCHANGED <<visible, stored, eligible, watermark, active, lock, baseline, atBind>>
      /\ scan' = [scan EXCEPT ![r] = new] /\ KnownPages(r) \in 0..1
  <2>1. scan \in [Runs -> Positions]
    BY DEF Base, TypeOK
  <2>2. ~(KnownPages(r) >= 2) /\ scan[r].page > 0
    BY DEF NextPage, Stops, Parsed
  <2>3. scan[r].known \in 0..1
    BY <2>1 DEF Positions
  <2>4. KnownPages(r) \in 0..1
    BY <2>2, <2>3 DEF KnownPages
  <2>5. scan' = [scan EXCEPT ![r] = new]
    BY <2>1 DEF NextPage
  <2> QED BY <2>1, <2>2, <2>4, <2>5 DEF NextPage
<1>2. /\ NewestOn(r) \in Nat /\ NewestOn(r) >= watermark
      /\ \A c \in 1..atBind : Time[c] <= NewestOn(r)
      /\ NewOn(r) \subseteq 1..visible /\ NewOn(r) \cap stored = {}
  BY <1>1, NewestIsPast DEF NewOn
<1>3. 1..visible \subseteq Charges
  BY ChargesAssumption DEF Base, TypeOK, Charges
<1>4. /\ new \in Positions /\ new.page > 0 /\ new.prev = scan[r].prev /\ new.newest = NewestOn(r)
      /\ new.got = scan[r].got \cup NewOn(r)
  <2>1. scan[r] \in Positions
    BY <1>1
  <2> QED BY <1>1, <1>2, <1>3, <2>1 DEF Positions
<1> HIDE DEF new
<1>5. TypeOK'
  BY <1>1, <1>4 DEF Base, TypeOK, NoBaseline
<1>6. Locked' /\ Waiting'
  BY <1>1, <1>2, <1>4 DEF Base, Locked, Waiting
<1>7. Real' /\ Past' /\ HistoryIsSilent'
  BY <1>1, <1>2, <1>4 DEF Base, Real, Past, HistoryIsSilent
<1> QED BY <1>5, <1>6, <1>7 DEF Base

LEMMA FinishKeepsBase == ASSUME Base, NEW r \in Runs, Finish(r) PROVE Base'
<1>1. /\ NewestOn(r) \in Nat /\ NewestOn(r) >= watermark
      /\ \A c \in 1..atBind : Time[c] <= NewestOn(r)
      /\ scan[r].got \cup NewOn(r) \subseteq 1..visible
  BY NewestIsPast DEF Finish, Parsed, Base, Real
<1>2. baseline' \in 0..NoBaseline
  BY ChargesAssumption DEF Finish, Base, TypeOK, NoBaseline
<1> QED BY <1>1, <1>2, EndKeepsBase DEF Finish, Parsed, Base, TypeOK

LEMMA CrashKeepsBase == ASSUME Base, Crash PROVE Base'
<1>1. Idle \in Positions
  BY DEF Positions, Idle
<1>2. \A x \in Runs : scan'[x] = Idle
  BY DEF Crash
<1>3. TypeOK'
  BY <1>1 DEF Base, TypeOK, Crash, NoBaseline
<1>4. /\ Locked' /\ Waiting'
      /\ \A x \in Runs : scan'[x].got = {} /\ ~(scan'[x].page > 1)
  BY <1>2, QuietIsLocked
<1>5. Real' /\ Past' /\ HistoryIsSilent'
  BY <1>4 DEF Base, Real, Past, HistoryIsSilent, Crash
<1> QED BY <1>3, <1>4, <1>5 DEF Base

\* What the ends of a run without success store.
LEMMA StopsKeepBase ==
    ASSUME Base, NEW r \in Runs
    PROVE  /\ Fail(r) => Base'
           /\ Reject(r) => Base'
           /\ AuthFail(r) => Base'
<1>1. scan[r].got \subseteq 1..visible /\ active \in BOOLEAN
  BY DEF Base, Real, TypeOK
<1>2. ASSUME Fail(r) PROVE Base'
  BY <1>1, <1>2, StopKeepsBase DEF Fail
<1>3. ASSUME Reject(r) PROVE Base'
  <2>1. PICK m \in Items(scan[r].page) \cap Malformed :
           Commit(r, scan[r].got \cup {c \in NewOn(r) : c > m})
    BY <1>3 DEF Reject
  <2>2. scan[r].page > 0
    BY <1>3 DEF Reject
  <2>3. scan[r].got \cup {c \in NewOn(r) : c > m} \in SUBSET (1..visible)
    BY <1>1, <2>2, NewestIsPast
  <2> QED BY <1>1, <1>3, <2>1, <2>2, <2>3, StopKeepsBase DEF Reject
<1>4. ASSUME AuthFail(r) PROVE Base'
  BY <1>1, <1>4, StopKeepsBase DEF AuthFail
<1> QED BY <1>2, <1>3, <1>4

LEMMA StutterKeepsBase == ASSUME Base, UNCHANGED vars PROVE Base'
BY DEF vars, Base, TypeOK, NoBaseline, Locked, Waiting, Real, Past, HistoryIsSilent

LEMMA NextKeepsBase == Base /\ [Next]_vars => Base'
<1> SUFFICES ASSUME Base, [Next]_vars PROVE Base'
  OBVIOUS
<1>1. ASSUME NEW r \in Runs, Start(r) PROVE Base'
  BY <1>1, StartKeepsBase
<1>2. ASSUME NEW r \in Runs, Step(r) PROVE Base'
  BY <1>2, NextPageKeepsBase, FinishKeepsBase DEF Step
<1>3. ASSUME NEW r \in Runs, Fail(r) \/ Reject(r) \/ AuthFail(r) PROVE Base'
  BY <1>3, StopsKeepBase
<1>4. CASE Rebind
  BY <1>4, AsideKeepsBase, ChargesAssumption DEF Rebind, Base, TypeOK
<1>5. CASE Crash
  BY <1>5, CrashKeepsBase
<1>6. CASE Charge
  BY <1>6, AsideKeepsBase, ChargesAssumption DEF Charge, Base, TypeOK
<1>7. CASE UNCHANGED vars
  BY <1>7, StutterKeepsBase
<1> QED BY <1>1, <1>2, <1>3, <1>4, <1>5, <1>6, <1>7 DEF Next

LEMMA AlwaysBase == Spec => []Base
BY InitBase, NextKeepsBase, PTL DEF Spec

\* The variables of a collection keep their types.
THEOREM CollectionTyped == Spec => []TypeOK
<1>1. Base => TypeOK
  BY DEF Base
<1> QED BY <1>1, AlwaysBase, PTL

\* A charge older than the binding is never announced, although the first
\* collections may fail half-way and keep what they inserted.
THEOREM BindingIsSilent == Spec => []HistoryIsSilent
<1>1. Base => HistoryIsSilent
  BY DEF Base
<1> QED BY <1>1, AlwaysBase, PTL

\* Overlapping, failing and dying runs never move the watermark back.
THEOREM WatermarkOnlyAdvances == Spec => WatermarkAdvances
<1>1. Base /\ [Next]_vars => [watermark' >= watermark]_vars
  <2> SUFFICES ASSUME Base, Next PROVE watermark' >= watermark
    OBVIOUS
  <2>1. watermark \in Nat
    BY DEF Base, TypeOK
  <2>2. ASSUME NEW r \in Runs, Finish(r) PROVE watermark' >= watermark
    BY <2>2, NewestIsPast DEF Finish, Parsed
  <2>3. CASE UNCHANGED watermark
    BY <2>1, <2>3
  <2> QED BY <2>2, <2>3 DEF Next, Step, Start, NextPage, Fail, Reject, AuthFail, Rebind, Crash, Charge
<1>2. Spec => [][Next]_vars
  BY DEF Spec
<1> QED BY <1>1, <1>2, AlwaysBase, PTL DEF WatermarkAdvances

-----------------------------------------------------------------------------
(* Whole: no record is missing up to the charge of the watermark.          *)

\* MAX_PAGES pages reach the oldest charge.
Reach == MaxPages * PageSize >= N
\* The charges of one second fit on one page and one charge more.
TiesFit == \A c, d \in Charges : Time[c] = Time[d] => c - d <= PageSize

Solid == watermark # 0 => \E d \in 1..visible : Time[d] = watermark /\ 1..d \subseteq stored
\* A run begins at the watermark ...
Fresh == \A r \in Runs : scan[r].page = 1 => scan[r].newest = watermark
\* ... and what it has seen reaches from the newest charge to its page.
Seen == \A r \in Runs : scan[r].page > 1 =>
    \E h \in 1..visible :
        /\ Time[h] = scan[r].newest
        /\ \A c \in 1..h : visible - c < Before(scan[r].page) => c \in stored \cup scan[r].got

Whole == Solid /\ Fresh /\ Seen

LEMMA InitWhole == Init => Whole
BY DEF Init, Idle, Whole, Solid, Fresh, Seen

\* Charges and their times, in arithmetic.
LEMMA ChargesInOrder ==
    ASSUME TypeOK
    PROVE  /\ N \in Nat /\ visible \in 0..N /\ 1..visible \subseteq Charges
           /\ \A c \in 1..visible : Time[c] \in Nat \ {0}
           /\ \A c, d \in 1..visible : c <= d => Time[c] <= Time[d]
<1>1. N \in Nat /\ visible \in 0..N
  BY ChargesAssumption DEF TypeOK
<1>2. 1..visible \subseteq Charges
  BY <1>1 DEF Charges
<1> QED BY <1>1, <1>2, ChargesAssumption

\* With the page it has read, what a run has seen reaches one page further.
LEMMA PageIsSeen ==
    ASSUME Base, Whole, NEW r \in Runs, scan[r].page > 0, visible # 0
    PROVE  \E h \in 1..visible :
              /\ Time[h] = NewestOn(r)
              /\ \A c \in 1..h : visible - c < scan[r].page * PageSize =>
                                   c \in stored \cup (scan[r].got \cup NewOn(r))
<1> DEFINE p == scan[r].page
           k == Before(p)
           top == visible - k
           all == stored \cup (scan[r].got \cup NewOn(r))
<1>1. /\ TypeOK /\ p \in Nat \ {0} /\ scan[r].newest \in Nat /\ watermark \in Nat
  BY DEF Base, TypeOK, Positions
<1>2. /\ N \in Nat /\ visible \in 1..N /\ 1..visible \subseteq Charges
      /\ \A c \in 1..visible : Time[c] \in Nat \ {0}
      /\ \A c, d \in 1..visible : c <= d => Time[c] <= Time[d]
  BY <1>1, ChargesInOrder
<1>3. k \in Nat /\ PageSize \in Nat \ {0} /\ p * PageSize = k + PageSize
  BY <1>1, PageAfterPage, PageStart, LimitsAssumption
<1>4. /\ Items(p) \subseteq 1..visible
      /\ Items(p) # {} => top \in Items(p)
      /\ \A c \in Items(p) : c <= top
  BY <1>1, TopOfPage
<1>5. /\ NewestOn(r) \in {scan[r].newest} \cup {Time[c] : c \in Items(p)}
      /\ NewestOn(r) \in Nat /\ NewestOn(r) >= scan[r].newest
      /\ \A c \in Items(p) : Time[c] <= NewestOn(r)
  BY <1>1, NewestIs
<1>6. Items(p) = {c \in 1..visible : k <= visible - c /\ visible - c < k + PageSize}
  BY <1>3 DEF Items, Before
<1>7. Items(p) \subseteq all
  BY DEF NewOn
<1> HIDE DEF k, all
<1>8. CASE p = 1
  <2>1. k = 0
    BY <1>8, PageStart DEF k
  <2>2. visible \in Items(p)
    BY <1>2, <1>3, <1>6, <2>1
  <2>3. scan[r].newest <= Time[visible]
    <3>1. scan[r].newest = watermark
      BY <1>8 DEF Whole, Fresh
    <3>2. CASE watermark = 0
      BY <1>2, <3>1, <3>2
    <3>3. CASE watermark # 0
      <4>1. PICK d \in 1..visible : Time[d] = watermark
        BY <3>3 DEF Whole, Solid
      <4>2. visible \in 1..visible /\ d <= visible
        BY <1>2
      <4> QED BY <1>2, <3>1, <4>1, <4>2
    <3> QED BY <3>2, <3>3
  <2>4. \A c \in Items(p) : Time[c] <= Time[visible]
    BY <1>2, <1>4, <2>2
  <2>5. Time[visible] = NewestOn(r)
    BY <1>1, <1>2, <1>4, <1>5, <2>2, <2>3, <2>4
  <2>6. \A c \in 1..visible : visible - c < p * PageSize => c \in all
    BY <1>2, <1>3, <1>6, <1>7, <2>1
  <2>7. visible \in 1..visible
    BY <1>2
  <2> QED BY <2>5, <2>6, <2>7 DEF all
<1>9. CASE p > 1
  <2>1. PICK h \in 1..visible :
           /\ Time[h] = scan[r].newest
           /\ \A c \in 1..h : visible - c < k => c \in all
    BY <1>9 DEF Whole, Seen, k, all
  <2>2. \A c \in 1..visible : visible - c < p * PageSize => visible - c < k \/ c \in all
    BY <1>2, <1>3, <1>6, <1>7
  <2>3. 1..h \subseteq 1..visible
    BY <1>2
  <2>4. CASE Items(p) = {} \/ top <= h
    <3>1. \A c \in Items(p) : Time[c] <= scan[r].newest
      BY <1>2, <1>4, <2>1, <2>4
    <3>2. NewestOn(r) = scan[r].newest
      BY <1>1, <1>2, <1>4, <1>5, <3>1
    <3>3. \A c \in 1..h : visible - c < p * PageSize => c \in all
      BY <2>1, <2>2, <2>3
    <3> QED BY <2>1, <3>2, <3>3 DEF all
  <2>5. CASE Items(p) # {} /\ ~(top <= h)
    <3>1. top \in Items(p) /\ top \in 1..visible
      BY <1>4, <2>5
    <3>2. Time[h] <= Time[top]
      BY <1>2, <1>3, <2>5, <3>1
    <3>3. NewestOn(r) = Time[top]
      BY <1>1, <1>2, <1>4, <1>5, <2>1, <3>1, <3>2
    <3>4. \A c \in 1..top : visible - c < p * PageSize => c \in all
      BY <1>2, <1>3, <2>2, <3>1
    <3> QED BY <3>1, <3>3, <3>4 DEF all
  <2> QED BY <2>4, <2>5
<1> QED BY <1>1, <1>8, <1>9

\* A page that is followed by no other, by its total or by its length, is last.
LEMMA LastPage ==
    ASSUME TypeOK, NEW p \in Nat \ {0}, NEW total \in BOOLEAN, ~More(p, total)
    PROVE  visible <= p * PageSize
<1> DEFINE k == Before(p)
<1>1. k \in Nat /\ PageSize \in Nat \ {0} /\ p * PageSize = k + PageSize /\ visible \in Nat
  BY PageAfterPage, PageStart, LimitsAssumption, ChargesInOrder
<1>2. Items(p) = {c \in 1..visible : k <= visible - c /\ visible - c < k + PageSize}
  BY <1>1 DEF Items, Before
<1> HIDE DEF k
<1>3. CASE total
  BY <1>1, <1>3 DEF More
<1>4. CASE ~total
  <2> SUFFICES ASSUME visible > k + PageSize PROVE FALSE
    BY <1>1
  <2>1. Items(p) = (visible - k - PageSize + 1)..(visible - k)
    BY <1>1, <1>2
  <2>2. Cardinality(Items(p)) = PageSize
    BY <1>1, <2>1, FS_Interval
  <2> QED BY <1>1, <1>4, <2>2 DEF More
<1> QED BY <1>3, <1>4

\* Behind a page on which all is known nothing is missing.
LEMMA KnownIsSolid ==
    ASSUME Base, Whole, TiesFit, NEW r \in Runs, scan[r].page > 0, Known(r),
           NEW c \in 1..visible, ~(visible - c < scan[r].page * PageSize)
    PROVE  c \in stored
<1> DEFINE p == scan[r].page
           k == Before(p)
           top == visible - k
<1>1. TypeOK /\ p \in Nat \ {0} /\ watermark \in Nat
  BY DEF Base, TypeOK, Positions
<1>2. /\ N \in Nat /\ visible \in 0..N /\ 1..visible \subseteq Charges
      /\ \A x \in 1..visible : Time[x] \in Nat \ {0}
      /\ \A x, y \in 1..visible : x <= y => Time[x] <= Time[y]
  BY <1>1, ChargesInOrder
<1>3. k \in Nat /\ PageSize \in Nat \ {0} /\ p * PageSize = k + PageSize
  BY <1>1, PageAfterPage, PageStart, LimitsAssumption
<1>4. top \in Items(p) /\ top \in 1..visible
  BY <1>1, TopOfPage DEF Known
<1>5. watermark # 0 /\ Time[top] <= watermark
  BY <1>4 DEF Known, Base, Locked
<1>6. PICK d \in 1..visible : Time[d] = watermark /\ 1..d \subseteq stored
  BY <1>5 DEF Whole, Solid
<1> HIDE DEF k
<1>7. c <= top - PageSize
  BY <1>2, <1>3
<1>8. top - d <= PageSize
  <2>1. CASE top <= d
    BY <1>2, <1>3, <1>4, <2>1
  <2>2. CASE ~(top <= d)
    <3>1. Time[d] <= Time[top]
      BY <1>2, <1>4, <2>2
    <3>2. Time[top] = Time[d]
      BY <1>2, <1>4, <1>5, <1>6, <3>1
    <3> QED BY <1>2, <1>4, <3>2 DEF TiesFit
  <2> QED BY <2>1, <2>2
<1>9. c \in 1..d
  BY <1>2, <1>3, <1>7, <1>8
<1> QED BY <1>6, <1>9

\* The watermark of a run that has succeeded is solid.
LEMMA FinishIsSolid ==
    ASSUME Base, Whole, Reach, TiesFit, NEW r \in Runs, Finish(r), visible # 0
    PROVE  \E d \in 1..visible : Time[d] = NewestOn(r) /\ 1..d \subseteq stored'
<1> DEFINE p == scan[r].page
           all == stored \cup (scan[r].got \cup NewOn(r))
<1>1. PICK total \in BOOLEAN : Stops(r, total)
  BY DEF Finish
<1>2. p > 0 /\ stored' = all
  BY DEF Finish, Parsed, Commit
<1>3. TypeOK /\ p \in Nat \ {0} /\ visible \in 0..N /\ N \in Nat
  BY <1>2, ChargesInOrder DEF Base, TypeOK, Positions
<1>4. PICK h \in 1..visible :
         /\ Time[h] = NewestOn(r)
         /\ \A c \in 1..h : visible - c < p * PageSize => c \in all
  BY <1>2, PageIsSeen
<1>5. p * PageSize \in Int
  BY <1>3, PageAfterPage, LimitsAssumption
<1> HIDE DEF all
<1>6. ASSUME NEW c \in 1..h PROVE c \in all
  <2>1. c \in 1..visible
    BY <1>3, <1>4
  <2>2. CASE visible <= p * PageSize
    BY <1>3, <1>4, <1>5, <2>1, <2>2
  <2>3. CASE ~(visible <= p * PageSize) /\ Known(r)
    <3>1. CASE visible - c < p * PageSize
      BY <1>4, <3>1
    <3>2. CASE ~(visible - c < p * PageSize)
      <4>1. c \in stored
        BY <1>2, <2>1, <2>3, <3>2, KnownIsSolid
      <4> QED BY <4>1 DEF all
    <3> QED BY <3>1, <3>2
  <2>4. visible <= p * PageSize \/ Known(r)
    <3>1. CASE ~More(p, total)
      BY <1>3, <3>1, LastPage
    <3>2. CASE KnownPages(r) >= 2
      BY <3>2 DEF KnownPages
    <3>3. CASE p = MaxPages
      BY <1>3, <1>5, <3>3 DEF Reach
    <3> QED BY <1>1, <3>1, <3>2, <3>3 DEF Stops
  <2> QED BY <2>2, <2>3, <2>4
<1> QED BY <1>2, <1>4, <1>6

\* Nobody is at work after these steps, and the watermark stays where it is.
LEMMA QuietKeepsWhole ==
    ASSUME Whole, \A x \in Runs : scan'[x] = Idle, stored \subseteq stored',
           watermark' = watermark, visible' = visible
    PROVE  Whole'
<1>1. Fresh' /\ Seen'
  BY DEF Fresh, Seen, Idle
<1>2. Solid'
  BY DEF Whole, Solid
<1> QED BY <1>1, <1>2 DEF Whole

\* Ends of a run without success.
LEMMA StopKeepsWhole ==
    ASSUME Base, Whole, NEW r \in Runs, Fail(r) \/ Reject(r) \/ AuthFail(r)
    PROVE  Whole'
<1>1. /\ scan[r].page > 0 /\ End(r) /\ stored \subseteq stored'
      /\ watermark' = watermark /\ visible' = visible
  BY DEF Fail, Reject, AuthFail, Commit
<1> QED BY <1>1, EndIsQuiet, QuietKeepsWhole

LEMMA CrashKeepsWhole == ASSUME Whole, Crash PROVE Whole'
<1>1. \A x \in Runs : scan'[x] = Idle
  BY DEF Crash
<1> QED BY <1>1, QuietKeepsWhole DEF Crash

LEMMA FinishKeepsWhole ==
    ASSUME Base, Whole, Reach, TiesFit, NEW r \in Runs, Finish(r)
    PROVE  Whole'
<1>1. \A x \in Runs : scan'[x] = Idle
  BY EndIsQuiet DEF Finish, Parsed
<1>2. Fresh' /\ Seen'
  BY <1>1 DEF Fresh, Seen, Idle
<1>3. watermark' = NewestOn(r) /\ visible' = visible /\ scan[r].page > 0
  BY DEF Finish, Parsed
<1>4. CASE visible # 0
  <2>1. Solid'
    BY <1>3, <1>4, FinishIsSolid DEF Solid
  <2> QED BY <1>2, <2>1 DEF Whole
<1>5. CASE visible = 0
  <2>1. watermark = 0
    BY <1>5 DEF Whole, Solid
  <2>2. scan[r].page \in Nat \ {0} /\ TypeOK
    BY <1>3 DEF Base, TypeOK, Positions
  <2>3. ~(scan[r].page > 1)
    BY <1>5 DEF Whole, Seen
  <2>4. scan[r].newest = 0
    BY <2>1, <2>2, <2>3 DEF Whole, Fresh
  <2>5. Items(scan[r].page) = {}
    BY <1>5, <2>2, TopOfPage
  <2>6. NewestOn(r) = 0
    BY <1>3, <2>2, <2>4, <2>5, NewestIs
  <2> QED BY <1>2, <1>3, <2>6 DEF Whole, Solid
<1> QED BY <1>4, <1>5

\* Runs but r wait while r is at work.
LEMMA OthersWait ==
    ASSUME Base, NEW r \in Runs, scan[r].page > 0, NEW x \in Runs, x # r
    PROVE  scan[x].page = 0
BY DEF Base, Locked, TypeOK, Positions

LEMMA NextPageKeepsWhole == ASSUME Base, Whole, NEW r \in Runs, NextPage(r) PROVE Whole'
<1> DEFINE p == scan[r].page
<1>1. /\ p > 0 /\ scan \in [Runs -> Positions] /\ TypeOK
      /\ stored' = stored /\ watermark' = watermark /\ visible' = visible
  BY DEF NextPage, Parsed, Base, TypeOK
<1>2. p \in Nat \ {0}
  BY <1>1 DEF Positions
<1>3. /\ scan'[r].page = p + 1 /\ scan'[r].newest = NewestOn(r)
      /\ scan'[r].got = scan[r].got \cup NewOn(r)
      /\ \A x \in Runs : x # r => scan'[x] = scan[x]
  BY <1>1 DEF NextPage
<1>4. visible # 0
  <2> SUFFICES ASSUME visible = 0 PROVE FALSE
    OBVIOUS
  <2>1. ~(p > 1)
    BY DEF Whole, Seen
  <2>2. p = 1
    BY <1>2, <2>1
  <2>3. Items(p) = {}
    BY <1>1, <1>2, TopOfPage
  <2>4. Cardinality(Items(p)) = 0
    BY <2>3, FS_EmptySet
  <2>5. PICK total \in BOOLEAN : More(p, total)
    BY DEF NextPage, Stops
  <2> QED BY <2>2, <2>4, <2>5, LimitsAssumption DEF More
<1>5. PICK h \in 1..visible :
         /\ Time[h] = NewestOn(r)
         /\ \A c \in 1..h : visible - c < p * PageSize => c \in stored \cup (scan[r].got \cup NewOn(r))
  BY <1>1, <1>4, PageIsSeen
<1>6. Before(p + 1) = p * PageSize
  BY <1>2, PageAfterPage
<1>7. \A x \in Runs : x # r => scan'[x].page = 0
  BY <1>1, <1>3, OthersWait
<1>8. Solid'
  BY <1>1 DEF Whole, Solid
<1>9. Fresh'
  BY <1>2, <1>3, <1>7 DEF Fresh
<1>10. Seen'
  BY <1>1, <1>3, <1>5, <1>6, <1>7 DEF Seen
<1> QED BY <1>8, <1>9, <1>10 DEF Whole

LEMMA StartKeepsWhole == ASSUME Base, Whole, NEW r \in Runs, Start(r) PROVE Whole'
<1>1. /\ UNCHANGED <<visible, stored, watermark>>
      /\ scan \in [Runs -> Positions] /\ lock = Free /\ Free \notin Runs
  BY LimitsAssumption DEF Start, Base, TypeOK
<1>2. /\ scan'[r].page = 1 /\ scan'[r].newest = watermark
      /\ \A x \in Runs : x # r => scan'[x] = scan[x]
  BY <1>1 DEF Start
<1>3. Solid' /\ Fresh' /\ Seen'
  BY <1>1, <1>2 DEF Whole, Solid, Fresh, Seen
<1> QED BY <1>3 DEF Whole

\* A new charge is before all that a run has seen.
LEMMA ChargeKeepsWhole == ASSUME Base, Whole, Charge PROVE Whole'
<1>1. /\ UNCHANGED <<stored, watermark, scan>> /\ visible' = visible + 1 /\ visible \in Nat
  BY ChargesAssumption DEF Charge, Base, TypeOK
<1>2. 1..visible \subseteq 1..visible'
  BY <1>1
<1>3. Solid' /\ Fresh'
  BY <1>1, <1>2 DEF Whole, Solid, Fresh
<1>4. ASSUME NEW r \in Runs, scan[r].page > 1
      PROVE  \E h \in 1..visible' :
               /\ Time[h] = scan[r].newest
               /\ \A c \in 1..h : visible' - c < Before(scan[r].page) => c \in stored \cup scan[r].got
  <2>1. PICK h \in 1..visible :
           /\ Time[h] = scan[r].newest
           /\ \A c \in 1..h : visible - c < Before(scan[r].page) => c \in stored \cup scan[r].got
    BY <1>4 DEF Whole, Seen
  <2>2. Before(scan[r].page) \in Int
    BY PageAfterPage DEF Base, TypeOK, Positions
  <2>3. \A c \in 1..h : visible' - c < Before(scan[r].page) => visible - c < Before(scan[r].page)
    BY <1>1, <2>2
  <2> QED BY <1>2, <2>1, <2>3
<1>5. Seen'
  BY <1>1, <1>4 DEF Seen
<1> QED BY <1>3, <1>5 DEF Whole

LEMMA NextKeepsWhole == Base /\ Whole /\ Reach /\ TiesFit /\ [Next]_vars => Whole'
<1> SUFFICES ASSUME Base, Whole, Reach, TiesFit, [Next]_vars PROVE Whole'
  OBVIOUS
<1>1. ASSUME NEW r \in Runs, Start(r) PROVE Whole'
  BY <1>1, StartKeepsWhole
<1>2. ASSUME NEW r \in Runs, Step(r) PROVE Whole'
  BY <1>2, NextPageKeepsWhole, FinishKeepsWhole DEF Step
<1>3. ASSUME NEW r \in Runs, Fail(r) \/ Reject(r) \/ AuthFail(r) PROVE Whole'
  BY <1>3, StopKeepsWhole
<1>4. CASE Rebind \/ UNCHANGED vars
  <2>1. UNCHANGED <<visible, stored, watermark, scan>>
    BY <1>4 DEF Rebind, vars
  <2> QED BY <2>1 DEF Whole, Solid, Fresh, Seen
<1>5. CASE Crash
  BY <1>5, CrashKeepsWhole
<1>6. CASE Charge
  BY <1>6, ChargeKeepsWhole
<1> QED BY <1>1, <1>2, <1>3, <1>4, <1>5, <1>6 DEF Next

\* What is older than a solid watermark is recorded.
LEMMA BelowIsRecorded == Base /\ Whole => NothingMissed
<1> SUFFICES ASSUME Base, Whole, NEW c \in 1..visible, Time[c] < watermark PROVE c \in stored
  BY DEF NothingMissed
<1>1. /\ visible \in Nat /\ watermark \in Nat /\ \A x \in 1..visible : Time[x] \in Nat \ {0}
      /\ \A x, y \in 1..visible : x <= y => Time[x] <= Time[y]
  BY ChargesInOrder DEF Base, TypeOK
<1>2. PICK d \in 1..visible : Time[d] = watermark /\ 1..d \subseteq stored
  BY <1>1 DEF Whole, Solid
<1>3. ~(d <= c)
  BY <1>1, <1>2
<1>4. c \in 1..d
  BY <1>1, <1>3
<1> QED BY <1>2, <1>4

LEMMA AlwaysWhole == ASSUME Reach, TiesFit PROVE Spec => []Whole
<1>1. Base /\ Whole /\ [Next]_vars => Whole'
  BY NextKeepsWhole
<1> QED BY <1>1, InitWhole, AlwaysBase, PTL DEF Spec

\* Whatever failed, died or arrived meanwhile, no charge older than the
\* watermark is missing, if the history fits MAX_PAGES and a second fits a page.
THEOREM NothingIsMissed == Reach /\ TiesFit => (Spec => []NothingMissed)
<1> SUFFICES ASSUME Reach, TiesFit PROVE Spec => []NothingMissed
  OBVIOUS
<1> QED BY BelowIsRecorded, AlwaysWhole, AlwaysBase, PTL

-----------------------------------------------------------------------------
(* What is new is announced, if the account had a charge when it was bound. *)

Based == visible > 0 /\ (baseline # NoBaseline => watermark # 0)
Notified == Based /\ NewIsNotified

\* A charge that a run stores is behind the one of the watermark; so it is
\* announced, unless it shares the second of its predecessor.
LEMMA NewIsEligible ==
    ASSUME Base, Whole, watermark # 0, NEW r \in Runs, scan[r].page > 0,
           NEW c \in 1..visible, c \notin stored, c > 1 => Time[c - 1] < Time[c]
    PROVE  IsEligible(r, c)
<1>1. /\ visible \in Nat /\ watermark \in Nat /\ \A x \in 1..visible : Time[x] \in Nat \ {0}
      /\ \A x, y \in 1..visible : x <= y => Time[x] <= Time[y]
  BY ChargesInOrder DEF Base, TypeOK
<1>2. PICK d \in 1..visible : Time[d] = watermark /\ 1..d \subseteq stored
  BY DEF Whole, Solid
<1>3. c > d
  BY <1>1, <1>2
<1>4. c > 1 /\ c - 1 \in 1..visible /\ d <= c - 1
  BY <1>1, <1>3
<1>5. Time[d] <= Time[c - 1] /\ Time[c - 1] < Time[c]
  BY <1>1, <1>4
<1>6. Time[c] > watermark
  BY <1>1, <1>2, <1>4, <1>5
<1> QED BY <1>6 DEF IsEligible, Base, Locked

\* A run that ends by storing C, of charges without a record.
LEMMA CommitIsNotified ==
    ASSUME Base, Whole, Notified, baseline # NoBaseline, baseline' = baseline,
           NEW r \in Runs, scan[r].page > 0, NEW C \in SUBSET (1..visible), C \cap stored = {},
           Commit(r, C)
    PROVE  NewIsNotified'
<1>1. watermark # 0
  BY DEF Notified, Based
<1>2. ASSUME NEW c \in stored', c > baseline, c > 1 => Time[c - 1] < Time[c]
      PROVE  c \in eligible'
  <2>1. CASE c \in stored
    BY <1>2, <2>1 DEF Notified, NewIsNotified, Commit
  <2>2. CASE c \in C
    <3>1. c \in 1..visible /\ c \notin stored
      BY <2>2
    <3>2. IsEligible(r, c)
      BY <1>1, <1>2, <3>1, NewIsEligible
    <3> QED BY <2>2, <3>2 DEF Commit
  <2> QED BY <2>1, <2>2 DEF Commit
<1> QED BY <1>2 DEF NewIsNotified

\* Before the first success there is nothing to announce.
LEMMA NoBaselineYet == baseline' = NoBaseline => NewIsNotified'
BY DEF NewIsNotified, NoBaseline

\* A run that fails commits charges without a record.
LEMMA StopCommits ==
    ASSUME Base, NEW r \in Runs, Fail(r) \/ Reject(r) \/ AuthFail(r)
    PROVE  \E C \in SUBSET (1..visible) : C \cap stored = {} /\ Commit(r, C)
<1>1. scan[r].page > 0
  BY DEF Fail, Reject, AuthFail
<1>2. scan[r].got \subseteq 1..visible /\ scan[r].got \cap stored = {}
  BY <1>1 DEF Base, Real, Locked
<1>3. NewOn(r) \subseteq 1..visible /\ NewOn(r) \cap stored = {}
  BY <1>1, NewestIsPast DEF NewOn
<1>4. CASE Fail(r) \/ AuthFail(r)
  BY <1>2, <1>4 DEF Fail, AuthFail
<1>5. CASE Reject(r)
  <2>1. PICK m \in Items(scan[r].page) \cap Malformed :
           Commit(r, scan[r].got \cup {c \in NewOn(r) : c > m})
    BY <1>5 DEF Reject
  <2>2. /\ scan[r].got \cup {c \in NewOn(r) : c > m} \in SUBSET (1..visible)
        /\ (scan[r].got \cup {c \in NewOn(r) : c > m}) \cap stored = {}
    BY <1>2, <1>3
  <2> QED BY <2>1, <2>2
<1> QED BY <1>4, <1>5

\* One that succeeds does as well.
LEMMA FinishCommits ==
    ASSUME Base, NEW r \in Runs, Finish(r)
    PROVE  LET C == scan[r].got \cup NewOn(r) IN
           C \in SUBSET (1..visible) /\ C \cap stored = {} /\ Commit(r, C)
<1>1. scan[r].page > 0 /\ Commit(r, scan[r].got \cup NewOn(r))
  BY DEF Finish, Parsed
<1>2. scan[r].got \subseteq 1..visible /\ scan[r].got \cap stored = {}
  BY <1>1 DEF Base, Real, Locked
<1>3. NewOn(r) \subseteq 1..visible /\ NewOn(r) \cap stored = {}
  BY <1>1, NewestIsPast DEF NewOn
<1> QED BY <1>1, <1>2, <1>3

LEMMA StopKeepsNotified ==
    ASSUME Base, Whole, Notified, NEW r \in Runs, Fail(r) \/ Reject(r) \/ AuthFail(r)
    PROVE  Notified'
<1>1. /\ scan[r].page > 0 /\ watermark' = watermark /\ visible' = visible /\ baseline' = baseline
  BY DEF Fail, Reject, AuthFail
<1>2. PICK C \in SUBSET (1..visible) : C \cap stored = {} /\ Commit(r, C)
  BY StopCommits
<1>3. NewIsNotified'
  BY <1>1, <1>2, NoBaselineYet, CommitIsNotified
<1> QED BY <1>1, <1>3 DEF Notified, Based

LEMMA FinishKeepsNotified ==
    ASSUME Base, Whole, Notified, NEW r \in Runs, Finish(r)
    PROVE  Notified'
<1> DEFINE C == scan[r].got \cup NewOn(r)
<1>1. /\ scan[r].page > 0 /\ watermark' = NewestOn(r) /\ visible' = visible /\ Commit(r, C)
      /\ baseline' = IF baseline = NoBaseline THEN visible ELSE baseline
  BY DEF Finish, Parsed
<1>2. C \in SUBSET (1..visible) /\ C \cap stored = {}
  BY FinishCommits
<1> HIDE DEF C
<1>3. visible \in Nat /\ visible # 0 /\ NoBaseline \notin 0..N /\ visible \in 0..N
  BY ChargesAssumption DEF Notified, Based, Base, TypeOK, NoBaseline
<1>4. Based'
  <2>1. PICK h \in 1..visible : Time[h] = NewestOn(r)
    BY <1>1, <1>3, PageIsSeen
  <2>2. Time[h] # 0
    BY ChargesInOrder DEF Base
  <2> QED BY <1>1, <2>1, <2>2 DEF Notified, Based
<1>5. CASE baseline # NoBaseline
  BY <1>1, <1>2, <1>4, <1>5, CommitIsNotified DEF Notified
<1>6. CASE baseline = NoBaseline
  <2>1. \A c \in stored' : c <= visible /\ c \in Nat
    BY <1>1, <1>2, <1>3 DEF Commit, Base, Real
  <2>2. NewIsNotified'
    BY <1>1, <1>3, <1>6, <2>1 DEF NewIsNotified
  <2> QED BY <1>4, <2>2 DEF Notified
<1> QED BY <1>5, <1>6

LEMMA NextKeepsNotified == Base /\ Whole /\ Notified /\ [Next]_vars => Notified'
<1> SUFFICES ASSUME Base, Whole, Notified, [Next]_vars PROVE Notified'
  OBVIOUS
<1>1. ASSUME NEW r \in Runs, Finish(r) PROVE Notified'
  BY <1>1, FinishKeepsNotified
<1>2. ASSUME NEW r \in Runs, Fail(r) \/ Reject(r) \/ AuthFail(r) PROVE Notified'
  BY <1>2, StopKeepsNotified
<1>3. CASE UNCHANGED <<stored, eligible, watermark, baseline>> /\ visible' \in {visible, visible + 1}
  BY <1>3, ChargesInOrder DEF Notified, Based, NewIsNotified, NoBaseline, Base
<1> QED BY <1>1, <1>2, <1>3
    DEF Next, Step, Start, NextPage, Rebind, Crash, Charge, vars

\* A charge made after the first successful collection is announced, unless it
\* shares the second of its predecessor: under the conditions of NothingIsMissed,
\* and for an account that had a charge when it was bound.
THEOREM NewChargesAreNotified ==
    Reach /\ TiesFit => (Spec /\ visible > 0 => []NewIsNotified)
<1> SUFFICES ASSUME Reach, TiesFit PROVE Spec /\ visible > 0 => []NewIsNotified
  OBVIOUS
<1>1. Init /\ visible > 0 => Notified
  BY DEF Init, Notified, Based, NewIsNotified
<1>2. Base /\ Whole /\ [Next]_vars => Whole'
  BY NextKeepsWhole
<1>3. Base /\ Whole /\ Notified /\ [Next]_vars => Notified'
  BY NextKeepsNotified
<1>4. Notified => NewIsNotified
  BY DEF Notified
<1> QED BY <1>1, <1>2, <1>3, <1>4, InitWhole, AlwaysBase, PTL DEF Spec
-----------------------------------------------------------------------------
(* Runs that page, overlap and fail are as good as single steps.           *)

\* A commit of charges that had no record is a step of the ledger.
LEMMA CommitIsRecord ==
    ASSUME Base, Whole', NothingMissed', visible' = visible, watermark' \in Nat, watermark' >= watermark,
           NEW r \in Runs, scan[r].page > 0, NEW C \in SUBSET (1..visible), C \cap stored = {}, Commit(r, C)
    PROVE  Ledger!Next
<1>1. watermark \in Nat /\ visible \in Nat
  BY ChargesInOrder DEF Base, TypeOK
<1>2. \A c \in C : IsEligible(r, c) <=> watermark # 0 /\ Time[c] > watermark
  BY DEF IsEligible, Base, Locked
<1>3. stored' = stored \cup C /\ eligible' = eligible \cup {c \in C : watermark # 0 /\ Time[c] > watermark}
  BY <1>2 DEF Commit
<1>4. watermark' # watermark => \E d \in 1..visible : Time[d] = watermark' /\ d \in stored'
  BY <1>1 DEF Whole, Solid
<1>5. \A c \in 1..visible : Time[c] < watermark' => c \in stored'
  BY DEF NothingMissed
<1>6. Ledger!Record(C, watermark')
  BY <1>3, <1>4, <1>5 DEF Ledger!Record
<1>7. C \in SUBSET ((1..visible) \ stored)
  OBVIOUS
<1>8. watermark' \in {watermark} \cup {Time[c] : c \in 1..visible}
  BY <1>4
<1> QED BY <1>6, <1>7, <1>8 DEF Ledger!Next

LEMMA StepIsLedgers ==
    ASSUME Base, Whole', NothingMissed', [Next]_vars
    PROVE  [Ledger!Next]_(Ledger!lvars)
<1> USE DEF Ledger!lvars
<1>1. watermark \in Nat
  BY DEF Base, TypeOK
<1>2. ASSUME NEW r \in Runs, Finish(r) PROVE Ledger!Next
  <2>1. /\ scan[r].page > 0 /\ visible' = visible
        /\ watermark' \in Nat /\ watermark' >= watermark
    BY <1>2, NewestIsPast DEF Finish, Parsed
  <2> QED BY <1>2, <2>1, FinishCommits, CommitIsRecord
<1>3. ASSUME NEW r \in Runs, Fail(r) \/ Reject(r) \/ AuthFail(r) PROVE Ledger!Next
  <2>1. scan[r].page > 0 /\ visible' = visible /\ watermark' = watermark
    BY <1>3 DEF Fail, Reject, AuthFail
  <2>2. watermark' \in Nat /\ watermark' >= watermark
    BY <1>1, <2>1
  <2>3. PICK C \in SUBSET (1..visible) : C \cap stored = {} /\ Commit(r, C)
    BY <1>3, StopCommits
  <2> QED BY <2>1, <2>2, <2>3, CommitIsRecord
<1>4. ASSUME Charge PROVE Ledger!Next
  <2>1. /\ visible \in Nat /\ N \in Nat /\ visible < N /\ visible' = visible + 1
        /\ UNCHANGED <<stored, eligible, watermark>>
    BY <1>4, ChargesInOrder DEF Charge, Base
  <2>2. visible' \in Charges \ 1..visible /\ 1..visible' = (1..visible) \cup {visible'}
    BY <2>1 DEF Charges
  <2>3. \A d \in 1..visible : d \in Charges /\ d <= visible'
    BY <2>1 DEF Charges
  <2>4. \A d \in 1..visible : Time[d] <= Time[visible']
    BY <2>2, <2>3, ChargesAssumption
  <2>5. Ledger!Make(visible')
    BY <2>1, <2>2, <2>4 DEF Ledger!Make
  <2> QED BY <2>2, <2>5 DEF Ledger!Next
<1>5. CASE UNCHANGED <<visible, stored, eligible, watermark>>
  BY <1>5
<1> QED BY <1>2, <1>3, <1>4, <1>5 DEF Next, Step, Start, NextPage, Rebind, Crash, vars

\* The refinement: under the conditions of NothingIsMissed, paging runs that
\* overlap, fail and die record, decide and advance as ChargeLedger does in
\* single steps (LedgerKept).
THEOREM CollectionKeepsLedger == Reach /\ TiesFit => (Spec => LedgerKept)
<1> SUFFICES ASSUME Reach, TiesFit PROVE Spec => LedgerKept
  OBVIOUS
<1>1. Init => Ledger!Init
  <2> SUFFICES ASSUME Init PROVE Ledger!Init
    OBVIOUS
  <2>1. 1..visible \subseteq Charges
    BY ChargesAssumption DEF Init, Charges
  <2> QED BY <2>1 DEF Init, Ledger!Init
<1>2. Base /\ Whole' /\ NothingMissed' /\ [Next]_vars => [Ledger!Next]_(Ledger!lvars)
  BY StepIsLedgers
<1>3. Spec => []NothingMissed
  BY NothingIsMissed
<1> QED BY <1>1, <1>2, <1>3, AlwaysBase, AlwaysWhole, PTL DEF Spec, LedgerKept, Ledger!Spec
=============================================================================
