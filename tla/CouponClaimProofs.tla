------------------------- MODULE CouponClaimProofs -------------------------
(***************************************************************************)
(* Proofs about CouponClaim, for any number of claims, logins and months.  *)
(***************************************************************************)
EXTENDS CouponClaim, TLAPS

\* What holds of a claim under way: it is for this month or the last one, it
\* uses the account's cookie or an older one, and what it was told is still so.
Known(c) ==
    /\ Bound /\ claim[c].cookie <= account.cookie
    /\ claim[c].seen \notin Final
    /\ month \in {claim[c].month, claim[c].month + 1}
    /\ claim[c].answer \in Final => granted \cap {claim[c].month, claim[c].month + 1} # {}
    /\ claim[c].answer = "auth" => claim[c].cookie \notin live
ClaimsKnown == \A c \in Claims : claim[c] # None => Known(c)

IInv == TypeOK /\ ClaimsKnown /\ FinalIsGranted /\ ExpiredForCause

LEMMA InitIInv == Init => IInv
<1> SUFFICES ASSUME Init PROVE IInv
  OBVIOUS
<1> USE ClaimAssumption
<1>1. None \notin Final
  BY DEF Final, Answers, Results
<1>2. TypeOK
  <2>1. 1 \in Months
    BY DEF Months
  <2> QED BY <2>1 DEF Init, TypeOK, RunStatus
<1>3. ClaimsKnown /\ ExpiredForCause
  BY DEF Init, ClaimsKnown, ExpiredForCause, Bound
<1>4. FinalIsGranted
  BY <1>1 DEF Init, FinalIsGranted
<1> QED BY <1>2, <1>3, <1>4 DEF IInv

\* Months and cookies are numbers.
LEMMA Numbers ==
    /\ Months \subseteq Nat /\ Cookies \subseteq Nat
    /\ "auth" \notin Results /\ "error" \notin Final
BY ClaimAssumption DEF Months, Cookies, Results, Final

LEMMA LoginStep == IInv /\ Login => IInv'
<1> SUFFICES ASSUME IInv, Login PROVE IInv'
  OBVIOUS
<1> USE ClaimAssumption, Numbers
<1>1. /\ NextCookie \in Cookies /\ live' = live \cup {NextCookie}
      /\ account' = [status |-> "active", cookie |-> NextCookie, raced |-> FALSE]
      /\ UNCHANGED <<claim, run, row, told, granted, month>>
  BY DEF Login
<1>2. account' \in Account /\ Bound' /\ account'.cookie = NextCookie /\ account'.status = "active"
  <2>1. [status |-> "active", cookie |-> NextCookie, raced |-> FALSE] \in Account
    BY <1>1 DEF Account
  <2> QED BY <1>1, <2>1 DEF Bound
<1>3. TypeOK'
  BY <1>1, <1>2 DEF Login, IInv, TypeOK
<1>4. ASSUME NEW c \in Claims, claim[c] # None PROVE Known(c)'
  <2>1. Bound /\ Known(c) /\ claim[c] \in Claim /\ account \in Account
    BY <1>4 DEF IInv, ClaimsKnown, Known, TypeOK, Bound
  <2>2. NextCookie = account.cookie + 1 /\ claim[c].cookie \in Nat /\ account.cookie \in Nat
    BY <2>1 DEF NextCookie, Claim, Account
  <2>3. claim[c].cookie <= NextCookie /\ claim[c].cookie # NextCookie
    BY <2>1, <2>2 DEF Known
  <2> QED BY <1>1, <1>2, <2>1, <2>3 DEF Known
<1>5. ClaimsKnown'
  BY <1>1, <1>4 DEF ClaimsKnown
<1> QED BY <1>1, <1>2, <1>3, <1>5 DEF IInv, FinalIsGranted, ExpiredForCause

\* The steps that leave claims and results alone.
LEMMA OutsideStep == IInv /\ (CookieDies \/ SetJob \/ NextMonth) => IInv'
<1> USE ClaimAssumption, Numbers
<1>1. ASSUME IInv, CookieDies PROVE IInv'
  BY <1>1 DEF CookieDies, IInv, TypeOK, ClaimsKnown, Known, FinalIsGranted, ExpiredForCause, Bound
<1>2. ASSUME IInv, SetJob PROVE IInv'
  BY <1>2 DEF SetJob, IInv, TypeOK, ClaimsKnown, Known, FinalIsGranted, ExpiredForCause, Bound
<1>3. ASSUME IInv, NextMonth PROVE IInv'
  <2>1. TypeOK' /\ FinalIsGranted' /\ ExpiredForCause'
    BY <1>3 DEF NextMonth, IInv, TypeOK, FinalIsGranted, ExpiredForCause, Months, Bound
  <2>2. ASSUME NEW c \in Claims, claim'[c] # None PROVE Known(c)'
    BY <1>3, <2>2 DEF NextMonth, IInv, ClaimsKnown, Known, Bound
  <2> QED BY <2>1, <2>2 DEF IInv, ClaimsKnown
<1> QED BY <1>1, <1>2, <1>3

LEMMA BeginStep == ASSUME IInv, NEW c \in Claims, NEW direct \in BOOLEAN, Begin(c, direct)
                   PROVE  IInv'
<1> USE ClaimAssumption, Numbers
<1>1. /\ Bound /\ account \in Account /\ month \in Months
      /\ UNCHANGED <<account, job, live, row, told, granted, month>>
  BY DEF Begin, IInv, TypeOK, Bound
<1>2. FinalIsGranted' /\ ExpiredForCause'
  BY <1>1 DEF IInv, FinalIsGranted, ExpiredForCause, Bound
<1>3. CASE row[month] \in Final
  <2>1. claim' = claim /\ run' = [run EXCEPT ![c] = "skipped"]
    BY <1>3 DEF Begin, Skips
  <2> QED BY <1>1, <1>2, <2>1 DEF IInv, TypeOK, RunStatus, ClaimsKnown, Known, Bound
<1>4. CASE row[month] \notin Final
  <2> DEFINE r == [direct |-> direct, month |-> month, seen |-> row[month],
                   was |-> account.status, cookie |-> account.cookie, answer |-> None]
  <2>1. claim' = [claim EXCEPT ![c] = r] /\ run' = [run EXCEPT ![c] = "running"]
    BY <1>4 DEF Begin, Asks
  <2>2. r \in Claim /\ account.cookie \in Nat
    BY <1>1 DEF IInv, TypeOK, Claim, Account
  <2>3. TypeOK'
    BY <1>1, <2>1, <2>2 DEF IInv, TypeOK, RunStatus
  <2>4. ASSUME NEW x \in Claims, claim'[x] # None PROVE Known(x)'
    <3>1. CASE x = c
      <4>1. claim'[x] = r
        BY <3>1, <2>1 DEF IInv, TypeOK
      <4>2. r.answer \notin Final /\ r.answer # "auth"
        BY DEF Final, Answers, Results
      <4> QED BY <4>1, <4>2, <1>1, <1>4, <2>2 DEF Known, Bound
    <3>2. CASE x # c
      BY <3>2, <2>1, <2>4, <1>1 DEF IInv, TypeOK, ClaimsKnown, Known, Bound
    <3> QED BY <3>1, <3>2
  <2> QED BY <1>2, <2>3, <2>4 DEF IInv, ClaimsKnown
<1> QED BY <1>3, <1>4

LEMMA UpstreamStep == ASSUME IInv, NEW c \in Claims, Upstream(c) \/ AnswerLost(c) PROVE IInv'
<1> USE ClaimAssumption, Numbers
<1>1. CASE Upstream(c)
  <2>1. PICK answer \in Answers :
          /\ Asking(c)
          /\ IF Accepted(c)
             THEN answer # "auth" /\ (answer = "already_claimed" <=> month \in granted)
             ELSE answer = "auth"
          /\ claim' = [claim EXCEPT ![c].answer = answer]
          /\ granted' = IF answer = "success" THEN granted \cup {month} ELSE granted
          /\ UNCHANGED <<account, job, live, run, row, told, month>>
    BY <1>1 DEF Upstream
  <2>2. claim[c] \in Claim /\ Known(c) /\ month \in Months
    BY <2>1 DEF IInv, TypeOK, ClaimsKnown, Asking
  <2>3. claim' = [claim EXCEPT ![c] = [claim[c] EXCEPT !.answer = answer]]
    BY <2>1
  <2>4. [claim[c] EXCEPT !.answer = answer] \in Claim
    BY <2>2 DEF Claim
  <2>5. TypeOK'
    BY <2>1, <2>2, <2>3, <2>4 DEF IInv, TypeOK
  <2>6. granted \subseteq granted' /\ UNCHANGED <<account, row, told, month, live>>
    BY <2>1
  <2>7. FinalIsGranted' /\ ExpiredForCause'
    BY <2>6 DEF IInv, FinalIsGranted, ExpiredForCause, Bound
  <2>8. ASSUME NEW x \in Claims, claim'[x] # None PROVE Known(x)'
    <3>1. CASE x = c
      <4>1. /\ claim'[x].answer = answer /\ claim'[x].month = claim[c].month
            /\ claim'[x].cookie = claim[c].cookie /\ claim'[x].seen = claim[c].seen
        BY <3>1, <2>2, <2>3 DEF IInv, TypeOK, Claim
      <4>2. answer \in Final => month \in granted'
        BY <2>1 DEF Final
      <4>3. answer = "auth" => claim[c].cookie \notin live
        BY <2>1 DEF Accepted
      <4> QED BY <4>1, <4>2, <4>3, <2>2, <2>6 DEF Known, Bound
    <3>2. CASE x # c
      <4>1. claim'[x] = claim[x] /\ Known(x)
        BY <3>2, <2>3, <2>8 DEF IInv, TypeOK, ClaimsKnown
      <4> QED BY <4>1, <2>6 DEF Known, Bound
    <3> QED BY <3>1, <3>2
  <2> QED BY <2>5, <2>7, <2>8 DEF IInv, ClaimsKnown
<1>2. CASE AnswerLost(c)
  BY <1>2 DEF AnswerLost, IInv, TypeOK, ClaimsKnown, Known, FinalIsGranted, ExpiredForCause, Bound
<1> QED BY <1>1, <1>2

\* A claim that ends leaves the others as they are.
LEMMA EndsStep ==
    ASSUME TypeOK, ClaimsKnown, NEW c \in Claims, NEW status \in RunStatus, Ends(c, status),
           UNCHANGED <<live, granted, month>>,
           Bound => Bound' /\ account'.cookie = account.cookie
    PROVE  ClaimsKnown' /\ claim' \in [Claims -> Claim \cup {None}] /\ run' \in [Claims -> RunStatus]
<1>1. claim' = [claim EXCEPT ![c] = None] /\ run' = [run EXCEPT ![c] = status]
  BY DEF Ends
<1>2. ASSUME NEW x \in Claims, claim'[x] # None PROVE Known(x)'
  BY <1>1, <1>2 DEF TypeOK, ClaimsKnown, Known
<1> QED BY <1>1, <1>2 DEF TypeOK, ClaimsKnown

LEMMA RecordStep == ASSUME IInv, NEW c \in Claims, Record(c) PROVE IInv'
<1> USE ClaimAssumption, Numbers
<1> DEFINE m == claim[c].month
           status == claim[c].answer
<1>1. /\ claim[c] # None /\ status \in Results
      /\ row' = [row EXCEPT ![m] = IF status = claim[c].seen THEN @ ELSE status]
      /\ Ends(c, IF status = "error" THEN "failed" ELSE "succeeded")
      /\ UNCHANGED <<account, job, live, told, granted, month>>
  BY DEF Record, Answered
<1>2. claim[c] \in Claim /\ m \in Months /\ Known(c)
  BY <1>1 DEF IInv, TypeOK, ClaimsKnown, Claim
<1>3. ClaimsKnown' /\ claim' \in [Claims -> Claim \cup {None}] /\ run' \in [Claims -> RunStatus]
  <2>1. (IF status = "error" THEN "failed" ELSE "succeeded") \in RunStatus
    BY DEF RunStatus
  <2> QED BY <1>1, <2>1, EndsStep DEF IInv, Bound
<1>4. row' \in [Months -> Results \cup {None}]
  BY <1>1, <1>2 DEF IInv, TypeOK
<1>5. FinalIsGranted'
  BY <1>1, <1>2 DEF IInv, TypeOK, FinalIsGranted, Known
<1> QED BY <1>1, <1>3, <1>4, <1>5 DEF IInv, TypeOK, ExpiredForCause, Bound

LEMMA RefusedStep == ASSUME IInv, NEW c \in Claims, Refused(c) PROVE IInv'
<1> USE ClaimAssumption, Numbers
<1>1. /\ claim[c] # None /\ claim[c].answer = "auth"
      /\ account' = IF claim[c].was = "expired" THEN account
                    ELSE [account EXCEPT !.status = "expired",
                                         !.raced = claim[c].cookie # account.cookie]
      /\ told' = TRUE /\ Ends(c, "failed") /\ job' \in {"none", "on", "off"}
      /\ UNCHANGED <<live, row, granted, month>>
  BY DEF Refused, Answered, IInv, TypeOK
<1>2. Known(c) /\ Bound /\ account \in Account
  BY <1>1 DEF IInv, TypeOK, ClaimsKnown, Known, Bound
<1>3. account' \in Account /\ Bound' /\ account'.cookie = account.cookie
  BY <1>1, <1>2 DEF Account, Bound
<1>4. ClaimsKnown' /\ claim' \in [Claims -> Claim \cup {None}] /\ run' \in [Claims -> RunStatus]
  <2>1. "failed" \in RunStatus
    BY DEF RunStatus
  <2> QED BY <1>1, <1>3, <2>1, EndsStep DEF IInv
<1>5. TypeOK' /\ FinalIsGranted'
  BY <1>1, <1>3, <1>4 DEF IInv, TypeOK, FinalIsGranted
<1>6. ExpiredForCause'
  <2>1. CASE claim[c].was = "expired"
    BY <2>1, <1>1 DEF IInv, ExpiredForCause, Bound
  <2>2. CASE claim[c].was # "expired"
    <3>1. CASE claim[c].cookie = account.cookie
      BY <3>1, <1>1, <1>2, <1>3 DEF ExpiredForCause, Known
    <3>2. CASE claim[c].cookie # account.cookie
      <4>1. account' = [account EXCEPT !.status = "expired", !.raced = TRUE]
        BY <3>2, <2>2, <1>1
      <4>2. account'.raced
        BY <4>1, <1>2 DEF Account
      <4> QED BY <4>2, <1>1 DEF ExpiredForCause
    <3> QED BY <3>1, <3>2
  <2> QED BY <2>1, <2>2
<1> QED BY <1>4, <1>5, <1>6 DEF IInv

\* Claims that end without a result, runs that end without a claim.
LEMMA QuietStep ==
    ASSUME IInv, NEW c \in Claims, RecordFails(c) \/ ClaimFails(c) \/ CleanupRun(c) \/ Restart
    PROVE  IInv'
<1> USE ClaimAssumption, Numbers
<1>1. UNCHANGED <<account, job, live, row, told, granted, month>>
  BY DEF RecordFails, ClaimFails, CleanupRun, Restart
<1>2. ClaimsKnown' /\ claim' \in [Claims -> Claim \cup {None}] /\ run' \in [Claims -> RunStatus]
  <2>1. CASE RecordFails(c) \/ ClaimFails(c)
    <3>1. PICK status \in RunStatus : Ends(c, status)
      BY <2>1 DEF RecordFails, ClaimFails, RunStatus
    <3> QED BY <3>1, <1>1, EndsStep DEF IInv, Bound
  <2>2. CASE CleanupRun(c)
    BY <2>2, <1>1 DEF CleanupRun, IInv, TypeOK, RunStatus, ClaimsKnown, Known, Bound
  <2>3. CASE Restart
    <3>1. claim' = [x \in Claims |-> None] /\ run' \in [Claims -> RunStatus]
      BY <2>3 DEF Restart, IInv, TypeOK, RunStatus
    <3> QED BY <3>1 DEF ClaimsKnown
  <2> QED BY <2>1, <2>2, <2>3
<1> QED BY <1>1, <1>2 DEF IInv, TypeOK, FinalIsGranted, ExpiredForCause, Bound

LEMMA StepIInv == IInv /\ [Next]_vars => IInv'
<1> SUFFICES ASSUME IInv, [Next]_vars PROVE IInv'
  OBVIOUS
<1>1. CASE Login \/ CookieDies \/ SetJob \/ NextMonth
  BY <1>1, LoginStep, OutsideStep
<1>2. CASE Restart /\ Claims = {}
  BY <1>2 DEF Restart, IInv, TypeOK, ClaimsKnown, FinalIsGranted, ExpiredForCause, Bound
<1>3. CASE Restart /\ Claims # {}
  BY <1>3, QuietStep
<1>4. ASSUME NEW c \in Claims,
             \/ ClaimNow(c) \/ Dispatch(c) \/ Upstream(c) \/ AnswerLost(c)
             \/ Record(c) \/ RecordFails(c) \/ Refused(c) \/ ClaimFails(c) \/ CleanupRun(c)
      PROVE  IInv'
  BY <1>4, BeginStep, UpstreamStep, RecordStep, RefusedStep, QuietStep DEF ClaimNow, Dispatch
<1>5. CASE UNCHANGED vars
  BY <1>5 DEF vars, IInv, TypeOK, ClaimsKnown, Known, FinalIsGranted, ExpiredForCause, Bound
<1> QED BY <1>1, <1>2, <1>3, <1>4, <1>5 DEF Next

LEMMA Inductive == Spec => []IInv
BY InitIInv, StepIInv, PTL DEF Spec

\* CouponsTyped: the types of the variables (TypeOK), in every behaviour.
THEOREM CouponsTyped == Spec => []TypeOK
BY Inductive, PTL DEF IInv

\* RecordedIsGranted: a month recorded as claimed has its coupon, or the next
\* month has it (FinalIsGranted), however the claims overlap.
THEOREM RecordedIsGranted == Spec => []FinalIsGranted
BY Inductive, PTL DEF IInv

\* ExpiryHasACause: an account marked expired has a cookie that is refused, or
\* had one renewed under a refused claim, and its owner was told
\* (ExpiredForCause).
THEOREM ExpiryHasACause == Spec => []ExpiredForCause
BY Inductive, PTL DEF IInv

\* FinalResultsStay: a final result is replaced only by a claim that read the
\* month's result before it was final (FinalStays).
THEOREM FinalResultsStay == Spec => FinalStays
<1>1. ASSUME IInv, [Next]_vars, NEW m \in Months, row[m] \in Final /\ row'[m] # row[m]
      PROVE  \E c \in Claims : /\ claim[c] # None /\ claim'[c] = None
                               /\ claim[c].month = m /\ claim[c].seen \notin Final
  <2>1. PICK c \in Claims : Record(c)
    BY <1>1 DEF Next, vars, Login, CookieDies, SetJob, NextMonth, Restart, ClaimNow, Dispatch, Begin,
                Upstream, AnswerLost, RecordFails, Refused, ClaimFails, CleanupRun
  <2>2. claim[c] # None /\ claim[c] \in Claim /\ claim' = [claim EXCEPT ![c] = None]
    BY <2>1, <1>1 DEF Record, Answered, Ends, IInv, TypeOK
  <2>3. claim[c].month = m /\ claim'[c] = None
    BY <2>1, <2>2, <1>1 DEF Record, IInv, TypeOK, Claim
  <2> QED BY <2>2, <2>3, <1>1 DEF IInv, ClaimsKnown, Known
<1>2. IInv /\ [Next]_vars =>
        [\A m \in Months : row[m] \in Final /\ row'[m] # row[m] =>
           \E c \in Claims : /\ claim[c] # None /\ claim'[c] = None
                             /\ claim[c].month = m /\ claim[c].seen \notin Final]_vars
  BY <1>1
<1> QED BY <1>2, Inductive, PTL DEF Spec, FinalStays
=============================================================================
