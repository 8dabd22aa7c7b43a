-------------------------- MODULE DailyTaskProofs --------------------------
(***************************************************************************)
(* Proofs about DailyTask for any number of runs, any target, protection,  *)
(* balance and retry budget.  The record a run has inserted but not        *)
(* committed makes it the only one that donates (OneAtATime), so what it   *)
(* computed from the answers of upstream stays true until it has given the *)
(* coins (Allowance), but for the coins of lost responses.                 *)
(***************************************************************************)
EXTENDS DailyTask, TLAPS

USE DailyAssumption

IInv == TypeOK /\ OneAtATime

\* A step of one run leaves the variables of the others alone.
LEMMA MoveOne ==
    ASSUME work \in [Runs -> Works], NEW r \in Runs, NEW w \in Works, Move(r, w)
    PROVE  /\ work' \in [Runs -> Works]
           /\ work'[r] = w
           /\ \A q \in Runs \ {r} : work'[q] = work[q]
BY DEF Move

\* A run that has ended.
LEMMA EndedType == Ended \in Works
BY DEF Ended, Works

\* A step of r after the insertion that changes neither the record nor the lock
\* keeps the invariant.
LEMMA QuietMove ==
    ASSUME IInv, NEW r \in Runs, NEW w \in Works, Move(r, w),
           w.pc \in Donating, work[r].pc \in Donating,
           UNCHANGED <<rec, lock, run, settings, hung>>, coins' \in Nat, balance' \in Nat, lost' \in Nat
    PROVE  IInv'
<1>1. /\ work' \in [Runs -> Works]
      /\ work'[r] = w
      /\ \A q \in Runs \ {r} : work'[q] = work[q]
  BY MoveOne DEF IInv, TypeOK
<1>2. TypeOK'
  BY <1>1 DEF IInv, TypeOK, settings
<1>3. OneAtATime'
  BY <1>1 DEF IInv, OneAtATime, Donating
<1> QED BY <1>2, <1>3 DEF IInv

LEMMA InitIInv == Init => IInv
<1> SUFFICES ASSUME Init PROVE IInv
  OBVIOUS
<1>1. TypeOK
  <2>1. work \in [Runs -> Works]
    BY EndedType DEF Init
  <2>2. rec \in [st : {"none", "skipped", "running", "success", "partial"}, coins : Nat]
    BY DEF Init, Record
  <2>3. coins \in Nat /\ balance \in Nat /\ lost \in Nat
    BY DEF Init
  <2> QED BY <2>1, <2>2, <2>3 DEF Init, TypeOK
<1>2. OneAtATime
  <2>1. \A r \in Runs : work[r].pc = "idle"
    BY DEF Init, Ended
  <2> QED BY <2>1 DEF Init, OneAtATime, Donating
<1> QED BY <1>1, <1>2 DEF IInv

\* Hanging changes nothing but the loop.
LEMMA HangStep == ASSUME IInv, NEW r \in Runs, Hang(r) PROVE IInv'
BY DEF Hang, settings, upstream, IInv, TypeOK, OneAtATime

\* Upstream counts in natural numbers.
LEMMA DonatedType == ASSUME IInv, NEW r \in Runs, Donated(r) PROVE coins' \in Nat /\ balance' \in Nat
BY DEF Donated, IInv, TypeOK

\* A run that ends releases its lock and leaves a record that is well typed; it
\* writes the record only if nobody else has inserted one.
LEMMA EndStep ==
    ASSUME IInv, NEW r \in Runs,
           NEW s \in {"succeeded", "partial_success", "skipped", "failed"}, End(r, s),
           rec' \in [st : {"none", "skipped", "running", "success", "partial"}, coins : Nat],
           lock' = IF lock = r THEN NoRun ELSE lock,
           rec' = rec \/ lock \in {r, NoRun},
           active' \in BOOLEAN, enabled' \in BOOLEAN, UNCHANGED <<upstream, hung>>
    PROVE  IInv'
<1>1. /\ work' \in [Runs -> Works]
      /\ work'[r].pc = "idle"
      /\ \A q \in Runs \ {r} : work'[q] = work[q]
  BY EndedType, MoveOne DEF End, IInv, TypeOK, Ended
<1>2. /\ run' \in [Runs -> {"none", "running", "succeeded", "partial_success", "skipped", "failed"}]
      /\ run'[r] = s
      /\ \A q \in Runs \ {r} : run'[q] = run[q]
  BY DEF End, IInv, TypeOK
<1>3. TypeOK'
  BY <1>1, <1>2 DEF IInv, TypeOK, upstream
<1>4. OneAtATime'
  <2>1. lock' # r /\ (lock = r => \A q \in Runs : lock' # q)
    OBVIOUS
  <2>2. \A q \in Runs \ {r} : lock' = q <=> lock = q
    OBVIOUS
  <2>3. \A q \in Runs \ {r} : lock = q => rec' = rec
    OBVIOUS
  <2> QED BY <1>1, <1>2, <2>1, <2>2, <2>3 DEF IInv, OneAtATime, Donating
<1> QED BY <1>3, <1>4 DEF IInv

\* Every step keeps the types and the exclusion.
LEMMA StepIInv == IInv /\ [Next]_vars => IInv'
<1> SUFFICES ASSUME IInv, [Next]_vars PROVE IInv'
  OBVIOUS
<1> USE DEF settings, upstream
<1>0. ASSUME NEW r \in Runs PROVE work[r] \in Works
  BY <1>0 DEF IInv, TypeOK
<1>1. ASSUME NEW r \in Runs, StartDisabled(r) PROVE IInv'
  <2>1. CASE Hang(r)
    BY <2>1, HangStep
  <2>2. CASE ~Hang(r)
    <3>1. /\ lock' = lock /\ ~LockedByOther(r) /\ run[r] = "none" /\ UNCHANGED <<settings, upstream, hung>>
          /\ rec' = IF rec.st = "none" THEN Record("skipped", 0) ELSE rec
          /\ End(r, IF rec.st = "none" THEN "skipped" ELSE "failed")
      BY <1>1, <2>2 DEF StartDisabled, Startable
    <3>2. rec' \in [st : {"none", "skipped", "running", "success", "partial"}, coins : Nat]
      BY <3>1 DEF Record, IInv, TypeOK
    <3>3. lock = NoRun
      BY <3>1 DEF IInv, OneAtATime, LockedByOther, Donating
    <3>4. CASE rec.st = "none"
      BY <3>1, <3>2, <3>3, <3>4, EndStep DEF IInv, TypeOK
    <3>5. CASE rec.st # "none"
      BY <3>1, <3>2, <3>3, <3>5, EndStep DEF IInv, TypeOK
    <3> QED BY <3>4, <3>5
  <2> QED BY <2>1, <2>2
<1>2. ASSUME NEW r \in Runs, StartFinished(r) PROVE IInv'
  <2>1. End(r, "skipped") /\ lock' = lock /\ lock # r /\ rec' = rec /\ UNCHANGED <<settings, upstream, hung>>
    BY <1>2 DEF StartFinished, IInv, OneAtATime
  <2> QED BY <2>1, EndStep DEF IInv, TypeOK
<1>3. ASSUME NEW r \in Runs, Start(r) PROVE IInv'
  <2> DEFINE w == [work[r] EXCEPT !.pc = "reward"]
  <2>1. w \in Works /\ w.pc = "reward" /\ Move(r, w) /\ work[r].pc = "idle"
    BY <1>0, <1>3 DEF Start, Startable, Works, IInv, OneAtATime
  <2> HIDE DEF w
  <2>2. /\ work' \in [Runs -> Works]
        /\ work'[r] = w
        /\ \A q \in Runs \ {r} : work'[q] = work[q]
    BY <2>1, MoveOne DEF IInv, TypeOK
  <2>3. TypeOK'
    BY <1>3, <2>2 DEF Start, IInv, TypeOK
  <2>4. OneAtATime'
    BY <1>3, <2>1, <2>2 DEF Start, IInv, TypeOK, OneAtATime, Donating
  <2> QED BY <2>3, <2>4 DEF IInv
<1>4. ASSUME NEW r \in Runs, Insert(r) PROVE IInv'
  <2>1. CASE Hang(r)
    BY <2>1, HangStep
  <2>2. CASE /\ ~LockedByOther(r) /\ rec.st # "none"
             /\ End(r, "skipped")
             /\ UNCHANGED <<rec, lock, settings, upstream, hung>>
    <3>1. lock # r
      BY <2>2 DEF IInv, OneAtATime
    <3> QED BY <2>2, <3>1, EndStep DEF IInv, TypeOK
  <2>3. CASE /\ ~LockedByOther(r) /\ rec.st = "none"
             /\ lock' = r
             /\ \E other \in BOOLEAN : Move(r, [work[r] EXCEPT !.pc = "exp", !.other = other])
             /\ UNCHANGED <<rec, run, settings, upstream, hung>>
    <3> PICK other \in BOOLEAN : Move(r, [work[r] EXCEPT !.pc = "exp", !.other = other])
      BY <2>3
    <3> DEFINE w == [work[r] EXCEPT !.pc = "exp", !.other = other]
    <3>1. w \in Works /\ w.pc = "exp" /\ Move(r, w) /\ work[r].pc = "reward"
      BY <1>0, <1>4 DEF Insert, At, Works
    <3> HIDE DEF w
    <3>2. /\ work' \in [Runs -> Works]
          /\ work'[r] = w
          /\ \A q \in Runs \ {r} : work'[q] = work[q]
      BY <3>1, MoveOne DEF IInv, TypeOK
    <3>3. TypeOK'
      BY <2>3, <3>2 DEF IInv, TypeOK
    <3>4. lock = NoRun
      BY <2>3, <3>1 DEF LockedByOther, IInv, OneAtATime, Donating
    <3>5. OneAtATime'
      BY <2>3, <3>1, <3>2, <3>4 DEF IInv, OneAtATime, Donating
    <3> QED BY <3>3, <3>5 DEF IInv
  <2> QED BY <1>4, <2>1, <2>2, <2>3 DEF Insert
<1>5. ASSUME NEW r \in Runs, GiveUp(r) PROVE IInv'
  <2> DEFINE w == [work[r] EXCEPT !.pc = "close"]
  <2>1. w \in Works /\ Move(r, w) /\ w.pc = "close" /\ work[r].pc \in {"exp", "balance", "pick"}
    BY <1>0, <1>5 DEF GiveUp, Works
  <2> HIDE DEF w
  <2> QED BY <1>5, <2>1, QuietMove DEF GiveUp, Donating, IInv, TypeOK
<1>6. ASSUME NEW r \in Runs, ReadExp(r) PROVE IInv'
  <2> DEFINE w == [work[r] EXCEPT !.pc = "balance", !.need = Target - coins]
  <2>0. Target - coins \in Nat
    BY <1>6 DEF ReadExp, IInv, TypeOK
  <2>1. w \in Works /\ Move(r, w) /\ w.pc = "balance" /\ work[r].pc = "exp"
    BY <1>0, <1>6, <2>0 DEF ReadExp, At, Works
  <2> HIDE DEF w
  <2> QED BY <1>6, <2>1, QuietMove DEF ReadExp, Donating, IInv, TypeOK
<1>7. ASSUME NEW r \in Runs, ReadBalance(r) PROVE IInv'
  <2> DEFINE n == Least(Least(work[r].need, balance - Protected), MaxAttempts)
             w == [work[r] EXCEPT !.pc = "pick", !.need = n]
  <2>0. n \in Nat
    BY <1>0, <1>7 DEF ReadBalance, IInv, TypeOK, Least, Works
  <2> HIDE DEF n
  <2>1. w \in Works /\ w.pc = "pick"
    BY <1>0, <2>0 DEF Works
  <2>2. Move(r, w) /\ work[r].pc = "balance"
    BY <1>7 DEF ReadBalance, At, n
  <2> HIDE DEF w
  <2> QED BY <1>7, <2>1, <2>2, QuietMove DEF ReadBalance, Donating, IInv, TypeOK
<1>8. ASSUME NEW r \in Runs, Pick(r) PROVE IInv'
  <2>0. work[r].attempts + 1 \in 0..MaxAttempts /\ work[r].pc = "pick"
    BY <1>0, <1>8 DEF Pick, At, Works
  <2>1. CASE Move(r, [work[r] EXCEPT !.attempts = @ + 1])
    <3> DEFINE w == [work[r] EXCEPT !.attempts = @ + 1]
    <3>1. w \in Works /\ w.pc = "pick"
      BY <1>0, <2>0 DEF Works
    <3> HIDE DEF w
    <3> QED BY <1>8, <2>0, <2>1, <3>1, QuietMove DEF Pick, w, Donating, IInv, TypeOK
  <2>2. ASSUME NEW here \in {0, 1},
               Move(r, [work[r] EXCEPT !.pc = "post", !.attempts = @ + 1, !.here = here, !.tries = 0])
        PROVE  IInv'
    <3> DEFINE w == [work[r] EXCEPT !.pc = "post", !.attempts = @ + 1, !.here = here, !.tries = 0]
    <3>0. here \in 0..2 /\ 0 \in 0..MaxTries /\ Move(r, w)
      BY <2>2
    <3>1. w \in Works /\ w.pc = "post"
      BY <1>0, <2>0, <3>0 DEF Works
    <3> HIDE DEF w
    <3> QED BY <1>8, <2>0, <3>0, <3>1, QuietMove DEF Pick, Donating, IInv, TypeOK
  <2> QED BY <1>8, <2>1, <2>2 DEF Pick
<1>9. ASSUME NEW r \in Runs, Accepted(r) PROVE IInv'
  <2> DEFINE w == [work[r] EXCEPT !.pc = "pick", !.success = @ + 1]
  <2>0. work[r].success + 1 \in Nat
    BY <1>0 DEF Works
  <2>1. w \in Works /\ w.pc = "pick"
    BY <1>0, <2>0 DEF Works
  <2>2. Move(r, w) /\ work[r].pc = "post"
    BY <1>9 DEF Accepted, Posting, At
  <2> HIDE DEF w
  <2> QED BY <1>9, <2>1, <2>2, DonatedType, QuietMove DEF Accepted, Donating, IInv, TypeOK
<1>10. ASSUME NEW r \in Runs, Rejected(r) PROVE IInv'
  <2> PICK w \in Works : Move(r, w) /\ w.pc \in {"pick", "close"}
    BY <1>0, <1>10 DEF Rejected, Works
  <2> QED BY <1>10, QuietMove DEF Rejected, Posting, At, Donating, IInv, TypeOK
<1>11. ASSUME NEW r \in Runs, Lost(r) PROVE IInv'
  <2> DEFINE w == [work[r] EXCEPT !.tries = @ + 1, !.here = @ + 1]
  <2>0. /\ work[r].tries + 1 \in 0..MaxTries
        /\ work[r].here + 1 \in 0..2 /\ work[r].pc = "post"
    BY <1>0, <1>11 DEF Lost, Posting, Donated, At, Works
  <2>1. w \in Works /\ w.pc = "post"
    BY <1>0, <2>0 DEF Works
  <2>2. Move(r, w)
    BY <1>11 DEF Lost
  <2> HIDE DEF w
  <2>3. lost' \in Nat
    BY <1>11 DEF Lost, IInv, TypeOK
  <2> QED BY <1>11, <2>0, <2>1, <2>2, <2>3, DonatedType, QuietMove DEF Lost, Donating
<1>12. ASSUME NEW r \in Runs, Complete(r) PROVE IInv'
  <2>1. lock = r
    BY <1>12 DEF Complete, At, IInv, OneAtATime, Donating
  <2>2. rec' \in [st : {"none", "skipped", "running", "success", "partial"}, coins : Nat]
    BY <1>0, <1>12 DEF Complete, Record, Works
  <2>3. PICK s \in {"succeeded", "partial_success"} : End(r, s)
    BY <1>12 DEF Complete
  <2> QED BY <1>12, <2>1, <2>2, <2>3, EndStep DEF Complete, IInv, TypeOK
<1>13. ASSUME NEW r \in Runs, Fail(r) PROVE IInv'
  <2>1. rec' \in [st : {"none", "skipped", "running", "success", "partial"}, coins : Nat]
    BY <1>13 DEF Fail, Record, IInv, TypeOK
  <2>2. active' \in BOOLEAN /\ enabled' \in BOOLEAN
    BY <1>13 DEF Fail, IInv, TypeOK
  <2> QED BY <1>13, <2>1, <2>2, EndStep DEF Fail, IInv, TypeOK
<1>14. CASE Restart
  <2>1. work' \in [Runs -> Works] /\ \A r \in Runs : work'[r].pc = "idle"
    BY <1>14, EndedType DEF Restart, Ended
  <2>2. TypeOK'
    BY <1>14, <2>1 DEF Restart, IInv, TypeOK
  <2>3. OneAtATime'
    BY <1>14, <2>1 DEF Restart, IInv, TypeOK, OneAtATime, Donating
  <2> QED BY <2>2, <2>3 DEF IInv
<1>15. CASE UpdateProfile
  BY <1>15 DEF UpdateProfile, IInv, TypeOK, OneAtATime
<1>16. CASE Rebind
  BY <1>16 DEF Rebind, IInv, TypeOK, OneAtATime
<1>17. CASE UNCHANGED vars
  BY <1>17 DEF vars, IInv, TypeOK, OneAtATime
<1> QED
  BY <1>1, <1>2, <1>3, <1>4, <1>5, <1>6, <1>7, <1>8, <1>9, <1>10, <1>11, <1>12, <1>13,
     <1>14, <1>15, <1>16, <1>17 DEF Next
-----------------------------------------------------------------------------
(* What a run may still give.                                              *)

\* A step of r that takes no coin keeps the allowance if r's own still fits.
LEMMA FitsKept ==
    ASSUME IInv, Allowance, NEW r \in Runs, NEW w \in Works, Move(r, w), Fits(w),
           UNCHANGED upstream
    PROVE  Allowance'
<1> USE DEF upstream
<1>1. /\ work'[r] = w
      /\ \A q \in Runs \ {r} : work'[q] = work[q]
  BY MoveOne DEF IInv, TypeOK
<1> QED BY <1>1 DEF Allowance, Fits

\* A run that has not begun to donate, or has ended it, has nothing to give.
LEMMA IdleFits ==
    ASSUME NEW w \in Works, w.pc = "close" \/ (w.pc \in {"idle", "reward"} /\ w.success = 0)
    PROVE  Fits(w)
BY DEF Fits

\* A coin given by r is one of its allowance, or one of the lost ones; nobody
\* else has an allowance.
LEMMA CoinFits ==
    ASSUME IInv, Allowance, NEW r \in Runs, NEW w \in Works, Move(r, w),
           work[r].pc = "post", Donated(r), w.need = work[r].need,
           \/ w.pc = "pick" /\ w.success = work[r].success + 1 /\ lost' = lost
           \/ w.pc = "post" /\ w.success = work[r].success /\ lost' = lost + 1
    PROVE  Allowance'
<1>1. /\ work[r] \in Works /\ coins \in Nat /\ balance \in Nat /\ lost \in Nat
      /\ work[r].need \in Nat /\ work[r].success \in Nat
      /\ coins' = coins + 1 /\ balance' = balance - 1
  BY DEF IInv, TypeOK, Works, Donated
<1>2. /\ work'[r] = w
      /\ \A q \in Runs \ {r} : work'[q] = work[q]
  BY MoveOne DEF IInv, TypeOK
<1>3. \A q \in Runs \ {r} : work[q].pc \notin Donating
  BY DEF IInv, OneAtATime, Donating
<1>4. Fits(work[r])'
  <2>1. Fits(work[r])
    BY DEF Allowance
  <2> QED BY <1>1, <1>2, <2>1 DEF Fits
<1>5. \A q \in Runs \ {r} : Fits(work[q])'
  <2> SUFFICES ASSUME NEW q \in Runs \ {r} PROVE Fits(work[q])'
    OBVIOUS
  <2>1. Fits(work[q]) /\ work'[q] = work[q] /\ work[q] \in Works /\ work[q].pc \notin Donating
    BY <1>2, <1>3 DEF Allowance, IInv, TypeOK
  <2> QED BY <2>1 DEF Fits, Donating
<1> QED BY <1>4, <1>5 DEF Allowance

\* Every step keeps the allowance.
LEMMA StepAllowance == IInv /\ Allowance /\ [Next]_vars => Allowance'
<1> SUFFICES ASSUME IInv, Allowance, [Next]_vars PROVE Allowance'
  OBVIOUS
<1> USE DEF settings, upstream
<1>0. ASSUME NEW r \in Runs
      PROVE  work[r] \in Works /\ work[r].need \in Nat /\ work[r].success \in Nat /\ Fits(work[r])
  BY <1>0 DEF IInv, TypeOK, Allowance, Works
<1>a. coins \in Nat /\ balance \in Nat /\ lost \in Nat
  BY DEF IInv, TypeOK
<1>b. ASSUME NEW r \in Runs, Move(r, Ended), UNCHANGED upstream PROVE Allowance'
  BY <1>b, EndedType, IdleFits, FitsKept DEF Ended
<1>c. ASSUME UNCHANGED <<work, upstream>> PROVE Allowance'
  BY <1>c DEF Allowance, Fits
<1>1. ASSUME NEW r \in Runs, StartDisabled(r) PROVE Allowance'
  BY <1>1, <1>b, <1>c DEF StartDisabled, Hang, End
<1>2. ASSUME NEW r \in Runs, StartFinished(r) PROVE Allowance'
  BY <1>2, <1>b DEF StartFinished, End
<1>3. ASSUME NEW r \in Runs, Start(r) PROVE Allowance'
  <2> DEFINE w == [work[r] EXCEPT !.pc = "reward"]
  <2>0. work[r].pc = "idle"
    BY <1>3 DEF Start, Startable, IInv, OneAtATime
  <2>1. w \in Works /\ w.pc = "reward" /\ w.success = 0 /\ Move(r, w)
    BY <1>0, <1>3, <2>0 DEF Start, Works, Fits
  <2> HIDE DEF w
  <2> QED BY <1>3, <2>1, IdleFits, FitsKept DEF Start
<1>4. ASSUME NEW r \in Runs, Insert(r) PROVE Allowance'
  <2>1. CASE Hang(r) \/ End(r, "skipped")
    <3>1. UNCHANGED upstream
      BY <1>4 DEF Insert, Hang
    <3> QED BY <2>1, <3>1, <1>b, <1>c DEF Hang, End
  <2>2. ASSUME NEW other \in BOOLEAN, Move(r, [work[r] EXCEPT !.pc = "exp", !.other = other])
        PROVE  Allowance'
    <3> DEFINE w == [work[r] EXCEPT !.pc = "exp", !.other = other]
    <3>1. w \in Works /\ w.pc = "exp" /\ w.success = work[r].success
      BY <1>0 DEF Works
    <3>2. Move(r, w) /\ work[r].pc = "reward"
      BY <1>4, <2>2 DEF Insert, At
    <3> HIDE DEF w
    <3>3. Fits(w)
      BY <1>0, <3>1, <3>2 DEF Fits
    <3>4. UNCHANGED upstream
      BY <1>4 DEF Insert, Hang
    <3> QED BY <3>1, <3>2, <3>3, <3>4, FitsKept
  <2>3. \/ Hang(r) \/ End(r, "skipped")
        \/ \E other \in BOOLEAN : Move(r, [work[r] EXCEPT !.pc = "exp", !.other = other])
    BY <1>4 DEF Insert
  <2> QED BY <2>1, <2>2, <2>3
<1>5. ASSUME NEW r \in Runs, GiveUp(r) PROVE Allowance'
  <2> DEFINE w == [work[r] EXCEPT !.pc = "close"]
  <2>1. w \in Works /\ w.pc = "close" /\ Move(r, w)
    BY <1>0, <1>5 DEF GiveUp, Works
  <2> HIDE DEF w
  <2>2. Fits(w)
    BY <2>1 DEF Fits
  <2>3. UNCHANGED upstream
    BY <1>5 DEF GiveUp
  <2> QED BY <2>1, <2>2, <2>3, FitsKept
<1>6. ASSUME NEW r \in Runs, ReadExp(r) PROVE Allowance'
  <2> DEFINE w == [work[r] EXCEPT !.pc = "balance", !.need = Target - coins]
  <2>0. Target - coins \in Nat /\ work[r].pc = "exp"
    BY <1>6, <1>a DEF ReadExp, At
  <2>1. w \in Works /\ w.pc = "balance" /\ w.need = Target - coins /\ w.success = work[r].success
    BY <1>0, <2>0 DEF Works
  <2>2. Move(r, w)
    BY <1>6 DEF ReadExp
  <2> HIDE DEF w
  <2>3. Fits(w)
    BY <1>0, <1>a, <2>0, <2>1 DEF Fits
  <2> QED BY <1>6, <2>1, <2>2, <2>3, FitsKept DEF ReadExp
<1>7. ASSUME NEW r \in Runs, ReadBalance(r) PROVE Allowance'
  <2> DEFINE n == Least(Least(work[r].need, balance - Protected), MaxAttempts)
             w == [work[r] EXCEPT !.pc = "pick", !.need = n]
  <2>0. n \in Nat /\ n <= work[r].need /\ n <= balance - Protected /\ work[r].pc = "balance"
    BY <1>0, <1>a, <1>7 DEF ReadBalance, Least, At
  <2>1. Move(r, w)
    BY <1>7 DEF ReadBalance, n
  <2> HIDE DEF n
  <2>2. w \in Works /\ w.pc = "pick" /\ w.need = n /\ w.success = work[r].success
    BY <1>0, <2>0 DEF Works
  <2> HIDE DEF w
  <2>3. Fits(w)
    BY <1>0, <1>a, <2>0, <2>2 DEF Fits
  <2> QED BY <1>7, <2>1, <2>2, <2>3, FitsKept DEF ReadBalance
<1>8. ASSUME NEW r \in Runs, Pick(r) PROVE Allowance'
  <2>0. /\ work[r].attempts + 1 \in 0..MaxAttempts /\ work[r].pc = "pick"
        /\ work[r].success < work[r].need /\ UNCHANGED upstream
    BY <1>0, <1>8 DEF Pick, At, Works
  <2>1. CASE Move(r, [work[r] EXCEPT !.attempts = @ + 1])
    <3> DEFINE w == [work[r] EXCEPT !.attempts = @ + 1]
    <3>1. /\ w \in Works /\ w.pc = "pick"
          /\ w.need = work[r].need /\ w.success = work[r].success
      BY <1>0, <2>0 DEF Works
    <3>2. Move(r, w)
      BY <2>1
    <3> HIDE DEF w
    <3>3. Fits(w)
      BY <1>0, <1>a, <2>0, <3>1 DEF Fits
    <3> QED BY <2>0, <3>1, <3>2, <3>3, FitsKept
  <2>2. ASSUME NEW here \in {0, 1},
               Move(r, [work[r] EXCEPT !.pc = "post", !.attempts = @ + 1, !.here = here, !.tries = 0])
        PROVE  Allowance'
    <3> DEFINE w == [work[r] EXCEPT !.pc = "post", !.attempts = @ + 1, !.here = here, !.tries = 0]
    <3>0. here \in 0..2 /\ 0 \in 0..MaxTries /\ Move(r, w)
      BY <2>2
    <3>1. /\ w \in Works /\ w.pc = "post"
          /\ w.need = work[r].need /\ w.success = work[r].success
      BY <1>0, <2>0, <3>0 DEF Works
    <3> HIDE DEF w
    <3>2. Fits(w)
      BY <1>0, <1>a, <2>0, <3>1 DEF Fits
    <3> QED BY <2>0, <3>0, <3>1, <3>2, FitsKept
  <2> QED BY <1>8, <2>1, <2>2 DEF Pick
<1>9. ASSUME NEW r \in Runs, Accepted(r) PROVE Allowance'
  <2> DEFINE w == [work[r] EXCEPT !.pc = "pick", !.success = @ + 1]
  <2>0. work[r].success + 1 \in Nat
    BY <1>0 DEF Works
  <2>1. w \in Works /\ w.pc = "pick" /\ w.need = work[r].need /\ w.success = work[r].success + 1
    BY <1>0, <2>0 DEF Works
  <2>2. Move(r, w) /\ work[r].pc = "post" /\ Donated(r) /\ lost' = lost
    BY <1>9 DEF Accepted, Posting, At
  <2> HIDE DEF w
  <2> QED BY <2>1, <2>2, CoinFits
<1>10. ASSUME NEW r \in Runs, Rejected(r) PROVE Allowance'
  <2>0. work[r].pc = "post" /\ UNCHANGED upstream
    BY <1>10 DEF Rejected, Posting, At
  <2> PICK next \in {"pick", "close"} : Move(r, [work[r] EXCEPT !.pc = next])
    BY <1>10 DEF Rejected
  <2> DEFINE w == [work[r] EXCEPT !.pc = next]
  <2>1. /\ w \in Works /\ w.pc = next
        /\ w.need = work[r].need /\ w.success = work[r].success
    BY <1>0 DEF Works
  <2>2. Move(r, w)
    OBVIOUS
  <2> HIDE DEF w
  <2>3. Fits(w)
    BY <1>0, <1>a, <2>0, <2>1 DEF Fits
  <2> QED BY <2>0, <2>1, <2>2, <2>3, FitsKept
<1>11. ASSUME NEW r \in Runs, Lost(r) PROVE Allowance'
  <2> DEFINE w == [work[r] EXCEPT !.tries = @ + 1, !.here = @ + 1]
  <2>0. /\ work[r].tries + 1 \in 0..MaxTries
        /\ work[r].here + 1 \in 0..2 /\ work[r].pc = "post"
    BY <1>0, <1>11 DEF Lost, Posting, Donated, At, Works
  <2>1. /\ w \in Works /\ w.pc = "post"
        /\ w.need = work[r].need /\ w.success = work[r].success
    BY <1>0, <2>0 DEF Works
  <2>2. Move(r, w) /\ Donated(r) /\ lost' = lost + 1
    BY <1>11 DEF Lost
  <2> HIDE DEF w
  <2> QED BY <2>0, <2>1, <2>2, CoinFits
<1>12. ASSUME NEW r \in Runs, Complete(r) PROVE Allowance'
  BY <1>12, <1>b DEF Complete, End
<1>13. ASSUME NEW r \in Runs, Fail(r) PROVE Allowance'
  BY <1>13, <1>b DEF Fail, End
<1>14. CASE Restart
  <2>1. \A r \in Runs : work'[r] = Ended
    BY <1>14 DEF Restart
  <2> QED BY <2>1 DEF Allowance, Fits, Ended
<1>15. CASE UpdateProfile
  BY <1>15, <1>c DEF UpdateProfile
<1>16. CASE Rebind
  BY <1>16, <1>c DEF Rebind
<1>17. CASE UNCHANGED vars
  BY <1>17, <1>c DEF vars
<1> QED
  BY <1>1, <1>2, <1>3, <1>4, <1>5, <1>6, <1>7, <1>8, <1>9, <1>10, <1>11, <1>12, <1>13,
     <1>14, <1>15, <1>16, <1>17 DEF Next

-----------------------------------------------------------------------------
(* The theorems.                                                           *)

\* Whatever the target, the runs and the answers of upstream: every variable
\* keeps its type, and at most one run at a time works on an open day.
THEOREM DailyInvariant == Spec => [](TypeOK /\ OneAtATime)
<1>1. Init => IInv
  BY InitIInv
<1>2. IInv /\ [Next]_vars => IInv'
  BY StepIInv
<1>3. IInv => TypeOK /\ OneAtATime
  BY DEF IInv
<1> QED BY <1>1, <1>2, <1>3, PTL DEF Spec

\* Once the day's record is committed it is never rewritten, and nobody donates
\* any more that day (the unique constraint of daily_task_records does it).
THEOREM DayIsClosedOnce == Spec => DayClosedOnce
<1>1. IInv /\ [Next]_vars => [rec.st # "none" => rec' = rec /\ coins' = coins]_vars
  <2> SUFFICES ASSUME IInv, Next, rec.st # "none" PROVE rec' = rec /\ coins' = coins
    BY DEF vars
  <2> USE DEF settings, upstream
  <2>1. \A r \in Runs : work[r].pc \notin Donating /\ lock # r
    BY DEF IInv, OneAtATime
  <2>2. ASSUME NEW r \in Runs,
               \/ StartDisabled(r) \/ StartFinished(r) \/ Start(r) \/ Insert(r) \/ GiveUp(r)
               \/ ReadExp(r) \/ ReadBalance(r) \/ Pick(r) \/ Rejected(r)
        PROVE  rec' = rec /\ coins' = coins
    BY <2>2 DEF StartDisabled, StartFinished, Start, Insert, Hang, GiveUp, ReadExp, ReadBalance, Pick, Rejected
  <2>3. ASSUME NEW r \in Runs PROVE ~Accepted(r) /\ ~Lost(r) /\ ~Complete(r)
    BY <2>1, <2>3 DEF Accepted, Lost, Complete, Posting, At, Donating
  <2>4. ASSUME NEW r \in Runs, Fail(r) PROVE rec' = rec /\ coins' = coins
    BY <2>1, <2>4 DEF Fail
  <2>5. CASE Restart \/ UpdateProfile \/ Rebind
    BY <2>5 DEF Restart, UpdateProfile, Rebind
  <2> QED BY <2>2, <2>3, <2>4, <2>5 DEF Next
<1> QED BY <1>1, InitIInv, StepIInv, PTL DEF Spec, DayClosedOnce

\* No run donates beyond the target of the day, however many runs failed, were
\* cancelled or died before it, and none touches the protected coins; what
\* _request_json repeats after a lost response is the only excess.
THEOREM DonatesWithinMeans == Spec => WithinTargetButLost /\ ProtectedButLost
<1>1. Init => Allowance
  BY IdleFits, EndedType DEF Init, Allowance, Ended
<1>2. IInv /\ Allowance /\ [Next]_vars
        => /\ [coins' > coins => coins' <= Target + lost']_vars
           /\ [balance' < balance => balance' + lost' >= Protected]_vars
  <2> SUFFICES ASSUME IInv, Allowance, Next, coins' # coins \/ balance' # balance
               PROVE  coins' <= Target + lost' /\ balance' + lost' >= Protected
    BY DEF vars, IInv, TypeOK
  <2> PICK r \in Runs : Accepted(r) \/ Lost(r)
    BY DEF Next, settings, upstream, StartDisabled, StartFinished, Start, Insert, Hang, GiveUp, ReadExp,
           ReadBalance, Pick, Rejected, Complete, Fail, Restart, UpdateProfile, Rebind
  <2> DEFINE rest == work[r].need - work[r].success
  <2>1. /\ work[r].pc = "post" /\ coins' = coins + 1 /\ balance' = balance - 1
        /\ rest \in Int /\ coins \in Nat /\ balance \in Nat /\ lost \in Nat
    BY DEF Accepted, Lost, Posting, Donated, At, IInv, TypeOK, Works
  <2>2. rest > 0 /\ coins + rest <= Target + lost /\ Protected + rest <= balance + lost
    BY <2>1 DEF Allowance, Fits
  <2>3. lost' = lost \/ lost' = lost + 1
    BY DEF Accepted, Lost
  <2> HIDE DEF rest
  <2> QED BY <2>1, <2>2, <2>3
<1> QED BY <1>1, <1>2, InitIInv, StepIInv, StepAllowance, PTL DEF Spec, WithinTargetButLost, ProtectedButLost

\* What a run computed from the answers of upstream stays affordable at every
\* await, whatever the other runs of the day do meanwhile.
THEOREM AllowanceStands == Spec => []Allowance
<1>1. Init => Allowance
  BY IdleFits, EndedType DEF Init, Allowance, Ended
<1> QED BY <1>1, InitIInv, StepIInv, StepAllowance, PTL DEF Spec

\* Every variable keeps its type.
THEOREM DailyTyped == Spec => []TypeOK
<1>1. TypeOK /\ OneAtATime => TypeOK
  OBVIOUS
<1> QED BY <1>1, DailyInvariant, PTL

\* A run does not count more coins than were given.
Counted == \A r \in Runs : work[r].success <= coins

\* A step of r that counts no coin it did not give.
LEMMA CountKept ==
    ASSUME IInv, Counted, NEW r \in Runs, NEW w \in Works, Move(r, w),
           coins' \in Nat, coins <= coins', w.success <= coins'
    PROVE  Counted'
<1>1. work'[r] = w /\ \A q \in Runs \ {r} : work'[q] = work[q]
  BY MoveOne DEF IInv, TypeOK
<1>2. \A q \in Runs : work[q].success <= coins /\ work[q].success \in Nat /\ coins \in Nat
  BY DEF Counted, IInv, TypeOK, Works
<1>3. \A q \in Runs \ {r} : work'[q].success <= coins'
  BY <1>1, <1>2
<1> QED BY <1>1, <1>3 DEF Counted

\* Every step keeps the claim of the record and the counts of the runs below
\* what was given.
LEMMA StepCounted ==
    IInv /\ AuditNeverOverstates /\ Counted /\ [Next]_vars => AuditNeverOverstates' /\ Counted'
<1> DEFINE J == AuditNeverOverstates /\ Counted
<1> SUFFICES ASSUME IInv, AuditNeverOverstates, Counted, [Next]_vars PROVE J'
  OBVIOUS
<1> USE DEF settings, upstream
<1>0. coins \in Nat /\ rec.coins <= coins /\ rec.coins \in Nat
  BY DEF IInv, TypeOK, AuditNeverOverstates
<1>a. ASSUME NEW r \in Runs
      PROVE  work[r] \in Works /\ work[r].success \in Nat /\ work[r].success <= coins
  BY <1>a DEF IInv, TypeOK, Works, Counted
<1>b. ASSUME UNCHANGED <<work, rec, coins>> PROVE J'
  BY <1>b DEF AuditNeverOverstates, Counted
<1>c. ASSUME NEW r \in Runs, Move(r, Ended), UNCHANGED coins, rec'.coins <= coins PROVE J'
  <2>1. Ended \in Works /\ Ended.success = 0
    BY EndedType DEF Ended
  <2>2. Counted'
    BY <1>0, <1>c, <2>1, CountKept
  <2> QED BY <1>c, <2>2 DEF AuditNeverOverstates
<1>d. ASSUME NEW r \in Runs, NEW w \in Works, Move(r, w), UNCHANGED <<coins, rec>>,
             w.success = work[r].success
      PROVE  J'
  <2>1. Counted'
    BY <1>0, <1>a, <1>d, CountKept
  <2> QED BY <1>0, <1>d, <2>1 DEF AuditNeverOverstates
<1>1. ASSUME NEW r \in Runs, StartDisabled(r) PROVE J'
  <2>1. CASE Hang(r)
    BY <1>b, <2>1 DEF Hang
  <2>2. CASE ~Hang(r)
    <3>1. (\E s \in {"skipped", "failed"} : End(r, s)) /\ coins' = coins /\ rec' \in {Record("skipped", 0), rec}
      BY <1>1, <2>2 DEF StartDisabled
    <3>2. Move(r, Ended) /\ rec'.coins <= coins
      BY <1>0, <3>1 DEF End, Record
    <3> QED BY <1>c, <3>1, <3>2
  <2> QED BY <2>1, <2>2
<1>2. ASSUME NEW r \in Runs, StartFinished(r) PROVE J'
  BY <1>0, <1>2, <1>c DEF StartFinished, End
<1>3. ASSUME NEW r \in Runs, Start(r) PROVE J'
  <2> DEFINE w == [work[r] EXCEPT !.pc = "reward"]
  <2>1. w \in Works /\ w.success = work[r].success
    BY <1>a, <1>3 DEF Works
  <2>2. Move(r, w) /\ UNCHANGED <<coins, rec>>
    BY <1>3 DEF Start
  <2> HIDE DEF w
  <2> QED BY <1>d, <2>1, <2>2
<1>4. ASSUME NEW r \in Runs, Insert(r) PROVE J'
  <2>0. UNCHANGED <<coins, rec>>
    BY <1>4 DEF Insert, Hang
  <2>1. CASE Hang(r)
    BY <1>b, <2>1 DEF Hang
  <2>2. CASE End(r, "skipped")
    BY <1>0, <1>c, <2>0, <2>2 DEF End
  <2>3. ASSUME NEW other \in BOOLEAN, Move(r, [work[r] EXCEPT !.pc = "exp", !.other = other])
        PROVE  J'
    <3> DEFINE w == [work[r] EXCEPT !.pc = "exp", !.other = other]
    <3>1. w \in Works /\ w.success = work[r].success
      BY <1>a DEF Works
    <3>2. Move(r, w)
      BY <2>3
    <3> HIDE DEF w
    <3> QED BY <1>d, <2>0, <3>1, <3>2
  <2>4. \/ Hang(r) \/ End(r, "skipped")
        \/ \E other \in BOOLEAN : Move(r, [work[r] EXCEPT !.pc = "exp", !.other = other])
    BY <1>4 DEF Insert
  <2> QED BY <2>1, <2>2, <2>3, <2>4
<1>5. ASSUME NEW r \in Runs, GiveUp(r) \/ ReadExp(r) \/ ReadBalance(r) \/ Pick(r) \/ Rejected(r) \/ Lost(r)
      PROVE  J'
  <2>a. /\ work' \in [Runs -> Works] /\ rec' = rec
        /\ coins' \in Nat /\ coins <= coins'
    <3>1. work' \in [Runs -> Works]
      BY <1>5, StepIInv DEF IInv, TypeOK, Next
    <3> QED BY <1>0, <1>5, <3>1 DEF GiveUp, ReadExp, ReadBalance, Pick, Rejected, Lost, Donated
  <2>b. ASSUME NEW w, Move(r, w), w.success = work[r].success PROVE J'
    <3>1. w \in Works
      BY <2>a, <2>b DEF Move, IInv, TypeOK
    <3>2. w.success <= coins'
      BY <1>0, <1>a, <2>a, <2>b
    <3>3. Counted'
      BY <2>a, <2>b, <3>1, <3>2, CountKept
    <3> QED BY <1>0, <2>a, <3>3 DEF AuditNeverOverstates
  <2>1. CASE GiveUp(r)
    <3> DEFINE w == [work[r] EXCEPT !.pc = "close"]
    <3>1. w.success = work[r].success
      BY <1>a DEF Works
    <3>2. Move(r, w)
      BY <2>1 DEF GiveUp
    <3> HIDE DEF w
    <3> QED BY <2>b, <3>1, <3>2
  <2>2. CASE ReadExp(r)
    <3> DEFINE w == [work[r] EXCEPT !.pc = "balance", !.need = Target - coins]
    <3>1. w.success = work[r].success
      BY <1>a DEF Works
    <3>2. Move(r, w)
      BY <2>2 DEF ReadExp
    <3> HIDE DEF w
    <3> QED BY <2>b, <3>1, <3>2
  <2>3. CASE ReadBalance(r)
    <3> DEFINE n == Least(Least(work[r].need, balance - Protected), MaxAttempts)
               w == [work[r] EXCEPT !.pc = "pick", !.need = n]
    <3>1. w.success = work[r].success
      BY <1>a DEF Works
    <3>2. Move(r, w)
      BY <2>3 DEF ReadBalance
    <3> HIDE DEF w
    <3> QED BY <2>b, <3>1, <3>2
  <2>4. CASE Pick(r)
    <3>1. CASE Move(r, [work[r] EXCEPT !.attempts = @ + 1])
      <4> DEFINE w == [work[r] EXCEPT !.attempts = @ + 1]
      <4>1. w.success = work[r].success
        BY <1>a DEF Works
      <4>2. Move(r, w)
        BY <3>1
      <4> HIDE DEF w
      <4> QED BY <2>b, <4>1, <4>2
    <3>2. ASSUME NEW here \in {0, 1},
                 Move(r, [work[r] EXCEPT !.pc = "post", !.attempts = @ + 1, !.here = here, !.tries = 0])
          PROVE  J'
      <4> DEFINE w == [work[r] EXCEPT !.pc = "post", !.attempts = @ + 1, !.here = here, !.tries = 0]
      <4>1. w.success = work[r].success
        BY <1>a DEF Works
      <4>2. Move(r, w)
        BY <3>2
      <4> HIDE DEF w
      <4> QED BY <2>b, <4>1, <4>2
    <3> QED BY <2>4, <3>1, <3>2 DEF Pick
  <2>5. CASE Rejected(r)
    <3> PICK next \in {"pick", "close"} : Move(r, [work[r] EXCEPT !.pc = next])
      BY <2>5 DEF Rejected
    <3> DEFINE w == [work[r] EXCEPT !.pc = next]
    <3>1. w.success = work[r].success
      BY <1>a DEF Works
    <3>2. Move(r, w)
      OBVIOUS
    <3> HIDE DEF w
    <3> QED BY <2>b, <3>1, <3>2
  <2>6. CASE Lost(r)
    <3> DEFINE w == [work[r] EXCEPT !.tries = @ + 1, !.here = @ + 1]
    <3>1. w.success = work[r].success
      BY <1>a DEF Works
    <3>2. Move(r, w)
      BY <2>6 DEF Lost
    <3> HIDE DEF w
    <3> QED BY <2>b, <3>1, <3>2
  <2> QED BY <1>5, <2>1, <2>2, <2>3, <2>4, <2>5, <2>6
<1>6. ASSUME NEW r \in Runs, Accepted(r) PROVE J'
  <2> DEFINE w == [work[r] EXCEPT !.pc = "pick", !.success = @ + 1]
  <2>0. work[r].success + 1 \in Nat
    BY <1>a
  <2>1. w \in Works /\ w.success = work[r].success + 1
    BY <1>a, <2>0 DEF Works
  <2>2. Move(r, w) /\ rec' = rec /\ coins' = coins + 1
    BY <1>6 DEF Accepted, Donated
  <2> HIDE DEF w
  <2>3. Counted'
    BY <1>0, <1>a, <2>1, <2>2, CountKept
  <2> QED BY <1>0, <2>2, <2>3 DEF AuditNeverOverstates
<1>7. ASSUME NEW r \in Runs, Complete(r) PROVE J'
  <2>1. rec'.coins = work[r].success /\ Move(r, Ended) /\ coins' = coins
    BY <1>7 DEF Complete, Record, End
  <2> QED BY <1>a, <1>c, <2>1
<1>8. ASSUME NEW r \in Runs, Fail(r) PROVE J'
  <2>1. rec'.coins <= coins /\ Move(r, Ended) /\ coins' = coins
    BY <1>0, <1>8 DEF Fail, Record, End
  <2> QED BY <1>c, <2>1
<1>9. CASE Restart
  BY <1>0, <1>9 DEF Restart, Ended, AuditNeverOverstates, Counted
<1>10. CASE UpdateProfile \/ Rebind \/ UNCHANGED vars
  BY <1>10, <1>b DEF UpdateProfile, Rebind, vars
<1> HIDE DEF J
<1> QED BY <1>1, <1>2, <1>3, <1>4, <1>5, <1>6, <1>7, <1>8, <1>9, <1>10 DEF Next


\* The record written by any run, closed or left behind, never claims a coin
\* that upstream has not taken (the audit trail of the README).
THEOREM AuditIsHonest == Spec => []AuditNeverOverstates
<1>1. Init => AuditNeverOverstates /\ Counted
  BY DEF Init, Ended, Record, AuditNeverOverstates, Counted
<1> QED BY <1>1, InitIInv, StepIInv, StepCounted, PTL DEF Spec

-----------------------------------------------------------------------------
(* The day as CoinDay sees it: one plan at a time.                         *)

\* Between the experience and the balance, what a run wants to give fits into
\* the target with nothing lost by it yet.
Exact == \A r \in Runs : work[r].pc = "balance" => work[r].need > 0 /\ coins + work[r].need <= Target

\* Only the run that holds the day takes coins, and it is not reading then.
LEMMA StepExact == IInv /\ Exact /\ [Next]_vars => Exact'
<1> SUFFICES ASSUME IInv, Exact, [Next]_vars, NEW q \in Runs, work'[q].pc = "balance"
             PROVE  work'[q].need > 0 /\ coins' + work'[q].need <= Target
  BY DEF Exact
<1> USE DEF settings, upstream
<1>0. /\ coins \in Nat /\ work \in [Runs -> Works]
      /\ work[q].pc = "balance" => work[q].need > 0 /\ coins + work[q].need <= Target
  BY DEF IInv, TypeOK, Exact
<1>a. ASSUME work'[q] = work[q], coins' = coins
      PROVE  work'[q].need > 0 /\ coins' + work'[q].need <= Target
  BY <1>0, <1>a
<1>b. ASSUME NEW r \in Runs, work'[r].pc # "balance", q # r => work'[q] = work[q], coins' = coins
      PROVE  work'[q].need > 0 /\ coins' + work'[q].need <= Target
  BY <1>a, <1>b
<1>c. ASSUME NEW r \in Runs, NEW s, End(r, s)
      PROVE  work'[r].pc # "balance" /\ (q # r => work'[q] = work[q])
  BY <1>0, <1>c DEF End, Ended, Move
<1>d. ASSUME NEW r \in Runs, NEW w, Move(r, w), w.pc # "balance"
      PROVE  work'[r].pc # "balance" /\ (q # r => work'[q] = work[q])
  BY <1>0, <1>d DEF Move
<1>1. ASSUME NEW r \in Runs,
             StartDisabled(r) \/ StartFinished(r) \/ Insert(r) \/ Complete(r) \/ Fail(r)
      PROVE  work'[q].need > 0 /\ coins' + work'[q].need <= Target
  <2>1. coins' = coins /\ (work' = work \/ (\E s : End(r, s)) \/ Insert(r))
    BY <1>1 DEF StartDisabled, Hang, StartFinished, Insert, Complete, Fail
  <2>2. CASE Insert(r)
    <3>1. ASSUME NEW other \in BOOLEAN, Move(r, [work[r] EXCEPT !.pc = "exp", !.other = other])
          PROVE  work'[r].pc = "exp" /\ (q # r => work'[q] = work[q])
      BY <1>0, <3>1 DEF Move, Works
    <3> QED BY <1>a, <1>b, <1>c, <2>1, <2>2, <3>1 DEF Insert, Hang
  <2> QED BY <1>a, <1>b, <1>c, <2>1, <2>2
<1>2. ASSUME NEW r \in Runs, Start(r) \/ GiveUp(r) \/ ReadBalance(r) \/ Rejected(r)
      PROVE  work'[q].need > 0 /\ coins' + work'[q].need <= Target
  <2>1. \E p \in {"reward", "close", "pick"} : work'[r].pc = p
    BY <1>0, <1>2 DEF Start, GiveUp, ReadBalance, Rejected, Move, Works
  <2>2. coins' = coins /\ (q # r => work'[q] = work[q])
    BY <1>0, <1>2 DEF Start, GiveUp, ReadBalance, Rejected, Move
  <2> QED BY <1>b, <2>1, <2>2
<1>3. ASSUME NEW r \in Runs, ReadExp(r)
      PROVE  work'[q].need > 0 /\ coins' + work'[q].need <= Target
  <2>1. CASE q = r
    <3>1. work'[r].need = Target - coins /\ Target > coins /\ coins' = coins
      BY <1>0, <1>3 DEF ReadExp, Move, Works
    <3> QED BY <1>0, <2>1, <3>1
  <2>2. CASE q # r
    BY <1>0, <1>3, <1>a, <2>2 DEF ReadExp, Move
  <2> QED BY <2>1, <2>2
<1>4. ASSUME NEW r \in Runs, Pick(r)
      PROVE  work'[q].need > 0 /\ coins' + work'[q].need <= Target
  <2>0. work[r] \in Works /\ work[r].pc = "pick" /\ coins' = coins
    BY <1>0, <1>4 DEF Pick, At
  <2>1. CASE Move(r, [work[r] EXCEPT !.attempts = @ + 1])
    <3> DEFINE w == [work[r] EXCEPT !.attempts = @ + 1]
    <3>1. w.pc = "pick" /\ Move(r, w)
      BY <2>0, <2>1 DEF Works
    <3> HIDE DEF w
    <3> QED BY <1>b, <1>d, <2>0, <3>1
  <2>2. ASSUME NEW here \in {0, 1},
               Move(r, [work[r] EXCEPT !.pc = "post", !.attempts = @ + 1, !.here = here, !.tries = 0])
        PROVE  work'[q].need > 0 /\ coins' + work'[q].need <= Target
    <3> DEFINE w == [work[r] EXCEPT !.pc = "post", !.attempts = @ + 1, !.here = here, !.tries = 0]
    <3>1. w.pc = "post" /\ Move(r, w)
      BY <2>0, <2>2 DEF Works
    <3> HIDE DEF w
    <3> QED BY <1>b, <1>d, <2>0, <3>1
  <2> QED BY <1>4, <2>1, <2>2 DEF Pick
<1>5. ASSUME NEW r \in Runs, Accepted(r) \/ Lost(r) PROVE FALSE
  <2>1. work[r] \in Works /\ work[r].pc = "post"
    BY <1>0, <1>5 DEF Accepted, Lost, Posting, At
  <2>2. ~(work'[r].pc # "balance" /\ (q # r => work'[q] = work[q]))
    BY <2>1 DEF IInv, OneAtATime, Donating
  <2>3. CASE Accepted(r)
    <3> DEFINE w == [work[r] EXCEPT !.pc = "pick", !.success = @ + 1]
    <3>1. w.pc = "pick" /\ Move(r, w)
      BY <2>1, <2>3 DEF Accepted, Works
    <3> HIDE DEF w
    <3> QED BY <1>d, <2>2, <3>1
  <2>4. CASE Lost(r)
    <3> DEFINE w == [work[r] EXCEPT !.tries = @ + 1, !.here = @ + 1]
    <3>1. w.pc = "post" /\ Move(r, w)
      BY <2>1, <2>4 DEF Lost, Works
    <3> HIDE DEF w
    <3> QED BY <1>d, <2>2, <3>1
  <2> QED BY <1>5, <2>3, <2>4
<1>6. CASE Restart
  BY <1>6 DEF Restart, Ended
<1>7. CASE UpdateProfile \/ Rebind \/ UNCHANGED vars
  BY <1>7, <1>a DEF UpdateProfile, Rebind, vars
<1> QED BY <1>1, <1>2, <1>3, <1>4, <1>5, <1>6, <1>7 DEF Next

\* The plan of the run that holds the day.
LEMMA PlanOfHolder ==
    ASSUME NEW r \in Runs, lock = r
    PROVE  Planned = IF work[r].pc \in {"pick", "post"} THEN work[r].need - work[r].success ELSE 0
BY DEF Planned

\* A step of a run that does not hold the day leaves the plan alone.
LEMMA PlanElsewhere ==
    ASSUME IInv, NEW r \in Runs, lock # r, lock' = lock, work' = work \/ \E w : Move(r, w)
    PROVE  Planned' = Planned
<1>1. lock # NoRun => work'[lock] = work[lock]
  BY DEF Move, IInv, TypeOK
<1> QED BY <1>1 DEF Planned

\* What a step of the holder makes of the plan.
LEMMA PlanMoved ==
    ASSUME IInv, NEW r \in Runs, lock' = r, NEW w, Move(r, w)
    PROVE  Planned' = IF w.pc \in {"pick", "post"} THEN w.need - w.success ELSE 0
<1>1. work'[r] = w
  BY DEF Move, IInv, TypeOK
<1> QED BY <1>1 DEF Planned

\* Every step of DailyTask is a step of CoinDay or changes nothing it sees.
LEMMA StepDay ==
    IInv /\ Allowance /\ AuditNeverOverstates /\ Counted /\ Exact /\ [Next]_vars => [Day!Next]_(Day!cvars)
<1> SUFFICES ASSUME IInv, Allowance, AuditNeverOverstates, Counted, Exact, [Next]_vars
             PROVE  [Day!Next]_(Day!cvars)
  OBVIOUS
<1> USE DEF settings, upstream
<1>0. ASSUME NEW r \in Runs
      PROVE  /\ work[r] \in Works /\ work[r].need \in Nat /\ work[r].success \in Nat
             /\ Fits(work[r]) /\ work[r].success <= coins
             /\ work[r].pc \in Donating <=> lock = r /\ rec.st = "none"
             /\ lock = r => rec.st = "none"
             /\ run[r] = "running" <=> work[r].pc # "idle"
  BY <1>0 DEF IInv, TypeOK, OneAtATime, Allowance, Counted, Works
<1>n. coins \in Nat /\ balance \in Nat /\ lost \in Nat
  BY DEF IInv, TypeOK
<1>a. ASSUME UNCHANGED <<coins, balance, lost, rec>>, Planned' = Planned PROVE UNCHANGED Day!cvars
  BY <1>a DEF Day!cvars
<1>b. ASSUME UNCHANGED <<coins, balance, lost, rec>>, Planned' = 0 PROVE Day!Next
  BY <1>b DEF Day!Drop, Day!Next
<1>c. ASSUME rec.st = "none", rec'.st # "none", rec'.coins \in 0..coins,
             UNCHANGED <<coins, balance, lost>>, Planned' = 0
      PROVE  Day!Next
  BY <1>c DEF Day!Close, Day!Next
<1>d. ASSUME lock' = NoRun PROVE Planned' = 0
  BY <1>d DEF Planned
<1>e. ASSUME NEW r \in Runs, work[r].pc \notin Donating, lock' = lock,
             work' = work \/ \E w : Move(r, w), UNCHANGED <<coins, balance, lost, rec>>
      PROVE  UNCHANGED Day!cvars
  <2>1. lock # r
    BY <1>0, <1>e
  <2> QED BY <1>a, <1>e, <2>1, PlanElsewhere
<1>h. ASSUME NEW r \in Runs, Hang(r) PROVE UNCHANGED Day!cvars
  BY <1>a, <1>h DEF Hang, Planned
<1>1. ASSUME NEW r \in Runs, StartDisabled(r) PROVE [Day!Next]_(Day!cvars)
  <2>1. CASE Hang(r)
    BY <1>h, <2>1
  <2>2. CASE ~Hang(r)
    <3>1. /\ work[r].pc = "idle" /\ lock = NoRun /\ lock' = lock /\ UNCHANGED upstream
          /\ rec' = IF rec.st = "none" THEN Record("skipped", 0) ELSE rec
          /\ \E w : Move(r, w)
      BY <1>0, <1>1, <2>2 DEF StartDisabled, Startable, LockedByOther, Donating, End
    <3>2. CASE rec.st = "none"
      <4>1. rec'.st # "none" /\ rec'.coins \in 0..coins
        BY <1>n, <3>1, <3>2 DEF Record
      <4> QED BY <1>c, <1>d, <3>1, <3>2, <4>1
    <3>3. CASE rec.st # "none"
      BY <1>e, <3>1, <3>3 DEF Donating
    <3> QED BY <3>2, <3>3
  <2> QED BY <2>1, <2>2
<1>2. ASSUME NEW r \in Runs, StartFinished(r) \/ Start(r) PROVE [Day!Next]_(Day!cvars)
  <2>1. work[r].pc = "idle" /\ \E w : Move(r, w)
    BY <1>0, <1>2 DEF StartFinished, Start, Startable, End
  <2> QED BY <1>2, <1>e, <2>1 DEF StartFinished, Start, Donating
<1>3. ASSUME NEW r \in Runs, Insert(r) PROVE [Day!Next]_(Day!cvars)
  <2>1. CASE Hang(r)
    BY <1>h, <2>1
  <2>2. CASE End(r, "skipped") /\ UNCHANGED <<rec, lock, upstream>>
    <3>1. work[r].pc \notin Donating /\ \E w : Move(r, w)
      BY <1>3, <2>2 DEF Insert, At, End, Donating
    <3> QED BY <1>e, <2>2, <3>1
  <2>3. ASSUME NEW other \in BOOLEAN, Move(r, [work[r] EXCEPT !.pc = "exp", !.other = other]),
               lock' = r, UNCHANGED <<rec, upstream>>
        PROVE  Day!Next
    <3> DEFINE w == [work[r] EXCEPT !.pc = "exp", !.other = other]
    <3>1. w.pc = "exp" /\ Move(r, w)
      BY <1>0, <2>3 DEF Works
    <3> HIDE DEF w
    <3>2. Planned' = 0
      BY <2>3, <3>1, PlanMoved
    <3> QED BY <1>b, <2>3, <3>2
  <2> QED BY <1>3, <2>1, <2>2, <2>3 DEF Insert
<1>g. ASSUME NEW r \in Runs, NEW w, Move(r, w), work[r].pc \in Donating, lock' = lock,
             w.pc \notin {"pick", "post"}, UNCHANGED <<rec, upstream>>
      PROVE  Day!Next
  <2>1. lock' = r
    BY <1>0, <1>g
  <2>2. Planned' = 0
    BY <1>g, <2>1, PlanMoved
  <2> QED BY <1>b, <1>g, <2>2
<1>s. ASSUME NEW r \in Runs, NEW w, Move(r, w), work[r].pc \in {"pick", "post"}, lock' = lock,
             w.pc \in {"pick", "post"}, w.need = work[r].need, w.success = work[r].success,
             UNCHANGED <<rec, upstream>>
      PROVE  UNCHANGED Day!cvars
  <2>1. lock = r /\ lock' = r
    BY <1>0, <1>s DEF Donating
  <2>2. Planned' = Planned
    BY <1>s, <2>1, PlanMoved, PlanOfHolder
  <2> QED BY <1>a, <1>s, <2>2
<1>4. ASSUME NEW r \in Runs, GiveUp(r) PROVE [Day!Next]_(Day!cvars)
  <2> DEFINE w == [work[r] EXCEPT !.pc = "close"]
  <2>1. w.pc = "close" /\ Move(r, w) /\ work[r].pc \in Donating
    BY <1>0, <1>4 DEF GiveUp, Works, Donating
  <2> HIDE DEF w
  <2> QED BY <1>4, <1>g, <2>1 DEF GiveUp
<1>5. ASSUME NEW r \in Runs, ReadExp(r) PROVE [Day!Next]_(Day!cvars)
  <2> DEFINE w == [work[r] EXCEPT !.pc = "balance", !.need = Target - coins]
  <2>1. w.pc = "balance" /\ Move(r, w) /\ work[r].pc \in Donating
    BY <1>0, <1>5 DEF ReadExp, At, Works, Donating
  <2> HIDE DEF w
  <2> QED BY <1>5, <1>g, <2>1 DEF ReadExp
<1>6. ASSUME NEW r \in Runs, ReadBalance(r) PROVE [Day!Next]_(Day!cvars)
  <2> DEFINE n == Least(Least(work[r].need, balance - Protected), MaxAttempts)
             w == [work[r] EXCEPT !.pc = "pick", !.need = n]
  <2>0. /\ work[r].pc = "balance" /\ balance > Protected /\ lock' = lock
        /\ UNCHANGED <<rec, upstream>> /\ Move(r, w)
    BY <1>6 DEF ReadBalance, At
  <2>1. work[r].success = 0 /\ work[r].need > 0 /\ coins + work[r].need <= Target
    BY <1>0, <2>0 DEF Fits, Exact
  <2>2. n \in 1..Target /\ coins + n <= Target /\ Protected + n <= balance
    BY <1>0, <1>n, <2>0, <2>1 DEF Least
  <2> HIDE DEF n
  <2>3. w.pc = "pick" /\ w.need = n /\ w.success = 0
    BY <1>0, <2>1 DEF Works
  <2> HIDE DEF w
  <2>4. lock = r /\ lock' = r /\ rec.st = "none"
    BY <1>0, <2>0 DEF Donating
  <2>5. Planned = 0
    BY <2>0, <2>4, PlanOfHolder
  <2>6. Planned' = n
    BY <2>0, <2>2, <2>3, <2>4, PlanMoved
  <2>7. Day!Plan(n)
    BY <2>0, <2>2, <2>4, <2>5, <2>6 DEF Day!Plan
  <2> QED BY <2>2, <2>7 DEF Day!Next
<1>7. ASSUME NEW r \in Runs, Pick(r) PROVE [Day!Next]_(Day!cvars)
  <2>0. work[r].pc = "pick" /\ lock' = lock /\ UNCHANGED <<rec, upstream>>
    BY <1>7 DEF Pick, At
  <2>1. CASE Move(r, [work[r] EXCEPT !.attempts = @ + 1])
    <3> DEFINE w == [work[r] EXCEPT !.attempts = @ + 1]
    <3>1. w.pc = "pick" /\ w.need = work[r].need /\ w.success = work[r].success
      BY <1>0, <2>0 DEF Works
    <3>2. Move(r, w)
      BY <2>1
    <3> HIDE DEF w
    <3> QED BY <1>s, <2>0, <3>1, <3>2
  <2>2. ASSUME NEW here \in {0, 1},
               Move(r, [work[r] EXCEPT !.pc = "post", !.attempts = @ + 1, !.here = here, !.tries = 0])
        PROVE  UNCHANGED Day!cvars
    <3> DEFINE w == [work[r] EXCEPT !.pc = "post", !.attempts = @ + 1, !.here = here, !.tries = 0]
    <3>1. w.pc = "post" /\ w.need = work[r].need /\ w.success = work[r].success
      BY <1>0 DEF Works
    <3>2. Move(r, w)
      BY <2>2
    <3> HIDE DEF w
    <3> QED BY <1>s, <2>0, <3>1, <3>2
  <2> QED BY <1>7, <2>1, <2>2 DEF Pick
<1>8. ASSUME NEW r \in Runs, Rejected(r) PROVE [Day!Next]_(Day!cvars)
  <2>0. work[r].pc = "post" /\ lock' = lock /\ UNCHANGED <<rec, upstream>>
    BY <1>8 DEF Rejected, Posting, At
  <2>1. PICK w : /\ Move(r, w) /\ w.pc \in {"pick", "close"}
                 /\ w.need = work[r].need /\ w.success = work[r].success
    BY <1>0, <1>8 DEF Rejected, Works
  <2>2. CASE w.pc = "pick"
    BY <1>s, <2>0, <2>1, <2>2
  <2>3. CASE w.pc = "close"
    BY <1>g, <2>0, <2>1, <2>3 DEF Donating
  <2> QED BY <2>1, <2>2, <2>3
<1>9. ASSUME NEW r \in Runs, Accepted(r) \/ Lost(r) PROVE [Day!Next]_(Day!cvars)
  <2>0. /\ work[r].pc = "post" /\ lock' = lock /\ rec' = rec
        /\ coins' = coins + 1 /\ balance' = balance - 1
    BY <1>9 DEF Accepted, Lost, Posting, Donated, At
  <2>1. lock = r /\ lock' = r
    BY <1>0, <2>0 DEF Donating
  <2>2. Planned = work[r].need - work[r].success /\ Planned > 0
    BY <1>0, <2>0, <2>1, PlanOfHolder DEF Fits
  <2>3. Day!Coin
    BY <2>0, <2>2 DEF Day!Coin
  <2>4. CASE Accepted(r)
    <3> DEFINE w == [work[r] EXCEPT !.pc = "pick", !.success = @ + 1]
    <3>1. w.pc = "pick" /\ w.need = work[r].need /\ w.success = work[r].success + 1
      BY <1>0 DEF Works
    <3>m. Move(r, w)
      BY <2>4 DEF Accepted
    <3> HIDE DEF w
    <3>2. Planned' = Planned - 1
      BY <1>0, <2>1, <2>2, <3>1, <3>m, PlanMoved
    <3>3. Day!Give
      BY <2>3, <2>4, <3>2 DEF Day!Give, Accepted
    <3> QED BY <3>3 DEF Day!Next
  <2>5. CASE Lost(r)
    <3> DEFINE w == [work[r] EXCEPT !.tries = @ + 1, !.here = @ + 1]
    <3>1. w.pc = "post" /\ w.need = work[r].need /\ w.success = work[r].success
      BY <1>0, <2>0 DEF Works
    <3>m. Move(r, w)
      BY <2>5 DEF Lost
    <3> HIDE DEF w
    <3>2. Planned' = Planned
      BY <2>1, <2>2, <3>1, <3>m, PlanMoved
    <3>3. Day!Lose
      BY <2>3, <2>5, <3>2 DEF Day!Lose, Lost
    <3> QED BY <3>3 DEF Day!Next
  <2> QED BY <1>9, <2>4, <2>5
<1>10. ASSUME NEW r \in Runs, Complete(r) PROVE [Day!Next]_(Day!cvars)
  <2>1. /\ rec.st = "none" /\ rec'.st # "none" /\ rec'.coins = work[r].success
        /\ lock' = NoRun /\ UNCHANGED upstream
    BY <1>0, <1>10 DEF Complete, At, Record, Donating
  <2>2. rec'.coins \in 0..coins
    BY <1>0, <1>n, <2>1
  <2> QED BY <1>c, <1>d, <2>1, <2>2
<1>11. ASSUME NEW r \in Runs, Fail(r) PROVE [Day!Next]_(Day!cvars)
  <2>1. CASE lock = r
    <3>1. /\ rec.st = "none" /\ rec'.st # "none" /\ rec'.coins = 0
          /\ lock' = NoRun /\ UNCHANGED upstream
      BY <1>0, <1>11, <2>1 DEF Fail, Record
    <3>2. rec'.coins \in 0..coins
      BY <1>n, <3>1
    <3> QED BY <1>c, <1>d, <3>1, <3>2
  <2>2. CASE lock # r
    <3>1. work[r].pc \notin Donating /\ lock' = lock /\ rec' = rec /\ UNCHANGED upstream /\ \E w : Move(r, w)
      BY <1>0, <1>11, <2>2 DEF Fail, End
    <3> QED BY <1>e, <3>1
  <2> QED BY <2>1, <2>2
<1>12. CASE Restart
  BY <1>12, <1>b, <1>d DEF Restart
<1>13. CASE UpdateProfile \/ Rebind \/ UNCHANGED vars
  BY <1>13, <1>a DEF UpdateProfile, Rebind, vars, Planned
<1> QED
  BY <1>1, <1>2, <1>3, <1>4, <1>5, <1>6, <1>7, <1>8, <1>9, <1>10, <1>11, <1>12, <1>13 DEF Next

\* DailyTask implements CoinDay: whatever the runs, the target and the protected
\* coins, and whatever fails, dies or is repeated, the coins of a day are given
\* under one plan at a time that fits when it is made, and the day is closed
\* once, with an honest record.
THEOREM DailyKeepsPlan == Spec => DayKept
<1>1. Init => Allowance /\ AuditNeverOverstates /\ Counted /\ Exact
  BY IdleFits, EndedType DEF Init, Allowance, Ended, Record, AuditNeverOverstates, Counted, Exact
<1>2. Init => Day!Init
  <2> SUFFICES ASSUME Init PROVE Day!Init
    OBVIOUS
  <2>1. coins \in Nat /\ balance \in Nat /\ Planned = 0
    BY DEF Init, Planned
  <2> QED BY <2>1 DEF Init, Record, Day!Init
<1> QED BY <1>1, <1>2, InitIInv, StepIInv, StepAllowance, StepCounted, StepExact, StepDay, PTL
        DEF Spec, DayKept, Day!Spec
=============================================================================
