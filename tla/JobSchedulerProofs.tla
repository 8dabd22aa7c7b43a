------------------------- MODULE JobSchedulerProofs -------------------------
(***************************************************************************)
(* Proofs about JobScheduler for any number of jobs, manual dispatches and *)
(* requests: no run of a running process is left without a dispatch, and a *)
(* finished run stays finished.                                            *)
(***************************************************************************)
EXTENDS JobScheduler, TLAPS

USE SchedulerAssumption

\* A process that is down has no dispatch.
Quiet == ~up => \A d \in Dispatches : pc[d] = "idle"
IInv == TypeOK /\ NoOrphan /\ Quiet

LEMMA OwnType == Some \in Jobs /\ \A d \in Dispatches : Own(d) \in Jobs
BY DEF Some, Own

\* A step of the event loop for one dispatch.
LEMMA AtType ==
    ASSUME IInv, NEW d \in Dispatches, NEW step, NEW s, At(d, step, s),
           step \in {"idle", "start", "work", "close", "drop", "dropAll"},
           s \in Open \cup Final \cup {"none"},
           s \in Open <=> step \in {"start", "work"},
           up' = up, up
    PROVE  /\ pc' \in [Dispatches -> {"idle", "start", "work", "close", "drop", "dropAll"}]
           /\ status' \in [Dispatches -> Open \cup Final \cup {"none"}]
           /\ NoOrphan' /\ Quiet'
<1>1. /\ pc'[d] = step /\ status'[d] = s
      /\ \A e \in Dispatches \ {d} : pc'[e] = pc[e] /\ status'[e] = status[e]
  BY DEF At, IInv, TypeOK
<1> QED BY <1>1 DEF At, IInv, TypeOK, NoOrphan, Quiet

LEMMA InitIInv == Init => IInv
BY OwnType DEF Init, IInv, TypeOK, NoOrphan, Quiet, Idle, Exists, Open, Final

\* What a request leaves alone keeps the rest of the invariant.
LEMMA RequestStep ==
    ASSUME IInv, TypeOK', UNCHANGED <<up, dispatches>> PROVE IInv'
BY DEF IInv, NoOrphan, Quiet, dispatches

\* What a dispatch leaves alone keeps the types.
LEMMA LoopStep ==
    ASSUME IInv, NEW d \in Dispatches, NEW step, NEW s, At(d, step, s),
           step \in {"idle", "start", "work", "close", "drop", "dropAll"},
           s \in Open \cup Final \cup {"none"},
           s \in Open <=> step \in {"start", "work"},
           up, up' = up, UNCHANGED <<row, valid, request>>,
           job' \in [Dispatches -> Jobs], runtime' \in SUBSET Jobs,
           account' \in {"none", "active", "expired", "gone"},
           enabled' \in [Jobs -> BOOLEAN], \A j \in Jobs : enabled'[j] => enabled[j]
    PROVE  IInv'
<1>1. /\ pc' \in [Dispatches -> {"idle", "start", "work", "close", "drop", "dropAll"}]
      /\ status' \in [Dispatches -> Open \cup Final \cup {"none"}]
      /\ NoOrphan' /\ Quiet'
  BY AtType
<1>2. TypeOK'
  BY <1>1 DEF IInv, TypeOK, Exists
<1> QED BY <1>1, <1>2 DEF IInv

\* Every step keeps the invariant.
LEMMA StepIInv == IInv /\ [Next]_vars => IInv'
<1> SUFFICES ASSUME IInv, [Next]_vars PROVE IInv'
  OBVIOUS
<1> USE DEF rows, dispatches
<1>0. TypeOK /\ Some \in Jobs /\ \A d \in Dispatches : Own(d) \in Jobs
  BY OwnType DEF IInv
<1>1. ASSUME NEW q \in Requests, CreateJob(q) PROVE IInv'
  <2>1. PICK j \in Jobs, e \in BOOLEAN, v \in BOOLEAN :
            /\ row' = [row EXCEPT ![j] = "there"]
            /\ enabled' = [enabled EXCEPT ![j] = e]
            /\ valid' = [valid EXCEPT ![j] = v]
            /\ IF e THEN Then(q, IF v THEN "sync" ELSE "delete", j) ELSE UNCHANGED request
    BY <1>1 DEF CreateJob
  <2>2. TypeOK'
    BY <1>0, <1>1, <2>1 DEF CreateJob, TypeOK, Then, Exists
  <2> QED BY <1>1, <2>2, RequestStep DEF CreateJob
<1>2. ASSUME NEW q \in Requests, SetEnabled(q) PROVE IInv'
  <2>1. TypeOK'
    BY <1>0, <1>2 DEF SetEnabled, TypeOK, Then, Exists
  <2> QED BY <1>2, <2>1, RequestStep DEF SetEnabled
<1>3. ASSUME NEW q \in Requests, UpdateSchedule(q) PROVE IInv'
  <2>0. PICK j \in Jobs, v \in BOOLEAN :
            /\ Exists(j)
            /\ \/ (\E step \in {"sync", "replace"} : Then(q, step, j)) /\ UNCHANGED valid
               \/ valid' = [valid EXCEPT ![j] = v] /\ UNCHANGED request
    BY <1>3 DEF UpdateSchedule
  <2>1. TypeOK'
    <3>1. CASE (\E step \in {"sync", "replace"} : Then(q, step, j)) /\ UNCHANGED valid
      BY <1>0, <1>3, <3>1 DEF UpdateSchedule, TypeOK, Then, Exists
    <3>2. CASE valid' = [valid EXCEPT ![j] = v] /\ UNCHANGED request
      BY <1>0, <1>3, <2>0, <3>2 DEF UpdateSchedule, TypeOK, Exists
    <3> QED BY <2>0, <3>1, <3>2
  <2> QED BY <1>3, <2>1, RequestStep DEF UpdateSchedule
<1>4. ASSUME NEW q \in Requests, Sync(q) PROVE IInv'
  <2>1. TypeOK'
    BY <1>0, <1>4 DEF Sync, TypeOK, Done, Idle, Exists
  <2> QED BY <1>4, <2>1, RequestStep DEF Sync
<1>5. ASSUME NEW q \in Requests, Unsync(q) \/ DeleteRow(q) \/ DeleteAccount(q) PROVE IInv'
  <2>0. request' \in [Requests -> [pc : {"idle", "sync", "replace", "unsync", "delete", "unbind"}, job : Jobs]]
    BY <1>0, <1>5 DEF Unsync, DeleteRow, DeleteAccount, TypeOK, Done, Idle
  <2>1. TypeOK'
    <3>1. ASSUME NEW S, Erase(S)
          PROVE  /\ row' \in [Jobs -> {"unborn", "there", "gone"}]
                 /\ enabled' \in [Jobs -> BOOLEAN] /\ valid' \in [Jobs -> BOOLEAN]
                 /\ \A j \in Jobs : ~Exists(j)' => ~enabled'[j] /\ valid'[j]
      BY <1>0, <3>1 DEF Erase, TypeOK, Exists
    <3>2. CASE Unsync(q)
      BY <1>0, <2>0, <3>2 DEF Unsync, TypeOK, Exists
    <3>3. CASE DeleteRow(q)
      BY <1>0, <2>0, <3>1, <3>3 DEF DeleteRow, TypeOK
    <3>4. CASE DeleteAccount(q)
      BY <1>0, <2>0, <3>1, <3>4 DEF DeleteAccount, TypeOK
    <3> QED BY <1>5, <3>2, <3>3, <3>4
  <2> QED BY <1>5, <2>1, RequestStep DEF Unsync, DeleteRow, DeleteAccount
<1>6. ASSUME NEW q \in Requests, DeleteJob(q) \/ Unbind(q) PROVE IInv'
  <2>1. TypeOK'
    BY <1>0, <1>6 DEF DeleteJob, Unbind, TypeOK, Then, Exists
  <2> QED BY <1>6, <2>1, RequestStep DEF DeleteJob, Unbind
<1>7. CASE Login
  <2>1. /\ row' \in [Jobs -> {"unborn", "there", "gone"}]
        /\ enabled' \in [Jobs -> BOOLEAN] /\ valid' = valid /\ runtime' \in SUBSET Jobs
    BY <1>0, <1>7 DEF Login, TypeOK
  <2>2. \A j \in Jobs : ~Exists(j)' => ~enabled'[j] /\ valid'[j]
    BY <1>0, <1>7 DEF Login, TypeOK, Exists
  <2>3. TypeOK'
    BY <1>0, <1>7, <2>1, <2>2 DEF Login, TypeOK
  <2> QED BY <1>7, <2>3, RequestStep DEF Login
<1>8. ASSUME NEW d \in Manual, RunNow(d) PROVE IInv'
  <2>1. At(d, "start", "queued") /\ d \in Dispatches /\ job' \in [Dispatches -> Jobs]
    BY <1>0, <1>8 DEF RunNow, At, Dispatches, TypeOK
  <2> QED BY <1>0, <1>8, <2>1, LoopStep DEF RunNow, LoopFree, Open, Final, TypeOK
<1>9. ASSUME NEW d \in Dispatches, Begin(d), up, pc[d] \in {"idle", "start"},
             pc[d] = "idle" => d \in Jobs, pc[d] = "start" => d \in Manual
      PROVE  IInv'
  <2>1. status[d] \in Open <=> pc[d] = "start"
    BY <1>9 DEF IInv, NoOrphan
  <2>2. PICK step \in {"work", "close"}, s \in Open \cup Final \cup {"none"} :
            At(d, step, s) /\ (s \in Open <=> step = "work")
    <3>1. (IF d \in Manual THEN "failed" ELSE status[d]) \in (Open \cup Final \cup {"none"}) \ Open
      BY <1>0, <1>9, <2>1 DEF TypeOK, Dispatches, Open, Final
    <3> QED BY <1>9, <3>1 DEF Begin, Open, Final
  <2> QED BY <1>0, <1>9, <2>2, LoopStep DEF Begin, TypeOK
<1>10. ASSUME NEW d \in Dispatches, Succeed(d) \/ Error(d) PROVE IInv'
  <2>1. runtime' \in SUBSET Jobs
    BY <1>0, <1>10 DEF Succeed, Error, TypeOK
  <2> QED BY <1>0, <1>10, <2>1, LoopStep DEF Succeed, Error, Working, LoopFree, Open, Final, TypeOK
<1>11. ASSUME NEW d \in Dispatches, AuthenticationError(d) PROVE IInv'
  <2>1. runtime' \in SUBSET Jobs /\ enabled' \in [Jobs -> BOOLEAN] /\ \A j \in Jobs : enabled'[j] => enabled[j]
    BY <1>0, <1>11 DEF AuthenticationError, TypeOK
  <2> QED BY <1>0, <1>11, <2>1, LoopStep DEF AuthenticationError, Working, LoopFree, Open, Final, TypeOK
<1>12. ASSUME NEW d \in Dispatches, PersistRead(d) PROVE IInv'
  <2>1. PICK step \in {"idle", "drop", "dropAll"} : At(d, step, "none")
    BY <1>12 DEF PersistRead, Over
  <2>2. job' \in [Dispatches -> Jobs]
    BY <1>0, <1>12 DEF PersistRead, Over, TypeOK
  <2> QED BY <1>0, <1>12, <2>1, <2>2, LoopStep DEF PersistRead, LoopFree, Open, Final, TypeOK
<1>13. ASSUME NEW d \in Dispatches, Drop(d) PROVE IInv'
  <2>1. At(d, "idle", "none") /\ job' \in [Dispatches -> Jobs] /\ runtime' \in SUBSET Jobs /\ up
    BY <1>0, <1>13 DEF Drop, Over, TypeOK, IInv, Quiet
  <2> QED BY <1>0, <1>13, <2>1, LoopStep DEF Drop, Open, Final, TypeOK
<1>14. CASE Shutdown \/ Crash
  <2>1. status' \in [Dispatches -> Open \cup Final \cup {"none"}]
    BY <1>0, <1>14 DEF Shutdown, Crash, Fail, TypeOK, Open, Final
  <2>2. Down
    BY <1>14 DEF Shutdown, Crash
  <2>a. /\ job' \in [Dispatches -> Jobs] /\ runtime' \in SUBSET Jobs
        /\ pc' \in [Dispatches -> {"idle", "start", "work", "close", "drop", "dropAll"}]
        /\ request' \in [Requests -> [pc : {"idle", "sync", "replace", "unsync", "delete", "unbind"}, job : Jobs]]
    BY <1>0, <2>2 DEF Down, Idle
  <2>3. TypeOK'
    BY <1>0, <2>1, <2>2, <2>a DEF Down, TypeOK, Exists
  <2> QED BY <2>2, <2>3 DEF Down, IInv, NoOrphan, Quiet
<1>15. CASE Boot
  <2>1. /\ status' \in [Dispatches -> Open \cup Final \cup {"none"}]
        /\ \A d \in Dispatches : status'[d] \notin Open
    BY <1>15 DEF Boot, Recovered, Open, Final
  <2>2. \A d \in Dispatches : pc'[d] = "idle"
    BY <1>15 DEF Boot, IInv, Quiet
  <2>3. TypeOK'
    BY <1>0, <1>15, <2>1 DEF Boot, TypeOK, Exists
  <2> QED BY <2>1, <2>2, <2>3 DEF IInv, NoOrphan, Quiet
<1>16. CASE UNCHANGED vars
  BY <1>16 DEF vars, IInv, TypeOK, NoOrphan, Quiet, Exists
<1> QED
  <2>1. ASSUME NEW d \in Dispatches, Step(d) PROVE IInv'
    <3>1. CASE d \in Jobs /\ Fire(d)
      BY <3>1, <1>9 DEF Fire, LoopFree
    <3>2. CASE d \in Manual /\ BeginManual(d)
      BY <3>2, <1>9 DEF BeginManual, LoopFree
    <3> QED BY <2>1, <3>1, <3>2, <1>10, <1>11, <1>12, <1>13 DEF Step
  <2> QED BY <1>1, <1>2, <1>3, <1>4, <1>5, <1>6, <1>7, <1>8, <1>14, <1>15, <1>16, <2>1 DEF Next

-----------------------------------------------------------------------------
(* The theorems.                                                           *)

\* Whatever the jobs, requests and dispatches: every variable keeps its type,
\* and a run of a running process that is not finished has a dispatch.
THEOREM RunsHaveDispatches == Spec => [](TypeOK /\ NoOrphan)
<1>1. IInv => TypeOK /\ NoOrphan
  BY DEF IInv
<1> QED BY <1>1, InitIInv, StepIInv, PTL DEF Spec

\* _fail_run and _finish_queued_run never touch a finished run, in particular
\* not when the dispatch is cancelled after it has recorded the result.
THEOREM RunsStayFinished == Spec => FinalIsFinal
<1>1. IInv /\ [Next]_vars
        => [\A d \in Dispatches :
              status[d] \in Final /\ status'[d] \notin {status[d], "none"} => pc[d] = "idle"]_vars
  <2> SUFFICES ASSUME IInv, Next, NEW d \in Dispatches,
                      status[d] \in Final, status'[d] \notin {status[d], "none"}
               PROVE  pc[d] = "idle"
    BY DEF vars
  <2> USE DEF rows, dispatches
  <2>0. status \in [Dispatches -> Open \cup Final \cup {"none"}]
    BY DEF IInv, TypeOK
  <2>1. CASE \E q \in Requests :
                \/ CreateJob(q) \/ SetEnabled(q) \/ UpdateSchedule(q) \/ Sync(q) \/ Unsync(q)
                \/ DeleteJob(q) \/ DeleteRow(q) \/ Unbind(q) \/ DeleteAccount(q)
    BY <2>1 DEF CreateJob, SetEnabled, UpdateSchedule, Sync, Unsync, DeleteJob, DeleteRow, Unbind, DeleteAccount
  <2>2. CASE Login
    BY <2>2 DEF Login
  <2>4. ASSUME NEW m \in Manual, RunNow(m) PROVE pc[d] = "idle"
    BY <2>0, <2>4 DEF RunNow, Dispatches
  <2>5. ASSUME NEW e \in Dispatches, Step(e) PROVE pc[d] = "idle"
    <3>1. e = d
      BY <2>0, <2>5 DEF Step, Fire, BeginManual, Begin, Succeed, Error, AuthenticationError, PersistRead, Drop, Over, At
    <3>2. status[d] \notin Open
      BY DEF Open, Final
    <3>3. up => pc[d] \notin {"start", "work"}
      BY <3>2 DEF IInv, NoOrphan
    <3>4. ~PersistRead(d) /\ ~Drop(d)
      BY <2>0 DEF PersistRead, Drop, Over, At
    <3> QED BY <2>5, <3>1, <3>3, <3>4
         DEF Step, Fire, BeginManual, Succeed, Error, AuthenticationError, Working, LoopFree
  <2>6. CASE Shutdown \/ Crash
    BY <2>6 DEF Shutdown, Crash, Fail, Open, Final
  <2>7. CASE Boot
    BY <2>7 DEF Boot, IInv, Quiet
  <2> QED BY <2>1, <2>2, <2>4, <2>5, <2>6, <2>7 DEF Next
<1> QED BY <1>1, InitIInv, StepIInv, PTL DEF Spec, FinalIsFinal

\* Every variable keeps its type; in particular a job without a row is neither
\* enabled nor invalid.
THEOREM SchedulerTyped == Spec => []TypeOK
<1>1. TypeOK /\ NoOrphan => TypeOK
  OBVIOUS
<1> QED BY <1>1, RunsHaveDispatches, PTL
=============================================================================
