----------------------- MODULE CommandWorkload_proofs -----------------------
(***************************************************************************)
(* Theorems about CommandWorkload, for every number of runs, stops and     *)
(* workers.  The next-state relation is first cut into groups of actions,  *)
(* with what each group leaves alone; an invariant is then preserved by    *)
(* most groups because they do not touch it.                               *)
(***************************************************************************)
EXTENDS CommandWorkload, TLAPS

\* Steps of the caller that touch neither the pool nor any run.
CallerOnly ==
    \/ StartClear \/ StartRunning \/ StartReset
    \/ StopEvent \/ StopStatus \/ StopCleanup
    \/ ShutdownEnd \/ AwaitDone \/ ReadTimes \/ ReadResult \/ ReadStatus \/ ReturnResult

\* Steps of the caller in the pool.
PoolCall == StartSubmit \/ StartCallback \/ StopCancel \/ ShutdownBegin \/ ShutdownDrain

\* Steps of a worker between taking a run and finishing its future.
InsideRun(w) ==
    \/ BuildFails(w) \/ LaunchFails(w) \/ Launch(w)
    \/ PollCancelled(w) \/ PollExpired(w) \/ PollWait(w)
    \/ WaitExit(w) \/ WaitTick(w) \/ Terminate(w) \/ TerminateRaises(w)
    \/ Record(w) \/ CleanUp(w) \/ Judge(w) \/ Parse(w)

LEMMA NextCases ==
    ASSUME [Next]_vars
    PROVE  \/ CallerOnly
           \/ PoolCall
           \/ \E w \in Workers : TakeRun(w) \/ InsideRun(w) \/ Finish(w)
           \/ \E t \in Threads : Publish(t) \/ CallbackReturns(t)
           \/ \E r \in Runs : Expire(r) \/ ContainerUp(r)
           \/ DropCancelled
           \/ UNCHANGED vars
BY Zenon DEF Next, CallerResumes, WorkerStep, CallerOnly, PoolCall, InsideRun

LEMMA CallerOnlyFrame ==
    ASSUME CallerOnly
    PROVE  /\ UNCHANGED <<future, callback, queue, job, accepting>>
           /\ UNCHANGED <<phase, proc, expired, ended, outcome, cleaned, todo>>
BY DEF CallerOnly, StartClear, StartRunning, StartReset, StopEvent, StopStatus, StopCleanup,
       ShutdownEnd, AwaitDone, ReadTimes, ReadResult, ReadStatus, ReturnResult,
       poolVars, procVars

LEMMA PoolCallFrame ==
    ASSUME PoolCall
    PROVE  /\ UNCHANGED <<status, result, endTime, cancelEvent, startTime, commandResult>>
           /\ UNCHANGED <<stops, stopped, snapshot, phase, proc, expired, ended, cleaned, container>>
BY DEF PoolCall, StartSubmit, StartCallback, StopCancel, ShutdownBegin, ShutdownDrain,
       poolVars, published, controlVars, callVars, procVars

LEMMA InsideRunFrame ==
    ASSUME NEW w \in Workers, InsideRun(w)
    PROVE  /\ UNCHANGED <<future, callback, queue, job, accepting>>
           /\ UNCHANGED <<status, result, endTime, cancelEvent, current, startTime>>
           /\ UNCHANGED <<callerPc, started, stops, stopped, snapshot, todo>>
BY DEF InsideRun, BuildFails, LaunchFails, Launch, PollCancelled, PollExpired, PollWait, WaitExit,
       WaitTick, Terminate, TerminateRaises, Record, CleanUp, Judge, Parse,
       RunUnchanged, poolVars, published, controlVars, callVars

-----------------------------------------------------------------------------
(* Type correctness.                                                       *)

Attributes == {"status", "result", "endTime"}
Outcomes == {"value", "cancelled", "error", "raised", "dequeued"}

\* Where start() has not yet submitted its run.
Starting == callerPc \in {"start_running", "start_reset", "start_submit"}

\* The caller has a run left to submit while start() is under way.
CallerSupport ==
    /\ Starting => started < MaxRuns
    /\ callerPc = "start_callback" => current \in Runs

\* A future that is done, or about to be, has an outcome.
OutcomeSupport ==
    /\ \A r \in Runs : FutureDone(r) => outcome[r] # "none"
    /\ \A w \in Workers : phase[w] # "idle" => job[w] \in Runs
    /\ \A w \in Workers : phase[w] = "finish" => outcome[job[w]] # "none"

TypeInv == TypeOK /\ CallerSupport /\ OutcomeSupport

\* Every list of writes is one TypeOK admits.
LEMMA CallbackWritesType ==
    \A o \in Outcomes : CallbackWrites(o) \in Seq(Attributes)
<1> SUFFICES ASSUME NEW o \in Outcomes PROVE CallbackWrites(o) \in Seq(Attributes)
    OBVIOUS
<1>1. <<"endTime", "result", "status">> \in Seq(Attributes) BY DEF Attributes
<1>2. <<"status", "result", "endTime">> \in Seq(Attributes) BY DEF Attributes
<1>3. <<"status", "endTime">> \in Seq(Attributes) BY DEF Attributes
<1>4. CASE o = "value" BY <1>1, <1>4 DEF CallbackWrites
<1>5. CASE o \in {"cancelled", "error", "raised"} BY <1>2, <1>5 DEF CallbackWrites
<1>6. CASE o = "dequeued" BY <1>3, <1>6 DEF CallbackWrites
<1> QED BY <1>4, <1>5, <1>6 DEF Outcomes

LEMMA FinalStatusType == \A o : FinalStatus(o) \in Statuses
BY DEF FinalStatus, Statuses

LEMMA FinalResultType == \A r \in Runs \union {NoRun} : FinalResult(r) \in Results
BY DEF FinalResult, Results, Output, Failure, Empty

LEMMA TypeInit == Init => TypeInv
<1> SUFFICES ASSUME Init PROVE TypeInv
    OBVIOUS
<1> USE PoolAssumption, CallsAssumption DEF Init, PoolInit, Runs, NoRun, Threads
<1>1. PoolTypeOK BY DEF PoolTypeOK, FutureStates
<1>2. PublishedTypeOK BY DEF PublishedTypeOK, Statuses, Results, Empty
<1>3. CallerTypeOK
  <2>1. Blank \in Snapshots
        BY DEF Blank, Snapshots, Statuses, Results, Empty
  <2>2. /\ cancelEvent = FALSE /\ current = NoRun /\ startTime = NoRun /\ callerPc = "idle"
        /\ started = 0 /\ stops = 0 /\ stopped = {} /\ snapshot = Blank
        OBVIOUS
  <2>3. started \in 0..MaxRuns /\ stops \in 0..MaxStops BY <2>2
  <2> QED BY ONLY <2>1, <2>2, <2>3 DEF CallerTypeOK, CallerPcs
<1>4. RunTypeOK BY DEF RunTypeOK, Phases
<1>5. TodoTypeOK BY DEF TodoTypeOK
<1>6. CallerSupport /\ OutcomeSupport
      BY DEF CallerSupport, OutcomeSupport, Starting, FutureDone
<1> QED BY <1>1, <1>2, <1>3, <1>4, <1>5, <1>6 DEF TypeInv, TypeOK

LEMMA PoolTypeStep == TypeInv /\ [Next]_vars => PoolTypeOK'
<1> SUFFICES ASSUME TypeInv, [Next]_vars PROVE PoolTypeOK'
    OBVIOUS
<1> USE PoolAssumption DEF PoolTypeOK, FutureStates, Threads, NoRun
<1>t. PoolTypeOK /\ CallerTypeOK /\ CallerSupport BY DEF TypeInv, TypeOK
<1>1. CASE UNCHANGED <<future, callback, queue, job, accepting>> BY <1>t, <1>1
<1>2. CASE StartSubmit
  <2>1. CASE Submit(started + 1)
    <3>1. started + 1 \in Runs
          BY <1>t, <1>2 DEF StartSubmit, CallerAt, CallerSupport, CallerTypeOK, Starting, Runs
    <3> QED BY <1>t, <2>1, <3>1 DEF Submit
  <2>2. CASE ~Submit(started + 1) BY <1>t, <1>2, <2>2 DEF StartSubmit, poolVars
  <2> QED BY <2>1, <2>2
<1>3. CASE StartCallback
  <2>1. current \in Runs BY <1>t, <1>3 DEF StartCallback, CallerAt, CallerSupport
  <2> QED BY <1>t, <1>3, <2>1 DEF StartCallback, AddCallback, InvokeCallbackNow
<1>4. CASE StopCancel BY <1>t, <1>4 DEF StopCancel, CancelQueued, CancelFuture
<1>5. CASE ShutdownBegin BY <1>t, <1>5 DEF ShutdownBegin
<1>6. CASE ShutdownDrain BY SMTT(20), <1>t, <1>6 DEF ShutdownDrain, CancelQueued, CancelFuture
<1>7. ASSUME NEW w \in Workers, TakeRun(w) PROVE PoolTypeOK' BY <1>t, <1>7 DEF TakeRun, Take
<1>8. ASSUME NEW w \in Workers, Finish(w) PROVE PoolTypeOK' BY <1>t, <1>8 DEF Finish, FinishFuture
<1>9. ASSUME NEW t \in Threads, CallbackReturns(t) PROVE PoolTypeOK'
      BY <1>t, <1>9 DEF CallbackReturns, Release
<1>10. ASSUME NEW t \in Threads, Publish(t) PROVE PoolTypeOK'
      BY <1>1, <1>10 DEF Publish, poolVars
<1>11. ASSUME NEW r \in Runs, Expire(r) \/ ContainerUp(r) PROVE PoolTypeOK'
      BY <1>1, <1>11 DEF Expire, ContainerUp, RunUnchanged, poolVars
<1>12. CASE DropCancelled BY <1>t, <1>12 DEF DropCancelled, Drop
<1>13. CASE UNCHANGED vars BY <1>1, <1>13 DEF vars, poolVars
<1> QED BY <1>1, <1>2, <1>3, <1>4, <1>5, <1>6, <1>7, <1>8, <1>9, <1>10, <1>11, <1>12, <1>13,
           NextCases, CallerOnlyFrame, InsideRunFrame DEF PoolCall

LEMMA PublishedTypeStep == TypeInv /\ [Next]_vars => PublishedTypeOK'
<1> SUFFICES ASSUME TypeInv, [Next]_vars PROVE PublishedTypeOK'
    OBVIOUS
<1> USE DEF PublishedTypeOK
<1>t. PublishedTypeOK /\ PoolTypeOK BY DEF TypeInv, TypeOK
<1>1. CASE UNCHANGED <<status, result, endTime>> BY <1>t, <1>1
<1>2. CASE CallerOnly
      BY <1>t, <1>2 DEF CallerOnly, StartClear, StartRunning, StartReset, StopEvent, StopStatus,
         StopCleanup, ShutdownEnd, AwaitDone, ReadTimes, ReadResult, ReadStatus, ReturnResult,
         published, Statuses, Results, Empty
<1>3. ASSUME NEW w \in Workers, TakeRun(w) \/ Finish(w) PROVE PublishedTypeOK'
      BY <1>1, <1>3 DEF TakeRun, Finish, published
<1>4. ASSUME NEW t \in Threads, Publish(t) PROVE PublishedTypeOK'
  <2>1. job[t] \in Runs \union {NoRun} BY <1>t DEF PoolTypeOK
  <2> QED BY <1>t, <1>4, <2>1, FinalStatusType, FinalResultType DEF Publish
<1>5. ASSUME NEW t \in Threads, CallbackReturns(t) PROVE PublishedTypeOK'
      BY <1>1, <1>5 DEF CallbackReturns, published
<1>6. ASSUME NEW r \in Runs, Expire(r) \/ ContainerUp(r) PROVE PublishedTypeOK'
      BY <1>1, <1>6 DEF Expire, ContainerUp, RunUnchanged, published
<1>7. CASE DropCancelled BY <1>1, <1>7 DEF DropCancelled, published
<1>8. CASE UNCHANGED vars BY <1>1, <1>8 DEF vars, published
<1> QED BY <1>1, <1>2, <1>3, <1>4, <1>5, <1>6, <1>7, <1>8, NextCases, PoolCallFrame, InsideRunFrame

LEMMA CallerTypeStep == TypeInv /\ [Next]_vars => CallerTypeOK' /\ CallerSupport'
<1> SUFFICES ASSUME TypeInv, [Next]_vars PROVE CallerTypeOK' /\ CallerSupport'
    OBVIOUS
<1> USE PoolAssumption, CallsAssumption DEF CallerTypeOK, CallerSupport, Starting, CallerPcs, NoRun
<1>t. CallerTypeOK /\ CallerSupport /\ PublishedTypeOK BY DEF TypeInv, TypeOK
<1>1. CASE UNCHANGED <<cancelEvent, current, startTime, callerPc, started, stops, stopped, snapshot>>
      BY <1>t, <1>1
<1>2. CASE StartClear BY <1>t, <1>2 DEF StartClear
<1>3. CASE StartRunning
  <2>1. started + 1 \in Runs BY <1>t, <1>3 DEF StartRunning, CallerAt, Runs
  <2>2. UNCHANGED <<cancelEvent, current, started, stops, stopped, snapshot>>
        BY <1>3 DEF StartRunning
  <2>3. startTime' = started + 1 /\ callerPc' = "start_reset" /\ started < MaxRuns
        BY <1>t, <1>3 DEF StartRunning, CallerAt
  <2> QED BY <1>t, <2>1, <2>2, <2>3
<1>4. CASE StartReset BY <1>t, <1>4 DEF StartReset, controlVars, CallerAt
<1>5. CASE StartSubmit
  <2>1. started + 1 \in Runs BY <1>t, <1>5 DEF StartSubmit, CallerAt, Runs
  <2> QED BY <1>t, <1>5, <2>1 DEF StartSubmit, Runs
<1>6. CASE StartCallback BY <1>t, <1>6 DEF StartCallback, controlVars
<1>7. CASE StopEvent BY <1>t, <1>7 DEF StopEvent
<1>8. CASE StopCancel BY <1>t, <1>8 DEF StopCancel, controlVars
<1>9. CASE StopStatus BY <1>t, <1>9 DEF StopStatus
<1>10. CASE StopCleanup \/ ShutdownEnd \/ AwaitDone
       BY <1>t, <1>10 DEF StopCleanup, ShutdownEnd, AwaitDone, controlVars
<1>11. CASE ShutdownBegin BY <1>t, <1>11 DEF ShutdownBegin, controlVars
<1>12. CASE ShutdownDrain BY <1>1, <1>12 DEF ShutdownDrain, controlVars, callVars
<1>13. CASE ReadTimes \/ ReadResult \/ ReadStatus \/ ReturnResult
  <2>1. CASE ReadTimes
    <3>1. snapshot' \in Snapshots BY <1>t, <2>1 DEF ReadTimes, PublishedTypeOK, Snapshots
    <3> QED BY <1>t, <2>1, <3>1 DEF ReadTimes, controlVars
  <2>2. CASE ReadResult
    <3>1. snapshot' \in Snapshots BY <1>t, <2>2 DEF ReadResult, PublishedTypeOK, Snapshots
    <3> QED BY <1>t, <2>2, <3>1 DEF ReadResult, controlVars
  <2>3. CASE ReadStatus
    <3>1. snapshot' \in Snapshots BY <1>t, <2>3 DEF ReadStatus, PublishedTypeOK, Snapshots
    <3> QED BY <1>t, <2>3, <3>1 DEF ReadStatus, controlVars
  <2>4. CASE ReturnResult
    <3>1. snapshot' \in Snapshots
          BY <2>4 DEF ReturnResult, Snapshots, Blank, Statuses, Results, Empty
    <3> QED BY <1>t, <2>4, <3>1 DEF ReturnResult, controlVars
  <2> QED BY <1>13, <2>1, <2>2, <2>3, <2>4
<1>14. ASSUME NEW w \in Workers, TakeRun(w) \/ Finish(w) PROVE CallerTypeOK' /\ CallerSupport'
       BY <1>1, <1>14 DEF TakeRun, Finish, controlVars, callVars
<1>15. ASSUME NEW t \in Threads, Publish(t) \/ CallbackReturns(t)
       PROVE CallerTypeOK' /\ CallerSupport'
       BY <1>1, <1>15 DEF Publish, CallbackReturns, controlVars, callVars
<1>16. ASSUME NEW r \in Runs, Expire(r) \/ ContainerUp(r) PROVE CallerTypeOK' /\ CallerSupport'
       BY <1>1, <1>16 DEF Expire, ContainerUp, RunUnchanged, controlVars, callVars
<1>17. CASE DropCancelled \/ UNCHANGED vars
       BY <1>1, <1>17 DEF DropCancelled, vars, controlVars, callVars
<1> QED BY <1>1, <1>2, <1>3, <1>4, <1>5, <1>6, <1>7, <1>8, <1>9, <1>10, <1>11, <1>12, <1>13, <1>14,
           <1>15, <1>16, <1>17, NextCases, InsideRunFrame DEF CallerOnly, PoolCall

LEMMA RunTypeStep == TypeInv /\ [Next]_vars => RunTypeOK'
<1> SUFFICES ASSUME TypeInv, [Next]_vars PROVE RunTypeOK'
    OBVIOUS
<1> USE DEF RunTypeOK, Phases, NoRun
<1>t. RunTypeOK /\ PoolTypeOK BY DEF TypeInv, TypeOK
<1>1. CASE UNCHANGED <<commandResult, phase, proc, expired, ended, outcome, cleaned, container>>
      BY <1>t, <1>1
<1>2. CASE CallerOnly
      BY <1>t, <1>2 DEF CallerOnly, StartClear, StartRunning, StartReset, StopEvent, StopStatus,
         StopCleanup, ShutdownEnd, AwaitDone, ReadTimes, ReadResult, ReadStatus, ReturnResult, procVars
<1>3. CASE PoolCall
  <2>1. outcome' \in [Runs -> {"none", "value", "cancelled", "error", "raised", "dequeued"}]
        BY <1>t, <1>3 DEF PoolCall, StartSubmit, StartCallback, StopCancel, ShutdownBegin,
           ShutdownDrain, CancelQueued
  <2> QED BY <1>t, <1>3, <2>1, PoolCallFrame
<1>4. ASSUME NEW w \in Workers, TakeRun(w) \/ Finish(w) PROVE RunTypeOK'
      BY <1>t, <1>4 DEF TakeRun, Finish, Goto, procVars
<1>5. ASSUME NEW w \in Workers, InsideRun(w) PROVE RunTypeOK'
  <2> USE <1>t DEF Goto, procVars
  <2>1. job[w] \in Runs \union {NoRun} BY DEF PoolTypeOK, Threads
  <2>2. CASE BuildFails(w) BY <2>2 DEF BuildFails
  <2>3. CASE LaunchFails(w) \/ Launch(w) BY <2>3 DEF LaunchFails, Launch
  <2>4. CASE PollCancelled(w) \/ PollExpired(w) BY <2>4 DEF PollCancelled, PollExpired
  <2>5. CASE PollWait(w) \/ WaitTick(w) BY <2>5 DEF PollWait, WaitTick
  <2>6. CASE WaitExit(w)
    <3>1. container' \in Runs \union {NoRun} BY <2>6 DEF WaitExit, ProcessGone
    <3>2. ended' \in [Runs -> {"no", "unlaunched", "zero", "nonzero", "cancel", "timeout"}]
          BY <2>6 DEF WaitExit
    <3>3. proc' \in [Runs -> {"none", "running", "gone"}] BY <2>6 DEF WaitExit, ProcessGone
    <3> QED BY <2>6, <3>1, <3>2, <3>3 DEF WaitExit
  <2>7. CASE Terminate(w) BY <2>7 DEF Terminate, ProcessGone
  <2>12. CASE TerminateRaises(w)
    <3>1. container' \in Runs \union {NoRun} BY <2>12 DEF TerminateRaises, ProcessGone
    <3>2. UNCHANGED ended BY <2>12 DEF TerminateRaises
    <3>3. proc' \in [Runs -> {"none", "running", "gone"}] BY <2>12 DEF TerminateRaises, ProcessGone
    <3>4. outcome' \in [Runs -> {"none", "value", "cancelled", "error", "raised", "dequeued"}]
          BY <2>12 DEF TerminateRaises
    <3>5. phase' \in [Workers -> Phases] BY <2>12 DEF TerminateRaises
    <3> QED BY <2>12, <3>1, <3>2, <3>3, <3>4, <3>5 DEF TerminateRaises
  <2>8. CASE Record(w) BY <2>1, <2>8 DEF Record
  <2>9. CASE CleanUp(w) BY <2>9 DEF CleanUp
  <2>10. CASE Judge(w)
    <3>1. outcome' \in [Runs -> {"none", "value", "cancelled", "error", "raised", "dequeued"}]
          BY <2>10 DEF Judge
    <3>2. phase' \in [Workers -> Phases] BY <2>10 DEF Judge
    <3>3. UNCHANGED <<commandResult, proc, expired, ended, cleaned, container>> BY <2>10 DEF Judge
    <3> QED BY <3>1, <3>2, <3>3
  <2>11. CASE Parse(w)
    <3>1. outcome' \in [Runs -> {"none", "value", "cancelled", "error", "raised", "dequeued"}]
          BY <2>11 DEF Parse
    <3>2. phase' \in [Workers -> Phases] BY <2>11 DEF Parse
    <3>3. UNCHANGED <<commandResult, proc, expired, ended, cleaned, container>> BY <2>11 DEF Parse
    <3> QED BY <3>1, <3>2, <3>3
  <2> QED BY <1>5, <2>2, <2>3, <2>4, <2>5, <2>6, <2>7, <2>8, <2>9, <2>10, <2>11, <2>12 DEF InsideRun
<1>6. ASSUME NEW t \in Threads, Publish(t) PROVE RunTypeOK' BY <1>1, <1>6 DEF Publish, procVars
<1>7. ASSUME NEW t \in Threads, CallbackReturns(t) PROVE RunTypeOK'
      BY <1>t, <1>7 DEF CallbackReturns, procVars
<1>8. ASSUME NEW r \in Runs, Expire(r) \/ ContainerUp(r) PROVE RunTypeOK'
      BY <1>t, <1>8 DEF Expire, ContainerUp
<1>9. CASE DropCancelled \/ UNCHANGED vars BY <1>1, <1>9 DEF DropCancelled, vars, procVars
<1> QED BY <1>1, <1>2, <1>3, <1>4, <1>5, <1>6, <1>7, <1>8, <1>9, NextCases

LEMMA TodoTypeStep == TypeInv /\ [Next]_vars => TodoTypeOK'
<1> SUFFICES ASSUME TypeInv, [Next]_vars PROVE TodoTypeOK'
    OBVIOUS
<1> USE DEF TodoTypeOK, Attributes, Outcomes
<1>t. TodoTypeOK /\ PoolTypeOK /\ RunTypeOK /\ CallerSupport /\ OutcomeSupport BY DEF TypeInv, TypeOK
<1>1. CASE UNCHANGED todo BY <1>t, <1>1
<1>2. CASE StartCallback
  <2>1. CASE AddCallback(current) /\ UNCHANGED todo BY <1>1, <2>1
  <2>2. CASE InvokeCallbackNow(current)
             /\ todo' = [todo EXCEPT ![Caller] = CallbackWrites(outcome[current])]
    <3>1. current \in Runs BY <1>t, <1>2 DEF StartCallback, CallerAt, CallerSupport
    <3>2. outcome[current] \in Outcomes
          BY <1>t, <2>2, <3>1 DEF InvokeCallbackNow, OutcomeSupport, RunTypeOK
    <3> QED BY <1>t, <2>2, <3>2, CallbackWritesType
  <2> QED BY <1>2, <2>1, <2>2 DEF StartCallback
<1>3. CASE StopCancel \/ ShutdownDrain
      BY <1>t, <1>3, CallbackWritesType DEF StopCancel, ShutdownDrain, CancelQueued
<1>4. CASE StartSubmit \/ ShutdownBegin BY <1>1, <1>4 DEF StartSubmit, ShutdownBegin
<1>5. ASSUME NEW w \in Workers, TakeRun(w) PROVE TodoTypeOK' BY <1>1, <1>5 DEF TakeRun
<1>6. ASSUME NEW w \in Workers, Finish(w) PROVE TodoTypeOK'
  <2>1. job[w] \in Runs /\ outcome[job[w]] # "none" BY <1>t, <1>6 DEF Finish, OutcomeSupport
  <2>2. CallbackWrites(outcome[job[w]]) \in Seq(Attributes)
        BY <1>t, <2>1, CallbackWritesType DEF RunTypeOK
  <2>3. << >> \in Seq(Attributes) OBVIOUS
  <2>4. \E s \in Seq(Attributes) : todo' = [todo EXCEPT ![w] = s]
        BY <1>6, <2>2, <2>3 DEF Finish
  <2> QED BY <1>t, <2>4
<1>7. ASSUME NEW t \in Threads, Publish(t) PROVE TodoTypeOK' BY <1>t, <1>7 DEF Publish
<1>8. ASSUME NEW t \in Threads, CallbackReturns(t) PROVE TodoTypeOK' BY <1>1, <1>8 DEF CallbackReturns
<1>9. ASSUME NEW r \in Runs, Expire(r) \/ ContainerUp(r) PROVE TodoTypeOK'
      BY <1>1, <1>9 DEF Expire, ContainerUp, RunUnchanged
<1>10. CASE DropCancelled \/ UNCHANGED vars BY <1>1, <1>10 DEF DropCancelled, vars
<1> QED BY <1>1, <1>2, <1>3, <1>4, <1>5, <1>6, <1>7, <1>8, <1>9, <1>10, NextCases, CallerOnlyFrame,
           InsideRunFrame DEF PoolCall

LEMMA OutcomeSupportStep == TypeInv /\ [Next]_vars => OutcomeSupport'
<1> SUFFICES ASSUME TypeInv, [Next]_vars PROVE OutcomeSupport'
    OBVIOUS
<1> USE PoolAssumption DEF OutcomeSupport, FutureDone
<1>t. OutcomeSupport /\ PoolTypeOK /\ RunTypeOK BY DEF TypeInv, TypeOK
<1> USE <1>t DEF PoolTypeOK, RunTypeOK, Threads, NoRun
<1>1. CASE UNCHANGED <<future, job, phase, outcome>> BY <1>1
<1>2. CASE StartSubmit
      BY <1>2, PoolCallFrame DEF StartSubmit, Submit, poolVars, PoolCall
<1>3. CASE StartCallback
  <2>1. UNCHANGED <<future, outcome, phase>> BY <1>3 DEF StartCallback, AddCallback, InvokeCallbackNow
  <2>2. \A w \in Workers : job'[w] = job[w]
        BY <1>3 DEF StartCallback, AddCallback, InvokeCallbackNow
  <2> QED BY <2>1, <2>2
<1>c. ASSUME NEW q \in Runs, CancelQueued(q), UNCHANGED phase PROVE OutcomeSupport'
  <2>1. \A w \in Workers : job'[w] = job[w] BY <1>c DEF CancelQueued, CancelFuture
  <2>2. \A r \in Runs : outcome[r] # "none" => outcome'[r] # "none" BY <1>c DEF CancelQueued
  <2>3. \A r \in Runs : FutureDone(r)' => outcome'[r] # "none" BY <1>c DEF CancelQueued, CancelFuture
  <2> QED BY <1>c, <2>1, <2>2, <2>3
<1>4. CASE StopCancel BY <1>1, <1>c, <1>4 DEF StopCancel
<1>5. CASE ShutdownBegin BY <1>1, <1>5 DEF ShutdownBegin
<1>6. CASE ShutdownDrain
  <2>1. Head(queue) \in Runs BY <1>6 DEF ShutdownDrain
  <2> QED BY <1>1, <1>c, <1>6, <2>1 DEF ShutdownDrain
<1>7. ASSUME NEW w \in Workers, TakeRun(w) PROVE OutcomeSupport' BY <1>7 DEF TakeRun, Take, Goto
<1>8. ASSUME NEW w \in Workers, Finish(w) PROVE OutcomeSupport'
      BY <1>8 DEF Finish, FinishFuture, Goto
<1>9. ASSUME NEW w \in Workers, InsideRun(w) PROVE OutcomeSupport'
  <2>1. /\ outcome' = outcome /\ phase'[w] # "finish"
        \/ \E o \in {"value", "cancelled", "error", "raised"} : outcome' = [outcome EXCEPT ![job[w]] = o]
        BY <1>9 DEF InsideRun, BuildFails, LaunchFails, Launch, PollCancelled, PollExpired, PollWait,
           WaitExit, WaitTick, Terminate, TerminateRaises, Record, CleanUp, Judge, Parse, Goto
  <2>2. /\ phase[w] # "idle"
        /\ \E p \in Phases : phase' = [phase EXCEPT ![w] = p]
        BY <1>9 DEF InsideRun, BuildFails, LaunchFails, Launch, PollCancelled, PollExpired, PollWait,
           WaitExit, WaitTick, Terminate, TerminateRaises, Record, CleanUp, Judge, Parse, Goto, Phases
  <2> QED BY <1>9, <2>1, <2>2, InsideRunFrame
<1>10. ASSUME NEW t \in Threads, Publish(t) PROVE OutcomeSupport' BY <1>1, <1>10 DEF Publish, poolVars
<1>11. ASSUME NEW t \in Threads, CallbackReturns(t) PROVE OutcomeSupport'
      BY <1>11 DEF CallbackReturns, Release
<1>12. ASSUME NEW r \in Runs, Expire(r) \/ ContainerUp(r) PROVE OutcomeSupport'
      BY <1>1, <1>12 DEF Expire, ContainerUp, RunUnchanged, poolVars
<1>13. CASE DropCancelled BY <1>1, <1>13 DEF DropCancelled, Drop
<1>14. CASE UNCHANGED vars BY <1>1, <1>14 DEF vars, poolVars
<1> QED BY <1>1, <1>2, <1>3, <1>4, <1>5, <1>6, <1>7, <1>8, <1>9, <1>10, <1>11, <1>12, <1>13, <1>14,
           NextCases, CallerOnlyFrame DEF PoolCall

\* What keeps its type: every variable, whatever the caller, the workers and the callbacks do.
THEOREM TypeCorrect == Spec => []TypeOK
<1>1. Init => TypeInv BY TypeInit
<1>2. TypeInv /\ [Next]_vars => TypeInv'
      BY PoolTypeStep, PublishedTypeStep, CallerTypeStep, RunTypeStep, TodoTypeStep,
         OutcomeSupportStep DEF TypeInv, TypeOK
<1>3. TypeInv => TypeOK BY DEF TypeInv
<1> QED BY <1>1, <1>2, <1>3, PTL DEF Spec

-----------------------------------------------------------------------------
(* The invariants that make the safety properties inductive.               *)

\* The worker is executing its run: it has taken it and has not finished its future.
Active(w) == phase[w] \notin {"idle", "publish"}

\* Each run in execution belongs to one worker; a run not yet submitted has no future.
WorkInv ==
    /\ \A w \in Workers : Active(w) => future[job[w]] = "running"
    /\ \A v, w \in Workers : Active(v) /\ Active(w) /\ v # w => job[v] # job[w]
    /\ \A r \in Runs : r > started => future[r] = "none"

\* What is known of run r while its worker is at p in _run_command_sync.
PhaseFacts(p, r) ==
    /\ p # "finish" => outcome[r] = "none"
    /\ p \in {"poll", "wait", "terminate"} <=> proc[r] = "running"
    /\ p = "build" => proc[r] = "none"
    /\ p \in {"build", "poll", "wait"} => ended[r] = "no"
    /\ p \in {"terminate", "record", "cleanup", "judge"} => ended[r] # "no"
    /\ p = "terminate" => ended[r] \in {"cancel", "timeout"}
    /\ p = "parse" => ended[r] = "zero"
    /\ p \in {"build", "poll", "wait", "terminate", "record", "cleanup"} => cleaned[r] = "none"
    /\ p \in {"judge", "parse"} => cleaned[r] # "none"
    /\ p = "finish" => ended[r] = "no" \/ outcome[r] = "raised" \/ cleaned[r] # "none"

\* What is known of a run from its future alone.
RunFacts(r) ==
    /\ future[r] \in {"none", "pending", "cancelled"}
          => proc[r] = "none" /\ ended[r] = "no" /\ cleaned[r] = "none"
    /\ future[r] \in {"none", "pending"} => outcome[r] = "none"
    /\ future[r] = "running" => \E w \in Workers : Active(w) /\ job[w] = r
    /\ future[r] = "finished"
          => proc[r] # "running" /\ (ended[r] = "no" \/ outcome[r] = "raised" \/ cleaned[r] # "none")

RunInv ==
    /\ \A w \in Workers : Active(w) => PhaseFacts(phase[w], job[w])
    /\ \A r \in Runs : RunFacts(r)

\* Who may hold the container name.
ContainerInv ==
    \A r \in Runs : container = r => proc[r] # "none" /\ cleaned[r] # "ok"

\* The event is clear from start() to the next stop(), and marks every live run when it is set.
StopInv ==
    /\ Starting => ~cancelEvent
    /\ callerPc \in {"stop_cancel", "stop_status", "stop_cleanup"} => cancelEvent
    /\ cancelEvent => \A r \in Runs : Live(r) => r \in stopped
    /\ CancelImpliesStopped

\* A later start() is what excuses a cancelled command reported as failed.
Excused(r) == startTime > r \/ callerPc = "start_running"

ExcuseInv ==
    \A r \in Runs :
        ended[r] = "cancel" =>
            \/ outcome[r] = "none" /\ (cancelEvent \/ Excused(r))
            \/ outcome[r] \in {"cancelled", "raised"}
            \/ outcome[r] = "error" /\ Excused(r)

IInv == TypeInv /\ WorkInv /\ RunInv /\ ContainerInv /\ StopInv /\ ExcuseInv

LEMMA IInvInit == Init => IInv
<1> SUFFICES ASSUME Init PROVE IInv
    OBVIOUS
<1> USE PoolAssumption DEF Init, PoolInit
<1>1. TypeInv BY TypeInit
<1>2. WorkInv /\ RunInv BY DEF WorkInv, RunInv, Active, RunFacts, Threads
<1>3. ContainerInv BY DEF ContainerInv, Runs, NoRun
<1>4. StopInv /\ ExcuseInv BY DEF StopInv, ExcuseInv, Starting, CancelImpliesStopped
<1> QED BY <1>1, <1>2, <1>3, <1>4 DEF IInv

\* A step inside a run is one worker's business and changes nothing of another run.
LEMMA InsideRunLocal ==
    ASSUME TypeInv, NEW w \in Workers, InsideRun(w)
    PROVE  /\ job[w] \in Runs
           /\ Active(w) /\ Active(w)'
           /\ \A v \in Workers : v # w => phase'[v] = phase[v]
           /\ \A r \in Runs : r # job[w] => /\ proc'[r] = proc[r]
                                            /\ ended'[r] = ended[r]
                                            /\ cleaned'[r] = cleaned[r]
                                            /\ outcome'[r] = outcome[r]
<1> USE DEF TypeInv, TypeOK, RunTypeOK, OutcomeSupport, Active, Goto, procVars
<1>1. CASE BuildFails(w) BY <1>1 DEF BuildFails
<1>2. CASE LaunchFails(w) BY <1>2 DEF LaunchFails
<1>3. CASE Launch(w) BY <1>3 DEF Launch
<1>4. CASE PollCancelled(w) \/ PollExpired(w) BY <1>4 DEF PollCancelled, PollExpired
<1>5. CASE PollWait(w) \/ WaitTick(w) BY <1>5 DEF PollWait, WaitTick
<1>6. CASE WaitExit(w) BY <1>6 DEF WaitExit, ProcessGone
<1>7. CASE Terminate(w) BY <1>7 DEF Terminate, ProcessGone
<1>12. CASE TerminateRaises(w) BY <1>12 DEF TerminateRaises, ProcessGone
<1>8. CASE Record(w) BY <1>8 DEF Record
<1>9. CASE CleanUp(w) BY <1>9 DEF CleanUp
<1>10. CASE Judge(w) BY <1>10 DEF Judge
<1>11. CASE Parse(w) BY <1>11 DEF Parse
<1> QED BY <1>1, <1>2, <1>3, <1>4, <1>5, <1>6, <1>7, <1>8, <1>9, <1>10, <1>11, <1>12 DEF InsideRun

\* A step inside a run leads from the facts of one phase to those of the next.
LEMMA InsideRunFacts ==
    ASSUME TypeInv, NEW w \in Workers, InsideRun(w), PhaseFacts(phase[w], job[w])
    PROVE  PhaseFacts(phase[w], job[w])'
<1>j. job[w] \in Runs /\ job' = job BY InsideRunLocal, InsideRunFrame
<1> USE <1>j DEF TypeInv, TypeOK, RunTypeOK, PhaseFacts, Goto, procVars
<1>1. CASE BuildFails(w) BY <1>1 DEF BuildFails
<1>2. CASE LaunchFails(w) BY <1>2 DEF LaunchFails
<1>3. CASE Launch(w) BY <1>3 DEF Launch
<1>4. CASE PollCancelled(w) \/ PollExpired(w) BY <1>4 DEF PollCancelled, PollExpired
<1>5. CASE PollWait(w) \/ WaitTick(w) BY <1>5 DEF PollWait, WaitTick
<1>6. CASE WaitExit(w) BY <1>6 DEF WaitExit, ProcessGone
<1>7. CASE Terminate(w)
  <2>1. proc'[job[w]] = "gone" /\ phase'[w] = "record" BY <1>7 DEF Terminate, ProcessGone
  <2>2. UNCHANGED <<ended, outcome, cleaned>> /\ phase[w] = "terminate" BY <1>7 DEF Terminate
  <2> QED BY <2>1, <2>2
<1>12. CASE TerminateRaises(w)
  <2>1. /\ proc'[job[w]] = "gone" /\ phase'[w] = "finish" /\ UNCHANGED <<ended, cleaned>>
        /\ outcome'[job[w]] = "raised" /\ phase[w] = "terminate"
        BY <1>12 DEF TerminateRaises, ProcessGone
  <2> QED BY <2>1
<1>8. CASE Record(w) BY <1>8 DEF Record
<1>9. CASE CleanUp(w) BY <1>9 DEF CleanUp
<1>10. CASE Judge(w) BY <1>10 DEF Judge
<1>11. CASE Parse(w) BY <1>11 DEF Parse
<1> QED BY <1>1, <1>2, <1>3, <1>4, <1>5, <1>6, <1>7, <1>8, <1>9, <1>10, <1>11, <1>12 DEF InsideRun

LEMMA WorkStep == IInv /\ [Next]_vars => WorkInv'
<1> SUFFICES ASSUME IInv, [Next]_vars PROVE WorkInv'
    OBVIOUS
<1>t. TypeInv /\ PoolTypeOK /\ CallerTypeOK /\ RunTypeOK /\ WorkInv BY DEF IInv, TypeInv, TypeOK
<1> USE PoolAssumption, <1>t DEF WorkInv, Active, PoolTypeOK, FutureStates, Threads, NoRun
<1>1. CASE UNCHANGED <<future, job, phase, started>> BY <1>1
<1>2. CASE CallerOnly
  <2>1. started' = started
        BY <1>2 DEF CallerOnly, StartClear, StartRunning, StartReset, StopEvent, StopStatus,
           StopCleanup, ShutdownEnd, AwaitDone, ReadTimes, ReadResult, ReadStatus, ReturnResult
  <2> QED BY <1>1, <1>2, <2>1, CallerOnlyFrame
<1>3. CASE StartSubmit
  <2>1. UNCHANGED <<job, phase>> BY <1>3 DEF StartSubmit, Submit, poolVars
  <2>2. CASE Submit(started + 1) /\ started' = started + 1
    <3>1. started + 1 \in Runs
          BY <1>t, <1>3 DEF StartSubmit, CallerAt, TypeInv, CallerSupport, CallerTypeOK, Starting, Runs
    <3>2. future[started + 1] = "none" BY <3>1 DEF Runs, CallerTypeOK
    <3> QED BY <2>1, <2>2, <3>1, <3>2 DEF Submit, Runs, CallerTypeOK, TypeInv, OutcomeSupport
  <2>3. CASE ~accepting /\ UNCHANGED <<poolVars, started>> BY <1>1, <2>1, <2>3 DEF poolVars
  <2> QED BY <1>3, <2>2, <2>3 DEF StartSubmit
<1>4. CASE StartCallback
      BY ZenonT(40), <1>4 DEF StartCallback, AddCallback, InvokeCallbackNow
<1>c. ASSUME NEW q \in Runs, CancelQueued(q), UNCHANGED <<phase, started>> PROVE WorkInv'
      BY <1>c DEF CancelQueued, CancelFuture, TypeInv, OutcomeSupport
<1>5. CASE StopCancel BY <1>1, <1>c, <1>5 DEF StopCancel
<1>6. CASE ShutdownBegin BY <1>1, <1>6 DEF ShutdownBegin
<1>7. CASE ShutdownDrain
  <2>1. Head(queue) \in Runs BY <1>7 DEF ShutdownDrain
  <2> QED BY <1>1, <1>c, <1>7, <2>1 DEF ShutdownDrain, callVars
<1>8. ASSUME NEW w \in Workers, TakeRun(w) PROVE WorkInv'
  <2>1. Head(queue) \in Runs BY <1>8 DEF TakeRun, Take
  <2> QED BY <1>8, <2>1 DEF TakeRun, Take, Goto, RunTypeOK, callVars, TypeInv, OutcomeSupport
<1>9. ASSUME NEW w \in Workers, InsideRun(w) PROVE WorkInv'
      BY <1>9, InsideRunFrame, InsideRunLocal
<1>10. ASSUME NEW w \in Workers, Finish(w) PROVE WorkInv'
      BY <1>10 DEF Finish, FinishFuture, Goto, RunTypeOK, callVars, TypeInv, OutcomeSupport
<1>11. ASSUME NEW t \in Threads, Publish(t) PROVE WorkInv' BY <1>1, <1>11 DEF Publish, poolVars, callVars
<1>12. ASSUME NEW t \in Threads, CallbackReturns(t) PROVE WorkInv'
      BY <1>12 DEF CallbackReturns, Release, callVars
<1>13. ASSUME NEW r \in Runs, Expire(r) \/ ContainerUp(r) PROVE WorkInv'
      BY <1>1, <1>13 DEF Expire, ContainerUp, RunUnchanged, poolVars, callVars
<1>14. CASE DropCancelled \/ UNCHANGED vars
      BY <1>1, <1>14 DEF DropCancelled, Drop, vars, poolVars, callVars
<1> QED BY <1>1, <1>2, <1>3, <1>4, <1>5, <1>6, <1>7, <1>8, <1>9, <1>10, <1>11, <1>12, <1>13, <1>14,
           NextCases DEF PoolCall

\* What a step must leave alone for the facts of the phases and of the runs to stand.
LEMMA RunFrame ==
    ASSUME RunInv, UNCHANGED <<future, job, phase, proc, ended, cleaned, outcome>>
    PROVE  RunInv'
BY DEF RunInv, RunFacts, PhaseFacts, Active

LEMMA RunStep == IInv /\ [Next]_vars => RunInv'
<1> SUFFICES ASSUME IInv, [Next]_vars PROVE RunInv'
    OBVIOUS
<1>t. TypeInv /\ PoolTypeOK /\ CallerTypeOK /\ RunTypeOK /\ WorkInv /\ RunInv
      BY DEF IInv, TypeInv, TypeOK
<1>a. \A w \in Workers : Active(w) => job[w] \in Runs
      BY <1>t DEF TypeInv, OutcomeSupport, Active
<1> USE PoolAssumption, <1>t
<1>1. CASE CallerOnly BY <1>1, RunFrame, CallerOnlyFrame
<1>2. CASE StartSubmit
  <2>1. UNCHANGED <<job, phase, proc, ended, cleaned, outcome>>
        BY <1>2, PoolCallFrame DEF StartSubmit, Submit, poolVars, PoolCall
  <2>2. CASE Submit(started + 1)
    <3>1. started + 1 \in Runs /\ future[started + 1] = "none"
          BY <1>2 DEF StartSubmit, CallerAt, TypeInv, CallerSupport, CallerTypeOK, Starting, Runs, WorkInv
    <3>2. \A r \in Runs : future'[r] = future[r] \/ (future[r] = "none" /\ future'[r] = "pending")
          BY <2>2, <3>1 DEF Submit, PoolTypeOK
    <3> QED BY <2>1, <3>2 DEF RunInv, RunFacts, PhaseFacts, Active
  <2>3. CASE ~accepting BY <1>2, <2>1, <2>3, RunFrame DEF StartSubmit, Submit, poolVars
  <2> QED BY <1>2, <2>2, <2>3 DEF StartSubmit
<1>3. CASE StartCallback
  <2>1. UNCHANGED <<future, phase, proc, ended, cleaned, outcome>>
        BY <1>3, PoolCallFrame DEF StartCallback, AddCallback, InvokeCallbackNow, PoolCall
  <2>2. \A w \in Workers : job'[w] = job[w]
        BY <1>3 DEF StartCallback, AddCallback, InvokeCallbackNow, PoolTypeOK, Threads
  <2> QED BY <2>1, <2>2 DEF RunInv, RunFacts, PhaseFacts, Active
<1>c. ASSUME NEW q \in Runs, CancelQueued(q), UNCHANGED <<phase, proc, ended, cleaned>>
      PROVE  RunInv'
  <2>1. \A w \in Workers : job'[w] = job[w] BY <1>c DEF CancelQueued, CancelFuture, PoolTypeOK, Threads
  <2>2. \A r \in Runs : r # q => future'[r] = future[r] /\ outcome'[r] = outcome[r]
        BY <1>c DEF CancelQueued, CancelFuture, PoolTypeOK, RunTypeOK
  <2>3. future[q] = "pending" /\ future'[q] = "cancelled"
        BY <1>c DEF CancelQueued, CancelFuture, PoolTypeOK
  <2>4. \A w \in Workers : Active(w) => job[w] # q BY <2>3 DEF WorkInv
  <2>5. ASSUME NEW w \in Workers, Active(w)' PROVE PhaseFacts(phase[w], job[w])'
        BY <1>a, <1>c, <2>1, <2>2, <2>4, <2>5 DEF RunInv, PhaseFacts, Active
  <2>6. ASSUME NEW r \in Runs PROVE RunFacts(r)'
        BY <1>c, <2>1, <2>2, <2>3 DEF RunInv, RunFacts, Active
  <2> QED BY <2>5, <2>6 DEF RunInv
<1>4. CASE StopCancel BY <1>c, <1>4, RunFrame, PoolCallFrame DEF StopCancel, PoolCall
<1>5. CASE ShutdownBegin BY <1>5, RunFrame, PoolCallFrame DEF ShutdownBegin, PoolCall
<1>6. CASE ShutdownDrain
  <2>1. Head(queue) \in Runs BY <1>6 DEF ShutdownDrain, PoolTypeOK
  <2> QED BY <1>c, <1>6, <2>1, RunFrame, PoolCallFrame DEF ShutdownDrain, PoolCall
<1>7. ASSUME NEW w \in Workers, TakeRun(w) PROVE RunInv'
  <2> DEFINE q == Head(queue)
  <2>1. q \in Runs /\ future[q] = "pending" /\ future'[q] = "running" /\ job'[w] = q
        /\ phase'[w] = "build"
        BY <1>7 DEF TakeRun, Take, Goto, PoolTypeOK, RunTypeOK, Threads
  <2>2. \A r \in Runs : r # q => future'[r] = future[r]
        BY <1>7, <2>1 DEF TakeRun, Take, PoolTypeOK
  <2>3. \A v \in Workers : v # w => job'[v] = job[v] /\ phase'[v] = phase[v]
        BY <1>7 DEF TakeRun, Take, Goto, PoolTypeOK, RunTypeOK, Threads
  <2>4. UNCHANGED <<proc, ended, cleaned, outcome>> BY <1>7 DEF TakeRun, procVars
  <2>5. ~Active(w) BY <1>a, <1>7 DEF TakeRun, Take, NoRun, Runs
  <2> HIDE DEF q
  <2>6. ASSUME NEW v \in Workers, Active(v)' PROVE PhaseFacts(phase[v], job[v])'
    <3>1. CASE v = w BY <2>1, <2>4, <3>1 DEF RunInv, RunFacts, PhaseFacts
    <3>2. CASE v # w BY <2>3, <2>4, <2>6, <3>2 DEF RunInv, PhaseFacts, Active
    <3> QED BY <3>1, <3>2
  <2>7. ASSUME NEW r \in Runs PROVE RunFacts(r)'
    <3>1. CASE r = q BY <2>1, <2>4, <3>1 DEF RunInv, RunFacts, Active
    <3>2. CASE r # q BY <2>2, <2>3, <2>4, <2>5, <3>2 DEF RunInv, RunFacts, Active
    <3> QED BY <3>1, <3>2
  <2> QED BY <2>6, <2>7 DEF RunInv
<1>8. ASSUME NEW w \in Workers, InsideRun(w) PROVE RunInv'
  <2>1. UNCHANGED <<future, job>> BY <1>8, InsideRunFrame
  <2>2. Active(w) /\ Active(w)' /\ job[w] \in Runs BY <1>8, InsideRunLocal
  <2>3. \A v \in Workers : v # w => phase'[v] = phase[v] BY <1>8, InsideRunLocal
  <2>4. \A r \in Runs : r # job[w] => /\ proc'[r] = proc[r] /\ ended'[r] = ended[r]
                                      /\ cleaned'[r] = cleaned[r] /\ outcome'[r] = outcome[r]
        BY <1>8, InsideRunLocal
  <2>5. PhaseFacts(phase[w], job[w])' BY <1>8, <2>2, InsideRunFacts DEF RunInv
  <2>6. ASSUME NEW v \in Workers, Active(v)', v # w PROVE PhaseFacts(phase[v], job[v])'
    <3>1. Active(v) /\ job[v] # job[w] /\ job[v] \in Runs
          BY <1>a, <2>2, <2>3, <2>6 DEF Active, WorkInv
    <3> QED BY <2>1, <2>3, <2>4, <2>6, <3>1 DEF RunInv, PhaseFacts
  <2>7. ASSUME NEW r \in Runs PROVE RunFacts(r)'
    <3>1. CASE r = job[w]
          BY <2>1, <2>2, <2>3, <3>1 DEF RunFacts, WorkInv
    <3>2. CASE r # job[w]
          BY <2>1, <2>2, <2>3, <2>4, <3>2 DEF RunInv, RunFacts, Active
    <3> QED BY <3>1, <3>2
  <2> QED BY <2>5, <2>6, <2>7 DEF RunInv
<1>9. ASSUME NEW w \in Workers, Finish(w) PROVE RunInv'
  <2> DEFINE q == job[w]
  <2>1. q \in Runs /\ Active(w) /\ phase[w] = "finish" /\ phase'[w] = "publish"
        BY <1>9, <1>a DEF Finish, Goto, Active, RunTypeOK
  <2>2. UNCHANGED <<job, proc, ended, cleaned, outcome>>
        BY <1>9 DEF Finish, FinishFuture, procVars
  <2>3. future'[q] = "finished" /\ \A r \in Runs : r # q => future'[r] = future[r]
        BY <1>9, <2>1 DEF Finish, FinishFuture, PoolTypeOK
  <2>4. \A v \in Workers : v # w => phase'[v] = phase[v] BY <1>9 DEF Finish, Goto, RunTypeOK
  <2>5. PhaseFacts("finish", q) BY <2>1 DEF RunInv
  <2>6. ASSUME NEW v \in Workers, Active(v)' PROVE PhaseFacts(phase[v], job[v])'
        BY <2>1, <2>2, <2>4, <2>6 DEF RunInv, PhaseFacts, Active
  <2>7. ASSUME NEW r \in Runs PROVE RunFacts(r)'
    <3>1. CASE r = q BY <2>2, <2>3, <2>5, <3>1 DEF RunFacts, PhaseFacts
    <3>2. CASE r # q BY <2>1, <2>2, <2>3, <2>4, <3>2 DEF RunInv, RunFacts, Active
    <3> QED BY <3>1, <3>2
  <2> QED BY <2>6, <2>7 DEF RunInv
<1>10. ASSUME NEW t \in Threads, Publish(t) PROVE RunInv'
       BY <1>10, RunFrame DEF Publish, poolVars, procVars
<1>11. ASSUME NEW t \in Threads, CallbackReturns(t) PROVE RunInv'
  <2>1. UNCHANGED <<future, proc, ended, cleaned, outcome>>
        BY <1>11 DEF CallbackReturns, Release, procVars
  <2>2. \A w \in Workers : Active(w) => w # t
        BY <1>11 DEF CallbackReturns, Active
  <2>3. \A w \in Workers : w # t => job'[w] = job[w] /\ phase'[w] = phase[w]
        BY <1>11 DEF CallbackReturns, Release, PoolTypeOK, Threads
  <2>4. \A w \in Workers : w = t => ~Active(w)'
        BY <1>11 DEF CallbackReturns, Active
  <2> QED BY <2>1, <2>2, <2>3, <2>4 DEF RunInv, RunFacts, PhaseFacts, Active
<1>12. ASSUME NEW r \in Runs, Expire(r) \/ ContainerUp(r) PROVE RunInv'
       BY <1>12, RunFrame DEF Expire, ContainerUp, RunUnchanged, poolVars
<1>13. CASE DropCancelled \/ UNCHANGED vars
       BY <1>13, RunFrame DEF DropCancelled, Drop, vars, poolVars, procVars
<1> QED BY <1>1, <1>2, <1>3, <1>4, <1>5, <1>6, <1>7, <1>8, <1>9, <1>10, <1>11, <1>12, <1>13,
           NextCases DEF PoolCall

LEMMA ContainerStep == IInv /\ [Next]_vars => ContainerInv'
<1> SUFFICES ASSUME IInv, [Next]_vars PROVE ContainerInv'
    OBVIOUS
<1>t. TypeInv /\ PoolTypeOK /\ RunTypeOK /\ WorkInv /\ RunInv /\ ContainerInv
      BY DEF IInv, TypeInv, TypeOK
<1> USE <1>t DEF ContainerInv
<1>1. CASE UNCHANGED <<proc, cleaned, container>> BY <1>1
<1>2. CASE CallerOnly
  <2>1. container' \in {container, NoRun}
        BY <1>2 DEF CallerOnly, StartClear, StartRunning, StartReset, StopEvent, StopStatus,
           StopCleanup, ShutdownEnd, AwaitDone, ReadTimes, ReadResult, ReadStatus, ReturnResult, procVars
  <2> QED BY <1>2, <2>1, CallerOnlyFrame DEF Runs, NoRun
<1>3. ASSUME NEW w \in Workers, TakeRun(w) \/ Finish(w) PROVE ContainerInv'
      BY <1>1, <1>3 DEF TakeRun, Finish, procVars
<1>4. ASSUME NEW w \in Workers, InsideRun(w) PROVE ContainerInv'
  <2>1. job[w] \in Runs /\ Active(w) BY <1>4, InsideRunLocal
  <2>2. PhaseFacts(phase[w], job[w]) BY <2>1 DEF RunInv
  <2>3. \A r \in Runs : r # job[w] => proc'[r] = proc[r] /\ cleaned'[r] = cleaned[r]
        BY <1>4, InsideRunLocal
  <2>4. container' \in {container, NoRun}
        BY <1>4 DEF InsideRun, BuildFails, LaunchFails, Launch, PollCancelled, PollExpired, PollWait,
           WaitExit, WaitTick, Terminate, TerminateRaises, Record, CleanUp, Judge, Parse, ProcessGone, procVars
  <2>5. CASE CleanUp(w)
    <3>1. container' = NoRun \/ (container' = container /\ cleaned'[job[w]] = "failed")
          BY <2>1, <2>5 DEF CleanUp, RunTypeOK
    <3> QED BY <2>1, <2>3, <2>4, <2>5, <3>1 DEF CleanUp, Runs, NoRun
  <2>6. CASE ~CleanUp(w)
    <3>1. UNCHANGED cleaned
          BY <1>4, <2>6 DEF InsideRun, BuildFails, LaunchFails, Launch, PollCancelled, PollExpired,
             PollWait, WaitExit, WaitTick, Terminate, TerminateRaises, Record, Judge, Parse
    <3>2. proc[job[w]] # "none" => proc'[job[w]] # "none"
          BY <1>4, <2>1, <2>6 DEF InsideRun, BuildFails, LaunchFails, Launch, PollCancelled, PollExpired,
             PollWait, WaitExit, WaitTick, Terminate, TerminateRaises, Record, Judge, Parse, ProcessGone, procVars, RunTypeOK
    <3> QED BY <2>1, <2>3, <2>4, <3>1, <3>2 DEF Runs, NoRun
  <2> QED BY <2>5, <2>6
<1>5. ASSUME NEW t \in Threads, Publish(t) \/ CallbackReturns(t) PROVE ContainerInv'
      BY <1>1, <1>5 DEF Publish, CallbackReturns, procVars
<1>6. ASSUME NEW r \in Runs, Expire(r) PROVE ContainerInv' BY <1>1, <1>6 DEF Expire
<1>7. ASSUME NEW r \in Runs, ContainerUp(r) PROVE ContainerInv'
  <2>1. proc[r] = "running" /\ container' = r /\ UNCHANGED <<proc, cleaned>>
        BY <1>7 DEF ContainerUp
  <2>2. future[r] = "running" BY <2>1 DEF RunInv, RunFacts, PoolTypeOK, FutureStates
  <2>3. PICK w \in Workers : Active(w) /\ job[w] = r BY <2>2 DEF RunInv, RunFacts
  <2>4. cleaned[r] = "none" BY <2>1, <2>3 DEF RunInv, PhaseFacts
  <2> QED BY <2>1, <2>4
<1>8. CASE DropCancelled \/ UNCHANGED vars BY <1>1, <1>8 DEF DropCancelled, vars, procVars
<1> QED BY <1>1, <1>2, <1>3, <1>4, <1>5, <1>6, <1>7, <1>8, NextCases, PoolCallFrame

LEMMA StopStep == IInv /\ [Next]_vars => StopInv'
<1> SUFFICES ASSUME IInv, [Next]_vars PROVE StopInv'
    OBVIOUS
<1>t. TypeInv /\ PoolTypeOK /\ CallerTypeOK /\ RunTypeOK /\ WorkInv /\ StopInv
      BY DEF IInv, TypeInv, TypeOK
<1> USE <1>t DEF StopInv, Starting, CancelImpliesStopped
<1>l. ASSUME UNCHANGED <<callerPc, cancelEvent, stopped, ended>>,
             \A r \in Runs : Live(r)' => Live(r)
      PROVE  StopInv'
      BY <1>l
<1>1. CASE CallerOnly
  <2>1. UNCHANGED <<future, ended>> BY <1>1, CallerOnlyFrame
  <2>2. CASE StartClear \/ StartRunning \/ StartReset
        BY <2>1, <2>2 DEF StartClear, StartRunning, StartReset, CallerAt, Live, controlVars
  <2>3. CASE StopEvent BY <2>1, <2>3 DEF StopEvent, CallerAt, Live, CallerTypeOK
  <2>4. CASE StopStatus \/ StopCleanup \/ ShutdownEnd \/ AwaitDone
        BY <2>1, <2>4 DEF StopStatus, StopCleanup, ShutdownEnd, AwaitDone, CallerAt, Live, controlVars
  <2>5. CASE ReadTimes \/ ReadResult \/ ReadStatus \/ ReturnResult
        BY <2>1, <2>5 DEF ReadTimes, ReadResult, ReadStatus, ReturnResult, CallerAt, Live, controlVars
  <2> QED BY <1>1, <2>2, <2>3, <2>4, <2>5 DEF CallerOnly
<1>2. CASE StartSubmit
  <2>1. ~cancelEvent BY <1>2 DEF StartSubmit, CallerAt
  <2> QED BY <1>2, <2>1, PoolCallFrame DEF StartSubmit, PoolCall
<1>3. CASE StartCallback
      BY <1>3, PoolCallFrame
      DEF StartCallback, AddCallback, InvokeCallbackNow, CallerAt, Live, PoolCall
<1>c. ASSUME NEW q \in Runs, CancelQueued(q) PROVE \A r \in Runs : Live(r)' => Live(r)
      BY <1>c DEF CancelQueued, CancelFuture, Live, PoolTypeOK
<1>4. CASE StopCancel
      BY <1>c, <1>4, PoolCallFrame DEF StopCancel, CallerAt, Live, PoolCall
<1>5. CASE ShutdownBegin
  <2>1. UNCHANGED <<future, cancelEvent, stopped, ended>> /\ callerPc' = "shutdown"
        BY <1>5, PoolCallFrame DEF ShutdownBegin, PoolCall
  <2> QED BY <2>1 DEF Live
<1>6. CASE ShutdownDrain
  <2>1. Head(queue) \in Runs BY <1>6 DEF ShutdownDrain, PoolTypeOK
  <2>2. \A r \in Runs : Live(r)' => Live(r) BY <1>c, <1>6, <2>1 DEF ShutdownDrain, Live
  <2> QED BY <1>6, <1>l, <2>2, PoolCallFrame DEF ShutdownDrain, PoolCall, callVars
<1>7. ASSUME NEW w \in Workers, TakeRun(w) PROVE StopInv'
      BY <1>7, <1>l DEF TakeRun, Take, Live, PoolTypeOK, callVars, controlVars, procVars
<1>8. ASSUME NEW w \in Workers, InsideRun(w) PROVE StopInv'
  <2>1. UNCHANGED <<future, callerPc, cancelEvent, stopped>> BY <1>8, InsideRunFrame
  <2>2. CASE PollCancelled(w)
    <3>1. job[w] \in Runs /\ Live(job[w])
          BY <2>2 DEF PollCancelled, TypeInv, OutcomeSupport, WorkInv, Active, Live
    <3> QED BY <2>1, <2>2, <3>1 DEF PollCancelled, RunTypeOK, Live
  <2>3. CASE ~PollCancelled(w)
    <3>1. job[w] \in Runs BY <1>8, InsideRunLocal
    <3>2. \A r \in Runs : ended'[r] = "cancel" => ended[r] = "cancel"
          BY <1>8, <2>3, <3>1 DEF InsideRun, BuildFails, LaunchFails, Launch, PollExpired, PollWait,
             WaitExit, WaitTick, Terminate, TerminateRaises, Record, CleanUp, Judge, Parse, procVars, RunTypeOK
    <3> QED BY <2>1, <3>2 DEF Live
  <2> QED BY <2>2, <2>3
<1>9. ASSUME NEW w \in Workers, Finish(w) PROVE StopInv'
      BY <1>9, <1>l DEF Finish, FinishFuture, Live, PoolTypeOK, callVars, controlVars, procVars
<1>10. ASSUME NEW t \in Threads, Publish(t) \/ CallbackReturns(t) PROVE StopInv'
      BY <1>10, <1>l DEF Publish, CallbackReturns, Release, Live, poolVars, callVars, controlVars, procVars
<1>11. ASSUME NEW r \in Runs, Expire(r) \/ ContainerUp(r) PROVE StopInv'
      BY <1>11, <1>l DEF Expire, ContainerUp, RunUnchanged, Live, poolVars, callVars, controlVars
<1>12. CASE DropCancelled \/ UNCHANGED vars
      BY <1>12, <1>l DEF DropCancelled, Drop, vars, Live, poolVars, callVars, controlVars, procVars
<1> QED BY <1>1, <1>2, <1>3, <1>4, <1>5, <1>6, <1>7, <1>8, <1>9, <1>10, <1>11, <1>12, NextCases
        DEF PoolCall

LEMMA ExcuseStep == IInv /\ [Next]_vars => ExcuseInv'
<1> SUFFICES ASSUME IInv, [Next]_vars PROVE ExcuseInv'
    OBVIOUS
<1>t. TypeInv /\ PoolTypeOK /\ CallerTypeOK /\ RunTypeOK /\ WorkInv /\ RunInv /\ ExcuseInv
      BY DEF IInv, TypeInv, TypeOK
<1> USE <1>t DEF ExcuseInv, Excused
<1>1. CASE UNCHANGED <<startTime, callerPc, cancelEvent, ended, outcome>> BY <1>1
<1>2. CASE CallerOnly
  <2>1. UNCHANGED <<ended, outcome>> BY <1>2, CallerOnlyFrame
  <2>2. CASE StartClear BY <2>1, <2>2 DEF StartClear
  <2>3. CASE StartRunning
    <3>1. \A r \in Runs : ended[r] # "no" => r <= started
          BY DEF RunInv, RunFacts, WorkInv, Runs, CallerTypeOK
    <3>2. startTime' = started + 1 BY <2>3 DEF StartRunning
    <3> QED BY <2>1, <3>1, <3>2 DEF Runs, CallerTypeOK
  <2>4. CASE StartReset BY <2>1, <2>4 DEF StartReset, CallerAt, controlVars
  <2>5. CASE StopEvent BY <2>1, <2>5 DEF StopEvent, CallerAt
  <2>6. CASE StopStatus \/ StopCleanup \/ ShutdownEnd \/ AwaitDone
        BY <2>1, <2>6 DEF StopStatus, StopCleanup, ShutdownEnd, AwaitDone, CallerAt, controlVars
  <2>7. CASE ReadTimes \/ ReadResult \/ ReadStatus \/ ReturnResult
        BY <2>1, <2>7 DEF ReadTimes, ReadResult, ReadStatus, ReturnResult, CallerAt, controlVars
  <2> QED BY <1>2, <2>2, <2>3, <2>4, <2>5, <2>6, <2>7 DEF CallerOnly
<1>3. CASE StartSubmit \/ StartCallback \/ ShutdownBegin
  <2>1. UNCHANGED <<startTime, cancelEvent, ended>> BY <1>3, PoolCallFrame DEF PoolCall
  <2>2. UNCHANGED outcome /\ callerPc # "start_running"
        BY <1>3 DEF StartSubmit, StartCallback, ShutdownBegin, CallerAt
  <2> QED BY <2>1, <2>2
<1>c. ASSUME NEW q \in Runs, CancelQueued(q), UNCHANGED <<startTime, cancelEvent, ended>>,
             callerPc # "start_running"
      PROVE  ExcuseInv'
  <2>1. ended[q] = "no" BY <1>c DEF CancelQueued, CancelFuture, RunInv, RunFacts
  <2>2. \A r \in Runs : r # q => outcome'[r] = outcome[r] BY <1>c DEF CancelQueued, RunTypeOK
  <2> QED BY <1>c, <2>1, <2>2
<1>4. CASE StopCancel BY <1>c, <1>4, PoolCallFrame DEF StopCancel, CallerAt, PoolCall
<1>5. CASE ShutdownDrain
  <2>1. Head(queue) \in Runs BY <1>5 DEF ShutdownDrain, PoolTypeOK
  <2> QED BY <1>1, <1>c, <1>5, <2>1, PoolCallFrame DEF ShutdownDrain, CallerAt, PoolCall, callVars
<1>6. ASSUME NEW w \in Workers, TakeRun(w) \/ Finish(w) PROVE ExcuseInv'
      BY <1>1, <1>6 DEF TakeRun, Finish, controlVars, callVars, procVars
<1>7. ASSUME NEW w \in Workers, InsideRun(w) PROVE ExcuseInv'
  <2>1. UNCHANGED <<startTime, cancelEvent, callerPc>> BY <1>7, InsideRunFrame
  <2>2. job[w] \in Runs /\ Active(w) BY <1>7, InsideRunLocal
  <2>3. PhaseFacts(phase[w], job[w]) BY <2>2 DEF RunInv
  <2>4. \A r \in Runs : r # job[w] => ended'[r] = ended[r] /\ outcome'[r] = outcome[r]
        BY <1>7, InsideRunLocal
  <2>5. CASE PollCancelled(w)
    <3>1. cancelEvent /\ outcome'[job[w]] = "none" BY <2>3, <2>5 DEF PollCancelled, PhaseFacts
    <3> QED BY <2>1, <2>2, <2>4, <3>1
  <2>6. CASE Judge(w)
    <3>1. /\ ended'[job[w]] = ended[job[w]]
          /\ ended[job[w]] = "cancel" =>
                outcome'[job[w]] = IF cancelEvent THEN "cancelled" ELSE "error"
          BY <2>2, <2>6 DEF Judge, procVars, RunTypeOK
    <3>2. outcome[job[w]] = "none" BY <2>3, <2>6 DEF Judge, PhaseFacts
    <3> QED BY <2>1, <2>2, <2>4, <3>1, <3>2
  <2>7. CASE BuildFails(w) \/ Parse(w)
    <3>1. ended'[job[w]] # "cancel"
          BY <2>2, <2>3, <2>7 DEF BuildFails, Parse, PhaseFacts, procVars, RunTypeOK
    <3> QED BY <2>1, <2>4, <3>1
  <2>9. CASE TerminateRaises(w)
    <3>1. outcome'[job[w]] = "raised" BY <2>2, <2>9 DEF TerminateRaises, RunTypeOK
    <3> QED BY <2>1, <2>4, <3>1
  <2>8. CASE ~(PollCancelled(w) \/ Judge(w) \/ BuildFails(w) \/ Parse(w) \/ TerminateRaises(w))
    <3>1. UNCHANGED outcome /\ (ended'[job[w]] = "cancel" => ended[job[w]] = "cancel")
          BY <1>7, <2>2, <2>8 DEF InsideRun, LaunchFails, Launch, PollExpired, PollWait, WaitExit,
             WaitTick, Terminate, Record, CleanUp, procVars, RunTypeOK
    <3> QED BY <2>1, <2>2, <2>4, <3>1
  <2> QED BY <2>5, <2>6, <2>7, <2>8, <2>9
<1>8. ASSUME NEW t \in Threads, Publish(t) \/ CallbackReturns(t) PROVE ExcuseInv'
      BY <1>1, <1>8 DEF Publish, CallbackReturns, controlVars, callVars, procVars
<1>9. ASSUME NEW r \in Runs, Expire(r) \/ ContainerUp(r) PROVE ExcuseInv'
      BY <1>1, <1>9 DEF Expire, ContainerUp, RunUnchanged, controlVars, callVars
<1>10. CASE DropCancelled \/ UNCHANGED vars
      BY <1>1, <1>10 DEF DropCancelled, vars, controlVars, callVars, procVars
<1> QED BY <1>1, <1>2, <1>3, <1>4, <1>5, <1>6, <1>7, <1>8, <1>9, <1>10, NextCases DEF PoolCall

-----------------------------------------------------------------------------
\* The inductive invariant holds in every reachable state.
THEOREM Invariance == Spec => []IInv
<1>1. Init => IInv BY IInvInit
<1>2. IInv /\ [Next]_vars => IInv'
  <2>1. IInv /\ [Next]_vars => TypeInv'
        BY PoolTypeStep, PublishedTypeStep, CallerTypeStep, RunTypeStep, TodoTypeStep,
           OutcomeSupportStep DEF IInv, TypeInv, TypeOK
  <2> QED BY <2>1, WorkStep, RunStep, ContainerStep, StopStep, ExcuseStep DEF IInv
<1> QED BY <1>1, <1>2, PTL DEF Spec

\* A run whose command answered is never over without an attempt to clean up after it, and a
\* cleanup that succeeded leaves no container of the run (_safe_cleanup in _run_command_sync).
THEOREM ContainerReleasedAlways == Spec => []ContainerReleased
<1>1. IInv => ContainerReleased
      BY DEF IInv, RunInv, RunFacts, ContainerInv, ContainerReleased
<1> QED BY <1>1, Invariance, PTL

\* A command is terminated as cancelled only for a stop() called while its run was in the pool.
THEOREM CancelImpliesStoppedAlways == Spec => []CancelImpliesStopped
<1>1. IInv => CancelImpliesStopped BY DEF IInv, StopInv
<1> QED BY <1>1, Invariance, PTL

\* A cancelled command is reported as cancelled, unless the last communicate() raised or another
\* start() has cleared the event.
THEOREM CancelledNotFailureAlways == Spec => []CancelledNotFailure
<1>1. IInv => CancelledNotFailure BY DEF IInv, ExcuseInv, Excused, CancelledNotFailure
<1> QED BY <1>1, Invariance, PTL

\* With the default single worker, no cleanup removes the container of a command that is running,
\* except stop(), which has set the event that ends the command.
THEOREM RemovalSparesRunningAlways ==
    ASSUME \A v, w \in Workers : v = w
    PROVE  Spec => RemovalSparesRunning
<1>1. ASSUME IInv, Next, NEW r \in Runs, container = r, container' # r, proc'[r] = "running"
      PROVE  cancelEvent
  <2>t. TypeInv /\ PoolTypeOK /\ RunTypeOK /\ WorkInv /\ RunInv /\ StopInv
        BY <1>1 DEF IInv, TypeInv, TypeOK
  <2>1. CASE CallerOnly
        BY <1>1, <2>t, <2>1 DEF CallerOnly, StartClear, StartRunning, StartReset, StopEvent, StopStatus,
           StopCleanup, ShutdownEnd, AwaitDone, ReadTimes, ReadResult, ReadStatus, ReturnResult,
           procVars, CallerAt, StopInv
  <2>2. ASSUME NEW w \in Workers, InsideRun(w) PROVE cancelEvent
    <3>1. job[w] \in Runs /\ Active(w) /\ PhaseFacts(phase[w], job[w])
          BY <2>2, <2>t, InsideRunLocal DEF RunInv
    <3>2. CASE WaitExit(w) \/ Terminate(w) \/ TerminateRaises(w)
          BY <1>1, <2>t, <3>1, <3>2 DEF WaitExit, Terminate, TerminateRaises, ProcessGone, RunTypeOK
    <3>3. CASE CleanUp(w)
      <4>1. proc[r] = "running" BY <1>1, <3>3 DEF CleanUp
      <4>2. future[r] = "running"
            BY <2>t, <4>1 DEF RunInv, RunFacts, PoolTypeOK, FutureStates
      <4>3. job[w] = r BY <2>t, <4>2 DEF RunInv, RunFacts
      <4> QED BY <3>1, <3>3, <4>1, <4>3 DEF CleanUp, PhaseFacts
    <3>4. CASE ~(WaitExit(w) \/ Terminate(w) \/ TerminateRaises(w) \/ CleanUp(w))
          BY <1>1, <2>2, <3>4 DEF InsideRun, BuildFails, LaunchFails, Launch, PollCancelled, PollExpired,
             PollWait, WaitTick, Record, Judge, Parse, procVars
    <3> QED BY <3>2, <3>3, <3>4
  <2>3. ASSUME NEW w \in Workers, TakeRun(w) \/ Finish(w) PROVE cancelEvent
        BY <1>1, <2>3 DEF TakeRun, Finish, procVars
  <2>4. ASSUME NEW t \in Threads, Publish(t) \/ CallbackReturns(t) PROVE cancelEvent
        BY <1>1, <2>4 DEF Publish, CallbackReturns, procVars
  <2>5. ASSUME NEW q \in Runs, Expire(q) \/ ContainerUp(q) PROVE cancelEvent
        BY <1>1, <2>5 DEF Expire, ContainerUp, Runs, NoRun
  <2>6. CASE DropCancelled \/ UNCHANGED vars
        BY <1>1, <2>6 DEF DropCancelled, vars, procVars
  <2>7. [Next]_vars BY <1>1
  <2> QED BY <1>1, <2>1, <2>2, <2>3, <2>4, <2>5, <2>6, <2>7, NextCases, PoolCallFrame
<1>2. IInv /\ [Next]_vars =>
        [\A r \in Runs : container = r /\ container' # r /\ proc'[r] = "running" => cancelEvent]_vars
      BY <1>1
<1> QED BY <1>2, Invariance, PTL DEF Spec, RemovalSparesRunning

-----------------------------------------------------------------------------
(* Each run's command is a CommandRun.                                     *)

\* The worker is in run_cancellable_command for run r.
InCommand(w, r) == job[w] = r /\ phase[w] \in {"poll", "wait", "terminate"}

\* A run is where its worker is ...
LEMMA StageInside ==
    ASSUME WorkInv, NEW w \in Workers, phase[w] \in {"poll", "wait", "terminate"}
    PROVE  CommandStage(job[w]) = phase[w]
<1> DEFINE at == {v \in Workers : job[v] = job[w] /\ phase[v] \in {"poll", "wait", "terminate"}}
<1>1. at = {w} BY DEF WorkInv, Active
<1>2. (CHOOSE v \in at : TRUE) = w BY <1>1
<1> QED BY <1>1, <1>2 DEF CommandStage

\* ... or, with no worker there, before or after its command.
LEMMA StageOutside ==
    ASSUME NEW r, \A w \in Workers : ~InCommand(w, r)
    PROVE  CommandStage(r) = CASE ended[r] = "no" -> "launch"
                               [] ended[r] # "no" /\ outcome[r] = "raised" -> "raised"
                               [] OTHER -> "done"
<1> DEFINE at == {v \in Workers : job[v] = r /\ phase[v] \in {"poll", "wait", "terminate"}}
<1>1. at = {} BY DEF InCommand
<1> QED BY <1>1 DEF CommandStage

\* The same of the next state.
LEMMA StageInsideNext ==
    ASSUME WorkInv', NEW w \in Workers, phase'[w] \in {"poll", "wait", "terminate"}
    PROVE  CommandStage(job[w])' = phase'[w]
<1> DEFINE at == {v \in Workers : job'[v] = job'[w] /\ phase'[v] \in {"poll", "wait", "terminate"}}
<1>1. at = {w} BY DEF WorkInv, Active
<1>2. (CHOOSE v \in at : TRUE) = w BY <1>1
<1> QED BY <1>1, <1>2 DEF CommandStage

LEMMA StageOutsideNext ==
    ASSUME NEW r, \A w \in Workers : ~InCommand(w, r)'
    PROVE  CommandStage(r)' = CASE ended'[r] = "no" -> "launch"
                                [] ended'[r] # "no" /\ outcome'[r] = "raised" -> "raised"
                                [] OTHER -> "done"
<1> DEFINE at == {v \in Workers : job'[v] = r /\ phase'[v] \in {"poll", "wait", "terminate"}}
<1>1. at = {} BY DEF InCommand
<1> QED BY <1>1 DEF CommandStage

\* The stage of a run whose worker, and whose end, a step leaves alone.
LEMMA StageFrame ==
    ASSUME NEW r, ended'[r] = ended[r], ended[r] # "no" => outcome'[r] = outcome[r],
           \A w \in Workers : InCommand(w, r)' <=> InCommand(w, r),
           \A w \in Workers : InCommand(w, r) => phase'[w] = phase[w]
    PROVE  CommandStage(r)' = CommandStage(r)
<1> DEFINE at == {v \in Workers : job[v] = r /\ phase[v] \in {"poll", "wait", "terminate"}}
<1>1. at' = at BY DEF InCommand
<1>2. CASE at = {} BY <1>1, <1>2 DEF CommandStage
<1>3. CASE at # {}
  <2>1. (CHOOSE v \in at : TRUE) \in at BY <1>3
  <2> DEFINE v == CHOOSE v \in at : TRUE
  <2>2. phase'[v] = phase[v] BY <2>1 DEF InCommand
  <2> QED BY <1>1, <1>3, <2>2 DEF CommandStage
<1> QED BY <1>2, <1>3

\* The event may change under a run that stands still.
LEMMA StillIsCommandRun ==
    ASSUME NEW r, CommandStage(r)' = CommandStage(r), ended'[r] = ended[r], expired'[r] = expired[r],
           cancelEvent \in BOOLEAN, cancelEvent' \in BOOLEAN
    PROVE  CR(r)!Next \/ UNCHANGED CR(r)!vars
<1>1. CASE cancelEvent' = cancelEvent BY <1>1 DEF CR!vars
<1>2. CASE cancelEvent' = ~cancelEvent BY <1>2 DEF CR!Next, CR!Environment
<1> QED BY <1>1, <1>2

\* A step that moves no worker in or out of a command, and no clock.
LEMMA OutsideCommands ==
    ASSUME UNCHANGED <<ended, expired>>, cancelEvent \in BOOLEAN, cancelEvent' \in BOOLEAN,
           \A q \in Runs : ended[q] # "no" => outcome'[q] = outcome[q],
           \A w \in Workers : \/ job'[w] = job[w] /\ phase'[w] = phase[w]
                              \/ {phase[w], phase'[w]} \intersect {"poll", "wait", "terminate"} = {},
           NEW r \in Runs
    PROVE  CR(r)!Next \/ UNCHANGED CR(r)!vars
<1>1. \A w \in Workers : InCommand(w, r)' <=> InCommand(w, r) BY DEF InCommand
<1>2. \A w \in Workers : InCommand(w, r) => phase'[w] = phase[w] BY DEF InCommand
<1> QED BY <1>1, <1>2, StageFrame, StillIsCommandRun

\* A worker in its run: the step is one of its command, or comes before or after.
LEMMA InsideIsCommandRun ==
    ASSUME IInv, WorkInv', NEW w \in Workers, InsideRun(w), NEW r \in Runs
    PROVE  CR(r)!Next \/ UNCHANGED CR(r)!vars
<1>t. TypeInv /\ RunTypeOK /\ CallerTypeOK /\ WorkInv /\ RunInv BY DEF IInv, TypeInv, TypeOK
<1>j. /\ job[w] \in Runs /\ Active(w) /\ Active(w)' /\ PhaseFacts(phase[w], job[w])
      /\ \A v \in Workers : v # w => phase'[v] = phase[v]
      /\ \A q \in Runs : q # job[w] => ended'[q] = ended[q] /\ outcome'[q] = outcome[q]
      /\ UNCHANGED <<job, cancelEvent>>
      BY <1>t, InsideRunLocal, InsideRunFrame DEF RunInv
<1>o. \A v \in Workers : v # w => ~InCommand(v, job[w]) /\ ~InCommand(v, job[w])'
      BY <1>t, <1>j DEF WorkInv, Active, InCommand
<1>in. phase[w] \in {"poll", "wait", "terminate"} => CommandStage(job[w]) = phase[w]
      BY <1>t, StageInside
<1>out. phase[w] \notin {"poll", "wait", "terminate"}
            => CommandStage(job[w]) = CASE ended[job[w]] = "no" -> "launch"
                                        [] ended[job[w]] # "no" /\ outcome[job[w]] = "raised" -> "raised"
                                        [] OTHER -> "done"
      BY <1>o, StageOutside DEF InCommand
<1>in2. phase'[w] \in {"poll", "wait", "terminate"} => CommandStage(job[w])' = phase'[w]
      BY <1>j, StageInsideNext
<1>out2. phase'[w] \notin {"poll", "wait", "terminate"}
            => CommandStage(job[w])' = CASE ended'[job[w]] = "no" -> "launch"
                                         [] ended'[job[w]] # "no" /\ outcome'[job[w]] = "raised" -> "raised"
                                         [] OTHER -> "done"
      BY <1>o, <1>j, StageOutsideNext DEF InCommand
<1>e. UNCHANGED expired
      BY DEF InsideRun, BuildFails, LaunchFails, Launch, PollCancelled, PollExpired, PollWait, WaitExit,
             WaitTick, Terminate, TerminateRaises, Record, CleanUp, Judge, Parse, procVars
<1>1. CASE r # job[w]
  <2>1. \A v \in Workers : /\ InCommand(v, r)' <=> InCommand(v, r)
                           /\ InCommand(v, r) => phase'[v] = phase[v]
        BY <1>1, <1>j DEF InCommand
  <2> QED BY <1>1, <1>j, <1>e, <1>t, <2>1, StageFrame, StillIsCommandRun DEF CallerTypeOK
<1>2. CASE r = job[w]
  <2> USE <1>2, <1>t DEF RunTypeOK, Goto, procVars, PhaseFacts
  <2>s. CommandStage(r)' = CommandStage(r) /\ ended'[r] = ended[r] => UNCHANGED CR(r)!vars
        BY <1>j, <1>e DEF CR!vars
  <2>1. CASE BuildFails(w)
    <3>1. phase[w] = "build" /\ phase'[w] = "finish" /\ UNCHANGED ended /\ ended[r] = "no"
          BY <2>1, <1>j DEF BuildFails
    <3> QED BY <3>1, <1>out, <1>out2, <1>j, <2>s
  <2>2. CASE LaunchFails(w)
    <3>1. /\ phase[w] = "build" /\ phase'[w] = "record" /\ ended[r] = "no" /\ ended'[r] = "unlaunched"
          /\ outcome'[r] = "none"
          BY <2>2, <1>j DEF LaunchFails
    <3> QED BY <3>1, <1>out, <1>out2, <1>j, <1>e DEF CR!Next, CR!Launch
  <2>3. CASE Launch(w)
    <3>1. phase[w] = "build" /\ phase'[w] = "poll" /\ ended[r] = "no" /\ UNCHANGED ended
          BY <2>3, <1>j DEF Launch
    <3> QED BY <3>1, <1>out, <1>in2, <1>j, <1>e DEF CR!Next, CR!Launch
  <2>4. CASE PollCancelled(w)
    <3>1. phase[w] = "poll" /\ phase'[w] = "terminate" /\ cancelEvent /\ ended'[r] = "cancel"
          BY <2>4, <1>j DEF PollCancelled
    <3> QED BY <3>1, <1>in, <1>in2, <1>j, <1>e DEF CR!Next, CR!Poll
  <2>5. CASE PollExpired(w)
    <3>1. /\ phase[w] = "poll" /\ phase'[w] = "terminate" /\ ~cancelEvent /\ expired[r]
          /\ ended'[r] = "timeout"
          BY <2>5, <1>j DEF PollExpired
    <3> QED BY <3>1, <1>in, <1>in2, <1>j, <1>e DEF CR!Next, CR!Poll
  <2>6. CASE PollWait(w)
    <3>1. /\ phase[w] = "poll" /\ phase'[w] = "wait" /\ ~cancelEvent /\ ~expired[r]
          /\ UNCHANGED ended
          BY <2>6 DEF PollWait
    <3> QED BY <3>1, <1>in, <1>in2, <1>j, <1>e DEF CR!Next, CR!Poll
  <2>7. CASE WaitExit(w)
    <3>1. /\ phase[w] = "wait" /\ phase'[w] = "record" /\ ended'[r] \in {"zero", "nonzero"}
          /\ outcome'[r] = "none"
          BY <2>7, <1>j DEF WaitExit
    <3> QED BY <3>1, <1>in, <1>out2, <1>j, <1>e DEF CR!Next, CR!Wait
  <2>8. CASE WaitTick(w)
    <3>1. phase[w] = "wait" /\ phase'[w] = "poll" /\ UNCHANGED ended BY <2>8 DEF WaitTick
    <3> QED BY <3>1, <1>in, <1>in2, <1>j, <1>e DEF CR!Next, CR!Wait
  <2>9. CASE Terminate(w)
    <3>1. phase[w] = "terminate" /\ phase'[w] = "record" /\ UNCHANGED <<ended, outcome>>
          BY <2>9 DEF Terminate
    <3>2. ended[r] # "no" /\ outcome[r] = "none" BY <1>j, <3>1
    <3> QED BY <3>1, <3>2, <1>in, <1>out2, <1>j, <1>e DEF CR!Next, CR!Terminate
  <2>10. CASE TerminateRaises(w)
    <3>1. /\ phase[w] = "terminate" /\ phase'[w] = "finish" /\ outcome'[r] = "raised"
          /\ UNCHANGED ended
          BY <2>10, <1>j DEF TerminateRaises
    <3>2. ended[r] # "no" BY <1>j, <3>1
    <3> QED BY <3>1, <3>2, <1>in, <1>out2, <1>j, <1>e DEF CR!Next, CR!Terminate
  <2>11. CASE Record(w) \/ CleanUp(w) \/ Judge(w) \/ Parse(w)
    <3>1. /\ {phase[w], phase'[w]} \subseteq {"record", "cleanup", "judge", "parse", "finish"}
          /\ UNCHANGED ended /\ outcome[r] = "none" /\ outcome'[r] # "raised"
          BY <2>11, <1>j DEF Record, CleanUp, Judge, Parse
    <3> QED BY <3>1, <1>out, <1>out2, <1>j, <2>s
  <2> QED BY <2>1, <2>2, <2>3, <2>4, <2>5, <2>6, <2>7, <2>8, <2>9, <2>10, <2>11 DEF InsideRun
<1> QED BY <1>1, <1>2

LEMMA StepsAreCommandRuns ==
    ASSUME IInv, IInv', [Next]_vars, NEW r \in Runs
    PROVE  CR(r)!Next \/ UNCHANGED CR(r)!vars
<1>t. TypeInv /\ RunTypeOK /\ PoolTypeOK /\ OutcomeSupport /\ RunInv /\ WorkInv'
      BY DEF IInv, TypeInv, TypeOK
<1>b. cancelEvent \in BOOLEAN /\ cancelEvent' \in BOOLEAN BY DEF IInv, TypeInv, TypeOK, CallerTypeOK
<1>o. ASSUME UNCHANGED <<ended, expired, phase>>,
             \A q \in Runs : ended[q] # "no" => outcome'[q] = outcome[q],
             \A w \in Workers : phase[w] # "idle" => job'[w] = job[w]
      PROVE  CR(r)!Next \/ UNCHANGED CR(r)!vars
      BY <1>b, <1>o, OutsideCommands
<1>1. CASE CallerOnly BY <1>1, <1>o, CallerOnlyFrame
<1>2. CASE PoolCall
  <2>1. UNCHANGED <<ended, expired, phase>>
        BY <1>2, PoolCallFrame
           DEF PoolCall, StartSubmit, StartCallback, StopCancel, ShutdownBegin, ShutdownDrain, procVars
  <2>2. \A w \in Workers : job'[w] = job[w]
    <3>1. job' = job \/ \E q : job' = [job EXCEPT ![Caller] = q]
          BY <1>2 DEF PoolCall, StartSubmit, StartCallback, StopCancel, ShutdownBegin, ShutdownDrain,
             Submit, AddCallback, InvokeCallbackNow, CancelQueued, CancelFuture, poolVars
    <3> QED BY <1>t, <3>1, PoolAssumption DEF PoolTypeOK, Threads
  <2>3. ASSUME NEW q \in Runs, CancelQueued(q)
        PROVE  \A p \in Runs : ended[p] # "no" => outcome'[p] = outcome[p]
    <3>1. ended[q] = "no" BY <1>t, <2>3 DEF CancelQueued, CancelFuture, RunInv, RunFacts
    <3> QED BY <1>t, <2>3, <3>1 DEF CancelQueued, RunTypeOK
  <2>4. \A p \in Runs : ended[p] # "no" => outcome'[p] = outcome[p]
    <3>1. CASE ShutdownDrain
      <4>1. Head(queue) \in Runs BY <1>t, <3>1 DEF ShutdownDrain, PoolTypeOK
      <4> QED BY <2>3, <3>1, <4>1 DEF ShutdownDrain
    <3>2. CASE StopCancel BY <2>3, <3>2 DEF StopCancel
    <3> QED BY <1>2, <3>1, <3>2 DEF PoolCall, StartSubmit, StartCallback, ShutdownBegin
  <2> QED BY <1>o, <2>1, <2>2, <2>4
<1>3. ASSUME NEW w \in Workers, TakeRun(w) PROVE CR(r)!Next \/ UNCHANGED CR(r)!vars
  <2>1. job[w] = NoRun /\ phase[w] = "idle"
        BY <1>3, <1>t DEF TakeRun, Take, OutcomeSupport, Runs, NoRun
  <2>2. phase'[w] = "build" /\ \A v \in Workers : v # w => phase'[v] = phase[v] /\ job'[v] = job[v]
        BY <1>3, <1>t DEF TakeRun, Take, Goto, RunTypeOK, PoolTypeOK, Threads
  <2>3. UNCHANGED <<ended, expired, outcome>> BY <1>3 DEF TakeRun, procVars
  <2> QED BY <1>b, <2>1, <2>2, <2>3, OutsideCommands
<1>4. ASSUME NEW w \in Workers, InsideRun(w) PROVE CR(r)!Next \/ UNCHANGED CR(r)!vars
      BY <1>4, <1>t, InsideIsCommandRun
<1>5. ASSUME NEW w \in Workers, Finish(w) PROVE CR(r)!Next \/ UNCHANGED CR(r)!vars
  <2>1. /\ phase[w] = "finish" /\ phase'[w] = "publish"
        /\ \A v \in Workers : v # w => phase'[v] = phase[v]
        BY <1>5, <1>t DEF Finish, Goto, RunTypeOK
  <2>2. UNCHANGED <<ended, expired, job, outcome>> BY <1>5 DEF Finish, FinishFuture, procVars
  <2> QED BY <1>b, <2>1, <2>2, OutsideCommands
<1>6. ASSUME NEW t \in Threads, Publish(t) PROVE CR(r)!Next \/ UNCHANGED CR(r)!vars
      BY <1>o, <1>6 DEF Publish, poolVars, procVars
<1>7. ASSUME NEW t \in Threads, CallbackReturns(t) PROVE CR(r)!Next \/ UNCHANGED CR(r)!vars
  <2>1. UNCHANGED <<ended, expired, outcome>> BY <1>7 DEF CallbackReturns, procVars
  <2>2. \A v \in Workers : v # t => phase'[v] = phase[v] /\ job'[v] = job[v]
        BY <1>7, <1>t DEF CallbackReturns, Release, RunTypeOK, PoolTypeOK, Threads
  <2>3. t \in Workers => phase[t] = "publish" /\ phase'[t] = "idle"
        BY <1>7, <1>t DEF CallbackReturns, RunTypeOK
  <2> QED BY <1>b, <2>1, <2>2, <2>3, OutsideCommands
<1>8. ASSUME NEW q \in Runs, Expire(q) PROVE CR(r)!Next \/ UNCHANGED CR(r)!vars
  <2>1. UNCHANGED <<ended, phase, job, cancelEvent, outcome>>
        BY <1>8 DEF Expire, RunUnchanged, poolVars, controlVars
  <2>2. CommandStage(r)' = CommandStage(r) BY <2>1, StageFrame DEF InCommand
  <2>3. CASE q = r BY <1>8, <1>t, <2>1, <2>2, <2>3 DEF Expire, RunTypeOK, CR!Next, CR!Environment
  <2>4. CASE q # r BY <1>8, <1>t, <2>1, <2>2, <2>4 DEF Expire, RunTypeOK, CR!vars
  <2> QED BY <2>3, <2>4
<1>9. ASSUME NEW q \in Runs, ContainerUp(q) PROVE CR(r)!Next \/ UNCHANGED CR(r)!vars
      BY <1>o, <1>9 DEF ContainerUp, RunUnchanged, poolVars
<1>10. CASE DropCancelled \/ UNCHANGED vars
      BY <1>o, <1>10 DEF DropCancelled, Drop, vars, poolVars, procVars
<1> QED BY <1>1, <1>2, <1>3, <1>4, <1>5, <1>6, <1>7, <1>8, <1>9, <1>10, NextCases

\* Each run of a workload goes through what run_cancellable_command promises, whoever sets and
\* clears the event the runs share.
THEOREM RunsAreCommandRunsAlways == Spec => RunsAreCommandRuns
<1>1. Init => \A r \in Runs : CR(r)!Init
  <2> SUFFICES ASSUME Init, NEW r \in Runs PROVE CR(r)!Init
      OBVIOUS
  <2>1. \A w \in Workers : ~InCommand(w, r) BY DEF Init, InCommand
  <2>2. CommandStage(r) = "launch" BY <2>1, StageOutside DEF Init
  <2> QED BY <2>2 DEF Init, CR!Init
<1>2. IInv /\ IInv' /\ [Next]_vars => [\A r \in Runs : CR(r)!Next \/ UNCHANGED CR(r)!vars]_vars
      BY StepsAreCommandRuns
<1> QED BY <1>1, <1>2, Invariance, PTL DEF Spec, RunsAreCommandRuns

-----------------------------------------------------------------------------
(* What the attributes tell.  No lock guards them, so the invariant says   *)
(* who may still write what: which writes each callback has still to make, *)
(* and that with one worker no callback of an earlier run outlives the     *)
(* execution of a later one.                                               *)

\* Workload's default pool has one worker.
Single == \A v, w \in Workers : v = w

\* The queue holds the pending runs in the order of their submission, and the one worker has
\* finished with a run before it takes a later one.
OrderInv ==
    /\ \A i, j \in DOMAIN queue : i < j => queue[i] < queue[j]
    /\ \A i \in DOMAIN queue : queue[i] <= started
    /\ \A r \in Runs : future[r] = "pending" => \E i \in DOMAIN queue : queue[i] = r
    /\ \A r \in Runs : r <= started => future[r] # "none"
    /\ \A q, r \in Runs : q < r /\ Live(q) => future[r] \notin {"running", "finished"}

\* A callback is added once, and is invoked when its future is done: only a run just submitted
\* may be without one.
FutureInv ==
    \A r \in Runs :
        /\ FutureDone(r) => callback[r] # "added"
        /\ callback[r] = "invoked" => FutureDone(r)
        /\ r > started => callback[r] = "unset"
        /\ r <= started /\ callback[r] = "unset" => callerPc = "start_callback" /\ r = started
        /\ future[r] = "cancelled" <=> outcome[r] = "dequeued"

\* A thread has writes to make only inside a callback that was invoked; each callback is one
\* thread's, writes the status once, and after a success last.
TodoInv ==
    /\ \A t \in Threads : todo[t] # << >> => job[t] \in Runs /\ callback[job[t]] = "invoked"
    /\ \A w \in Workers : todo[w] # << >> => phase[w] = "publish"
    /\ job[Caller] # NoRun => callback[job[Caller]] = "invoked"
    /\ \A t, u \in Threads : todo[t] # << >> /\ todo[u] # << >> /\ job[t] = job[u] => t = u
    /\ \A t \in Threads : \A i, j \in DOMAIN todo[t] :
          todo[t][i] = "status" /\ todo[t][j] = "status" => i = j
    /\ \A t \in Threads : \A i \in DOMAIN todo[t] :
          todo[t][i] = "status" /\ outcome[job[t]] = "value" => i = Len(todo[t])

\* What the caller knows where it stands.
CallInv ==
    /\ current \in {NoRun, started}
    /\ callerPc = "start_callback" => current = started /\ callback[started] = "unset"
    /\ startTime \in {started, started + 1}
    /\ callerPc \in {"start_reset", "start_submit"} => startTime = started + 1
    /\ callerPc = "start_running" => status # "RUNNING"
    /\ callerPc \in {"stop_cancel", "stop_status", "stop_cleanup"} => stops > 0
    /\ callerPc \in {"get_times", "get_result", "get_status", "got"} => status # "RUNNING" /\ started > 0
    /\ callerPc = "shutdown" => ~accepting

\* Thread t has still to assign attribute a.
InTodo(a, t) == \E i \in DOMAIN todo[t] : todo[t][i] = a

\* Attribute a says what the latest run left; stop() may have overwritten the status.
Written(a) ==
    CASE a = "status" -> status \in {FinalStatus(outcome[started]), "STOPPED"}
      [] a = "result" -> result = FinalResult(started)
      [] a = "endTime" -> endTime = started

\* The latest run is over, its callback invoked, and no start() has come since.
LatestTold ==
    /\ started > 0 /\ startTime = started
    /\ future[started] = "finished" /\ callback[started] = "invoked"

\* The caller runs callbacks of the latest run only: a shutdown after a stop() may cancel others.
LatestInv ==
    accepting \/ stops = 0 =>
        /\ job[Caller] \in {NoRun, started}
        /\ started > 0 /\ future[started] = "finished"
              => \A t \in Threads : job[t] # started => todo[t] = << >>
        /\ LatestTold => \A a \in Attributes :
                            Written(a) \/ \E t \in Threads : job[t] = started /\ InTodo(a, t)

\* Run r has said how it ended.
StatusTold(r) == callback[r] = "invoked" /\ \A t \in Threads : job[t] = r => ~InTodo("status", t)

\* Without a stop(), a start() waits for the status of the run before.
ToldInv ==
    stops = 0 =>
        /\ \A r \in Runs : \/ r < started
                           \/ r = started /\ (status # "RUNNING" \/ startTime > started)
                           => StatusTold(r)
        /\ startTime > started => status = "RUNNING"
        /\ status = "COMPLETED" => /\ started > 0 /\ outcome[started] = "value"
                                   /\ \A t \in Threads : todo[t] = << >>

\* What get_result has read of a run that completed stands until the next start().
SnapInv ==
    stops = 0 =>
        /\ status = "COMPLETED" =>
             /\ callerPc \in {"get_result", "get_status", "got"}
                   => snapshot.start = started /\ snapshot.end = started
             /\ callerPc \in {"get_status", "got"} => snapshot.result = Output(started)
        /\ callerPc = "got" => snapshot.status = status

LatestIInv == IInv /\ OrderInv /\ FutureInv /\ TodoInv /\ CallInv /\ LatestInv /\ ToldInv /\ SnapInv

-----------------------------------------------------------------------------
LEMMA StartedFrame == CallerOnly => UNCHANGED <<started, accepting>>
BY DEF CallerOnly, StartClear, StartRunning, StartReset, StopEvent, StopStatus, StopCleanup,
       ShutdownEnd, AwaitDone, ReadTimes, ReadResult, ReadStatus, ReturnResult, poolVars

LEMMA OrderStep ==
    ASSUME Single, IInv, OrderInv, [Next]_vars
    PROVE  OrderInv'
<1>t. TypeInv /\ PoolTypeOK /\ CallerTypeOK /\ RunTypeOK /\ WorkInv /\ RunInv
      BY DEF IInv, TypeInv, TypeOK
<1>q. queue \in Seq(Runs) /\ \A i \in DOMAIN queue : queue[i] \in Runs /\ queue[i] \in Nat
  <2>1. queue \in Seq(Runs) BY <1>t DEF PoolTypeOK
  <2>2. \A r \in Runs : r \in Nat BY PoolAssumption DEF Runs
  <2> QED BY <2>1, <2>2
<1>h. queue # << >> => /\ Head(queue) = queue[1] /\ 1 \in DOMAIN queue
                       /\ DOMAIN Tail(queue) = 1..(Len(queue) - 1) /\ Len(queue) \in Nat
                       /\ \A i \in DOMAIN Tail(queue) : i + 1 \in DOMAIN queue /\ Tail(queue)[i] = queue[i + 1]
      BY <1>q
<1>s. started \in Nat BY <1>t DEF CallerTypeOK
<1>1. CASE UNCHANGED <<queue, future, started>> BY <1>1 DEF OrderInv, Live
<1>2. CASE StartSubmit
  <2>1. CASE Submit(started + 1) /\ started' = started + 1
    <3> DEFINE n == started + 1
    <3>1. n \in Runs /\ future[n] = "none" /\ started < n /\ n \in Nat
          BY <1>t, <1>2, PoolAssumption
             DEF StartSubmit, CallerAt, TypeInv, CallerSupport, CallerTypeOK, Starting, Runs, WorkInv
    <3>2. /\ DOMAIN queue' = 1..(Len(queue) + 1) /\ Len(queue) \in Nat /\ DOMAIN queue = 1..Len(queue)
          /\ queue'[Len(queue) + 1] = n /\ \A i \in DOMAIN queue : queue'[i] = queue[i]
          BY <1>q, <2>1, <3>1 DEF Submit
    <3>3. future'[n] = "pending" /\ \A r \in Runs : r # n => future'[r] = future[r]
          BY <1>t, <2>1, <3>1 DEF Submit, PoolTypeOK
    <3>4. started' = n BY <2>1
    <3>5. \A r \in Runs : r > started => future[r] = "none" BY <1>t DEF WorkInv
    <3> HIDE DEF n
    <3>6. \A i, j \in DOMAIN queue' : i < j => queue'[i] < queue'[j]
          BY <1>q, <1>s, <3>1, <3>2 DEF OrderInv
    <3>7. \A i \in DOMAIN queue' : queue'[i] <= started'
          BY <1>q, <1>s, <3>1, <3>2, <3>4 DEF OrderInv
    <3>8. \A r \in Runs : future'[r] = "pending" => \E i \in DOMAIN queue' : queue'[i] = r
      <4> SUFFICES ASSUME NEW r \in Runs, future'[r] = "pending" PROVE \E i \in DOMAIN queue' : queue'[i] = r
          OBVIOUS
      <4>1. CASE r = n BY <3>2, <4>1
      <4>2. CASE r # n BY <3>2, <3>3, <4>2 DEF OrderInv
      <4> QED BY <4>1, <4>2
    <3>9. \A r \in Runs : r <= started' => future'[r] # "none"
          BY <1>s, <2>1, <3>3, <3>4 DEF OrderInv, Runs, n
    <3>10. \A q, r \in Runs : q < r /\ Live(q)' => future'[r] \notin {"running", "finished"}
          BY <1>s, <3>1, <3>3, <3>5 DEF OrderInv, Live, Runs
    <3> QED BY <3>6, <3>7, <3>8, <3>9, <3>10 DEF OrderInv
  <2> QED BY <1>1, <1>2, <2>1 DEF StartSubmit, poolVars
<1>f. ASSUME future' = future \/ \E r \in Runs : future[r] = "pending" /\ future' = [future EXCEPT ![r] = "cancelled"]
      PROVE  /\ \A r \in Runs : future'[r] = "pending" => future[r] = "pending"
             /\ \A r \in Runs : future[r] # "none" => future'[r] # "none"
             /\ \A r \in Runs : Live(r)' => Live(r)
             /\ \A r \in Runs : future'[r] \in {"running", "finished"} => future[r] = future'[r]
      BY <1>t, <1>f DEF PoolTypeOK, Live
<1>3. CASE StopCancel
  <2>1. UNCHANGED <<queue, started>> BY <1>3 DEF StopCancel, callVars
  <2>2. future' = future \/ \E r \in Runs : future[r] = "pending" /\ future' = [future EXCEPT ![r] = "cancelled"]
        BY <1>3 DEF StopCancel, CancelQueued, CancelFuture
  <2> QED BY <1>f, <2>1, <2>2 DEF OrderInv
\* The queue loses its head, which is not left pending.
<1>tl. ASSUME queue # << >>, queue' = Tail(queue), future'[Head(queue)] # "pending", started' = started,
             \A r \in Runs : future'[r] = "pending" => future[r] = "pending",
             \A r \in Runs : future[r] # "none" => future'[r] # "none",
             \A q, r \in Runs : q < r /\ Live(q)' => future'[r] \notin {"running", "finished"}
      PROVE  OrderInv'
  <2>1. \A i, j \in DOMAIN queue' : i < j => queue'[i] < queue'[j]
        BY <1>tl, <1>h DEF OrderInv
  <2>2. \A i \in DOMAIN queue' : queue'[i] <= started' BY <1>tl, <1>h DEF OrderInv
  <2>3. \A r \in Runs : future'[r] = "pending" => \E i \in DOMAIN queue' : queue'[i] = r
    <3> SUFFICES ASSUME NEW r \in Runs, future'[r] = "pending" PROVE \E i \in DOMAIN queue' : queue'[i] = r
        OBVIOUS
    <3>1. PICK i \in DOMAIN queue : queue[i] = r BY <1>tl DEF OrderInv
    <3>2. i # 1 BY <1>tl, <1>h, <3>1
    <3>3. i - 1 \in DOMAIN queue' /\ i - 1 + 1 = i BY <1>q, <1>h, <1>tl, <3>2
    <3>4. queue'[i - 1] = queue[i] BY <1>h, <1>tl, <3>3
    <3> QED BY <3>1, <3>3, <3>4
  <2>4. \A r \in Runs : r <= started' => future'[r] # "none" BY <1>tl DEF OrderInv
  <2> QED BY <1>tl, <2>1, <2>2, <2>3, <2>4 DEF OrderInv
<1>4. CASE ShutdownDrain
  <2>1. queue # << >> /\ queue' = Tail(queue) /\ started' = started /\ Head(queue) \in Runs
        BY <1>4, <1>q, <1>h DEF ShutdownDrain, callVars
  <2>2. future' = future \/ \E r \in Runs : future[r] = "pending" /\ future' = [future EXCEPT ![r] = "cancelled"]
        BY <1>4, <2>1 DEF ShutdownDrain, CancelQueued, CancelFuture
  <2>3. future'[Head(queue)] # "pending"
        BY <1>4, <1>t, <2>1 DEF ShutdownDrain, CancelQueued, CancelFuture, PoolTypeOK
  <2>4. \A q, r \in Runs : q < r /\ Live(q)' => future'[r] \notin {"running", "finished"}
        BY <1>f, <2>2 DEF OrderInv
  <2> QED BY <1>tl, <1>f, <2>1, <2>2, <2>3, <2>4
<1>5. ASSUME NEW w \in Workers, TakeRun(w) PROVE OrderInv'
  <2> DEFINE h == Head(queue)
  <2>1. /\ queue # << >> /\ queue' = Tail(queue) /\ started' = started /\ h \in Runs
        /\ job[w] = NoRun /\ future[h] = "pending"
        BY <1>5, <1>q, <1>h DEF TakeRun, Take, callVars
  <2>2. future'[h] = "running" /\ \A r \in Runs : r # h => future'[r] = future[r]
        BY <1>5, <1>t, <2>1 DEF TakeRun, Take, PoolTypeOK
  <2>3. \A r \in Runs : future[r] # "running"
    <3>1. phase[w] = "idle" BY <1>t, <2>1 DEF TypeInv, OutcomeSupport, Runs, NoRun
    <3>2. \A v \in Workers : ~Active(v) BY <3>1 DEF Single, Active
    <3> QED BY <1>t, <3>2 DEF RunInv, RunFacts
  <2>4. ASSUME NEW q \in Runs, q < h PROVE future[q] # "pending"
    <3> SUFFICES ASSUME future[q] = "pending" PROVE FALSE
        OBVIOUS
    <3>1. PICK i \in DOMAIN queue : queue[i] = q BY DEF OrderInv
    <3>2. i = 1 \/ 1 < i BY <1>q, <3>1
    <3>3. queue[1] = h /\ queue[1] \in Nat /\ queue[i] \in Nat BY <1>h, <1>q, <2>1
    <3>4. CASE 1 < i
      <4>1. queue[1] < queue[i] BY <1>h, <2>1, <3>4 DEF OrderInv
      <4> QED BY <2>4, <3>1, <3>3, <4>1
    <3>5. CASE i = 1 BY <2>4, <3>1, <3>3, <3>5
    <3> QED BY <3>2, <3>4, <3>5
  <2> HIDE DEF h
  <2>5. \A q, r \in Runs : q < r /\ Live(q)' => future'[r] \notin {"running", "finished"}
    <3> SUFFICES ASSUME NEW q \in Runs, NEW r \in Runs, q < r, Live(q)'
                 PROVE  future'[r] \notin {"running", "finished"}
        OBVIOUS
    <3>1. CASE r = h BY <2>2, <2>3, <2>4, <3>1 DEF Live, Runs
    <3>2. CASE r # h
      <4>1. Live(q) BY <2>1, <2>2 DEF Live
      <4> QED BY <2>2, <3>2, <4>1 DEF OrderInv
    <3> QED BY <3>1, <3>2
  <2> QED BY <1>tl, <2>1, <2>2, <2>5 DEF h
<1>6. ASSUME NEW w \in Workers, Finish(w) PROVE OrderInv'
  <2>1. job[w] \in Runs /\ future[job[w]] = "running"
        BY <1>6, <1>t DEF Finish, TypeInv, OutcomeSupport, WorkInv, Active
  <2>2. UNCHANGED <<queue, started>> BY <1>6 DEF Finish, FinishFuture, callVars
  <2>3. future'[job[w]] = "finished" /\ \A r \in Runs : r # job[w] => future'[r] = future[r]
        BY <1>6, <1>t, <2>1 DEF Finish, FinishFuture, PoolTypeOK
  <2> QED BY <2>1, <2>2, <2>3 DEF OrderInv, Live
<1>7. CASE DropCancelled
  <2>1. queue # << >> /\ queue' = Tail(queue) /\ UNCHANGED <<started, future>> /\ future[Head(queue)] = "cancelled"
        BY <1>7 DEF DropCancelled, Drop, callVars
  <2>2. \A q, r \in Runs : q < r /\ Live(q)' => future'[r] \notin {"running", "finished"}
        BY <2>1 DEF OrderInv, Live
  <2> QED BY <1>tl, <2>1, <2>2
<1>8. CASE StartCallback \/ ShutdownBegin
      BY <1>1, <1>8 DEF StartCallback, ShutdownBegin, AddCallback, InvokeCallbackNow
<1>9. ASSUME NEW t \in Threads, Publish(t) \/ CallbackReturns(t) PROVE OrderInv'
      BY <1>1, <1>9 DEF Publish, CallbackReturns, Release, poolVars, callVars
<1>10. ASSUME NEW r \in Runs, Expire(r) \/ ContainerUp(r) PROVE OrderInv'
      BY <1>1, <1>10 DEF Expire, ContainerUp, RunUnchanged, poolVars, callVars
<1>11. CASE UNCHANGED vars BY <1>1, <1>11 DEF vars, poolVars, callVars
<1> QED BY <1>1, <1>2, <1>3, <1>4, <1>5, <1>6, <1>7, <1>8, <1>9, <1>10, <1>11, NextCases,
           CallerOnlyFrame, StartedFrame, InsideRunFrame DEF PoolCall

\* A step inside a run may settle its outcome; only a cancellation calls it dequeued.
LEMMA InsideRunOutcome ==
    ASSUME NEW w \in Workers, InsideRun(w)
    PROVE  outcome' = outcome \/ \E o \in Outcomes \ {"dequeued"} : outcome' = [outcome EXCEPT ![job[w]] = o]
BY DEF InsideRun, BuildFails, LaunchFails, Launch, PollCancelled, PollExpired, PollWait, WaitExit,
       WaitTick, Terminate, TerminateRaises, Record, CleanUp, Judge, Parse, Outcomes

\* Where only the first and the last step of a start()'s submission put the caller.
LEMMA CallerOnlyPlaces ==
    CallerOnly => callerPc # "start_callback" /\ callerPc' # "start_callback"
BY DEF CallerOnly, StartClear, StartRunning, StartReset, StopEvent, StopStatus, StopCleanup,
       ShutdownEnd, AwaitDone, ReadTimes, ReadResult, ReadStatus, ReturnResult, CallerAt

LEMMA FutureStep ==
    ASSUME IInv, OrderInv, FutureInv, CallInv, [Next]_vars
    PROVE  FutureInv'
<1>t. TypeInv /\ PoolTypeOK /\ CallerTypeOK /\ RunTypeOK /\ WorkInv /\ RunInv
      BY DEF IInv, TypeInv, TypeOK
<1>r. \A r \in Runs : r \in Nat BY PoolAssumption DEF Runs
<1>s. started \in Nat BY <1>t DEF CallerTypeOK
<1>1. CASE UNCHANGED <<future, callback, started, callerPc, outcome>> BY <1>1 DEF FutureInv, FutureDone
<1>2. CASE CallerOnly BY <1>2, CallerOnlyFrame, StartedFrame, CallerOnlyPlaces DEF FutureInv, FutureDone
<1>3. CASE StartSubmit
  <2>1. CASE Submit(started + 1) /\ started' = started + 1
    <3> DEFINE n == started + 1
    <3>1. n \in Runs /\ future[n] = "none"
          BY <1>t, <1>3, PoolAssumption
             DEF StartSubmit, CallerAt, TypeInv, CallerSupport, CallerTypeOK, Starting, Runs, WorkInv
    <3>2. UNCHANGED <<callback, outcome>> /\ callerPc # "start_callback" /\ callerPc' = "start_callback"
          BY <1>3, <2>1 DEF StartSubmit, Submit, CallerAt
    <3>3. future'[n] = "pending" /\ \A r \in Runs : r # n => future'[r] = future[r]
          BY <1>t, <2>1, <3>1 DEF Submit, PoolTypeOK
    <3>4. started' = n /\ started < n BY <1>s, <2>1
    <3>5. \A r \in Runs : r <= n /\ r # n => r <= started BY <1>r, <1>s
    <3>6. \A r \in Runs : r > n => r > started BY <1>r, <1>s
    <3> HIDE DEF n
    <3> QED BY <3>1, <3>2, <3>3, <3>4, <3>5, <3>6 DEF FutureInv, FutureDone
  <2>2. CASE callerPc' = "idle" /\ UNCHANGED <<poolVars, started>>
        BY <1>3, <2>2 DEF StartSubmit, poolVars, FutureInv, FutureDone, CallerAt
  <2> QED BY <1>3, <2>1, <2>2 DEF StartSubmit
<1>4. CASE StartCallback
  <2>1. current = started /\ callback[current] = "unset" /\ current \in Runs
        BY <1>t, <1>4 DEF StartCallback, CallerAt, CallInv, TypeInv, CallerSupport
  <2>2. UNCHANGED <<future, started, outcome>>
        BY <1>4 DEF StartCallback, AddCallback, InvokeCallbackNow
  <2>3. \A r \in Runs : r # current => callback'[r] = callback[r]
        BY <1>t, <1>4, <2>1 DEF StartCallback, AddCallback, InvokeCallbackNow, PoolTypeOK
  <2>4. \/ ~FutureDone(current) /\ callback'[current] = "added"
        \/ FutureDone(current) /\ callback'[current] = "invoked"
        BY <1>t, <1>4, <2>1 DEF StartCallback, AddCallback, InvokeCallbackNow, PoolTypeOK
  <2>5. ~(started > started) BY <1>s
  <2> QED BY <2>1, <2>2, <2>3, <2>4, <2>5 DEF FutureInv, FutureDone
<1>c. ASSUME NEW q \in Runs, CancelQueued(q), UNCHANGED started,
             callerPc # "start_callback", callerPc' # "start_callback"
      PROVE  FutureInv'
  <2>1. /\ future[q] = "pending" /\ future'[q] = "cancelled" /\ callback'[q] = "invoked"
        /\ outcome'[q] = "dequeued"
        /\ \A r \in Runs : r # q => /\ future'[r] = future[r] /\ callback'[r] = callback[r]
                                    /\ outcome'[r] = outcome[r]
        BY <1>c, <1>t DEF CancelQueued, CancelFuture, PoolTypeOK, RunTypeOK
  <2>2. ~(q > started) BY <2>1, <1>t DEF WorkInv
  <2> QED BY <1>c, <2>1, <2>2 DEF FutureInv, FutureDone
<1>5. CASE StopCancel
  <2>1. UNCHANGED started /\ callerPc # "start_callback" /\ callerPc' # "start_callback"
        BY <1>5 DEF StopCancel, CallerAt
  <2> QED BY <1>5, <1>c, <2>1 DEF StopCancel, FutureInv, FutureDone
<1>6. CASE ShutdownBegin
      BY <1>6, PoolCallFrame DEF ShutdownBegin, CallerAt, FutureInv, FutureDone, PoolCall
<1>7. CASE ShutdownDrain
  <2>1. Head(queue) \in Runs BY <1>7, <1>t DEF ShutdownDrain, PoolTypeOK
  <2>2. UNCHANGED <<started, callerPc>> /\ callerPc # "start_callback"
        BY <1>7 DEF ShutdownDrain, CallerAt, callVars
  <2> QED BY <1>1, <1>7, <1>c, <2>1, <2>2 DEF ShutdownDrain
<1>8. ASSUME NEW w \in Workers, TakeRun(w) PROVE FutureInv'
  <2>1. UNCHANGED <<callback, started, callerPc, outcome>>
        BY <1>8 DEF TakeRun, Take, callVars
  <2>2. \A r \in Runs : future'[r] = future[r] \/ (future[r] = "pending" /\ future'[r] = "running")
        BY <1>8, <1>t DEF TakeRun, Take, PoolTypeOK
  <2> QED BY <2>1, <2>2 DEF FutureInv, FutureDone
<1>9. ASSUME NEW w \in Workers, Finish(w) PROVE FutureInv'
  <2>1. job[w] \in Runs /\ future[job[w]] = "running"
        BY <1>9, <1>t DEF Finish, TypeInv, OutcomeSupport, WorkInv, Active
  <2>2. UNCHANGED <<started, callerPc, outcome>> BY <1>9 DEF Finish, FinishFuture, callVars
  <2>3. future'[job[w]] = "finished" /\ \A r \in Runs : r # job[w] => future'[r] = future[r]
        BY <1>9, <1>t, <2>1 DEF Finish, FinishFuture, PoolTypeOK
  <2>4. /\ callback'[job[w]] = IF callback[job[w]] = "added" THEN "invoked" ELSE callback[job[w]]
        /\ \A r \in Runs : r # job[w] => callback'[r] = callback[r]
        BY <1>9, <1>t, <2>1 DEF Finish, FinishFuture, PoolTypeOK
  <2> QED BY <2>1, <2>2, <2>3, <2>4 DEF FutureInv, FutureDone
<1>10. ASSUME NEW w \in Workers, InsideRun(w) PROVE FutureInv'
  <2>1. job[w] \in Runs /\ Active(w) BY <1>10, <1>t, InsideRunLocal
  <2>2. future[job[w]] = "running" BY <1>t, <2>1 DEF WorkInv
  <2>3. \A r \in Runs : outcome'[r] = "dequeued" <=> outcome[r] = "dequeued"
    <3>1. outcome[job[w]] # "dequeued" BY <2>1, <2>2 DEF FutureInv
    <3> QED BY <1>10, <1>t, <2>1, <3>1, InsideRunOutcome DEF RunTypeOK
  <2>4. UNCHANGED <<future, callback, started, callerPc>> BY <1>10, InsideRunFrame
  <2> QED BY <2>3, <2>4 DEF FutureInv, FutureDone
<1>11. ASSUME NEW t \in Threads, Publish(t) \/ CallbackReturns(t) PROVE FutureInv'
       BY <1>1, <1>11 DEF Publish, CallbackReturns, Release, poolVars, callVars
<1>12. ASSUME NEW r \in Runs, Expire(r) \/ ContainerUp(r) PROVE FutureInv'
       BY <1>1, <1>12 DEF Expire, ContainerUp, RunUnchanged, poolVars, callVars
<1>13. CASE DropCancelled \/ UNCHANGED vars
       BY <1>1, <1>13 DEF DropCancelled, Drop, vars, poolVars, callVars
<1> QED BY <1>1, <1>2, <1>3, <1>4, <1>5, <1>6, <1>7, <1>8, <1>9, <1>10, <1>11, <1>12, <1>13, NextCases
        DEF PoolCall

LEMMA CallStep ==
    ASSUME IInv, OrderInv, FutureInv, TodoInv, CallInv, [Next]_vars
    PROVE  CallInv'
<1>t. TypeInv /\ PoolTypeOK /\ CallerTypeOK /\ RunTypeOK /\ WorkInv /\ RunInv
      BY DEF IInv, TypeInv, TypeOK
<1>r. \A r \in Runs : r \in Nat BY PoolAssumption DEF Runs
<1>s. started \in Nat BY <1>t DEF CallerTypeOK
<1> USE DEF CallInv, NoRun
<1>1. ASSUME UNCHANGED <<current, started, startTime, callerPc, stops, accepting>>,
             callerPc = "start_callback" => callback'[started] = "unset",
             status' = status \/ status' # "RUNNING"
      PROVE  CallInv'
      BY <1>1
<1>2. CASE CallerOnly
  <2> USE CallerOnlyFrame, StartedFrame DEF CallerAt, controlVars, published
  <2>1. CASE StartClear BY <1>2, <2>1 DEF StartClear
  <2>2. CASE StartRunning BY <1>2, <2>2 DEF StartRunning
  <2>3. CASE StartReset BY <1>2, <2>3 DEF StartReset
  <2>4. CASE StopEvent BY <1>2, <1>t, <2>4 DEF StopEvent, CallerTypeOK
  <2>5. CASE StopStatus BY <1>2, <2>5 DEF StopStatus
  <2>6. CASE StopCleanup \/ ShutdownEnd BY <1>2, <2>6 DEF StopCleanup, ShutdownEnd
  <2>7. CASE AwaitDone \/ ReadTimes \/ ReadResult \/ ReadStatus \/ ReturnResult
        BY <1>2, <2>7 DEF AwaitDone, ReadTimes, ReadResult, ReadStatus, ReturnResult
  <2> QED BY <1>2, <2>1, <2>2, <2>3, <2>4, <2>5, <2>6, <2>7 DEF CallerOnly
<1>3. CASE StartSubmit
  <2>1. UNCHANGED <<status, startTime, stops>> BY <1>3, PoolCallFrame DEF PoolCall
  <2>2. CASE Submit(started + 1) /\ started' = started + 1 /\ current' = started + 1
             /\ callerPc' = "start_callback"
    <3>1. started + 1 \in Runs
          BY <1>t, <1>3, PoolAssumption
             DEF StartSubmit, CallerAt, TypeInv, CallerSupport, CallerTypeOK, Starting, Runs
    <3>2. callback[started + 1] = "unset" BY <1>s, <3>1 DEF FutureInv
    <3>3. startTime = started + 1 BY <1>3 DEF StartSubmit, CallerAt
    <3> QED BY <2>1, <2>2, <3>1, <3>2, <3>3 DEF Submit
  <2>3. CASE ~accepting /\ callerPc' = "idle" /\ UNCHANGED <<poolVars, started, current>>
        BY <2>1, <2>3 DEF poolVars
  <2> QED BY <1>3, <2>2, <2>3 DEF StartSubmit
<1>4. CASE StartCallback
  <2>1. UNCHANGED <<status, startTime, stops, started, current>> /\ callerPc' = "idle"
        BY <1>4, PoolCallFrame DEF StartCallback, PoolCall, controlVars
  <2> QED BY <2>1
<1>5. CASE StopCancel
  <2>1. UNCHANGED <<status, startTime, stops, started, current, accepting>> /\ callerPc = "stop_cancel"
        /\ callerPc' = "stop_status"
        BY <1>5, PoolCallFrame DEF StopCancel, PoolCall, controlVars, CallerAt
  <2> QED BY <2>1
<1>6. CASE ShutdownBegin
  <2>1. /\ UNCHANGED <<status, startTime, stops, started, current>> /\ callerPc' = "shutdown"
        /\ accepting' = FALSE
        BY <1>6, PoolCallFrame DEF ShutdownBegin, PoolCall, controlVars
  <2> QED BY <2>1
<1>7. CASE ShutdownDrain
  <2>1. /\ UNCHANGED <<status, startTime, stops, started, current, callerPc, accepting>>
        /\ callerPc = "shutdown"
        BY <1>7, PoolCallFrame DEF ShutdownDrain, PoolCall, controlVars, callVars, CallerAt
  <2> QED BY <1>1, <2>1
<1>8. ASSUME NEW w \in Workers, TakeRun(w) PROVE CallInv'
      BY <1>1, <1>8 DEF TakeRun, Take, callVars, controlVars, published
<1>9. ASSUME NEW w \in Workers, Finish(w) PROVE CallInv'
  <2>1. job[w] \in Runs BY <1>9, <1>t DEF Finish, TypeInv, OutcomeSupport
  <2>2. UNCHANGED <<current, started, startTime, callerPc, stops, accepting, status>>
        BY <1>9 DEF Finish, FinishFuture, callVars, controlVars, published
  <2>3. ASSUME callerPc = "start_callback" PROVE callback'[started] = "unset"
    <3>1. started \in Runs /\ callback[started] = "unset"
          BY <1>t, <2>3 DEF TypeInv, CallerSupport
    <3> QED BY <1>9, <1>t, <2>1, <3>1 DEF Finish, FinishFuture, PoolTypeOK
  <2> QED BY <1>1, <2>2, <2>3
<1>10. ASSUME NEW w \in Workers, InsideRun(w) PROVE CallInv' BY <1>1, <1>10, InsideRunFrame
<1>11. ASSUME NEW t \in Threads, Publish(t) PROVE CallInv'
  <2>1. status' = status \/ status' \in {"COMPLETED", "ERROR", "STOPPED"}
        BY <1>11 DEF Publish, FinalStatus
  <2> QED BY <1>1, <1>11, <2>1 DEF Publish, poolVars, callVars, controlVars
<1>12. ASSUME NEW t \in Threads, CallbackReturns(t) PROVE CallInv'
       BY <1>1, <1>12 DEF CallbackReturns, Release, callVars, controlVars, published
<1>13. ASSUME NEW r \in Runs, Expire(r) \/ ContainerUp(r) PROVE CallInv'
       BY <1>1, <1>13 DEF Expire, ContainerUp, RunUnchanged, poolVars, callVars, controlVars, published
<1>14. CASE DropCancelled \/ UNCHANGED vars
       BY <1>1, <1>14 DEF DropCancelled, Drop, vars, poolVars, callVars, controlVars, published
<1> QED BY <1>2, <1>3, <1>4, <1>5, <1>6, <1>7, <1>8, <1>9, <1>10, <1>11, <1>12, <1>13, <1>14, NextCases
        DEF PoolCall

\* The callback writes the status once, after a success last, and every attribute unless the run
\* never executed.
LEMMA CallbackWritesShape ==
    ASSUME NEW o \in Outcomes
    PROVE  /\ CallbackWrites(o) \in Seq(Attributes)
           /\ \A i, j \in DOMAIN CallbackWrites(o) :
                 CallbackWrites(o)[i] = "status" /\ CallbackWrites(o)[j] = "status" => i = j
           /\ o = "value" => \A i \in DOMAIN CallbackWrites(o) :
                                CallbackWrites(o)[i] = "status" => i = Len(CallbackWrites(o))
           /\ o # "dequeued" => \A a \in Attributes :
                                   \E i \in DOMAIN CallbackWrites(o) : CallbackWrites(o)[i] = a
<1>1. CASE o = "value"
  <2>1. CallbackWrites(o) = <<"endTime", "result", "status">> BY <1>1 DEF CallbackWrites
  <2>2. /\ Len(CallbackWrites(o)) = 3 /\ DOMAIN CallbackWrites(o) = {1, 2, 3}
        /\ CallbackWrites(o)[1] = "endTime" /\ CallbackWrites(o)[2] = "result"
        /\ CallbackWrites(o)[3] = "status"
        BY <2>1
  <2>3. \A a \in Attributes : \E i \in {1, 2, 3} : CallbackWrites(o)[i] = a BY <2>2 DEF Attributes
  <2> QED BY <2>2, <2>3, CallbackWritesType
<1>2. CASE o \in {"cancelled", "error", "raised"}
  <2>1. CallbackWrites(o) = <<"status", "result", "endTime">> BY <1>2 DEF CallbackWrites
  <2> QED BY <1>2, <2>1, CallbackWritesType DEF Attributes
<1>3. CASE o = "dequeued"
  <2>1. CallbackWrites(o) = <<"status", "endTime">> BY <1>3 DEF CallbackWrites
  <2> QED BY <1>3, <2>1, CallbackWritesType DEF Attributes
<1> QED BY <1>1, <1>2, <1>3 DEF Outcomes

\* Thread t is the one that invokes the callback of run r.
LEMMA TodoGiven ==
    ASSUME TypeInv, TodoInv, NEW t \in Threads, NEW r \in Runs,
           callback[r] # "invoked", callback' = [callback EXCEPT ![r] = "invoked"],
           job' = [job EXCEPT ![t] = r],
           \A q \in Runs : q # r => outcome'[q] = outcome[q],
           outcome'[r] \in Outcomes,
           todo' = [todo EXCEPT ![t] = CallbackWrites(outcome'[r])],
           t \in Workers => phase'[t] = "publish",
           \A w \in Workers : w # t => phase'[w] = phase[w]
    PROVE  TodoInv'
<1>t. PoolTypeOK /\ TodoTypeOK BY DEF TypeInv, TypeOK
<1> DEFINE o == outcome'[r]
<1>1. /\ todo'[t] = CallbackWrites(o) /\ job'[t] = r /\ callback'[r] = "invoked"
      /\ \A u \in Threads : u # t => todo'[u] = todo[u] /\ job'[u] = job[u]
      /\ \A q \in Runs : q # r => callback'[q] = callback[q]
      BY <1>t DEF PoolTypeOK, TodoTypeOK
<1>2. /\ \A i, j \in DOMAIN CallbackWrites(o) :
            CallbackWrites(o)[i] = "status" /\ CallbackWrites(o)[j] = "status" => i = j
      /\ o = "value" => \A i \in DOMAIN CallbackWrites(o) :
                           CallbackWrites(o)[i] = "status" => i = Len(CallbackWrites(o))
      BY CallbackWritesShape
<1>3. \A u \in Threads : u # t /\ todo'[u] # << >> => job'[u] \in Runs /\ job'[u] # r
      BY <1>1 DEF TodoInv
<1>c. Caller \in Threads /\ Workers \subseteq Threads BY DEF Threads
<1> HIDE DEF o
<1>4. \A u \in Threads : todo'[u] # << >> => job'[u] \in Runs /\ callback'[job'[u]] = "invoked"
      BY <1>1, <1>3 DEF TodoInv
<1>5. \A w \in Workers : todo'[w] # << >> => phase'[w] = "publish" BY <1>1, <1>c DEF TodoInv
<1>6. job'[Caller] # NoRun => callback'[job'[Caller]] = "invoked"
  <2>1. CASE t = Caller BY <1>1, <2>1
  <2>2. CASE t # Caller
    <3>1. job'[Caller] = job[Caller] BY <1>1, <1>c, <2>2
    <3>2. job[Caller] \in Runs \union {NoRun} BY <1>t, <1>c DEF PoolTypeOK
    <3> QED BY <1>1, <3>1, <3>2 DEF TodoInv
  <2> QED BY <2>1, <2>2
<1>7. \A u, v \in Threads : todo'[u] # << >> /\ todo'[v] # << >> /\ job'[u] = job'[v] => u = v
      BY <1>1, <1>3 DEF TodoInv
<1>8. \A u \in Threads : \A i, j \in DOMAIN todo'[u] :
         todo'[u][i] = "status" /\ todo'[u][j] = "status" => i = j
      BY <1>1, <1>2 DEF TodoInv
<1>9. ASSUME NEW u \in Threads, NEW i \in DOMAIN todo'[u], todo'[u][i] = "status",
             outcome'[job'[u]] = "value"
      PROVE  i = Len(todo'[u])
  <2>1. CASE u = t BY <1>1, <1>2, <1>9, <2>1 DEF o
  <2>2. CASE u # t
    <3>1. todo'[u] = todo[u] /\ job'[u] = job[u] BY <1>1, <2>2
    <3>2. todo[u] # << >> BY <1>9, <3>1
    <3>3. outcome[job[u]] = "value" BY <1>3, <1>9, <2>2, <3>1, <3>2
    <3> QED BY <1>9, <3>1, <3>3 DEF TodoInv
  <2> QED BY <2>1, <2>2
<1> QED BY <1>4, <1>5, <1>6, <1>7, <1>8, <1>9 DEF TodoInv

\* What the next write of a callback leaves to be written.
LEMMA TailShape ==
    ASSUME NEW s \in Seq(Attributes), s # << >>
    PROVE  /\ Len(s) \in Nat /\ 1 \in DOMAIN s /\ Head(s) = s[1] /\ DOMAIN s = 1..Len(s)
           /\ Len(Tail(s)) = Len(s) - 1 /\ DOMAIN Tail(s) = 1..(Len(s) - 1)
           /\ \A i \in DOMAIN Tail(s) : i + 1 \in DOMAIN s /\ Tail(s)[i] = s[i + 1]
OBVIOUS

LEMMA TodoStep ==
    ASSUME IInv, FutureInv, TodoInv, CallInv, [Next]_vars
    PROVE  TodoInv'
<1>t. TypeInv /\ PoolTypeOK /\ CallerTypeOK /\ RunTypeOK /\ TodoTypeOK /\ WorkInv /\ RunInv
      BY DEF IInv, TypeInv, TypeOK
<1>w. Caller \in Threads /\ Workers \subseteq Threads /\ Caller \notin Workers
      BY PoolAssumption DEF Threads
<1>1. CASE UNCHANGED <<callback, job, todo, phase, outcome>> BY <1>1 DEF TodoInv
<1>2. CASE CallerOnly BY <1>1, <1>2, CallerOnlyFrame
<1>3. CASE StartSubmit \/ ShutdownBegin
      BY <1>1, <1>3, PoolCallFrame DEF StartSubmit, ShutdownBegin, Submit, poolVars, PoolCall
<1>4. CASE StartCallback
  <2>1. current \in Runs /\ callback[current] = "unset" /\ UNCHANGED <<outcome, phase>>
        BY <1>t, <1>4 DEF StartCallback, CallerAt, CallInv, TypeInv, CallerSupport
  <2>2. CASE AddCallback(current) /\ UNCHANGED todo
    <3>1. UNCHANGED job BY <2>2 DEF AddCallback
    <3>2. \A r \in Runs : callback[r] = "invoked" => callback'[r] = "invoked"
          BY <1>t, <2>1, <2>2 DEF AddCallback, PoolTypeOK
    <3>3. job[Caller] \in Runs \union {NoRun} BY <1>t, <1>w DEF PoolTypeOK
    <3> QED BY <2>1, <2>2, <3>1, <3>2, <3>3 DEF TodoInv
  <2>3. CASE InvokeCallbackNow(current)
             /\ todo' = [todo EXCEPT ![Caller] = CallbackWrites(outcome[current])]
    <3>1. outcome[current] \in Outcomes
          BY <1>t, <2>1, <2>3 DEF InvokeCallbackNow, TypeInv, OutcomeSupport, RunTypeOK, Outcomes
    <3> QED BY <1>t, <1>w, <2>1, <2>3, <3>1, TodoGiven DEF InvokeCallbackNow
  <2> QED BY <1>4, <2>2, <2>3 DEF StartCallback
<1>c. ASSUME NEW q \in Runs, CancelQueued(q), UNCHANGED phase PROVE TodoInv'
  <2>1. callback[q] # "invoked" BY <1>c DEF CancelQueued, CancelFuture, FutureInv, FutureDone
  <2>2. outcome'[q] = "dequeued" /\ \A r \in Runs : r # q => outcome'[r] = outcome[r]
        BY <1>c, <1>t DEF CancelQueued, RunTypeOK
  <2>3. todo' = [todo EXCEPT ![Caller] = CallbackWrites(outcome'[q])]
        BY <1>c, <2>2 DEF CancelQueued
  <2>4. outcome'[q] \in Outcomes BY <2>2 DEF Outcomes
  <2>5. /\ callback' = [callback EXCEPT ![q] = "invoked"]
        /\ job' = [job EXCEPT ![Caller] = q]
        BY <1>c DEF CancelQueued, CancelFuture
  <2> QED BY ONLY <1>c, <1>t, <1>w, <2>1, <2>2, <2>3, <2>4, <2>5, TodoGiven, TodoInv
<1>5. CASE StopCancel BY <1>1, <1>5, <1>c DEF StopCancel
<1>6. CASE ShutdownDrain
  <2>1. Head(queue) \in Runs BY <1>6, <1>t DEF ShutdownDrain, PoolTypeOK
  <2> QED BY <1>1, <1>6, <1>c, <2>1 DEF ShutdownDrain
<1>7. ASSUME NEW w \in Workers, TakeRun(w) PROVE TodoInv'
  <2>1. job[w] = NoRun /\ UNCHANGED <<callback, todo, outcome>> BY <1>7 DEF TakeRun, Take
  <2>2. todo[w] = << >> BY <1>w, <2>1 DEF TodoInv, Runs, NoRun
  <2>3. \A t \in Threads : t # w => job'[t] = job[t]
        BY <1>7, <1>t DEF TakeRun, Take, PoolTypeOK
  <2>4. \A v \in Workers : v # w => phase'[v] = phase[v] BY <1>7, <1>t DEF TakeRun, Goto, RunTypeOK
  <2> QED BY <1>w, <2>1, <2>2, <2>3, <2>4 DEF TodoInv
<1>8. ASSUME NEW w \in Workers, Finish(w) PROVE TodoInv'
  <2>1. job[w] \in Runs /\ future[job[w]] = "running" /\ outcome[job[w]] # "none" /\ phase[w] = "finish"
        BY <1>8, <1>t DEF Finish, TypeInv, OutcomeSupport, WorkInv, Active
  <2>2. UNCHANGED <<job, outcome>> BY <1>8 DEF Finish, FinishFuture
  <2>3. phase'[w] = "publish" /\ \A v \in Workers : v # w => phase'[v] = phase[v]
        BY <1>8, <1>t DEF Finish, Goto, RunTypeOK
  <2>4. todo[w] = << >> BY <2>1 DEF TodoInv
  <2>5. CASE callback[job[w]] = "added"
    <3>1. callback' = [callback EXCEPT ![job[w]] = "invoked"]
          BY <1>8, <2>5, <1>t DEF Finish, FinishFuture, PoolTypeOK
    <3>2. job' = [job EXCEPT ![w] = job[w]] BY <2>2, <1>t, <1>w DEF PoolTypeOK
    <3>3. todo' = [todo EXCEPT ![w] = CallbackWrites(outcome'[job[w]])]
          BY <1>8, <2>2, <2>5 DEF Finish
    <3>4. outcome'[job[w]] \in Outcomes BY <1>t, <2>1, <2>2 DEF RunTypeOK, Outcomes
    <3> QED BY <1>t, <1>w, <2>1, <2>2, <2>3, <2>5, <3>1, <3>2, <3>3, <3>4, TodoGiven
  <2>6. CASE callback[job[w]] # "added"
    <3>1. callback' = callback BY <1>8, <2>6, <1>t DEF Finish, FinishFuture, PoolTypeOK
    <3>2. todo' = todo BY <1>8, <1>t, <1>w, <2>4, <2>6 DEF Finish, TodoTypeOK
    <3> QED BY <2>2, <2>3, <2>4, <3>1, <3>2 DEF TodoInv
  <2> QED BY <2>5, <2>6
<1>9. ASSUME NEW w \in Workers, InsideRun(w) PROVE TodoInv'
  <2>1. job[w] \in Runs /\ Active(w) /\ \A v \in Workers : v # w => phase'[v] = phase[v]
        BY <1>9, <1>t, InsideRunLocal
  <2>2. \A r \in Runs : r # job[w] => outcome'[r] = outcome[r] BY <1>9, <1>t, InsideRunLocal
  <2>3. callback[job[w]] # "invoked"
        BY <1>t, <2>1 DEF WorkInv, FutureInv, FutureDone
  <2>4. UNCHANGED <<callback, job, todo>> BY <1>9, InsideRunFrame
  <2>5. todo[w] = << >> BY <2>1 DEF TodoInv, Active
  <2>6. \A t \in Threads : todo[t] # << >> => outcome'[job[t]] = outcome[job[t]]
        BY <2>2, <2>3 DEF TodoInv
  <2> QED BY <2>1, <2>4, <2>5, <2>6 DEF TodoInv
<1>10. ASSUME NEW t \in Threads, Publish(t) PROVE TodoInv'
  <2>1. UNCHANGED <<callback, job, phase, outcome>> /\ todo[t] # << >> BY <1>10 DEF Publish, poolVars
  <2>2. todo'[t] = Tail(todo[t]) /\ \A u \in Threads : u # t => todo'[u] = todo[u]
        BY <1>10, <1>t DEF Publish, TodoTypeOK
  <2>3. todo[t] \in Seq(Attributes) BY <1>t DEF TodoTypeOK, Attributes
  <2>4. /\ Len(todo[t]) \in Nat /\ Len(todo'[t]) = Len(todo[t]) - 1
        /\ DOMAIN todo'[t] = 1..(Len(todo[t]) - 1)
        /\ \A i \in DOMAIN todo'[t] : i + 1 \in DOMAIN todo[t] /\ todo'[t][i] = todo[t][i + 1]
        BY <2>1, <2>2, <2>3, TailShape
  <2>5. \A u \in Threads : todo'[u] # << >> => todo[u] # << >> BY <2>1, <2>2
  <2>6. ASSUME NEW u \in Threads, NEW i \in DOMAIN todo'[u], NEW j \in DOMAIN todo'[u],
               todo'[u][i] = "status", todo'[u][j] = "status"
        PROVE  i = j
    <3>1. CASE u = t
      <4>1. /\ i + 1 \in DOMAIN todo[t] /\ todo[t][i + 1] = "status"
            /\ j + 1 \in DOMAIN todo[t] /\ todo[t][j + 1] = "status"
            BY <2>4, <2>6, <3>1
      <4>2. \A k, l \in DOMAIN todo[t] : todo[t][k] = "status" /\ todo[t][l] = "status" => k = l
            BY DEF TodoInv
      <4>3. i + 1 = j + 1 BY ONLY <4>1, <4>2
      <4>4. i \in Nat /\ j \in Nat BY <2>4, <3>1
      <4> QED BY ONLY <4>3, <4>4
    <3>2. CASE u # t BY <2>2, <2>6, <3>2 DEF TodoInv
    <3> QED BY <3>1, <3>2
  <2>7. ASSUME NEW u \in Threads, NEW i \in DOMAIN todo'[u], todo'[u][i] = "status",
               outcome[job[u]] = "value"
        PROVE  i = Len(todo'[u])
    <3>1. CASE u = t
      <4>1. i + 1 \in DOMAIN todo[t] /\ todo[t][i + 1] = "status" BY <2>4, <2>7, <3>1
      <4>2. \A k \in DOMAIN todo[t] : todo[t][k] = "status" /\ outcome[job[t]] = "value" => k = Len(todo[t])
            BY DEF TodoInv
      <4>3. i + 1 = Len(todo[t]) BY <2>7, <3>1, <4>1, <4>2
      <4> QED BY <2>4, <3>1, <4>3
    <3>2. CASE u # t BY <2>2, <2>7, <3>2 DEF TodoInv
    <3> QED BY <3>1, <3>2
  <2> QED BY <1>w, <2>1, <2>5, <2>6, <2>7 DEF TodoInv
<1>11. ASSUME NEW t \in Threads, CallbackReturns(t) PROVE TodoInv'
  <2>1. UNCHANGED <<callback, todo, outcome>> /\ todo[t] = << >>
        BY <1>11 DEF CallbackReturns, Release
  <2>2. job'[t] = NoRun /\ \A u \in Threads : u # t => job'[u] = job[u]
        BY <1>11, <1>t DEF CallbackReturns, Release, PoolTypeOK
  <2>3. \A w \in Workers : w # t => phase'[w] = phase[w] BY <1>11 DEF CallbackReturns
  <2> QED BY <1>w, <2>1, <2>2, <2>3 DEF TodoInv
<1>12. ASSUME NEW r \in Runs, Expire(r) \/ ContainerUp(r) PROVE TodoInv'
       BY <1>1, <1>12 DEF Expire, ContainerUp, RunUnchanged, poolVars
<1>13. CASE DropCancelled \/ UNCHANGED vars
       BY <1>1, <1>13 DEF DropCancelled, Drop, vars, poolVars
<1> QED BY <1>1, <1>2, <1>3, <1>4, <1>5, <1>6, <1>7, <1>8, <1>9, <1>10, <1>11, <1>12, <1>13, NextCases
        DEF PoolCall

\* Without a stop(), no run but the latest is in the pool.
LEMMA LiveIsLatest ==
    ASSUME IInv, FutureInv, ToldInv, stops = 0, NEW q \in Runs, Live(q)
    PROVE  q = started
<1>1. q \in Nat /\ started \in Nat
      BY PoolAssumption DEF Runs, IInv, TypeInv, TypeOK, CallerTypeOK
<1>2. ~(q > started) BY DEF IInv, WorkInv, Live
<1>3. ~(q < started) BY DEF ToldInv, StatusTold, FutureInv, FutureDone, Live
<1> QED BY <1>1, <1>2, <1>3

LEMMA LatestStep ==
    ASSUME Single, IInv, OrderInv, FutureInv, TodoInv, CallInv, LatestInv, ToldInv, [Next]_vars
    PROVE  LatestInv'
<1>t. TypeInv /\ PoolTypeOK /\ CallerTypeOK /\ RunTypeOK /\ TodoTypeOK /\ WorkInv /\ RunInv
      BY DEF IInv, TypeInv, TypeOK
<1>w. Caller \in Threads /\ Workers \subseteq Threads /\ Caller \notin Workers
      BY PoolAssumption DEF Threads
<1>s. started \in Nat /\ (started > 0 => started \in Runs) /\ ~(0 \in Runs)
      BY <1>t, PoolAssumption DEF CallerTypeOK, Runs
<1>0. SUFFICES ASSUME accepting' \/ stops' = 0
               PROVE  /\ job'[Caller] \in {NoRun, started'}
                      /\ started' > 0 /\ future'[started'] = "finished"
                            => \A t \in Threads : job'[t] # started' => todo'[t] = << >>
                      /\ LatestTold' => \A a \in Attributes : \/ Written(a)'
                                                              \/ \E t \in Threads : job'[t] = started' /\ InTodo(a, t)'
      BY DEF LatestInv
<1> DEFINE Goal == /\ job'[Caller] \in {NoRun, started'}
                   /\ started' > 0 /\ future'[started'] = "finished"
                         => \A t \in Threads : job'[t] # started' => todo'[t] = << >>
                   /\ LatestTold' => \A a \in Attributes : \/ Written(a)'
                                                           \/ \E t \in Threads : job'[t] = started' /\ InTodo(a, t)'
<1> USE DEF NoRun
<1>1. ASSUME UNCHANGED <<future, callback, job, todo, accepting, started, stops, startTime>>,
             UNCHANGED <<status, result, endTime, outcome>>
      PROVE  Goal
      BY <1>0, <1>1 DEF LatestInv, LatestTold, Written, InTodo, FinalResult
<1>2. CASE CallerOnly
  <2>0. UNCHANGED <<future, callback, job, todo, accepting, started, outcome>>
        BY <1>2, CallerOnlyFrame, StartedFrame
  <2>1. CASE StartRunning \/ StartReset
    <3>1. startTime' = started + 1 /\ UNCHANGED stops
          BY <2>1 DEF StartRunning, StartReset, CallerAt, CallInv, controlVars
    <3>2. ~LatestTold' BY <1>s, <2>0, <3>1 DEF LatestTold
    <3> QED BY <1>0, <2>0, <3>1, <3>2 DEF LatestInv
  <2>2. CASE StopEvent
    <3>1. stops' = stops + 1 /\ UNCHANGED <<startTime, status, result, endTime>>
          BY <2>2 DEF StopEvent, published
    <3>2. accepting BY <1>0, <2>0, <3>1, <1>t DEF CallerTypeOK
    <3> QED BY <2>0, <3>1, <3>2 DEF LatestInv, LatestTold, Written, InTodo, FinalResult
  <2>3. CASE StopStatus
    <3>1. status' = "STOPPED" /\ UNCHANGED <<startTime, result, endTime, stops>> BY <2>3 DEF StopStatus
    <3> QED BY <1>0, <2>0, <3>1 DEF LatestInv, LatestTold, Written, InTodo, FinalResult, Attributes
  <2>4. CASE StartClear \/ StopCleanup \/ ShutdownEnd \/ AwaitDone
        BY <1>1, <2>0, <2>4 DEF StartClear, StopCleanup, ShutdownEnd, AwaitDone, published, controlVars
  <2>5. CASE ReadTimes \/ ReadResult \/ ReadStatus \/ ReturnResult
        BY <1>1, <2>0, <2>5 DEF ReadTimes, ReadResult, ReadStatus, ReturnResult, published, controlVars
  <2> QED BY <1>2, <2>1, <2>2, <2>3, <2>4, <2>5 DEF CallerOnly
<1>3. CASE StartSubmit
  <2>1. CASE Submit(started + 1) /\ started' = started + 1
    <3>1. started + 1 \in Runs
          BY <1>t, <1>3, PoolAssumption
             DEF StartSubmit, CallerAt, TypeInv, CallerSupport, CallerTypeOK, Starting, Runs
    <3>2. future'[started'] = "pending" BY <1>t, <2>1, <3>1 DEF Submit, PoolTypeOK
    <3>3. job'[Caller] = NoRun BY <1>3, <2>1 DEF StartSubmit, CallerAt, Submit
    <3> QED BY <3>2, <3>3 DEF LatestTold
  <2>2. CASE UNCHANGED <<poolVars, started>>
        BY <1>1, <1>3, <2>2, PoolCallFrame DEF StartSubmit, poolVars, PoolCall
  <2> QED BY <1>3, <2>1, <2>2 DEF StartSubmit
<1>4. CASE StartCallback
  <2>1. /\ current = started /\ started \in Runs /\ UNCHANGED <<future, started, stops, accepting, outcome>>
        /\ job[Caller] = NoRun
        BY <1>t, <1>4, PoolCallFrame
           DEF StartCallback, CallerAt, CallInv, TypeInv, CallerSupport, AddCallback, InvokeCallbackNow, PoolCall
  <2>2. CASE AddCallback(current) /\ UNCHANGED todo
    <3>1. ~LatestTold' BY <1>t, <2>1, <2>2 DEF LatestTold, AddCallback, PoolTypeOK
    <3>2. UNCHANGED job BY <2>2 DEF AddCallback
    <3> QED BY <1>0, <2>1, <2>2, <3>1, <3>2 DEF LatestInv
  <2>3. CASE InvokeCallbackNow(current)
             /\ todo' = [todo EXCEPT ![Caller] = CallbackWrites(outcome[current])]
    <3>1. /\ job'[Caller] = started /\ todo'[Caller] = CallbackWrites(outcome[started])
          /\ \A t \in Threads : t # Caller => job'[t] = job[t] /\ todo'[t] = todo[t]
          BY <1>t, <1>w, <2>1, <2>3 DEF InvokeCallbackNow, PoolTypeOK, TodoTypeOK
    <3>2. ASSUME LatestTold', NEW a \in Attributes PROVE InTodo(a, Caller)'
      <4>1. outcome[started] \in Outcomes /\ outcome[started] # "dequeued"
            BY <1>t, <2>1, <3>2
               DEF LatestTold, TypeInv, OutcomeSupport, FutureDone, FutureInv, RunTypeOK, Outcomes
      <4> QED BY <3>1, <4>1, CallbackWritesShape DEF InTodo
    <3> QED BY <1>0, <1>w, <2>1, <3>1, <3>2 DEF LatestInv
  <2> QED BY <1>4, <2>2, <2>3 DEF StartCallback
\* The run the caller cancels is the latest.
<1>c. ASSUME started \in Runs, CancelQueued(started), UNCHANGED started PROVE Goal
  <2>1. future'[started'] = "cancelled" /\ job'[Caller] = started'
        BY <1>c, <1>t, <1>w DEF CancelQueued, CancelFuture, PoolTypeOK
  <2> QED BY <2>1 DEF LatestTold
<1>5. CASE StopCancel
  <2>1. UNCHANGED <<accepting, started, stops, startTime, status, result, endTime>>
        BY <1>5, PoolCallFrame DEF StopCancel, PoolCall
  <2>2. CASE current \in Runs /\ CancelQueued(current) BY <1>c, <1>s, <2>1, <2>2 DEF CallInv
  <2> QED BY <1>1, <1>5, <2>1, <2>2 DEF StopCancel
<1>6. CASE ShutdownBegin
  <2>1. /\ UNCHANGED <<future, callback, job, todo, outcome, started, stops, startTime>>
        /\ UNCHANGED <<status, result, endTime>> /\ accepting
        BY <1>6, PoolCallFrame DEF ShutdownBegin, PoolCall
  <2> QED BY <2>1 DEF LatestInv, LatestTold, Written, InTodo, FinalResult
<1>7. CASE ShutdownDrain
  <2>1. /\ UNCHANGED <<accepting, started, stops, startTime, status, result, endTime>>
        /\ ~accepting /\ Head(queue) \in Runs
        BY <1>7, <1>t, PoolCallFrame DEF ShutdownDrain, PoolCall, callVars, CallerAt, CallInv, PoolTypeOK
  <2>2. CASE CancelQueued(Head(queue))
    <3>1. Live(Head(queue)) BY <2>2 DEF CancelQueued, CancelFuture, Live
    <3>2. Head(queue) = started BY <1>0, <2>1, <3>1, LiveIsLatest
    <3> QED BY <1>c, <2>1, <2>2, <3>2
  <2> QED BY <1>1, <1>7, <2>1, <2>2 DEF ShutdownDrain
<1>8. ASSUME NEW w \in Workers, TakeRun(w) PROVE Goal
  <2> DEFINE h == Head(queue)
  <2>1. /\ UNCHANGED <<callback, todo, outcome, accepting, started, stops, startTime, status, result, endTime>>
        /\ job[w] = NoRun /\ queue # << >>
        BY <1>8 DEF TakeRun, Take, callVars, controlVars, published
  <2>2. h \in Runs /\ future'[h] = "running" /\ \A r \in Runs : r # h => future'[r] = future[r]
        BY <1>8, <1>t, <2>1 DEF TakeRun, Take, PoolTypeOK
  <2>3. \A t \in Threads : t # w => job'[t] = job[t] BY <1>8, <1>t DEF TakeRun, Take, PoolTypeOK
  <2>4. todo[w] = << >> BY <1>s, <1>w, <2>1 DEF TodoInv
  <2> HIDE DEF h
  <2>5. started > 0 /\ future'[started] = "finished" => future[started] = "finished" BY <1>s, <2>2
  <2>6. ASSUME LatestTold', NEW a \in Attributes
        PROVE  Written(a)' \/ \E t \in Threads : job'[t] = started' /\ InTodo(a, t)'
    <3>1. LatestTold /\ started # NoRun BY <2>1, <2>5, <2>6 DEF LatestTold
    <3>2. CASE Written(a) BY <2>1, <3>2 DEF Written, FinalResult
    <3>3. ASSUME NEW t \in Threads, job[t] = started, InTodo(a, t)
          PROVE  job'[t] = started' /\ InTodo(a, t)'
          BY <2>1, <2>3, <3>1, <3>3 DEF InTodo
    <3> QED BY <1>0, <2>1, <3>1, <3>2, <3>3 DEF LatestInv
  <2>7. job'[Caller] = job[Caller] BY <1>w, <2>3
  <2>8. started' > 0 /\ future'[started'] = "finished"
           => \A t \in Threads : job'[t] # started' => todo'[t] = << >>
        BY <1>0, <2>1, <2>3, <2>4, <2>5 DEF LatestInv
  <2> QED BY <1>0, <2>1, <2>6, <2>7, <2>8 DEF LatestInv
<1>9. ASSUME NEW w \in Workers, InsideRun(w) PROVE Goal
  <2>1. job[w] \in Runs /\ Active(w) /\ \A r \in Runs : r # job[w] => outcome'[r] = outcome[r]
        BY <1>9, <1>t, InsideRunLocal
  <2>2. future[job[w]] = "running" BY <1>t, <2>1 DEF WorkInv
  <2>3. UNCHANGED <<future, callback, job, todo, accepting, started, stops, startTime, status, result, endTime>>
        BY <1>9, InsideRunFrame
  <2>4. LatestTold => outcome'[started] = outcome[started] BY <1>s, <2>1, <2>2 DEF LatestTold
  <2> QED BY <1>0, <2>3, <2>4 DEF LatestInv, LatestTold, Written, InTodo, FinalResult
<1>10. ASSUME NEW w \in Workers, Finish(w) PROVE Goal
  <2>1. job[w] \in Runs /\ future[job[w]] = "running" /\ outcome[job[w]] # "none"
        BY <1>10, <1>t DEF Finish, TypeInv, OutcomeSupport, WorkInv, Active
  <2>2. UNCHANGED <<job, outcome, accepting, started, stops, startTime, status, result, endTime>>
        BY <1>10 DEF Finish, FinishFuture, callVars, controlVars, published
  <2>3. future'[job[w]] = "finished" /\ \A r \in Runs : r # job[w] => future'[r] = future[r]
        BY <1>10, <1>t, <2>1 DEF Finish, FinishFuture, PoolTypeOK
  <2>4. \A t \in Threads : t # w => todo'[t] = todo[t] BY <1>10, <1>t DEF Finish, TodoTypeOK
  <2>5. job'[Caller] \in {NoRun, started'} BY <1>0, <2>2 DEF LatestInv
  <2>6. CASE job[w] = started
    <3>1. \A t \in Threads : job[t] # started => todo[t] = << >>
      <4>1. \A t \in Threads : t = Caller \/ t = w BY DEF Single, Threads
      <4>2. job[Caller] # started => todo[Caller] = << >>
            BY <1>0, <1>s, <1>w, <2>2 DEF LatestInv, TodoInv
      <4> QED BY <2>6, <4>1, <4>2
    <3>2. \A t \in Threads : job'[t] # started' => todo'[t] = << >> BY <2>2, <2>4, <2>6, <3>1
    <3>3. ASSUME LatestTold', NEW a \in Attributes PROVE InTodo(a, w)'
      <4>1. callback[job[w]] # "invoked" BY <2>1 DEF FutureInv, FutureDone
      <4>2. callback'[job[w]] = "invoked" BY <2>2, <2>6, <3>3 DEF LatestTold
      <4>3. callback[job[w]] = "added" BY <1>10, <1>t, <2>1, <4>1, <4>2 DEF Finish, FinishFuture, PoolTypeOK
      <4>4. todo'[w] = CallbackWrites(outcome[job[w]]) BY <1>10, <1>t, <1>w, <4>3 DEF Finish, TodoTypeOK
      <4>5. outcome[job[w]] \in Outcomes /\ outcome[job[w]] # "dequeued"
            BY <1>t, <2>1 DEF FutureInv, RunTypeOK, Outcomes
      <4> QED BY <4>4, <4>5, CallbackWritesShape DEF InTodo
    <3> QED BY <1>w, <2>2, <2>5, <2>6, <3>2, <3>3
  <2>7. CASE job[w] # started
    <3>1. job[w] \in Nat /\ ~(job[w] > started)
          BY <1>t, <2>1, PoolAssumption DEF WorkInv, Runs
    <3>2. job[w] < started BY <1>s, <2>7, <3>1
    <3>3. started > 0 => future[started] # "finished" BY <1>s, <2>1, <3>2 DEF OrderInv, Live
    <3>4. started > 0 => future'[started] # "finished" BY <1>s, <2>3, <2>7, <3>3
    <3> QED BY <2>2, <2>5, <3>4 DEF LatestTold
  <2> QED BY <2>6, <2>7
<1>11. ASSUME NEW t \in Threads, Publish(t) PROVE Goal
  <2>1. UNCHANGED <<future, callback, job, accepting, started, stops, startTime, outcome>> /\ todo[t] # << >>
        BY <1>11 DEF Publish, poolVars, controlVars, callVars
  <2>2. todo'[t] = Tail(todo[t]) /\ \A u \in Threads : u # t => todo'[u] = todo[u]
        BY <1>11, <1>t DEF Publish, TodoTypeOK
  <2>3. todo[t] \in Seq(Attributes) BY <1>t DEF TodoTypeOK, Attributes
  <2>4. ASSUME started > 0, future[started] = "finished" PROVE job[t] = started
        BY <1>0, <2>1, <2>4 DEF LatestInv
  <2>5. started' > 0 /\ future'[started'] = "finished"
           => \A u \in Threads : job'[u] # started' => todo'[u] = << >>
        BY <1>0, <2>1, <2>2, <2>4 DEF LatestInv
  <2>6. ASSUME LatestTold', NEW a \in Attributes
        PROVE  Written(a)' \/ \E u \in Threads : job'[u] = started' /\ InTodo(a, u)'
    <3>1. LatestTold /\ job[t] = started BY <2>1, <2>4, <2>6 DEF LatestTold
    <3>2. CASE a = Head(todo[t])
          BY <1>11, <2>1, <3>1, <3>2 DEF Publish, Written, FinalResult, Attributes
    <3>3. CASE a # Head(todo[t])
      <4>1. CASE Written(a)
        <5>1. /\ Head(todo[t]) # "status" => status' = status
              /\ Head(todo[t]) # "result" => result' = result
              /\ Head(todo[t]) # "endTime" => endTime' = endTime
              BY <1>11 DEF Publish
        <5>2. FinalResult(started)' = FinalResult(started) BY <2>1 DEF FinalResult
        <5>3. CASE a = "status" BY <2>1, <3>3, <4>1, <5>1, <5>3 DEF Written
        <5>4. CASE a = "result" BY <2>1, <3>3, <4>1, <5>1, <5>2, <5>4 DEF Written
        <5>5. CASE a = "endTime" BY <2>1, <3>3, <4>1, <5>1, <5>5 DEF Written
        <5> QED BY <2>6, <5>3, <5>4, <5>5 DEF Attributes
      <4>2. ASSUME NEW u \in Threads, job[u] = started, InTodo(a, u) PROVE job'[u] = started' /\ InTodo(a, u)'
        <5>1. CASE u # t BY <2>1, <2>2, <4>2, <5>1 DEF InTodo
        <5>2. CASE u = t
          <6>1. PICK i \in DOMAIN todo[t] : todo[t][i] = a BY <4>2, <5>2 DEF InTodo
          <6>2. i # 1 BY <2>1, <2>3, <3>3, <6>1, TailShape
          <6>3. i - 1 \in DOMAIN todo'[t] /\ (i - 1) + 1 = i BY <2>1, <2>2, <2>3, <6>1, <6>2, TailShape
          <6>4. todo'[t][i - 1] = a BY <2>1, <2>2, <2>3, <6>1, <6>3, TailShape
          <6> QED BY <2>1, <4>2, <5>2, <6>3, <6>4 DEF InTodo
        <5> QED BY <5>1, <5>2
      <4> QED BY <1>0, <2>1, <3>1, <4>1, <4>2 DEF LatestInv
    <3> QED BY <3>2, <3>3
  <2> QED BY <1>0, <2>1, <2>5, <2>6 DEF LatestInv
<1>12. ASSUME NEW t \in Threads, CallbackReturns(t) PROVE Goal
  <2>1. /\ UNCHANGED <<future, callback, todo, outcome, accepting, started, stops, startTime>>
        /\ UNCHANGED <<status, result, endTime>> /\ todo[t] = << >>
        BY <1>12 DEF CallbackReturns, Release, published, controlVars, callVars
  <2>2. job'[t] = NoRun /\ \A u \in Threads : u # t => job'[u] = job[u]
        BY <1>12, <1>t DEF CallbackReturns, Release, PoolTypeOK
  <2>3. \A a \in Attributes : Written(a) => Written(a)' BY <2>1 DEF Written, FinalResult
  <2>4. \A a \in Attributes : \A u \in Threads : InTodo(a, u) => u # t /\ InTodo(a, u)' BY <2>1 DEF InTodo
  <2>5. LatestTold' => LatestTold BY <2>1 DEF LatestTold
  <2> QED BY <1>0, <1>w, <2>1, <2>2, <2>3, <2>4, <2>5 DEF LatestInv
<1>13. ASSUME NEW r \in Runs, Expire(r) \/ ContainerUp(r) PROVE Goal
       BY <1>1, <1>13 DEF Expire, ContainerUp, RunUnchanged, poolVars, callVars, controlVars, published
<1>14. CASE DropCancelled \/ UNCHANGED vars
       BY <1>1, <1>14 DEF DropCancelled, Drop, vars, poolVars, callVars, controlVars, published
<1> QED BY <1>2, <1>3, <1>4, <1>5, <1>6, <1>7, <1>8, <1>9, <1>10, <1>11, <1>12, <1>13, <1>14, NextCases
        DEF PoolCall

\* A callback with one write left is over after it.
LEMMA LastWrite == ASSUME NEW s \in Seq(Attributes), s # << >>, Len(s) = 1 PROVE Tail(s) = << >>
<1>1. Len(Tail(s)) = 0 /\ Tail(s) \in Seq(Attributes) OBVIOUS
<1>2. Tail(s) = << >> \/ 1 \in DOMAIN Tail(s) BY <1>1, TailShape
<1>3. DOMAIN Tail(s) = 1..0 BY TailShape
<1>4. DOMAIN Tail(s) = {} BY <1>3
<1> QED BY <1>2, <1>4

\* Without a stop(), a thread about to write a status writes that of the latest run, which has
\* not said how it ended.
LEMMA StatusWriterIsLatest ==
    ASSUME IInv, FutureInv, TodoInv, CallInv, ToldInv, stops = 0,
           NEW t \in Threads, todo[t] # << >>, Head(todo[t]) = "status"
    PROVE  /\ job[t] = started /\ started \in Runs /\ callback[started] = "invoked"
           /\ status = "RUNNING" /\ startTime = started
<1>t. CallerTypeOK /\ TodoTypeOK BY DEF IInv, TypeInv, TypeOK
<1>1. job[t] \in Runs /\ callback[job[t]] = "invoked" BY DEF TodoInv
<1>2. todo[t] \in Seq(Attributes) BY <1>t DEF TodoTypeOK, Attributes
<1>3. InTodo("status", t) BY <1>2, TailShape DEF InTodo
<1>4. ~StatusTold(job[t]) BY <1>3 DEF StatusTold
<1>5. ~(job[t] > started) BY <1>1 DEF FutureInv
<1>6. job[t] \in Nat /\ started \in Nat BY <1>1, <1>t, PoolAssumption DEF Runs, CallerTypeOK
<1>7. job[t] = started BY <1>1, <1>4, <1>5, <1>6 DEF ToldInv
<1>8. status = "RUNNING" /\ ~(startTime > started) BY <1>1, <1>4, <1>7 DEF ToldInv
<1> QED BY <1>1, <1>6, <1>7, <1>8 DEF CallInv

LEMMA ToldStep ==
    ASSUME Single, IInv, OrderInv, FutureInv, TodoInv, CallInv, LatestInv, ToldInv, [Next]_vars
    PROVE  ToldInv'
<1>t. TypeInv /\ PoolTypeOK /\ CallerTypeOK /\ RunTypeOK /\ TodoTypeOK /\ WorkInv /\ RunInv
      BY DEF IInv, TypeInv, TypeOK
<1>w. Caller \in Threads /\ Workers \subseteq Threads /\ Caller \notin Workers
      BY PoolAssumption DEF Threads
<1>s. started \in Nat /\ (started > 0 => started \in Runs) /\ \A r \in Runs : r \in Nat /\ r > 0
      BY <1>t, PoolAssumption DEF CallerTypeOK, Runs
<1>0. SUFFICES ASSUME stops' = 0 PROVE ToldInv'
      BY DEF ToldInv
<1> USE DEF NoRun
<1>1. ASSUME UNCHANGED <<callback, job, todo, started, stops, startTime, status, outcome>>
      PROVE  ToldInv'
      BY <1>0, <1>1 DEF ToldInv, StatusTold, InTodo
\* The latest run has yet to tell, and a step leaves the runs before it alone.
<1>n. ASSUME UNCHANGED <<started, stops, startTime, status>>, started \in Runs, callback[started] # "invoked",
             \A r \in Runs : StatusTold(r) /\ r # started => StatusTold(r)'
      PROVE  ToldInv'
  <2>1. ~StatusTold(started) BY <1>n DEF StatusTold
  <2>2. status = "RUNNING" /\ ~(startTime > started) BY <1>0, <1>n, <2>1 DEF ToldInv
  <2> QED BY <1>0, <1>n, <1>s, <2>2 DEF ToldInv
\* A run that told, untouched, has told.
<1>u. ASSUME NEW r \in Runs, NEW q, r # q, NEW t \in Threads, StatusTold(r),
             callback'[r] = callback[r], job'[t] = q \/ (job'[t] = job[t] /\ todo'[t] = todo[t]),
             \A u \in Threads : u # t => job'[u] = job[u] /\ todo'[u] = todo[u]
      PROVE  StatusTold(r)'
      BY <1>u DEF StatusTold, InTodo
<1>2. CASE CallerOnly
  <2>0. UNCHANGED <<callback, job, todo, started, outcome>> BY <1>2, CallerOnlyFrame, StartedFrame
  <2>1. CASE StartRunning
    <3>1. /\ startTime' = started + 1 /\ status' = "RUNNING" /\ status # "RUNNING" /\ UNCHANGED stops
          BY <2>1 DEF StartRunning, CallerAt, CallInv
    <3> QED BY <1>0, <1>s, <2>0, <3>1 DEF ToldInv, StatusTold, InTodo
  <2>2. CASE StopEvent \/ StopStatus
    <3>1. stops' # 0 BY <1>t, <2>2 DEF StopEvent, StopStatus, CallerAt, CallInv, CallerTypeOK
    <3> QED BY <1>0, <3>1
  <2>4. CASE StartClear \/ StartReset \/ StopCleanup \/ ShutdownEnd \/ AwaitDone
        BY <1>1, <2>0, <2>4 DEF StartClear, StartReset, StopCleanup, ShutdownEnd, AwaitDone, published, controlVars
  <2>5. CASE ReadTimes \/ ReadResult \/ ReadStatus \/ ReturnResult
        BY <1>1, <2>0, <2>5 DEF ReadTimes, ReadResult, ReadStatus, ReturnResult, published, controlVars
  <2> QED BY <1>2, <2>1, <2>2, <2>4, <2>5 DEF CallerOnly
<1>3. CASE StartSubmit
  <2>0. UNCHANGED <<status, startTime, stops>> /\ UNCHANGED <<todo, outcome>> /\ startTime = started + 1
        BY <1>3, PoolCallFrame DEF PoolCall, StartSubmit, CallerAt, CallInv
  <2>1. CASE Submit(started + 1) /\ started' = started + 1
    <3>1. status = "RUNNING" BY <1>0, <1>s, <2>0 DEF ToldInv
    <3>2. UNCHANGED <<callback, job>> BY <2>1 DEF Submit
    <3>3. \A r \in Runs : StatusTold(r) => StatusTold(r)' BY <2>0, <3>2 DEF StatusTold, InTodo
    <3>4. \A r \in Runs : r < started' => StatusTold(r) BY <1>0, <1>s, <2>0, <2>1 DEF ToldInv
    <3> QED BY <1>s, <2>0, <2>1, <3>1, <3>3, <3>4 DEF ToldInv
  <2>2. CASE UNCHANGED <<poolVars, started>> BY <1>1, <2>0, <2>2 DEF poolVars
  <2> QED BY <1>3, <2>1, <2>2 DEF StartSubmit
<1>4. CASE StartCallback
  <2>1. /\ current = started /\ started \in Runs /\ UNCHANGED <<started, stops, startTime, status>>
        /\ callback[started] = "unset"
        BY <1>t, <1>4, PoolCallFrame
           DEF StartCallback, CallerAt, CallInv, TypeInv, CallerSupport, PoolCall
  <2>2. \A r \in Runs : r # started => callback'[r] = callback[r]
        BY <1>4, <1>t, <2>1 DEF StartCallback, AddCallback, InvokeCallbackNow, PoolTypeOK
  <2>3. /\ \A t \in Threads : t # Caller => job'[t] = job[t] /\ todo'[t] = todo[t]
        /\ job'[Caller] = started \/ (job'[Caller] = job[Caller] /\ todo'[Caller] = todo[Caller])
        BY <1>4, <1>t, <1>w, <2>1
           DEF StartCallback, AddCallback, InvokeCallbackNow, PoolTypeOK, TodoTypeOK
  <2>4. \A r \in Runs : StatusTold(r) /\ r # started => StatusTold(r)' BY <1>u, <1>w, <2>2, <2>3
  <2> QED BY <1>n, <2>1, <2>4
<1>c. ASSUME NEW q \in Runs, CancelQueued(q), UNCHANGED <<started, stops, startTime, status>>
      PROVE  ToldInv'
  <2>1. q = started BY <1>0, <1>c, LiveIsLatest DEF CancelQueued, CancelFuture, Live
  <2>2. callback[q] # "invoked" BY <1>c DEF CancelQueued, CancelFuture, FutureInv, FutureDone
  <2>3. /\ \A r \in Runs : r # q => callback'[r] = callback[r]
        /\ \A t \in Threads : t # Caller => job'[t] = job[t] /\ todo'[t] = todo[t]
        /\ job'[Caller] = q
        BY <1>c, <1>t, <1>w DEF CancelQueued, CancelFuture, PoolTypeOK, TodoTypeOK
  <2>4. \A r \in Runs : StatusTold(r) /\ r # started => StatusTold(r)' BY <1>u, <1>w, <2>1, <2>3
  <2> QED BY <1>c, <1>n, <2>1, <2>2, <2>4
<1>5. CASE StopCancel
  <2>1. UNCHANGED <<started, stops, startTime, status>> BY <1>5, PoolCallFrame DEF StopCancel, PoolCall
  <2> QED BY <1>1, <1>5, <1>c, <2>1 DEF StopCancel
<1>6. CASE ShutdownBegin BY <1>1, <1>6, PoolCallFrame DEF ShutdownBegin, PoolCall
<1>7. CASE ShutdownDrain
  <2>1. UNCHANGED <<started, stops, startTime, status>> /\ Head(queue) \in Runs
        BY <1>7, <1>t, PoolCallFrame DEF ShutdownDrain, PoolCall, callVars, PoolTypeOK
  <2> QED BY <1>1, <1>7, <1>c, <2>1 DEF ShutdownDrain
<1>8. ASSUME NEW w \in Workers, TakeRun(w) PROVE ToldInv'
  <2>1. UNCHANGED <<callback, todo, started, stops, startTime, status, outcome>> /\ job[w] = NoRun
        BY <1>8 DEF TakeRun, Take, callVars, controlVars, published
  <2>2. todo[w] = << >> BY <1>s, <1>w, <2>1 DEF TodoInv
  <2>3. \A t \in Threads : t # w => job'[t] = job[t] BY <1>8, <1>t DEF TakeRun, Take, PoolTypeOK
  <2>4. \A r \in Runs : StatusTold(r) => StatusTold(r)' BY <2>1, <2>2, <2>3 DEF StatusTold, InTodo
  <2> QED BY <1>0, <2>1, <2>4 DEF ToldInv
<1>9. ASSUME NEW w \in Workers, InsideRun(w) PROVE ToldInv'
  <2>1. job[w] \in Runs /\ Active(w) /\ \A r \in Runs : r # job[w] => outcome'[r] = outcome[r]
        BY <1>9, <1>t, InsideRunLocal
  <2>2. future[job[w]] = "running" BY <1>t, <2>1 DEF WorkInv
  <2>3. UNCHANGED <<callback, job, todo, started, stops, startTime, status>> BY <1>9, InsideRunFrame
  <2>4. \A r \in Runs : StatusTold(r) => StatusTold(r)' /\ outcome'[r] = outcome[r]
        BY <2>1, <2>2, <2>3 DEF StatusTold, InTodo, FutureInv, FutureDone
  <2>5. status = "COMPLETED" => started \in Runs /\ StatusTold(started) BY <1>0, <1>s, <2>3 DEF ToldInv
  <2> QED BY <1>0, <2>3, <2>4, <2>5 DEF ToldInv
<1>10. ASSUME NEW w \in Workers, Finish(w) PROVE ToldInv'
  <2>1. job[w] \in Runs /\ future[job[w]] = "running"
        BY <1>10, <1>t DEF Finish, TypeInv, OutcomeSupport, WorkInv, Active
  <2>2. UNCHANGED <<job, started, stops, startTime, status>>
        BY <1>10 DEF Finish, FinishFuture, callVars, controlVars, published
  <2>3. job[w] = started BY <1>0, <2>1, <2>2, LiveIsLatest DEF Live
  <2>4. callback[started] # "invoked" BY <2>1, <2>3 DEF FutureInv, FutureDone
  <2>5. /\ \A r \in Runs : r # started => callback'[r] = callback[r]
        /\ \A t \in Threads : t # w => todo'[t] = todo[t]
        BY <1>10, <1>t, <2>1, <2>3 DEF Finish, FinishFuture, PoolTypeOK, TodoTypeOK
  <2>6. \A r \in Runs : StatusTold(r) /\ r # started => StatusTold(r)' BY <1>u, <1>w, <2>2, <2>3, <2>5
  <2> QED BY <1>n, <2>1, <2>2, <2>3, <2>4, <2>6
<1>11. ASSUME NEW t \in Threads, Publish(t) PROVE ToldInv'
  <2>1. UNCHANGED <<future, callback, job, started, stops, startTime, outcome>> /\ todo[t] # << >>
        BY <1>11 DEF Publish, poolVars, controlVars, callVars
  <2>2. todo'[t] = Tail(todo[t]) /\ \A u \in Threads : u # t => todo'[u] = todo[u]
        BY <1>11, <1>t DEF Publish, TodoTypeOK
  <2>3. todo[t] \in Seq(Attributes) BY <1>t DEF TodoTypeOK, Attributes
  <2>4. ASSUME NEW u \in Threads, InTodo("status", u)' PROVE InTodo("status", u)
    <3>1. CASE u # t BY <2>2, <2>4, <3>1 DEF InTodo
    <3>2. CASE u = t
      <4>1. PICK i \in DOMAIN Tail(todo[t]) : Tail(todo[t])[i] = "status"
            BY <2>2, <2>4, <3>2 DEF InTodo
      <4>2. i + 1 \in DOMAIN todo[t] /\ todo[t][i + 1] = "status" BY <2>1, <2>3, <4>1, TailShape
      <4> QED BY <3>2, <4>2 DEF InTodo
    <3> QED BY <3>1, <3>2
  <2>5. \A r \in Runs : StatusTold(r) => StatusTold(r)' BY <2>1, <2>4 DEF StatusTold
  <2>6. CASE Head(todo[t]) # "status"
    <3>1. status' = status BY <1>11, <2>6 DEF Publish
    <3>2. status # "COMPLETED" BY <1>0, <2>1 DEF ToldInv
    <3> QED BY <1>0, <2>1, <2>5, <3>1, <3>2 DEF ToldInv
  <2>7. CASE Head(todo[t]) = "status"
    <3>1. job[t] = started /\ started \in Runs /\ callback[started] = "invoked" /\ startTime = started
          BY <1>0, <2>1, <2>7, StatusWriterIsLatest
    <3>2. status' = FinalStatus(outcome[started]) BY <1>11, <2>7, <3>1 DEF Publish
    <3>3. \A u \in Threads : job[u] = started /\ u # t => todo[u] = << >> BY <2>1, <3>1 DEF TodoInv
    <3>4. ~InTodo("status", t)'
      <4> SUFFICES ASSUME NEW i \in DOMAIN todo'[t], todo'[t][i] = "status" PROVE FALSE
          BY DEF InTodo
      <4>1. i + 1 \in DOMAIN todo[t] /\ todo[t][i + 1] = "status" /\ 1 \in DOMAIN todo[t]
            /\ todo[t][1] = "status" /\ i \in 1..(Len(todo[t]) - 1)
            BY <2>1, <2>2, <2>3, <2>7, TailShape
      <4>2. i + 1 = 1 BY <4>1 DEF TodoInv
      <4>3. i \in Nat /\ i > 0 BY <2>1, <2>3, <4>1, TailShape
      <4> QED BY <4>2, <4>3
    <3>5. StatusTold(started)'
      <4>1. ASSUME NEW u \in Threads, job[u] = started, u # t PROVE ~InTodo("status", u)'
            BY <2>2, <3>3, <4>1 DEF InTodo
      <4> QED BY <2>1, <3>1, <3>4, <4>1 DEF StatusTold
    <3>6. ASSUME status' = "COMPLETED"
          PROVE  outcome[started] = "value" /\ \A u \in Threads : todo'[u] = << >>
      <4>1. outcome[started] = "value" BY <3>2, <3>6 DEF FinalStatus
      <4>2. todo'[t] = << >>
        <5>1. 1 = Len(todo[t])
          <6>1. 1 \in DOMAIN todo[t] /\ todo[t][1] = "status" BY <2>1, <2>3, <2>7, TailShape
          <6>2. \A i \in DOMAIN todo[t] : todo[t][i] = "status" => i = Len(todo[t])
                BY <3>1, <4>1 DEF TodoInv
          <6> QED BY <6>1, <6>2
        <5> QED BY <2>1, <2>2, <2>3, <5>1, LastWrite
      <4>3. future[started] = "finished"
            BY <3>1, <4>1 DEF FutureInv, FutureDone
      <4>4. \A u \in Threads : job[u] # started => todo[u] = << >>
            BY <1>0, <1>s, <2>1, <3>1, <4>3 DEF LatestInv
      <4> QED BY <2>2, <3>3, <4>1, <4>2, <4>4
    <3>7. \A r \in Runs : r < started => StatusTold(r)' BY <1>0, <2>1, <2>5 DEF ToldInv
    <3> QED BY <1>s, <2>1, <3>1, <3>5, <3>6, <3>7 DEF ToldInv
  <2> QED BY <2>6, <2>7
<1>12. ASSUME NEW t \in Threads, CallbackReturns(t) PROVE ToldInv'
  <2>1. UNCHANGED <<callback, todo, outcome, started, stops, startTime, status>>
        BY <1>12 DEF CallbackReturns, Release, published, controlVars, callVars
  <2>2. job'[t] = NoRun /\ \A u \in Threads : u # t => job'[u] = job[u]
        BY <1>12, <1>t DEF CallbackReturns, Release, PoolTypeOK
  <2>3. \A r \in Runs : StatusTold(r) => StatusTold(r)' BY <1>s, <2>1, <2>2 DEF StatusTold, InTodo
  <2> QED BY <1>0, <2>1, <2>3 DEF ToldInv
<1>13. ASSUME NEW r \in Runs, Expire(r) \/ ContainerUp(r) PROVE ToldInv'
       BY <1>1, <1>13 DEF Expire, ContainerUp, RunUnchanged, poolVars, callVars, controlVars, published
<1>14. CASE DropCancelled \/ UNCHANGED vars
       BY <1>1, <1>14 DEF DropCancelled, Drop, vars, poolVars, callVars, controlVars, published
<1> QED BY <1>2, <1>3, <1>4, <1>5, <1>6, <1>7, <1>8, <1>9, <1>10, <1>11, <1>12, <1>13, <1>14, NextCases
        DEF PoolCall

\* A workload that says COMPLETED, and was never stopped, has that run's result and end time.
LEMMA CompletedIsWhole ==
    ASSUME IInv, FutureInv, CallInv, LatestInv, ToldInv, stops = 0, status = "COMPLETED"
    PROVE  startTime = started /\ endTime = started /\ result = Output(started)
<1>1. started \in Runs /\ started > 0 /\ outcome[started] = "value" /\ \A t \in Threads : todo[t] = << >>
      BY PoolAssumption DEF ToldInv, IInv, TypeInv, TypeOK, CallerTypeOK, Runs
<1>2. startTime = started
      BY <1>1, PoolAssumption DEF ToldInv, CallInv, Runs
<1>3. callback[started] = "invoked" BY <1>1 DEF ToldInv, StatusTold
<1>4. future[started] = "finished" BY <1>1, <1>3 DEF FutureInv, FutureDone
<1>5. LatestTold BY <1>1, <1>2, <1>3, <1>4 DEF LatestTold
<1>6. \A a \in Attributes : ~\E t \in Threads : InTodo(a, t) BY <1>1 DEF InTodo
<1>7. \A a \in Attributes : Written(a) BY <1>5, <1>6 DEF LatestInv
<1> QED BY <1>1, <1>2, <1>7 DEF Written, Attributes, FinalResult

Reading == {"get_result", "get_status", "got"}

LEMMA SnapStep ==
    ASSUME IInv, FutureInv, TodoInv, CallInv, LatestInv, ToldInv, SnapInv, [Next]_vars
    PROVE  SnapInv'
<1>t. CallerTypeOK BY DEF IInv, TypeInv, TypeOK
<1>0. SUFFICES ASSUME stops' = 0 PROVE SnapInv'
      BY DEF SnapInv
<1>o. ASSUME callerPc' \notin Reading PROVE SnapInv' BY <1>o DEF SnapInv, Reading
<1>1. ASSUME UNCHANGED <<callerPc, snapshot, started, stops>>,
             callerPc \in Reading => status' = status
      PROVE  SnapInv'
      BY <1>0, <1>1 DEF SnapInv, Reading
<1>2. CASE CallerOnly
  <2>1. CASE ReadTimes
    <3>1. /\ snapshot'.start = startTime /\ snapshot'.end = endTime /\ callerPc' = "get_result"
          /\ UNCHANGED <<status, started, stops>>
          BY <1>t, <2>1 DEF ReadTimes, CallerTypeOK, Snapshots, published
    <3> QED BY <1>0, <3>1, CompletedIsWhole DEF SnapInv
  <2>2. CASE ReadResult
    <3>1. /\ snapshot'.start = snapshot.start /\ snapshot'.end = snapshot.end /\ snapshot'.result = result
          /\ callerPc = "get_result" /\ callerPc' = "get_status" /\ UNCHANGED <<status, started, stops>>
          BY <1>t, <2>2 DEF ReadResult, CallerAt, CallerTypeOK, Snapshots, published
    <3>2. SnapInv /\ (stops = 0 /\ status = "COMPLETED" => result = Output(started)) BY CompletedIsWhole
    <3> QED BY <1>0, <3>1, <3>2 DEF SnapInv, Output
  <2>3. CASE ReadStatus
    <3>1. /\ snapshot'.start = snapshot.start /\ snapshot'.end = snapshot.end
          /\ snapshot'.result = snapshot.result /\ snapshot'.status = status
          /\ callerPc = "get_status" /\ callerPc' = "got" /\ UNCHANGED <<status, started, stops>>
          BY <1>t, <2>3 DEF ReadStatus, CallerAt, CallerTypeOK, Snapshots, published
    <3> QED BY <1>0, <3>1 DEF SnapInv, Output
  <2>4. CASE ~(ReadTimes \/ ReadResult \/ ReadStatus)
    <3>1. callerPc' \notin Reading
          BY <1>2, <2>4 DEF CallerOnly, StartClear, StartRunning, StartReset, StopEvent, StopStatus,
             StopCleanup, ShutdownEnd, AwaitDone, ReturnResult, Reading
    <3> QED BY <1>o, <3>1
  <2> QED BY <2>1, <2>2, <2>3, <2>4
<1>3. CASE PoolCall
  <2>1. callerPc' \notin Reading
        BY <1>3 DEF PoolCall, StartSubmit, StartCallback, StopCancel, ShutdownBegin, ShutdownDrain,
           CallerAt, callVars, Reading
  <2> QED BY <1>o, <2>1
<1>4. ASSUME NEW w \in Workers, TakeRun(w) \/ InsideRun(w) \/ Finish(w) PROVE SnapInv'
      BY <1>1, <1>4, InsideRunFrame DEF TakeRun, Finish, callVars, published
<1>5. ASSUME NEW t \in Threads, Publish(t) PROVE SnapInv'
  <2>1. UNCHANGED <<callerPc, snapshot, started, stops>> /\ todo[t] # << >> BY <1>5 DEF Publish, callVars
  <2>2. ASSUME callerPc \in Reading PROVE status' = status
    <3>1. status # "RUNNING" BY <2>2 DEF CallInv, Reading
    <3>2. Head(todo[t]) # "status" BY <1>0, <2>1, <3>1, StatusWriterIsLatest
    <3> QED BY <1>5, <3>2 DEF Publish
  <2> QED BY <1>1, <2>1, <2>2
<1>6. ASSUME NEW t \in Threads, CallbackReturns(t) PROVE SnapInv'
      BY <1>1, <1>6 DEF CallbackReturns, callVars, published
<1>7. ASSUME NEW r \in Runs, Expire(r) \/ ContainerUp(r) PROVE SnapInv'
      BY <1>1, <1>7 DEF Expire, ContainerUp, RunUnchanged, callVars, published
<1>8. CASE DropCancelled \/ UNCHANGED vars
      BY <1>1, <1>8 DEF DropCancelled, vars, callVars, published
<1> QED BY <1>2, <1>3, <1>4, <1>5, <1>6, <1>7, <1>8, NextCases

-----------------------------------------------------------------------------
LEMMA LatestInit == Init => LatestIInv
<1> SUFFICES ASSUME Init PROVE LatestIInv
    OBVIOUS
<1> USE PoolAssumption DEF Init, PoolInit, Threads, NoRun
<1>1. IInv BY IInvInit
<1>r. \A r \in Runs : r \in Nat /\ r > 0 BY DEF Runs
<1>2. OrderInv BY <1>r DEF OrderInv, Live
<1>3. FutureInv BY <1>r DEF FutureInv, FutureDone
<1>4. TodoInv BY DEF TodoInv
<1>5. CallInv BY DEF CallInv
<1>6. LatestInv BY DEF LatestInv, LatestTold
<1>7. ToldInv BY <1>r DEF ToldInv
<1>8. SnapInv BY DEF SnapInv
<1> QED BY <1>1, <1>2, <1>3, <1>4, <1>5, <1>6, <1>7, <1>8 DEF LatestIInv

\* The strengthened invariant of a workload with one worker.
LEMMA LatestInvariance ==
    ASSUME Single
    PROVE  Spec => []LatestIInv
<1>1. Init => LatestIInv BY LatestInit
<1>2. LatestIInv /\ IInv' /\ [Next]_vars => LatestIInv'
      BY OrderStep, FutureStep, TodoStep, CallStep, LatestStep, ToldStep, SnapStep DEF LatestIInv
<1> QED BY <1>1, <1>2, Invariance, PTL DEF Spec

\* The unlocked attributes tell of one run, the latest, at rest whatever stop() calls and late
\* callbacks came before, and right after wait_for_completion if stop() was never called
\* (_on_command_done, get_result), for a pool of one worker, Workload's default.
THEOREM ResultsAreLatestAlways ==
    ASSUME \A v, w \in Workers : v = w
    PROVE  Spec => []ResultsAreLatest
<1>s. Single BY DEF Single
<1>1. ASSUME LatestIInv PROVE SettledIsLatest
  <2>t. IInv /\ OrderInv /\ FutureInv /\ TodoInv /\ CallInv /\ LatestInv /\ RunInv /\ CallerTypeOK
        /\ PoolTypeOK /\ RunTypeOK
        BY <1>1 DEF LatestIInv, IInv, TypeInv, TypeOK
  <2> SUFFICES ASSUME Settled, accepting, started > 0, startTime = started, outcome[started] # "dequeued"
               PROVE  /\ status = "COMPLETED" => outcome[started] = "value" /\ result = Output(started)
                      /\ status = "ERROR" => outcome[started] \in {"error", "raised"} /\ result = Failure(started)
                      /\ status \in {"COMPLETED", "ERROR"} => endTime = started
      BY DEF SettledIsLatest
  <2>1. started \in Runs /\ started <= started BY <2>t, PoolAssumption DEF CallerTypeOK, Runs
  <2>2. \A t \in Threads : job[t] = NoRun BY DEF Settled, CallerAt, Threads
  <2>3. future[started] = "finished"
    <3>1. future[started] # "none" BY <2>t, <2>1 DEF OrderInv
    <3>2. future[started] # "pending" BY <2>t, <2>1 DEF OrderInv, Settled
    <3>3. future[started] # "running"
      <4>1. \A w \in Workers : job[w] # started BY <2>1, <2>2, PoolAssumption DEF Threads, Runs, NoRun
      <4> QED BY <2>t, <2>1, <4>1 DEF RunInv, RunFacts
    <3>4. future[started] # "cancelled" BY <2>t, <2>1 DEF FutureInv
    <3> QED BY <2>t, <2>1, <3>1, <3>2, <3>3, <3>4 DEF PoolTypeOK, FutureStates
  <2>4. callback[started] = "invoked"
        BY <2>t, <2>1, <2>3 DEF FutureInv, FutureDone, Settled, CallerAt, PoolTypeOK
  <2>5. LatestTold BY <2>3, <2>4 DEF LatestTold
  <2>6. \A t \in Threads : job[t] # started BY <2>1, <2>2, PoolAssumption DEF Runs, NoRun
  <2>7. \A a \in Attributes : Written(a) BY <2>t, <2>5, <2>6 DEF LatestInv
  <2>8. /\ status \in {FinalStatus(outcome[started]), "STOPPED"}
        /\ result = FinalResult(started) /\ endTime = started
        BY <2>7 DEF Attributes, Written
  <2> QED BY <2>8 DEF FinalStatus, FinalResult
<1>2. ASSUME LatestIInv PROVE SnapshotWhole
  <2>1. SnapInv BY <1>2 DEF LatestIInv
  <2> QED BY <2>1 DEF SnapInv, SnapshotWhole
<1>3. LatestIInv => ResultsAreLatest BY <1>1, <1>2 DEF ResultsAreLatest
<1> QED BY <1>s, <1>3, LatestInvariance, PTL
=============================================================================
