------------------------ MODULE PromptWorkload_proofs ------------------------
(***************************************************************************)
(* Theorems about PromptWorkload, for every pool, every number of prompts, *)
(* runs and stops: it is well typed, and what a stop() does is done to its *)
(* own run.  That a run which falls short was stopped needs that the event *)
(* is set only while the runs in the pool are stopped ones, and that a run *)
(* enters the pool only with the event cleared.  With one worker, what is  *)
(* reported in the end is the latest run's.                                *)
(***************************************************************************)
EXTENDS PromptWorkload, TLAPS

\* A worker that has a run it has not finished.
Busy == {"loop", "sending", "finish"}

\* The pool and its workers: a run is with one worker, running, and a run not started is unknown.
RunsPlaced ==
    /\ \A r \in Runs : r > started => future[r] = "none"
    /\ \A w \in Workers : phase[w] \in Busy => job[w] \in Runs /\ future[job[w]] = "running"
    /\ \A v, w \in Workers : phase[v] \in Busy /\ phase[w] \in Busy /\ job[v] = job[w] => v = w

\* The loop and its outcome.
LoopBounds ==
    /\ \A w \in Workers : phase[w] = "sending" => sent[job[w]] < Count
    /\ \A w \in Workers : phase[w] = "finish" => outcome[job[w]] \in {"value", "failed", "unsent"}
    /\ \A r \in Runs : FutureDone(r) => outcome[r] # "none"

\* The caller: what it has checked before it goes on.
CallerKnows ==
    /\ callerPc \in {"start_running", "start_result", "start_clear", "start_submit"}
           => started < MaxRuns
    /\ callerPc = "start_submit" => ~stopEvent
    /\ callerPc = "start_callback" => current \in Runs

\* While the event is set, every run in the pool is one stop() was called on.
EventIsForStopped == stopEvent => \A r \in Runs : Live(r) => r \in stopped

IInv ==
    /\ TypeOK
    /\ RunsPlaced
    /\ LoopBounds
    /\ CallerKnows
    /\ EventIsForStopped
    /\ StopsAreOwn

-----------------------------------------------------------------------------
(* The steps, by what they touch.                                          *)

\* Steps of the caller that touch neither a future nor a run.
CallerOnly ==
    \/ StartCheck \/ StartRunning \/ StartResult \/ StartClear
    \/ StopEvent \/ StopRaises \/ StopStatus \/ StopResult
    \/ ShutdownBegin \/ ShutdownEnd \/ AwaitDone \/ GetReads

LEMMA NextCases ==
    ASSUME [Next]_vars
    PROVE  \/ CallerOnly
           \/ StartSubmit \/ StartCallback \/ StopCancel \/ ShutdownDrain
           \/ \E w \in Workers : WorkerStep(w)
           \/ \E t \in Threads : Publish(t) \/ CallbackReturns(t)
           \/ DropCancelled
           \/ UNCHANGED vars
BY Zenon DEF Next, CallerResumes, CallerOnly

LEMMA CallerOnlyFrame ==
    ASSUME CallerOnly
    PROVE  UNCHANGED <<future, callback, queue, job, started, phase, sent, outcome, todo>>
BY DEF CallerOnly, StartCheck, StartRunning, StartResult, StartClear, StopEvent, StopRaises,
       StopStatus, StopResult, ShutdownBegin, ShutdownEnd, AwaitDone, GetReads,
       poolVars, runVars

LEMMA NumbersAreNat == MaxRuns \in Nat \ {0} /\ Count \in Nat \ {0} /\ Caller \notin Workers
BY PoolAssumption, PromptAssumption

LEMMA WritesTyped ==
    ASSUME NEW o \in {"value", "failed", "unsent", "dequeued"}
    PROVE  CallbackWrites(o) \in Seq({"status", "result", "endTime"})
<1>1. CASE o = "value"
  BY <1>1 DEF CallbackWrites
<1>2. CASE o = "failed" \/ o = "unsent"
  <2>1. CallbackWrites(o) = <<"endTime", "status">>
    BY <1>2 DEF CallbackWrites
  <2> QED
    BY <2>1
<1>3. CASE o = "dequeued"
  BY <1>3 DEF CallbackWrites
<1> QED
  BY <1>1, <1>2, <1>3

\* cancel() of one run, by stop() or by shutdown.
LEMMA CancelIsOfOne ==
    ASSUME NEW r, CancelQueued(r)
    PROVE  /\ future[r] = "pending"
           /\ future' = [future EXCEPT ![r] = "cancelled"]
           /\ callback' = [callback EXCEPT ![r] = "invoked"]
           /\ job' = [job EXCEPT ![Caller] = r]
           /\ outcome' = [outcome EXCEPT ![r] = "dequeued"]
           /\ todo' = [todo EXCEPT ![Caller] = CallbackWrites("dequeued")]
BY DEF CancelQueued, CancelFuture

\* stop() and the drain cancel a run of the pool, or leave it alone.
LEMMA CancelCases ==
    ASSUME TypeOK, StopCancel \/ ShutdownDrain
    PROVE  /\ \/ \E r \in Runs : CancelQueued(r)
              \/ UNCHANGED <<future, callback, job, outcome, todo>>
           /\ UNCHANGED <<status, result, endTime, stopEvent, current, startTime>>
           /\ UNCHANGED <<accepting, started, stops, stopped, snapshot, phase, sent>>
           /\ queue' \in Seq(Runs)
           /\ callerPc' \in {"stop_status", "shutdown"}
<1>1. CASE StopCancel
  <2>1. current \in Runs
    BY <1>1 DEF StopCancel, TypeOK, SomeRun
  <2> QED
    BY <1>1, <2>1 DEF StopCancel, CallerGoes, published, controlVars, TypeOK, PoolTypeOK
<1>2. CASE ShutdownDrain
  <2>1. Head(queue) \in Runs /\ Tail(queue) \in Seq(Runs)
    BY <1>2 DEF ShutdownDrain, TypeOK, PoolTypeOK
  <2> QED
    BY <1>2, <2>1 DEF ShutdownDrain, CallerAt, published, controlVars, callVars
<1> QED
  BY <1>1, <1>2

-----------------------------------------------------------------------------
LEMMA InitHolds == Init => IInv
<1> SUFFICES ASSUME Init PROVE IInv
  OBVIOUS
<1> USE NumbersAreNat
<1>1. PoolTypeOK
  BY DEF Init, PoolInit, PoolTypeOK, FutureStates
<1>2. TypeOK
  <2>1. sent \in [Runs -> 0..Count] /\ outcome \in [Runs -> {"none", "value", "failed", "unsent", "dequeued"}]
    BY DEF Init
  <2>2. todo \in [Threads -> Seq({"status", "result", "endTime"})]
    BY DEF Init
  <2>3. snapshot \in [start : SomeRun, end : SomeRun, result : SomeRun, status : Statuses]
    BY DEF Init, Blank, SomeRun, Statuses
  <2>4. started \in 0..MaxRuns /\ stops \in 0..MaxStops
    BY PromptAssumption DEF Init
  <2> QED
    BY <1>1, <2>1, <2>2, <2>3, <2>4 DEF Init, TypeOK, Statuses, SomeRun
<1>3. RunsPlaced /\ LoopBounds
  BY DEF Init, PoolInit, RunsPlaced, LoopBounds, Busy, FutureDone
<1>4. CallerKnows /\ EventIsForStopped /\ StopsAreOwn
  BY DEF Init, CallerKnows, EventIsForStopped, StopsAreOwn
<1> QED
  BY <1>2, <1>3, <1>4 DEF IInv

-----------------------------------------------------------------------------
(* Types.                                                                  *)

LEMMA CallerOnlyTyped ==
    ASSUME TypeOK, CallerKnows, CallerOnly
    PROVE  TypeOK'
<1> USE DEF TypeOK, SomeRun, Statuses
<1>0. PoolTypeOK'
  <2>1. accepting' \in BOOLEAN
    BY DEF PoolTypeOK, CallerOnly, StartCheck, StartRunning, StartResult, StartClear, StopEvent,
           StopRaises, StopStatus, StopResult, ShutdownBegin, ShutdownEnd, AwaitDone, GetReads, poolVars
  <2> QED
    BY <2>1, CallerOnlyFrame DEF PoolTypeOK
<1>1. ASSUME started' = started, UNCHANGED <<phase, sent, outcome, todo>>,
             status' \in Statuses, {result', endTime', startTime', current'} \subseteq SomeRun,
             stopEvent' \in BOOLEAN, stops' \in 0..MaxStops, stopped' \subseteq Runs,
             snapshot' \in [start : SomeRun, end : SomeRun, result : SomeRun, status : Statuses],
             callerPc' \in {"idle", "start_running", "start_result", "start_clear", "start_submit",
                            "start_callback", "stop_cancel", "stop_status", "stop_result",
                            "shutdown", "get_end", "get_result", "get_status", "got"}
      PROVE  TypeOK'
  BY <1>0, <1>1
<1>2. CASE StartCheck
  BY <1>1, <1>2 DEF StartCheck, CallerGoes, poolVars, published, controlVars, runVars
<1>3. CASE StartRunning
  <2>1. started + 1 \in Runs
    BY <1>3, NumbersAreNat DEF StartRunning, CallerGoes, CallerAt, CallerKnows, Runs
  <2> QED
    BY <1>1, <1>3, <2>1 DEF StartRunning, CallerGoes, poolVars, runVars
<1>4. CASE StartResult
  BY <1>1, <1>4 DEF StartResult, CallerGoes, poolVars, controlVars, runVars
<1>5. CASE StartClear
  BY <1>1, <1>5 DEF StartClear, CallerGoes, poolVars, published, runVars
<1>6. CASE StopEvent
  <2>1. stops' \in 0..MaxStops
    BY <1>6, PromptAssumption DEF StopEvent
  <2>2. stopped' \subseteq Runs
    BY <1>6 DEF StopEvent
  <2> QED
    BY <1>1, <1>6, <2>1, <2>2 DEF StopEvent, CallerGoes, poolVars, published, runVars
<1>7. CASE StopRaises
  BY <1>1, <1>7 DEF StopRaises, CallerGoes, poolVars, published, controlVars, runVars
<1>8. CASE StopStatus
  BY <1>1, <1>8 DEF StopStatus, CallerGoes, poolVars, controlVars, runVars
<1>9. CASE StopResult
  BY <1>1, <1>9 DEF StopResult, CallerGoes, poolVars, runVars
<1>10. CASE ShutdownBegin
  BY <1>1, <1>10 DEF ShutdownBegin, CallerGoes, published, controlVars, runVars
<1>11. CASE ShutdownEnd
  BY <1>1, <1>11 DEF ShutdownEnd, CallerGoes, poolVars, published, controlVars, runVars
<1>12. CASE AwaitDone
  BY <1>1, <1>12 DEF AwaitDone, CallerGoes, poolVars, published, controlVars, runVars
<1>13. CASE GetReads
  <2>1. snapshot' \in [start : SomeRun, end : SomeRun, result : SomeRun, status : Statuses]
    <3>1. {startTime, endTime, result, NoRun} \subseteq SomeRun /\ status \in Statuses
      OBVIOUS
    <3>2. Blank \in [start : SomeRun, end : SomeRun, result : SomeRun, status : Statuses]
      BY DEF Blank
    <3>3. \/ snapshot' = [snapshot EXCEPT !.start = startTime, !.end = endTime]
          \/ snapshot' = [snapshot EXCEPT !.result = result]
          \/ snapshot' = [snapshot EXCEPT !.status = status]
          \/ snapshot' = Blank
      BY <1>13 DEF GetReads
    <3> HIDE DEF SomeRun, Statuses
    <3> QED
      BY <3>1, <3>2, <3>3
  <2> QED
    BY <1>1, <1>13, <2>1 DEF GetReads, CallerGoes, poolVars, published, controlVars, runVars
<1> QED
  BY <1>2, <1>3, <1>4, <1>5, <1>6, <1>7, <1>8, <1>9, <1>10, <1>11, <1>12, <1>13 DEF CallerOnly

LEMMA StartTyped ==
    ASSUME TypeOK, CallerKnows, LoopBounds, StartSubmit \/ StartCallback
    PROVE  TypeOK'
<1> USE DEF TypeOK, PoolTypeOK, SomeRun
<1>1. CASE StartSubmit
  <2>1. started + 1 \in Runs /\ started + 1 \in 0..MaxRuns
    BY <1>1, NumbersAreNat DEF StartSubmit, CallerGoes, CallerAt, CallerKnows, Runs
  <2>2. /\ future' \in [Runs -> FutureStates] /\ queue' \in Seq(Runs)
        /\ UNCHANGED <<callback, job, accepting>>
    <3>1. CASE Submit(started + 1)
      BY <2>1, <3>1 DEF Submit, FutureStates
    <3>2. CASE UNCHANGED poolVars
      BY <3>2 DEF poolVars
    <3> QED
      BY <1>1, <3>1, <3>2 DEF StartSubmit
  <2>3. started' \in 0..MaxRuns /\ current' \in SomeRun /\ callerPc' \in {"start_callback", "idle"}
    BY <1>1, <2>1 DEF StartSubmit, CallerGoes
  <2> QED
    BY SMTT(20), <1>1, <2>2, <2>3 DEF StartSubmit, published, runVars
<1>2. CASE StartCallback
  <2>1. current \in Runs /\ callerPc' = "idle"
    BY <1>2 DEF StartCallback, CallerGoes, CallerAt, CallerKnows
  <2>2. PoolTypeOK'
    BY SMTT(20), <1>2, <2>1 DEF StartCallback, AddCallback, InvokeCallbackNow, Threads
  <2>3. todo' \in [Threads -> Seq({"status", "result", "endTime"})]
    <3>1. CASE InvokeCallbackNow(current)
      <4>1. outcome[current] \in {"value", "failed", "unsent", "dequeued"}
        BY <2>1, <3>1 DEF InvokeCallbackNow, LoopBounds
      <4> QED
        BY <1>2, <4>1, WritesTyped DEF StartCallback, Threads
    <3>2. CASE UNCHANGED todo
      BY <3>2
    <3> QED
      BY <1>2, <3>1, <3>2 DEF StartCallback
  <2> QED
    BY <1>2, <2>1, <2>2, <2>3 DEF StartCallback, published, controlVars, runVars
<1> QED
  BY <1>1, <1>2

LEMMA CancelTyped ==
    ASSUME TypeOK, StopCancel \/ ShutdownDrain
    PROVE  TypeOK'
<1> USE DEF TypeOK
<1>1. ASSUME NEW r \in Runs, CancelQueued(r)
      PROVE  /\ future' \in [Runs -> FutureStates]
             /\ callback' \in [Runs -> {"unset", "added", "invoked"}]
             /\ job' \in [Threads -> Runs \union {NoRun}]
             /\ outcome' \in [Runs -> {"none", "value", "failed", "unsent", "dequeued"}]
             /\ todo' \in [Threads -> Seq({"status", "result", "endTime"})]
  <2>1. CallbackWrites("dequeued") \in Seq({"status", "result", "endTime"})
    BY WritesTyped
  <2>2. Caller \in Threads
    BY DEF Threads
  <2>3. /\ future' = [future EXCEPT ![r] = "cancelled"]
        /\ callback' = [callback EXCEPT ![r] = "invoked"]
        /\ job' = [job EXCEPT ![Caller] = r]
        /\ outcome' = [outcome EXCEPT ![r] = "dequeued"]
        /\ todo' = [todo EXCEPT ![Caller] = CallbackWrites("dequeued")]
    BY <1>1, CancelIsOfOne
  <2>4. todo' \in [Threads -> Seq({"status", "result", "endTime"})]
    BY <2>1, <2>2, <2>3
  <2> QED
    BY <2>2, <2>3, <2>4 DEF PoolTypeOK, FutureStates
<1>2. PoolTypeOK'
  BY <1>1, CancelCases DEF PoolTypeOK
<1> QED
  BY <1>1, <1>2, CancelCases

LEMMA WorkerTyped ==
    ASSUME TypeOK, RunsPlaced, LoopBounds, NEW w \in Workers, WorkerStep(w)
    PROVE  TypeOK'
<1> USE DEF TypeOK
<1>1. CASE TakeRun(w)
  <2>1. Head(queue) \in Runs /\ Tail(queue) \in Seq(Runs)
    BY <1>1 DEF TakeRun, Take, PoolTypeOK
  <2>2. PoolTypeOK'
    BY <1>1, <2>1 DEF TakeRun, Take, PoolTypeOK, FutureStates, Threads
  <2> QED
    BY <1>1, <2>2 DEF TakeRun, Goto, published, controlVars, callVars
<1>2. CASE Send(w) \/ Answered(w) \/ PromptFails(w) \/ LoopEnds(w)
  <2>1. /\ UNCHANGED <<future, callback, queue, job, accepting>>
        /\ UNCHANGED <<status, result, endTime, stopEvent, current, startTime>>
        /\ UNCHANGED <<callerPc, started, stops, stopped, snapshot, todo>>
    BY <1>2 DEF Send, Answered, PromptFails, LoopEnds, RunUnchanged,
                poolVars, published, controlVars, callVars
  <2>2. phase' \in [Workers -> {"idle", "loop", "sending", "finish", "publish"}]
    BY <1>2 DEF Send, Answered, PromptFails, LoopEnds, Goto
  <2>3. outcome' \in [Runs -> {"none", "value", "failed", "unsent", "dequeued"}]
    BY <1>2 DEF Send, Answered, PromptFails, LoopEnds
  <2>4. sent' \in [Runs -> 0..Count]
    <3>1. CASE Answered(w)
      <4>1. job[w] \in Runs /\ sent[job[w]] < Count
        BY <3>1 DEF Answered, RunsPlaced, LoopBounds, Busy
      <4>2. sent[job[w]] + 1 \in 0..Count
        BY <4>1, NumbersAreNat
      <4> QED
        BY <3>1, <4>2 DEF Answered
    <3> QED
      BY <1>2, <3>1 DEF Send, PromptFails, LoopEnds
  <2>5. PoolTypeOK'
    BY <2>1 DEF PoolTypeOK
  <2> QED
    BY <2>1, <2>2, <2>3, <2>4, <2>5
<1>3. CASE Finish(w)
  <2>1. PoolTypeOK'
    BY <1>3 DEF Finish, FinishFuture, PoolTypeOK, FutureStates
  <2>2. todo' \in [Threads -> Seq({"status", "result", "endTime"})]
    <3>1. CallbackWrites(outcome[job[w]]) \in Seq({"status", "result", "endTime"})
      BY <1>3, WritesTyped DEF Finish, LoopBounds
    <3>2. << >> \in Seq({"status", "result", "endTime"})
      OBVIOUS
    <3> QED
      BY <1>3, <3>1, <3>2 DEF Finish
  <2> QED
    BY <1>3, <2>1, <2>2 DEF Finish, Goto, published, controlVars, callVars
<1> QED
  BY <1>1, <1>2, <1>3 DEF WorkerStep

LEMMA CallbackTyped ==
    ASSUME TypeOK, NEW t \in Threads, Publish(t) \/ CallbackReturns(t)
    PROVE  TypeOK'
<1> USE DEF TypeOK
<1>1. CASE Publish(t)
  <2>1. job[t] \in SomeRun
    BY DEF PoolTypeOK, SomeRun
  <2>2. status' \in Statuses /\ result' \in SomeRun /\ endTime' \in SomeRun
    BY <1>1, <2>1 DEF Publish, FinalStatus, Statuses
  <2>3. todo' \in [Threads -> Seq({"status", "result", "endTime"})]
    BY <1>1 DEF Publish
  <2> QED
    BY <1>1, <2>2, <2>3 DEF Publish, PoolTypeOK, poolVars, controlVars, callVars, runVars
<1>2. CASE CallbackReturns(t)
  <2>1. PoolTypeOK'
    BY <1>2 DEF CallbackReturns, Release, PoolTypeOK
  <2>2. phase' \in [Workers -> {"idle", "loop", "sending", "finish", "publish"}]
    BY <1>2 DEF CallbackReturns
  <2> QED
    BY <1>2, <2>1, <2>2 DEF CallbackReturns, published, controlVars, callVars
<1> QED
  BY <1>1, <1>2

LEMMA TypePreserved == IInv /\ [Next]_vars => TypeOK'
<1> SUFFICES ASSUME IInv, [Next]_vars PROVE TypeOK'
  OBVIOUS
<1> USE DEF IInv
<1>1. CASE DropCancelled
  <2>1. PoolTypeOK'
    BY <1>1 DEF DropCancelled, Drop, TypeOK, PoolTypeOK
  <2> QED
    BY <1>1, <2>1 DEF DropCancelled, TypeOK, published, controlVars, callVars, runVars
<1>2. CASE UNCHANGED vars
  BY <1>2 DEF vars, TypeOK, PoolTypeOK, poolVars, published, controlVars, callVars, runVars
<1> QED
  BY <1>1, <1>2, NextCases, CallerOnlyTyped, StartTyped, CancelTyped, WorkerTyped, CallbackTyped

-----------------------------------------------------------------------------
(* Where the runs are.                                                     *)

\* Steps that take no run from a worker and make no future pending, running or none.
LEMMA PlacesKept ==
    ASSUME RunsPlaced,
           UNCHANGED <<started, job, phase>>,
           \A r \in Runs : future[r] \in {"none", "running"} => future'[r] = future[r]
    PROVE  RunsPlaced'
BY DEF RunsPlaced

LEMMA PlacesPreserved == IInv /\ [Next]_vars => RunsPlaced'
<1> SUFFICES ASSUME IInv, [Next]_vars PROVE RunsPlaced'
  OBVIOUS
<1> USE DEF IInv
<1>a. UNCHANGED <<started, job, phase, future>> => RunsPlaced'
  BY DEF RunsPlaced
<1>1. CASE CallerOnly
  BY <1>1, <1>a, CallerOnlyFrame
<1>2. CASE StartSubmit
  <2>1. CASE Submit(started + 1) /\ started' = started + 1
    <3>1. started \in Nat /\ started + 1 \in Runs /\ future[started + 1] = "none"
      BY <1>2, NumbersAreNat
         DEF StartSubmit, CallerGoes, CallerAt, CallerKnows, RunsPlaced, TypeOK, Runs
    <3>2. UNCHANGED <<job, phase>>
      BY <1>2, <2>1 DEF StartSubmit, Submit, runVars
    <3>3. \A r \in Runs : r # started + 1 => future'[r] = future[r]
      BY <2>1 DEF Submit, TypeOK, PoolTypeOK
    <3>4. \A r \in Runs : r > started + 1 => r > started /\ r # started + 1
      BY <3>1 DEF Runs
    <3> QED
      BY <2>1, <3>1, <3>2, <3>3, <3>4 DEF RunsPlaced
  <2>2. CASE UNCHANGED <<poolVars, started>>
    BY <1>2, <2>2, <1>a DEF StartSubmit, poolVars, runVars
  <2> QED
    BY <1>2, <2>1, <2>2 DEF StartSubmit
<1>3. CASE StartCallback
  <2>1. UNCHANGED <<started, future, phase>> /\ \A w \in Workers : job'[w] = job[w]
    BY <1>3, NumbersAreNat
       DEF StartCallback, AddCallback, InvokeCallbackNow, runVars, TypeOK, PoolTypeOK, Threads
  <2> QED
    BY <2>1 DEF RunsPlaced
<1>4. CASE StopCancel \/ ShutdownDrain
  <2>1. UNCHANGED <<started, phase>> /\ \A w \in Workers : job'[w] = job[w]
    BY <1>4, CancelCases, CancelIsOfOne, NumbersAreNat DEF TypeOK, PoolTypeOK, Threads
  <2>2. \A r \in Runs : future[r] \in {"none", "running"} => future'[r] = future[r]
    BY <1>4, CancelCases, CancelIsOfOne DEF TypeOK, PoolTypeOK
  <2> QED
    BY <2>1, <2>2 DEF RunsPlaced
<1>5. ASSUME NEW w \in Workers, TakeRun(w) PROVE RunsPlaced'
  <2> DEFINE r == Head(queue)
  <2>1. r \in Runs /\ future[r] = "pending" /\ job'[w] = r /\ future'[r] = "running"
    BY <1>5 DEF TakeRun, Take, TypeOK, PoolTypeOK, Threads
  <2>2. /\ \A s \in Runs : s # r => future'[s] = future[s]
        /\ \A v \in Workers : v # w => job'[v] = job[v] /\ phase'[v] = phase[v]
        /\ started' = started
    BY <1>5 DEF TakeRun, Take, Goto, TypeOK, PoolTypeOK, Threads, callVars
  <2>3. r <= started
    BY <2>1 DEF RunsPlaced, Runs, TypeOK
  <2> QED
    BY <2>1, <2>2, <2>3 DEF RunsPlaced
<1>6. ASSUME NEW w \in Workers, Send(w) \/ Answered(w) \/ PromptFails(w) \/ LoopEnds(w)
      PROVE  RunsPlaced'
  <2>1. UNCHANGED <<started, job, future>>
    BY <1>6 DEF Send, Answered, PromptFails, LoopEnds, RunUnchanged, poolVars, callVars
  <2>2. phase[w] \in Busy /\ \A v \in Workers : v # w => phase'[v] = phase[v]
    BY <1>6 DEF Send, Answered, PromptFails, LoopEnds, Goto, Busy, TypeOK
  <2> QED
    BY <2>1, <2>2 DEF RunsPlaced
<1>7. ASSUME NEW w \in Workers, Finish(w) PROVE RunsPlaced'
  <2>1. phase[w] \in Busy /\ phase'[w] = "publish" /\ UNCHANGED <<started, job>>
    BY <1>7 DEF Finish, FinishFuture, Goto, Busy, TypeOK, callVars
  <2>2. \A v \in Workers : v # w => phase'[v] = phase[v]
    BY <1>7 DEF Finish, Goto, TypeOK
  <2>3. \A r \in Runs : r # job[w] => future'[r] = future[r]
    BY <1>7 DEF Finish, FinishFuture, TypeOK, PoolTypeOK
  <2>4. job[w] \in Runs /\ job[w] <= started
    BY <2>1 DEF RunsPlaced, Runs, TypeOK
  <2>5. "publish" \notin Busy
    BY DEF Busy
  <2> QED
    BY <2>1, <2>2, <2>3, <2>4, <2>5 DEF RunsPlaced
<1>8. ASSUME NEW t \in Threads, Publish(t) PROVE RunsPlaced'
  BY <1>8, <1>a DEF Publish, poolVars, callVars, runVars
<1>9. ASSUME NEW t \in Threads, CallbackReturns(t) PROVE RunsPlaced'
  <2>1. UNCHANGED <<started, future>>
    BY <1>9 DEF CallbackReturns, Release, callVars
  <2>2. \A v \in Workers : phase'[v] \in Busy => v # t /\ phase'[v] = phase[v] /\ job'[v] = job[v]
    BY <1>9 DEF CallbackReturns, Release, Busy, TypeOK, PoolTypeOK, Threads
  <2> QED
    BY <2>1, <2>2 DEF RunsPlaced
<1>10. CASE DropCancelled \/ UNCHANGED vars
  BY <1>10, <1>a DEF DropCancelled, Drop, vars, poolVars, callVars, runVars
<1> QED
  BY <1>1, <1>2, <1>3, <1>4, <1>5, <1>6, <1>7, <1>8, <1>9, <1>10, NextCases DEF WorkerStep

-----------------------------------------------------------------------------
(* What the loop has done.                                                 *)

LEMMA LoopPreserved == IInv /\ [Next]_vars => LoopBounds'
<1> SUFFICES ASSUME IInv, [Next]_vars PROVE LoopBounds'
  OBVIOUS
<1> USE DEF IInv
<1>a. ASSUME UNCHANGED <<phase, sent, outcome>>,
             \A w \in Workers : phase[w] \in Busy => job'[w] = job[w],
             \A r \in Runs : FutureDone(r)' => FutureDone(r)
      PROVE  LoopBounds'
  BY <1>a DEF LoopBounds, Busy
<1>1. CASE CallerOnly
  BY <1>1, <1>a, CallerOnlyFrame DEF FutureDone
<1>2. CASE StartSubmit
  <2>1. UNCHANGED <<phase, sent, outcome, job>>
    BY <1>2 DEF StartSubmit, Submit, runVars, poolVars
  <2>2. \A r \in Runs : FutureDone(r)' => FutureDone(r)
    BY <1>2 DEF StartSubmit, Submit, FutureDone, TypeOK, PoolTypeOK, poolVars
  <2> QED
    BY <1>a, <2>1, <2>2
<1>3. CASE StartCallback
  <2>1. UNCHANGED <<phase, sent, outcome, future>> /\ \A w \in Workers : job'[w] = job[w]
    BY <1>3, NumbersAreNat
       DEF StartCallback, AddCallback, InvokeCallbackNow, runVars, TypeOK, PoolTypeOK, Threads
  <2> QED
    BY <1>a, <2>1 DEF FutureDone
<1>4. CASE StopCancel \/ ShutdownDrain
  <2>1. CASE UNCHANGED <<future, callback, job, outcome, todo>>
    BY <1>4, <2>1, <1>a, CancelCases DEF FutureDone
  <2>2. ASSUME NEW r \in Runs, CancelQueued(r) PROVE LoopBounds'
    <3>1. /\ \A s \in Runs : s # r => future'[s] = future[s] /\ outcome'[s] = outcome[s]
          /\ outcome'[r] = "dequeued" /\ future[r] = "pending"
          /\ \A w \in Workers : job'[w] = job[w]
      BY <2>2, CancelIsOfOne, NumbersAreNat DEF TypeOK, PoolTypeOK, Threads
    <3>2. \A w \in Workers : phase[w] \in Busy => job[w] \in Runs \ {r}
      BY <3>1 DEF RunsPlaced
    <3>3. UNCHANGED <<phase, sent>>
      BY <1>4, CancelCases
    <3> QED
      BY <3>1, <3>2, <3>3 DEF LoopBounds, Busy, FutureDone
  <2> QED
    BY <1>4, <2>1, <2>2, CancelCases
<1>5. ASSUME NEW w \in Workers, TakeRun(w) PROVE LoopBounds'
  <2>1. /\ UNCHANGED <<sent, outcome>> /\ phase'[w] = "loop"
        /\ \A v \in Workers : v # w => job'[v] = job[v] /\ phase'[v] = phase[v]
    BY <1>5 DEF TakeRun, Take, Goto, TypeOK, PoolTypeOK, Threads
  <2>2. \A r \in Runs : FutureDone(r)' => FutureDone(r)
    BY <1>5 DEF TakeRun, Take, FutureDone, TypeOK, PoolTypeOK
  <2> QED
    BY <2>1, <2>2 DEF LoopBounds
<1>6. ASSUME NEW w \in Workers, Send(w) \/ Answered(w) \/ PromptFails(w) \/ LoopEnds(w)
      PROVE  LoopBounds'
  <2>1. UNCHANGED <<future, job>>
    BY <1>6 DEF Send, Answered, PromptFails, LoopEnds, RunUnchanged, poolVars
  <2>2. job[w] \in Runs /\ \A v \in Workers : v # w /\ phase[v] \in Busy => job[v] # job[w]
    BY <1>6 DEF Send, Answered, PromptFails, LoopEnds, Busy, RunsPlaced
  <2>3. \A v \in Workers : v # w => phase'[v] = phase[v]
    BY <1>6 DEF Send, Answered, PromptFails, LoopEnds, Goto, TypeOK
  <2>4. \A r \in Runs : r # job[w] => sent'[r] = sent[r] /\ outcome'[r] = outcome[r]
    BY <1>6 DEF Send, Answered, PromptFails, LoopEnds, TypeOK
  <2>5. /\ phase'[w] = "sending" => sent'[job[w]] < Count
        /\ phase'[w] = "finish" => outcome'[job[w]] \in {"value", "failed", "unsent"}
    BY <1>6, <2>2 DEF Send, Answered, PromptFails, LoopEnds, Goto, TypeOK
  <2>6. \A r \in Runs : outcome[r] # "none" => outcome'[r] # "none"
    BY <1>6 DEF Send, Answered, PromptFails, LoopEnds, TypeOK
  <2>7. \A r \in Runs : FutureDone(r)' => FutureDone(r)
    BY <2>1 DEF FutureDone
  <2>8. \A v \in Workers : v # w /\ phase[v] \in Busy
            => sent'[job[v]] = sent[job[v]] /\ outcome'[job[v]] = outcome[job[v]]
    BY <2>2, <2>4 DEF RunsPlaced
  <2> QED
    BY <2>1, <2>3, <2>5, <2>6, <2>7, <2>8 DEF LoopBounds, Busy
<1>7. ASSUME NEW w \in Workers, Finish(w) PROVE LoopBounds'
  <2>1. /\ UNCHANGED <<sent, outcome, job>> /\ phase'[w] = "publish"
        /\ \A v \in Workers : v # w => phase'[v] = phase[v]
    BY <1>7 DEF Finish, FinishFuture, Goto, TypeOK
  <2>2. \A r \in Runs : FutureDone(r)' => FutureDone(r) \/ r = job[w]
    BY <1>7 DEF Finish, FinishFuture, FutureDone, TypeOK, PoolTypeOK
  <2>3. outcome[job[w]] # "none"
    BY <1>7 DEF Finish, LoopBounds
  <2> QED
    BY <2>1, <2>2, <2>3 DEF LoopBounds
<1>8. ASSUME NEW t \in Threads, Publish(t) PROVE LoopBounds'
  BY <1>8, <1>a DEF Publish, poolVars, callVars, runVars, FutureDone
<1>9. ASSUME NEW t \in Threads, CallbackReturns(t) PROVE LoopBounds'
  <2>1. UNCHANGED <<future, sent, outcome>>
    BY <1>9 DEF CallbackReturns, Release
  <2>2. \A v \in Workers : phase'[v] \in Busy => phase'[v] = phase[v] /\ job'[v] = job[v]
    BY <1>9 DEF CallbackReturns, Release, Busy, TypeOK, PoolTypeOK, Threads
  <2> QED
    BY <2>1, <2>2 DEF LoopBounds, Busy, FutureDone
<1>10. CASE DropCancelled \/ UNCHANGED vars
  BY <1>10, <1>a DEF DropCancelled, Drop, vars, poolVars, runVars, FutureDone
<1> QED
  BY <1>1, <1>2, <1>3, <1>4, <1>5, <1>6, <1>7, <1>8, <1>9, <1>10, NextCases DEF WorkerStep

-----------------------------------------------------------------------------
(* The caller and the event.                                               *)

LEMMA CallerPreserved == IInv /\ [Next]_vars => CallerKnows'
<1> SUFFICES ASSUME IInv, [Next]_vars PROVE CallerKnows'
  OBVIOUS
<1> USE DEF IInv
<1>a. UNCHANGED <<callerPc, started, stopEvent, current>> => CallerKnows'
  BY DEF CallerKnows
<1>1. CASE CallerOnly
  BY <1>1 DEF CallerOnly, StartCheck, StartRunning, StartResult, StartClear, StopEvent, StopRaises,
              StopStatus, StopResult, ShutdownBegin, ShutdownEnd, AwaitDone, GetReads,
              CallerGoes, CallerAt, CallerKnows, poolVars, published, controlVars, runVars
<1>2. CASE StartSubmit
  <2>1. started + 1 \in Runs
    BY <1>2, NumbersAreNat DEF StartSubmit, CallerGoes, CallerAt, CallerKnows, TypeOK, Runs
  <2> QED
    BY <1>2, <2>1 DEF StartSubmit, CallerGoes, CallerKnows
<1>3. CASE StartCallback
  BY <1>3 DEF StartCallback, CallerGoes, CallerKnows
<1>4. CASE StopCancel \/ ShutdownDrain
  BY <1>4, CancelCases DEF CallerKnows
<1>5. ASSUME NEW w \in Workers, WorkerStep(w) PROVE CallerKnows'
  BY <1>5, <1>a DEF WorkerStep, TakeRun, Send, Answered, PromptFails, LoopEnds, Finish,
                    RunUnchanged, controlVars, callVars
<1>6. ASSUME NEW t \in Threads, Publish(t) \/ CallbackReturns(t) PROVE CallerKnows'
  BY <1>6, <1>a DEF Publish, CallbackReturns, controlVars, callVars
<1>7. CASE DropCancelled \/ UNCHANGED vars
  BY <1>7, <1>a DEF DropCancelled, vars, controlVars, callVars
<1> QED
  BY <1>1, <1>2, <1>3, <1>4, <1>5, <1>6, <1>7, NextCases

\* A run enters the pool with the event cleared; stop() sets it and takes down who is there.
LEMMA EventPreserved == IInv /\ [Next]_vars => EventIsForStopped'
<1> SUFFICES ASSUME IInv, [Next]_vars PROVE EventIsForStopped'
  OBVIOUS
<1> USE DEF IInv
<1>a. ASSUME stopEvent' => stopEvent, stopped \subseteq stopped',
             \A r \in Runs : Live(r)' => Live(r)
      PROVE  EventIsForStopped'
  BY <1>a DEF EventIsForStopped
<1>1. CASE CallerOnly
  <2>1. CASE StopEvent
    <3>1. \A r \in Runs : Live(r)' => Live(r)
      BY <1>1, CallerOnlyFrame DEF Live
    <3>2. stopped' = stopped \union {r \in Runs : Unsettled(r)}
      BY <2>1 DEF StopEvent
    <3> QED
      BY <3>1, <3>2 DEF EventIsForStopped, Unsettled
  <2>2. CASE ~StopEvent
    <3>1. (stopEvent' => stopEvent) /\ stopped' = stopped
      BY <1>1, <2>2
         DEF CallerOnly, StartCheck, StartRunning, StartResult, StartClear, StopRaises,
             StopStatus, StopResult, ShutdownBegin, ShutdownEnd, AwaitDone, GetReads, controlVars
    <3> QED
      BY <1>1, <1>a, <3>1, CallerOnlyFrame DEF Live
  <2> QED
    BY <2>1, <2>2
<1>2. CASE StartSubmit
  <2>1. stopEvent' = FALSE
    BY <1>2 DEF StartSubmit, CallerGoes, CallerAt, CallerKnows, TypeOK
  <2> QED
    BY <2>1 DEF EventIsForStopped
<1>3. CASE StartCallback
  BY <1>3, <1>a DEF StartCallback, AddCallback, InvokeCallbackNow, controlVars, Live
<1>4. CASE StopCancel \/ ShutdownDrain
  <2>1. \A r \in Runs : Live(r)' => Live(r)
    BY <1>4, CancelCases, CancelIsOfOne DEF Live, TypeOK, PoolTypeOK
  <2> QED
    BY <1>4, <1>a, <2>1, CancelCases
<1>5. ASSUME NEW w \in Workers, WorkerStep(w) PROVE EventIsForStopped'
  <2>1. UNCHANGED <<stopEvent, stopped>>
    BY <1>5 DEF WorkerStep, TakeRun, Send, Answered, PromptFails, LoopEnds, Finish,
                RunUnchanged, controlVars, callVars
  <2>2. \A r \in Runs : Live(r)' => Live(r)
    BY <1>5 DEF WorkerStep, TakeRun, Take, Send, Answered, PromptFails, LoopEnds, Finish, FinishFuture,
                RunUnchanged, poolVars, Live, TypeOK, PoolTypeOK
  <2> QED
    BY <1>a, <2>1, <2>2
<1>6. ASSUME NEW t \in Threads, Publish(t) \/ CallbackReturns(t) PROVE EventIsForStopped'
  BY <1>6, <1>a DEF Publish, CallbackReturns, Release, poolVars, controlVars, callVars, Live
<1>7. CASE DropCancelled \/ UNCHANGED vars
  BY <1>7, <1>a DEF DropCancelled, Drop, vars, poolVars, controlVars, callVars, Live
<1> QED
  BY <1>1, <1>2, <1>3, <1>4, <1>5, <1>6, <1>7, NextCases

-----------------------------------------------------------------------------
(* What a run that fell short tells.                                       *)

LEMMA StopsPreserved == IInv /\ [Next]_vars => StopsAreOwn'
<1> SUFFICES ASSUME IInv, [Next]_vars PROVE StopsAreOwn'
  OBVIOUS
<1> USE DEF IInv
<1>a. ASSUME UNCHANGED <<sent, outcome>>, stopped \subseteq stopped' PROVE StopsAreOwn'
  BY <1>a DEF StopsAreOwn
<1>1. CASE CallerOnly
  <2>1. stopped \subseteq stopped'
    BY <1>1 DEF CallerOnly, StartCheck, StartRunning, StartResult, StartClear, StopEvent, StopRaises,
                StopStatus, StopResult, ShutdownBegin, ShutdownEnd, AwaitDone, GetReads
  <2> QED
    BY <1>1, <1>a, <2>1, CallerOnlyFrame
<1>2. CASE StartSubmit \/ StartCallback
  BY <1>2, <1>a DEF StartSubmit, StartCallback, runVars
<1>3. CASE StopCancel \/ ShutdownDrain
  <2>1. UNCHANGED <<sent, stopped>>
    BY <1>3, CancelCases
  <2>2. \A r \in Runs : outcome'[r] = outcome[r] \/ outcome'[r] = "dequeued"
    BY <1>3, CancelCases, CancelIsOfOne DEF TypeOK
  <2> QED
    BY <2>1, <2>2 DEF StopsAreOwn
<1>4. ASSUME NEW w \in Workers, TakeRun(w) \/ Send(w) \/ Finish(w) PROVE StopsAreOwn'
  BY <1>4, <1>a DEF TakeRun, Send, Finish, RunUnchanged, callVars
<1>5. ASSUME NEW w \in Workers, Answered(w) PROVE StopsAreOwn'
  <2>1. UNCHANGED <<outcome, stopped>>
    BY <1>5 DEF Answered, RunUnchanged, callVars
  <2>2. \A r \in Runs : sent'[r] \in Nat /\ sent'[r] >= sent[r]
    BY <1>5, NumbersAreNat DEF Answered, TypeOK
  <2> QED
    BY <2>1, <2>2, NumbersAreNat DEF StopsAreOwn, TypeOK
<1>6. ASSUME NEW w \in Workers, PromptFails(w) PROVE StopsAreOwn'
  <2>1. UNCHANGED <<sent, stopped>>
    BY <1>6 DEF PromptFails, RunUnchanged, callVars
  <2>2. \A r \in Runs : outcome'[r] = outcome[r] \/ outcome'[r] = "failed"
    BY <1>6 DEF PromptFails, TypeOK
  <2> QED
    BY <2>1, <2>2 DEF StopsAreOwn
<1>7. ASSUME NEW w \in Workers, LoopEnds(w) PROVE StopsAreOwn'
  <2> DEFINE r == job[w]
  <2>1. UNCHANGED <<sent, stopped>>
    BY <1>7 DEF LoopEnds, RunUnchanged, callVars
  <2>2. r \in Runs /\ Live(r)
    BY <1>7 DEF LoopEnds, RunsPlaced, Busy, Live
  <2>3. sent[r] = Count \/ r \in stopped
    BY <1>7, <2>2 DEF LoopEnds, EventIsForStopped
  <2>4. /\ outcome'[r] = IF sent[r] = 0 THEN "unsent" ELSE "value"
        /\ \A q \in Runs : q # r => outcome'[q] = outcome[q]
    BY <1>7, <2>2 DEF LoopEnds, TypeOK
  <2>5. sent[r] \in Nat
    BY <2>2, NumbersAreNat DEF TypeOK
  <2>6. \A q \in Runs \ {r} : /\ outcome'[q] = "value" /\ sent'[q] < Count => q \in stopped'
                              /\ outcome'[q] = "unsent" => q \in stopped'
                              /\ outcome'[q] = "value" => sent'[q] > 0
    BY <2>1, <2>4 DEF StopsAreOwn
  <2> HIDE DEF r
  <2>7. /\ outcome'[r] = "value" /\ sent'[r] < Count => r \in stopped'
        /\ outcome'[r] = "unsent" => r \in stopped'
        /\ outcome'[r] = "value" => sent'[r] > 0
    BY <2>1, <2>3, <2>4, <2>5, NumbersAreNat
  <2> QED
    BY <2>6, <2>7 DEF StopsAreOwn
<1>8. ASSUME NEW t \in Threads, Publish(t) \/ CallbackReturns(t) PROVE StopsAreOwn'
  BY <1>8, <1>a DEF Publish, CallbackReturns, callVars, runVars
<1>9. CASE DropCancelled \/ UNCHANGED vars
  BY <1>9, <1>a DEF DropCancelled, vars, callVars, runVars
<1> QED
  BY <1>1, <1>2, <1>3, <1>4, <1>5, <1>6, <1>7, <1>8, <1>9, NextCases DEF WorkerStep

-----------------------------------------------------------------------------
LEMMA IInvPreserved == IInv /\ [Next]_vars => IInv'
BY TypePreserved, PlacesPreserved, LoopPreserved, CallerPreserved, EventPreserved, StopsPreserved
   DEF IInv

\* The inductive invariant holds throughout.
THEOREM IInvAlways == Spec => []IInv
BY InitHolds, IInvPreserved, PTL DEF Spec

\* Every reachable state of a prompt workload is of its type, for any pool and any bounds.
THEOREM TypeCorrect == Spec => []TypeOK
<1>1. IInv => TypeOK
  BY DEF IInv
<1> QED
  BY <1>1, IInvAlways, PTL

\* A run that falls short of its prompts without a failed one is a run stop() was called on.
THEOREM StopsAreOwnAlways == Spec => []StopsAreOwn
<1>1. IInv => StopsAreOwn
  BY DEF IInv
<1> QED
  BY <1>1, IInvAlways, PTL

-----------------------------------------------------------------------------
(* What the attributes tell.  No lock guards them, so the invariant says   *)
(* who may still write what: which writes each callback has still to make, *)
(* and that with one worker no callback of an earlier run outlives the     *)
(* execution of a later one.                                               *)

\* Workload's default pool has one worker.
Single == \A v, w \in Workers : v = w

\* A running run is in the hands of a worker; a worker that has none is idle.
RunningHeld ==
    /\ \A r \in Runs : future[r] = "running" => \E w \in Workers : phase[w] \in Busy /\ job[w] = r
    /\ \A w \in Workers : phase[w] = "idle" <=> job[w] = NoRun

\* The queue holds the pending runs in the order of their submission, and the one worker has
\* finished with a run before it takes a later one.
OrderInv ==
    /\ \A i, j \in DOMAIN queue : i < j => queue[i] < queue[j]
    /\ \A i \in DOMAIN queue : queue[i] <= started
    /\ \A r \in Runs : future[r] = "pending" => \E i \in DOMAIN queue : queue[i] = r
    /\ \A r \in Runs : r <= started => future[r] # "none"
    /\ \A q, r \in Runs : q < r /\ Live(q) => future[r] \notin {"running", "finished"}

\* A callback is added once, and is invoked when its future is done: only a run just submitted
\* may be without one.
FutureInv ==
    \A r \in Runs :
        /\ FutureDone(r) => callback[r] # "added"
        /\ callback[r] = "invoked" => FutureDone(r)
        /\ r > started => callback[r] = "unset"
        /\ r <= started /\ callback[r] = "unset" => callerPc = "start_callback" /\ r = started
        /\ future[r] = "cancelled" <=> outcome[r] = "dequeued"

\* A thread has writes to make only inside a callback that was invoked; each callback is one
\* thread's, and writes the status last, of a run that was executed.
TodoInv ==
    /\ \A t \in Threads : todo[t] # << >> => job[t] \in Runs /\ callback[job[t]] = "invoked"
    /\ \A w \in Workers : todo[w] # << >> => phase[w] = "publish"
    /\ job[Caller] # NoRun => callback[job[Caller]] = "invoked"
    /\ \A t, u \in Threads : todo[t] # << >> /\ todo[u] # << >> /\ job[t] = job[u] => t = u
    /\ \A t \in Threads : \A i \in DOMAIN todo[t] :
          todo[t][i] = "status" => i = Len(todo[t]) /\ outcome[job[t]] # "dequeued"

\* What the caller knows where it stands.
CallInv ==
    /\ current \in {NoRun, started}
    /\ callerPc = "start_callback" => current = started /\ callback[started] = "unset"
    /\ startTime \in {started, started + 1}
    /\ callerPc \in {"start_result", "start_clear", "start_submit"} => startTime = started + 1
    /\ callerPc = "start_running" => status # "RUNNING"
    /\ callerPc \in {"stop_cancel", "stop_status", "stop_result"} => stops > 0
    /\ callerPc \in {"get_end", "get_result", "get_status", "got"} => status # "RUNNING" /\ started > 0
    /\ callerPc = "shutdown" => ~accepting
    /\ stops = 0 => stopped = {}

Attributes == {"status", "result", "endTime"}

\* Thread t has still to assign attribute a.
InTodo(a, t) == \E i \in DOMAIN todo[t] : todo[t][i] = a

\* A stop() erased the latest run's result, and either it was done to that run or the status
\* says STOPPED and nobody is left to change it.
Erased ==
    /\ result = NoRun
    /\ started \in stopped \/ (status = "STOPPED" /\ ~Unsettled(started))

\* Attribute a says what the latest run left; stop() may have overwritten the status.
Written(a) ==
    CASE a = "status" -> status \in {FinalStatus(outcome[started]), "STOPPED"}
      [] a = "result" -> outcome[started] = "value" => result = started \/ Erased
      [] a = "endTime" -> endTime = started

\* The latest run is over, its callback invoked, and no start() has come since.
LatestTold ==
    /\ started > 0 /\ startTime = started
    /\ future[started] = "finished" /\ callback[started] = "invoked"

\* The caller runs callbacks of the latest run only: a shutdown after a stop() may cancel others.
LatestInv ==
    accepting \/ stops = 0 =>
        /\ job[Caller] \in {NoRun, started}
        /\ started > 0 /\ future[started] = "finished"
              => \A t \in Threads : job[t] # started => todo[t] = << >>
        /\ LatestTold => \A a \in Attributes :
                            Written(a) \/ \E t \in Threads : job[t] = started /\ InTodo(a, t)

\* A stop() under way has counted the latest run as stopped, unless the run is over.
StopInv ==
    started > 0 =>
        /\ callerPc \in {"stop_cancel", "stop_status", "stop_result"}
              => started \in stopped \/ ~Unsettled(started)
        /\ (accepting \/ stops = 0) /\ LatestTold /\ callerPc = "stop_result"
              => started \in stopped \/ status = "STOPPED"

\* Run r has said how it ended.
StatusTold(r) == callback[r] = "invoked" /\ \A t \in Threads : job[t] = r => ~InTodo("status", t)

\* Without a stop(), a start() waits for the status of the run before.
ToldInv ==
    stops = 0 =>
        /\ \A r \in Runs : \/ r < started
                           \/ r = started /\ (status # "RUNNING" \/ startTime > started)
                           => StatusTold(r)
        /\ startTime > started => status = "RUNNING"
        /\ startTime > 0 => status # "STOPPED"
        /\ status \in {"COMPLETED", "ERROR"} =>
              /\ started > 0 /\ outcome[started] \in {"value", "failed", "unsent"}
              /\ status = FinalStatus(outcome[started])
              /\ \A t \in Threads : todo[t] = << >>

\* What get_result has read of a run that ended stands until the next start().
SnapInv ==
    stops = 0 =>
        /\ status \in {"COMPLETED", "ERROR"} /\ callerPc \in {"get_result", "get_status", "got"}
              => snapshot.start = started /\ snapshot.end = started
        /\ status = "COMPLETED" /\ callerPc \in {"get_status", "got"} => snapshot.result = started
        /\ callerPc = "got" => snapshot.status = status

LatestIInv ==
    /\ IInv /\ RunningHeld /\ OrderInv /\ FutureInv /\ TodoInv
    /\ CallInv /\ LatestInv /\ StopInv /\ ToldInv /\ SnapInv

-----------------------------------------------------------------------------
(* The steps once more, by what they leave alone.                          *)

InsideRun(w) == Send(w) \/ Answered(w) \/ PromptFails(w) \/ LoopEnds(w)

LEMMA WorkerStepCases ==
    ASSUME NEW w, WorkerStep(w)
    PROVE  TakeRun(w) \/ InsideRun(w) \/ Finish(w)
BY DEF WorkerStep, InsideRun

LEMMA InsideRunFrame ==
    ASSUME NEW w, InsideRun(w)
    PROVE  /\ UNCHANGED <<future, callback, queue, job, accepting, todo>>
           /\ UNCHANGED <<status, result, endTime, stopEvent, current, startTime>>
           /\ UNCHANGED <<callerPc, started, stops, stopped, snapshot>>
BY DEF InsideRun, Send, Answered, PromptFails, LoopEnds, RunUnchanged, poolVars, published,
       controlVars, callVars

\* A step of the loop is of a running run, and may settle the outcome of that run only.
LEMMA InsideRunLocal ==
    ASSUME TypeOK, RunsPlaced, NEW w \in Workers, InsideRun(w)
    PROVE  /\ job[w] \in Runs /\ future[job[w]] = "running"
           /\ phase[w] \in Busy /\ phase'[w] \in Busy
           /\ \A v \in Workers : v # w => phase'[v] = phase[v]
           /\ \A r \in Runs : r # job[w] => outcome'[r] = outcome[r]
           /\ outcome'[job[w]] = outcome[job[w]] \/ outcome'[job[w]] \in {"value", "failed", "unsent"}
<1>1. phase[w] \in Busy
  BY DEF InsideRun, Send, Answered, PromptFails, LoopEnds, Busy
<1>2. job[w] \in Runs /\ future[job[w]] = "running"
  BY <1>1 DEF RunsPlaced
<1>3. phase'[w] \in Busy /\ \A v \in Workers : v # w => phase'[v] = phase[v]
  BY DEF InsideRun, Send, Answered, PromptFails, LoopEnds, Goto, Busy, TypeOK
<1>4. \A r \in Runs : r # job[w] => outcome'[r] = outcome[r]
  BY DEF InsideRun, Send, Answered, PromptFails, LoopEnds, TypeOK
<1>5. outcome'[job[w]] = outcome[job[w]] \/ outcome'[job[w]] \in {"value", "failed", "unsent"}
  BY <1>2 DEF InsideRun, Send, Answered, PromptFails, LoopEnds, TypeOK
<1> QED
  BY <1>1, <1>2, <1>3, <1>4, <1>5

LEMMA CancelEffect ==
    ASSUME TypeOK, NEW q \in Runs, CancelQueued(q)
    PROVE  /\ future[q] = "pending" /\ future'[q] = "cancelled"
           /\ callback'[q] = "invoked" /\ outcome'[q] = "dequeued"
           /\ \A r \in Runs : r # q => /\ future'[r] = future[r] /\ callback'[r] = callback[r]
                                       /\ outcome'[r] = outcome[r]
           /\ job'[Caller] = q /\ todo'[Caller] = CallbackWrites("dequeued")
           /\ \A t \in Threads : t # Caller => job'[t] = job[t] /\ todo'[t] = todo[t]
BY CancelIsOfOne DEF TypeOK, PoolTypeOK, Threads

LEMMA CancelCaller ==
    ASSUME StopCancel \/ ShutdownDrain
    PROVE  /\ job[Caller] = NoRun /\ callerPc \in {"stop_cancel", "shutdown"}
           /\ StopCancel => callerPc = "stop_cancel" /\ callerPc' = "stop_status" /\ queue' = queue
           /\ ShutdownDrain => callerPc' = callerPc /\ callerPc = "shutdown"
BY DEF StopCancel, ShutdownDrain, CallerGoes, CallerAt, callVars

LEMMA TakeEffect ==
    ASSUME TypeOK, NEW w \in Workers, TakeRun(w)
    PROVE  /\ job[w] = NoRun /\ queue # << >> /\ queue' = Tail(queue)
           /\ Head(queue) \in Runs
           /\ future[Head(queue)] = "pending" /\ future'[Head(queue)] = "running"
           /\ \A r \in Runs : r # Head(queue) => future'[r] = future[r]
           /\ job'[w] = Head(queue) /\ phase'[w] = "loop"
           /\ \A t \in Threads : t # w => job'[t] = job[t]
           /\ \A v \in Workers : v # w => phase'[v] = phase[v]
           /\ UNCHANGED <<callback, accepting, outcome, todo>>
           /\ UNCHANGED <<status, result, endTime, stopEvent, current, startTime>>
           /\ UNCHANGED <<callerPc, started, stops, stopped, snapshot>>
<1>1. Head(queue) \in Runs
  BY DEF TakeRun, Take, TypeOK, PoolTypeOK
<1> QED
  BY <1>1 DEF TakeRun, Take, Goto, TypeOK, PoolTypeOK, Threads, published, controlVars, callVars

LEMMA FinishEffect ==
    ASSUME TypeOK, RunsPlaced, LoopBounds, NEW w \in Workers, Finish(w)
    PROVE  /\ job[w] \in Runs /\ phase[w] = "finish" /\ phase'[w] = "publish"
           /\ future[job[w]] = "running" /\ future'[job[w]] = "finished"
           /\ outcome[job[w]] \in {"value", "failed", "unsent"}
           /\ \A r \in Runs : r # job[w] => future'[r] = future[r] /\ callback'[r] = callback[r]
           /\ callback[job[w]] = "added" => /\ callback'[job[w]] = "invoked"
                                            /\ todo'[w] = CallbackWrites(outcome[job[w]])
           /\ callback[job[w]] # "added" => callback'[job[w]] = callback[job[w]] /\ todo'[w] = << >>
           /\ \A t \in Threads : t # w => todo'[t] = todo[t]
           /\ \A v \in Workers : v # w => phase'[v] = phase[v]
           /\ UNCHANGED <<queue, job, accepting, outcome>>
           /\ UNCHANGED <<status, result, endTime, stopEvent, current, startTime>>
           /\ UNCHANGED <<callerPc, started, stops, stopped, snapshot>>
<1>1. job[w] \in Runs /\ future[job[w]] = "running" /\ outcome[job[w]] \in {"value", "failed", "unsent"}
  BY DEF Finish, RunsPlaced, LoopBounds, Busy
<1>2. w \in Threads
  BY DEF Threads
<1> QED
  BY <1>1, <1>2 DEF Finish, FinishFuture, Goto, TypeOK, PoolTypeOK, published, controlVars, callVars

LEMMA PublishEffect ==
    ASSUME TypeOK, NEW t \in Threads, Publish(t)
    PROVE  /\ todo[t] # << >> /\ todo[t] \in Seq(Attributes) /\ todo'[t] = Tail(todo[t])
           /\ \A u \in Threads : u # t => todo'[u] = todo[u]
           /\ status' = IF Head(todo[t]) = "status" THEN FinalStatus(outcome[job[t]]) ELSE status
           /\ result' = IF Head(todo[t]) = "result" THEN job[t] ELSE result
           /\ endTime' = IF Head(todo[t]) = "endTime" THEN job[t] ELSE endTime
           /\ UNCHANGED <<future, callback, queue, job, accepting, stopEvent, current, startTime>>
           /\ UNCHANGED <<callerPc, started, stops, stopped, snapshot, phase, outcome>>
BY DEF Publish, TypeOK, Attributes, poolVars, controlVars, callVars, runVars

LEMMA ReturnEffect ==
    ASSUME TypeOK, NEW t \in Threads, CallbackReturns(t)
    PROVE  /\ job[t] # NoRun /\ todo[t] = << >> /\ job'[t] = NoRun
           /\ t \in Workers => phase[t] = "publish" /\ phase'[t] = "idle"
           /\ \A u \in Threads : u # t => job'[u] = job[u]
           /\ \A w \in Workers : w # t => phase'[w] = phase[w]
           /\ UNCHANGED <<future, callback, queue, accepting, outcome, todo>>
           /\ UNCHANGED <<status, result, endTime, stopEvent, current, startTime>>
           /\ UNCHANGED <<callerPc, started, stops, stopped, snapshot>>
BY DEF CallbackReturns, Release, TypeOK, PoolTypeOK, published, controlVars, callVars

\* Steps that leave everything alone but the queue, or nothing at all.
LEMMA IdleEffect ==
    ASSUME DropCancelled \/ UNCHANGED vars
    PROVE  /\ UNCHANGED <<future, callback, job, accepting, phase, outcome, todo>>
           /\ UNCHANGED <<status, result, endTime, stopEvent, current, startTime>>
           /\ UNCHANGED <<callerPc, started, stops, stopped, snapshot>>
BY DEF DropCancelled, Drop, vars, poolVars, published, controlVars, callVars, runVars

LEMMA SubmitEffect ==
    ASSUME TypeOK, CallerKnows, StartSubmit
    PROVE  /\ callerPc = "start_submit" /\ job[Caller] = NoRun
           /\ UNCHANGED <<callback, job, accepting, outcome, phase, todo>>
           /\ UNCHANGED <<status, result, endTime, startTime, stops, stopped, snapshot>>
           /\ \/ /\ started + 1 \in Runs /\ started' = started + 1 /\ current' = started + 1
                 /\ callerPc' = "start_callback" /\ queue' = Append(queue, started + 1)
                 /\ future'[started + 1] = "pending"
                 /\ \A r \in Runs : r # started + 1 => future'[r] = future[r]
              \/ /\ callerPc' = "idle" /\ ~accepting
                 /\ UNCHANGED <<future, queue, started, current>>
<1>1. started + 1 \in Runs
  BY NumbersAreNat DEF StartSubmit, CallerGoes, CallerAt, CallerKnows, TypeOK, Runs
<1>2. /\ callerPc = "start_submit" /\ job[Caller] = NoRun
      /\ UNCHANGED <<status, result, endTime, startTime, stops, stopped, snapshot, outcome, phase, todo>>
  BY DEF StartSubmit, CallerGoes, CallerAt, published, runVars
<1>3. CASE CallerGoes("start_submit", "idle") /\ ~accepting /\ UNCHANGED <<poolVars, started, current>>
  BY <1>2, <1>3 DEF CallerGoes, poolVars
<1>4. CASE /\ CallerGoes("start_submit", "start_callback") /\ Submit(started + 1)
           /\ started' = started + 1 /\ current' = started + 1
  BY <1>1, <1>2, <1>4 DEF CallerGoes, Submit, TypeOK, PoolTypeOK
<1> QED
  BY <1>3, <1>4 DEF StartSubmit

LEMMA StartCallbackEffect ==
    ASSUME TypeOK, CallerKnows, StartCallback
    PROVE  /\ callerPc = "start_callback" /\ callerPc' = "idle" /\ job[Caller] = NoRun
           /\ current \in Runs
           /\ UNCHANGED <<future, queue, accepting, outcome, phase>>
           /\ UNCHANGED <<status, result, endTime, current, startTime, started, stops, stopped, snapshot>>
           /\ \A r \in Runs : r # current => callback'[r] = callback[r]
           /\ \A t \in Threads : t # Caller => job'[t] = job[t] /\ todo'[t] = todo[t]
           /\ \/ ~FutureDone(current) /\ callback'[current] = "added" /\ UNCHANGED <<job, todo>>
              \/ /\ FutureDone(current) /\ callback'[current] = "invoked"
                 /\ job'[Caller] = current /\ todo'[Caller] = CallbackWrites(outcome[current])
<1>1. current \in Runs /\ Caller \in Threads
  BY DEF StartCallback, CallerGoes, CallerAt, CallerKnows, Threads
<1>2. /\ callerPc = "start_callback" /\ callerPc' = "idle" /\ job[Caller] = NoRun
      /\ UNCHANGED <<future, queue, accepting, outcome, phase>>
      /\ UNCHANGED <<status, result, endTime, current, startTime, started, stops, stopped, snapshot>>
  BY DEF StartCallback, CallerGoes, CallerAt, AddCallback, InvokeCallbackNow, published,
         controlVars, runVars
<1>3. CASE AddCallback(current) /\ UNCHANGED todo
  BY <1>1, <1>2, <1>3 DEF AddCallback, TypeOK, PoolTypeOK
<1>4. CASE InvokeCallbackNow(current) /\ todo' = [todo EXCEPT ![Caller] = CallbackWrites(outcome[current])]
  BY <1>1, <1>2, <1>4 DEF InvokeCallbackNow, TypeOK, PoolTypeOK
<1> QED
  BY <1>3, <1>4 DEF StartCallback

-----------------------------------------------------------------------------
(* The pool: who holds a running run, and the order of the queue.          *)

LEMMA HeldStep ==
    ASSUME IInv, RunningHeld, [Next]_vars
    PROVE  RunningHeld'
<1> USE DEF IInv, RunningHeld
<1>t. TypeOK /\ PoolTypeOK /\ Caller \in Threads /\ Workers \subseteq Threads /\ Caller \notin Workers
  BY PoolAssumption DEF TypeOK, Threads
<1>z. "idle" \notin Busy /\ "publish" \notin Busy /\ "loop" \in Busy /\ "finish" \in Busy
  BY DEF Busy
\* Steps of the caller: no worker moves, and no run starts to run.
<1>a. ASSUME \A w \in Workers : job'[w] = job[w], phase' = phase,
             \A r \in Runs : future'[r] = "running" => future[r] = "running"
      PROVE  RunningHeld'
  BY <1>a
<1>1. CASE CallerOnly
  BY <1>1, <1>a, CallerOnlyFrame
<1>2. CASE StartSubmit
  BY <1>2, <1>a, <1>t, SubmitEffect
<1>3. CASE StartCallback
  BY <1>3, <1>a, <1>t, StartCallbackEffect
<1>4. CASE StopCancel \/ ShutdownDrain
  <2>1. phase' = phase /\ \A w \in Workers : job'[w] = job[w]
    BY <1>4, <1>t, CancelCases, CancelEffect
  <2>2. \A r \in Runs : future'[r] = "running" => future[r] = "running"
    BY <1>4, <1>t, CancelCases, CancelEffect
  <2> QED
    BY <1>a, <2>1, <2>2
<1>5. ASSUME NEW w \in Workers, TakeRun(w) PROVE RunningHeld'
  <2>1. phase[w] = "idle" /\ Head(queue) # NoRun
    BY <1>5, <1>t, TakeEffect, PoolAssumption DEF Runs, NoRun
  <2> QED
    BY <1>5, <1>t, <1>z, <2>1, TakeEffect
<1>6. ASSUME NEW w \in Workers, InsideRun(w) PROVE RunningHeld'
  BY <1>6, <1>t, <1>z, InsideRunFrame, InsideRunLocal
<1>7. ASSUME NEW w \in Workers, Finish(w) PROVE RunningHeld'
  <2>1. \A r \in Runs : future'[r] = "running" => future[r] = "running" /\ r # job[w]
    BY <1>7, <1>t, FinishEffect
  <2> QED
    BY <1>7, <1>t, <1>z, <2>1, FinishEffect
<1>8. ASSUME NEW t \in Threads, Publish(t) PROVE RunningHeld'
  BY <1>8, <1>a, <1>t, PublishEffect
<1>9. ASSUME NEW t \in Threads, CallbackReturns(t) PROVE RunningHeld'
  <2>1. \A w \in Workers : phase[w] \in Busy => w # t
    BY <1>9, <1>t, <1>z, ReturnEffect
  <2> QED
    BY <1>9, <1>t, <1>z, <2>1, ReturnEffect
<1>10. CASE DropCancelled \/ UNCHANGED vars
  BY <1>10, <1>a, IdleEffect
<1> QED
  BY <1>1, <1>2, <1>3, <1>4, <1>5, <1>6, <1>7, <1>8, <1>9, <1>10, NextCases, WorkerStepCases

\* What taking the head leaves of a queue.
LEMMA QueueShape ==
    ASSUME TypeOK
    PROVE  /\ \A i \in DOMAIN queue : queue[i] \in Runs /\ queue[i] \in Nat
           /\ DOMAIN queue = 1..Len(queue) /\ Len(queue) \in Nat
           /\ queue # << >> => /\ Head(queue) = queue[1] /\ 1 \in DOMAIN queue
                               /\ DOMAIN Tail(queue) = 1..(Len(queue) - 1)
                               /\ \A i \in DOMAIN Tail(queue) :
                                     i + 1 \in DOMAIN queue /\ Tail(queue)[i] = queue[i + 1]
<1>1. queue \in Seq(Runs)
  BY DEF TypeOK, PoolTypeOK
<1>2. \A r \in Runs : r \in Nat
  BY PoolAssumption DEF Runs
<1> QED
  BY <1>1, <1>2

LEMMA OrderStep ==
    ASSUME Single, IInv, RunningHeld, OrderInv, [Next]_vars
    PROVE  OrderInv'
<1>t. TypeOK /\ PoolTypeOK /\ RunsPlaced /\ LoopBounds /\ CallerKnows
  BY DEF IInv, TypeOK
<1>s. started \in Nat /\ \A r \in Runs : r \in Nat /\ r > 0
  BY <1>t, PoolAssumption DEF TypeOK, Runs
<1>q. queue \in Seq(Runs)
  BY <1>t DEF PoolTypeOK
<1>1. CASE UNCHANGED <<queue, future, started>>
  BY <1>1 DEF OrderInv, Live
<1>2. CASE StartSubmit
  <2> DEFINE n == started + 1
  <2>1. CASE /\ n \in Runs /\ started' = n /\ queue' = Append(queue, n) /\ future'[n] = "pending"
             /\ \A r \in Runs : r # n => future'[r] = future[r]
    <3>1. future[n] = "none" /\ started < n /\ n \in Nat
      BY <1>t, <1>s, <2>1 DEF RunsPlaced
    <3>2. /\ DOMAIN queue' = 1..(Len(queue) + 1) /\ queue'[Len(queue) + 1] = n
          /\ \A i \in DOMAIN queue : queue'[i] = queue[i]
      BY <1>q, <2>1
    <3>3. \A r \in Runs : r > started => future[r] = "none"
      BY <1>t DEF RunsPlaced
    <3>4. \A r \in Runs : r <= n /\ r # n => r <= started
      BY <1>s
    <3> HIDE DEF n
    <3>5. \A i, j \in DOMAIN queue' : i < j => queue'[i] < queue'[j]
      BY <1>t, <1>s, <3>1, <3>2, QueueShape DEF OrderInv
    <3>6. \A i \in DOMAIN queue' : queue'[i] <= started'
      BY <1>t, <1>s, <2>1, <3>1, <3>2, QueueShape DEF OrderInv
    <3>7. \A r \in Runs : future'[r] = "pending" => \E i \in DOMAIN queue' : queue'[i] = r
      <4> SUFFICES ASSUME NEW r \in Runs, future'[r] = "pending"
                   PROVE  \E i \in DOMAIN queue' : queue'[i] = r
        OBVIOUS
      <4>1. CASE r = n
        BY <1>t, <3>2, <4>1, QueueShape
      <4>2. CASE r # n
        BY <1>t, <2>1, <3>2, <4>2, QueueShape DEF OrderInv
      <4> QED
        BY <4>1, <4>2
    <3>8. \A r \in Runs : r <= started' => future'[r] # "none"
      BY <2>1, <3>4 DEF OrderInv
    <3>9. \A q, r \in Runs : q < r /\ Live(q)' => future'[r] \notin {"running", "finished"}
      BY <1>s, <2>1, <3>1, <3>3 DEF OrderInv, Live
    <3> QED
      BY <3>5, <3>6, <3>7, <3>8, <3>9 DEF OrderInv
  <2>2. CASE UNCHANGED <<queue, future, started>>
    BY <1>1, <2>2
  <2> QED
    BY <1>2, <1>t, <2>1, <2>2, SubmitEffect
\* The queue loses its head, which is not left pending.
<1>tl. ASSUME queue # << >>, queue' = Tail(queue), future'[Head(queue)] # "pending", started' = started,
              \A r \in Runs : future'[r] = "pending" => future[r] = "pending",
              \A r \in Runs : future[r] # "none" => future'[r] # "none",
              \A q, r \in Runs : q < r /\ Live(q)' => future'[r] \notin {"running", "finished"}
       PROVE  OrderInv'
  <2>1. \A i, j \in DOMAIN queue' : i < j => queue'[i] < queue'[j]
    BY <1>tl, <1>t, QueueShape DEF OrderInv
  <2>2. \A i \in DOMAIN queue' : queue'[i] <= started'
    BY <1>tl, <1>t, QueueShape DEF OrderInv
  <2>3. \A r \in Runs : future'[r] = "pending" => \E i \in DOMAIN queue' : queue'[i] = r
    <3> SUFFICES ASSUME NEW r \in Runs, future'[r] = "pending" PROVE \E i \in DOMAIN queue' : queue'[i] = r
      OBVIOUS
    <3>1. PICK i \in DOMAIN queue : queue[i] = r
      BY <1>tl DEF OrderInv
    <3>2. i # 1
      BY <1>tl, <1>t, <3>1, QueueShape
    <3>3. i - 1 \in DOMAIN queue' /\ i - 1 + 1 = i
      BY <1>tl, <1>t, <3>2, QueueShape
    <3>4. queue'[i - 1] = queue[i]
      BY <1>tl, <1>t, <3>3, QueueShape
    <3> QED
      BY <3>1, <3>3, <3>4
  <2>4. \A r \in Runs : r <= started' => future'[r] # "none"
    BY <1>tl DEF OrderInv
  <2> QED
    BY <1>tl, <2>1, <2>2, <2>3, <2>4 DEF OrderInv
\* A cancellation, or none, makes no run live, running or finished.
<1>f. ASSUME StopCancel \/ ShutdownDrain
      PROVE  /\ \A r \in Runs : future'[r] = "pending" => future[r] = "pending"
             /\ \A r \in Runs : future[r] # "none" => future'[r] # "none"
             /\ \A r \in Runs : Live(r)' => Live(r)
             /\ \A r \in Runs : future'[r] \in {"running", "finished"} => future[r] = future'[r]
  BY <1>f, <1>t, CancelCases, CancelEffect DEF Live
<1>3. CASE StopCancel
  <2>1. UNCHANGED <<queue, started>>
    BY <1>3, <1>t, CancelCases, CancelCaller
  <2> QED
    BY <1>3, <1>f, <2>1 DEF OrderInv
<1>4. CASE ShutdownDrain
  <2>1. queue # << >> /\ queue' = Tail(queue) /\ started' = started /\ Head(queue) \in Runs
    BY <1>4, <1>t, QueueShape DEF ShutdownDrain, callVars
  <2>2. future'[Head(queue)] # "pending"
    BY <1>4, <1>t, <2>1, CancelEffect DEF ShutdownDrain
  <2>3. \A q, r \in Runs : q < r /\ Live(q)' => future'[r] \notin {"running", "finished"}
    BY <1>4, <1>f DEF OrderInv
  <2> QED
    BY <1>4, <1>tl, <1>f, <2>1, <2>2, <2>3
<1>5. ASSUME NEW w \in Workers, TakeRun(w) PROVE OrderInv'
  <2> DEFINE h == Head(queue)
  <2>1. /\ queue # << >> /\ queue' = Tail(queue) /\ started' = started /\ h \in Runs
        /\ job[w] = NoRun /\ future[h] = "pending" /\ future'[h] = "running"
        /\ \A r \in Runs : r # h => future'[r] = future[r]
    BY <1>5, <1>t, TakeEffect
  <2>2. \A r \in Runs : future[r] # "running"
    <3>1. phase[w] = "idle"
      BY <2>1 DEF RunningHeld
    <3>2. \A v \in Workers : phase[v] \notin Busy
      BY <3>1 DEF Single, Busy
    <3> QED
      BY <3>2 DEF RunningHeld
  <2>3. ASSUME NEW q \in Runs, q < h PROVE future[q] # "pending"
    <3> SUFFICES ASSUME future[q] = "pending" PROVE FALSE
      OBVIOUS
    <3>1. PICK i \in DOMAIN queue : queue[i] = q
      BY DEF OrderInv
    <3>2. i = 1 \/ 1 < i
      BY <1>t, <3>1, QueueShape
    <3>3. queue[1] = h /\ 1 \in DOMAIN queue /\ queue[1] \in Nat /\ queue[i] \in Nat
      BY <1>t, <2>1, <3>1, QueueShape
    <3>4. CASE 1 < i
      <4>1. queue[1] < queue[i]
        BY <3>3, <3>4 DEF OrderInv
      <4> QED
        BY <2>3, <3>1, <3>3, <4>1
    <3>5. CASE i = 1
      BY <2>3, <3>1, <3>3, <3>5
    <3> QED
      BY <3>2, <3>4, <3>5
  <2> HIDE DEF h
  <2>4. \A q, r \in Runs : q < r /\ Live(q)' => future'[r] \notin {"running", "finished"}
    <3> SUFFICES ASSUME NEW q \in Runs, NEW r \in Runs, q < r, Live(q)'
                 PROVE  future'[r] \notin {"running", "finished"}
      OBVIOUS
    <3>1. CASE r = h
      BY <1>s, <2>1, <2>2, <2>3, <3>1 DEF Live
    <3>2. CASE r # h
      <4>1. Live(q)
        BY <2>1 DEF Live
      <4> QED
        BY <2>1, <3>2, <4>1 DEF OrderInv
    <3> QED
      BY <3>1, <3>2
  <2> QED
    BY <1>tl, <2>1, <2>4 DEF h
<1>6. ASSUME NEW w \in Workers, InsideRun(w) PROVE OrderInv'
  BY <1>1, <1>6, InsideRunFrame
<1>7. ASSUME NEW w \in Workers, Finish(w) PROVE OrderInv'
  BY <1>7, <1>t, FinishEffect DEF OrderInv, Live
<1>8. CASE DropCancelled
  <2>1. queue # << >> /\ queue' = Tail(queue) /\ UNCHANGED <<started, future>> /\ future[Head(queue)] = "cancelled"
    BY <1>8 DEF DropCancelled, Drop, callVars
  <2>2. \A q, r \in Runs : q < r /\ Live(q)' => future'[r] \notin {"running", "finished"}
    BY <2>1 DEF OrderInv, Live
  <2> QED
    BY <1>tl, <2>1, <2>2
<1>9. CASE CallerOnly
  BY <1>1, <1>9, CallerOnlyFrame
<1>10. CASE StartCallback
  BY <1>1, <1>10, <1>t, StartCallbackEffect
<1>11. ASSUME NEW t \in Threads, Publish(t) \/ CallbackReturns(t) PROVE OrderInv'
  BY <1>1, <1>11, <1>t, PublishEffect, ReturnEffect
<1>12. CASE UNCHANGED vars
  BY <1>1, <1>12 DEF vars, poolVars, callVars
<1> QED
  BY <1>1, <1>2, <1>3, <1>4, <1>5, <1>6, <1>7, <1>8, <1>9, <1>10, <1>11, <1>12, NextCases, WorkerStepCases

-----------------------------------------------------------------------------
(* The callbacks, and what the caller knows.                               *)

LEMMA CallerOnlyPlaces ==
    CallerOnly => callerPc # "start_callback" /\ callerPc' # "start_callback"
BY DEF CallerOnly, StartCheck, StartRunning, StartResult, StartClear, StopEvent, StopRaises,
       StopStatus, StopResult, ShutdownBegin, ShutdownEnd, AwaitDone, GetReads, CallerGoes, CallerAt

LEMMA FutureStep ==
    ASSUME IInv, FutureInv, CallInv, [Next]_vars
    PROVE  FutureInv'
<1>t. TypeOK /\ PoolTypeOK /\ RunsPlaced /\ LoopBounds /\ CallerKnows
  BY DEF IInv, TypeOK
<1>r. started \in Nat /\ \A r \in Runs : r \in Nat
  BY <1>t, PoolAssumption DEF TypeOK, Runs
<1>1. CASE UNCHANGED <<future, callback, started, callerPc, outcome>>
  BY <1>1 DEF FutureInv, FutureDone
<1>2. CASE CallerOnly
  BY <1>2, CallerOnlyFrame, CallerOnlyPlaces DEF FutureInv, FutureDone
<1>3. CASE StartSubmit
  <2> DEFINE n == started + 1
  <2>1. CASE /\ n \in Runs /\ started' = n /\ callerPc' = "start_callback" /\ future'[n] = "pending"
             /\ \A r \in Runs : r # n => future'[r] = future[r]
    <3>1. UNCHANGED <<callback, outcome>> /\ callerPc # "start_callback"
      BY <1>3, <1>t, SubmitEffect
    <3>2. future[n] = "none" /\ started < n
      BY <1>r, <1>t, <2>1 DEF RunsPlaced
    <3>3. \A r \in Runs : r <= n /\ r # n => r <= started
      BY <1>r
    <3>4. \A r \in Runs : r > n => r > started
      BY <1>r
    <3> HIDE DEF n
    <3> QED
      BY <2>1, <3>1, <3>2, <3>3, <3>4 DEF FutureInv, FutureDone
  <2>2. CASE callerPc' = "idle" /\ UNCHANGED <<future, started>>
    BY <1>3, <1>t, <2>2, SubmitEffect DEF FutureInv, FutureDone
  <2> QED
    BY <1>3, <1>t, <2>1, <2>2, SubmitEffect
<1>4. CASE StartCallback
  <2>1. current = started /\ current \in Runs
    BY <1>4, <1>t, StartCallbackEffect DEF CallInv
  <2>2. /\ UNCHANGED <<future, started, outcome>>
        /\ \A r \in Runs : r # current => callback'[r] = callback[r]
        /\ \/ ~FutureDone(current) /\ callback'[current] = "added"
           \/ FutureDone(current) /\ callback'[current] = "invoked"
    BY <1>4, <1>t, StartCallbackEffect
  <2>3. ~(started > started)
    BY <1>r
  <2> QED
    BY <2>1, <2>2, <2>3 DEF FutureInv, FutureDone
<1>5. CASE StopCancel \/ ShutdownDrain
  <2>1. UNCHANGED started /\ callerPc # "start_callback" /\ callerPc' # "start_callback"
    BY <1>5, <1>t, CancelCases, CancelCaller
  <2>2. ASSUME NEW q \in Runs, CancelQueued(q) PROVE FutureInv'
    <3>1. ~(q > started)
      BY <2>2, <1>t, CancelEffect DEF RunsPlaced
    <3>2. /\ future[q] = "pending" /\ future'[q] = "cancelled" /\ callback'[q] = "invoked"
          /\ outcome'[q] = "dequeued"
          /\ \A r \in Runs : r # q => /\ future'[r] = future[r] /\ callback'[r] = callback[r]
                                      /\ outcome'[r] = outcome[r]
      BY <2>2, <1>t, CancelEffect
    <3> QED
      BY <2>1, <3>1, <3>2 DEF FutureInv, FutureDone
  <2>3. CASE UNCHANGED <<future, callback, outcome>>
    BY <2>1, <2>3 DEF FutureInv, FutureDone
  <2> QED
    BY <1>5, <1>t, <2>2, <2>3, CancelCases
<1>6. ASSUME NEW w \in Workers, TakeRun(w) PROVE FutureInv'
  <2>1. UNCHANGED <<callback, started, callerPc, outcome>>
    BY <1>6, <1>t, TakeEffect
  <2>2. \A r \in Runs : future'[r] = future[r] \/ (future[r] = "pending" /\ future'[r] = "running")
    BY <1>6, <1>t, TakeEffect
  <2> QED
    BY <2>1, <2>2 DEF FutureInv, FutureDone
<1>7. ASSUME NEW w \in Workers, InsideRun(w) PROVE FutureInv'
  <2>1. job[w] \in Runs /\ outcome[job[w]] # "dequeued"
    BY <1>7, <1>t, InsideRunLocal DEF FutureInv
  <2>2. \A r \in Runs : outcome'[r] = "dequeued" <=> outcome[r] = "dequeued"
    BY <1>7, <1>t, <2>1, InsideRunLocal
  <2> QED
    BY <1>7, <2>2, InsideRunFrame DEF FutureInv, FutureDone
<1>8. ASSUME NEW w \in Workers, Finish(w) PROVE FutureInv'
  <2>1. /\ future[job[w]] = "running" /\ future'[job[w]] = "finished" /\ job[w] \in Runs
        /\ \A r \in Runs : r # job[w] => future'[r] = future[r] /\ callback'[r] = callback[r]
        /\ callback'[job[w]] = IF callback[job[w]] = "added" THEN "invoked" ELSE callback[job[w]]
        /\ UNCHANGED <<started, callerPc, outcome>>
    BY <1>8, <1>t, FinishEffect
  <2> QED
    BY <2>1 DEF FutureInv, FutureDone
<1>9. ASSUME NEW t \in Threads, Publish(t) \/ CallbackReturns(t) PROVE FutureInv'
  BY <1>1, <1>9, <1>t, PublishEffect, ReturnEffect
<1>10. CASE DropCancelled \/ UNCHANGED vars
  BY <1>1, <1>10, IdleEffect
<1> QED
  BY <1>2, <1>3, <1>4, <1>5, <1>6, <1>7, <1>8, <1>9, <1>10, NextCases, WorkerStepCases

LEMMA CallStep ==
    ASSUME IInv, FutureInv, CallInv, [Next]_vars
    PROVE  CallInv'
<1>t. TypeOK /\ PoolTypeOK /\ RunsPlaced /\ LoopBounds /\ CallerKnows
  BY DEF IInv, TypeOK
<1>s. started \in Nat /\ stops \in Nat /\ (callerPc = "start_callback" => started \in Runs)
  <2>1. started \in Nat /\ stops \in Nat
    BY <1>t, PoolAssumption, PromptAssumption DEF TypeOK
  <2> QED
    BY <1>t, <2>1 DEF CallInv, CallerKnows
<1> USE DEF CallInv, NoRun
<1>1. ASSUME UNCHANGED <<current, started, startTime, callerPc, stops, stopped, accepting>>,
             callerPc = "start_callback" => callback'[started] = "unset",
             status' = status \/ status' # "RUNNING"
      PROVE  CallInv'
  BY <1>1
<1>2. CASE CallerOnly
  <2> USE CallerOnlyFrame DEF CallerGoes, CallerAt, controlVars, published, poolVars
  <2>1. CASE StartCheck BY <1>2, <2>1 DEF StartCheck
  <2>2. CASE StartRunning BY <1>2, <2>2 DEF StartRunning
  <2>3. CASE StartResult BY <1>2, <2>3 DEF StartResult
  <2>4. CASE StartClear BY <1>2, <2>4 DEF StartClear
  <2>5. CASE StopEvent BY <1>2, <1>s, <2>5 DEF StopEvent
  <2>6. CASE StopRaises BY <1>2, <2>6 DEF StopRaises
  <2>7. CASE StopStatus BY <1>2, <2>7 DEF StopStatus
  <2>8. CASE StopResult BY <1>2, <2>8 DEF StopResult
  <2>9. CASE ShutdownBegin BY <1>2, <2>9 DEF ShutdownBegin
  <2>10. CASE ShutdownEnd BY <1>2, <2>10 DEF ShutdownEnd
  <2>11. CASE AwaitDone BY <1>2, <2>11 DEF AwaitDone
  <2>12. CASE GetReads BY <1>2, <2>12 DEF GetReads
  <2> QED
    BY <1>2, <2>1, <2>2, <2>3, <2>4, <2>5, <2>6, <2>7, <2>8, <2>9, <2>10, <2>11, <2>12 DEF CallerOnly
<1>3. CASE StartSubmit
  <2>1. /\ UNCHANGED <<status, startTime, stops, stopped, accepting, callback>> /\ callerPc = "start_submit"
    BY <1>3, <1>t, SubmitEffect
  <2>2. CASE /\ started + 1 \in Runs /\ started' = started + 1 /\ current' = started + 1
             /\ callerPc' = "start_callback"
    <3>1. callback[started + 1] = "unset"
      BY <1>s, <2>2 DEF FutureInv
    <3> QED
      BY <2>1, <2>2, <3>1
  <2>3. CASE callerPc' = "idle" /\ UNCHANGED <<started, current>>
    BY <2>1, <2>3
  <2> QED
    BY <1>3, <1>t, <2>2, <2>3, SubmitEffect
<1>4. CASE StartCallback
  <2>1. UNCHANGED <<status, startTime, stops, stopped, started, current>> /\ callerPc' = "idle"
    BY <1>4, <1>t, StartCallbackEffect
  <2> QED
    BY <2>1
<1>5. CASE StopCancel \/ ShutdownDrain
  <2>1. UNCHANGED <<status, startTime, stops, stopped, started, current, accepting>>
    BY <1>5, <1>t, CancelCases
  <2>2. \/ callerPc = "stop_cancel" /\ callerPc' = "stop_status"
        \/ callerPc = "shutdown" /\ callerPc' = "shutdown"
    BY <1>5, CancelCaller
  <2> QED
    BY <2>1, <2>2
<1>6. ASSUME NEW w \in Workers, TakeRun(w) PROVE CallInv'
  BY <1>1, <1>6, <1>t, TakeEffect
<1>7. ASSUME NEW w \in Workers, InsideRun(w) PROVE CallInv'
  BY <1>1, <1>7, InsideRunFrame
<1>8. ASSUME NEW w \in Workers, Finish(w) PROVE CallInv'
  <2>1. callerPc = "start_callback" => callback'[started] = "unset"
    BY <1>8, <1>s, <1>t, FinishEffect
  <2>2. UNCHANGED <<current, started, startTime, callerPc, stops, stopped, accepting, status>>
    BY <1>8, <1>t, FinishEffect
  <2> QED
    BY <1>1, <2>1, <2>2
<1>9. ASSUME NEW t \in Threads, Publish(t) PROVE CallInv'
  <2>1. status' = status \/ status' # "RUNNING"
    BY <1>9, <1>t, PublishEffect DEF FinalStatus
  <2>2. UNCHANGED <<current, started, startTime, callerPc, stops, stopped, accepting, callback>>
    BY <1>9, <1>t, PublishEffect
  <2> QED
    BY <1>1, <2>1, <2>2
<1>10. ASSUME NEW t \in Threads, CallbackReturns(t) PROVE CallInv'
  BY <1>1, <1>10, <1>t, ReturnEffect
<1>11. CASE DropCancelled \/ UNCHANGED vars
  BY <1>1, <1>11, IdleEffect
<1> QED
  BY <1>2, <1>3, <1>4, <1>5, <1>6, <1>7, <1>8, <1>9, <1>10, <1>11, NextCases, WorkerStepCases

-----------------------------------------------------------------------------
(* The writes a callback has to make.                                      *)

\* The callback writes the status last; after an execution it writes the end time and the
\* status, and after a success the result.
LEMMA CallbackWritesShape ==
    ASSUME NEW o \in {"value", "failed", "unsent", "dequeued"}
    PROVE  /\ \A i \in DOMAIN CallbackWrites(o) :
                 CallbackWrites(o)[i] = "status" => i = Len(CallbackWrites(o))
           /\ o # "dequeued" => \A a \in Attributes \ {"result"} :
                                   \E i \in DOMAIN CallbackWrites(o) : CallbackWrites(o)[i] = a
           /\ o = "value" => \E i \in DOMAIN CallbackWrites(o) : CallbackWrites(o)[i] = "result"
           /\ o = "dequeued" => \A i \in DOMAIN CallbackWrites(o) : CallbackWrites(o)[i] # "status"
<1>1. CASE o = "value"
  <2>1. CallbackWrites(o) = <<"endTime", "result", "status">>
    BY <1>1 DEF CallbackWrites
  <2>2. /\ Len(CallbackWrites(o)) = 3 /\ DOMAIN CallbackWrites(o) = {1, 2, 3}
        /\ CallbackWrites(o)[1] = "endTime" /\ CallbackWrites(o)[2] = "result"
        /\ CallbackWrites(o)[3] = "status"
    BY <2>1
  <2> QED
    BY <1>1, <2>2 DEF Attributes
<1>2. CASE o = "failed" \/ o = "unsent"
  <2>1. CallbackWrites(o) = <<"endTime", "status">>
    BY <1>2 DEF CallbackWrites
  <2>2. /\ Len(CallbackWrites(o)) = 2 /\ DOMAIN CallbackWrites(o) = {1, 2}
        /\ CallbackWrites(o)[1] = "endTime" /\ CallbackWrites(o)[2] = "status"
    BY <2>1
  <2> QED
    BY <1>2, <2>2 DEF Attributes
<1>3. CASE o = "dequeued"
  <2>1. CallbackWrites(o) = <<"endTime">>
    BY <1>3 DEF CallbackWrites
  <2>2. DOMAIN CallbackWrites(o) = {1} /\ CallbackWrites(o)[1] = "endTime"
    BY <2>1
  <2> QED
    BY <1>3, <2>2
<1> QED
  BY <1>1, <1>2, <1>3

\* What the next write of a callback leaves to be written.
LEMMA TailShape ==
    ASSUME NEW s \in Seq(Attributes), s # << >>
    PROVE  /\ Len(s) \in Nat /\ 1 \in DOMAIN s /\ Head(s) = s[1] /\ DOMAIN s = 1..Len(s)
           /\ Len(Tail(s)) = Len(s) - 1 /\ DOMAIN Tail(s) = 1..(Len(s) - 1)
           /\ \A i \in DOMAIN Tail(s) : i + 1 \in DOMAIN s /\ Tail(s)[i] = s[i + 1]
OBVIOUS

\* A callback with one write left is over after it.
LEMMA LastWrite == ASSUME NEW s \in Seq(Attributes), s # << >>, Len(s) = 1 PROVE Tail(s) = << >>
<1>1. Len(Tail(s)) = 0 /\ Tail(s) \in Seq(Attributes)
  OBVIOUS
<1>2. Tail(s) = << >> \/ 1 \in DOMAIN Tail(s)
  BY <1>1, TailShape
<1>3. DOMAIN Tail(s) = 1..0
  BY TailShape
<1>4. DOMAIN Tail(s) = {}
  BY <1>3
<1> QED
  BY <1>2, <1>4

\* Thread t is the one that invokes the callback of run r, which ended as o.
LEMMA TodoGiven ==
    ASSUME TypeOK, TodoInv, NEW t \in Threads, NEW r \in Runs,
           NEW o \in {"value", "failed", "unsent", "dequeued"},
           callback[r] # "invoked", callback'[r] = "invoked",
           \A q \in Runs : q # r => callback'[q] = callback[q],
           job'[t] = r, todo'[t] = CallbackWrites(o), outcome'[r] = o,
           \A q \in Runs : q # r => outcome'[q] = outcome[q],
           \A u \in Threads : u # t => job'[u] = job[u] /\ todo'[u] = todo[u],
           t \in Workers => phase'[t] = "publish",
           \A w \in Workers : w # t => phase'[w] = phase[w]
    PROVE  TodoInv'
<1>c. Caller \in Threads /\ Workers \subseteq Threads
  BY DEF Threads
<1>1. \A u \in Threads : u # t /\ todo'[u] # << >> => job'[u] \in Runs /\ job'[u] # r
  BY DEF TodoInv
<1>2. \A u \in Threads : todo'[u] # << >> => job'[u] \in Runs /\ callback'[job'[u]] = "invoked"
  BY <1>1 DEF TodoInv
<1>3. \A w \in Workers : todo'[w] # << >> => phase'[w] = "publish"
  BY <1>c DEF TodoInv
<1>4. job'[Caller] # NoRun => callback'[job'[Caller]] = "invoked"
  <2>1. job[Caller] \in Runs \union {NoRun}
    BY <1>c DEF TypeOK, PoolTypeOK
  <2> QED
    BY <1>c, <2>1 DEF TodoInv
<1>5. \A u, v \in Threads : todo'[u] # << >> /\ todo'[v] # << >> /\ job'[u] = job'[v] => u = v
  BY <1>1 DEF TodoInv
<1>6. ASSUME NEW u \in Threads, NEW i \in DOMAIN todo'[u], todo'[u][i] = "status"
      PROVE  i = Len(todo'[u]) /\ outcome'[job'[u]] # "dequeued"
  <2>1. CASE u = t
    BY <1>6, <2>1, CallbackWritesShape
  <2>2. CASE u # t
    <3>1. todo[u] # << >> /\ todo'[u] = todo[u] /\ job'[u] = job[u]
      BY <1>6, <2>2
    <3>2. job[u] \in Runs /\ job[u] # r
      BY <2>2, <3>1 DEF TodoInv
    <3> QED
      BY <1>6, <3>1, <3>2 DEF TodoInv
  <2> QED
    BY <2>1, <2>2
<1> QED
  BY <1>2, <1>3, <1>4, <1>5, <1>6 DEF TodoInv

LEMMA TodoStep ==
    ASSUME IInv, RunningHeld, FutureInv, TodoInv, CallInv, [Next]_vars
    PROVE  TodoInv'
<1>t. TypeOK /\ PoolTypeOK /\ RunsPlaced /\ LoopBounds /\ CallerKnows
  BY DEF IInv, TypeOK
<1>w. Caller \in Threads /\ Workers \subseteq Threads /\ Caller \notin Workers
  BY PoolAssumption DEF Threads
<1>1. CASE UNCHANGED <<callback, job, todo, phase, outcome>>
  BY <1>1 DEF TodoInv
<1>2. CASE CallerOnly
  BY <1>1, <1>2, CallerOnlyFrame
<1>3. CASE StartSubmit
  BY <1>1, <1>3, <1>t, SubmitEffect
<1>4. CASE StartCallback
  <2>1. current \in Runs /\ callback[current] = "unset" /\ UNCHANGED <<phase, outcome>>
    BY <1>4, <1>t, StartCallbackEffect DEF CallInv
  <2>2. \/ ~FutureDone(current) /\ callback'[current] = "added" /\ UNCHANGED <<job, todo>>
        \/ /\ FutureDone(current) /\ callback'[current] = "invoked"
           /\ job'[Caller] = current /\ todo'[Caller] = CallbackWrites(outcome[current])
    BY <1>4, <1>t, StartCallbackEffect
  <2>3. \A r \in Runs : r # current => callback'[r] = callback[r]
    BY <1>4, <1>t, StartCallbackEffect
  <2>4. CASE ~FutureDone(current) /\ callback'[current] = "added" /\ UNCHANGED <<job, todo>>
    <3>1. \A r \in Runs : callback[r] = "invoked" => callback'[r] = "invoked"
      BY <2>1, <2>3
    <3>2. job[Caller] \in Runs \union {NoRun}
      BY <1>t, <1>w DEF PoolTypeOK
    <3> QED
      BY <2>1, <2>4, <3>1, <3>2 DEF TodoInv
  <2>5. CASE /\ FutureDone(current) /\ callback'[current] = "invoked"
             /\ job'[Caller] = current /\ todo'[Caller] = CallbackWrites(outcome[current])
    <3>1. outcome[current] \in {"value", "failed", "unsent", "dequeued"}
      BY <1>t, <2>1, <2>5 DEF LoopBounds, TypeOK
    <3>2. \A t \in Threads : t # Caller => job'[t] = job[t] /\ todo'[t] = todo[t]
      BY <1>4, <1>t, StartCallbackEffect
    <3> QED
      BY <1>t, <1>w, <2>1, <2>3, <2>5, <3>1, <3>2, TodoGiven
  <2> QED
    BY <2>2, <2>4, <2>5
<1>5. CASE StopCancel \/ ShutdownDrain
  <2>1. UNCHANGED phase
    BY <1>5, <1>t, CancelCases
  <2>2. ASSUME NEW q \in Runs, CancelQueued(q) PROVE TodoInv'
    <3>1. /\ future[q] = "pending" /\ callback'[q] = "invoked"
          /\ \A r \in Runs : r # q => callback'[r] = callback[r]
          /\ job'[Caller] = q /\ todo'[Caller] = CallbackWrites("dequeued")
          /\ outcome'[q] = "dequeued" /\ \A r \in Runs : r # q => outcome'[r] = outcome[r]
          /\ \A t \in Threads : t # Caller => job'[t] = job[t] /\ todo'[t] = todo[t]
      BY <2>2, <1>t, CancelEffect
    <3>2. callback[q] # "invoked"
      BY <3>1 DEF FutureInv, FutureDone
    <3> QED
      BY <1>t, <1>w, <2>1, <3>1, <3>2, TodoGiven
  <2>3. CASE UNCHANGED <<future, callback, job, outcome, todo>>
    BY <1>1, <2>1, <2>3
  <2> QED
    BY <1>5, <1>t, <2>2, <2>3, CancelCases
<1>6. ASSUME NEW w \in Workers, TakeRun(w) PROVE TodoInv'
  <2>1. /\ job[w] = NoRun /\ UNCHANGED <<callback, todo, outcome>>
        /\ \A t \in Threads : t # w => job'[t] = job[t]
        /\ \A v \in Workers : v # w => phase'[v] = phase[v]
    BY <1>6, <1>t, TakeEffect
  <2>2. todo[w] = << >>
    BY <1>w, <2>1 DEF TodoInv, Runs, NoRun
  <2> QED
    BY <1>w, <2>1, <2>2 DEF TodoInv
<1>7. ASSUME NEW w \in Workers, InsideRun(w) PROVE TodoInv'
  <2>1. todo[w] = << >>
    BY <1>7, <1>t, InsideRunLocal DEF TodoInv, Busy
  <2>2. callback[job[w]] # "invoked"
    BY <1>7, <1>t, InsideRunLocal DEF FutureInv, FutureDone
  <2>3. \A t \in Threads : todo[t] # << >> => outcome'[job[t]] = outcome[job[t]]
    BY <1>7, <1>t, <2>2, InsideRunLocal DEF TodoInv
  <2>4. \A v \in Workers : v # w => phase'[v] = phase[v]
    BY <1>7, <1>t, InsideRunLocal
  <2>5. UNCHANGED <<callback, job, todo>>
    BY <1>7, InsideRunFrame
  <2>6. \A t \in Threads : \A i \in DOMAIN todo'[t] :
           todo'[t][i] = "status" => i = Len(todo'[t]) /\ outcome'[job'[t]] # "dequeued"
    BY <2>3, <2>5 DEF TodoInv
  <2> QED
    BY <2>1, <2>4, <2>5, <2>6 DEF TodoInv
<1>8. ASSUME NEW w \in Workers, Finish(w) PROVE TodoInv'
  <2>1. /\ job[w] \in Runs /\ phase[w] = "finish" /\ phase'[w] = "publish" /\ UNCHANGED job
        /\ \A v \in Workers : v # w => phase'[v] = phase[v]
        /\ \A t \in Threads : t # w => todo'[t] = todo[t]
        /\ \A r \in Runs : r # job[w] => callback'[r] = callback[r]
        /\ UNCHANGED outcome
    BY <1>8, <1>t, FinishEffect
  <2>2. todo[w] = << >>
    BY <2>1 DEF TodoInv
  <2>3. CASE callback[job[w]] = "added"
    <3>1. /\ callback'[job[w]] = "invoked" /\ todo'[w] = CallbackWrites(outcome[job[w]])
          /\ outcome[job[w]] \in {"value", "failed", "unsent", "dequeued"}
      BY <1>8, <1>t, <2>3, FinishEffect
    <3> QED
      BY <1>t, <1>w, <2>1, <2>3, <3>1, TodoGiven
  <2>4. CASE callback[job[w]] # "added"
    <3>1. callback'[job[w]] = callback[job[w]] /\ todo'[w] = << >>
      BY <1>8, <1>t, <2>4, FinishEffect
    <3>2. \A r \in Runs : callback'[r] = callback[r]
      BY <2>1, <3>1
    <3>3. \A t \in Threads : todo'[t] = todo[t]
      BY <2>1, <2>2, <3>1
    <3>4. job[Caller] \in Runs \union {NoRun}
      BY <1>t, <1>w DEF PoolTypeOK
    <3> QED
      BY <1>w, <2>1, <2>2, <3>2, <3>3, <3>4 DEF TodoInv
  <2> QED
    BY <2>3, <2>4
<1>9. ASSUME NEW t \in Threads, Publish(t) PROVE TodoInv'
  <2>1. /\ UNCHANGED <<callback, job, phase, outcome>> /\ todo[t] # << >> /\ todo[t] \in Seq(Attributes)
        /\ todo'[t] = Tail(todo[t]) /\ \A u \in Threads : u # t => todo'[u] = todo[u]
    BY <1>9, <1>t, PublishEffect
  <2>2. \A u \in Threads : todo'[u] # << >> => todo[u] # << >>
    BY <2>1
  <2>3. ASSUME NEW u \in Threads, NEW i \in DOMAIN todo'[u], todo'[u][i] = "status"
        PROVE  i = Len(todo'[u]) /\ outcome'[job'[u]] # "dequeued"
    <3>1. CASE u = t
      <4>1. /\ i + 1 \in DOMAIN todo[t] /\ todo[t][i + 1] = "status" /\ Len(todo[t]) \in Nat
            /\ Len(todo'[t]) = Len(todo[t]) - 1 /\ i \in 1..(Len(todo[t]) - 1)
        BY ZenonT(40), <2>1, <2>3, <3>1, TailShape
      <4>2. i + 1 = Len(todo[t]) /\ outcome[job[t]] # "dequeued"
        BY <4>1 DEF TodoInv
      <4>3. i = Len(todo'[t])
        BY <4>1, <4>2
      <4> QED
        BY <2>1, <3>1, <4>2, <4>3
    <3>2. CASE u # t
      BY <2>1, <2>3, <3>2 DEF TodoInv
    <3> QED
      BY <3>1, <3>2
  <2> QED
    BY <1>w, <2>1, <2>2, <2>3 DEF TodoInv
<1>10. ASSUME NEW t \in Threads, CallbackReturns(t) PROVE TodoInv'
  <2>1. /\ UNCHANGED <<callback, todo, outcome>> /\ todo[t] = << >> /\ job'[t] = NoRun
        /\ \A u \in Threads : u # t => job'[u] = job[u]
        /\ \A w \in Workers : w # t => phase'[w] = phase[w]
    BY <1>10, <1>t, ReturnEffect
  <2> QED
    BY <1>w, <2>1 DEF TodoInv
<1>11. CASE DropCancelled \/ UNCHANGED vars
  BY <1>1, <1>11, IdleEffect
<1> QED
  BY <1>2, <1>3, <1>4, <1>5, <1>6, <1>7, <1>8, <1>9, <1>10, <1>11, NextCases, WorkerStepCases

-----------------------------------------------------------------------------
(* The latest run and its callback.                                        *)

\* Without a stop(), no run but the latest is in the pool.
LEMMA LiveIsLatest ==
    ASSUME IInv, FutureInv, ToldInv, stops = 0, NEW q \in Runs, Live(q)
    PROVE  q = started
<1>1. q \in Nat /\ started \in Nat
  BY PoolAssumption DEF Runs, IInv, TypeOK
<1>2. ~(q > started)
  BY DEF IInv, RunsPlaced, Live
<1>3. ~(q < started)
  BY DEF ToldInv, StatusTold, FutureInv, FutureDone, Live
<1> QED
  BY <1>1, <1>2, <1>3

\* Only a submission brings a run into the pool, and no thread takes up a run that has left it,
\* unless the caller has its callback to run.
LEMMA UnsettledStep ==
    ASSUME IInv, [Next]_vars, started \in Runs, started' = started,
           callerPc \in {"stop_cancel", "stop_status", "stop_result"}
    PROVE  Unsettled(started)' => Unsettled(started)
<1>t. TypeOK /\ PoolTypeOK /\ RunsPlaced /\ LoopBounds /\ CallerKnows
  BY DEF IInv, TypeOK
<1>w. Caller \in Threads /\ Workers \subseteq Threads /\ Caller \notin Workers
  BY PoolAssumption DEF Threads
<1> USE DEF Unsettled, Live
<1>1. CASE UNCHANGED <<future, job>>
  BY <1>1
<1>2. CASE CallerOnly
  BY <1>1, <1>2, CallerOnlyFrame
<1>3. CASE StartSubmit \/ StartCallback \/ ShutdownDrain
  BY <1>3, <1>t, SubmitEffect, StartCallbackEffect, CancelCaller
<1>4. CASE StopCancel
  <2>1. ASSUME NEW q \in Runs, CancelQueued(q) PROVE Unsettled(started)' => Unsettled(started)
    BY <2>1, <1>t, <1>w, CancelEffect
  <2> QED
    BY <1>1, <1>4, <1>t, <2>1, CancelCases
<1>5. ASSUME NEW w \in Workers, TakeRun(w) PROVE Unsettled(started)' => Unsettled(started)
  BY <1>5, <1>t, <1>w, TakeEffect
<1>6. ASSUME NEW w \in Workers, InsideRun(w) PROVE Unsettled(started)' => Unsettled(started)
  BY <1>1, <1>6, InsideRunFrame
<1>7. ASSUME NEW w \in Workers, Finish(w) PROVE Unsettled(started)' => Unsettled(started)
  BY <1>7, <1>t, <1>w, FinishEffect
<1>8. ASSUME NEW t \in Threads, Publish(t) PROVE Unsettled(started)' => Unsettled(started)
  BY <1>1, <1>8, <1>t, PublishEffect
<1>9. ASSUME NEW t \in Threads, CallbackReturns(t) PROVE Unsettled(started)' => Unsettled(started)
  <2>1. UNCHANGED future /\ job'[t] = NoRun /\ \A u \in Threads : u # t => job'[u] = job[u]
    BY <1>9, <1>t, ReturnEffect
  <2>2. started # NoRun
    BY PoolAssumption DEF Runs, NoRun
  <2> QED
    BY <2>1, <2>2
<1>10. CASE DropCancelled \/ UNCHANGED vars
  BY <1>1, <1>10, IdleEffect
<1> QED
  BY <1>2, <1>3, <1>4, <1>5, <1>6, <1>7, <1>8, <1>9, <1>10, NextCases, WorkerStepCases

\* Once the latest run is finished, the callbacks under way are its own.
LEMMA WriterIsLatest ==
    ASSUME LatestInv, accepting \/ stops = 0, LatestTold, NEW t \in Threads, todo[t] # << >>
    PROVE  job[t] = started
BY DEF LatestInv, LatestTold

LEMMA StopStep ==
    ASSUME Single, IInv, FutureInv, TodoInv, CallInv, LatestInv, StopInv, [Next]_vars
    PROVE  StopInv'
<1>t. TypeOK /\ PoolTypeOK /\ RunsPlaced /\ LoopBounds /\ CallerKnows
  BY DEF IInv, TypeOK
<1>s. started \in Nat /\ (started > 0 => started \in Runs) /\ stops \in Nat
  BY <1>t, PoolAssumption, PromptAssumption DEF TypeOK, Runs
<1> DEFINE Stopping == {"stop_cancel", "stop_status", "stop_result"}
<1>o. ASSUME callerPc' \notin Stopping PROVE StopInv'
  BY <1>o DEF StopInv
\* Steps of other threads while the caller is in stop().
<1>k. ASSUME UNCHANGED <<callerPc, started, stopped, stops, accepting, startTime>>,
             started > 0 /\ LatestTold' /\ started \notin stopped /\ ~Unsettled(started)
                /\ callerPc = "stop_result" /\ (accepting \/ stops = 0)
                => LatestTold /\ status' = status
      PROVE  StopInv'
  <2> SUFFICES ASSUME started > 0, callerPc \in Stopping PROVE StopInv'
    BY <1>k, <1>o DEF StopInv
  <2>1. Unsettled(started)' => Unsettled(started)
    BY <1>k, <1>s, UnsettledStep
  <2>2. started \in stopped \/ ~Unsettled(started)
    BY DEF StopInv
  <2> QED
    BY <1>k, <2>1, <2>2 DEF StopInv
<1>1. CASE CallerOnly
  <2>0. UNCHANGED <<future, callback, job, started>>
    BY <1>1, CallerOnlyFrame
  <2>u. Unsettled(started)' = Unsettled(started)
    BY <2>0 DEF Unsettled, Live
  <2>1. CASE StopEvent
    <3>1. stopped' = stopped \union {r \in Runs : Unsettled(r)} /\ callerPc' = "stop_cancel"
      BY <2>1 DEF StopEvent, CallerGoes
    <3> QED
      BY <1>s, <2>0, <2>u, <3>1 DEF StopInv
  <2>2. CASE StopStatus
    <3>1. stopped' = stopped /\ callerPc = "stop_status" /\ callerPc' = "stop_result" /\ status' = "STOPPED"
      BY <2>2 DEF StopStatus, CallerGoes, CallerAt
    <3> QED
      BY <1>s, <2>0, <2>u, <3>1 DEF StopInv
  <2>3. CASE ~(StopEvent \/ StopStatus)
    <3>1. callerPc' \notin Stopping
      BY <1>1, <2>3 DEF CallerOnly, StartCheck, StartRunning, StartResult, StartClear, StopRaises,
             StopResult, ShutdownBegin, ShutdownEnd, AwaitDone, GetReads, CallerGoes
    <3> QED
      BY <1>o, <3>1
  <2> QED
    BY <2>1, <2>2, <2>3
<1>2. CASE StartSubmit \/ StartCallback
  <2>1. callerPc' \notin Stopping
    BY <1>2, <1>t, SubmitEffect, StartCallbackEffect
  <2> QED
    BY <1>o, <2>1
<1>3. CASE ShutdownDrain
  <2>1. callerPc' \notin Stopping
    BY <1>3, CancelCaller
  <2> QED
    BY <1>o, <2>1
<1>4. CASE StopCancel
  <2>1. callerPc = "stop_cancel" /\ callerPc' = "stop_status" /\ UNCHANGED <<started, stopped>>
    BY <1>4, <1>t, CancelCaller, CancelCases
  <2>2. started > 0 => (Unsettled(started)' => Unsettled(started))
    BY <1>s, <2>1, UnsettledStep
  <2> QED
    BY <2>1, <2>2 DEF StopInv
<1>5. ASSUME NEW w \in Workers, TakeRun(w) PROVE StopInv'
  <2>1. UNCHANGED <<callerPc, started, stopped, stops, accepting, startTime, status, callback>>
    BY <1>5, <1>t, TakeEffect
  <2>2. started > 0 /\ LatestTold' => LatestTold
    BY <1>5, <1>s, <1>t, <2>1, TakeEffect DEF LatestTold
  <2> QED
    BY <1>k, <2>1, <2>2
<1>6. ASSUME NEW w \in Workers, InsideRun(w) PROVE StopInv'
  <2>1. UNCHANGED <<callerPc, started, stopped, stops, accepting, startTime, status, callback, future>>
    BY <1>6, InsideRunFrame
  <2> QED
    BY <1>k, <2>1 DEF LatestTold
<1>7. ASSUME NEW w \in Workers, Finish(w) PROVE StopInv'
  <2>1. /\ UNCHANGED <<callerPc, started, stopped, stops, accepting, startTime, status>>
        /\ job[w] \in Runs /\ future[job[w]] = "running"
        /\ \A r \in Runs : r # job[w] => future'[r] = future[r] /\ callback'[r] = callback[r]
    BY <1>7, <1>t, FinishEffect
  <2>2. started > 0 /\ ~Unsettled(started) => job[w] # started
    BY <2>1 DEF Unsettled, Live
  <2>3. started > 0 /\ LatestTold' /\ ~Unsettled(started) => LatestTold
    BY <1>s, <2>1, <2>2 DEF LatestTold
  <2> QED
    BY <1>k, <2>1, <2>3
<1>8. ASSUME NEW t \in Threads, Publish(t) PROVE StopInv'
  <2>1. /\ UNCHANGED <<callerPc, started, stopped, stops, accepting, startTime, future, callback, job>>
        /\ todo[t] # << >>
    BY <1>8, <1>t, PublishEffect
  <2>2. ~(/\ started > 0 /\ LatestTold' /\ started \notin stopped /\ ~Unsettled(started)
          /\ callerPc = "stop_result" /\ (accepting \/ stops = 0))
    BY <2>1, WriterIsLatest DEF LatestTold, Unsettled
  <2> QED
    BY <1>k, <2>1, <2>2
<1>9. ASSUME NEW t \in Threads, CallbackReturns(t) PROVE StopInv'
  <2>1. UNCHANGED <<callerPc, started, stopped, stops, accepting, startTime, future, callback, status>>
    BY <1>9, <1>t, ReturnEffect
  <2> QED
    BY <1>k, <2>1 DEF LatestTold
<1>10. CASE DropCancelled \/ UNCHANGED vars
  <2>1. UNCHANGED <<callerPc, started, stopped, stops, accepting, startTime, future, callback, status>>
    BY <1>10, IdleEffect
  <2> QED
    BY <1>k, <2>1 DEF LatestTold
<1> QED
  BY <1>1, <1>2, <1>3, <1>4, <1>5, <1>6, <1>7, <1>8, <1>9, <1>10, NextCases, WorkerStepCases

LEMMA LatestStep ==
    ASSUME Single, IInv, OrderInv, FutureInv, TodoInv, CallInv, LatestInv, StopInv, ToldInv, [Next]_vars
    PROVE  LatestInv'
<1>t. TypeOK /\ PoolTypeOK /\ RunsPlaced /\ LoopBounds /\ CallerKnows
  BY DEF IInv, TypeOK
<1>w. Caller \in Threads /\ Workers \subseteq Threads /\ Caller \notin Workers
  BY PoolAssumption DEF Threads
<1>s. started \in Nat /\ (started > 0 => started \in Runs) /\ stops \in Nat /\ NoRun \notin Runs
  BY <1>t, PoolAssumption, PromptAssumption DEF TypeOK, Runs, NoRun
<1> DEFINE Told(a) == Written(a) \/ \E t \in Threads : job[t] = started /\ InTodo(a, t)
<1> DEFINE Alone == started > 0 /\ future[started] = "finished"
                       => \A t \in Threads : job[t] # started => todo[t] = << >>
<1> DEFINE Goal == /\ job'[Caller] \in {NoRun, started'}
                   /\ Alone'
                   /\ LatestTold' => \A a \in Attributes : Told(a)'
<1>0. SUFFICES ASSUME accepting' \/ stops' = 0 PROVE Goal
  BY DEF LatestInv
<1>a. accepting \/ stops = 0 => /\ job[Caller] \in {NoRun, started} /\ Alone
                                /\ LatestTold => \A a \in Attributes : Told(a)
  BY DEF LatestInv
<1> HIDE DEF Told, Alone
\* What no step of another thread or the caller changes keeps what is written or to be written.
<1>1. ASSUME UNCHANGED <<future, callback, job, todo, accepting, started, stops, startTime>>,
             UNCHANGED <<status, result, endTime, outcome, stopped>>
      PROVE  Goal
  <2>1. /\ Alone' = Alone /\ LatestTold' = LatestTold
        /\ \A a \in Attributes : Told(a)' = Told(a)
    BY <1>1 DEF Alone, LatestTold, Told, Written, InTodo, Erased, Unsettled, Live
  <2> QED
    BY <1>0, <1>1, <1>a, <2>1
<1>2. CASE CallerOnly
  <2>0. UNCHANGED <<future, callback, job, todo, started, outcome>>
    BY <1>2, CallerOnlyFrame
  <2>a. Alone' = Alone
    BY <2>0 DEF Alone
  <2>u. Unsettled(started)' = Unsettled(started)
    BY <2>0 DEF Unsettled, Live
  <2>1. CASE StartRunning \/ StartResult
    <3>1. startTime' = started + 1 /\ UNCHANGED <<stops, accepting>>
      BY <2>1 DEF StartRunning, StartResult, CallerGoes, CallerAt, CallInv, controlVars, poolVars
    <3>2. ~LatestTold'
      BY <1>s, <2>0, <3>1 DEF LatestTold
    <3> QED
      BY <1>0, <1>a, <2>0, <2>a, <3>1, <3>2
  <2>2. CASE StopEvent
    <3>1. /\ stops' = stops + 1 /\ UNCHANGED <<startTime, status, result, endTime, accepting>>
          /\ stopped \subseteq stopped'
      BY <2>2 DEF StopEvent, published, poolVars
    <3>2. accepting
      BY <1>0, <1>s, <3>1
    <3>3. LatestTold' = LatestTold
      BY <2>0, <3>1 DEF LatestTold
    <3>4. Erased => Erased'
      BY <2>0, <2>u, <3>1 DEF Erased
    <3>5. \A a \in Attributes : Written(a) => Written(a)'
      BY <2>0, <3>1, <3>4 DEF Written, Attributes
    <3>6. \A a \in Attributes : Told(a) => Told(a)'
      BY <2>0, <3>5 DEF Told, InTodo
    <3> QED
      BY <1>a, <2>0, <2>a, <3>2, <3>3, <3>6
  <2>3. CASE StopStatus
    <3>1. status' = "STOPPED" /\ UNCHANGED <<startTime, result, endTime, stops, stopped, accepting>>
      BY <2>3 DEF StopStatus, controlVars, poolVars
    <3>2. LatestTold' = LatestTold
      BY <2>0, <3>1 DEF LatestTold
    <3>3. Erased => Erased'
      BY <2>0, <2>u, <3>1 DEF Erased
    <3>4. \A a \in Attributes : Written(a) => Written(a)'
      BY <2>0, <3>1, <3>3 DEF Written, Attributes
    <3>5. \A a \in Attributes : Told(a) => Told(a)'
      BY <2>0, <3>4 DEF Told, InTodo
    <3> QED
      BY <1>0, <1>a, <2>0, <2>a, <3>1, <3>2, <3>5
  <2>4. CASE StopResult
    <3>1. result' = NoRun /\ UNCHANGED <<startTime, status, endTime, stops, stopped, accepting>>
          /\ callerPc = "stop_result"
      BY <2>4 DEF StopResult, poolVars, CallerGoes, CallerAt
    <3>2. LatestTold' = LatestTold
      BY <2>0, <3>1 DEF LatestTold
    <3>3. LatestTold => Erased'
      BY <1>0, <2>0, <2>u, <3>1 DEF Erased, StopInv, LatestTold
    <3>4. LatestTold => \A a \in Attributes : Written(a) => Written(a)'
      BY <2>0, <3>1, <3>3 DEF Written, Attributes
    <3>5. LatestTold => \A a \in Attributes : Told(a) => Told(a)'
      BY <2>0, <3>4 DEF Told, InTodo
    <3> QED
      BY <1>0, <1>a, <2>0, <2>a, <3>1, <3>2, <3>5
  <2>5. CASE ShutdownBegin
    <3>1. UNCHANGED <<status, result, endTime, startTime, stops, stopped>> /\ accepting
      BY <2>5 DEF ShutdownBegin, published, controlVars
    <3>2. LatestTold' = LatestTold /\ \A a \in Attributes : Told(a)' = Told(a)
      BY <2>0, <2>u, <3>1 DEF LatestTold, Told, Written, InTodo, Erased
    <3> QED
      BY <1>a, <2>0, <2>a, <3>1, <3>2
  <2>6. CASE StartCheck \/ StartClear \/ StopRaises \/ ShutdownEnd \/ AwaitDone \/ GetReads
    <3>1. UNCHANGED <<accepting, stops, startTime, status, result, endTime, stopped>>
      BY <2>6 DEF StartCheck, StartClear, StopRaises, ShutdownEnd, AwaitDone, GetReads, published,
                  controlVars, poolVars
    <3> QED
      BY <1>1, <2>0, <3>1
  <2> QED
    BY <1>2, <2>1, <2>2, <2>3, <2>4, <2>5, <2>6 DEF CallerOnly
<1>3. CASE StartSubmit
  <2>1. CASE started' = started + 1 /\ started + 1 \in Runs /\ future'[started + 1] = "pending"
    <3>1. job'[Caller] = NoRun
      BY <1>3, <1>t, SubmitEffect
    <3> QED
      BY <2>1, <3>1 DEF LatestTold, Alone
  <2>2. CASE UNCHANGED <<future, started>>
    BY <1>1, <1>3, <1>t, <2>2, SubmitEffect
  <2> QED
    BY <1>3, <1>t, <2>1, <2>2, SubmitEffect
<1>4. CASE StartCallback
  <2>1. current = started /\ started \in Runs /\ job[Caller] = NoRun
    BY <1>4, <1>t, StartCallbackEffect DEF CallInv
  <2>2. /\ UNCHANGED <<future, started, stops, accepting, outcome>>
        /\ \A t \in Threads : t # Caller => job'[t] = job[t] /\ todo'[t] = todo[t]
        /\ \/ callback'[started] = "added" /\ UNCHANGED <<job, todo>>
           \/ /\ FutureDone(started) /\ job'[Caller] = started
              /\ todo'[Caller] = CallbackWrites(outcome[started])
    BY <1>4, <1>t, <2>1, StartCallbackEffect
  <2>3. Alone'
    BY <1>0, <1>a, <2>2 DEF Alone
  <2>4. CASE callback'[started] = "added" /\ UNCHANGED <<job, todo>>
    BY <2>1, <2>2, <2>3, <2>4 DEF LatestTold
  <2>5. CASE FutureDone(started) /\ job'[Caller] = started /\ todo'[Caller] = CallbackWrites(outcome[started])
    <3>1. ASSUME LatestTold', NEW a \in Attributes PROVE Told(a)'
      <4>1. outcome[started] \in {"value", "failed", "unsent", "dequeued"} /\ outcome[started] # "dequeued"
        BY <1>t, <2>1, <2>2, <2>5, <3>1 DEF LatestTold, LoopBounds, FutureInv, TypeOK
      <4>2. CASE a = "result" /\ outcome[started] # "value"
        BY <2>2, <4>2 DEF Told, Written
      <4>3. CASE ~(a = "result" /\ outcome[started] # "value")
        <5>1. InTodo(a, Caller)'
          BY <2>5, <4>1, <4>3, CallbackWritesShape DEF InTodo
        <5> QED
          BY <1>w, <2>2, <2>5, <5>1 DEF Told
      <4> QED
        BY <4>2, <4>3
    <3> QED
      BY <2>2, <2>3, <2>5, <3>1
  <2> QED
    BY <2>2, <2>4, <2>5
\* The run the caller cancels is the latest.
<1>c. ASSUME started \in Runs, CancelQueued(started), UNCHANGED started PROVE Goal
  <2>1. future'[started'] = "cancelled" /\ job'[Caller] = started'
    BY <1>c, <1>t, CancelEffect
  <2> QED
    BY <2>1 DEF LatestTold, Alone
<1>5. CASE StopCancel
  <2>1. UNCHANGED <<accepting, started, stops, stopped, startTime, status, result, endTime>>
    BY <1>5, <1>t, CancelCases
  <2>2. CASE current # NoRun /\ CancelQueued(current)
    BY <1>c, <1>s, <2>1, <2>2 DEF CallInv, NoRun
  <2> QED
    BY <1>1, <1>5, <2>1, <2>2 DEF StopCancel
<1>6. CASE ShutdownDrain
  <2>1. /\ UNCHANGED <<accepting, started, stops, stopped, startTime, status, result, endTime>>
        /\ ~accepting /\ Head(queue) \in Runs
    BY <1>6, <1>t, CancelCases, CancelCaller DEF CallInv, ShutdownDrain, PoolTypeOK
  <2>2. CASE CancelQueued(Head(queue))
    <3>1. Live(Head(queue))
      BY <1>t, <2>1, <2>2, CancelEffect DEF Live
    <3>2. Head(queue) = started
      BY <1>0, <2>1, <3>1, LiveIsLatest
    <3> QED
      BY <1>c, <2>1, <2>2, <3>2
  <2> QED
    BY <1>1, <1>6, <2>1, <2>2 DEF ShutdownDrain
<1>7. ASSUME NEW w \in Workers, TakeRun(w) PROVE Goal
  <2> DEFINE h == Head(queue)
  <2>1. /\ UNCHANGED <<callback, todo, outcome, accepting, started, stops, stopped, startTime>>
        /\ UNCHANGED <<status, result, endTime>>
        /\ job[w] = NoRun /\ job'[w] = h /\ h \in Runs /\ future[h] = "pending" /\ future'[h] = "running"
        /\ \A r \in Runs : r # h => future'[r] = future[r]
        /\ \A t \in Threads : t # w => job'[t] = job[t]
    BY <1>7, <1>t, TakeEffect
  <2>2. todo[w] = << >>
    BY <1>s, <1>w, <2>1 DEF TodoInv
  <2> HIDE DEF h
  <2>3. started > 0 /\ future'[started] = "finished" => future[started] = "finished" /\ h # started
    BY <1>s, <2>1
  <2>4. Alone'
    BY <1>0, <1>a, <2>1, <2>2, <2>3 DEF Alone
  <2>5. ASSUME LatestTold', NEW a \in Attributes PROVE Told(a)'
    <3>1. LatestTold /\ h # started /\ started # NoRun
      BY <1>s, <2>1, <2>3, <2>5 DEF LatestTold
    <3>2. Unsettled(started)' => Unsettled(started)
      <4>1. future'[started] = future[started]
        BY <1>s, <2>1, <3>1 DEF LatestTold
      <4> QED
        BY <2>1, <3>1, <4>1 DEF Unsettled, Live
    <3>3. Written(a) => Written(a)'
      BY <2>1, <3>2 DEF Written, Erased, Attributes
    <3>4. \A t \in Threads : job[t] = started /\ InTodo(a, t) => job'[t] = started /\ InTodo(a, t)'
      BY <2>1, <3>1 DEF InTodo
    <3> QED
      BY <1>0, <1>a, <2>1, <3>1, <3>3, <3>4 DEF Told
  <2> QED
    BY <1>0, <1>a, <1>w, <2>1, <2>4, <2>5
<1>8. ASSUME NEW w \in Workers, InsideRun(w) PROVE Goal
  <2>1. UNCHANGED <<future, callback, job, todo, accepting, started, stops, stopped, startTime>>
        /\ UNCHANGED <<status, result, endTime>>
    BY <1>8, InsideRunFrame
  <2>2. LatestTold => outcome'[started] = outcome[started]
    BY <1>8, <1>s, <1>t, InsideRunLocal DEF LatestTold
  <2>3. LatestTold' = LatestTold /\ Alone' = Alone
    BY <2>1 DEF LatestTold, Alone
  <2>4. LatestTold => \A a \in Attributes : Told(a) => Told(a)'
    BY <2>1, <2>2 DEF Told, Written, InTodo, Erased, Unsettled, Live, Attributes
  <2> QED
    BY <1>0, <1>a, <2>1, <2>3, <2>4
<1>9. ASSUME NEW w \in Workers, Finish(w) PROVE Goal
  <2>1. /\ job[w] \in Runs /\ future[job[w]] = "running"
        /\ outcome[job[w]] \in {"value", "failed", "unsent"}
        /\ UNCHANGED <<job, outcome, accepting, started, stops, startTime, status, result, endTime>>
        /\ \A r \in Runs : r # job[w] => future'[r] = future[r] /\ callback'[r] = callback[r]
        /\ \A t \in Threads : t # w => todo'[t] = todo[t]
    BY <1>9, <1>t, FinishEffect
  <2>2. job'[Caller] \in {NoRun, started'}
    BY <1>0, <1>a, <2>1
  <2>3. CASE job[w] = started
    <3>1. \A t \in Threads : job[t] # started => todo[t] = << >>
      <4>1. \A t \in Threads : t = Caller \/ t = w
        BY DEF Single, Threads
      <4>2. job[Caller] # started => todo[Caller] = << >>
        BY <1>0, <1>a, <1>s, <1>w, <2>1 DEF TodoInv
      <4> QED
        BY <2>3, <4>1, <4>2
    <3>2. Alone'
      BY <2>1, <2>3, <3>1 DEF Alone
    <3>3. ASSUME LatestTold', NEW a \in Attributes PROVE Told(a)'
      <4>1. callback[job[w]] # "invoked"
        BY <2>1 DEF FutureInv, FutureDone
      <4>2. callback'[job[w]] = "invoked"
        BY <2>1, <2>3, <3>3 DEF LatestTold
      <4>3. todo'[w] = CallbackWrites(outcome[started])
        BY <1>9, <1>t, <2>3, <4>1, <4>2, FinishEffect
      <4>4. CASE a = "result" /\ outcome[started] # "value"
        BY <2>1, <4>4 DEF Told, Written
      <4>5. CASE ~(a = "result" /\ outcome[started] # "value")
        <5>1. InTodo(a, w)'
          BY <2>1, <2>3, <4>3, <4>5, CallbackWritesShape DEF InTodo
        <5> QED
          BY <1>w, <2>1, <2>3, <5>1 DEF Told
      <4> QED
        BY <4>4, <4>5
    <3> QED
      BY <2>2, <3>2, <3>3
  <2>4. CASE job[w] # started
    <3>1. job[w] \in Nat /\ ~(job[w] > started)
      BY <1>t, <2>1, PoolAssumption DEF RunsPlaced, Runs
    <3>2. job[w] < started
      BY <1>s, <2>4, <3>1
    <3>3. started > 0 => future[started] # "finished"
      BY <1>s, <2>1, <3>2 DEF OrderInv, Live
    <3>4. started > 0 => future'[started] # "finished"
      BY <1>s, <2>1, <2>4, <3>3
    <3> QED
      BY <2>1, <2>2, <3>4 DEF LatestTold, Alone
  <2> QED
    BY <2>3, <2>4
<1>10. ASSUME NEW t \in Threads, Publish(t) PROVE Goal
  <2>1. /\ todo[t] # << >> /\ todo[t] \in Seq(Attributes) /\ todo'[t] = Tail(todo[t])
        /\ \A u \in Threads : u # t => todo'[u] = todo[u]
        /\ UNCHANGED <<future, callback, job, accepting, started, stops, stopped, startTime, outcome>>
    BY <1>10, <1>t, PublishEffect
  <2>2. started > 0 /\ future[started] = "finished" => job[t] = started
    BY <1>0, <1>a, <2>1 DEF Alone
  <2>3. Alone'
    BY <1>0, <1>a, <2>1, <2>2 DEF Alone
  <2>4. ASSUME LatestTold', NEW a \in Attributes PROVE Told(a)'
    <3>1. LatestTold /\ job[t] = started /\ started # NoRun
      BY <1>s, <2>1, <2>2, <2>4 DEF LatestTold, NoRun
    <3>2. CASE a = Head(todo[t])
      <4>1. CASE a = "status"
        BY <1>10, <1>t, <2>1, <3>1, <3>2, <4>1, PublishEffect DEF Told, Written
      <4>2. CASE a = "result"
        BY <1>10, <1>t, <2>1, <3>1, <3>2, <4>2, PublishEffect DEF Told, Written
      <4>3. CASE a = "endTime"
        BY <1>10, <1>t, <2>1, <3>1, <3>2, <4>3, PublishEffect DEF Told, Written
      <4> QED
        BY <4>1, <4>2, <4>3 DEF Attributes
    <3>3. CASE a # Head(todo[t])
      <4>1. CASE Written(a)
        <5>1. /\ Head(todo[t]) # "status" => status' = status
              /\ Head(todo[t]) # "result" => result' = result
              /\ Head(todo[t]) # "endTime" => endTime' = endTime
          BY <1>10, <1>t, PublishEffect
        <5>2. CASE a = "status"
          BY <2>1, <3>3, <4>1, <5>1, <5>2 DEF Told, Written
        <5>3. CASE a = "result"
          <6>1. Unsettled(started)
            BY <3>1 DEF Unsettled
          <6>2. Erased => started \in stopped
            BY <6>1 DEF Erased
          <6>3. Erased => Erased'
            BY <2>1, <3>3, <5>1, <5>3, <6>2 DEF Erased
          <6> QED
            BY <2>1, <3>3, <4>1, <5>1, <5>3, <6>3 DEF Told, Written
        <5>4. CASE a = "endTime"
          BY <2>1, <3>3, <4>1, <5>1, <5>4 DEF Told, Written
        <5> QED
          BY <5>2, <5>3, <5>4 DEF Attributes
      <4>2. ASSUME NEW u \in Threads, job[u] = started, InTodo(a, u) PROVE job'[u] = started' /\ InTodo(a, u)'
        <5>1. CASE u # t
          BY <2>1, <4>2, <5>1 DEF InTodo
        <5>2. CASE u = t
          <6>1. PICK i \in DOMAIN todo[t] : todo[t][i] = a
            BY <4>2, <5>2 DEF InTodo
          <6>2. i # 1
            BY <2>1, <3>3, <6>1, TailShape
          <6>3. i - 1 \in DOMAIN todo'[t] /\ (i - 1) + 1 = i
            BY <2>1, <6>1, <6>2, TailShape
          <6>4. todo'[t][i - 1] = a
            BY <2>1, <6>1, <6>3, TailShape
          <6> QED
            BY <2>1, <4>2, <5>2, <6>3, <6>4 DEF InTodo
        <5> QED
          BY <5>1, <5>2
      <4>3. Written(a) \/ \E u \in Threads : job[u] = started /\ InTodo(a, u)
        BY <1>0, <1>a, <2>1, <3>1 DEF Told
      <4>4. CASE \E u \in Threads : job[u] = started /\ InTodo(a, u)
        BY <4>2, <4>4 DEF Told
      <4> QED
        BY <4>1, <4>3, <4>4
    <3> QED
      BY <3>2, <3>3
  <2> QED
    BY <1>0, <1>a, <2>1, <2>3, <2>4
<1>11. ASSUME NEW t \in Threads, CallbackReturns(t) PROVE Goal
  <2>1. /\ job[t] # NoRun /\ todo[t] = << >> /\ job'[t] = NoRun
        /\ \A u \in Threads : u # t => job'[u] = job[u]
        /\ UNCHANGED <<future, callback, accepting, outcome, todo, status, result, endTime>>
        /\ UNCHANGED <<startTime, started, stops, stopped>>
    BY <1>11, <1>t, ReturnEffect
  <2>2. Alone'
    BY <1>0, <1>a, <2>1 DEF Alone
  <2>3. ASSUME LatestTold', NEW a \in Attributes PROVE Told(a)'
    <3>1. LatestTold /\ started # NoRun
      BY <1>s, <2>1, <2>3 DEF LatestTold, NoRun
    <3>2. Unsettled(started)' => Unsettled(started)
      BY <2>1, <3>1 DEF Unsettled, Live
    <3>3. Written(a) => Written(a)'
      BY <2>1, <3>2 DEF Written, Erased, Attributes
    <3>4. \A u \in Threads : job[u] = started /\ InTodo(a, u) => u # t /\ InTodo(a, u)'
      BY <2>1 DEF InTodo
    <3> QED
      BY <1>0, <1>a, <2>1, <3>1, <3>3, <3>4 DEF Told
  <2> QED
    BY <1>0, <1>a, <1>w, <2>1, <2>2, <2>3
<1>12. CASE DropCancelled \/ UNCHANGED vars
  BY <1>1, <1>12, IdleEffect
<1> QED
  BY <1>2, <1>3, <1>4, <1>5, <1>6, <1>7, <1>8, <1>9, <1>10, <1>11, <1>12, NextCases, WorkerStepCases

-----------------------------------------------------------------------------
(* Without a stop().                                                       *)

\* A thread about to write a status writes that of the latest run, which has not said how it
\* ended.
LEMMA StatusWriterIsLatest ==
    ASSUME IInv, FutureInv, TodoInv, CallInv, ToldInv, stops = 0,
           NEW t \in Threads, todo[t] # << >>, Head(todo[t]) = "status"
    PROVE  /\ job[t] = started /\ started \in Runs /\ callback[started] = "invoked"
           /\ status = "RUNNING" /\ startTime = started
<1>1. job[t] \in Runs /\ callback[job[t]] = "invoked"
  BY DEF TodoInv
<1>2. todo[t] \in Seq(Attributes)
  BY DEF IInv, TypeOK, Attributes
<1>3. ~StatusTold(job[t])
  BY <1>2, TailShape DEF StatusTold, InTodo
<1>4. ~(job[t] > started)
  BY <1>1 DEF FutureInv
<1>5. job[t] \in Nat /\ started \in Nat
  BY <1>1, PoolAssumption DEF Runs, IInv, TypeOK
<1>6. job[t] = started
  BY <1>1, <1>3, <1>4, <1>5 DEF ToldInv
<1>7. status = "RUNNING" /\ ~(startTime > started)
  BY <1>1, <1>3, <1>6 DEF ToldInv
<1> QED
  BY <1>1, <1>5, <1>6, <1>7 DEF CallInv

LEMMA ToldStep ==
    ASSUME Single, IInv, OrderInv, FutureInv, TodoInv, CallInv, LatestInv, ToldInv, [Next]_vars
    PROVE  ToldInv'
<1>t. TypeOK /\ PoolTypeOK /\ RunsPlaced /\ LoopBounds /\ CallerKnows
  BY DEF IInv, TypeOK
<1>w. Caller \in Threads /\ Workers \subseteq Threads /\ Caller \notin Workers
  BY PoolAssumption DEF Threads
<1>s. /\ started \in Nat /\ (started > 0 => started \in Runs) /\ stops \in Nat
      /\ \A r \in Runs : r \in Nat /\ r > 0 /\ r # NoRun
  BY <1>t, PoolAssumption, PromptAssumption DEF TypeOK, Runs, NoRun
<1>0. SUFFICES ASSUME stops' = 0 PROVE ToldInv'
  BY DEF ToldInv
<1>1. ASSUME UNCHANGED <<callback, job, todo, started, stops, startTime, status, outcome>>
      PROVE  ToldInv'
  BY <1>0, <1>1 DEF ToldInv, StatusTold, InTodo
\* The latest run has yet to tell, and a step leaves the runs before it alone.
<1>n. ASSUME UNCHANGED <<started, stops, startTime, status>>, started \in Runs,
             callback[started] # "invoked",
             \A r \in Runs : StatusTold(r) /\ r # started => StatusTold(r)'
      PROVE  ToldInv'
  <2>1. ~StatusTold(started)
    BY <1>n DEF StatusTold
  <2>2. status = "RUNNING" /\ ~(startTime > started)
    BY <1>0, <1>n, <2>1 DEF ToldInv
  <2> QED
    BY <1>0, <1>n, <1>s, <2>2 DEF ToldInv
\* A run that told, untouched, has told.
<1>u. ASSUME NEW r \in Runs, NEW q, r # q, NEW t \in Threads, StatusTold(r),
             callback'[r] = callback[r], job'[t] = q \/ (job'[t] = job[t] /\ todo'[t] = todo[t]),
             \A u \in Threads : u # t => job'[u] = job[u] /\ todo'[u] = todo[u]
      PROVE  StatusTold(r)'
  BY <1>u DEF StatusTold, InTodo
<1>2. CASE CallerOnly
  <2>0. UNCHANGED <<callback, job, todo, started, outcome>>
    BY <1>2, CallerOnlyFrame
  <2>1. CASE StartRunning
    <3>1. startTime' = started + 1 /\ status' = "RUNNING" /\ status # "RUNNING" /\ UNCHANGED stops
      BY <2>1 DEF StartRunning, CallerGoes, CallerAt, CallInv
    <3> QED
      BY <1>0, <1>s, <2>0, <3>1 DEF ToldInv, StatusTold, InTodo
  <2>2. CASE StopEvent \/ StopStatus
    <3>1. stops' # 0
      BY <1>s, <2>2 DEF StopEvent, StopStatus, CallerGoes, CallerAt, CallInv
    <3> QED
      BY <1>0, <3>1
  <2>3. CASE ~(StartRunning \/ StopEvent \/ StopStatus)
    <3>1. UNCHANGED <<stops, startTime, status>>
      BY <1>2, <2>3 DEF CallerOnly, StartCheck, StartResult, StartClear, StopRaises, StopResult,
             ShutdownBegin, ShutdownEnd, AwaitDone, GetReads, published, controlVars
    <3> QED
      BY <1>1, <2>0, <3>1
  <2> QED
    BY <2>1, <2>2, <2>3
<1>3. CASE StartSubmit
  <2>1. UNCHANGED <<status, startTime, stops, todo, outcome, callback, job>> /\ startTime = started + 1
    BY <1>3, <1>t, SubmitEffect DEF CallInv
  <2>2. CASE started' = started + 1
    <3>1. status = "RUNNING"
      BY <1>0, <1>s, <2>1 DEF ToldInv
    <3>2. \A r \in Runs : StatusTold(r) => StatusTold(r)'
      BY <2>1 DEF StatusTold, InTodo
    <3>3. \A r \in Runs : r < started' => StatusTold(r)
      BY <1>0, <1>s, <2>1, <2>2 DEF ToldInv
    <3> QED
      BY <1>s, <2>1, <2>2, <3>1, <3>2, <3>3 DEF ToldInv
  <2>3. CASE started' = started
    BY <1>1, <2>1, <2>3
  <2> QED
    BY <1>3, <1>t, <2>2, <2>3, SubmitEffect
<1>4. CASE StartCallback
  <2>1. current = started /\ started \in Runs /\ callback[started] = "unset"
    BY <1>4, <1>t, StartCallbackEffect DEF CallInv
  <2>2. /\ UNCHANGED <<started, stops, startTime, status>>
        /\ \A r \in Runs : r # started => callback'[r] = callback[r]
        /\ \A t \in Threads : t # Caller => job'[t] = job[t] /\ todo'[t] = todo[t]
        /\ job'[Caller] = started \/ (job'[Caller] = job[Caller] /\ todo'[Caller] = todo[Caller])
    BY <1>4, <1>t, <2>1, StartCallbackEffect
  <2>3. \A r \in Runs : StatusTold(r) /\ r # started => StatusTold(r)'
    BY <1>u, <1>w, <2>2
  <2> QED
    BY <1>n, <2>1, <2>2, <2>3
<1>5. CASE StopCancel \/ ShutdownDrain
  <2>1. UNCHANGED <<started, stops, startTime, status>>
    BY <1>5, <1>t, CancelCases
  <2>2. ASSUME NEW q \in Runs, CancelQueued(q) PROVE ToldInv'
    <3>1. /\ future[q] = "pending" /\ job'[Caller] = q
          /\ \A r \in Runs : r # q => callback'[r] = callback[r]
          /\ \A t \in Threads : t # Caller => job'[t] = job[t] /\ todo'[t] = todo[t]
      BY <2>2, <1>t, CancelEffect
    <3>2. q = started
      BY <1>0, <2>1, <3>1, LiveIsLatest DEF Live
    <3>3. callback[q] # "invoked"
      BY <3>1 DEF FutureInv, FutureDone
    <3>4. \A r \in Runs : StatusTold(r) /\ r # started => StatusTold(r)'
      BY <1>u, <1>w, <3>1, <3>2
    <3> QED
      BY <1>n, <2>1, <3>2, <3>3, <3>4
  <2>3. CASE UNCHANGED <<future, callback, job, outcome, todo>>
    BY <1>1, <2>1, <2>3
  <2> QED
    BY <1>5, <1>t, <2>2, <2>3, CancelCases
<1>6. ASSUME NEW w \in Workers, TakeRun(w) PROVE ToldInv'
  <2>1. /\ UNCHANGED <<callback, todo, started, stops, startTime, status, outcome>> /\ job[w] = NoRun
        /\ \A t \in Threads : t # w => job'[t] = job[t]
    BY <1>6, <1>t, TakeEffect
  <2>2. todo[w] = << >>
    BY <1>s, <1>w, <2>1 DEF TodoInv
  <2>3. \A r \in Runs : StatusTold(r) => StatusTold(r)'
    BY <2>1, <2>2 DEF StatusTold, InTodo
  <2> QED
    BY <1>0, <2>1, <2>3 DEF ToldInv
<1>7. ASSUME NEW w \in Workers, InsideRun(w) PROVE ToldInv'
  <2>1. UNCHANGED <<callback, job, todo, started, stops, startTime, status>>
    BY <1>7, InsideRunFrame
  <2>2. \A r \in Runs : StatusTold(r) => StatusTold(r)' /\ outcome'[r] = outcome[r]
    BY <1>7, <1>t, <2>1, InsideRunLocal DEF StatusTold, InTodo, FutureInv, FutureDone
  <2>3. status \in {"COMPLETED", "ERROR"} => started \in Runs /\ StatusTold(started)
    BY <1>0, <1>s, <2>1 DEF ToldInv
  <2> QED
    BY <1>0, <2>1, <2>2, <2>3 DEF ToldInv
<1>8. ASSUME NEW w \in Workers, Finish(w) PROVE ToldInv'
  <2>1. /\ job[w] \in Runs /\ future[job[w]] = "running"
        /\ UNCHANGED <<job, started, stops, startTime, status>>
        /\ \A r \in Runs : r # job[w] => callback'[r] = callback[r]
        /\ \A t \in Threads : t # w => todo'[t] = todo[t]
    BY <1>8, <1>t, FinishEffect
  <2>2. job[w] = started
    BY <1>0, <2>1, LiveIsLatest DEF Live
  <2>3. callback[started] # "invoked"
    BY <2>1, <2>2 DEF FutureInv, FutureDone
  <2>4. \A r \in Runs : StatusTold(r) /\ r # started => StatusTold(r)'
    BY <1>u, <1>w, <2>1, <2>2
  <2> QED
    BY <1>n, <2>1, <2>2, <2>3, <2>4
<1>9. ASSUME NEW t \in Threads, Publish(t) PROVE ToldInv'
  <2>1. /\ todo[t] # << >> /\ todo[t] \in Seq(Attributes) /\ todo'[t] = Tail(todo[t])
        /\ \A u \in Threads : u # t => todo'[u] = todo[u]
        /\ UNCHANGED <<future, callback, job, started, stops, startTime, outcome>>
    BY <1>9, <1>t, PublishEffect
  <2>2. ASSUME NEW u \in Threads, InTodo("status", u)' PROVE InTodo("status", u)
    <3>1. CASE u # t
      BY <2>1, <2>2, <3>1 DEF InTodo
    <3>2. CASE u = t
      <4>1. PICK i \in DOMAIN Tail(todo[t]) : Tail(todo[t])[i] = "status"
        BY <2>1, <2>2, <3>2 DEF InTodo
      <4>2. i + 1 \in DOMAIN todo[t] /\ todo[t][i + 1] = "status"
        BY <2>1, <4>1, TailShape
      <4> QED
        BY <3>2, <4>2 DEF InTodo
    <3> QED
      BY <3>1, <3>2
  <2>3. \A r \in Runs : StatusTold(r) => StatusTold(r)'
    BY <2>1, <2>2 DEF StatusTold
  <2>4. CASE Head(todo[t]) # "status"
    <3>1. status' = status
      BY <1>9, <1>t, <2>4, PublishEffect
    <3>2. status \notin {"COMPLETED", "ERROR"}
      BY <1>0, <2>1 DEF ToldInv
    <3> QED
      BY <1>0, <2>1, <2>3, <3>1, <3>2 DEF ToldInv
  <2>5. CASE Head(todo[t]) = "status"
    <3>1. job[t] = started /\ started \in Runs /\ callback[started] = "invoked" /\ startTime = started
      BY <1>0, <2>1, <2>5, StatusWriterIsLatest
    <3>2. status' = FinalStatus(outcome[started])
      BY <1>9, <1>t, <2>5, <3>1, PublishEffect
    <3>3. 1 = Len(todo[t])
      <4>1. 1 \in DOMAIN todo[t] /\ todo[t][1] = "status"
        BY <2>1, <2>5, TailShape
      <4> QED
        BY <4>1 DEF TodoInv
    <3>4. todo'[t] = << >>
      BY <2>1, <3>3, LastWrite
    <3>5. \A u \in Threads : job[u] = started /\ u # t => todo[u] = << >>
      BY <2>1, <3>1 DEF TodoInv
    <3>6. StatusTold(started)'
      BY <2>1, <3>1, <3>4, <3>5 DEF StatusTold, InTodo
    \* A dequeued run has no status to write.
    <3>7. outcome[started] \in {"value", "failed", "unsent"}
      <4>1. FutureDone(started)
        BY <3>1 DEF FutureInv
      <4>2. outcome[started] \in {"value", "failed", "unsent", "dequeued"}
        BY <1>t, <3>1, <4>1 DEF LoopBounds, TypeOK
      <4>3. 1 \in DOMAIN todo[t] /\ todo[t][1] = "status"
        BY <2>1, <2>5, TailShape
      <4>4. outcome[started] # "dequeued"
        BY <3>1, <4>3 DEF TodoInv
      <4> QED
        BY <4>2, <4>4
    <3>8. future[started] = "finished"
      BY <3>1, <3>7 DEF FutureInv, FutureDone
    <3>9. \A u \in Threads : job[u] # started => todo[u] = << >>
      BY <1>0, <1>s, <2>1, <3>1, <3>8 DEF LatestInv
    <3>10. \A u \in Threads : todo'[u] = << >>
      BY <2>1, <3>4, <3>5, <3>9
    <3>11. \A r \in Runs : r < started => StatusTold(r)'
      BY <1>0, <2>1, <2>3 DEF ToldInv
    <3>12. status' # "STOPPED"
      BY <3>2 DEF FinalStatus
    <3> QED
      BY <1>s, <2>1, <3>1, <3>2, <3>6, <3>7, <3>10, <3>11, <3>12 DEF ToldInv
  <2> QED
    BY <2>4, <2>5
<1>10. ASSUME NEW t \in Threads, CallbackReturns(t) PROVE ToldInv'
  <2>1. /\ job'[t] = NoRun /\ \A u \in Threads : u # t => job'[u] = job[u]
        /\ UNCHANGED <<callback, todo, outcome, started, stops, startTime, status>>
    BY <1>10, <1>t, ReturnEffect
  <2>2. \A r \in Runs : StatusTold(r) => StatusTold(r)'
    BY <1>s, <2>1 DEF StatusTold, InTodo
  <2> QED
    BY <1>0, <2>1, <2>2 DEF ToldInv
<1>11. CASE DropCancelled \/ UNCHANGED vars
  BY <1>1, <1>11, IdleEffect
<1> QED
  BY <1>2, <1>3, <1>4, <1>5, <1>6, <1>7, <1>8, <1>9, <1>10, <1>11, NextCases, WorkerStepCases

\* A workload that says COMPLETED or ERROR has that run's end time, and its result if COMPLETED.
LEMMA EndedIsWhole ==
    ASSUME IInv, FutureInv, CallInv, LatestInv, ToldInv, stops = 0,
           status \in {"COMPLETED", "ERROR"}
    PROVE  /\ startTime = started /\ endTime = started
           /\ status = "COMPLETED" => result = started
<1>1. /\ started \in Runs /\ started > 0 /\ outcome[started] \in {"value", "failed", "unsent"}
      /\ status = FinalStatus(outcome[started]) /\ \A t \in Threads : todo[t] = << >>
  BY PoolAssumption DEF ToldInv, IInv, TypeOK, Runs
<1>2. startTime = started
  BY <1>1, PoolAssumption DEF ToldInv, CallInv, Runs
<1>3. callback[started] = "invoked"
  BY <1>1 DEF ToldInv, StatusTold
<1>4. future[started] = "finished"
  BY <1>1, <1>3 DEF FutureInv, FutureDone
<1>5. LatestTold
  BY <1>1, <1>2, <1>3, <1>4 DEF LatestTold
<1>6. \A a \in Attributes : ~\E t \in Threads : InTodo(a, t)
  BY <1>1 DEF InTodo
<1>7. \A a \in Attributes : Written(a)
  BY <1>5, <1>6 DEF LatestInv
<1>8. endTime = started
  BY <1>7 DEF Written, Attributes
<1>9. ASSUME status = "COMPLETED" PROVE result = started
  <2>1. outcome[started] = "value"
    BY <1>1, <1>9 DEF FinalStatus
  <2>2. result = started \/ Erased
    BY <1>7, <2>1 DEF Written, Attributes
  <2> QED
    BY <1>9, <2>2 DEF Erased, CallInv
<1> QED
  BY <1>2, <1>8, <1>9

Reading == {"get_result", "get_status", "got"}

LEMMA SnapStep ==
    ASSUME IInv, FutureInv, TodoInv, CallInv, LatestInv, ToldInv, SnapInv, [Next]_vars
    PROVE  SnapInv'
<1>t. TypeOK /\ RunsPlaced /\ LoopBounds /\ CallerKnows
  BY DEF IInv
<1>0. SUFFICES ASSUME stops' = 0 PROVE SnapInv'
  BY DEF SnapInv
<1>o. ASSUME callerPc' \notin Reading PROVE SnapInv'
  BY <1>o DEF SnapInv, Reading
<1>1. ASSUME UNCHANGED <<callerPc, snapshot, started, stops>>, callerPc \in Reading => status' = status
      PROVE  SnapInv'
  BY <1>0, <1>1 DEF SnapInv, Reading
<1>2. CASE CallerOnly
  <2>1. CASE GetReads
    <3>0. UNCHANGED <<status, started, stops>>
      BY <2>1 DEF GetReads, published
    <3>1. CASE CallerGoes("get_end", "get_result") /\ snapshot' = [snapshot EXCEPT !.start = startTime, !.end = endTime]
      <4>1. snapshot'.start = startTime /\ snapshot'.end = endTime /\ callerPc' = "get_result"
        BY <1>t, <3>1 DEF TypeOK, CallerGoes
      <4>2. status \in {"COMPLETED", "ERROR"} => startTime = started /\ endTime = started
        BY <1>0, <3>0, EndedIsWhole
      <4> QED
        BY <3>0, <4>1, <4>2 DEF SnapInv
    <3>2. CASE CallerGoes("get_result", "get_status") /\ snapshot' = [snapshot EXCEPT !.result = result]
      <4>1. /\ snapshot'.start = snapshot.start /\ snapshot'.end = snapshot.end /\ snapshot'.result = result
            /\ callerPc = "get_result" /\ callerPc' = "get_status"
        BY <1>t, <3>2 DEF TypeOK, CallerGoes, CallerAt
      <4>2. status = "COMPLETED" => result = started
        BY <1>0, <3>0, EndedIsWhole
      <4> QED
        BY <1>0, <3>0, <4>1, <4>2 DEF SnapInv
    <3>3. CASE CallerGoes("get_status", "got") /\ snapshot' = [snapshot EXCEPT !.status = status]
      <4>1. /\ snapshot'.start = snapshot.start /\ snapshot'.end = snapshot.end
            /\ snapshot'.result = snapshot.result /\ snapshot'.status = status
            /\ callerPc = "get_status" /\ callerPc' = "got"
        BY <1>t, <3>3 DEF TypeOK, CallerGoes, CallerAt
      <4> QED
        BY <1>0, <3>0, <4>1 DEF SnapInv
    <3>4. CASE CallerGoes("got", "idle")
      BY <1>o, <3>4 DEF CallerGoes, Reading
    <3> QED
      BY <2>1, <3>1, <3>2, <3>3, <3>4 DEF GetReads
  <2>2. CASE ~GetReads
    <3>1. callerPc' \notin Reading
      BY <1>2, <2>2 DEF CallerOnly, StartCheck, StartRunning, StartResult, StartClear, StopEvent,
             StopRaises, StopStatus, StopResult, ShutdownBegin, ShutdownEnd, AwaitDone, CallerGoes, Reading
    <3> QED
      BY <1>o, <3>1
  <2> QED
    BY <2>1, <2>2
<1>3. CASE StartSubmit \/ StartCallback
  <2>1. callerPc' \notin Reading
    BY <1>3, <1>t, SubmitEffect, StartCallbackEffect DEF Reading
  <2> QED
    BY <1>o, <2>1
<1>4. CASE StopCancel \/ ShutdownDrain
  <2>1. callerPc' \notin Reading
    BY <1>4, CancelCaller DEF Reading
  <2> QED
    BY <1>o, <2>1
<1>5. ASSUME NEW w \in Workers, TakeRun(w) \/ InsideRun(w) \/ Finish(w) PROVE SnapInv'
  BY <1>1, <1>5, <1>t, TakeEffect, InsideRunFrame, FinishEffect
<1>6. ASSUME NEW t \in Threads, Publish(t) PROVE SnapInv'
  <2>1. UNCHANGED <<callerPc, snapshot, started, stops>> /\ todo[t] # << >>
    BY <1>6, <1>t, PublishEffect
  <2>2. ASSUME callerPc \in Reading PROVE status' = status
    <3>1. status # "RUNNING"
      BY <2>2 DEF CallInv, Reading
    <3>2. Head(todo[t]) # "status"
      BY <1>0, <2>1, <3>1, StatusWriterIsLatest
    <3> QED
      BY <1>6, <1>t, <3>2, PublishEffect
  <2> QED
    BY <1>1, <2>1, <2>2
<1>7. ASSUME NEW t \in Threads, CallbackReturns(t) PROVE SnapInv'
  BY <1>1, <1>7, <1>t, ReturnEffect
<1>8. CASE DropCancelled \/ UNCHANGED vars
  BY <1>1, <1>8, IdleEffect
<1> QED
  BY <1>2, <1>3, <1>4, <1>5, <1>6, <1>7, <1>8, NextCases, WorkerStepCases

-----------------------------------------------------------------------------
LEMMA LatestInit == Init => LatestIInv
<1> SUFFICES ASSUME Init PROVE LatestIInv
  OBVIOUS
<1>1. IInv
  BY InitHolds
<1> USE PoolAssumption DEF Init, PoolInit, Threads, NoRun
<1>r. \A r \in Runs : r \in Nat /\ r > 0
  BY DEF Runs
<1>2. RunningHeld /\ OrderInv
  BY <1>r DEF RunningHeld, OrderInv, Live
<1>3. FutureInv /\ TodoInv
  BY <1>r DEF FutureInv, FutureDone, TodoInv
<1>4. CallInv /\ LatestInv /\ StopInv
  BY DEF CallInv, LatestInv, LatestTold, StopInv
<1>5. ToldInv /\ SnapInv
  BY <1>r DEF ToldInv, SnapInv
<1> QED
  BY <1>1, <1>2, <1>3, <1>4, <1>5 DEF LatestIInv

\* The strengthened invariant of a workload with one worker.
LEMMA LatestInvariance ==
    ASSUME Single
    PROVE  Spec => []LatestIInv
<1>1. Init => LatestIInv
  BY LatestInit
<1>2. LatestIInv /\ [Next]_vars => LatestIInv'
  BY IInvPreserved, HeldStep, OrderStep, FutureStep, TodoStep, CallStep, LatestStep, StopStep,
     ToldStep, SnapStep DEF LatestIInv
<1> QED
  BY <1>1, <1>2, PTL DEF Spec

\* The unlocked attributes tell of one run, the latest, at rest whatever stop() calls and late
\* callbacks came before, and right after wait_for_completion if stop() was never called
\* (_on_completion_done, stop, get_result), for a pool of one worker, Workload's default.
THEOREM ResultsAreLatestAlways ==
    ASSUME \A v, w \in Workers : v = w
    PROVE  Spec => []ResultsAreLatest
<1>s. Single
  BY DEF Single
<1>1. ASSUME LatestIInv PROVE SettledIsLatest
  <2>t. /\ TypeOK /\ LoopBounds /\ RunningHeld /\ OrderInv /\ FutureInv /\ TodoInv /\ CallInv
        /\ LatestInv /\ ToldInv
    BY <1>1 DEF LatestIInv, IInv
  <2> SUFFICES ASSUME Settled, accepting, started > 0, startTime = started, outcome[started] # "dequeued"
               PROVE  /\ status = "COMPLETED" =>
                            /\ outcome[started] = "value" /\ endTime = started
                            /\ result = started \/ (result = NoRun /\ started \in stopped)
                      /\ status = "ERROR" => outcome[started] \in {"failed", "unsent"} /\ endTime = started
                      /\ outcome[started] = "failed" /\ stops = 0 => status = "ERROR"
    BY DEF SettledIsLatest
  <2>1. started \in Runs /\ \A t \in Threads : job[t] = NoRun
    BY <2>t, PoolAssumption DEF Settled, CallerAt, Threads, TypeOK, Runs
  <2>2. started # NoRun
    BY <2>1, PoolAssumption DEF Runs, NoRun
  <2>3. future[started] = "finished"
    <3>1. future[started] # "none"
      BY <2>t, <2>1, PoolAssumption DEF OrderInv, Runs
    <3>2. future[started] # "pending"
      BY <2>t, <2>1 DEF OrderInv, Settled
    <3>3. future[started] # "running"
      BY <2>t, <2>1, <2>2 DEF RunningHeld, Threads
    <3>4. future[started] # "cancelled"
      BY <2>t, <2>1 DEF FutureInv
    <3> QED
      BY <2>t, <2>1, <3>1, <3>2, <3>3, <3>4 DEF TypeOK, PoolTypeOK, FutureStates
  <2>4. callback[started] = "invoked"
    BY <2>t, <2>1, <2>3, PoolAssumption
       DEF FutureInv, FutureDone, Settled, CallerAt, TypeOK, PoolTypeOK, Runs
  <2>5. LatestTold
    BY <2>3, <2>4 DEF LatestTold
  <2>6. \A a \in Attributes : Written(a)
    BY <2>t, <2>1, <2>2, <2>5 DEF LatestInv
  <2>7. endTime = started /\ status \in {FinalStatus(outcome[started]), "STOPPED"}
    BY <2>6 DEF Written, Attributes
  <2>8. outcome[started] \in {"value", "failed", "unsent"}
    BY <2>t, <2>1, <2>3 DEF LoopBounds, FutureDone, TypeOK
  <2>9. status = "COMPLETED" => outcome[started] = "value"
    BY <2>7 DEF FinalStatus
  <2>10. outcome[started] = "value" => result = started \/ Erased
    BY <2>6 DEF Written, Attributes
  <2>11. status = "COMPLETED" => result = started \/ (result = NoRun /\ started \in stopped)
    BY <2>9, <2>10 DEF Erased
  <2>12. status = "ERROR" => outcome[started] \in {"failed", "unsent"}
    BY <2>7, <2>8 DEF FinalStatus
  <2>13. outcome[started] = "failed" /\ stops = 0 => status = "ERROR"
    <3>1. stops = 0 => status # "STOPPED"
      BY <2>t DEF ToldInv
    <3> QED
      BY <2>7, <3>1 DEF FinalStatus
  <2> QED
    BY <2>7, <2>9, <2>11, <2>12, <2>13
<1>2. ASSUME LatestIInv PROVE SnapshotWhole
  <2>1. SnapInv
    BY <1>2 DEF LatestIInv
  <2> QED
    BY <2>1 DEF SnapInv, SnapshotWhole
<1>3. LatestIInv => ResultsAreLatest
  BY <1>1, <1>2 DEF ResultsAreLatest
<1> QED
  BY <1>s, <1>3, LatestInvariance, PTL
=============================================================================
