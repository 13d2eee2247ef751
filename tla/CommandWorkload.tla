-------------------------- MODULE CommandWorkload --------------------------
(***************************************************************************)
(* CommandWorkload (command_workload.py): a workload whose run is one      *)
(* cancellable subprocess, executed by the pool of ThreadPool.tla.         *)
(*                                                                         *)
(* One caller thread makes the public calls start, stop, get_result and    *)
(* shutdown_executor; the workers execute _run_command_sync and the done   *)
(* callback _on_command_done.  No lock guards the attributes they share    *)
(* (_workload_status, _result, _end_time, _cancel_event), so every         *)
(* assignment and every read of them that another thread can observe is a  *)
(* step of its own.                                                        *)
(*                                                                         *)
(* A time stamp is the number of the run that took it, and a result is its *)
(* kind and the run it came from.  run_cancellable_command appears as      *)
(* CancellableCommand.tla abstracts it: poll, wait, end or terminate.      *)
(* With DockerContainerMixin every run of an instance uses one container   *)
(* name, so `container` is the run whose container holds the name.         *)
(***************************************************************************)
EXTENDS ThreadPool

CONSTANTS
    MaxStops,       \* bound: stop() calls explored
    ReadsResult     \* whether the caller explored calls get_result as well

ASSUME CallsAssumption == MaxStops \in Nat /\ ReadsResult \in BOOLEAN

VARIABLES
    status, result, endTime,        \* attributes the done callback publishes
    cancelEvent, current,           \* _cancel_event, _completion_fut (a run or NoRun)
    startTime, commandResult,
    callerPc,                       \* where the caller is in its call
    started, stops,                 \* start() calls that submitted a run; stop() calls
    stopped,                        \* runs that were in the pool when stop() set the event
    snapshot,                       \* what get_result has read so far
    phase,                          \* where each worker is in _run_command_sync
    proc, expired, ended,           \* each run's process, its deadline, how its command ended
    outcome,                        \* what fut.result() returns or raises, for each run
    cleaned, container,             \* each run's cleanup; the run that holds the container name
    todo                            \* writes each thread's callback has still to make

published == <<status, result, endTime>>
controlVars == <<cancelEvent, current, startTime>>
callVars == <<callerPc, started, stops, stopped, snapshot>>
procVars == <<proc, expired, ended, container>>
vars == <<poolVars, published, controlVars, commandResult, callVars,
          phase, procVars, outcome, cleaned, todo>>

Empty == [kind |-> "empty", run |-> NoRun]
Output(r) == [kind |-> "output", run |-> r]
Failure(r) == [kind |-> "failure", run |-> r]
Results == [kind : {"empty", "output", "failure"}, run : Runs \union {NoRun}]
Statuses == {"STOPPED", "RUNNING", "COMPLETED", "ERROR"}
CallerPcs == {"idle", "start_running", "start_reset", "start_submit", "start_callback",
              "stop_cancel", "stop_status", "stop_cleanup", "shutdown",
              "get_times", "get_result", "get_status", "got"}
Phases == {"idle", "build", "poll", "wait", "terminate", "record", "cleanup",
           "judge", "parse", "finish", "publish"}
Snapshots == [start : Runs \union {NoRun}, end : Runs \union {NoRun},
              result : Results, status : Statuses]
Blank == [start |-> NoRun, end |-> NoRun, result |-> Empty, status |-> "STOPPED"]

PublishedTypeOK ==
    /\ status \in Statuses
    /\ result \in Results
    /\ endTime \in Runs \union {NoRun}

CallerTypeOK ==
    /\ cancelEvent \in BOOLEAN
    /\ current \in Runs \union {NoRun}
    /\ startTime \in Runs \union {NoRun}
    /\ callerPc \in CallerPcs
    /\ started \in 0..MaxRuns
    /\ stops \in 0..MaxStops
    /\ stopped \in SUBSET Runs
    /\ snapshot \in Snapshots

RunTypeOK ==
    /\ commandResult \in Runs \union {NoRun}
    /\ phase \in [Workers -> Phases]
    /\ proc \in [Runs -> {"none", "running", "gone"}]
    /\ expired \in [Runs -> BOOLEAN]
    /\ ended \in [Runs -> {"no", "unlaunched", "zero", "nonzero", "cancel", "timeout"}]
    /\ outcome \in [Runs -> {"none", "value", "cancelled", "error", "raised", "dequeued"}]
    /\ cleaned \in [Runs -> {"none", "ok", "failed"}]
    /\ container \in Runs \union {NoRun}

TodoTypeOK == todo \in [Threads -> Seq({"status", "result", "endTime"})]

TypeOK == PoolTypeOK /\ PublishedTypeOK /\ CallerTypeOK /\ RunTypeOK /\ TodoTypeOK

Init ==
    /\ PoolInit
    /\ status = "STOPPED" /\ result = Empty /\ endTime = NoRun
    /\ cancelEvent = FALSE /\ current = NoRun
    /\ startTime = NoRun /\ commandResult = NoRun
    /\ callerPc = "idle" /\ started = 0 /\ stops = 0 /\ stopped = {}
    /\ snapshot = Blank
    /\ phase = [w \in Workers |-> "idle"]
    /\ proc = [r \in Runs |-> "none"]
    /\ expired = [r \in Runs |-> FALSE]
    /\ ended = [r \in Runs |-> "no"]
    /\ outcome = [r \in Runs |-> "none"]
    /\ cleaned = [r \in Runs |-> "none"]
    /\ container = NoRun
    /\ todo = [t \in Threads |-> << >>]

-----------------------------------------------------------------------------
(* The done callback: its assignments, in the order the code makes them.   *)

\* Mutants of CallbackWrites: the status before the result; an error path that leaves the status
\* alone.
CallbackWritesStatusFirst(o) ==
    IF o = "value" THEN <<"endTime", "status", "result">> ELSE <<"status", "result", "endTime">>
CallbackWritesNoErrorStatus(o) ==
    IF o = "error" THEN <<"result", "endTime">> ELSE <<"endTime", "result", "status">>

\* _on_command_done: the success path assigns after its `finally`, the others before it.
CallbackWrites(o) ==
    CASE o = "value" -> <<"endTime", "result", "status">>
      [] o \in {"cancelled", "error", "raised"} -> <<"status", "result", "endTime">>
      [] o = "dequeued" -> <<"status", "endTime">>

\* Mutant of FinalStatus: a status WorkloadStatus does not have.
FinalStatusCancelled(o) ==
    IF o = "value" THEN "COMPLETED" ELSE IF o = "error" THEN "ERROR" ELSE "CANCELLED"

FinalStatus(o) ==
    CASE o = "value" -> "COMPLETED"
      [] o \in {"error", "raised"} -> "ERROR"
      [] OTHER -> "STOPPED"

FinalResult(r) ==
    CASE outcome[r] = "value" -> Output(r)
      [] outcome[r] \in {"error", "raised"} -> Failure(r)
      [] OTHER -> Empty        \* cancelled; a dequeued run's callback writes no result

\* Thread t makes the next assignment of the callback it is in.
Publish(t) ==
    /\ todo[t] # << >>
    /\ LET attr == Head(todo[t])
           r == job[t]
       IN  /\ status' = IF attr = "status" THEN FinalStatus(outcome[r]) ELSE status
           /\ result' = IF attr = "result" THEN FinalResult(r) ELSE result
           /\ endTime' = IF attr = "endTime" THEN r ELSE endTime
    /\ todo' = [todo EXCEPT ![t] = Tail(@)]
    /\ UNCHANGED <<poolVars, controlVars, commandResult, callVars, phase, procVars, outcome, cleaned>>

\* The callback is over: the worker is free for its next run, the caller resumes its call.
CallbackReturns(t) ==
    /\ job[t] # NoRun
    /\ todo[t] = << >>
    /\ t \in Workers => phase[t] = "publish"
    /\ Release(t)
    /\ phase' = [w \in Workers |-> IF w = t THEN "idle" ELSE phase[w]]
    /\ UNCHANGED <<published, controlVars, commandResult, callVars, procVars, outcome, cleaned, todo>>

-----------------------------------------------------------------------------
(* The caller.  It takes no step of its own while it runs a callback.      *)

CallerAt(pc) == callerPc = pc /\ job[Caller] = NoRun

\* Mutant of StartClear: the event of an earlier stop() is not cleared.
StartClearKeepsEvent ==
    /\ CallerAt("idle")
    /\ status # "RUNNING"
    /\ started < MaxRuns
    /\ callerPc' = "start_running"
    /\ UNCHANGED <<poolVars, published, controlVars, commandResult, started, stops, stopped,
                   snapshot, phase, procVars, outcome, cleaned, todo>>

\* start() refuses a workload that is RUNNING, then forgets any earlier stop().
StartClear ==
    /\ CallerAt("idle")
    /\ status # "RUNNING"
    /\ started < MaxRuns
    /\ cancelEvent' = FALSE
    /\ callerPc' = "start_running"
    /\ UNCHANGED <<poolVars, published, current, startTime, commandResult, started, stops,
                   stopped, snapshot, phase, procVars, outcome, cleaned, todo>>

StartRunning ==
    /\ CallerAt("start_running")
    /\ startTime' = started + 1
    /\ status' = "RUNNING"
    /\ callerPc' = "start_reset"
    /\ UNCHANGED <<poolVars, result, endTime, cancelEvent, current, commandResult, started, stops,
                   stopped, snapshot, phase, procVars, outcome, cleaned, todo>>

StartReset ==
    /\ CallerAt("start_reset")
    /\ result' = Empty
    /\ commandResult' = NoRun
    /\ callerPc' = "start_submit"
    /\ UNCHANGED <<poolVars, status, endTime, controlVars, started, stops, stopped, snapshot,
                   phase, procVars, outcome, cleaned, todo>>

\* submit_background raises out of start() once the pool is shut down; status stays RUNNING.
StartSubmit ==
    /\ CallerAt("start_submit")
    /\ \/ /\ Submit(started + 1)
          /\ started' = started + 1
          /\ current' = started + 1
          /\ callerPc' = "start_callback"
       \/ /\ ~accepting
          /\ callerPc' = "idle"
          /\ UNCHANGED <<poolVars, started, current>>
    /\ UNCHANGED <<published, cancelEvent, startTime, commandResult, stops, stopped, snapshot,
                   phase, procVars, outcome, cleaned, todo>>

\* Mutant of StartCallback: the callback of a run already finished is never invoked.
StartCallbackLost ==
    /\ CallerAt("start_callback")
    /\ AddCallback(current) \/ (FutureDone(current) /\ UNCHANGED poolVars)
    /\ callerPc' = "idle"
    /\ UNCHANGED <<published, controlVars, commandResult, started, stops, stopped, snapshot,
                   phase, procVars, outcome, cleaned, todo>>

\* add_done_callback: a run already finished has its callback run here, in the caller.
StartCallback ==
    /\ CallerAt("start_callback")
    /\ \/ AddCallback(current) /\ UNCHANGED todo
       \/ /\ InvokeCallbackNow(current)
          /\ todo' = [todo EXCEPT ![Caller] = CallbackWrites(outcome[current])]
    /\ callerPc' = "idle"
    /\ UNCHANGED <<published, controlVars, commandResult, started, stops, stopped, snapshot,
                   phase, procVars, outcome, cleaned>>

\* Mutant of StopEvent: stop() forgets to set the event.
StopEventUnset ==
    /\ CallerAt("idle")
    /\ stops < MaxStops
    /\ stops' = stops + 1
    /\ stopped' = stopped \union {r \in Runs : Live(r)}
    /\ callerPc' = "stop_cancel"
    /\ UNCHANGED <<poolVars, published, controlVars, commandResult, started, snapshot,
                   phase, procVars, outcome, cleaned, todo>>

StopEvent ==
    /\ CallerAt("idle")
    /\ stops < MaxStops
    /\ stops' = stops + 1
    /\ cancelEvent' = TRUE
    /\ stopped' = stopped \union {r \in Runs : Live(r)}
    /\ callerPc' = "stop_cancel"
    /\ UNCHANGED <<poolVars, published, current, startTime, commandResult, started, snapshot,
                   phase, procVars, outcome, cleaned, todo>>

\* The canceller makes the future done, so the callback runs in the caller, inside cancel().
CancelQueued(r) ==
    /\ CancelFuture(r)
    /\ outcome' = [outcome EXCEPT ![r] = "dequeued"]
    /\ todo' = [todo EXCEPT ![Caller] = CallbackWrites("dequeued")]

\* _completion_fut.cancel(): no effect on a run a worker has taken.
StopCancel ==
    /\ CallerAt("stop_cancel")
    /\ \/ current \in Runs /\ CancelQueued(current)
       \/ /\ ~(current \in Runs /\ future[current] = "pending")
          /\ UNCHANGED <<future, callback, job, outcome, todo>>
    /\ callerPc' = "stop_status"
    /\ UNCHANGED <<queue, accepting, published, controlVars, commandResult, started, stops,
                   stopped, snapshot, phase, procVars, cleaned>>

StopStatus ==
    /\ CallerAt("stop_status")
    /\ status' = "STOPPED"
    /\ current' = NoRun
    /\ callerPc' = "stop_cleanup"
    /\ UNCHANGED <<poolVars, result, endTime, cancelEvent, startTime, commandResult, started,
                   stops, stopped, snapshot, phase, procVars, outcome, cleaned, todo>>

\* stop() removes the container itself; _safe_cleanup logs a failure and goes on.
StopCleanup ==
    /\ CallerAt("stop_cleanup")
    /\ container' \in {container, NoRun}
    /\ callerPc' = "idle"
    /\ UNCHANGED <<poolVars, published, controlVars, commandResult, started, stops, stopped,
                   snapshot, phase, proc, expired, ended, outcome, cleaned, todo>>

ShutdownBegin ==
    /\ CallerAt("idle")
    /\ accepting
    /\ accepting' = FALSE
    /\ callerPc' = "shutdown"
    /\ UNCHANGED <<future, callback, queue, job, published, controlVars, commandResult, started,
                   stops, stopped, snapshot, phase, procVars, outcome, cleaned, todo>>

\* cancel_futures=True: the queue is drained, each future cancelled in the caller.
ShutdownDrain ==
    /\ CallerAt("shutdown")
    /\ queue # << >>
    /\ queue' = Tail(queue)
    /\ \/ CancelQueued(Head(queue))
       \/ /\ future[Head(queue)] # "pending"
          /\ UNCHANGED <<future, callback, job, outcome, todo>>
    /\ UNCHANGED <<accepting, published, controlVars, commandResult, callVars, phase, procVars, cleaned>>

ShutdownEnd ==
    /\ CallerAt("shutdown")
    /\ queue = << >>
    /\ callerPc' = "idle"
    /\ UNCHANGED <<poolVars, published, controlVars, commandResult, started, stops, stopped,
                   snapshot, phase, procVars, outcome, cleaned, todo>>

\* wait_for_completion has seen a status other than RUNNING; get_result follows.
AwaitDone ==
    /\ ReadsResult
    /\ CallerAt("idle")
    /\ started > 0
    /\ status # "RUNNING"
    /\ callerPc' = "get_times"
    /\ UNCHANGED <<poolVars, published, controlVars, commandResult, started, stops, stopped,
                   snapshot, phase, procVars, outcome, cleaned, todo>>

\* get_result reads _start_time (which only this thread writes) and _end_time, ...
ReadTimes ==
    /\ CallerAt("get_times")
    /\ snapshot' = [snapshot EXCEPT !.start = startTime, !.end = endTime]
    /\ callerPc' = "get_result"
    /\ UNCHANGED <<poolVars, published, controlVars, commandResult, started, stops, stopped,
                   phase, procVars, outcome, cleaned, todo>>

\* ... then _result, ...
ReadResult ==
    /\ CallerAt("get_result")
    /\ snapshot' = [snapshot EXCEPT !.result = result]
    /\ callerPc' = "get_status"
    /\ UNCHANGED <<poolVars, published, controlVars, commandResult, started, stops, stopped,
                   phase, procVars, outcome, cleaned, todo>>

\* ... then the status.
ReadStatus ==
    /\ CallerAt("get_status")
    /\ snapshot' = [snapshot EXCEPT !.status = status]
    /\ callerPc' = "got"
    /\ UNCHANGED <<poolVars, published, controlVars, commandResult, started, stops, stopped,
                   phase, procVars, outcome, cleaned, todo>>

ReturnResult ==
    /\ CallerAt("got")
    /\ snapshot' = Blank
    /\ callerPc' = "idle"
    /\ UNCHANGED <<poolVars, published, controlVars, commandResult, started, stops, stopped,
                   phase, procVars, outcome, cleaned, todo>>

-----------------------------------------------------------------------------
(* A worker in _run_command_sync.                                          *)

Goto(w, p) == phase' = [phase EXCEPT ![w] = p]

\* What no step of _run_command_sync but its first and last touches.
RunUnchanged == UNCHANGED <<poolVars, published, controlVars, callVars, todo>>

TakeRun(w) ==
    /\ Take(w)
    /\ Goto(w, "build")
    /\ UNCHANGED <<published, controlVars, commandResult, callVars, procVars, outcome, cleaned, todo>>

\* build_command raises: the exception becomes the future's, and nothing is cleaned up.
BuildFails(w) ==
    /\ phase[w] = "build"
    /\ outcome' = [outcome EXCEPT ![job[w]] = "error"]
    /\ Goto(w, "finish")
    /\ UNCHANGED <<commandResult, procVars, cleaned>> /\ RunUnchanged

LaunchFails(w) ==
    /\ phase[w] = "build"
    /\ ended' = [ended EXCEPT ![job[w]] = "unlaunched"]
    /\ Goto(w, "record")
    /\ UNCHANGED <<commandResult, proc, expired, container, outcome, cleaned>> /\ RunUnchanged

Launch(w) ==
    /\ phase[w] = "build"
    /\ proc' = [proc EXCEPT ![job[w]] = "running"]
    /\ Goto(w, "poll")
    /\ UNCHANGED <<commandResult, expired, ended, container, outcome, cleaned>> /\ RunUnchanged

\* The loop tests the event first, then the deadline.
PollCancelled(w) ==
    /\ phase[w] = "poll"
    /\ cancelEvent
    /\ ended' = [ended EXCEPT ![job[w]] = "cancel"]
    /\ Goto(w, "terminate")
    /\ UNCHANGED <<commandResult, proc, expired, container, outcome, cleaned>> /\ RunUnchanged

PollExpired(w) ==
    /\ phase[w] = "poll"
    /\ ~cancelEvent
    /\ expired[job[w]]
    /\ ended' = [ended EXCEPT ![job[w]] = "timeout"]
    /\ Goto(w, "terminate")
    /\ UNCHANGED <<commandResult, proc, expired, container, outcome, cleaned>> /\ RunUnchanged

\* Mutant of PollWait: the event is not looked at before the next wait.
PollWaitUnchecked(w) ==
    /\ phase[w] = "poll"
    /\ ~expired[job[w]]
    /\ Goto(w, "wait")
    /\ UNCHANGED <<commandResult, procVars, outcome, cleaned>> /\ RunUnchanged

PollWait(w) ==
    /\ phase[w] = "poll"
    /\ ~cancelEvent
    /\ ~expired[job[w]]
    /\ Goto(w, "wait")
    /\ UNCHANGED <<commandResult, procVars, outcome, cleaned>> /\ RunUnchanged

\* The process leaves (no command of the repository's workloads runs as another user, so a
\* terminated one does too); its container, if it has one, goes with it or (--rm undone) stays.
ProcessGone(r) ==
    /\ proc' = [proc EXCEPT ![r] = "gone"]
    /\ container' \in {container, IF container = r THEN NoRun ELSE container}

\* communicate() returned: the command ended on its own, whatever the event says by now.
WaitExit(w) ==
    /\ phase[w] = "wait"
    /\ ProcessGone(job[w])
    /\ \E e \in {"zero", "nonzero"} : ended' = [ended EXCEPT ![job[w]] = e]
    /\ Goto(w, "record")
    /\ UNCHANGED <<commandResult, expired, outcome, cleaned>> /\ RunUnchanged

WaitTick(w) ==
    /\ phase[w] = "wait"
    /\ Goto(w, "poll")
    /\ UNCHANGED <<commandResult, procVars, outcome, cleaned>> /\ RunUnchanged

Terminate(w) ==
    /\ phase[w] = "terminate"
    /\ ProcessGone(job[w])
    /\ Goto(w, "record")
    /\ UNCHANGED <<commandResult, expired, ended, outcome, cleaned>> /\ RunUnchanged

\* An exception leaves run_cancellable_command after SIGKILL (see CancellableCommand) and with
\* it _run_command_sync: nothing is recorded, and nothing is cleaned up.
TerminateRaises(w) ==
    /\ phase[w] = "terminate"
    /\ ProcessGone(job[w])
    /\ outcome' = [outcome EXCEPT ![job[w]] = "raised"]
    /\ Goto(w, "finish")
    /\ UNCHANGED <<commandResult, expired, ended, cleaned>> /\ RunUnchanged

\* Mutant of Record: the cleanup is skipped.
RecordNoCleanup(w) ==
    /\ phase[w] = "record"
    /\ commandResult' = job[w]
    /\ Goto(w, "judge")
    /\ UNCHANGED <<procVars, outcome, cleaned>> /\ RunUnchanged

Record(w) ==
    /\ phase[w] = "record"
    /\ commandResult' = job[w]
    /\ Goto(w, "cleanup")
    /\ UNCHANGED <<procVars, outcome, cleaned>> /\ RunUnchanged

\* _safe_cleanup: the container is removed by name, or the removal fails and is only logged.
CleanUp(w) ==
    /\ phase[w] = "cleanup"
    /\ \/ cleaned' = [cleaned EXCEPT ![job[w]] = "ok"] /\ container' = NoRun
       \/ cleaned' = [cleaned EXCEPT ![job[w]] = "failed"] /\ UNCHANGED container
    /\ Goto(w, "judge")
    /\ UNCHANGED <<commandResult, proc, expired, ended, outcome>> /\ RunUnchanged

\* Mutant of Judge: a stopped command is a failure like any other.
JudgeIgnoresEvent(w) ==
    /\ phase[w] = "judge"
    /\ \/ /\ ended[job[w]] = "zero"
          /\ Goto(w, "parse")
          /\ UNCHANGED outcome
       \/ /\ ended[job[w]] # "zero"
          /\ outcome' = [outcome EXCEPT ![job[w]] = "error"]
          /\ Goto(w, "finish")
    /\ UNCHANGED <<commandResult, procVars, cleaned>> /\ RunUnchanged

\* A failed command counts as cancelled if the event is set now.
Judge(w) ==
    /\ phase[w] = "judge"
    /\ \/ /\ ended[job[w]] = "zero"
          /\ Goto(w, "parse")
          /\ UNCHANGED outcome
       \/ /\ ended[job[w]] # "zero"
          /\ outcome' = [outcome EXCEPT ![job[w]] = IF cancelEvent THEN "cancelled" ELSE "error"]
          /\ Goto(w, "finish")
    /\ UNCHANGED <<commandResult, procVars, cleaned>> /\ RunUnchanged

Parse(w) ==
    /\ phase[w] = "parse"
    /\ \E o \in {"value", "error"} : outcome' = [outcome EXCEPT ![job[w]] = o]
    /\ Goto(w, "finish")
    /\ UNCHANGED <<commandResult, procVars, cleaned>> /\ RunUnchanged

Finish(w) ==
    /\ phase[w] = "finish"
    /\ FinishFuture(w)
    /\ todo' = [todo EXCEPT ![w] = IF callback[job[w]] = "added"
                                     THEN CallbackWrites(outcome[job[w]]) ELSE << >>]
    /\ Goto(w, "publish")
    /\ UNCHANGED <<published, controlVars, commandResult, callVars, procVars, outcome, cleaned>>

-----------------------------------------------------------------------------
(* The world: time passes, docker starts the container, the pool drops a   *)
(* cancelled run.                                                          *)

Expire(r) ==
    /\ proc[r] = "running"
    /\ ~expired[r]
    /\ expired' = [expired EXCEPT ![r] = TRUE]
    /\ UNCHANGED <<commandResult, phase, proc, ended, container, outcome, cleaned>> /\ RunUnchanged

ContainerUp(r) ==
    /\ proc[r] = "running"
    /\ container = NoRun
    /\ container' = r
    /\ UNCHANGED <<commandResult, phase, proc, expired, ended, outcome, cleaned>> /\ RunUnchanged

DropCancelled ==
    /\ \E w \in Workers : job[w] = NoRun
    /\ Drop
    /\ UNCHANGED <<published, controlVars, commandResult, callVars, phase, procVars, outcome, cleaned, todo>>

-----------------------------------------------------------------------------
CallerResumes ==
    \/ StartRunning \/ StartReset \/ StartSubmit \/ StartCallback
    \/ StopCancel \/ StopStatus \/ StopCleanup
    \/ ShutdownDrain \/ ShutdownEnd
    \/ ReadTimes \/ ReadResult \/ ReadStatus \/ ReturnResult

WorkerStep(w) ==
    \/ TakeRun(w) \/ BuildFails(w) \/ LaunchFails(w) \/ Launch(w)
    \/ PollCancelled(w) \/ PollExpired(w) \/ PollWait(w)
    \/ WaitExit(w) \/ WaitTick(w) \/ Terminate(w) \/ TerminateRaises(w)
    \/ Record(w) \/ CleanUp(w) \/ Judge(w) \/ Parse(w) \/ Finish(w)

Next ==
    \/ StartClear \/ StopEvent \/ ShutdownBegin \/ AwaitDone
    \/ CallerResumes
    \/ \E w \in Workers : WorkerStep(w)
    \/ \E t \in Threads : Publish(t) \/ CallbackReturns(t)
    \/ \E r \in Runs : Expire(r) \/ ContainerUp(r)
    \/ DropCancelled

Spec == Init /\ [][Next]_vars

ThreadStep(t) ==
    \/ Publish(t) \/ CallbackReturns(t)
    \/ t = Caller /\ CallerResumes
    \/ t \in Workers /\ WorkerStep(t)

\* Every thread that can run does: a call once made goes on, workers and callbacks go on.  Time
\* passes as well, so a command that never exits meets its deadline.
TimedSpec ==
    /\ Spec
    /\ \A t \in Threads : WF_vars(ThreadStep(t))
    /\ WF_vars(DropCancelled)
    /\ \A r \in Runs : WF_vars(Expire(r))

-----------------------------------------------------------------------------
(* Properties.                                                             *)

\* Where run r is in run_cancellable_command.
CommandStage(r) ==
    LET at == {w \in Workers : job[w] = r /\ phase[w] \in {"poll", "wait", "terminate"}}
    IN  CASE at # {} -> phase[CHOOSE w \in at : TRUE]
          [] at = {} /\ ended[r] = "no" -> "launch"
          [] at = {} /\ ended[r] # "no" /\ outcome[r] = "raised" -> "raised"
          [] OTHER -> "done"

CR(r) == INSTANCE CommandRun WITH
            stage <- CommandStage(r), verdict <- ended[r], expired <- expired[r]

\* What a workload makes of each run's command is what run_cancellable_command does
\* (CommandRun), under an event shared by all runs that start() and stop() set and clear.
RunsAreCommandRuns ==
    /\ \A r \in Runs : CR(r)!Init
    /\ [][\A r \in Runs : CR(r)!Next \/ UNCHANGED CR(r)!vars]_vars

\* A run whose command answered, launched or not, is never over without a cleanup, and a cleanup
\* that succeeded leaves no container of the run, whoever starts or removes one in between.
ContainerReleased ==
    \A r \in Runs :
        /\ future[r] = "finished" /\ ended[r] # "no" /\ outcome[r] # "raised" => cleaned[r] # "none"
        /\ cleaned[r] = "ok" => container # r

\* All runs share one container name, so a cleanup could remove the container of another run.
\* With one worker a removal meets a running command only in stop(), which has asked for its end.
RemovalSparesRunning ==
    [][\A r \in Runs :
          container = r /\ container' # r /\ proc'[r] = "running" => cancelEvent]_vars

\* A run reads the event long after start() cleared it: it is terminated as cancelled only if
\* stop() was called while that very run was in the pool, never for a stop() meant for another.
CancelImpliesStopped ==
    \A r \in Runs : ended[r] = "cancel" => r \in stopped

\* _run_command_sync reads the event twice, in run_cancellable_command and again to tell a stop
\* from a failure.  A run terminated for stop() is reported as cancelled but for two causes: an
\* exception out of the last communicate(), which leaves _run_command_sync before the second
\* read, or another start() that has come since, which alone can clear the event in between.
CancelledNotFailure ==
    \A r \in Runs :
        ended[r] = "cancel" /\ outcome[r] # "none"
            => \/ outcome[r] \in {"cancelled", "raised"}
               \/ outcome[r] = "error" /\ (startTime > r \/ callerPc = "start_running")

\* Nothing is in the pool or in a callback, and no call is being made.
Settled ==
    /\ CallerAt("idle")
    /\ \A w \in Workers : job[w] = NoRun
    /\ queue = << >>

\* Once everything settles, a workload that says COMPLETED or ERROR says it of the latest
\* run that executed, with that run's result, output and end time, whatever stop() calls,
\* overtaken callbacks and late writes of earlier runs came before.  Only while the pool accepts
\* runs: a shutdown may stamp the end of a run it cancels after a later run has ended.
SettledIsLatest ==
    Settled /\ accepting /\ started > 0 /\ startTime = started /\ outcome[started] # "dequeued"
        => /\ status = "COMPLETED" => outcome[started] = "value" /\ result = Output(started)
           /\ status = "ERROR" => outcome[started] \in {"error", "raised"} /\ result = Failure(started)
           /\ status \in {"COMPLETED", "ERROR"} => endTime = started

\* get_result reads four attributes without a lock.  After wait_for_completion, and if stop()
\* was never called, a COMPLETED answer is whole: result and end time are of the run it names.
SnapshotWhole ==
    callerPc = "got" /\ snapshot.status = "COMPLETED" /\ stops = 0
        => snapshot.result = Output(snapshot.start) /\ snapshot.end = snapshot.start

\* Read in any order, at rest or right after wait_for_completion, the unlocked attributes tell of
\* one run, the latest.
ResultsAreLatest == SettledIsLatest /\ SnapshotWhole

\* wait_for_completion ends: a workload the caller sees RUNNING leaves that status, unless the
\* pool was shut down, which leaves a start() that came after it RUNNING for ever.
RunningEnds ==
    (callerPc = "idle" /\ status = "RUNNING") ~> (status # "RUNNING" \/ ~accepting)

\* A submitted run is never forgotten: it is executed or cancelled, and its callback has run.
NoRunLost ==
    \A r \in Runs :
        future[r] = "pending" ~> (callback[r] = "invoked" /\ \A t \in Threads : job[t] # r)

-----------------------------------------------------------------------------
(* What the repository says of a workload and the code does not do.        *)

\* command_workload.py:152: stop() terminates the running command: a worker that looks again
\* at a stopped run does not go back to waiting for it.
StopTerminates ==
    [][\A w \in Workers : PollWait(w) => job[w] \notin stopped]_vars

\* docker_mixin.py:84: the cleanup removes the container of a stopped or timed-out run.
KilledRunCleanedUp ==
    \A r \in Runs : future[r] = "finished" /\ proc[r] = "gone" => cleaned[r] # "none"
=============================================================================
