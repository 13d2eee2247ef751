--------------------------- MODULE PromptWorkload ---------------------------
(***************************************************************************)
(* PromptWorkload (prompt_workload.py): a workload whose run sends one     *)
(* prompt Count times, one request after the other, in the pool of         *)
(* ThreadPool.tla.                                                         *)
(*                                                                         *)
(* As in CommandWorkload one caller thread makes the public calls and no   *)
(* lock guards what it shares with the callback (prompt_state,             *)
(* prompt_result, _end_time) or with the loop (_stop_event).  What differs *)
(* is the order of start() (the event is cleared just before the submit),  *)
(* a stop() that raises when there is no future to cancel, a run that a    *)
(* stop() ends early with the answers it has, and a callback that stamps   *)
(* the end time first and leaves the rest alone for a cancelled run.       *)
(*                                                                         *)
(* A time stamp and a result are the number of the run they come from.     *)
(***************************************************************************)
EXTENDS ThreadPool

CONSTANTS
    Count,      \* prompts a run sends
    MaxStops    \* bound: stop() calls explored

ASSUME PromptAssumption == Count \in Nat \ {0} /\ MaxStops \in Nat

VARIABLES
    status, result, endTime,    \* prompt_state, prompt_result, _end_time
    stopEvent, current,         \* _stop_event, _completion_fut (a run or NoRun)
    startTime,
    callerPc, started, stops,   \* as in CommandWorkload
    stopped,                    \* runs a stop() was called on before their callback was over
    snapshot,                   \* what get_result has read so far
    phase,                      \* where each worker is in _send_prompts
    sent, outcome,              \* each run's answered prompts; what fut.result() gives
    todo                        \* writes each thread's callback has still to make

published == <<status, result, endTime>>
controlVars == <<stopEvent, current, startTime>>
callVars == <<callerPc, started, stops, stopped, snapshot>>
runVars == <<phase, sent, outcome>>
vars == <<poolVars, published, controlVars, callVars, runVars, todo>>

Statuses == {"STOPPED", "RUNNING", "COMPLETED", "ERROR"}
SomeRun == Runs \union {NoRun}
Blank == [start |-> NoRun, end |-> NoRun, result |-> NoRun, status |-> "STOPPED"]

TypeOK ==
    /\ PoolTypeOK
    /\ status \in Statuses /\ {result, endTime, startTime, current} \subseteq SomeRun
    /\ stopEvent \in BOOLEAN
    /\ callerPc \in {"idle", "start_running", "start_result", "start_clear", "start_submit",
                     "start_callback", "stop_cancel", "stop_status", "stop_result", "shutdown",
                     "get_end", "get_result", "get_status", "got"}
    /\ started \in 0..MaxRuns /\ stops \in 0..MaxStops /\ stopped \subseteq Runs
    /\ snapshot \in [start : SomeRun, end : SomeRun, result : SomeRun, status : Statuses]
    /\ phase \in [Workers -> {"idle", "loop", "sending", "finish", "publish"}]
    /\ sent \in [Runs -> 0..Count]
    /\ outcome \in [Runs -> {"none", "value", "failed", "unsent", "dequeued"}]
    /\ todo \in [Threads -> Seq({"status", "result", "endTime"})]

Init ==
    /\ PoolInit
    /\ status = "STOPPED" /\ result = NoRun /\ endTime = NoRun
    /\ stopEvent = FALSE /\ current = NoRun /\ startTime = NoRun
    /\ callerPc = "idle" /\ started = 0 /\ stops = 0 /\ stopped = {}
    /\ snapshot = Blank
    /\ phase = [w \in Workers |-> "idle"]
    /\ sent = [r \in Runs |-> 0]
    /\ outcome = [r \in Runs |-> "none"]
    /\ todo = [t \in Threads |-> << >>]

-----------------------------------------------------------------------------
(* The done callback.                                                      *)

\* Mutants of CallbackWrites: a success whose status comes first; an error path that writes no
\* status.
CallbackWritesStatusFirst(o) ==
    IF o = "value" THEN <<"endTime", "status", "result">> ELSE <<"endTime", "status">>
CallbackWritesNoErrorStatus(o) ==
    IF o = "value" THEN <<"endTime", "result", "status">> ELSE <<"endTime">>

CallbackWrites(o) ==
    CASE o = "value" -> <<"endTime", "result", "status">>
      [] o \in {"failed", "unsent"} -> <<"endTime", "status">>
      [] o = "dequeued" -> <<"endTime">>

\* Mutant of FinalStatus: a status WorkloadStatus does not have.
FinalStatusFailed(o) == IF o = "value" THEN "COMPLETED" ELSE "FAILED"

FinalStatus(o) == IF o = "value" THEN "COMPLETED" ELSE "ERROR"

\* Thread t makes the next assignment of _on_completion_done.
Publish(t) ==
    /\ todo[t] # << >>
    /\ LET attr == Head(todo[t])
       IN  /\ status' = IF attr = "status" THEN FinalStatus(outcome[job[t]]) ELSE status
           /\ result' = IF attr = "result" THEN job[t] ELSE result
           /\ endTime' = IF attr = "endTime" THEN job[t] ELSE endTime
    /\ todo' = [todo EXCEPT ![t] = Tail(@)]
    /\ UNCHANGED <<poolVars, controlVars, callVars, runVars>>

CallbackReturns(t) ==
    /\ job[t] # NoRun
    /\ todo[t] = << >>
    /\ t \in Workers => phase[t] = "publish"
    /\ Release(t)
    /\ phase' = [w \in Workers |-> IF w = t THEN "idle" ELSE phase[w]]
    /\ UNCHANGED <<published, controlVars, callVars, sent, outcome, todo>>

-----------------------------------------------------------------------------
(* The caller.  It takes no step of its own while it runs a callback.      *)

CallerAt(pc) == callerPc = pc /\ job[Caller] = NoRun

CallerGoes(from, to) == CallerAt(from) /\ callerPc' = to

\* start() tests the status, then waits up to 30 s for the backend and goes on either way.
StartCheck ==
    /\ CallerGoes("idle", "start_running")
    /\ status # "RUNNING"
    /\ started < MaxRuns
    /\ UNCHANGED <<poolVars, published, controlVars, started, stops, stopped, snapshot, runVars, todo>>

StartRunning ==
    /\ CallerGoes("start_running", "start_result")
    /\ startTime' = started + 1
    /\ status' = "RUNNING"
    /\ UNCHANGED <<poolVars, result, endTime, stopEvent, current, started, stops, stopped,
                   snapshot, runVars, todo>>

StartResult ==
    /\ CallerGoes("start_result", "start_clear")
    /\ result' = NoRun
    /\ UNCHANGED <<poolVars, status, endTime, controlVars, started, stops, stopped, snapshot,
                   runVars, todo>>

\* Mutant of StartClear: the event of an earlier stop() is not cleared.
StartClearKeepsEvent ==
    /\ CallerGoes("start_clear", "start_submit")
    /\ UNCHANGED <<poolVars, published, controlVars, started, stops, stopped, snapshot, runVars, todo>>

StartClear ==
    /\ CallerGoes("start_clear", "start_submit")
    /\ stopEvent' = FALSE
    /\ UNCHANGED <<poolVars, published, current, startTime, started, stops, stopped, snapshot,
                   runVars, todo>>

\* submit_background raises out of start() once the pool is shut down; status stays RUNNING.
StartSubmit ==
    /\ \/ /\ CallerGoes("start_submit", "start_callback")
          /\ Submit(started + 1)
          /\ started' = started + 1
          /\ current' = started + 1
       \/ /\ CallerGoes("start_submit", "idle")
          /\ ~accepting
          /\ UNCHANGED <<poolVars, started, current>>
    /\ UNCHANGED <<published, stopEvent, startTime, stops, stopped, snapshot, runVars, todo>>

\* add_done_callback: a run already finished has its callback run here, in the caller.
StartCallback ==
    /\ CallerGoes("start_callback", "idle")
    /\ \/ AddCallback(current) /\ UNCHANGED todo
       \/ /\ InvokeCallbackNow(current)
          /\ todo' = [todo EXCEPT ![Caller] = CallbackWrites(outcome[current])]
    /\ UNCHANGED <<published, controlVars, started, stops, stopped, snapshot, runVars>>

\* Runs a stop() reaches: queued, executing, or with their callback still under way.
Unsettled(r) == Live(r) \/ \E t \in Threads : job[t] = r

StopEvent ==
    /\ CallerGoes("idle", "stop_cancel")
    /\ stops < MaxStops
    /\ stops' = stops + 1
    /\ stopEvent' = TRUE
    /\ stopped' = stopped \union {r \in Runs : Unsettled(r)}
    /\ UNCHANGED <<poolVars, published, current, startTime, started, snapshot, runVars, todo>>

CancelQueued(r) ==
    /\ CancelFuture(r)
    /\ outcome' = [outcome EXCEPT ![r] = "dequeued"]
    /\ todo' = [todo EXCEPT ![Caller] = CallbackWrites("dequeued")]

\* A second stop() finds no future: AttributeError, with the event set and nothing else done.
StopRaises ==
    /\ CallerGoes("stop_cancel", "idle")
    /\ current = NoRun
    /\ UNCHANGED <<poolVars, published, controlVars, started, stops, stopped, snapshot, runVars, todo>>

StopCancel ==
    /\ CallerGoes("stop_cancel", "stop_status")
    /\ current # NoRun
    /\ \/ CancelQueued(current)
       \/ future[current] # "pending" /\ UNCHANGED <<future, callback, job, outcome, todo>>
    /\ UNCHANGED <<queue, accepting, published, controlVars, started, stops, stopped, snapshot,
                   phase, sent>>

StopStatus ==
    /\ CallerGoes("stop_status", "stop_result")
    /\ status' = "STOPPED"
    /\ UNCHANGED <<poolVars, result, endTime, controlVars, started, stops, stopped, snapshot,
                   runVars, todo>>

StopResult ==
    /\ CallerGoes("stop_result", "idle")
    /\ result' = NoRun
    /\ current' = NoRun
    /\ UNCHANGED <<poolVars, status, endTime, stopEvent, startTime, started, stops, stopped,
                   snapshot, runVars, todo>>

ShutdownBegin ==
    /\ CallerGoes("idle", "shutdown")
    /\ accepting
    /\ accepting' = FALSE
    /\ UNCHANGED <<future, callback, queue, job, published, controlVars, started, stops, stopped,
                   snapshot, runVars, todo>>

\* cancel_futures=True: the queue is drained, each future cancelled in the caller.
ShutdownDrain ==
    /\ CallerAt("shutdown")
    /\ queue # << >>
    /\ queue' = Tail(queue)
    /\ \/ CancelQueued(Head(queue))
       \/ future[Head(queue)] # "pending" /\ UNCHANGED <<future, callback, job, outcome, todo>>
    /\ UNCHANGED <<accepting, published, controlVars, callVars, phase, sent>>

ShutdownEnd ==
    /\ CallerGoes("shutdown", "idle")
    /\ queue = << >>
    /\ UNCHANGED <<poolVars, published, controlVars, started, stops, stopped, snapshot, runVars, todo>>

\* wait_for_completion has seen a status other than RUNNING; get_result reads its four
\* attributes one by one (the start time, which only this thread writes, with the end time).
AwaitDone ==
    /\ CallerGoes("idle", "get_end")
    /\ started > 0
    /\ status # "RUNNING"
    /\ UNCHANGED <<poolVars, published, controlVars, started, stops, stopped, snapshot, runVars, todo>>

GetReads ==
    /\ \/ /\ CallerGoes("get_end", "get_result")
          /\ snapshot' = [snapshot EXCEPT !.start = startTime, !.end = endTime]
       \/ /\ CallerGoes("get_result", "get_status")
          /\ snapshot' = [snapshot EXCEPT !.result = result]
       \/ /\ CallerGoes("get_status", "got")
          /\ snapshot' = [snapshot EXCEPT !.status = status]
       \/ /\ CallerGoes("got", "idle")
          /\ snapshot' = Blank
    /\ UNCHANGED <<poolVars, published, controlVars, started, stops, stopped, runVars, todo>>

-----------------------------------------------------------------------------
(* A worker in _send_prompts.                                              *)

Goto(w, p) == phase' = [phase EXCEPT ![w] = p]

TakeRun(w) ==
    /\ Take(w)
    /\ Goto(w, "loop")
    /\ UNCHANGED <<published, controlVars, callVars, sent, outcome, todo>>

RunUnchanged == UNCHANGED <<poolVars, published, controlVars, callVars, todo>>

\* The event is looked at before each prompt.
Send(w) ==
    /\ phase[w] = "loop"
    /\ sent[job[w]] < Count
    /\ ~stopEvent
    /\ Goto(w, "sending")
    /\ UNCHANGED <<sent, outcome>> /\ RunUnchanged

Answered(w) ==
    /\ phase[w] = "sending"
    /\ sent' = [sent EXCEPT ![job[w]] = @ + 1]
    /\ Goto(w, "loop")
    /\ UNCHANGED outcome /\ RunUnchanged

\* Mutant of PromptFails: a prompt that fails ends the loop with the answers it has.
PromptFailsBreaks(w) ==
    /\ phase[w] = "sending"
    /\ outcome' = [outcome EXCEPT ![job[w]] = IF sent[job[w]] = 0 THEN "failed" ELSE "value"]
    /\ Goto(w, "finish")
    /\ UNCHANGED sent /\ RunUnchanged

\* complete() reports a failure, or lets an exception it does not expect through.
PromptFails(w) ==
    /\ phase[w] = "sending"
    /\ outcome' = [outcome EXCEPT ![job[w]] = "failed"]
    /\ Goto(w, "finish")
    /\ UNCHANGED sent /\ RunUnchanged

\* All prompts are answered, or the event is set: the last answer is the result, if there is one.
LoopEnds(w) ==
    /\ phase[w] = "loop"
    /\ sent[job[w]] = Count \/ stopEvent
    /\ outcome' = [outcome EXCEPT ![job[w]] = IF sent[job[w]] = 0 THEN "unsent" ELSE "value"]
    /\ Goto(w, "finish")
    /\ UNCHANGED sent /\ RunUnchanged

Finish(w) ==
    /\ phase[w] = "finish"
    /\ FinishFuture(w)
    /\ todo' = [todo EXCEPT ![w] = IF callback[job[w]] = "added"
                                     THEN CallbackWrites(outcome[job[w]]) ELSE << >>]
    /\ Goto(w, "publish")
    /\ UNCHANGED <<published, controlVars, callVars, sent, outcome>>

DropCancelled ==
    /\ \E w \in Workers : job[w] = NoRun
    /\ Drop
    /\ UNCHANGED <<published, controlVars, callVars, runVars, todo>>

-----------------------------------------------------------------------------
CallerResumes ==
    \/ StartRunning \/ StartResult \/ StartClear \/ StartSubmit \/ StartCallback
    \/ StopRaises \/ StopCancel \/ StopStatus \/ StopResult
    \/ ShutdownDrain \/ ShutdownEnd
    \/ GetReads

WorkerStep(w) ==
    TakeRun(w) \/ Send(w) \/ Answered(w) \/ PromptFails(w) \/ LoopEnds(w) \/ Finish(w)

Next ==
    \/ StartCheck \/ StopEvent \/ ShutdownBegin \/ AwaitDone
    \/ CallerResumes
    \/ \E w \in Workers : WorkerStep(w)
    \/ \E t \in Threads : Publish(t) \/ CallbackReturns(t)
    \/ DropCancelled

ThreadStep(t) ==
    \/ Publish(t) \/ CallbackReturns(t)
    \/ t = Caller /\ CallerResumes
    \/ t \in Workers /\ WorkerStep(t)

\* Threads that can run do, and each request is answered or times out (VllmConfig.timeout).
Fairness ==
    /\ \A t \in Threads : WF_vars(ThreadStep(t))
    /\ WF_vars(DropCancelled)

Spec == Init /\ [][Next]_vars /\ Fairness
-----------------------------------------------------------------------------
(* Properties.                                                             *)

\* What a stop() does to a run it is done to that run only: a run that ends short of its prompts
\* without a failed one, as a partial success or, before the first answer, as an error, is a run
\* stop() was called on; and a run that counts as a success has an answer to show.
StopsAreOwn ==
    \A r \in Runs :
        /\ outcome[r] = "value" /\ sent[r] < Count => r \in stopped
        /\ outcome[r] = "unsent" => r \in stopped
        /\ outcome[r] = "value" => sent[r] > 0

\* get_result reads its attributes without a lock.  After wait_for_completion, and if stop() was
\* never called, the answer is whole: its end time is the run's, and a COMPLETED one has its result.
SnapshotWhole ==
    callerPc = "got" /\ stops = 0 /\ snapshot.status \in {"COMPLETED", "ERROR"}
        => /\ snapshot.end = snapshot.start
           /\ snapshot.status = "COMPLETED" => snapshot.result = snapshot.start

Settled ==
    /\ CallerAt("idle")
    /\ \A w \in Workers : job[w] = NoRun
    /\ queue = << >>

\* Once everything settles, COMPLETED or ERROR is said of the latest run that executed; its
\* result is there unless a stop() on that run erased it; and a run that failed by itself, with
\* no stop() on it, is not reported as a success or left RUNNING.  Only while the pool accepts
\* runs: a shutdown may stamp the end of a run it cancels after a later run has ended.
SettledIsLatest ==
    Settled /\ accepting /\ started > 0 /\ startTime = started /\ outcome[started] # "dequeued"
        => /\ status = "COMPLETED" =>
                  /\ outcome[started] = "value" /\ endTime = started
                  /\ result = started \/ (result = NoRun /\ started \in stopped)
           /\ status = "ERROR" => outcome[started] \in {"failed", "unsent"} /\ endTime = started
           /\ outcome[started] = "failed" /\ stops = 0 => status = "ERROR"

\* At rest or right after wait_for_completion, the unlocked attributes tell of one run, the latest.
ResultsAreLatest == SettledIsLatest /\ SnapshotWhole

\* wait_for_completion ends: a workload the caller sees RUNNING leaves that status, unless the
\* pool was shut down, which leaves what it cancelled RUNNING for ever.
RunningEnds ==
    (callerPc = "idle" /\ status = "RUNNING") ~> (status # "RUNNING" \/ ~accepting)

=============================================================================
