----------------------------- MODULE ThreadPool -----------------------------
(***************************************************************************)
(* The thread pool every Workload owns, and the futures it hands out:      *)
(* concurrent.futures as Workload.submit_background and                    *)
(* Workload.shutdown_executor use it (workload.py:34-66).  A run is the    *)
(* callable one start() submits; runs are numbered in the order of the     *)
(* start() calls.  This module holds the pool's state and operations; the  *)
(* workload modules extend it and say what a run does.                     *)
(*                                                                         *)
(* A done callback runs in whichever thread makes the future done: the     *)
(* worker that finishes it, the caller that cancels it, or the caller that *)
(* adds it to a future already done.  job[t] is the run thread t is        *)
(* executing or running the callback of.                                   *)
(***************************************************************************)
EXTENDS Naturals, Sequences, FiniteSets

CONSTANTS
    Workers,    \* the pool's threads; Workload's default is one
    Caller,     \* the thread that calls start, stop, get_result
    MaxRuns     \* bound: start() calls explored

ASSUME PoolAssumption ==
    /\ Workers # {}
    /\ Caller \notin Workers
    /\ MaxRuns \in Nat \ {0}

Runs == 1..MaxRuns
NoRun == 0
Threads == Workers \union {Caller}

VARIABLES
    future,     \* state of each run's Future
    callback,   \* whether its done callback is added, and whether it has been invoked
    queue,      \* the executor's work queue: runs submitted and not yet taken
    job,        \* the run each thread is busy with, or NoRun
    accepting   \* FALSE once shutdown_executor has been called

poolVars == <<future, callback, queue, job, accepting>>

FutureStates == {"none", "pending", "running", "finished", "cancelled"}

PoolTypeOK ==
    /\ future \in [Runs -> FutureStates]
    /\ callback \in [Runs -> {"unset", "added", "invoked"}]
    /\ queue \in Seq(Runs)
    /\ job \in [Threads -> Runs \union {NoRun}]
    /\ accepting \in BOOLEAN

PoolInit ==
    /\ future = [r \in Runs |-> "none"]
    /\ callback = [r \in Runs |-> "unset"]
    /\ queue = << >>
    /\ job = [t \in Threads |-> NoRun]
    /\ accepting = TRUE

FutureDone(r) == future[r] \in {"finished", "cancelled"}

\* Runs in the pool: their callable has not returned and has not been cancelled.
Live(r) == future[r] \in {"pending", "running"}

\* Executor.submit: raises once the pool is shut down, which the guard leaves to the caller.
Submit(r) ==
    /\ accepting
    /\ future' = [future EXCEPT ![r] = "pending"]
    /\ queue' = Append(queue, r)
    /\ UNCHANGED <<callback, job, accepting>>

\* Future.add_done_callback on a future that is not done: remembered for later.
AddCallback(r) ==
    /\ ~FutureDone(r)
    /\ callback' = [callback EXCEPT ![r] = "added"]
    /\ UNCHANGED <<future, queue, job, accepting>>

\* Future.add_done_callback on a done future: the caller invokes it itself.
InvokeCallbackNow(r) ==
    /\ FutureDone(r)
    /\ callback' = [callback EXCEPT ![r] = "invoked"]
    /\ job' = [job EXCEPT ![Caller] = r]
    /\ UNCHANGED <<future, queue, accepting>>

\* Future.cancel succeeds only while the run is still queued; the canceller runs the callback.
CancelFuture(r) ==
    /\ future[r] = "pending"
    /\ future' = [future EXCEPT ![r] = "cancelled"]
    /\ callback' = [callback EXCEPT ![r] = "invoked"]
    /\ job' = [job EXCEPT ![Caller] = r]

\* A worker takes the oldest queued run.
Take(w) ==
    /\ job[w] = NoRun
    /\ queue # << >>
    /\ future[Head(queue)] = "pending"
    /\ queue' = Tail(queue)
    /\ future' = [future EXCEPT ![Head(queue)] = "running"]
    /\ job' = [job EXCEPT ![w] = Head(queue)]
    /\ UNCHANGED <<callback, accepting>>

\* A run cancelled while queued is dropped (set_running_or_notify_cancel returns False).
Drop ==
    /\ queue # << >>
    /\ future[Head(queue)] = "cancelled"
    /\ queue' = Tail(queue)
    /\ UNCHANGED <<future, callback, job, accepting>>

\* Future.set_result or set_exception; the worker then invokes the callback if it is added.
FinishFuture(w) ==
    /\ future' = [future EXCEPT ![job[w]] = "finished"]
    /\ callback' = [callback EXCEPT ![job[w]] = IF @ = "added" THEN "invoked" ELSE @]
    /\ UNCHANGED <<queue, job, accepting>>

\* Thread t is done with its run and the run's callback.
Release(t) ==
    /\ job' = [job EXCEPT ![t] = NoRun]
    /\ UNCHANGED <<future, callback, queue, accepting>>
=============================================================================
