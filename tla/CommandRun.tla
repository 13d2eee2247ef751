----------------------------- MODULE CommandRun -----------------------------
(***************************************************************************)
(* What run_cancellable_command promises its caller: the abstract          *)
(* specification that CancellableCommand.tla implements and that each run  *)
(* of CommandWorkload.tla goes through.                                    *)
(*                                                                         *)
(* One command is launched or fails to be, is waited for in slices, and    *)
(* ends by exiting or by being terminated; it is terminated only when a    *)
(* look at the event or at the clock, taken between two slices, says so,   *)
(* and that look alone decides how the end is reported.                    *)
(***************************************************************************)

VARIABLES
    stage,          \* "launch", "poll", "wait", "terminate", "done" or "raised"
    verdict,        \* how the command ended, "no" while nothing is decided
    cancelEvent,    \* the caller's event, which the caller sets and clears at will
    expired         \* whether the deadline has passed

vars == <<stage, verdict, cancelEvent, expired>>

Init ==
    /\ stage = "launch"
    /\ verdict = "no"
    /\ cancelEvent \in BOOLEAN
    /\ expired = FALSE

Launch ==
    /\ stage = "launch"
    /\ \/ stage' = "poll" /\ UNCHANGED verdict
       \/ stage' = "done" /\ verdict' = "unlaunched"
    /\ UNCHANGED <<cancelEvent, expired>>

\* The event is looked at first: a command both stopped and late counts as stopped.
Poll ==
    /\ stage = "poll"
    /\ \/ cancelEvent /\ stage' = "terminate" /\ verdict' = "cancel"
       \/ ~cancelEvent /\ expired /\ stage' = "terminate" /\ verdict' = "timeout"
       \/ ~cancelEvent /\ ~expired /\ stage' = "wait" /\ UNCHANGED verdict
    /\ UNCHANGED <<cancelEvent, expired>>

Wait ==
    /\ stage = "wait"
    /\ \/ stage' = "poll" /\ UNCHANGED verdict
       \/ stage' = "done" /\ verdict' \in {"zero", "nonzero"}
    /\ UNCHANGED <<cancelEvent, expired>>

\* A terminated command is over, or an exception leaves the function: the look stands as taken.
Terminate ==
    /\ stage = "terminate"
    /\ stage' \in {"done", "raised"}
    /\ UNCHANGED <<verdict, cancelEvent, expired>>

Environment ==
    /\ \/ cancelEvent' = ~cancelEvent /\ UNCHANGED expired
       \/ expired' = TRUE /\ UNCHANGED cancelEvent
    /\ UNCHANGED <<stage, verdict>>

Next == Launch \/ Poll \/ Wait \/ Terminate \/ Environment

Spec == Init /\ [][Next]_vars

\* It answers: a command launched is over some day, by itself or by the deadline.
Answers == (stage = "poll") ~> (stage \in {"done", "raised"})
=============================================================================
