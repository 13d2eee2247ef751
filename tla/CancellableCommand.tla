------------------------- MODULE CancellableCommand -------------------------
(***************************************************************************)
(* run_cancellable_command (helper.py:85-187): one command run in a        *)
(* session of its own, waited for in slices of communicate(), and          *)
(* terminated with its whole process group when the event is set or the    *)
(* deadline has passed.                                                    *)
(*                                                                         *)
(* communicate() returns once every pipe of the command is closed and the  *)
(* command has exited.  Children inherit the pipes and the process group;  *)
(* a child may leave the group (setsid), close its pipes, ignore SIGTERM   *)
(* or outlive its parent.  A process may come to run as a user the caller  *)
(* may not signal (sudo); killpg then raises PermissionError or passes it  *)
(* over, and _signal_group takes either for done.                          *)
(***************************************************************************)
EXTENDS Naturals

CONSTANTS
    Leader,     \* the process Popen starts, leader of its session and group
    Children,   \* the processes it and its children may fork
    MaxTicks    \* bound: how often the caller may set or clear the event

ASSUME ProcessAssumption == Leader \notin Children /\ MaxTicks \in Nat

VARIABLES
    pc,             \* where the function is
    verdict,        \* what it has decided to report, "no" before that
    cancelEvent, expired,
    pending,        \* pending_input: none, a text, or a text the pipe's encoding refuses
    talking,        \* a communicate() has been made: input must not be given again
    alive, forked,  \* processes that run, and that ever ran
    group,          \* processes in the command's process group
    foreign,        \* processes that have run as another user, or whose parents had
    pipes,          \* processes that hold the command's pipes
    flips           \* changes of the event so far

callVars == <<pc, verdict, pending, talking>>
worldVars == <<alive, forked, group, pipes, foreign>>
vars == <<callVars, worldVars, cancelEvent, expired, flips>>

Procs == Children \union {Leader}
Inputs == {"none", "text", "unencodable"}

TypeOK ==
    /\ pc \in {"launch", "poll", "wait", "term_wait", "kill_wait", "returned", "raised"}
    /\ verdict \in {"no", "unlaunched", "zero", "nonzero", "error", "cancel", "timeout"}
    /\ cancelEvent \in BOOLEAN /\ expired \in BOOLEAN
    /\ pending \in Inputs /\ talking \in BOOLEAN
    /\ alive \subseteq forked /\ forked \subseteq Procs
    /\ group \subseteq forked /\ pipes \subseteq forked /\ foreign \subseteq forked
    /\ flips \in 0..MaxTicks

Init ==
    /\ pc = "launch" /\ verdict = "no"
    /\ cancelEvent \in BOOLEAN /\ expired = FALSE
    /\ pending \in Inputs /\ talking = FALSE
    /\ alive = {} /\ forked = {} /\ group = {} /\ pipes = {} /\ foreign = {}
    /\ flips = 0

\* Every pipe is closed and the command has exited: communicate() returns.
Drained == Leader \notin alive /\ pipes \intersect alive = {}

\* Mutant of Launch: no start_new_session, so the group is not the command's own.
LaunchSharedGroup ==
    /\ pc = "launch"
    /\ pc' = "poll"
    /\ alive' = {Leader} /\ forked' = {Leader} /\ group' = Procs /\ pipes' = {Leader}
    /\ UNCHANGED <<verdict, pending, talking, foreign, cancelEvent, expired, flips>>

Launch ==
    /\ pc = "launch"
    /\ \/ /\ pc' = "poll"
          /\ alive' = {Leader} /\ forked' = {Leader} /\ group' = {Leader} /\ pipes' = {Leader}
          /\ UNCHANGED verdict
       \/ /\ pc' = "returned" /\ verdict' = "unlaunched"
          /\ UNCHANGED <<alive, forked, group, pipes>>
    /\ UNCHANGED <<pending, talking, foreign, cancelEvent, expired, flips>>

\* Mutant of KilledBySigkill: os.kill of the command alone, not of its group.
KilledLeaderOnly == {alive \ {Leader}}
\* _signal_group SIGKILL: those of the group that never left the caller's reach are dead; the
\* others may be.
KilledBySigkill ==
    {S \in SUBSET alive : alive \ S \subseteq group /\ S \intersect group \subseteq foreign}

\* _signal_group SIGTERM: each process of the group dies of it, handles it or never gets it.
Terminated == {S \in SUBSET alive : alive \ S \subseteq group}

\* The loop's two looks, at the event and then at the clock, and the SIGTERM that follows.
Poll ==
    /\ pc = "poll"
    /\ \/ /\ cancelEvent \/ expired
          /\ verdict' = IF cancelEvent THEN "cancel" ELSE "timeout"
          /\ alive' \in Terminated
          /\ pc' = "term_wait"
       \/ /\ ~cancelEvent /\ ~expired
          /\ pc' = "wait"
          /\ UNCHANGED <<verdict, alive>>
    /\ UNCHANGED <<pending, talking, forked, group, pipes, foreign, cancelEvent, expired, flips>>

\* communicate() refuses input once it has begun to talk.
InputRefused == pending # "none" /\ talking

\* It raises for input given twice and, with the command running, for input it cannot encode; any
\* other exception of it (output that does not decode) comes after the command has exited.
WaitRaises ==
    /\ pc = "wait"
    /\ InputRefused \/ pending = "unencodable" \/ Drained
    /\ pc' = "returned" /\ verdict' = "error"
    /\ UNCHANGED <<pending, talking, worldVars, cancelEvent, expired, flips>>

WaitExit ==
    /\ pc = "wait"
    /\ Drained /\ ~InputRefused /\ pending # "unencodable"
    /\ pc' = "returned" /\ verdict' \in {"zero", "nonzero"}
    /\ pending' = "none" /\ talking' = TRUE
    /\ UNCHANGED <<worldVars, cancelEvent, expired, flips>>

\* TimeoutExpired: the slice is over and the loop looks again.
WaitSlice ==
    /\ pc = "wait"
    /\ ~Drained /\ ~InputRefused /\ pending # "unencodable"
    /\ pc' = "poll"
    /\ pending' = "none" /\ talking' = TRUE
    /\ UNCHANGED <<verdict, worldVars, cancelEvent, expired, flips>>

\* _finish_terminated after SIGTERM: the end of the pipes, or 30 seconds and then SIGKILL.
TermWait ==
    /\ pc = "term_wait"
    /\ \/ Drained /\ pc' = "returned" /\ UNCHANGED alive
       \/ ~Drained /\ pc' = "kill_wait" /\ alive' \in KilledBySigkill
    /\ UNCHANGED <<verdict, pending, talking, forked, group, pipes, foreign,
                   cancelEvent, expired, flips>>

\* Mutants of KillWait: a second communicate() without a timeout; a verdict made anew.
KillWaitForEver ==
    /\ pc = "kill_wait"
    /\ Drained
    /\ pc' = "returned"
    /\ UNCHANGED <<verdict, pending, talking, worldVars, cancelEvent, expired, flips>>
KillWaitRejudges ==
    /\ pc = "kill_wait"
    /\ pc' = "returned" /\ verdict' = IF expired THEN "timeout" ELSE "cancel"
    /\ UNCHANGED <<pending, talking, worldVars, cancelEvent, expired, flips>>

\* After SIGKILL: the end of the pipes, or 30 seconds more and the pipes are given up.  An
\* exception of this communicate() is caught by no clause and leaves the function.
KillWait ==
    /\ pc = "kill_wait"
    /\ pc' = "returned" \/ (Drained /\ pc' = "raised")
    /\ UNCHANGED <<verdict, pending, talking, worldVars, cancelEvent, expired, flips>>

-----------------------------------------------------------------------------
(* The processes, the clock and the caller's event.                        *)

Fork(p, c) ==
    /\ p \in alive /\ c \in Children \ forked
    /\ alive' = alive \union {c} /\ forked' = forked \union {c}
    /\ group' = IF p \in group THEN group \union {c} ELSE group
    /\ pipes' = IF p \in pipes THEN pipes \union {c} ELSE pipes
    /\ foreign' = IF p \in foreign THEN foreign \union {c} ELSE foreign
    /\ UNCHANGED <<callVars, cancelEvent, expired, flips>>

\* setsid: only a process that leads no group can leave its group.
LeaveGroup(p) ==
    /\ p \in alive \intersect group /\ p # Leader
    /\ group' = group \ {p}
    /\ UNCHANGED <<callVars, alive, forked, pipes, foreign, cancelEvent, expired, flips>>

ClosePipes(p) ==
    /\ p \in alive \intersect pipes
    /\ pipes' = pipes \ {p}
    /\ UNCHANGED <<callVars, alive, forked, group, foreign, cancelEvent, expired, flips>>

\* sudo, or a setuid program: from here on the caller's signals may be refused.
ChangeUser(p) ==
    /\ p \in alive \ foreign
    /\ foreign' = foreign \union {p}
    /\ UNCHANGED <<callVars, alive, forked, group, pipes, cancelEvent, expired, flips>>

Exit(p) ==
    /\ p \in alive
    /\ alive' = alive \ {p}
    /\ UNCHANGED <<callVars, forked, group, pipes, foreign, cancelEvent, expired, flips>>

Expire ==
    /\ ~expired /\ pc # "launch"
    /\ expired' = TRUE
    /\ UNCHANGED <<callVars, worldVars, cancelEvent, flips>>

FlipEvent ==
    /\ flips < MaxTicks
    /\ flips' = flips + 1
    /\ cancelEvent' = ~cancelEvent
    /\ UNCHANGED <<callVars, worldVars, expired>>

Function == Launch \/ Poll \/ WaitRaises \/ WaitExit \/ WaitSlice \/ TermWait \/ KillWait

Next ==
    \/ Function
    \/ \E p \in Procs :
          \/ \E c \in Children : Fork(p, c)
          \/ LeaveGroup(p) \/ ClosePipes(p) \/ ChangeUser(p) \/ Exit(p)
    \/ Expire \/ FlipEvent

\* The function's thread runs; the processes may hang for ever, and the deadline may be never.
Spec == Init /\ [][Next]_vars /\ WF_vars(Function)
-----------------------------------------------------------------------------
(* Properties.                                                             *)

CR == INSTANCE CommandRun WITH
        stage <- CASE pc \in {"term_wait", "kill_wait"} -> "terminate"
                   [] pc = "returned" -> "done"
                   [] OTHER -> pc,
        verdict <- IF verdict = "error" THEN "nonzero" ELSE verdict

\* The function is the run its callers reckon with (CommandRun): looks and waits with
\* two timeouts inside come out as one command that exits or is terminated as the look decided.
ImplementsCommandRun == CR!Spec

\* It always answers once the deadline passes: a child that keeps the pipes open, in the group or
\* out of it, or that ignores SIGTERM, delays the answer by the two 30-second waits and no longer.
DeadlineAnswers == <>expired => CR!Answers

\* And without any deadline the event alone ends it, if the caller leaves the event set.
StopAnswers == <>[]cancelEvent => CR!Answers

\* A call ends, by its deadline or by its event, whatever the processes it started do.
CallsAnswer == DeadlineAnswers /\ StopAnswers

\* The comment in _finish_terminated: when a terminated command has been answered for, no
\* process of its group still holds its pipes, but those that may have been out of the caller's
\* reach when it sent SIGKILL.
GroupReleasesPipes ==
    pc = "returned" /\ verdict \in {"cancel", "timeout"}
        => alive \intersect group \intersect pipes \subseteq foreign

\* An exception of communicate() is answered with -1 and no signal, so it must only come once
\* the command is dead; the input given once and withdrawn before the next slice sees to that,
\* for every input but one that does not encode, whose command runs on.
ErrorLeavesNoCommand == verdict = "error" => Leader \notin alive \/ pending = "unencodable"

\* However a call ends, what it leaves running that its caller was told is over is a process the
\* caller may not signal, or the command of an input that does not encode.
NothingLeftBehind == GroupReleasesPipes /\ ErrorLeavesNoCommand
=============================================================================
