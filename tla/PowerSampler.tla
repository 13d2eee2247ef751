---------------------------- MODULE PowerSampler ----------------------------
(***************************************************************************)
(* PowerSampler (agentx/power.py): a thread reads GPU power, then server   *)
(* power, every few seconds, until stop sets its event, joins it for a     *)
(* time, and sums up the lists it filled.  Readings are commands that      *)
(* run_command (helper.py) kills at a timeout.  Where server power is read *)
(* under sudo by a caller that is not root, the kill is refused and        *)
(* subprocess.run waits for the command without a limit.  The object may   *)
(* be started again once its thread has ended; no caller here does so      *)
(* earlier.                                                                *)
(***************************************************************************)
EXTENDS Naturals

CONSTANTS
    GpuTimeout, ServerTimeout, JoinTimeout,     \* in ticks of 15 seconds
    MaxSamples                                  \* bound: samples taken

VARIABLES
    server,             \* server power is wanted
    killable,           \* the server's command can be killed: by root, or it is ssh to a host
    stopping,           \* the event
    thread, caller,     \* where they are
    busy, joined,       \* ticks of the reading under way, and of the join
    samples, gpu, wall, errors,     \* samples begun; readings taken; kinds that ever failed
    summary,            \* what stop answered last
    outlasted           \* history: the thread was at work when it did

vars ==
    <<server, killable, stopping, thread, caller, busy, joined, samples, gpu, wall, errors, summary, outlasted>>
setting == <<server, killable>>
answer == <<summary, outlasted>>
lists == <<samples, gpu, wall, errors>>

Figures == [samples |-> samples, gpu |-> gpu, wall |-> wall, errors |-> errors]

Init ==
    /\ server \in BOOLEAN /\ killable \in BOOLEAN /\ stopping = FALSE /\ thread = "none" /\ caller = "out"
    /\ busy = 0 /\ joined = 0
    /\ samples = 0 /\ gpu = 0 /\ wall = 0 /\ errors = {}
    /\ summary = Figures /\ outlasted = FALSE

Start ==
    /\ caller = "out" /\ thread \in {"none", "ended"} /\ samples < MaxSamples
    /\ stopping' = FALSE /\ thread' = "loop" /\ caller' = "started"
    /\ UNCHANGED <<setting, busy, joined, lists, answer>>

Stop ==
    /\ caller \in {"out", "started"}
    /\ stopping' = TRUE /\ caller' = "join" /\ joined' = 0
    /\ UNCHANGED <<setting, thread, busy, lists, answer>>

JoinFor == JoinTimeout
StopReturns ==
    /\ caller = "join" /\ (thread \in {"none", "ended"} \/ joined = JoinFor)
    /\ summary' = Figures /\ outlasted' = (thread \notin {"none", "ended"}) /\ caller' = "out"
    /\ UNCHANGED <<setting, stopping, thread, busy, joined, lists>>

-----------------------------------------------------------------------------
(* The thread. *)

Loop ==
    /\ thread = "loop"
    /\ \/ stopping /\ thread' = "ended" /\ UNCHANGED samples
       \/ ~stopping /\ samples < MaxSamples /\ thread' = "gpu" /\ samples' = samples + 1
    /\ busy' = 0
    /\ UNCHANGED <<setting, stopping, caller, joined, gpu, wall, errors, answer>>
ReadGpu ==
    /\ thread = "gpu"
    /\ \/ gpu' = gpu + 1 /\ UNCHANGED errors
       \/ errors' = errors \union {"gpu"} /\ UNCHANGED gpu
    /\ thread' = (IF server THEN "server" ELSE "wait") /\ busy' = 0
    /\ UNCHANGED <<setting, stopping, caller, joined, samples, wall, answer>>
\* Its timeout was met by a refused kill: the answer is an error, whatever the command says in the end.
Overdue == busy > ServerTimeout
ReadServer ==
    /\ thread = "server"
    /\ \/ ~Overdue /\ wall' = wall + 1 /\ UNCHANGED errors
       \/ errors' = errors \union {"server"} /\ UNCHANGED wall
    /\ thread' = "wait" /\ busy' = 0
    /\ UNCHANGED <<setting, stopping, caller, joined, samples, gpu, answer>>
\* The interval is over, or the event set.
Wake ==
    /\ thread = "wait" /\ thread' = "loop"
    /\ UNCHANGED <<setting, stopping, caller, busy, joined, lists, answer>>

\* Time passes in readings alone; a command is over at its timeout if it can be killed.
Tick ==
    /\ \/ thread = "gpu" /\ busy < GpuTimeout
       \/ thread = "server" /\ (busy < ServerTimeout \/ ~killable)
    /\ busy' = IF thread = "server" /\ Overdue THEN busy ELSE busy + 1
    /\ joined' = IF caller = "join" /\ joined < JoinTimeout THEN joined + 1 ELSE joined
    /\ UNCHANGED <<setting, stopping, thread, caller, lists, answer>>

Next == Start \/ Stop \/ StopReturns \/ Loop \/ ReadGpu \/ ReadServer \/ Wake \/ Tick
Spec == Init /\ [][Next]_vars

-----------------------------------------------------------------------------
TypeOK ==
    /\ gpu <= samples /\ wall <= samples /\ samples <= MaxSamples
    /\ thread \in {"none", "loop", "gpu", "server", "wait", "ended"}

\* What stop answers is of all that was sampled, with no reading added behind it and no sample counted
\* that has neither reading nor error, as the join outlasts the longest sample.  Where the server's
\* command cannot be killed it may not: then the one reading under way is neither, and no more.
SummarySettled ==
    caller = "out" =>
        /\ IF outlasted THEN ~killable ELSE summary = Figures
        /\ summary.gpu < summary.samples => "gpu" \in summary.errors
        /\ server /\ summary.wall + (IF outlasted THEN 1 ELSE 0) < summary.samples => "server" \in summary.errors
=============================================================================
