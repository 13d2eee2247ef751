---------------------------- MODULE BenchmarkRuns ----------------------------
(***************************************************************************)
(* What the benchmark workloads make of one command (AgentX, InferenceX,   *)
(* NCCL): the command writes its output, or not, and ends well or badly;   *)
(* stop may come at any moment of it; the run then reads back files and    *)
(* streams, which an earlier run may have written.  How a run is started   *)
(* and settled is CommandWorkload's.                                       *)
(***************************************************************************)
EXTENDS Naturals

CONSTANTS
    MaxRuns             \* bound: runs of one workload

VARIABLES
    kind, pc, run,      \* the workload; where its run is; runs so far
    file, scores, plots,    \* in AgentX's run directory: by what run each was written, 0 for none
    stream,             \* of the command: what stdout and stderr carry, by run
    success, cancelled, \* how the command ended; the cancel event
    stopped,            \* the event was set when the command ended; for the properties
    commandResult,      \* there is one
    outcome             \* "none", or what the run came to

vars == <<kind, pc, run, file, scores, plots, stream, success, cancelled, stopped, commandResult, outcome>>
directory == <<file, scores, plots>>

None == [status |-> "none", of |-> 0, scored |-> 0, plotted |-> 0, exitError |-> FALSE]
Silent == [stdout |-> 0, stderr |-> 0]

Init ==
    /\ kind \in {"agentx", "inferencex", "nccl"}
    /\ pc = "idle" /\ run = 0 /\ file = [of |-> 0, torn |-> FALSE] /\ scores = 0 /\ plots = 0
    /\ stream = Silent /\ success = FALSE /\ cancelled = FALSE /\ stopped = FALSE /\ commandResult = FALSE
    /\ outcome = None

\* Of a workload that runs no more.
Start ==
    /\ pc = "idle" /\ run < MaxRuns /\ run' = run + 1
    /\ cancelled' = FALSE /\ commandResult' = FALSE /\ outcome' = None
    /\ stream' = Silent /\ pc' = "command"
    /\ UNCHANGED <<kind, directory, success, stopped>>

Stop ==
    /\ pc # "idle" /\ ~cancelled /\ cancelled' = TRUE
    /\ UNCHANGED <<kind, pc, run, directory, stream, success, stopped, commandResult, outcome>>

\* The command, and what it leaves.  aiperf may write its export before it fails, and be killed in
\* the middle; InferenceX prints its file only when the benchmark succeeded (`&&`); nccl-tests print
\* their table on either stream.
Writes ==
    CASE kind = "agentx" ->
            /\ file' \in {file} \union {[of |-> run, torn |-> t] : t \in BOOLEAN}
            /\ UNCHANGED stream
      [] kind = "inferencex" ->
            /\ stream' \in {Silent} \union (IF success' THEN {[Silent EXCEPT !.stdout = run]} ELSE {})
            /\ UNCHANGED file
      [] kind = "nccl" ->
            /\ stream' \in [stdout : {0, run}, stderr : {0, run}]
            /\ UNCHANGED file

\* It may not start at all, which raises.
Command ==
    /\ pc = "command"
    /\ \/ success' \in BOOLEAN /\ Writes /\ commandResult' = TRUE
       \/ success' = FALSE /\ commandResult' = FALSE /\ UNCHANGED <<file, stream>>
    /\ stopped' = cancelled /\ pc' = "check"
    /\ UNCHANGED <<kind, run, scores, plots, cancelled, outcome>>

-----------------------------------------------------------------------------
(* _run_command_sync and parse_output. *)

Settle(o) == outcome' = o /\ pc' = "idle" /\ UNCHANGED <<scores, plots>>
Ended(status) == [None EXCEPT !.status = status]

Exported == file.of # 0

Stopped == commandResult /\ cancelled
Rescued == kind = "agentx" /\ commandResult /\ Exported

\* As if AgentX's except clause took WorkloadCancelled too.
CheckRescuesAll ==
    /\ pc = "check"
    /\ IF success \/ Rescued THEN pc' = "parse" /\ UNCHANGED <<outcome, scores, plots>>
       ELSE Settle(Ended(IF Stopped THEN "stopped" ELSE "error"))
    /\ UNCHANGED <<kind, run, file, stream, success, cancelled, stopped, commandResult>>
\* WorkloadCancelled is no RuntimeError: it passes AgentX's except clause.
Check ==
    /\ pc = "check"
    /\ IF success \/ (Rescued /\ ~Stopped) THEN pc' = "parse" /\ UNCHANGED <<outcome, scores, plots>>
       ELSE Settle(Ended(IF Stopped THEN "stopped" ELSE "error"))
    /\ UNCHANGED <<kind, run, file, stream, success, cancelled, stopped, commandResult>>

\* Scoring and plotting write their own files, or fail; both are read from the run directory.
ParseAgentx ==
    /\ pc = "parse" /\ kind = "agentx"
    /\ IF ~Exported \/ file.torn THEN Settle(Ended("error"))
       ELSE /\ scores' \in {scores, run} /\ plots' \in {plots, run}
            /\ \E scored \in {0, scores'} :
                  outcome' = [status |-> "completed", of |-> file.of, scored |-> scored, plotted |-> plots',
                              exitError |-> ~success]
            /\ pc' = "idle"
    /\ UNCHANGED <<kind, run, file, stream, success, cancelled, stopped, commandResult>>

\* BenchmarkResultMissing without the indicator and its JSON.
ParseInferencex ==
    /\ pc = "parse" /\ kind = "inferencex"
    /\ IF stream.stdout = 0 THEN Settle(Ended("error"))
       ELSE Settle([Ended("completed") EXCEPT !.of = stream.stdout])
    /\ UNCHANGED <<kind, run, file, stream, success, cancelled, stopped, commandResult>>

\* The stream that has samples; none is a result without any.
ParseNccl ==
    /\ pc = "parse" /\ kind = "nccl"
    /\ Settle([Ended("completed") EXCEPT !.of = IF stream.stdout = 0 THEN stream.stderr ELSE stream.stdout])
    /\ UNCHANGED <<kind, run, file, stream, success, cancelled, stopped, commandResult>>

Next == Start \/ Stop \/ Command \/ Check \/ ParseAgentx \/ ParseInferencex \/ ParseNccl
Spec == Init /\ [][Next]_vars

-----------------------------------------------------------------------------
TypeOK ==
    /\ file.of \in 0..run /\ scores \in 0..run /\ plots \in 0..run
    /\ stream \in [stdout : 0..run, stderr : 0..run]

\* A command that failed never becomes a result without saying so, and one that failed because it
\* was stopped never becomes one; a result has numbers of this run, of an earlier one only when
\* AgentX's run directory was used before.
ResultsAreOwn ==
    outcome.status = "completed" =>
        /\ ~success => kind = "agentx" /\ outcome.exitError /\ ~stopped
        /\ kind # "agentx" \/ run = 1 =>
              {outcome.of, outcome.scored, outcome.plotted} \subseteq {0, run}
        /\ kind # "nccl" => outcome.of # 0
=============================================================================
