------------------------------ MODULE MCCluster ------------------------------
(***************************************************************************)
(* The Kubernetes client's calls for TLC.  A behaviour makes one call that *)
(* changes a deployment's pods, or reads the health of a pod, or reports   *)
(* on pods, or forwards local ports, or waits for something.  They share   *)
(* no state, so their state spaces are added and not multiplied.           *)
(***************************************************************************)
EXTENDS KubeClient

CONSTANTS
    HealthContainers, Grace, Window, Ceiling, MaxTime, MaxRestarts,     \* PodHealth
    Services, LocalPorts, MaxForwards,                                  \* LocalPortForwarder
    Items, Timeouts, Interval, MaxProbe, MaxChanges,                    \* Polling
    ReportPods, ReportContainers, MaxCrashes                            \* PodReport

\* No local port is 0, which stands for none; the waits sleep some time between their probes; no
\* two containers of a pod have one name.
ASSUME ClusterAssumption ==
    /\ {Grace, Window, Ceiling} \subseteq Nat
    /\ 0 \notin LocalPorts
    /\ Timeouts \subseteq Nat /\ Interval \in Nat \ {0} /\ MaxProbe \in Nat
    /\ MaxCrashes \in Nat /\ ReportContainers \in Seq(STRING)
    /\ \A i, j \in DOMAIN ReportContainers : ReportContainers[i] = ReportContainers[j] => i = j

VARIABLES
    driven,             \* which of them the behaviour drives
    now, started, running, ends, kept, deleting, completed,
    forwards, proc, taken, forwardPc, new, waited,
    use, timeout, waitPc, clock, from, attempts, waitAnswer, shown, troubled, since, ever, changes,
    present, restarts, reportPc, listed, left, pod, at, report, reported

healthVars == <<now, started, running, ends, kept, deleting, completed>>
forwardVars == <<forwards, proc, taken, forwardPc, new, waited>>
waitVars == <<use, timeout, waitPc, clock, from, attempts, waitAnswer, shown, troubled, since, ever, changes>>
reportVars == <<present, restarts, reportPc, listed, left, pod, at, report, reported>>

-----------------------------------------------------------------------------
\* Restarts within the grace period, within the window and before it; more than the ceiling.
Health == INSTANCE PodHealth WITH Containers <- HealthContainers, MaxCrashes <- MaxRestarts
\* Two services may contend for one of two ports, and one service may be started twice.
Forward == INSTANCE LocalPortForwarder WITH MaxStarts <- MaxForwards, pc <- forwardPc
\* Timeouts below the interval, a multiple of it, and neither.
Wait == INSTANCE Polling WITH pc <- waitPc, now <- clock, answer <- waitAnswer
\* Two pods of one container, which crashes before, between and after its two logs are read.
Report == INSTANCE PodReport WITH
    Pods <- ReportPods, Containers <- ReportContainers, answered <- reported
MCContainers == <<"c">>

\* The volume that is replaced comes first or last.
MCVolumes ==
    LET volume(n) == [name |-> n, spec |-> "old"]
    IN  {<<volume("wanted"), volume("b")>>, <<volume("b"), volume("wanted")>>}

\* What is not driven starts in one state.
MCInit ==
    /\ driven \in {"call", "health", "forward", "wait", "report"}
    /\ Init /\ (driven # "call" => replicas = 1 /\ op = "restart" /\ volumes[1].name = "wanted")
    /\ Health!Init
    /\ Forward!Init /\ (driven # "forward" => taken = {})
    /\ Wait!Init /\ (driven # "wait" => use = "tcp" /\ timeout = 1 /\ shown = {})
    /\ Report!Init /\ (driven # "report" => present = {})
MCNext ==
    /\ UNCHANGED driven
    /\ IF driven = "call" THEN Next ELSE UNCHANGED vars
    /\ IF driven = "health" THEN Health!Next ELSE UNCHANGED healthVars
    /\ IF driven = "forward" THEN Forward!Next ELSE UNCHANGED forwardVars
    /\ IF driven = "wait" THEN Wait!Next ELSE UNCHANGED waitVars
    /\ IF driven = "report" THEN Report!Next ELSE UNCHANGED reportVars
clusterVars == <<driven, vars, healthVars, forwardVars, waitVars, reportVars>>
MCSpec == MCInit /\ [][MCNext]_clusterVars

\* The types of the states.
ClusterTypeOK == TypeOK /\ Health!TypeOK /\ Forward!TypeOK /\ Wait!TypeOK /\ Report!TypeOK
\* A pod's last restart tells what all of them would, and three readings of readiness agree.
\* What is gathered to explain a pod's failure leaves no crash out between two logs.
HealthAgrees == Health!HealthAgrees /\ Report!CrashesExplained
\* Between calls every live kubectl is one that stop_all ends, and is found under its service.
ForwardsReachable == Forward!ForwardsReachable
\* No wait misses what came true in time and stayed, or outlasts its timeout by more than a look.
WaitsKeepTheirWord == Wait!WaitsKeepTheirWord
=============================================================================
