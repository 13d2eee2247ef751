----------------------------- MODULE PodHealth -----------------------------
(***************************************************************************)
(* How KubernetesClient judges one pod (k8s.py): ready by its row in       *)
(* `kubectl get pods`, by its container statuses, or by the service's      *)
(* endpoints; unstable by what its statuses still say of past restarts.    *)
(***************************************************************************)
EXTENDS Naturals, FiniteSets

CONSTANTS
    Containers,
    Grace, Window, Ceiling,     \* startup_grace_s, recent_window_s, max_restarts
    MaxTime, MaxCrashes         \* bounds: the clock, restarts of one container

VARIABLES
    now, started,       \* the clock; the pod's startTime, 0 until the kubelet took it
    running, ends,      \* by container: whether it is up, and when it ended, ever
    kept,               \* by container: lastState still there
    deleting, completed

vars == <<now, started, running, ends, kept, deleting, completed>>

Latest(S) == CHOOSE x \in S : \A y \in S : y <= x

Init ==
    /\ now = 1 /\ started = 0 /\ deleting = FALSE /\ completed = FALSE
    /\ running = [c \in Containers |-> FALSE]
    /\ ends = [c \in Containers |-> {}] /\ kept = [c \in Containers |-> TRUE]

-----------------------------------------------------------------------------
(* Readiness, three ways. *)

\* No statuses before the kubelet took the pod; then one per container.
Flags == IF started = 0 THEN {} ELSE Containers
Up == {c \in Containers : running[c]}

\* Pod.is_ready, of the READY column n/m: containers ready, of those in the spec.
IsReady == Up = Containers /\ Up # {}
IsCompleted == completed
\* pods_by_selector: at least one flag, and all true.
SelectorReady == Flags # {} /\ \A c \in Flags : running[c]
\* all_pods_ready, of a namespace with this pod.
AllPodsReady == IsReady \/ IsCompleted
\* service_endpoint_addresses: ready ones; a pod on its way out is none.
InEndpoints == IsReady /\ ~deleting
\* The ready count of workload_readiness.
CountedReady == IF InEndpoints THEN 1 ELSE 0

-----------------------------------------------------------------------------
(* unstable_pods: only the last termination of a container is told. *)

Restarts(c) == Cardinality(ends[c])
Finished(c) == kept[c] /\ ends[c] # {}

Recent(f) == now - f < Window
PastGraceNow(f) == now - started > Grace
PastGrace(f) == f - started > Grace
LastRestartBad(c) == Finished(c) /\ Recent(Latest(ends[c])) /\ PastGrace(Latest(ends[c]))
Unstable(c) == Restarts(c) > 0 /\ (LastRestartBad(c) \/ Restarts(c) > Ceiling)

-----------------------------------------------------------------------------
Tick ==
    /\ now < MaxTime /\ now' = now + 1
    /\ UNCHANGED <<started, running, ends, kept, deleting, completed>>
Take ==
    /\ started = 0 /\ started' = now
    /\ UNCHANGED <<now, running, ends, kept, deleting, completed>>
StartContainer ==
    /\ started # 0 /\ ~completed
    /\ \E c \in Containers : ~running[c] /\ running' = [running EXCEPT ![c] = TRUE]
    /\ UNCHANGED <<now, started, ends, kept, deleting, completed>>
\* Two ends of one container are apart in time.
Crash ==
    /\ \E c \in Up :
          /\ now \notin ends[c] /\ Restarts(c) < MaxCrashes
          /\ running' = [running EXCEPT ![c] = FALSE]
          /\ ends' = [ends EXCEPT ![c] = @ \union {now}]
          /\ kept' = [kept EXCEPT ![c] = TRUE]
    /\ UNCHANGED <<now, started, deleting, completed>>
\* The ended container is collected, and lastState with it.
Forget ==
    /\ \E c \in Containers : ends[c] # {} /\ kept[c] /\ kept' = [kept EXCEPT ![c] = FALSE]
    /\ UNCHANGED <<now, started, running, ends, deleting, completed>>
Delete ==
    /\ ~deleting /\ deleting' = TRUE
    /\ UNCHANGED <<now, started, running, ends, kept, completed>>
Complete ==
    /\ started # 0 /\ ~completed /\ completed' = TRUE
    /\ running' = [c \in Containers |-> FALSE]
    /\ UNCHANGED <<now, started, ends, kept, deleting>>

Next == Tick \/ Take \/ StartContainer \/ Crash \/ Forget \/ Delete \/ Complete
Spec == Init /\ [][Next]_vars

-----------------------------------------------------------------------------
TypeOK ==
    /\ started <= now
    /\ \A c \in Containers : ends[c] \subseteq started..now

\* Judging a container by its last restart is judging it by all of them: some restart was recent and
\* past the grace period, or there were too many.  When the last one was forgotten, nothing that was
\* stable is reported.  And the three readings of readiness agree.
HealthAgrees ==
    /\ \A c \in Containers :
          LET Bad == (\E f \in ends[c] : now - f < Window /\ f - started > Grace) \/ Restarts(c) > Ceiling
          IN  IF kept[c] THEN Unstable(c) <=> Bad ELSE Unstable(c) => Bad
    /\ SelectorReady <=> IsReady
    /\ CountedReady = 1 => SelectorReady /\ AllPodsReady
=============================================================================
