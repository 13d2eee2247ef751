------------------------------ MODULE PodReport ------------------------------
(***************************************************************************)
(* pod_report (k8s.py): the pods behind a selector, their events, and the  *)
(* current and previous logs of each container, gathered by one kubectl    *)
(* after the other while containers crash and pods go.  Lines are left     *)
(* out: a log is the incarnation of the container that wrote it.           *)
(***************************************************************************)
EXTENDS Integers, Sequences, SequencesExt

CONSTANTS
    Pods,
    Containers,         \* of each pod, in the order of their statuses, init containers first
    MaxCrashes          \* bound: of each container

VARIABLES
    present, restarts,  \* pods there are; by pod and container
    reportPc,           \* the call: "pods" at the next pod, "current" or "previous" at a container's log
    listed,             \* restarts of the pods in the JSON, by pod
    left, pod, at,      \* listed pods not begun; the one under way, and which of its containers is
    report, answered    \* the blocks so far; "report", or what stands for it

vars == <<present, restarts, reportPc, listed, left, pod, at, report, answered>>

Containered == ToSet(Containers)
Error == -1
NoPod == "no pod"

Init ==
    /\ present \in SUBSET Pods
    /\ restarts = [p \in Pods |-> [c \in Containered |-> 0]]
    /\ reportPc = "service" /\ listed = << >>
    /\ left = {} /\ pod = NoPod /\ at = 1
    /\ report = {} /\ answered = "none"

-----------------------------------------------------------------------------
Give(a) == answered' = a /\ reportPc' = "done"

\* service_pod_report: a service that cannot be read, or selects nothing.
ReadService ==
    /\ reportPc = "service"
    /\ \/ reportPc' = "list" /\ UNCHANGED answered
       \/ Give("no service") \/ Give("no selector")
    /\ UNCHANGED <<present, restarts, listed, left, pod, at, report>>

\* `get pods -o wide` only gives the rows.
ListRows ==
    /\ reportPc = "list"
    /\ \/ reportPc' = "json" /\ UNCHANGED answered
       \/ Give("could not list")
    /\ UNCHANGED <<present, restarts, listed, left, pod, at, report>>

\* _get_json: when it fails the report goes on without pods, and does not say so.
GetJson ==
    /\ reportPc = "json" /\ reportPc' = "pods"
    /\ \/ listed' = [p \in present |-> restarts[p]] /\ left' = present
       \/ UNCHANGED <<listed, left>>
    /\ UNCHANGED <<present, restarts, pod, at, report, answered>>

Ask(p, c, which) == [pod |-> p, container |-> c, which |-> which]
\* What the request got is in the block, or what kubectl says instead.
Block(ask, number) ==
    \E got \in {IF ask.pod \in present THEN number ELSE Error, Error} :
        report' = report \union {[of |-> ask, got |-> got]}

GetEvents ==
    /\ reportPc = "pods" /\ reportPc' = "current"
    /\ \E p \in left :
          pod' = p /\ left' = left \ {p} /\ Block(Ask(p, "", "events"), 0)
    /\ at' = 1
    /\ UNCHANGED <<present, restarts, listed, answered>>

Container == Containers[at]
NextContainer == at' = at + 1 /\ reportPc' = "current"
\* The container's last incarnation; the one before it is asked for only when the JSON had restarts.
GetLog ==
    /\ reportPc = "current" /\ at \in DOMAIN Containers
    /\ Block(Ask(pod, Container, "current"), restarts[pod][Container])
    /\ IF listed[pod][Container] > 0
       THEN reportPc' = "previous" /\ UNCHANGED at
       ELSE NextContainer
    /\ UNCHANGED <<present, restarts, listed, left, pod, answered>>
GetPreviousLog ==
    /\ reportPc = "previous"
    /\ Block(Ask(pod, Container, "previous"), restarts[pod][Container] - 1)
    /\ NextContainer
    /\ UNCHANGED <<present, restarts, listed, left, pod, answered>>
NextPod ==
    /\ reportPc = "current" /\ at \notin DOMAIN Containers
    /\ reportPc' = "pods"
    /\ UNCHANGED <<present, restarts, listed, left, pod, at, report, answered>>

\* node_conditions, or that they could not be listed.
NodeConditions ==
    /\ reportPc = "pods" /\ left = {}
    /\ Give("report")
    /\ UNCHANGED <<present, restarts, listed, left, pod, at, report>>

-----------------------------------------------------------------------------
Crash ==
    /\ \E p \in present, c \in Containered :
          restarts[p][c] < MaxCrashes /\ restarts' = [restarts EXCEPT ![p][c] = @ + 1]
    /\ UNCHANGED <<present, reportPc, listed, left, pod, at, report, answered>>
PodGoes ==
    /\ \E p \in present : present' = present \ {p}
    /\ UNCHANGED <<restarts, reportPc, listed, left, pod, at, report, answered>>

Next ==
    \/ ReadService \/ ListRows \/ GetJson
    \/ GetEvents \/ GetLog \/ GetPreviousLog \/ NextPod \/ NodeConditions
    \/ Crash \/ PodGoes
Spec == Init /\ [][Next]_vars

-----------------------------------------------------------------------------
TypeOK ==
    /\ present \subseteq Pods /\ left \subseteq DOMAIN listed /\ DOMAIN listed \subseteq Pods
    /\ reportPc \in {"service", "list", "json", "pods", "current", "previous", "done"}
    /\ reportPc \in {"current", "previous"} => pod \in DOMAIN listed
    /\ \A b \in report : b.got \in Error..MaxCrashes

\* A report has a block for every pod and container its JSON listed, failed requests and pods that
\* went included.  Of one that had restarted both logs are there, and no incarnation is lost between
\* them however often it crashed meanwhile: what it wrote before the restart that is shown, or a later
\* one, is in the report.
CrashesExplained ==
    answered = "report" =>
        \A p \in DOMAIN listed :
            /\ \E b \in report : b.of = Ask(p, "", "events")
            /\ \A c \in Containered :
                  LET logs(which) == {b.got : b \in {x \in report : x.of = Ask(p, c, which)}}
                  IN  /\ logs("current") # {}
                      /\ listed[p][c] > 0 => logs("previous") # {}
                      /\ \A now \in logs("current") \ {Error}, past \in logs("previous") \ {Error} :
                            past >= now - 1 /\ past >= listed[p][c] - 1
=============================================================================
