------------------------------ MODULE LoadUsers ------------------------------
(***************************************************************************)
(* LocustMetricsUser (loadgen/locust_user.py): Locust's users, each a      *)
(* greenlet with an Otelp of its own and a name by a counter they share.   *)
(* Greenlets change places where one waits: for the connection, in a task, *)
(* in the cleanup.  Locust stops one wherever it is, and then calls        *)
(* on_stop; one whose on_start raised is not stopped.                      *)
(***************************************************************************)
EXTENDS Naturals, FiniteSets

CONSTANTS
    Users,
    MaxRecords          \* bound: measurements of one user

VARIABLES
    userPc, userId,     \* by user: the greenlet; user_id, 0 before
    userCounter,        \* LocustMetricsUser.user_counter
    hasOtelp,           \* by user: the attribute is there, and not None
    export,             \* by user: its provider is "none", "live" or "down"
    ready,              \* by user: connected, with a counter
    sent, lost          \* by user: measurements of a provider that exports; of one that does not

vars == <<userPc, userId, userCounter, hasOtelp, export, ready, sent, lost>>

Init ==
    /\ userPc = [u \in Users |-> "new"] /\ userId = [u \in Users |-> 0] /\ userCounter = 0
    /\ hasOtelp = [u \in Users |-> FALSE] /\ export = [u \in Users |-> "none"]
    /\ ready = [u \in Users |-> FALSE]
    /\ sent = [u \in Users |-> 0] /\ lost = [u \in Users |-> 0]

To(u, pc) == userPc' = [userPc EXCEPT ![u] = pc]

-----------------------------------------------------------------------------
\* on_start up to the connection it waits for.
OnStart(u) ==
    /\ userPc[u] = "new"
    /\ userCounter' = userCounter + 1 /\ userId' = [userId EXCEPT ![u] = userCounter']
    /\ hasOtelp' = [hasOtelp EXCEPT ![u] = TRUE]
    /\ To(u, "connecting")
    /\ UNCHANGED <<export, ready, sent, lost>>

\* Otelp.initialize: no connection, and the user raises; or its provider is made and set.
Connected(u) ==
    /\ userPc[u] = "connecting"
    /\ \/ export' = [export EXCEPT ![u] = "live"] /\ To(u, "metering")
       \/ To(u, "raised") /\ UNCHANGED export
    /\ UNCHANGED <<userId, userCounter, hasOtelp, ready, sent, lost>>
\* Its meter, and the counter; without a meter is_connected is False, and the user raises.
CreateCounter(u) ==
    /\ userPc[u] = "metering"
    /\ \/ ready' = [ready EXCEPT ![u] = TRUE] /\ To(u, "tasks")
       \/ To(u, "raised") /\ UNCHANGED ready
    /\ UNCHANGED <<userId, userCounter, hasOtelp, export, sent, lost>>

\* A task, between waits of one to three seconds.
RecordMetrics(u) ==
    /\ userPc[u] = "tasks" /\ sent[u] + lost[u] < MaxRecords
    /\ IF hasOtelp[u] /\ ready[u]
       THEN IF export[u] = "live" THEN sent' = [sent EXCEPT ![u] = @ + 1] /\ UNCHANGED lost
            ELSE lost' = [lost EXCEPT ![u] = @ + 1] /\ UNCHANGED sent
       ELSE UNCHANGED <<sent, lost>>
    /\ UNCHANGED <<userPc, userId, userCounter, hasOtelp, export, ready>>

\* Locust ends the greenlet: on_stop, of an Otelp or of none.
Stopped(u) ==
    /\ userPc[u] \in {"new", "connecting", "metering", "tasks"}
    /\ To(u, IF hasOtelp[u] THEN "cleanup" ELSE "stopped")
    /\ UNCHANGED <<userId, userCounter, hasOtelp, export, ready, sent, lost>>
\* Otelp.cleanup has flushed and slept; it shuts the provider down, if there is one.
OnStop(u) ==
    /\ userPc[u] = "cleanup"
    /\ export' = [export EXCEPT ![u] = IF @ = "none" THEN "none" ELSE "down"]
    /\ ready' = [ready EXCEPT ![u] = FALSE] /\ hasOtelp' = [hasOtelp EXCEPT ![u] = FALSE]
    /\ To(u, "stopped")
    /\ UNCHANGED <<userId, userCounter, sent, lost>>

Next ==
    \E u \in Users :
        OnStart(u) \/ Connected(u) \/ CreateCounter(u) \/ RecordMetrics(u) \/ Stopped(u) \/ OnStop(u)
Spec == Init /\ [][Next]_vars

-----------------------------------------------------------------------------
TypeOK ==
    /\ userPc \in [Users -> {"new", "connecting", "metering", "raised", "tasks", "cleanup", "stopped"}]
    /\ userId \in [Users -> 0..userCounter] /\ userCounter <= Cardinality(Users)
    /\ \A u \in Users : sent[u] + lost[u] <= MaxRecords

\* Whenever users are stopped, in the middle of a start included: two that started never share a name,
\* no measurement is recorded that no exporter sends, and nobody exports but users that run, that are
\* being cleaned up, or whose start failed after it made a provider.
UsersApart ==
    /\ \A u, v \in Users : u # v /\ userId[u] # 0 => userId[u] # userId[v]
    /\ \A u \in Users :
          /\ lost[u] = 0
          /\ export[u] = "live" => userPc[u] \in {"metering", "tasks", "cleanup", "raised"}
=============================================================================
