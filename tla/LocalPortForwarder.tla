------------------------- MODULE LocalPortForwarder -------------------------
(***************************************************************************)
(* LocalKubectlPortForwarder (k8s.py): kubectl port-forward processes of   *)
(* this machine, by service, in the list the object keeps of them.  A      *)
(* start waits until the port answers; kubectl binds, fails or loses its   *)
(* pod at any moment, and others may listen on the port too.               *)
(***************************************************************************)
EXTENDS Naturals, Sequences, SequencesExt

CONSTANTS
    Services, LocalPorts,
    MaxStarts           \* bound: calls of start_service_tunnel

VARIABLES
    forwards,           \* _forwards
    proc,               \* by process: starting, bound or ended
    taken,              \* ports another program listens on
    pc, new, waited     \* the call; the entry it may add; ready_timeout has passed

vars == <<forwards, proc, taken, pc, new, waited>>

Live == {i \in DOMAIN proc : proc[i] # "ended"}
NoEntry == [process |-> 0, service |-> "", port |-> 0]

Init ==
    /\ forwards = <<>> /\ proc = <<>> /\ taken \in SUBSET LocalPorts
    /\ pc = "idle" /\ new = NoEntry /\ waited = FALSE

\* Somebody listens: this kubectl, another forward on the same port, or another program.
Bound(port, entries) ==
    \E i \in DOMAIN proc : proc[i] = "bound" /\ \E e \in entries : e.process = i /\ e.port = port
Connects(port) == port \in taken \/ Bound(port, ToSet(Append(forwards, new)))

-----------------------------------------------------------------------------
\* Popen, which may raise; the process is not in the list yet.
Start ==
    /\ pc = "idle" /\ Len(proc) < MaxStarts
    /\ \E s \in Services, p \in LocalPorts :
          \/ /\ new' = [process |-> Len(proc) + 1, service |-> s, port |-> p]
             /\ proc' = Append(proc, "starting")
             /\ pc' \in {"check", "append"}             \* wait_ready, or not
          \/ UNCHANGED <<new, proc, pc>>
    /\ waited' = FALSE
    /\ UNCHANGED <<forwards, taken>>

\* As one would write it: a start that timed out is none.
CheckProcessGivesUp ==
    /\ pc = "check"
    /\ \/ (waited \/ proc[new.process] = "ended") /\ pc' = "idle" /\ new' = NoEntry
       \/ ~waited /\ proc[new.process] # "ended" /\ pc' = "connect" /\ UNCHANGED new
    /\ UNCHANGED <<forwards, proc, taken, waited>>
\* As if a timeout forgot the process and registered it all the same.
CheckProcessForgets ==
    /\ pc = "check"
    /\ \/ waited /\ pc' = "append" /\ new' = NoEntry
       \/ ~waited /\ proc[new.process] = "ended" /\ pc' = "idle" /\ new' = NoEntry
       \/ ~waited /\ proc[new.process] # "ended" /\ pc' = "connect" /\ UNCHANGED new
    /\ UNCHANGED <<forwards, proc, taken, waited>>
\* One turn: past the timeout the loop is left; an exited process ends the call.
CheckProcess ==
    /\ pc = "check"
    /\ \/ waited /\ pc' = "append" /\ UNCHANGED new
       \/ ~waited /\ proc[new.process] = "ended" /\ pc' = "idle" /\ new' = NoEntry
       \/ ~waited /\ proc[new.process] # "ended" /\ pc' = "connect" /\ UNCHANGED new
    /\ UNCHANGED <<forwards, proc, taken, waited>>

TryConnect ==
    /\ pc = "connect"
    /\ pc' = IF Connects(new.port) THEN "append" ELSE "check"
    /\ UNCHANGED <<forwards, proc, taken, new, waited>>

Register ==
    /\ pc = "append"
    /\ forwards' = Append(forwards, new)
    /\ pc' = "idle" /\ new' = NoEntry
    /\ UNCHANGED <<proc, taken, waited>>

TimeoutPasses ==
    /\ pc \in {"check", "connect"} /\ ~waited /\ waited' = TRUE
    /\ UNCHANGED <<forwards, proc, taken, pc, new>>

\* The first entry of the service: it is terminated, killed if need be, and dropped.
First(s) == SelectInSeq(forwards, LAMBDA e : e.service = s)

StopService ==
    /\ pc = "idle"
    /\ \E s \in Services :
          /\ First(s) # 0
          /\ proc' = [proc EXCEPT ![forwards[First(s)].process] = "ended"]
          /\ forwards' = RemoveAt(forwards, First(s))
    /\ UNCHANGED <<taken, pc, new, waited>>

StopAll ==
    /\ pc = "idle" /\ forwards # <<>>
    /\ proc' = [i \in DOMAIN proc |-> IF \E e \in ToSet(forwards) : e.process = i THEN "ended" ELSE proc[i]]
    /\ forwards' = <<>>
    /\ UNCHANGED <<taken, pc, new, waited>>

IsRunning(s) == First(s) # 0 /\ proc[forwards[First(s)].process] # "ended"
GetLocalPort(s) == IF First(s) = 0 THEN 0 ELSE forwards[First(s)].port

-----------------------------------------------------------------------------
\* kubectl binds its port when it is free, and ends otherwise.
KubectlBinds ==
    /\ \E i \in DOMAIN proc :
          /\ proc[i] = "starting"
          /\ \E e \in ToSet(Append(forwards, new)) :
                e.process = i /\ proc' = [proc EXCEPT ![i] = IF Connects(e.port) THEN "ended" ELSE "bound"]
    /\ UNCHANGED <<forwards, taken, pc, new, waited>>
KubectlEnds ==
    /\ \E i \in Live : proc' = [proc EXCEPT ![i] = "ended"]
    /\ UNCHANGED <<forwards, taken, pc, new, waited>>

Next ==
    \/ Start \/ CheckProcess \/ TryConnect \/ Register \/ TimeoutPasses \/ StopService \/ StopAll
    \/ KubectlBinds \/ KubectlEnds
Spec == Init /\ [][Next]_vars

-----------------------------------------------------------------------------
TypeOK ==
    /\ \A i \in DOMAIN forwards : forwards[i].service \in Services /\ forwards[i].process \in DOMAIN proc
    /\ pc \in {"idle", "check", "connect", "append"}

\* Between calls every live kubectl is one that stop_all ends: a start that failed or timed out has
\* left none behind.  No two of them forward one port, and a service that is not to be found, or is
\* running, is so.
ForwardsReachable ==
    pc = "idle" =>
        /\ \A i \in Live : \E e \in ToSet(forwards) : e.process = i
        /\ \A e, f \in ToSet(forwards) :
              proc[e.process] = "bound" /\ proc[f.process] = "bound" /\ e.port = f.port => e = f
        /\ \A s \in Services :
              LET its == {e \in ToSet(forwards) : e.service = s /\ proc[e.process] # "ended"}
              IN  /\ GetLocalPort(s) = 0 => its = {}
                  /\ IsRunning(s) => \E e \in its : e.port = GetLocalPort(s)
=============================================================================
