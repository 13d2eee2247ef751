------------------------ MODULE KubectlPortForwarder ------------------------
(***************************************************************************)
(* KubectlPortForwarder (k8s.py:757-988): `kubectl port-forward` processes *)
(* on the remote host and SSH tunnels to them, over the connection of an   *)
(* SSHExecutor that other callers use too.                                 *)
(*                                                                         *)
(* One caller makes the calls; between the remote commands of a call a     *)
(* kubectl process binds its port, is refused it or dies, and connections  *)
(* drop.  The remote port of a call is its local port, the default, and    *)
(* readiness is waited for, the default too.                               *)
(*                                                                         *)
(* With use_sudo the pid that comes back is that of sudo, which SIGKILL     *)
(* ends without a word to the kubectl it has forked.                       *)
(***************************************************************************)
EXTENDS SSHExecutor

CONSTANTS
    Ports,
    MaxProcs,           \* bound: kubectl processes started
    SshUser             \* the executor's user: root, one sudo lets in, or one it refuses

ASSUME ForwarderAssumption ==
    MaxProcs \in Nat \ {0} /\ SshUser \in {"root", "sudoer", "plain"}

Procs == 1..MaxProcs

VARIABLES
    pc,         \* "idle" or the remote command a call is at
    port,       \* of the start_service_tunnel call being made
    sudo,       \* use_sudo of the call being made
    proc,       \* the kubectl it launched
    procs,      \* each kubectl: its state, its port and whether it was started under sudo
    pids,       \* _kubectl_pids
    tunnels,    \* _tunnels: port and the client whose transport it goes through
    sound,      \* the listener the call has seen may be believed: `ss` answered
    answer,     \* what the last start_service_tunnel returned
    lost,       \* kubectl processes whose launch was not answered with a pid
    missed,     \* kubectl processes whose kill by stop_all was not executed
    spared      \* kubectl processes that outlived the kill of their pid

callVars == <<pc, port, sudo, proc, sound, answer>>
ownVars == <<pids, tunnels, lost, missed, spared>>
vars == <<sshVars, callVars, procs, ownVars>>

NoProc == 0
NoPort == "none"
Alive(p) == procs[p].state \in {"starting", "bound"}
Listener(q) == {p \in Procs : procs[p].state = "bound" /\ procs[p].port = q}

TypeOK ==
    /\ SshTypeOK
    /\ sudo \in BOOLEAN
    /\ pc \in {"idle", "kill", "launch", "wait", "tunnel", "stop"}
    /\ port \in Ports \union {NoPort}
    /\ proc \in Procs \union {NoProc}
    /\ procs \in [Procs -> [state : {"unused", "starting", "bound", "refused", "dead"},
                            port : Ports \union {NoPort}, sudo : BOOLEAN]]
    /\ \A q \in Ports : Cardinality(Listener(q)) <= 1
    /\ {pids, lost, missed, spared} \subseteq SUBSET Procs
    /\ tunnels \subseteq [port : Ports, client : Clients]
    /\ sound \in BOOLEAN
    /\ answer \in {"none", "true", "false"}

Init ==
    /\ SshInit
    /\ pc = "idle" /\ port = NoPort /\ sudo = TRUE /\ proc = NoProc
    /\ procs = [p \in Procs |-> [state |-> "unused", port |-> NoPort, sudo |-> FALSE]]
    /\ pids = {} /\ tunnels = {} /\ lost = {} /\ missed = {} /\ spared = {}
    /\ sound = FALSE /\ answer = "none"

-----------------------------------------------------------------------------
(* What the remote user may do.                                            *)

\* A command under sudo is executed at all.
MaySudo == SshUser # "plain"

\* A signal to p is delivered without sudo.
MaySignal(p) == SshUser = "root" \/ ~procs[p].sudo

-----------------------------------------------------------------------------
(* start_service_tunnel                                                    *)

Returns(a) == pc' = "idle" /\ answer' = a

StartTunnel(q, s) ==
    /\ pc = "idle"
    /\ pc' = "kill"
    /\ port' = q /\ sudo' = s
    /\ answer' = "none" /\ proc' = NoProc /\ sound' = FALSE
    /\ UNCHANGED <<sshVars, procs, ownVars>>

Killed(killed) ==
    procs' = [p \in Procs |-> IF p \in killed THEN [procs[p] EXCEPT !.state = "dead"] ELSE procs[p]]

\* lsof | xargs kill -9: whatever listens on the port, if the SSH user may kill it, as sudo covers
\* the lsof alone.  The outcome is not looked at.
KillExisting ==
    /\ pc = "kill"
    /\ \E o \in {"answered", "lost", "not_run"} :
          /\ Ran(DefaultHost, o)
          /\ Killed({p \in Listener(port) : o # "not_run" /\ (sudo => MaySudo) /\ MaySignal(p)})
    /\ pc' = "launch"
    /\ UNCHANGED <<port, sudo, proc, sound, answer, ownVars>>

Starts(p) ==
    /\ procs[p].state = "unused"
    /\ \A o \in 1..(p - 1) : procs[o].state # "unused"
    /\ procs' = [procs EXCEPT ![p] = [state |-> "starting", port |-> port, sudo |-> sudo]]

\* Mutants of Launch: a pid that does not parse is kept as 0; the pid is kept
\* only after the wait, where a failed call never comes.
LaunchKeepsZero ==
    /\ pc = "launch"
    /\ \E p \in Procs :
          /\ Ran(DefaultHost, "answered")
          /\ Starts(p) /\ proc' = p
          /\ pids' = pids \union {NoProc}
          /\ lost' = lost \union {p}
    /\ pc' = "wait"
    /\ UNCHANGED <<port, sudo, sound, answer, tunnels, missed, spared>>
LaunchForgets ==
    /\ pc = "launch"
    /\ \E p \in Procs :
          /\ Ran(DefaultHost, "answered")
          /\ Starts(p) /\ proc' = p
    /\ pc' = "wait"
    /\ UNCHANGED <<port, sudo, sound, answer, ownVars>>

\* nohup kubectl ... & echo $!: the pid is kept if it comes back as a number; a command that is
\* not answered ends the call, and the kubectl it may have started is not known of.
Launch ==
    /\ pc = "launch"
    /\ \/ \E p \in Procs :
             /\ Ran(DefaultHost, "answered")
             /\ Starts(p) /\ proc' = p
             /\ \/ pids' = pids \union {p} /\ UNCHANGED lost
                \/ lost' = lost \union {p} /\ UNCHANGED pids
             /\ pc' = "wait"
             /\ UNCHANGED answer
       \/ \E p \in Procs :
             /\ Ran(DefaultHost, "lost")
             /\ Starts(p) /\ proc' = p
             /\ lost' = lost \union {p}
             /\ Returns("false")
             /\ UNCHANGED pids
       \/ /\ Ran(DefaultHost, "not_run")
          /\ Returns("false")
          /\ UNCHANGED <<procs, proc, pids, lost>>
    /\ UNCHANGED <<port, sudo, sound, tunnels, missed, spared>>

\* _wait_for_remote_listener: a listener on the port, whosever it is; without an answer of `ss`
\* the call goes on as if it had seen one; the timeout ends the call, the kubectl runs on.
WaitListener ==
    /\ pc = "wait"
    /\ \/ /\ Ran(DefaultHost, "answered")
          /\ Listener(port) # {}
          /\ sound' = TRUE
          /\ pc' = "tunnel" /\ UNCHANGED answer
       \/ /\ \E o \in {"answered", "lost", "not_run"} : Ran(DefaultHost, o)
          /\ pc' = "tunnel" /\ UNCHANGED <<sound, answer>>
       \/ /\ Ran(DefaultHost, "answered")
          /\ Listener(port) = {}
          /\ Returns("false") /\ UNCHANGED sound
    /\ UNCHANGED <<port, sudo, proc, procs, ownVars>>

\* _start_ssh_tunnel: the transport is got first; a local port a tunnel holds cannot be bound, and
\* one another program holds neither.
StartSshTunnel ==
    /\ pc = "tunnel"
    /\ \/ /\ GetClient(DefaultHost)
          /\ port \notin {t.port : t \in tunnels}
          /\ tunnels' = tunnels \union {[port |-> port, client |-> client']}
          /\ Returns("true")
       \/ /\ GetClient(DefaultHost) \/ ConnectFails(DefaultHost)
          /\ Returns("false")
          /\ UNCHANGED tunnels
    /\ UNCHANGED <<port, sudo, proc, procs, sound, pids, lost, missed, spared>>

-----------------------------------------------------------------------------
(* stop_all                                                                *)

StopTunnels(s) ==
    /\ pc = "idle"
    /\ tunnels' = {}
    /\ pc' = "stop" /\ sudo' = s
    /\ UNCHANGED <<sshVars, port, proc, sound, answer, procs, pids, lost, missed, spared>>

\* kill -9 of p's pid || true.  A kubectl started without sudo has that pid and dies if the signal
\* is delivered; one started under sudo dies only if its sudo has exec'ed it, and no refusal shows.
KillPid(p) ==
    LET delivered == IF sudo THEN MaySudo ELSE MaySignal(p)
    IN  \/ delivered /\ Killed({p}) /\ UNCHANGED spared
        \/ /\ ~delivered \/ procs[p].sudo
           /\ spared' = spared \union {p} /\ UNCHANGED procs

\* One kill after the other, and whatever comes of them the list is cleared.
StopKills ==
    /\ pc = "stop"
    /\ \/ \E p \in pids :
             /\ \/ /\ \E o \in {"answered", "lost"} : Ran(DefaultHost, o)
                   /\ KillPid(p) /\ UNCHANGED missed
                \/ /\ Ran(DefaultHost, "not_run")
                   /\ missed' = missed \union {p} /\ UNCHANGED <<procs, spared>>
             /\ pids' = pids \ {p}
             /\ UNCHANGED pc
       \/ /\ pids = {}
          /\ pc' = "idle"
          /\ UNCHANGED <<sshVars, procs, pids, missed, spared>>
    /\ UNCHANGED <<port, sudo, proc, sound, answer, tunnels, lost>>

-----------------------------------------------------------------------------
(* The other callers of the executor, and the world.                       *)

OtherRun(h) ==
    /\ pc = "idle"
    /\ \E o \in {"answered", "not_run"} : Ran(h, o)
    /\ UNCHANGED <<callVars, procs, ownVars>>

CloseExecutor ==
    /\ pc = "idle"
    /\ Close
    /\ UNCHANGED <<callVars, procs, ownVars>>

Drops(c) == ConnectionDrops(c) /\ UNCHANGED <<callVars, procs, ownVars>>

\* kubectl binds its port, unless sudo refuses to run it, another process has the port or the
\* service cannot be reached.
Bind(p) ==
    /\ procs[p].state = "starting"
    /\ \/ /\ procs[p].sudo => MaySudo
          /\ Listener(procs[p].port) = {} /\ procs' = [procs EXCEPT ![p].state = "bound"]
       \/ procs' = [procs EXCEPT ![p].state = "refused"]
    /\ UNCHANGED <<sshVars, callVars, ownVars>>

KubectlDies(p) ==
    /\ procs[p].state = "bound"
    /\ procs' = [procs EXCEPT ![p].state = "dead"]
    /\ UNCHANGED <<sshVars, callVars, ownVars>>

Next ==
    \/ \E q \in Ports, s \in BOOLEAN : StartTunnel(q, s)
    \/ KillExisting \/ Launch \/ WaitListener \/ StartSshTunnel
    \/ \E s \in BOOLEAN : StopTunnels(s)
    \/ StopKills
    \/ \E h \in Hosts : OtherRun(h)
    \/ CloseExecutor
    \/ \E c \in Clients : Drops(c)
    \/ \E p \in Procs : Bind(p) \/ KubectlDies(p)

Spec == Init /\ [][Next]_vars
-----------------------------------------------------------------------------
(* Properties.                                                             *)

\* A kubectl left running on the host is one the forwarder still means to kill, unless its launch
\* was never answered with a pid, its kill never got through, or it outlived its kill, as one can
\* that was started under sudo or, if sudo refuses the SSH user, any that is killed with sudo: no
\* failed call, timeout, refused local port or lost connection makes stop_all() forget another.
NoForgottenKubectl ==
    \A p \in Procs : Alive(p) =>
        \/ p \in pids \union lost \union missed
        \/ p \in spared /\ (procs[p].sudo \/ ~MaySudo)

\* All tunnels that work go through the connection the executor has cached now: a tunnel never
\* outlives it on a connection of its own, so close() leaves none of them open.
WorkingTunnelsShareClient ==
    \A t \in tunnels : t.client \in active => t.client = client

\* The executor has one connection, to the host it remembers, and no working tunnel another.
TunnelsShareConnection == OneConnection /\ WorkingTunnelsShareClient

\* k8s.py:903: start_service_tunnel answers True if the kubectl port-forward started: the one of
\* this call has bound the port, where `ss` was there to tell.
TrueMeansForwarded ==
    answer = "true" /\ sound => procs[proc].state \in {"bound", "dead"}
=============================================================================
