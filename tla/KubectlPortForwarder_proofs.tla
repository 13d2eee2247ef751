--------------------- MODULE KubectlPortForwarder_proofs ---------------------
(***************************************************************************)
(* Theorems about SSHExecutor and KubectlPortForwarder, for all hosts,     *)
(* ports, connections and processes.  What every step does to the          *)
(* executor is one lemma, SshCases; an invariant of the connection is      *)
(* proved over its cases, one of the processes over the steps that start,  *)
(* end or forget one.                                                      *)
(***************************************************************************)
EXTENDS KubectlPortForwarder, TLAPS, FiniteSetTheorems

\* What a step may do to the executor.
SshStep ==
    \/ \E h \in Hosts : Connects(h) \/ ConnectFails(h)
    \/ Close
    \/ \E c \in Clients : ConnectionDrops(c)
    \/ UNCHANGED sshVars

\* A command, whatever comes of it, is one of these for the executor.
LEMMA RanCases ==
    ASSUME NEW h \in Hosts, NEW o, Ran(h, o)
    PROVE  SshStep
BY DEF Ran, GetClient, SshStep

\* The executor changes by its own operations only.
LEMMA SshCases ==
    ASSUME [Next]_vars
    PROVE  SshStep
<1>0. DefaultHost \in Hosts
  BY SshAssumption
<1>1. ASSUME NEW q \in Ports, NEW s \in BOOLEAN, StartTunnel(q, s) PROVE SshStep
  BY <1>1 DEF StartTunnel, SshStep
<1>2. CASE KillExisting
  BY <1>2, <1>0, RanCases DEF KillExisting
<1>3. CASE Launch
  BY <1>3, <1>0, RanCases DEF Launch
<1>4. CASE WaitListener
  BY <1>4, <1>0, RanCases DEF WaitListener
<1>5. CASE StartSshTunnel
  BY <1>5, <1>0 DEF StartSshTunnel, GetClient, SshStep
<1>6. ASSUME NEW s \in BOOLEAN, StopTunnels(s) PROVE SshStep
  BY <1>6 DEF StopTunnels, SshStep
<1>7. CASE StopKills
  BY <1>7, <1>0, RanCases DEF StopKills, SshStep
<1>8. ASSUME NEW h \in Hosts, OtherRun(h) PROVE SshStep
  BY <1>8, RanCases DEF OtherRun
<1>9. CASE CloseExecutor
  BY <1>9 DEF CloseExecutor, SshStep
<1>10. ASSUME NEW c \in Clients, Drops(c) PROVE SshStep
  BY <1>10 DEF Drops, SshStep
<1>11. ASSUME NEW p \in Procs, Bind(p) \/ KubectlDies(p) PROVE SshStep
  BY <1>11 DEF Bind, KubectlDies, SshStep
<1>12. CASE UNCHANGED vars
  BY <1>12 DEF vars, SshStep
<1> QED
  BY <1>1, <1>2, <1>3, <1>4, <1>5, <1>6, <1>7, <1>8, <1>9, <1>10, <1>11, <1>12 DEF Next

-----------------------------------------------------------------------------
(* The connection.                                                         *)

LEMMA ClientsAreNumbered ==
    Clients \subseteq Nat /\ NoClient \notin Clients
BY SshAssumption DEF Clients, NoClient

\* Every operation keeps the executor's types and its one connection.
LEMMA SshPreserved ==
    ASSUME SshTypeOK, OneConnection, SshStep
    PROVE  SshTypeOK' /\ OneConnection'
<1>1. ASSUME NEW h \in Hosts, Connects(h) PROVE SshTypeOK' /\ OneConnection'
  <2>1. PICK c \in Fresh :
            /\ client' = c /\ currentHost' = h
            /\ hostOf' = [hostOf EXCEPT ![c] = h]
            /\ open' = (open \ {client}) \union {c}
            /\ active' = (active \ {client}) \union {c}
    BY <1>1 DEF Connects
  <2>2. c \in Clients
    BY <2>1 DEF Fresh
  <2>3. SshTypeOK'
    BY <2>1, <2>2 DEF SshTypeOK
  <2>4. OneConnection'
    BY <2>1, <2>2 DEF OneConnection, SshTypeOK
  <2> QED
    BY <2>3, <2>4
<1>2. ASSUME NEW h \in Hosts, ConnectFails(h) PROVE SshTypeOK' /\ OneConnection'
  BY <1>2 DEF ConnectFails, SshTypeOK, OneConnection
<1>3. CASE Close
  BY <1>3 DEF Close, SshTypeOK, OneConnection
<1>4. ASSUME NEW c \in Clients, ConnectionDrops(c) PROVE SshTypeOK' /\ OneConnection'
  BY <1>4 DEF ConnectionDrops, SshTypeOK, OneConnection
<1>5. CASE UNCHANGED sshVars
  BY <1>5 DEF sshVars, SshTypeOK, OneConnection
<1> QED
  BY <1>1, <1>2, <1>3, <1>4, <1>5 DEF SshStep

\* A connection that is gone carries no tunnel: what is active is the cached client.
LEMMA ConnectionIsShared ==
    ASSUME SshTypeOK, OneConnection
    PROVE  TunnelsShareConnection
BY DEF SshTypeOK, OneConnection, TunnelsShareConnection, WorkingTunnelsShareClient

-----------------------------------------------------------------------------
(* The processes.                                                          *)

ProcTypeOK ==
    /\ pc \in {"idle", "kill", "launch", "wait", "tunnel", "stop"}
    /\ port \in Ports \union {NoPort}
    /\ sudo \in BOOLEAN
    /\ proc \in Procs \union {NoProc}
    /\ procs \in [Procs -> [state : {"unused", "starting", "bound", "refused", "dead"},
                            port : Ports \union {NoPort}, sudo : BOOLEAN]]
    /\ {pids, lost, missed, spared} \subseteq SUBSET Procs
    /\ sound \in BOOLEAN
    /\ answer \in {"none", "true", "false"}

TunnelTypeOK == tunnels \subseteq [port : Ports, client : Clients]

\* One process at most has a port: what TypeOK says by counting.
OneListener ==
    \A q \in Ports : \A p, r \in Listener(q) : p = r

\* The call under way has a port.
CallHasPort == pc \in {"kill", "launch", "wait", "tunnel"} => port \in Ports

IInv ==
    /\ SshTypeOK /\ OneConnection
    /\ ProcTypeOK /\ TunnelTypeOK /\ CallHasPort
    /\ OneListener /\ NoForgottenKubectl

LEMMA InitHolds == Init => IInv
<1> SUFFICES ASSUME Init PROVE IInv
  OBVIOUS
<1>1. SshTypeOK /\ OneConnection
  BY DEF Init, SshInit, SshTypeOK, OneConnection
<1>2. ProcTypeOK /\ TunnelTypeOK /\ CallHasPort
  BY DEF Init, ProcTypeOK, TunnelTypeOK, CallHasPort
<1>3. \A p \in Procs : procs[p].state = "unused"
  BY DEF Init
<1>4. OneListener /\ NoForgottenKubectl
  BY <1>3 DEF OneListener, Listener, NoForgottenKubectl, Alive
<1> QED
  BY <1>1, <1>2, <1>4 DEF IInv

-----------------------------------------------------------------------------
\* Killing changes no process but to dead.
LEMMA KilledOnlyDies ==
    ASSUME ProcTypeOK, NEW killed, Killed(killed)
    PROVE  /\ procs' \in [Procs -> [state : {"unused", "starting", "bound", "refused", "dead"},
                                    port : Ports \union {NoPort}, sudo : BOOLEAN]]
           /\ \A p \in Procs : procs'[p] = procs[p] \/ procs'[p].state = "dead"
           /\ \A p \in Procs \cap killed : procs'[p].state = "dead"
           /\ \A p \in Procs : procs'[p].sudo = procs[p].sudo
BY DEF ProcTypeOK, Killed

\* A step after which every process is as before or dead gives no port a second listener.
LEMMA DyingKeepsListeners ==
    ASSUME OneListener,
           \A p \in Procs : procs'[p] = procs[p] \/ procs'[p].state \in {"dead", "refused", "starting"}
    PROVE  OneListener'
<1> SUFFICES ASSUME NEW q \in Ports, NEW p \in Listener(q)', NEW r \in Listener(q)'
             PROVE  p = r
  BY DEF OneListener
<1>1. p \in Listener(q) /\ r \in Listener(q)
  BY DEF Listener
<1> QED
  BY <1>1 DEF OneListener

\* The types and the port of the call, step by step.
LEMMA TypePreserved ==
    ASSUME IInv, [Next]_vars
    PROVE  ProcTypeOK' /\ TunnelTypeOK' /\ CallHasPort'
<1> USE DEF IInv
<1>1. ASSUME NEW q \in Ports, NEW s \in BOOLEAN, StartTunnel(q, s) PROVE ProcTypeOK' /\ TunnelTypeOK' /\ CallHasPort'
  BY <1>1 DEF StartTunnel, ownVars, ProcTypeOK, TunnelTypeOK, CallHasPort
<1>2. CASE KillExisting
  <2>1. PICK k : Killed(k)
    BY <1>2 DEF KillExisting
  <2> QED
    BY <1>2, <2>1, KilledOnlyDies DEF KillExisting, ownVars, ProcTypeOK, TunnelTypeOK, CallHasPort
<1>3. CASE Launch
  <2>1. ASSUME NEW p \in Procs, Starts(p)
        PROVE  procs' \in [Procs -> [state : {"unused", "starting", "bound", "refused", "dead"},
                                     port : Ports \union {NoPort}, sudo : BOOLEAN]]
    BY <2>1 DEF Starts, ProcTypeOK
  <2> QED
    BY <1>3, <2>1 DEF Launch, Returns, ProcTypeOK, TunnelTypeOK, CallHasPort
<1>4. CASE WaitListener
  BY <1>4 DEF WaitListener, Returns, ownVars, ProcTypeOK, TunnelTypeOK, CallHasPort
<1>5. CASE StartSshTunnel
  <2>1. client' \in Clients \/ UNCHANGED tunnels
    <3>1. ASSUME GetClient(DefaultHost) PROVE client' \in Clients
      BY <3>1 DEF GetClient, Cached, Connects, Fresh, sshVars, SshTypeOK
    <3> QED
      BY <1>5, <3>1 DEF StartSshTunnel
  <2> QED
    BY <1>5, <2>1 DEF StartSshTunnel, Returns, ProcTypeOK, TunnelTypeOK, CallHasPort
<1>6. ASSUME NEW s \in BOOLEAN, StopTunnels(s)
      PROVE  ProcTypeOK' /\ TunnelTypeOK' /\ CallHasPort'
  BY <1>6 DEF StopTunnels, ProcTypeOK, TunnelTypeOK, CallHasPort
<1>7. CASE StopKills
  <2>1. (\E p \in Procs : Killed({p})) \/ UNCHANGED procs
    BY <1>7 DEF StopKills, KillPid, ProcTypeOK
  <2>2. procs' \in [Procs -> [state : {"unused", "starting", "bound", "refused", "dead"},
                              port : Ports \union {NoPort}, sudo : BOOLEAN]]
    BY <2>1, KilledOnlyDies DEF ProcTypeOK
  <2>3. UNCHANGED <<port, sudo, proc, sound, answer, tunnels, lost>> /\ pc' \in {"stop", "idle"}
    BY <1>7 DEF StopKills
  <2>4. pids' \subseteq Procs /\ missed' \subseteq Procs /\ spared' \subseteq Procs
    BY <1>7 DEF StopKills, KillPid, ProcTypeOK
  <2> QED
    BY <2>2, <2>3, <2>4 DEF ProcTypeOK, TunnelTypeOK, CallHasPort
<1>8. ASSUME NEW h \in Hosts, OtherRun(h) PROVE ProcTypeOK' /\ TunnelTypeOK' /\ CallHasPort'
  BY <1>8 DEF OtherRun, callVars, ownVars, ProcTypeOK, TunnelTypeOK, CallHasPort
<1>9. CASE CloseExecutor
  BY <1>9 DEF CloseExecutor, callVars, ownVars, ProcTypeOK, TunnelTypeOK, CallHasPort
<1>10. ASSUME NEW c \in Clients, Drops(c) PROVE ProcTypeOK' /\ TunnelTypeOK' /\ CallHasPort'
  BY <1>10 DEF Drops, callVars, ownVars, ProcTypeOK, TunnelTypeOK, CallHasPort
<1>11. ASSUME NEW p \in Procs, Bind(p) \/ KubectlDies(p)
       PROVE  ProcTypeOK' /\ TunnelTypeOK' /\ CallHasPort'
  BY <1>11 DEF Bind, KubectlDies, callVars, ownVars, ProcTypeOK, TunnelTypeOK, CallHasPort
<1>12. CASE UNCHANGED vars
  BY <1>12 DEF vars, callVars, ownVars, ProcTypeOK, TunnelTypeOK, CallHasPort
<1> QED
  BY <1>1, <1>2, <1>3, <1>4, <1>5, <1>6, <1>7, <1>8, <1>9, <1>10, <1>11, <1>12 DEF Next

\* Only Bind gives a port a listener, and only one that has none.
LEMMA ListenerPreserved ==
    ASSUME IInv, [Next]_vars
    PROVE  OneListener'
<1> USE DEF IInv
<1>1. CASE UNCHANGED procs
  BY <1>1 DEF OneListener, Listener
<1>2. ASSUME NEW k, Killed(k) PROVE OneListener'
  BY <1>2, KilledOnlyDies, DyingKeepsListeners
<1>3. ASSUME NEW p \in Procs, Starts(p) PROVE OneListener'
  <2>1. \A r \in Procs : procs'[r] = procs[r] \/ procs'[r].state = "starting"
    BY <1>3 DEF Starts, ProcTypeOK
  <2> QED
    BY <2>1, DyingKeepsListeners
<1>4. ASSUME NEW p \in Procs, Bind(p) PROVE OneListener'
  <2>1. CASE Listener(procs[p].port) = {} /\ procs' = [procs EXCEPT ![p].state = "bound"]
    <3>1. \A q \in Ports : Listener(q)' \subseteq Listener(q) \union {p}
      BY <2>1 DEF Listener, ProcTypeOK
    <3>2. \A q \in Ports : p \in Listener(q)' => Listener(q) = {}
      BY <2>1 DEF Listener, ProcTypeOK
    <3> QED
      BY <3>1, <3>2 DEF OneListener
  <2>2. CASE procs' = [procs EXCEPT ![p].state = "refused"]
    <3>1. \A r \in Procs : procs'[r] = procs[r] \/ procs'[r].state = "refused"
      BY <2>2 DEF ProcTypeOK
    <3> QED
      BY <3>1, DyingKeepsListeners
  <2> QED
    BY <1>4, <2>1, <2>2 DEF Bind
<1>5. ASSUME NEW p \in Procs, KubectlDies(p) PROVE OneListener'
  <2>1. \A r \in Procs : procs'[r] = procs[r] \/ procs'[r].state = "dead"
    BY <1>5 DEF KubectlDies, ProcTypeOK
  <2> QED
    BY <2>1, DyingKeepsListeners
<1>6. KillExisting => \E k : Killed(k)
  BY DEF KillExisting
<1>7. Launch => UNCHANGED procs \/ \E p \in Procs : Starts(p)
  BY DEF Launch
<1>8. StopKills => UNCHANGED procs \/ \E k : Killed(k)
  BY DEF StopKills, KillPid
<1>9. \/ WaitListener \/ StartSshTunnel \/ CloseExecutor \/ UNCHANGED vars
      \/ \E q \in Ports, s \in BOOLEAN : StartTunnel(q, s)
      \/ \E s \in BOOLEAN : StopTunnels(s)
      \/ \E h \in Hosts : OtherRun(h)
      \/ \E c \in Clients : Drops(c)
      => UNCHANGED procs
  BY DEF WaitListener, StartSshTunnel, StopTunnels, CloseExecutor, vars, StartTunnel, OtherRun, Drops
<1> QED
  BY <1>1, <1>2, <1>3, <1>4, <1>5, <1>6, <1>7, <1>8, <1>9 DEF Next

-----------------------------------------------------------------------------
\* A step that starts nothing and strikes nothing from the lists forgets nothing.
LEMMA NothingStruck ==
    ASSUME NoForgottenKubectl,
           pids \subseteq pids', lost \subseteq lost', missed \subseteq missed', spared \subseteq spared',
           \A p \in Procs : Alive(p)' => Alive(p) /\ procs'[p].sudo = procs[p].sudo
    PROVE  NoForgottenKubectl'
BY DEF NoForgottenKubectl, MaySudo

\* No failed call, timeout, refused port or dropped connection makes the forwarder forget a process.
LEMMA ForgetsNone ==
    ASSUME IInv, [Next]_vars
    PROVE  NoForgottenKubectl'
<1> USE DEF IInv
<1>1. CASE UNCHANGED <<procs, pids, lost, missed, spared>>
  BY <1>1, NothingStruck DEF Alive
<1>2. CASE KillExisting
  <2>1. PICK k : Killed(k)
    BY <1>2 DEF KillExisting
  <2>2. \A p \in Procs : Alive(p)' => Alive(p) /\ procs'[p].sudo = procs[p].sudo
    BY <2>1, KilledOnlyDies DEF Alive
  <2> QED
    BY <1>2, <2>2, NothingStruck DEF KillExisting, ownVars
<1>3. CASE Launch
  <2>1. ASSUME NEW p \in Procs, Starts(p), p \in pids' \union lost',
               pids \subseteq pids', lost \subseteq lost', missed' = missed, spared' = spared
        PROVE  NoForgottenKubectl'
    <3>1. \A r \in Procs \ {p} : Alive(r)' => Alive(r) /\ procs'[r].sudo = procs[r].sudo
      BY <2>1 DEF Starts, Alive, ProcTypeOK
    <3> QED
      BY <2>1, <3>1 DEF NoForgottenKubectl, MaySudo
  <2>2. \/ UNCHANGED <<procs, pids, lost, missed, spared>>
        \/ \E p \in Procs : /\ Starts(p) /\ p \in pids' \union lost'
                            /\ pids \subseteq pids' /\ lost \subseteq lost'
                            /\ missed' = missed /\ spared' = spared
    BY <1>3 DEF Launch
  <2> QED
    BY <1>1, <2>1, <2>2
<1>4. CASE StopKills
  <2>1. ASSUME NEW p \in pids, Killed({p}), pids' = pids \ {p}, UNCHANGED <<lost, missed, spared>>
        PROVE  NoForgottenKubectl'
    <3>1. \A r \in Procs : Alive(r)' => Alive(r) /\ r # p /\ procs'[r].sudo = procs[r].sudo
      BY <2>1, KilledOnlyDies DEF Alive, ProcTypeOK
    <3> QED
      BY <2>1, <3>1 DEF NoForgottenKubectl, MaySudo
  <2>2. ASSUME NEW p \in pids, missed' = missed \union {p}, pids' = pids \ {p},
               UNCHANGED <<procs, lost, spared>>
        PROVE  NoForgottenKubectl'
    BY <2>2 DEF NoForgottenKubectl, Alive, MaySudo
  <2>3. ASSUME NEW p \in pids, spared' = spared \union {p}, pids' = pids \ {p},
               procs[p].sudo \/ ~MaySudo, UNCHANGED <<procs, lost, missed>>
        PROVE  NoForgottenKubectl'
    BY <2>3 DEF NoForgottenKubectl, Alive, MaySudo
  <2>4. ASSUME NEW p \in pids,
               ~(IF sudo THEN MaySudo ELSE MaySignal(p)) \/ procs[p].sudo
        PROVE  procs[p].sudo \/ ~MaySudo
    BY <2>4 DEF MaySignal
  <2> QED
    BY <1>1, <1>4, <2>1, <2>2, <2>3, <2>4 DEF StopKills, KillPid
<1>5. ASSUME NEW p \in Procs, Bind(p) \/ KubectlDies(p) PROVE NoForgottenKubectl'
  <2>1. \A r \in Procs : Alive(r)' => Alive(r) /\ procs'[r].sudo = procs[r].sudo
    BY <1>5 DEF Bind, KubectlDies, Alive, ProcTypeOK
  <2> QED
    BY <1>5, <2>1, NothingStruck DEF Bind, KubectlDies, ownVars
<1>6. \/ WaitListener \/ StartSshTunnel \/ CloseExecutor \/ UNCHANGED vars
      \/ \E q \in Ports, s \in BOOLEAN : StartTunnel(q, s)
      \/ \E s \in BOOLEAN : StopTunnels(s)
      \/ \E h \in Hosts : OtherRun(h)
      \/ \E c \in Clients : Drops(c)
      => UNCHANGED <<procs, pids, lost, missed, spared>>
  BY DEF WaitListener, StartSshTunnel, StopTunnels, CloseExecutor, vars, StartTunnel, OtherRun, Drops,
         ownVars
<1> QED
  BY <1>1, <1>2, <1>3, <1>4, <1>5, <1>6 DEF Next

-----------------------------------------------------------------------------
LEMMA IInvPreserved == IInv /\ [Next]_vars => IInv'
BY SshCases, SshPreserved, TypePreserved, ListenerPreserved, ForgetsNone DEF IInv

\* The inductive invariant holds throughout.
THEOREM IInvAlways == Spec => []IInv
BY InitHolds, IInvPreserved, PTL DEF Spec

\* Counting: a set in which any two are one has one element at most.
LEMMA AtMostOne ==
    ASSUME NEW S, \A x, y \in S : x = y
    PROVE  IsFiniteSet(S) /\ Cardinality(S) <= 1
<1>1. CASE S = {}
  BY <1>1, FS_EmptySet
<1>2. CASE S # {}
  <2>1. PICK x : S = {x}
    BY <1>2
  <2>2. IsFiniteSet({x}) /\ Cardinality({x}) = 1
    BY FS_Singleton
  <2> QED
    BY <2>1, <2>2
<1> QED
  BY <1>1, <1>2

\* The state of executor and forwarder is of its type, and no port has two listeners.
THEOREM TypeCorrect == Spec => []TypeOK
<1>1. IInv => TypeOK
  BY AtMostOne DEF IInv, TypeOK, ProcTypeOK, TunnelTypeOK, OneListener
<1> QED
  BY <1>1, IInvAlways, PTL

\* Whatever drops, fails or goes to another host: one connection, to the host remembered, and every
\* tunnel that works on it.
THEOREM TunnelsShareConnectionAlways == Spec => []TunnelsShareConnection
<1>1. IInv => TunnelsShareConnection
  BY ConnectionIsShared DEF IInv
<1> QED
  BY <1>1, IInvAlways, PTL

\* stop_all() never forgets a kubectl but those whose pid it never had, whose kill never got through
\* or that outlived their kill, which only sudo lets them do.
THEOREM NoForgottenKubectlAlways == Spec => []NoForgottenKubectl
<1>1. IInv => NoForgottenKubectl
  BY DEF IInv
<1> QED
  BY <1>1, IInvAlways, PTL
=============================================================================
