-------------------------- MODULE MCCluster_proofs --------------------------
(***************************************************************************)
(* Theorems about the calls on a cluster besides those of KubeClient, each *)
(* for every value of its parameters.  They share no variable: a step of   *)
(* the cluster is a step of each or leaves it alone, so an invariant of    *)
(* one is one of the cluster.                                              *)
(***************************************************************************)
EXTENDS MCCluster, KubeClient_proofs, WellFoundedInduction

-----------------------------------------------------------------------------
(* LocalPortForwarder: most steps only end processes and drop entries of   *)
(* ended ones; one lemma stands for them.                                  *)

ForwardEntry == [process : Nat, service : Services, port : LocalPorts]
ProcessState == {"starting", "bound", "ended"}

\* What is in the list, or may come into it.
Held == ToSet(forwards) \union (IF forwardPc = "idle" THEN {} ELSE {new})

ForwardTypes ==
    /\ forwards \in Seq(ForwardEntry) /\ proc \in Seq(ProcessState)
    /\ forwardPc \in {"idle", "check", "connect", "append"}
    /\ IF forwardPc = "idle" THEN new = Forward!NoEntry ELSE new \in ForwardEntry

\* An entry is of one process, that was started.
EntriesKnown ==
    /\ \A e \in Held : e.process \in DOMAIN proc
    /\ \A e, f \in Held : e.process = f.process => e = f
LiveHeld == \A i \in Forward!Live : \E e \in Held : e.process = i
OnePort ==
    \A e, f \in Held : proc[e.process] = "bound" /\ proc[f.process] = "bound" /\ e.port = f.port => e = f

ForwardIInv == ForwardTypes /\ EntriesKnown /\ LiveHeld /\ OnePort

(* Sequences: an element taken out, and the first that passes a test.      *)

LEMMA RemovedFromSeq ==
    ASSUME NEW S, NEW s \in Seq(S), NEW k \in DOMAIN s
    PROVE  /\ RemoveAt(s, k) \in Seq(S)
           /\ ToSet(RemoveAt(s, k)) \subseteq ToSet(s)
           /\ \A m \in DOMAIN s : m # k => s[m] \in ToSet(RemoveAt(s, k))
<1> DEFINE a == SubSeq(s, 1, k - 1)
<1> DEFINE b == SubSeq(s, k + 1, Len(s))
<1>1. k \in 1..Len(s) /\ Len(s) \in Nat
  OBVIOUS
<1>2. a \in Seq(S) /\ Len(a) = k - 1 /\ \A i \in 1..(k - 1) : a[i] = s[i]
  BY <1>1
<1>3. b \in Seq(S) /\ Len(b) = Len(s) - k /\ \A i \in 1..(Len(s) - k) : b[i] = s[k + i]
  BY <1>1
<1> HIDE DEF a, b
<1> DEFINE c == a \o b
<1>4. c \in Seq(S) /\ Len(c) = Len(s) - 1
  BY <1>1, <1>2, <1>3
<1>5. \A i \in 1..(Len(s) - 1) : c[i] = IF i < k THEN s[i] ELSE s[i + 1]
  BY SMTT(20), <1>1, <1>2, <1>3
<1>6. RemoveAt(s, k) = c
  BY DEF RemoveAt, a, b
<1> HIDE DEF c
<1>7. DOMAIN c = 1..(Len(s) - 1) /\ DOMAIN s = 1..Len(s)
  BY <1>4
<1>8. ASSUME NEW i \in DOMAIN c
      PROVE  c[i] \in ToSet(s)
  <2>1. \E j \in DOMAIN s : c[i] = s[j]
    <3>1. CASE i < k
      BY <1>1, <1>5, <1>7, <3>1
    <3>2. CASE ~(i < k)
      <4>1. i + 1 \in DOMAIN s /\ c[i] = s[i + 1]
        BY <1>1, <1>5, <1>7, <3>2
      <4> QED
        BY <4>1
    <3> QED
      BY <3>1, <3>2
  <2> QED
    BY <2>1 DEF ToSet
<1>9. ASSUME NEW m \in DOMAIN s, m # k
      PROVE  s[m] \in ToSet(c)
  <2>1. \E i \in DOMAIN c : c[i] = s[m]
    <3>1. CASE m < k
      <4>1. m \in DOMAIN c /\ c[m] = s[m]
        BY <1>1, <1>5, <1>7, <3>1
      <4> QED
        BY <4>1
    <3>2. CASE m > k
      <4>1. m - 1 \in 1..(Len(s) - 1) /\ ~(m - 1 < k) /\ (m - 1) + 1 = m
        BY <1>1, <1>7, <3>2
      <4>2. m - 1 \in DOMAIN c /\ c[m - 1] = s[m]
        BY <1>5, <1>7, <4>1
      <4> QED
        BY <4>2
    <3> QED
      BY <1>1, <1>7, <1>9, <3>1, <3>2
  <2> QED
    BY <2>1 DEF ToSet
<1>10. ToSet(c) \subseteq ToSet(s)
  BY <1>8 DEF ToSet
<1> QED
  BY <1>4, <1>6, <1>9, <1>10

LEMMA AppendedSet ==
    ASSUME NEW S, NEW s \in Seq(S), NEW x
    PROVE  ToSet(Append(s, x)) = ToSet(s) \union {x}
<1>1. s \in Seq(S \union {x})
  OBVIOUS
<1> DEFINE c == Append(s, x)
<1>2. /\ DOMAIN s = 1..Len(s) /\ Len(s) \in Nat /\ DOMAIN c = 1..(Len(s) + 1)
      /\ \A i \in DOMAIN s : c[i] = s[i]
      /\ c[Len(s) + 1] = x
  BY <1>1
<1> HIDE DEF c
<1>3. \A y \in ToSet(c) : y \in ToSet(s) \union {x}
  BY <1>2 DEF ToSet
<1>4. \A y \in ToSet(s) : y \in ToSet(c)
  BY <1>2 DEF ToSet
<1>5. x \in ToSet(c)
  <2>1. Len(s) + 1 \in DOMAIN c
    BY <1>2
  <2> QED
    BY <1>2, <2>1 DEF ToSet
<1> QED
  BY <1>3, <1>4, <1>5 DEF c

LEMMA LeastIsIn ==
    ASSUME NEW I \in SUBSET Nat, I # {}
    PROVE  Min(I) \in I /\ \A y \in I : Min(I) <= y
<1>1. PICK x \in I : \A y \in I : ~(<<y, x>> \in OpToRel(<, Nat))
  BY NatLessThanWellFounded, WFMin
<1>2. ASSUME NEW y \in I
      PROVE  x <= y
  <2>1. x \in Nat /\ y \in Nat
    OBVIOUS
  <2>2. y < x => <<y, x>> \in OpToRel(<, Nat)
    BY <2>1 DEF OpToRel
  <2>3. ~(<<y, x>> \in OpToRel(<, Nat))
    BY <1>1
  <2>4. ~(y < x)
    BY <2>2, <2>3, Zenon
  <2> QED
    BY <2>1, <2>4
<1> QED
  BY <1>2 DEF Min

\* _forward of a service: an entry of it, or there is none.
LEMMA FirstFound ==
    ASSUME forwards \in Seq(ForwardEntry), NEW s
    PROVE  /\ Forward!First(s) = 0 => \A e \in ToSet(forwards) : e.service # s
           /\ Forward!First(s) # 0 => Forward!First(s) \in DOMAIN forwards /\ forwards[Forward!First(s)].service = s
<1> DEFINE I == {i \in 1..Len(forwards) : forwards[i].service = s}
<1>1. Forward!First(s) = IF I # {} THEN Min(I) ELSE 0
  BY DEF Forward!First, Forward!SelectInSeq, Forward!Min, Min
<1>2. I \in SUBSET Nat /\ DOMAIN forwards = 1..Len(forwards)
  OBVIOUS
<1>3. I # {} => Min(I) \in I
  BY <1>2, LeastIsIn
<1>4. I = {} => \A e \in ToSet(forwards) : e.service # s
  BY <1>2 DEF ToSet
<1> QED
  BY <1>1, <1>2, <1>3, <1>4

\* The instance has copies of the operators on sequences.
LEMMA ForwardSequences ==
    /\ \A s : Forward!ToSet(s) = ToSet(s)
    /\ \A s, k : Forward!RemoveAt(s, k) = RemoveAt(s, k)
BY DEF Forward!ToSet, ToSet, Forward!RemoveAt, RemoveAt

\* No process has the number 0.
LEMMA NoEntryHasNoProcess == Forward!NoEntry.process = 0
BY Zenon DEF Forward!NoEntry

LEMMA ForwardInit == Forward!Init => ForwardIInv
<1> SUFFICES ASSUME Forward!Init PROVE ForwardIInv
  OBVIOUS
<1>1. forwards = <<>> /\ proc = <<>> /\ DOMAIN proc = {} /\ forwardPc = "idle" /\ new = Forward!NoEntry
  BY DEF Forward!Init
<1>2. Held = {} /\ Forward!Live = {}
  BY <1>1 DEF Held, ToSet, Forward!Live
<1>3. ForwardTypes
  BY <1>1 DEF ForwardTypes
<1> QED
  BY <1>2, <1>3 DEF ForwardIInv, EntriesKnown, LiveHeld, OnePort

\* A step that ends processes and drops entries, but none of a live process.
LEMMA EndingKeeps ==
    ASSUME ForwardIInv, ForwardTypes', Held' \subseteq Held, DOMAIN proc' = DOMAIN proc,
           \A i \in DOMAIN proc : proc'[i] = proc[i] \/ proc'[i] = "ended",
           \A e \in Held : proc'[e.process] # "ended" => e \in Held'
    PROVE  ForwardIInv'
<1>1. EntriesKnown' /\ OnePort'
  BY DEF ForwardIInv, EntriesKnown, OnePort
<1>2. Forward!Live' \subseteq Forward!Live
  BY DEF Forward!Live
<1>3. LiveHeld'
  BY <1>2 DEF ForwardIInv, LiveHeld, Forward!Live
<1> QED
  BY <1>1, <1>3 DEF ForwardIInv

LEMMA ForwardStartPreserves == ForwardIInv /\ Forward!Start => ForwardIInv'
<1> SUFFICES ASSUME ForwardIInv, Forward!Start PROVE ForwardIInv'
  OBVIOUS
<1>t. ForwardTypes /\ EntriesKnown /\ LiveHeld /\ OnePort
  BY DEF ForwardIInv
<1>1. forwardPc = "idle" /\ UNCHANGED <<forwards, taken>>
  BY DEF Forward!Start
<1>2. CASE UNCHANGED <<new, proc, forwardPc>>
  BY <1>1, <1>2, <1>t DEF ForwardIInv, ForwardTypes, EntriesKnown, LiveHeld, OnePort, Held, Forward!Live
<1>3. ASSUME NEW s \in Services, NEW p \in LocalPorts,
             new' = [process |-> Len(proc) + 1, service |-> s, port |-> p],
             proc' = Append(proc, "starting"), forwardPc' \in {"check", "append"}
      PROVE  ForwardIInv'
  <2> DEFINE n == Len(proc) + 1
  <2>1. /\ proc \in Seq(ProcessState) /\ Len(proc) \in Nat
        /\ proc' \in Seq(ProcessState) /\ DOMAIN proc = 1..Len(proc) /\ DOMAIN proc' = 1..n
        /\ proc'[n] = "starting" /\ \A i \in DOMAIN proc : proc'[i] = proc[i]
    BY <1>t, <1>3 DEF ForwardTypes, ProcessState
  <2>2. new' \in ForwardEntry /\ new'.process = n
    BY <1>3, <2>1 DEF ForwardEntry
  <2>3. Held' = Held \union {new'}
    BY <1>1, <1>3 DEF Held
  <2>4. \A e \in Held : e.process \in DOMAIN proc /\ e.process # n
    BY <1>t, <2>1 DEF EntriesKnown
  <2>5. ForwardTypes'
    BY <1>t, <1>1, <1>3, <2>1, <2>2 DEF ForwardTypes
  <2>6. EntriesKnown'
    BY <1>t, <2>1, <2>2, <2>3, <2>4 DEF EntriesKnown
  <2>7. Forward!Live' = Forward!Live \union {n}
    BY <2>1 DEF Forward!Live
  <2>8. LiveHeld'
    BY <1>t, <2>2, <2>3, <2>7 DEF LiveHeld
  <2>9. OnePort'
    BY <1>t, <2>1, <2>2, <2>3, <2>4 DEF OnePort
  <2> QED
    BY <2>5, <2>6, <2>8, <2>9 DEF ForwardIInv
<1> QED
  BY <1>2, <1>3 DEF Forward!Start

\* The steps of a start that change no process, and the clock.
LEMMA ForwardCallPreserves ==
    ForwardIInv /\ (Forward!CheckProcess \/ Forward!TryConnect \/ Forward!Register \/ Forward!TimeoutPasses) => ForwardIInv'
<1> SUFFICES ASSUME ForwardIInv, Forward!CheckProcess \/ Forward!TryConnect \/ Forward!Register \/ Forward!TimeoutPasses PROVE ForwardIInv'
  OBVIOUS
<1>t. ForwardTypes /\ forwardPc # "idle" /\ new \in ForwardEntry
  BY DEF ForwardIInv, ForwardTypes, Forward!CheckProcess, Forward!TryConnect, Forward!Register, Forward!TimeoutPasses
<1>p. UNCHANGED proc /\ proc \in Seq(ProcessState)
  BY <1>t DEF Forward!CheckProcess, Forward!TryConnect, Forward!Register, Forward!TimeoutPasses, ForwardTypes
<1>1. CASE UNCHANGED <<forwards, new>> /\ forwardPc' \in {"check", "connect", "append"}
  <2>1. ForwardTypes' /\ Held' = Held
    BY <1>t, <1>p, <1>1 DEF ForwardTypes, Held
  <2> QED
    BY <1>p, <2>1, EndingKeeps
<1>2. CASE Forward!CheckProcess /\ new' = Forward!NoEntry
  <2>1. forwardPc' = "idle" /\ proc[new.process] = "ended" /\ UNCHANGED forwards
    <3>1. new \in Held
      BY <1>t DEF Held
    <3>2. new.process \in 1..Len(proc)
      BY <1>p, <3>1 DEF ForwardIInv, EntriesKnown
    <3>3. new # Forward!NoEntry
      BY <1>p, <3>2, NoEntryHasNoProcess
    <3> QED
      BY <1>2, <3>3 DEF Forward!CheckProcess
  <2>2. ForwardTypes' /\ Held' = ToSet(forwards) /\ Held = Held' \union {new}
    BY <1>t, <1>p, <1>2, <2>1 DEF ForwardTypes, Held
  <2> QED
    BY <1>p, <2>1, <2>2, EndingKeeps
<1>3. CASE Forward!Register
  <2>1. forwards' = Append(forwards, new) /\ forwardPc' = "idle" /\ new' = Forward!NoEntry
    BY <1>3 DEF Forward!Register
  <2>2. forwards \in Seq(ForwardEntry)
    BY <1>t DEF ForwardTypes
  <2>3. ToSet(Append(forwards, new)) = ToSet(forwards) \union {new}
    BY <2>2, AppendedSet
  <2>4. ForwardTypes' /\ Held' = Held
    BY <1>t, <1>p, <2>1, <2>2, <2>3 DEF ForwardTypes, Held
  <2> QED
    BY <1>p, <2>4, EndingKeeps
<1>4. CASE Forward!CheckProcess /\ new' # Forward!NoEntry
  BY <1>1, <1>4 DEF Forward!CheckProcess
<1>5. CASE Forward!TryConnect \/ Forward!TimeoutPasses
  BY <1>1, <1>5 DEF Forward!TryConnect, Forward!TimeoutPasses
<1> QED
  BY <1>2, <1>3, <1>4, <1>5

LEMMA ForwardStopPreserves == ForwardIInv /\ (Forward!StopService \/ Forward!StopAll) => ForwardIInv'
<1> SUFFICES ASSUME ForwardIInv, Forward!StopService \/ Forward!StopAll PROVE ForwardIInv'
  OBVIOUS
<1>t. ForwardTypes /\ EntriesKnown /\ forwardPc = "idle" /\ Held = ToSet(forwards)
  BY DEF ForwardIInv, ForwardTypes, Held, Forward!StopService, Forward!StopAll
<1>s. forwards \in Seq(ForwardEntry) /\ proc \in Seq(ProcessState)
  BY <1>t DEF ForwardTypes
<1>u. UNCHANGED <<forwardPc, new>>
  BY DEF Forward!StopService, Forward!StopAll
<1>1. CASE Forward!StopService
  <2>1. PICK s \in Services :
             /\ Forward!First(s) # 0
             /\ proc' = [proc EXCEPT ![forwards[Forward!First(s)].process] = "ended"]
             /\ forwards' = RemoveAt(forwards, Forward!First(s))
    BY <1>1, ForwardSequences DEF Forward!StopService
  <2> DEFINE k == Forward!First(s)
  <2>2. k \in DOMAIN forwards
    BY <1>s, <2>1, FirstFound
  <2> HIDE DEF k
  <2>3. /\ forwards' \in Seq(ForwardEntry) /\ ToSet(forwards') \subseteq ToSet(forwards)
        /\ \A m \in DOMAIN forwards : m # k => forwards[m] \in ToSet(forwards')
    BY <1>s, <2>1, <2>2, RemovedFromSeq DEF k
  <2>4. forwards[k].process \in DOMAIN proc
    BY <1>t, <2>2 DEF EntriesKnown, ToSet
  <2>5. proc' \in [DOMAIN proc -> ProcessState] /\ DOMAIN proc' = DOMAIN proc
        /\ proc'[forwards[k].process] = "ended"
        /\ \A i \in DOMAIN proc : proc'[i] = proc[i] \/ proc'[i] = "ended"
    BY <1>s, <2>1, <2>4 DEF k, ProcessState
  <2>6. proc' \in Seq(ProcessState)
    BY <1>s, <2>5
  <2>7. ForwardTypes' /\ Held' = ToSet(forwards')
    BY <1>t, <1>u, <2>3, <2>6 DEF ForwardTypes, Held
  <2>8. \A e \in Held : proc'[e.process] # "ended" => e \in Held'
    BY <1>t, <2>3, <2>5, <2>7 DEF ToSet
  <2> QED
    BY <1>t, <2>3, <2>5, <2>7, <2>8, EndingKeeps
<1>2. CASE Forward!StopAll
  <2>1. /\ proc' = [i \in DOMAIN proc |->
                       IF \E e \in ToSet(forwards) : e.process = i THEN "ended" ELSE proc[i]]
        /\ forwards' = <<>>
    BY <1>2, ForwardSequences DEF Forward!StopAll
  <2>2. proc' \in [DOMAIN proc -> ProcessState] /\ proc' \in Seq(ProcessState)
    BY <1>s, <2>1 DEF ProcessState
  <2>3. ToSet(forwards') = {}
    BY <2>1 DEF ToSet
  <2>4. ForwardTypes' /\ Held' = {}
    BY <1>t, <1>u, <2>1, <2>2, <2>3 DEF ForwardTypes, Held
  <2>5. \A e \in Held : proc'[e.process] = "ended"
    BY <1>t, <2>1 DEF EntriesKnown
  <2> QED
    BY <2>1, <2>2, <2>4, <2>5, EndingKeeps
<1> QED
  BY <1>1, <1>2

LEMMA ForwardKubectlPreserves == ForwardIInv /\ (Forward!KubectlBinds \/ Forward!KubectlEnds) => ForwardIInv'
<1> SUFFICES ASSUME ForwardIInv, Forward!KubectlBinds \/ Forward!KubectlEnds PROVE ForwardIInv'
  OBVIOUS
<1>t. ForwardTypes /\ EntriesKnown /\ LiveHeld /\ OnePort
  BY DEF ForwardIInv
<1>s. forwards \in Seq(ForwardEntry) /\ proc \in Seq(ProcessState)
  BY <1>t DEF ForwardTypes
<1>u. UNCHANGED <<forwards, forwardPc, new>> /\ Held' = Held
  BY DEF Forward!KubectlBinds, Forward!KubectlEnds, Held
<1>1. ASSUME NEW i \in DOMAIN proc, proc' = [proc EXCEPT ![i] = "ended"]
      PROVE  ForwardIInv'
  <2>1. proc' \in Seq(ProcessState) /\ DOMAIN proc' = DOMAIN proc
        /\ \A j \in DOMAIN proc : proc'[j] = proc[j] \/ proc'[j] = "ended"
    BY <1>s, <1>1 DEF ProcessState
  <2>2. ForwardTypes'
    BY <1>t, <1>u, <2>1 DEF ForwardTypes
  <2> QED
    BY <1>u, <2>1, <2>2, EndingKeeps
<1>2. CASE Forward!KubectlBinds
  <2>1. PICK i \in DOMAIN proc, e \in ToSet(Append(forwards, new)) :
             /\ proc[i] = "starting" /\ e.process = i
             /\ proc' = [proc EXCEPT ![i] = IF Forward!Connects(e.port) THEN "ended" ELSE "bound"]
    BY <1>2, ForwardSequences DEF Forward!KubectlBinds
  <2>2. ToSet(Append(forwards, new)) = ToSet(forwards) \union {new}
    BY <1>s, AppendedSet
  <2>3. e \in Held
    <3>1. i \in 1..Len(proc)
      BY <1>s
    <3>2. CASE forwardPc = "idle"
      <4>1. new.process = 0
        BY <1>t, <3>2, NoEntryHasNoProcess DEF ForwardTypes
      <4> QED
        BY <1>s, <2>1, <2>2, <3>1, <4>1 DEF Held
    <3>3. CASE forwardPc # "idle"
      BY <2>1, <2>2, <3>3 DEF Held
    <3> QED
      BY <3>2, <3>3
  <2>4. CASE Forward!Connects(e.port)
    BY <1>1, <2>1, <2>4
  <2>5. CASE ~Forward!Connects(e.port)
    <3>1. /\ proc' \in Seq(ProcessState) /\ DOMAIN proc' = DOMAIN proc /\ proc'[i] = "bound"
          /\ \A j \in DOMAIN proc : j # i => proc'[j] = proc[j]
      BY <1>s, <2>1, <2>5 DEF ProcessState
    <3>2. ForwardTypes' /\ EntriesKnown'
      BY <1>t, <1>u, <3>1 DEF ForwardTypes, EntriesKnown
    <3>3. Forward!Live' = Forward!Live
      BY <2>1, <3>1 DEF Forward!Live
    <3>4. LiveHeld'
      BY <1>t, <1>u, <3>3 DEF LiveHeld
    <3>5. Held \subseteq ToSet(Append(forwards, new))
      BY <2>2 DEF Held
    <3>6. \A f \in Held : proc[f.process] = "bound" => f.port # e.port
      BY <1>t, <2>5, <3>5, ForwardSequences DEF Forward!Connects, Forward!Bound, EntriesKnown
    <3>7. \A f \in Held : f.process = i => f = e
      BY <1>t, <2>1, <2>3 DEF EntriesKnown
    <3>8. \A f \in Held : f # e => proc'[f.process] = proc[f.process]
      BY <1>t, <3>1, <3>7 DEF EntriesKnown
    <3>9. OnePort'
      BY <1>t, <1>u, <3>6, <3>8 DEF OnePort
    <3> QED
      BY <3>2, <3>4, <3>9 DEF ForwardIInv
  <2> QED
    BY <2>4, <2>5
<1>3. CASE Forward!KubectlEnds
  BY <1>1, <1>3 DEF Forward!KubectlEnds, Forward!Live
<1> QED
  BY <1>2, <1>3

LEMMA ForwardStep == ForwardIInv /\ [Forward!Next]_forwardVars => ForwardIInv'
<1>1. ASSUME ForwardIInv, UNCHANGED forwardVars
      PROVE  ForwardIInv'
  BY <1>1 DEF forwardVars, ForwardIInv, ForwardTypes, EntriesKnown, LiveHeld, OnePort, Held, Forward!Live
<1> QED
  BY <1>1, ForwardStartPreserves, ForwardCallPreserves, ForwardStopPreserves, ForwardKubectlPreserves
  DEF Forward!Next

LEMMA ForwardImplies == ForwardIInv => Forward!TypeOK /\ Forward!ForwardsReachable
<1>t. ForwardIInv => Forward!TypeOK
  <2> SUFFICES ASSUME ForwardIInv, NEW i \in DOMAIN forwards
               PROVE  forwards[i].service \in Services /\ forwards[i].process \in DOMAIN proc
    BY DEF ForwardIInv, ForwardTypes, Forward!TypeOK
  <2>1. forwards[i] \in ForwardEntry /\ forwards[i] \in Held
    BY DEF ForwardIInv, ForwardTypes, Held, ToSet
  <2> QED
    BY <2>1 DEF ForwardIInv, EntriesKnown, ForwardEntry
<1>r. ForwardIInv => Forward!ForwardsReachable
  <2> SUFFICES ASSUME ForwardIInv, forwardPc = "idle" PROVE Forward!ForwardsReachable
    BY DEF Forward!ForwardsReachable
  <2>1. Held = ToSet(forwards) /\ forwards \in Seq(ForwardEntry)
    BY DEF ForwardIInv, Held, ForwardTypes
  <2>2. /\ \A i \in Forward!Live : \E e \in ToSet(forwards) : e.process = i
        /\ \A e, f \in ToSet(forwards) :
              proc[e.process] = "bound" /\ proc[f.process] = "bound" /\ e.port = f.port => e = f
    BY <2>1 DEF ForwardIInv, LiveHeld, OnePort
  <2>3. ASSUME NEW s \in Services
        PROVE  LET its == {e \in ToSet(forwards) : e.service = s /\ proc[e.process] # "ended"}
               IN  /\ Forward!GetLocalPort(s) = 0 => its = {}
                   /\ Forward!IsRunning(s) => \E e \in its : e.port = Forward!GetLocalPort(s)
    <3>1. CASE Forward!First(s) = 0
      BY <2>1, <3>1, FirstFound DEF Forward!GetLocalPort, Forward!IsRunning
    <3>2. CASE Forward!First(s) # 0
      <4> DEFINE e == forwards[Forward!First(s)]
      <4>1. e \in ToSet(forwards) /\ e.service = s /\ e.port \in LocalPorts
        <5>1. Forward!First(s) \in DOMAIN forwards /\ e.service = s
          BY <2>1, <3>2, FirstFound
        <5>2. e \in ForwardEntry
          BY <2>1, <5>1
        <5> QED
          BY <5>1, <5>2 DEF ToSet, ForwardEntry
      <4>2. Forward!GetLocalPort(s) = e.port /\ (Forward!IsRunning(s) => proc[e.process] # "ended")
        BY <3>2 DEF Forward!GetLocalPort, Forward!IsRunning
      <4> QED
        BY <4>1, <4>2, ClusterAssumption
    <3> QED
      BY <3>1, <3>2
  <2> QED
    BY <2>2, <2>3, ForwardSequences DEF Forward!ForwardsReachable
<1> QED
  BY <1>t, <1>r

-----------------------------------------------------------------------------
(* PodHealth: the last of a container's ends is the latest, so that what   *)
(* holds of some end that is recent and past the grace holds of the last.  *)

HealthIInv ==
    /\ now \in Nat /\ started \in Nat /\ started <= now
    /\ running \in [HealthContainers -> BOOLEAN] /\ kept \in [HealthContainers -> BOOLEAN]
    /\ ends \in [HealthContainers -> SUBSET (started..now)]
    /\ started = 0 => \A c \in HealthContainers : ~running[c] /\ ends[c] = {}

\* A set of numbers up to n has a greatest.
LEMMA LatestIs ==
    ASSUME NEW n \in Nat, NEW S \in SUBSET (0..n), S # {}
    PROVE  Health!Latest(S) \in S /\ \A y \in S : y <= Health!Latest(S)
<1> DEFINE I == {n - x : x \in S}
<1>1. I \in SUBSET Nat /\ I # {}
  <2>1. \A x \in S : n - x \in Nat
    OBVIOUS
  <2> QED
    BY <2>1
<1>2. Min(I) \in I /\ \A y \in I : Min(I) <= y
  BY <1>1, LeastIsIn
<1>3. PICK x \in S : n - x = Min(I)
  BY <1>2
<1>4. ASSUME NEW y \in S
      PROVE  y <= x
  <2>1. n - y \in I
    OBVIOUS
  <2>2. n - x <= n - y
    BY <1>2, <1>3, <2>1
  <2> QED
    BY <2>2
<1> QED
  BY <1>4 DEF Health!Latest

LEMMA HealthInit == Health!Init => HealthIInv
BY DEF Health!Init, HealthIInv

LEMMA HealthStep == HealthIInv /\ [Health!Next]_healthVars => HealthIInv'
<1> SUFFICES ASSUME HealthIInv, [Health!Next]_healthVars PROVE HealthIInv'
  OBVIOUS
<1>1. CASE Health!Tick
  <2>1. now' = now + 1 /\ UNCHANGED <<started, running, ends, kept>>
    BY <1>1 DEF Health!Tick
  <2>2. started..now \subseteq started..now'
    BY <2>1 DEF HealthIInv
  <2>3. ends' \in [HealthContainers -> SUBSET (started..now')]
    BY <2>1, <2>2 DEF HealthIInv
  <2> QED
    BY <2>1, <2>3 DEF HealthIInv
<1>2. CASE Health!Take
  <2>1. started = 0 /\ started' = now /\ UNCHANGED <<now, running, ends, kept>>
    BY <1>2 DEF Health!Take
  <2>2. ends' \in [HealthContainers -> SUBSET (started'..now')]
    BY <2>1 DEF HealthIInv
  <2> QED
    BY <2>1, <2>2 DEF HealthIInv
<1>3. CASE Health!StartContainer
  <2>1. started # 0 /\ UNCHANGED <<now, started, ends, kept>>
    BY <1>3 DEF Health!StartContainer
  <2>2. running' \in [HealthContainers -> BOOLEAN]
    BY <1>3 DEF Health!StartContainer, HealthIInv
  <2> QED
    BY <2>1, <2>2 DEF HealthIInv
<1>4. CASE Health!Crash
  <2>1. PICK c \in Health!Up :
             /\ running' = [running EXCEPT ![c] = FALSE]
             /\ ends' = [ends EXCEPT ![c] = @ \union {now}]
             /\ kept' = [kept EXCEPT ![c] = TRUE]
    BY <1>4 DEF Health!Crash
  <2>2. UNCHANGED <<now, started>> /\ started # 0 /\ c \in HealthContainers
    BY <1>4, <2>1 DEF Health!Crash, Health!Up, HealthIInv
  <2>3. running' \in [HealthContainers -> BOOLEAN] /\ kept' \in [HealthContainers -> BOOLEAN]
    BY <2>1 DEF HealthIInv
  <2>4. ends[c] \union {now} \subseteq started..now
    BY <2>2 DEF HealthIInv
  <2>5. ends' \in [HealthContainers -> SUBSET (started..now)]
    BY <2>1, <2>4 DEF HealthIInv
  <2> QED
    BY <2>2, <2>3, <2>5 DEF HealthIInv
<1>5. CASE Health!Forget
  <2>1. kept' \in [HealthContainers -> BOOLEAN] /\ UNCHANGED <<now, started, running, ends>>
    BY <1>5 DEF Health!Forget, HealthIInv
  <2> QED
    BY <2>1 DEF HealthIInv
<1>6. CASE Health!Delete
  BY <1>6 DEF Health!Delete, HealthIInv
<1>7. CASE Health!Complete
  <2>1. started # 0 /\ running' = [c \in HealthContainers |-> FALSE] /\ UNCHANGED <<now, started, ends, kept>>
    BY <1>7 DEF Health!Complete
  <2> QED
    BY <2>1 DEF HealthIInv
<1>8. CASE UNCHANGED healthVars
  BY <1>8 DEF healthVars, HealthIInv
<1> QED
  BY <1>1, <1>2, <1>3, <1>4, <1>5, <1>6, <1>7, <1>8 DEF Health!Next

LEMMA HealthImplies == HealthIInv => Health!TypeOK /\ Health!HealthAgrees
<1> SUFFICES ASSUME HealthIInv PROVE Health!TypeOK /\ Health!HealthAgrees
  OBVIOUS
<1>1. Health!TypeOK
  BY DEF HealthIInv, Health!TypeOK
<1>2. ASSUME NEW c \in HealthContainers
      PROVE  LET Bad == (\E f \in ends[c] : now - f < Window /\ f - started > Grace) \/ Health!Restarts(c) > Ceiling
             IN  IF kept[c] THEN Health!Unstable(c) <=> Bad ELSE Health!Unstable(c) => Bad
  <2> DEFINE S == ends[c]
             Bad == (\E f \in S : now - f < Window /\ f - started > Grace) \/ Health!Restarts(c) > Ceiling
  <2>1. now \in Nat /\ started \in Nat /\ started <= now /\ S \subseteq started..now /\ kept[c] \in BOOLEAN
    BY DEF HealthIInv
  <2>2. Grace \in Nat /\ Window \in Nat /\ Ceiling \in Nat
    BY ClusterAssumption
  <2>3. Health!Restarts(c) \in Nat /\ (Health!Restarts(c) > 0 <=> S # {})
    <3>1. IsFiniteSet(S)
      <4>1. IsFiniteSet(started..now)
        BY <2>1, FS_Interval
      <4> QED
        BY <2>1, <4>1, FS_Subset
    <3>2. Cardinality(S) \in Nat /\ (Cardinality(S) = 0 <=> S = {})
      BY <3>1, FS_CardinalityType, FS_EmptySet
    <3> QED
      BY <3>2 DEF Health!Restarts, Health!Cardinality, Cardinality
  <2>4. S # {} => Health!Latest(S) \in S /\ \A y \in S : y <= Health!Latest(S)
    <3>1. S \in SUBSET (0..now)
      BY <2>1
    <3> QED
      BY <2>1, <3>1, LatestIs
  <2> HIDE DEF S
  <2>5. Health!Unstable(c) <=>
            /\ Health!Restarts(c) > 0
            /\ \/ /\ kept[c] /\ S # {}
                  /\ now - Health!Latest(S) < Window /\ Health!Latest(S) - started > Grace
               \/ Health!Restarts(c) > Ceiling
    BY DEF Health!Unstable, Health!LastRestartBad, Health!Finished, Health!Recent, Health!PastGrace, S
  <2>6. Health!Unstable(c) => Bad
    BY <2>3, <2>4, <2>5
  <2>7. Bad /\ kept[c] => Health!Unstable(c)
    <3> SUFFICES ASSUME Bad, kept[c] PROVE Health!Unstable(c)
      OBVIOUS
    <3>1. CASE Health!Restarts(c) > Ceiling
      BY <2>2, <2>3, <2>5, <3>1
    <3>2. ASSUME NEW f \in S, now - f < Window, f - started > Grace
          PROVE  Health!Unstable(c)
      <4> DEFINE l == Health!Latest(S)
      <4>1. l \in S /\ f <= l
        BY <2>4
      <4> HIDE DEF l
      <4>2. l \in Nat /\ f \in Nat
        BY <2>1, <4>1 DEF S
      <4>3. now - l < Window /\ l - started > Grace
        BY <2>1, <2>2, <3>2, <4>1, <4>2
      <4> QED
        BY <2>3, <2>5, <4>1, <4>3 DEF l
    <3> QED
      BY <3>1, <3>2
  <2> QED
    BY <2>1, <2>6, <2>7 DEF S
<1>3. Health!SelectorReady <=> Health!IsReady
  BY DEF HealthIInv, Health!SelectorReady, Health!IsReady, Health!Flags, Health!Up
<1>4. Health!CountedReady = 1 => Health!SelectorReady /\ Health!AllPodsReady
  BY <1>3 DEF Health!CountedReady, Health!InEndpoints, Health!AllPodsReady
<1> QED
  BY <1>1, <1>2, <1>3, <1>4 DEF Health!HealthAgrees

-----------------------------------------------------------------------------
(* Polling: a loop that goes on has a last probe that did not see the      *)
(* condition, and knows of it what was so when that probe began.  Counted  *)
(* attempts begin a sleep apart at least, a sleep and a probe at most.     *)

WaitTypes ==
    /\ use \in Wait!PollUntilUses \union Wait!CountedUses \union Wait!DeadlineUses
    /\ timeout \in Timeouts
    /\ waitPc \in {"check", "probe", "sleep", "done"}
    /\ clock \in Nat /\ from \in Nat /\ since \in Nat /\ attempts \in Nat
    /\ from <= clock /\ since <= clock
    /\ shown \subseteq Items /\ troubled \subseteq shown
    /\ ever \in BOOLEAN

\* A condition that changed was true before or after.
EverSeen == (since > 0 \/ Wait!Condition) => ever

\* The condition does not hold, or has held since t at the earliest.
NotBefore(t) == ~Wait!Condition \/ since >= t

\* How many attempts a counted wait has, and when the one after a of them begins.
Attempts == timeout \div Interval
NoSooner(a) == a * Interval
NoLater(a) == a * (Interval + MaxProbe)

InTime ==
    /\ waitPc = "probe" => clock <= from + MaxProbe
    /\ waitPc = "sleep" => clock <= from + Interval /\ NotBefore(from - MaxProbe)
PollUntilInTime ==
    use \in Wait!PollUntilUses =>
        /\ waitPc # "check"
        /\ waitPc = "sleep" => from < timeout
        /\ waitPc = "probe" => from <= timeout + Interval
DeadlineInTime ==
    use \in Wait!DeadlineUses =>
        /\ waitPc = "check" => clock <= timeout + MaxProbe + Interval /\ NotBefore(clock - (Interval + MaxProbe))
        /\ waitPc = "probe" => from <= timeout
        /\ waitPc = "sleep" => from <= timeout + MaxProbe
CountedInTime ==
    use \in Wait!CountedUses =>
        /\ attempts <= Attempts
        /\ waitPc = "check" =>
              /\ NoSooner(attempts) <= clock /\ clock <= NoLater(attempts)
              /\ NotBefore(NoSooner(attempts) - Interval)
        /\ waitPc = "probe" =>
              NoSooner(attempts) - Interval <= from /\ from <= NoLater(attempts) - (Interval + MaxProbe)
        /\ waitPc = "sleep" =>
              /\ NoSooner(attempts) - Interval <= from /\ from <= NoLater(attempts) - Interval
              /\ NotBefore(NoSooner(attempts) - Interval)
WaitOver ==
    waitPc = "done" =>
        /\ waitAnswer \in {"yes", "no"}
        /\ waitAnswer = "no" => clock >= Wait!LastLook /\ NotBefore(Wait!LastLook)
        /\ waitAnswer = "yes" => ever \/ use = "listener"
        /\ clock <= Wait!LatestEnd

WaitLoop == InTime /\ PollUntilInTime /\ DeadlineInTime /\ CountedInTime
WaitIInv == WaitTypes /\ EverSeen /\ WaitLoop /\ WaitOver

LEMMA UsesApart ==
    /\ Wait!PollUntilUses \intersect Wait!CountedUses = {} /\ Wait!PollUntilUses \intersect Wait!DeadlineUses = {}
    /\ Wait!CountedUses \intersect Wait!DeadlineUses = {}
BY DEF Wait!PollUntilUses, Wait!CountedUses, Wait!DeadlineUses

LEMMA Products ==
    /\ \A a \in Nat : /\ NoSooner(a) \in Nat /\ NoLater(a) \in Nat
                      /\ NoSooner(a + 1) = NoSooner(a) + Interval
                      /\ NoLater(a + 1) = NoLater(a) + Interval + MaxProbe
    /\ \A a, b \in Nat : a <= b => NoLater(a) <= NoLater(b)
    /\ NoSooner(0) = 0 /\ NoLater(0) = 0
<1>1. Interval \in Nat /\ MaxProbe \in Nat
  BY ClusterAssumption
<1>2. ASSUME NEW a \in Nat
      PROVE  /\ NoSooner(a) \in Nat /\ NoLater(a) \in Nat
             /\ NoSooner(a + 1) = NoSooner(a) + Interval
             /\ NoLater(a + 1) = NoLater(a) + Interval + MaxProbe
  BY <1>1 DEF NoSooner, NoLater
<1>3. ASSUME NEW a \in Nat, NEW b \in Nat, a <= b
      PROVE  NoLater(a) <= NoLater(b)
  <2> DEFINE m == Interval + MaxProbe
  <2>1. m \in Nat
    BY <1>1
  <2> HIDE DEF m
  <2>2. a * m <= b * m
    BY <1>3, <2>1
  <2> QED
    BY <2>2 DEF NoLater, m
<1>4. NoSooner(0) = 0 /\ NoLater(0) = 0
  BY <1>1 DEF NoSooner, NoLater
<1> QED
  BY <1>2, <1>3, <1>4

LEMMA WaitNumbers ==
    ASSUME WaitTypes
    PROVE  Interval \in Nat \ {0} /\ MaxProbe \in Nat /\ timeout \in Nat /\ Attempts \in Nat
<1>1. Interval \in Nat \ {0} /\ MaxProbe \in Nat /\ timeout \in Nat
  BY ClusterAssumption DEF WaitTypes
<1> QED
  BY <1>1 DEF Attempts

\* The two bounds of each kind of wait.
LEMMA Bounds ==
    ASSUME WaitTypes
    PROVE  /\ use \in Wait!PollUntilUses => Wait!LastLook = timeout - MaxProbe
           /\ use \in Wait!CountedUses => Wait!LastLook = NoSooner(Attempts) - Interval
           /\ use \in Wait!DeadlineUses => Wait!LastLook = timeout - Interval - MaxProbe
           /\ use \in Wait!CountedUses => Wait!LatestEnd = NoLater(Attempts)
           /\ use \notin Wait!CountedUses => Wait!LatestEnd = timeout + Interval + MaxProbe
<1>1. use \in Wait!PollUntilUses => Wait!LastLook = timeout - MaxProbe
  BY UsesApart DEF Wait!LastLook
<1>2. use \in Wait!CountedUses => Wait!LastLook = NoSooner(Attempts) - Interval
  BY UsesApart DEF Wait!LastLook, NoSooner, Attempts
<1>3. use \in Wait!DeadlineUses => Wait!LastLook = timeout - Interval - MaxProbe
  BY UsesApart DEF Wait!LastLook
<1>4. use \in Wait!CountedUses => Wait!LatestEnd = NoLater(Attempts)
  BY DEF Wait!LatestEnd, NoLater, Attempts
<1>5. use \notin Wait!CountedUses => Wait!LatestEnd = timeout + Interval + MaxProbe
  BY DEF Wait!LatestEnd
<1> QED
  BY <1>1, <1>2, <1>3, <1>4, <1>5

LEMMA WaitInit == Wait!Init => WaitIInv
<1> SUFFICES ASSUME Wait!Init PROVE WaitIInv
  OBVIOUS
<1>1. /\ use \in Wait!PollUntilUses \union Wait!CountedUses \union Wait!DeadlineUses /\ timeout \in Timeouts
      /\ waitPc = (IF use \in Wait!PollUntilUses THEN "probe" ELSE "check")
      /\ clock = 0 /\ from = 0 /\ attempts = 0 /\ since = 0 /\ ever = Wait!Condition
      /\ shown \subseteq Items /\ troubled = {}
  BY DEF Wait!Init
<1>e. Wait!Condition \in BOOLEAN
  BY DEF Wait!Condition, Wait!Listening, Wait!Provisioned, Wait!PanelLoaded, Wait!PanelsSettled, Wait!Answers
<1>2. WaitTypes
  BY <1>1, <1>e DEF WaitTypes
<1>3. EverSeen
  BY <1>1 DEF EverSeen
<1>n. Interval \in Nat \ {0} /\ MaxProbe \in Nat /\ timeout \in Nat /\ Attempts \in Nat
  BY <1>2, WaitNumbers
<1>4. WaitLoop
  <2>1. InTime /\ PollUntilInTime
    BY <1>1, <1>n DEF InTime, PollUntilInTime
  <2>2. DeadlineInTime
    BY <1>1, <1>n, UsesApart DEF DeadlineInTime, NotBefore
  <2>3. CountedInTime
    BY <1>1, <1>n, UsesApart, Products DEF CountedInTime, NotBefore
  <2> QED
    BY <2>1, <2>2, <2>3 DEF WaitLoop
<1>5. WaitOver
  BY <1>1 DEF WaitOver
<1> QED
  BY <1>2, <1>3, <1>4, <1>5 DEF WaitIInv

\* The condition is as it was while nothing it is made of changes.
LEMMA ConditionKept ==
    ASSUME UNCHANGED <<use, shown, troubled>>
    PROVE  Wait!Condition' = Wait!Condition
BY DEF Wait!Condition, Wait!Listening, Wait!Provisioned, Wait!PanelLoaded, Wait!PanelsSettled, Wait!Answers

LEMMA ConditionIsBoolean == Wait!Condition \in BOOLEAN
BY DEF Wait!Condition, Wait!Listening, Wait!Provisioned, Wait!PanelLoaded, Wait!PanelsSettled, Wait!Answers

\* The world changes under a wait, at any point of it.
LEMMA ChangePreserves == WaitIInv /\ Wait!Change => WaitIInv'
<1> SUFFICES ASSUME WaitIInv, Wait!Change PROVE WaitIInv'
  OBVIOUS
<1>1. /\ UNCHANGED <<use, timeout, waitPc, clock, from, attempts, waitAnswer>>
      /\ since' = (IF Wait!Condition' = Wait!Condition THEN since ELSE clock)
      /\ ever' = (ever \/ Wait!Condition')
      /\ shown' \subseteq Items /\ troubled' \subseteq shown'
  BY DEF Wait!Change
<1>t. WaitTypes
  BY DEF WaitIInv
<1>n. Interval \in Nat \ {0} /\ MaxProbe \in Nat /\ timeout \in Nat /\ Attempts \in Nat
  BY <1>t, WaitNumbers
<1>2. (Wait!Condition)' \in BOOLEAN /\ Wait!Condition \in BOOLEAN
  BY DEF Wait!Condition, Wait!Listening, Wait!Provisioned, Wait!PanelLoaded, Wait!PanelsSettled, Wait!Answers
<1>o. /\ (NoSooner(attempts))' = NoSooner(attempts) /\ (NoLater(attempts))' = NoLater(attempts)
      /\ Attempts' = Attempts
  BY <1>1 DEF NoSooner, NoLater, Attempts
<1>3. WaitTypes'
  BY <1>1, <1>2, <1>t DEF WaitTypes
<1>4. EverSeen'
  BY <1>1, <1>2, <1>t DEF EverSeen, WaitTypes, WaitIInv
\* What came after t may go, and come again later.
<1>q. ASSUME NEW t \in Int, t <= clock, NotBefore(t)
      PROVE  ~(Wait!Condition)' \/ since' >= t
  BY <1>1, <1>2, <1>q, <1>t DEF NotBefore, WaitTypes
<1>5. WaitLoop'
  <2>t. clock \in Nat /\ from \in Nat /\ from <= clock /\ attempts \in Nat
    BY <1>t DEF WaitTypes
  <2>1. InTime' /\ PollUntilInTime'
    <3>1. waitPc = "sleep" => ~(Wait!Condition)' \/ since' >= from - MaxProbe
      <4>1. from - MaxProbe \in Int /\ from - MaxProbe <= clock
        BY <1>n, <2>t
      <4>2. waitPc = "sleep" => NotBefore(from - MaxProbe)
        BY DEF WaitIInv, WaitLoop, InTime
      <4> QED
        BY <1>q, <4>1, <4>2
    <3> QED
      BY <1>1, <3>1 DEF WaitIInv, WaitLoop, InTime, PollUntilInTime, NotBefore
  <2>2. DeadlineInTime'
    <3> DEFINE t == clock - (Interval + MaxProbe)
    <3>1. t \in Int /\ t <= clock
      BY <1>n, <2>t
    <3>2. use \in Wait!DeadlineUses /\ waitPc = "check" => NotBefore(t)
      BY DEF WaitIInv, WaitLoop, DeadlineInTime
    <3>3. use \in Wait!DeadlineUses /\ waitPc = "check" => ~(Wait!Condition)' \/ since' >= t
      BY <1>q, <3>1, <3>2
    <3> QED
      BY <1>1, <3>3 DEF WaitIInv, WaitLoop, DeadlineInTime, NotBefore
  <2>3. CountedInTime'
    <3> DEFINE t == NoSooner(attempts) - Interval
    <3>1. NoSooner(attempts) \in Nat
      BY <2>t, Products
    <3>2. t \in Int /\ (use \in Wait!CountedUses /\ waitPc \in {"check", "sleep"} => t <= clock /\ NotBefore(t))
      BY <1>n, <2>t, <3>1 DEF WaitIInv, WaitLoop, CountedInTime
    <3>3. use \in Wait!CountedUses /\ waitPc \in {"check", "sleep"} => ~(Wait!Condition)' \/ since' >= t
      BY <1>q, <3>2
    <3> QED
      BY <1>1, <1>o, <3>3 DEF WaitIInv, WaitLoop, CountedInTime, NotBefore
  <2> QED
    BY <2>1, <2>2, <2>3 DEF WaitLoop
<1>6. WaitOver'
  <2> DEFINE t == Wait!LastLook
  <2>1. Wait!LastLook' = t /\ Wait!LatestEnd' = Wait!LatestEnd
    BY <1>1 DEF Wait!LastLook, Wait!LatestEnd
  <2>2. t \in Int
    <3>1. NoSooner(Attempts) \in Nat
      BY <1>n, Products
    <3> QED
      BY <1>n, <1>t, <3>1, Bounds DEF WaitTypes
  <2> HIDE DEF t
  <2>3. waitPc = "done" /\ waitAnswer = "no" => t <= clock /\ NotBefore(t)
    BY <1>t, <2>2 DEF WaitIInv, WaitOver, WaitTypes, t
  <2>4. waitPc = "done" /\ waitAnswer = "no" => ~(Wait!Condition)' \/ since' >= t
    BY <1>q, <2>2, <2>3
  <2>5. (NotBefore(Wait!LastLook))' <=> ~(Wait!Condition)' \/ since' >= t
    BY <2>1 DEF NotBefore, t
  <2> QED
    BY <1>1, <2>1, <2>3, <2>4, <2>5 DEF WaitIInv, WaitOver, t
<1> QED
  BY <1>3, <1>4, <1>5, <1>6 DEF WaitIInv

\* A step of the loop, which leaves the world alone.
LEMMA LoopPreserves == WaitIInv /\ (Wait!Check \/ Wait!ProbeEnds \/ Wait!Wake \/ Wait!Tick) => WaitIInv'
<1> SUFFICES ASSUME WaitIInv, Wait!Check \/ Wait!ProbeEnds \/ Wait!Wake \/ Wait!Tick PROVE WaitIInv'
  OBVIOUS
<1>w. UNCHANGED <<use, timeout, shown, troubled, since, ever>>
  BY DEF Wait!Check, Wait!ProbeEnds, Wait!Wake, Wait!Tick, Wait!world
<1>c. Wait!Condition' = Wait!Condition /\ \A t \in Int : (NotBefore(t))' <=> NotBefore(t)
  <2>1. Wait!Condition' = Wait!Condition
    BY <1>w, ConditionKept
  <2> QED
    BY <1>w, <2>1 DEF NotBefore
<1>t. WaitTypes
  BY DEF WaitIInv
<1>n. Interval \in Nat \ {0} /\ MaxProbe \in Nat /\ timeout \in Nat /\ Attempts \in Nat /\ attempts \in Nat /\ clock \in Nat
      /\ from \in Nat /\ since \in Nat /\ from <= clock /\ since <= clock
  BY <1>t, WaitNumbers DEF WaitTypes
<1>p. /\ NoSooner(attempts) \in Nat /\ NoLater(attempts) \in Nat
      /\ NoSooner(attempts + 1) = NoSooner(attempts) + Interval
      /\ NoLater(attempts + 1) = NoLater(attempts) + Interval + MaxProbe
      /\ NoSooner(Attempts) \in Nat /\ NoLater(Attempts) \in Nat
      /\ attempts <= Attempts => NoLater(attempts) <= NoLater(Attempts)
  BY <1>n, Products
<1>o. /\ (NoSooner(attempts))' = NoSooner(attempts') /\ (NoLater(attempts))' = NoLater(attempts')
      /\ Attempts' = Attempts
  BY <1>w DEF NoSooner, NoLater, Attempts
<1>e. EverSeen' /\ EverSeen
  BY <1>c, <1>w DEF EverSeen, WaitIInv
<1>l. Wait!LastLook' = Wait!LastLook /\ Wait!LatestEnd' = Wait!LatestEnd
  BY <1>w DEF Wait!LastLook, Wait!LatestEnd
<1>u. /\ use \in Wait!PollUntilUses => use \notin Wait!CountedUses /\ use \notin Wait!DeadlineUses
      /\ use \in Wait!CountedUses => use \notin Wait!PollUntilUses /\ use \notin Wait!DeadlineUses
      /\ use \in Wait!DeadlineUses => use \notin Wait!PollUntilUses /\ use \notin Wait!CountedUses
      /\ use \in Wait!PollUntilUses \/ use \in Wait!CountedUses \/ use \in Wait!DeadlineUses
  BY <1>t, UsesApart DEF WaitTypes
<1>b. /\ use \in Wait!PollUntilUses => Wait!LastLook = timeout - MaxProbe
      /\ use \in Wait!CountedUses => Wait!LastLook = NoSooner(Attempts) - Interval
      /\ use \in Wait!DeadlineUses => Wait!LastLook = timeout - Interval - MaxProbe
      /\ use \in Wait!CountedUses => Wait!LatestEnd = NoLater(Attempts)
      /\ use \notin Wait!CountedUses => Wait!LatestEnd = timeout + Interval + MaxProbe
  BY <1>t, Bounds
\* What the loop was at, of its kind.
<1>i. InTime /\ PollUntilInTime /\ DeadlineInTime /\ CountedInTime
  BY DEF WaitIInv, WaitLoop
<1>1. CASE Wait!Check
  <2>1. waitPc = "check" /\ UNCHANGED clock
    BY <1>1 DEF Wait!Check
  <2>2. use \in Wait!CountedUses \/ use \in Wait!DeadlineUses
    BY <1>i, <1>u, <2>1 DEF PollUntilInTime
  <2>3. CASE Wait!Begin /\ use \in Wait!CountedUses
    <3>1. waitPc' = "probe" /\ from' = clock /\ attempts' = attempts + 1 /\ attempts < Attempts
      BY <1>1, <2>3 DEF Wait!Check, Wait!Begin, Wait!End, Wait!CountedUses, Wait!WaitForGoesOn, Wait!WaitForTcpGoesOn, Attempts
    <3>2. CountedInTime'
      BY <1>i, <1>n, <1>o, <1>p, <1>u, <1>w, <2>1, <2>3, <3>1 DEF CountedInTime
    <3>3. WaitTypes' /\ InTime' /\ PollUntilInTime' /\ DeadlineInTime' /\ WaitOver'
      BY <1>n, <1>t, <1>u, <1>w, <2>1, <2>3, <3>1 DEF WaitTypes, InTime, PollUntilInTime, DeadlineInTime, WaitOver
    <3> QED
      BY <1>e, <3>2, <3>3 DEF WaitIInv, WaitLoop
  <2>4. CASE Wait!Begin /\ use \in Wait!DeadlineUses
    <3>1. waitPc' = "probe" /\ from' = clock /\ attempts' = attempts + 1 /\ clock < timeout
      BY <1>1, <2>4 DEF Wait!Check, Wait!Begin, Wait!End, Wait!DeadlineUses, Wait!WaitForPingGoesOn, Wait!WaitForSshGoesOn
    <3>2. DeadlineInTime'
      BY <1>n, <1>w, <3>1 DEF DeadlineInTime
    <3>3. WaitTypes' /\ InTime' /\ PollUntilInTime' /\ CountedInTime' /\ WaitOver'
      BY <1>n, <1>t, <1>u, <1>w, <2>1, <2>4, <3>1 DEF WaitTypes, InTime, PollUntilInTime, CountedInTime, WaitOver
    <3> QED
      BY <1>e, <3>2, <3>3 DEF WaitIInv, WaitLoop
  <2>5. CASE Wait!End("no") /\ use \in Wait!CountedUses
    <3>1. waitPc' = "done" /\ waitAnswer' = "no" /\ UNCHANGED <<from, attempts>> /\ ~(attempts < Attempts)
      BY <1>1, <2>5 DEF Wait!Check, Wait!Begin, Wait!End, Wait!CountedUses, Wait!WaitForGoesOn, Wait!WaitForTcpGoesOn, Attempts
    <3>2. /\ attempts = Attempts /\ NoSooner(attempts) <= clock /\ clock <= NoLater(attempts)
          /\ NotBefore(NoSooner(attempts) - Interval)
      BY <1>i, <1>n, <2>1, <2>5, <3>1 DEF CountedInTime
    <3>3. clock >= Wait!LastLook /\ NotBefore(Wait!LastLook) /\ clock <= Wait!LatestEnd
      BY <1>b, <1>n, <1>p, <2>5, <3>2
    <3>4. WaitOver'
      BY <1>c, <1>l, <1>w, <2>1, <3>1, <3>3 DEF WaitOver, NotBefore
    <3>5. WaitTypes' /\ WaitLoop'
      BY <1>i, <1>n, <1>o, <1>t, <1>u, <1>w, <2>1, <2>5, <3>1
      DEF WaitTypes, WaitLoop, InTime, PollUntilInTime, DeadlineInTime, CountedInTime
    <3> QED
      BY <1>e, <3>4, <3>5 DEF WaitIInv
  <2>6. CASE Wait!End("no") /\ use \in Wait!DeadlineUses
    <3>1. waitPc' = "done" /\ waitAnswer' = "no" /\ UNCHANGED <<from, attempts>> /\ ~(clock < timeout)
      BY <1>1, <2>6 DEF Wait!Check, Wait!Begin, Wait!End, Wait!DeadlineUses, Wait!WaitForPingGoesOn, Wait!WaitForSshGoesOn
    <3>2. clock <= timeout + MaxProbe + Interval /\ NotBefore(clock - (Interval + MaxProbe))
      BY <1>i, <2>1, <2>6 DEF DeadlineInTime
    <3>3. clock >= Wait!LastLook /\ NotBefore(Wait!LastLook) /\ clock <= Wait!LatestEnd
      BY <1>b, <1>n, <1>u, <2>6, <3>1, <3>2 DEF NotBefore
    <3>4. WaitOver'
      BY <1>c, <1>l, <1>w, <2>1, <3>1, <3>3 DEF WaitOver, NotBefore
    <3>5. WaitTypes' /\ WaitLoop'
      BY <1>i, <1>n, <1>t, <1>u, <1>w, <2>1, <2>6, <3>1
      DEF WaitTypes, WaitLoop, InTime, PollUntilInTime, DeadlineInTime, CountedInTime
    <3> QED
      BY <1>e, <3>4, <3>5 DEF WaitIInv
  <2>7. Wait!Begin \/ Wait!End("no")
    BY <1>1 DEF Wait!Check
  <2> QED
    BY <2>2, <2>3, <2>4, <2>5, <2>6, <2>7
<1>2. CASE Wait!ProbeEnds
  <2>1. waitPc = "probe" /\ UNCHANGED clock /\ clock <= from + MaxProbe
    BY <1>2, <1>i DEF Wait!ProbeEnds, InTime
  <2>2. PICK seen \in Wait!SeenBy :
            IF seen THEN Wait!End("yes")
            ELSE IF use \in Wait!PollUntilUses /\ ~Wait!PollUntilGoesOn THEN Wait!End("no") ELSE Wait!Sleep
    BY <1>2 DEF Wait!ProbeEnds
  <2>b. seen \in BOOLEAN
    BY ConditionIsBoolean DEF Wait!SeenBy, Wait!Seen
  <2>3. CASE seen
    <3>1. waitPc' = "done" /\ waitAnswer' = "yes" /\ UNCHANGED <<from, attempts>>
      BY <2>2, <2>3 DEF Wait!End
    <3>2. ever \/ use = "listener"
      <4>1. CASE since <= from
        BY <1>e, <2>3, <4>1 DEF Wait!SeenBy, Wait!Seen, EverSeen
      <4>2. CASE ~(since <= from)
        BY <1>e, <1>n, <4>2 DEF EverSeen
      <4> QED
        BY <4>1, <4>2
    <3>3. clock <= Wait!LatestEnd
      BY <1>b, <1>i, <1>n, <1>p, <1>u, <2>1 DEF PollUntilInTime, DeadlineInTime, CountedInTime
    <3>4. WaitOver'
      BY <1>l, <1>w, <2>1, <3>1, <3>2, <3>3 DEF WaitOver
    <3>5. WaitTypes' /\ WaitLoop'
      BY <1>i, <1>n, <1>o, <1>t, <1>w, <2>1, <3>1
      DEF WaitTypes, WaitLoop, InTime, PollUntilInTime, DeadlineInTime, CountedInTime
    <3> QED
      BY <1>e, <3>4, <3>5 DEF WaitIInv
  <2>4. ~seen => NotBefore(from)
    <3>1. CASE since <= from
      BY <2>2, <3>1 DEF Wait!SeenBy, Wait!Seen, NotBefore
    <3>2. CASE ~(since <= from)
      BY <1>n, <3>2 DEF NotBefore
    <3> QED
      BY <3>1, <3>2
  <2>5. CASE ~seen /\ use \in Wait!PollUntilUses /\ ~Wait!PollUntilGoesOn
    <3>1. waitPc' = "done" /\ waitAnswer' = "no" /\ UNCHANGED <<from, attempts>> /\ ~(clock < timeout)
      BY <2>2, <2>5 DEF Wait!End, Wait!PollUntilGoesOn
    <3>2. clock >= Wait!LastLook /\ NotBefore(Wait!LastLook) /\ clock <= Wait!LatestEnd
      BY <1>b, <1>i, <1>n, <1>u, <2>1, <2>4, <2>5, <3>1 DEF NotBefore, PollUntilInTime
    <3>3. WaitOver'
      BY <1>c, <1>l, <1>w, <2>1, <3>1, <3>2 DEF WaitOver, NotBefore
    <3>4. WaitTypes' /\ WaitLoop'
      BY <1>i, <1>n, <1>o, <1>t, <1>u, <1>w, <2>1, <2>5, <3>1
      DEF WaitTypes, WaitLoop, InTime, PollUntilInTime, DeadlineInTime, CountedInTime
    <3> QED
      BY <1>e, <3>3, <3>4 DEF WaitIInv
  <2>6. CASE ~seen /\ ~(use \in Wait!PollUntilUses /\ ~Wait!PollUntilGoesOn)
    <3>1. waitPc' = "sleep" /\ from' = clock /\ UNCHANGED <<attempts, waitAnswer>>
      BY <2>2, <2>6 DEF Wait!Sleep
    <3>2. use \in Wait!PollUntilUses => clock < timeout
      BY <2>6 DEF Wait!PollUntilGoesOn
    <3>3. NotBefore(clock - MaxProbe)
      BY <1>n, <2>1, <2>4, <2>6 DEF NotBefore
    <3>4. InTime'
      BY <1>c, <1>n, <1>w, <2>1, <3>1, <3>3 DEF InTime, NotBefore
    <3>5. PollUntilInTime' /\ DeadlineInTime'
      BY <1>i, <1>n, <1>w, <2>1, <3>1, <3>2 DEF PollUntilInTime, DeadlineInTime
    <3>6. CountedInTime'
      <4>1. use \in Wait!CountedUses => NotBefore(NoSooner(attempts) - Interval)
        BY <1>i, <1>n, <1>p, <2>1, <2>4, <2>6 DEF CountedInTime, NotBefore
      <4> QED
        BY <1>c, <1>i, <1>n, <1>o, <1>p, <1>w, <2>1, <3>1, <4>1 DEF CountedInTime, NotBefore
    <3>7. WaitTypes' /\ WaitOver'
      BY <1>n, <1>t, <1>w, <2>1, <3>1 DEF WaitTypes, WaitOver
    <3> QED
      BY <1>e, <3>4, <3>5, <3>6, <3>7 DEF WaitIInv, WaitLoop
  <2> QED
    BY <2>3, <2>5, <2>6
<1>3. CASE Wait!Wake
  <2>1. /\ waitPc = "sleep" /\ clock = from + Interval /\ from' = clock
        /\ waitPc' = (IF use \in Wait!PollUntilUses THEN "probe" ELSE "check")
        /\ UNCHANGED <<clock, attempts, waitAnswer>>
    BY <1>3 DEF Wait!Wake, Wait!Awakes
  <2>2. InTime' /\ PollUntilInTime'
    BY <1>i, <1>n, <1>w, <2>1 DEF InTime, PollUntilInTime
  <2>3. DeadlineInTime'
    <3>1. NotBefore(clock - (Interval + MaxProbe))
      BY <1>i, <1>n, <2>1 DEF InTime, NotBefore
    <3> QED
      BY <1>c, <1>i, <1>n, <1>u, <1>w, <2>1, <3>1 DEF DeadlineInTime, NotBefore
  <2>4. CountedInTime'
    BY <1>c, <1>i, <1>n, <1>o, <1>p, <1>u, <1>w, <2>1 DEF CountedInTime, NotBefore
  <2>5. WaitTypes' /\ WaitOver'
    BY <1>n, <1>t, <1>w, <2>1 DEF WaitTypes, WaitOver
  <2> QED
    BY <1>e, <2>2, <2>3, <2>4, <2>5 DEF WaitIInv, WaitLoop
<1>4. CASE Wait!Tick
  <2>1. /\ clock' = clock + 1 /\ UNCHANGED <<waitPc, from, attempts, waitAnswer>>
        /\ \/ waitPc = "probe" /\ clock < from + MaxProbe
           \/ waitPc = "sleep" /\ clock < from + Interval
    BY <1>4 DEF Wait!Tick
  <2>2. WaitTypes' /\ WaitOver'
    BY <1>n, <1>t, <1>w, <2>1 DEF WaitTypes, WaitOver
  <2>3. WaitLoop'
    BY <1>c, <1>i, <1>n, <1>o, <1>w, <2>1 DEF WaitLoop, InTime, PollUntilInTime, DeadlineInTime, CountedInTime, NotBefore
  <2> QED
    BY <1>e, <2>2, <2>3 DEF WaitIInv
<1> QED
  BY <1>1, <1>2, <1>3, <1>4

LEMMA WaitStep == WaitIInv /\ [Wait!Next]_waitVars => WaitIInv'
<1>1. ASSUME WaitIInv, UNCHANGED waitVars
      PROVE  WaitIInv'
  <2>1. UNCHANGED <<use, timeout, waitPc, clock, from, attempts, waitAnswer, shown, troubled, since, ever>>
    BY <1>1 DEF waitVars
  <2>2. Wait!Condition' = Wait!Condition
    BY <2>1, ConditionKept
  <2>3. Wait!LastLook' = Wait!LastLook /\ Wait!LatestEnd' = Wait!LatestEnd
    BY <2>1 DEF Wait!LastLook, Wait!LatestEnd
  <2>4. /\ (NoSooner(attempts))' = NoSooner(attempts) /\ (NoLater(attempts))' = NoLater(attempts)
        /\ Attempts' = Attempts
    BY <2>1 DEF NoSooner, NoLater, Attempts
  <2> QED
    BY <1>1, <2>1, <2>2, <2>3, <2>4 DEF WaitIInv, WaitTypes, EverSeen, WaitLoop, InTime, PollUntilInTime, DeadlineInTime,
       CountedInTime, WaitOver, NotBefore
<1> QED
  BY <1>1, ChangePreserves, LoopPreserves DEF Wait!Next

LEMMA WaitImplies == WaitIInv => Wait!TypeOK /\ Wait!WaitsKeepTheirWord
<1> SUFFICES ASSUME WaitIInv PROVE Wait!TypeOK /\ Wait!WaitsKeepTheirWord
  OBVIOUS
<1>1. Wait!TypeOK
  BY DEF WaitIInv, WaitTypes, Wait!TypeOK
<1>2. Wait!WaitsKeepTheirWord
  BY DEF WaitIInv, WaitOver, NotBefore, Wait!WaitsKeepTheirWord
<1> QED
  BY <1>1, <1>2

-----------------------------------------------------------------------------
(* PodReport: what is asked for is done up to the cursor, and a previous   *)
(* log is only asked for after the current one.                            *)

ReportTypes ==
    /\ present \subseteq ReportPods
    /\ restarts \in [ReportPods -> [Report!Containered -> 0..MaxCrashes]]
    /\ DOMAIN listed \subseteq ReportPods /\ left \subseteq DOMAIN listed
    /\ \A p \in DOMAIN listed, c \in Report!Containered :
          listed[p][c] \in Nat /\ listed[p][c] <= restarts[p][c]
    /\ reportPc \in {"service", "list", "json", "pods", "current", "previous", "done"}
    /\ reportPc \in {"service", "list", "json"} => DOMAIN listed = {} /\ report = {}
    /\ reported = "report" => reportPc = "done" /\ left = {}
ReportCursor ==
    /\ at \in Nat \ {0}
    /\ reportPc \in {"current", "previous"} => pod \in DOMAIN listed \ left
    /\ reportPc = "previous" =>
          at \in DOMAIN ReportContainers /\ listed[pod][ReportContainers[at]] > 0

Has(p, c, which) == \E b \in report : b.of = Report!Ask(p, c, which)
\* Whether the logs of a listed pod's i-th container have been asked for.
Behind(p, i) == reportPc \in {"current", "previous"} /\ p = pod => i < at
ReportComplete ==
    /\ \A p \in DOMAIN listed \ left : Has(p, "", "events")
    /\ \A p \in DOMAIN listed \ left : \A i \in DOMAIN ReportContainers :
          Behind(p, i) =>
              /\ Has(p, ReportContainers[i], "current")
              /\ listed[p][ReportContainers[i]] > 0 => Has(p, ReportContainers[i], "previous")
    /\ reportPc = "previous" => Has(pod, ReportContainers[at], "current")

Current(b) ==
    b.of.which = "current" =>
        /\ b.of.pod \in DOMAIN listed /\ b.of.container \in Report!Containered
        /\ b.got <= restarts[b.of.pod][b.of.container]
Previous(b) ==
    b.of.which = "previous" =>
        /\ b.of.pod \in DOMAIN listed \ left
        /\ \E i \in DOMAIN ReportContainers :
              b.of.container = ReportContainers[i] /\ Behind(b.of.pod, i)
        /\ b.got # Report!Error => b.got >= listed[b.of.pod][b.of.container] - 1
NoneBetween(x, y) ==
    /\ x.of.which = "current" /\ y.of.which = "previous"
    /\ x.of.pod = y.of.pod /\ x.of.container = y.of.container
    /\ x.got # Report!Error /\ y.got # Report!Error
    => y.got >= x.got - 1
ReportBlocks ==
    /\ \A b \in report : b.got \in Report!Error..MaxCrashes /\ Current(b) /\ Previous(b)
    /\ \A x, y \in report : NoneBetween(x, y)

ReportIInv == ReportTypes /\ ReportCursor /\ ReportComplete /\ ReportBlocks

LEMMA ContainersListed ==
    /\ MaxCrashes \in Nat /\ Report!Error = -1
    /\ \E n \in Nat : DOMAIN ReportContainers = 1..n
    /\ \A i \in DOMAIN ReportContainers : ReportContainers[i] \in Report!Containered
    /\ \A c \in Report!Containered : \E i \in DOMAIN ReportContainers : c = ReportContainers[i]
    /\ \A i, j \in DOMAIN ReportContainers : ReportContainers[i] = ReportContainers[j] => i = j
BY ClusterAssumption DEF Report!Containered, Report!ToSet, Report!Error

LEMMA ErrorBelow == MaxCrashes \in Nat /\ Report!Error = -1 /\ {0, Report!Error} \subseteq Report!Error..MaxCrashes
BY ClusterAssumption DEF Report!Error

LEMMA IndexesPositive ==
    /\ \A i \in DOMAIN ReportContainers : i \in Nat /\ 1 <= i
    /\ \A i \in Nat \ {0} : i \notin DOMAIN ReportContainers =>
          \A j \in DOMAIN ReportContainers : j < i
<1>1. PICK n \in Nat : DOMAIN ReportContainers = 1..n
  BY ContainersListed, ErrorBelow
<1> QED
  BY <1>1

LEMMA AskIs ==
    ASSUME NEW p, NEW c, NEW which
    PROVE  /\ Report!Ask(p, c, which).pod = p
           /\ Report!Ask(p, c, which).container = c
           /\ Report!Ask(p, c, which).which = which
BY DEF Report!Ask

LEMMA ReportInit == Report!Init => ReportIInv
<1> SUFFICES ASSUME Report!Init PROVE ReportIInv
  OBVIOUS
<1>1. ReportTypes
  BY ContainersListed DEF Report!Init, ReportTypes
<1>2. ReportCursor /\ ReportComplete /\ ReportBlocks
  BY <1>1 DEF Report!Init, ReportTypes, ReportCursor, ReportComplete, ReportBlocks
<1> QED
  BY <1>1, <1>2 DEF ReportIInv

\* A step that adds a block, which is a current or a previous log of the container under way.
LEMMA ReportLogPreserves == ReportIInv /\ (Report!GetLog \/ Report!GetPreviousLog) => ReportIInv'
<1> SUFFICES ASSUME ReportIInv, Report!GetLog \/ Report!GetPreviousLog PROVE ReportIInv'
  OBVIOUS
<1>0. PICK k, c, p0, w : k = at /\ c = ReportContainers[at] /\ p0 = pod /\ w = reportPc
  OBVIOUS
<1> DEFINE number == IF w = "current" THEN restarts[p0][c] ELSE restarts[p0][c] - 1
<1>1. /\ at \in DOMAIN ReportContainers /\ at \in Nat /\ c \in Report!Containered
      /\ reportPc \in {"current", "previous"} /\ pod \in DOMAIN listed \ left
      /\ w = "previous" => listed[p0][c] > 0
  BY <1>0, ContainersListed, IndexesPositive DEF ReportIInv, ReportTypes, ReportCursor, Report!GetLog, Report!GetPreviousLog
<1>2. PICK got \in {number, Report!Error} :
          report' = report \union {[of |-> Report!Ask(p0, c, w), got |-> got]}
  <2>1. CASE Report!GetLog
    BY <1>0, <2>1 DEF Report!GetLog, Report!Block, Report!Container, Report!Ask
  <2>2. CASE Report!GetPreviousLog
    BY <1>0, <2>2 DEF Report!GetPreviousLog, Report!Block, Report!Container, Report!Ask
  <2> QED
    BY <1>0, <2>1, <2>2
<1> DEFINE asked == [of |-> Report!Ask(p0, c, w), got |-> got]
<1>3. /\ asked.of.pod = p0 /\ asked.of.container = c /\ asked.of.which = w /\ asked.got = got
      /\ asked.of = Report!Ask(p0, c, w)
  BY AskIs
<1>4. /\ restarts[p0][c] \in 0..MaxCrashes /\ listed[p0][c] \in Nat
      /\ listed[p0][c] <= restarts[p0][c]
  BY <1>0, <1>1 DEF ReportIInv, ReportTypes
<1>5. got \in Report!Error..MaxCrashes /\ got <= restarts[p0][c]
  BY <1>0, <1>1, <1>2, <1>4, ContainersListed, ErrorBelow
<1>6. UNCHANGED <<present, restarts, listed, left, pod, reported>>
  BY <1>0 DEF Report!GetLog, Report!GetPreviousLog
<1>7. \/ reportPc = "current" /\ reportPc' = "previous" /\ at' = at /\ listed[p0][c] > 0
      \/ reportPc = "current" /\ reportPc' = "current" /\ at' = at + 1 /\ ~(listed[p0][c] > 0)
      \/ reportPc = "previous" /\ reportPc' = "current" /\ at' = at + 1
  BY <1>0 DEF Report!GetLog, Report!GetPreviousLog, Report!NextContainer, Report!Container
<1>8. report' = report \union {asked} /\ asked \in report'
  BY <1>0, <1>2
<1> HIDE DEF asked
<1>9. ReportTypes'
  BY <1>0, <1>1, <1>6, <1>7 DEF ReportIInv, ReportTypes
<1>10. ReportCursor'
  BY <1>0, <1>1, <1>6, <1>7 DEF ReportIInv, ReportCursor
<1>11. /\ \A p, d, which : Has(p, d, which) => Has(p, d, which)'
       /\ Has(p0, c, w)'
  BY <1>0, <1>3, <1>6, <1>8 DEF Has
<1>12. ReportComplete'
  <2>1. \A p \in DOMAIN listed \ left : Has(p, "", "events")'
    BY <1>0, <1>11 DEF ReportIInv, ReportComplete
  <2>2. ASSUME NEW p \in DOMAIN listed \ left, NEW i \in DOMAIN ReportContainers, Behind(p, i)'
        PROVE  /\ Has(p, ReportContainers[i], "current")'
               /\ listed[p][ReportContainers[i]] > 0 => Has(p, ReportContainers[i], "previous")'
    <3>1. CASE Behind(p, i)
      BY <1>0, <1>11, <3>1 DEF ReportIInv, ReportComplete
    <3>2. CASE ~Behind(p, i)
      <4>1. p = p0 /\ i = k /\ at' = at + 1
        BY <1>0, <1>1, <1>6, <1>7, <2>2, <3>2, ContainersListed, IndexesPositive DEF Behind
      <4>2. CASE w = "current"
        BY <1>0, <1>7, <1>11, <4>1, <4>2
      <4>3. CASE w = "previous"
        BY <1>0, <1>11, <4>1, <4>3 DEF ReportIInv, ReportComplete
      <4> QED
        BY <1>0, <1>1, <4>2, <4>3
    <3> QED
      BY <1>0, <3>1, <3>2
  <2>3. reportPc' = "previous" => Has(p0, c, "current")'
    BY <1>0, <1>7, <1>11
  <2>4. (reportPc = "previous" => Has(pod, ReportContainers[at], "current"))'
    BY <1>0, <1>6, <1>7, <2>3
  <2> QED
    BY <1>0, <1>6, <2>1, <2>2, <2>4 DEF ReportComplete
<1>13. \A p \in DOMAIN listed \ left, i \in DOMAIN ReportContainers : Behind(p, i) => Behind(p, i)'
  BY <1>0, <1>1, <1>6, <1>7, ContainersListed, IndexesPositive DEF Behind
<1>14. \A b \in report' : b.got \in Report!Error..MaxCrashes
  BY <1>0, <1>3, <1>5, <1>8 DEF ReportIInv, ReportBlocks
<1>15. \A b \in report' : Current(b)'
  BY <1>0, <1>1, <1>3, <1>5, <1>6, <1>8 DEF ReportIInv, ReportBlocks, Current
<1>16. \A b \in report' : Previous(b)'
  <2>1. \A b \in report : Previous(b)'
    BY <1>0, <1>6, <1>13 DEF ReportIInv, ReportBlocks, Previous
  <2>2. CASE w = "current"
    BY <1>0, <1>3, <1>8, <2>1, <2>2 DEF Previous
  <2>3. CASE w = "previous"
    <3>1. Behind(p0, k)'
      BY <1>0, <1>1, <1>7, <2>3 DEF Behind
    <3>2. got # Report!Error => got >= listed[p0][c] - 1
      BY <1>0, <1>2, <1>4, <2>3
    <3>3. Previous(asked)'
      BY <1>0, <1>1, <1>3, <1>6, <3>1, <3>2 DEF Previous
    <3> QED
      BY <1>0, <1>8, <2>1, <3>3
  <2> QED
    BY <1>0, <1>1, <2>2, <2>3
<1>17. \A x, y \in report' : NoneBetween(x, y)
  <2>1. SUFFICES ASSUME NEW x \in report', NEW y \in report',
                        x.of.which = "current", y.of.which = "previous",
                        x.of.pod = y.of.pod, x.of.container = y.of.container,
                        x.got # Report!Error, y.got # Report!Error
                 PROVE  y.got >= x.got - 1
    BY DEF NoneBetween
  <2>2. CASE x \in report /\ y \in report
    BY <1>0, <2>1, <2>2 DEF ReportIInv, ReportBlocks, NoneBetween
  <2>3. CASE x = asked
    <3>1. w = "current" /\ y.of.pod = p0 /\ y.of.container = c /\ y \in report
      BY <1>0, <1>3, <1>8, <2>1, <2>3
    <3>2. PICK i \in DOMAIN ReportContainers : c = ReportContainers[i] /\ Behind(p0, i)
      BY <1>0, <2>1, <3>1 DEF ReportIInv, ReportBlocks, Previous
    <3>3. i = k /\ i < k
      BY <1>0, <1>1, <3>1, <3>2, ContainersListed, IndexesPositive DEF Behind
    <3> QED
      BY <1>0, <1>1, <3>3
  <2>4. CASE y = asked /\ x \in report
    <3>1. w = "previous" /\ x.of.pod = p0 /\ x.of.container = c /\ y.got = restarts[p0][c] - 1
      BY <1>0, <1>2, <1>3, <2>1, <2>4
    <3>2. x.got <= restarts[p0][c] /\ x.got \in Report!Error..MaxCrashes
      BY <1>0, <2>1, <2>4, <3>1 DEF ReportIInv, ReportBlocks, Current
    <3> QED
      BY <1>0, <1>4, <3>1, <3>2, ContainersListed, ErrorBelow
  <2> QED
    BY <1>0, <1>8, <2>2, <2>3, <2>4
<1>18. ReportBlocks'
  BY <1>0, <1>14, <1>15, <1>16, <1>17 DEF ReportBlocks, NoneBetween
<1> QED
  BY <1>0, <1>9, <1>10, <1>12, <1>18 DEF ReportIInv

\* The next pod is begun with a block for its events.
LEMMA ReportEventsPreserves == ReportIInv /\ Report!GetEvents => ReportIInv'
<1> SUFFICES ASSUME ReportIInv, Report!GetEvents PROVE ReportIInv'
  OBVIOUS
<1>1. PICK p \in left : /\ pod' = p /\ left' = left \ {p}
                        /\ Report!Block(Report!Ask(p, "", "events"), 0)
  BY DEF Report!GetEvents
<1>2. PICK got \in {0, Report!Error} :
          report' = report \union {[of |-> Report!Ask(p, "", "events"), got |-> got]}
  BY <1>1 DEF Report!Block
<1> DEFINE asked == [of |-> Report!Ask(p, "", "events"), got |-> got]
<1>3. asked.of.which = "events" /\ asked.got = got /\ asked.of = Report!Ask(p, "", "events")
  BY AskIs
<1>4. report' = report \union {asked}
  BY <1>2
<1> HIDE DEF asked
<1>5. /\ reportPc = "pods" /\ reportPc' = "current" /\ at' = 1
      /\ UNCHANGED <<present, restarts, listed, reported>>
  BY DEF Report!GetEvents
<1>6. ReportTypes'
  BY <1>1, <1>5 DEF ReportIInv, ReportTypes
<1>6a. ReportCursor'
  <2>1. left \subseteq DOMAIN listed /\ listed' = listed
    BY <1>5 DEF ReportIInv, ReportTypes
  <2>2. pod' \in DOMAIN listed' \ left'
    BY <1>1, <2>1
  <2>3. at' \in Nat \ {0} /\ reportPc' # "previous"
    BY <1>5
  <2> QED
    BY <2>2, <2>3 DEF ReportCursor
<1>7. /\ \A q, d, which : Has(q, d, which) => Has(q, d, which)'
      /\ Has(p, "", "events")'
  BY <1>3, <1>4 DEF Has
<1>8. \A i \in DOMAIN ReportContainers : ~Behind(p, i)'
  <2> SUFFICES ASSUME NEW i \in DOMAIN ReportContainers PROVE ~Behind(p, i)'
    OBVIOUS
  <2>1. ~(i < at')
    BY <1>5, IndexesPositive
  <2> QED
    BY <1>1, <1>5, <2>1 DEF Behind
<1>9. \A q, i : Behind(q, i)
  BY <1>5 DEF Behind
<1>10. ReportComplete'
  BY <1>1, <1>5, <1>7, <1>8, <1>9 DEF ReportIInv, ReportComplete
<1>11. \A q \in DOMAIN listed \ left : \A i : Behind(q, i)'
  BY <1>1 DEF Behind
<1>12. \A b \in report' : b.got \in Report!Error..MaxCrashes /\ Current(b)' /\ Previous(b)'
  <2>1. got \in Report!Error..MaxCrashes
    BY <1>2, ErrorBelow
  <2>2. \A b \in report : Previous(b)'
    BY <1>1, <1>5, <1>11 DEF ReportIInv, ReportBlocks, Previous
  <2>3. \A b \in report : Current(b)'
    BY <1>5 DEF ReportIInv, ReportBlocks, Current
  <2>4. Current(asked)' /\ Previous(asked)'
    BY <1>3 DEF Current, Previous
  <2> QED
    BY <1>3, <1>4, <2>1, <2>2, <2>3, <2>4 DEF ReportIInv, ReportBlocks
<1>13. \A x, y \in report' : NoneBetween(x, y)
  BY <1>3, <1>4 DEF ReportIInv, ReportBlocks, NoneBetween
<1>14. ReportBlocks'
  BY <1>12, <1>13 DEF ReportBlocks, NoneBetween
<1> QED
  BY <1>6, <1>6a, <1>10, <1>14 DEF ReportIInv

\* The JSON is read before there is a block.
LEMMA ReportJsonPreserves == ReportIInv /\ Report!GetJson => ReportIInv'
<1> SUFFICES ASSUME ReportIInv, Report!GetJson PROVE ReportIInv'
  OBVIOUS
<1>1. /\ report = {} /\ report' = {} /\ DOMAIN listed = {} /\ left = {}
      /\ reportPc = "json" /\ reportPc' = "pods"
      /\ UNCHANGED <<present, restarts, pod, at, reported>>
  BY DEF Report!GetJson, ReportIInv, ReportTypes
<1>2. DOMAIN listed' = left' /\ left' \subseteq present
  BY <1>1 DEF Report!GetJson
<1>3. \A p \in DOMAIN listed', d \in Report!Containered :
          listed'[p][d] \in Nat /\ listed'[p][d] <= restarts[p][d]
  <2>1. CASE listed' = [p \in present |-> restarts[p]]
    BY <2>1, ContainersListed DEF ReportIInv, ReportTypes
  <2>2. CASE listed' = listed
    BY <1>1, <2>2
  <2> QED
    BY <2>1, <2>2 DEF Report!GetJson
<1>4. ReportTypes' /\ ReportCursor'
  BY <1>1, <1>2, <1>3 DEF ReportIInv, ReportTypes, ReportCursor
<1>5. ReportComplete' /\ ReportBlocks'
  BY <1>1, <1>2 DEF ReportComplete, ReportBlocks
<1> QED
  BY <1>4, <1>5 DEF ReportIInv

\* The other steps of the call only move on.
LEMMA ReportCallPreserves ==
    ReportIInv /\ (Report!ReadService \/ Report!ListRows \/ Report!NextPod \/ Report!NodeConditions)
        => ReportIInv'
<1> SUFFICES ASSUME ReportIInv,
                    Report!ReadService \/ Report!ListRows \/ Report!NextPod \/ Report!NodeConditions
             PROVE  ReportIInv'
  OBVIOUS
<1>1. UNCHANGED <<present, restarts, listed, left, pod, at, report>>
  BY DEF Report!ReadService, Report!ListRows, Report!NextPod, Report!NodeConditions
<1>2. /\ reportPc \notin {"previous", "done"} /\ reportPc' \notin {"current", "previous"}
      /\ reportPc' \in {"list", "json", "pods", "done"}
      /\ reportPc' \in {"list", "json"} => reportPc \in {"service", "list"}
      /\ reported' = "report" => reportPc' = "done" /\ left = {}
  BY DEF Report!ReadService, Report!ListRows, Report!NextPod, Report!NodeConditions, Report!Give,
         ReportIInv, ReportTypes
<1>3. ReportTypes' /\ ReportCursor'
  BY <1>1, <1>2 DEF ReportIInv, ReportTypes, ReportCursor
<1>4. \A p, i : Behind(p, i)'
  BY <1>2 DEF Behind
<1>5. \A p \in DOMAIN listed \ left, i \in DOMAIN ReportContainers : Behind(p, i)
  <2>1. CASE reportPc = "current"
    <3>1. at \in Nat \ {0} /\ at \notin DOMAIN ReportContainers
      BY <2>1 DEF ReportIInv, ReportCursor, Report!ReadService, Report!ListRows, Report!NextPod,
                  Report!NodeConditions
    <3> QED
      BY <3>1, IndexesPositive DEF Behind
  <2>2. CASE reportPc # "current"
    BY <1>2, <2>2 DEF Behind
  <2> QED
    BY <2>1, <2>2
<1>6. ReportComplete'
  BY <1>1, <1>2, <1>5 DEF ReportIInv, ReportComplete, Has
<1>7. ReportBlocks'
  BY <1>1, <1>4 DEF ReportIInv, ReportBlocks, Current, Previous, NoneBetween
<1> QED
  BY <1>3, <1>6, <1>7 DEF ReportIInv

\* Containers only count on.
LEMMA ReportClusterPreserves == ReportIInv /\ (Report!Crash \/ Report!PodGoes) => ReportIInv'
<1> SUFFICES ASSUME ReportIInv, Report!Crash \/ Report!PodGoes PROVE ReportIInv'
  OBVIOUS
<1>1. UNCHANGED <<reportPc, listed, left, pod, at, report, reported>> /\ present' \subseteq present
  BY DEF Report!Crash, Report!PodGoes
<1>2. /\ restarts' \in [ReportPods -> [Report!Containered -> 0..MaxCrashes]]
      /\ \A p \in ReportPods, d \in Report!Containered : restarts[p][d] <= restarts'[p][d]
  <2>1. CASE Report!Crash
    <3>1. PICK p \in present, d \in Report!Containered :
              restarts[p][d] < MaxCrashes /\ restarts' = [restarts EXCEPT ![p][d] = @ + 1]
      BY <2>1 DEF Report!Crash
    <3>2. p \in ReportPods /\ restarts[p][d] + 1 \in 0..MaxCrashes
      BY <3>1, ContainersListed DEF ReportIInv, ReportTypes
    <3> QED
      BY <3>1, <3>2, ContainersListed DEF ReportIInv, ReportTypes
  <2>2. CASE Report!PodGoes
    BY <2>2, ContainersListed DEF Report!PodGoes, ReportIInv, ReportTypes
  <2> QED
    BY <2>1, <2>2
<1>3. \A p \in ReportPods, d \in Report!Containered :
          restarts[p][d] \in 0..MaxCrashes /\ restarts'[p][d] \in 0..MaxCrashes
  BY <1>2 DEF ReportIInv, ReportTypes
<1>4. ReportTypes'
  BY <1>1, <1>2, <1>3, ContainersListed DEF ReportIInv, ReportTypes
<1>5. ReportCursor' /\ ReportComplete'
  BY <1>1 DEF ReportIInv, ReportCursor, ReportComplete, Has, Behind
<1>6. \A b \in report : Current(b)'
  <2> SUFFICES ASSUME NEW b \in report, b.of.which = "current"
               PROVE  Current(b)'
    BY DEF Current
  <2>1. /\ b.of.pod \in DOMAIN listed /\ b.of.container \in Report!Containered
        /\ b.got <= restarts[b.of.pod][b.of.container] /\ b.got \in Report!Error..MaxCrashes
        /\ b.of.pod \in ReportPods
    BY DEF ReportIInv, ReportBlocks, Current, ReportTypes
  <2>2. b.got <= restarts'[b.of.pod][b.of.container]
    BY <1>2, <1>3, <2>1, ContainersListed, ErrorBelow
  <2> QED
    BY <1>1, <2>1, <2>2 DEF Current
<1>7. ReportBlocks'
  BY <1>1, <1>6 DEF ReportIInv, ReportBlocks, Previous, NoneBetween, Behind
<1> QED
  BY <1>4, <1>5, <1>7 DEF ReportIInv

LEMMA ReportStep == ReportIInv /\ [Report!Next]_reportVars => ReportIInv'
<1> SUFFICES ASSUME ReportIInv, [Report!Next]_reportVars PROVE ReportIInv'
  OBVIOUS
<1>1. CASE Report!Next
  BY <1>1, ReportLogPreserves, ReportEventsPreserves, ReportJsonPreserves, ReportCallPreserves, ReportClusterPreserves
  DEF Report!Next
<1>2. CASE UNCHANGED reportVars
  BY ZenonT(40), <1>2 DEF reportVars, ReportIInv, ReportTypes, ReportCursor, ReportComplete, ReportBlocks, Has,
              Behind, Current, Previous, NoneBetween
<1> QED
  BY <1>1, <1>2

LEMMA ReportImplies == ReportIInv => Report!TypeOK /\ Report!CrashesExplained
<1> SUFFICES ASSUME ReportIInv PROVE Report!TypeOK /\ Report!CrashesExplained
  OBVIOUS
<1>1. Report!TypeOK
  BY DEF Report!TypeOK, ReportIInv, ReportTypes, ReportCursor, ReportBlocks
<1>2. ASSUME reported = "report", NEW p \in DOMAIN listed
      PROVE  \E b \in report : b.of = Report!Ask(p, "", "events")
  BY <1>2 DEF ReportIInv, ReportTypes, ReportComplete, Has
<1>3. ASSUME reported = "report", NEW p \in DOMAIN listed, NEW d \in Report!Containered
      PROVE  /\ Has(p, d, "current")
             /\ listed[p][d] > 0 => Has(p, d, "previous")
  <2>1. p \in DOMAIN listed \ left /\ reportPc = "done"
    BY <1>3 DEF ReportIInv, ReportTypes
  <2>2. PICK i \in DOMAIN ReportContainers : d = ReportContainers[i]
    BY ContainersListed
  <2>3. Behind(p, i)
    BY <2>1 DEF Behind
  <2> QED
    BY <2>1, <2>2, <2>3 DEF ReportIInv, ReportComplete
<1>4. ASSUME NEW p, NEW d, NEW x \in report, NEW y \in report,
             x.of = Report!Ask(p, d, "current"), y.of = Report!Ask(p, d, "previous"),
             x.got # Report!Error, y.got # Report!Error
      PROVE  y.got >= x.got - 1 /\ y.got >= listed[p][d] - 1
  BY <1>4, AskIs DEF ReportIInv, ReportBlocks, Previous, NoneBetween
<1>5. Report!CrashesExplained
  <2> SUFFICES ASSUME reported = "report", NEW p \in DOMAIN listed, NEW d \in Report!Containered
               PROVE  LET logs(which) == {b.got : b \in {x \in report : x.of = Report!Ask(p, d, which)}}
                      IN  /\ logs("current") # {}
                          /\ listed[p][d] > 0 => logs("previous") # {}
                          /\ \A last \in logs("current") \ {Report!Error},
                                past \in logs("previous") \ {Report!Error} :
                                past >= last - 1 /\ past >= listed[p][d] - 1
    BY <1>2 DEF Report!CrashesExplained
  <2> DEFINE logs(which) == {b.got : b \in {x \in report : x.of = Report!Ask(p, d, which)}}
  <2>1. \A which : Has(p, d, which) => logs(which) # {}
    BY DEF Has
  <2>2. logs("current") # {} /\ (listed[p][d] > 0 => logs("previous") # {})
    BY <1>3, <2>1
  <2>3. ASSUME NEW last \in logs("current") \ {Report!Error},
               NEW past \in logs("previous") \ {Report!Error}
        PROVE  past >= last - 1 /\ past >= listed[p][d] - 1
    <3>1. PICK x \in report : x.of = Report!Ask(p, d, "current") /\ x.got = last
      OBVIOUS
    <3>2. PICK y \in report : y.of = Report!Ask(p, d, "previous") /\ y.got = past
      OBVIOUS
    <3> QED
      BY <1>4, <3>1, <3>2
  <2> HIDE DEF logs
  <2>4. /\ logs("current") # {}
        /\ listed[p][d] > 0 => logs("previous") # {}
        /\ \A last \in logs("current") \ {Report!Error},
              past \in logs("previous") \ {Report!Error} :
              past >= last - 1 /\ past >= listed[p][d] - 1
    BY <2>2, <2>3
  <2> QED
    BY <2>4 DEF logs
<1> QED
  BY <1>1, <1>5

-----------------------------------------------------------------------------
(* The cluster. *)

\* A step of the cluster is a step of each part, or leaves the part alone.
LEMMA ClusterPartSteps ==
    ASSUME [MCNext]_clusterVars
    PROVE  /\ [Next]_vars /\ [Health!Next]_healthVars /\ [Forward!Next]_forwardVars
           /\ [Wait!Next]_waitVars /\ [Report!Next]_reportVars
BY DEF MCNext, clusterVars

\* Between calls stop_all reaches every live kubectl, no two of them forward one port, and what
\* get_local_port and is_running say of a service is so: for any services, ports and number of starts.
THEOREM ForwardsReachableAlways == MCSpec => []ForwardsReachable
<1>1. MCInit => ForwardIInv
  BY ForwardInit DEF MCInit
<1>2. ForwardIInv /\ [MCNext]_clusterVars => ForwardIInv'
  BY ForwardStep, ClusterPartSteps
<1>3. ForwardIInv => ForwardsReachable
  BY ForwardImplies DEF ForwardsReachable
<1> QED
  BY <1>1, <1>2, <1>3, PTL DEF MCSpec

\* None of the waiting loops misses a condition that came true in time and stayed, or outlasts its
\* timeout by more than a look: for any timeouts, interval and length of a probe.
THEOREM WaitsKeepTheirWordAlways == MCSpec => []WaitsKeepTheirWord
<1>1. MCInit => WaitIInv
  BY WaitInit DEF MCInit
<1>2. WaitIInv /\ [MCNext]_clusterVars => WaitIInv'
  BY WaitStep, ClusterPartSteps
<1>3. WaitIInv => WaitsKeepTheirWord
  BY WaitImplies DEF WaitsKeepTheirWord
<1> QED
  BY <1>1, <1>2, <1>3, PTL DEF MCSpec

\* A container's last termination tells of instability what all of them would, the readings of
\* readiness agree, and a pod report leaves no crash out between two logs: for any containers, pods,
\* grace, window and ceiling.
THEOREM HealthAgreesAlways == MCSpec => []HealthAgrees
<1>1. MCInit => HealthIInv /\ ReportIInv
  BY HealthInit, ReportInit DEF MCInit
<1>2. HealthIInv /\ ReportIInv /\ [MCNext]_clusterVars => HealthIInv' /\ ReportIInv'
  BY HealthStep, ReportStep, ClusterPartSteps
<1>3. HealthIInv /\ ReportIInv => HealthAgrees
  BY HealthImplies, ReportImplies DEF HealthAgrees
<1> QED
  BY <1>1, <1>2, <1>3, PTL DEF MCSpec

\* The states of every call are of their types, for any parameters.
THEOREM ClusterTypeOKAlways == MCSpec => []ClusterTypeOK
<1> DEFINE Inv == IInv /\ HealthIInv /\ ForwardIInv /\ WaitIInv /\ ReportIInv
<1>1. MCInit => Inv
  BY InitHolds, HealthInit, ForwardInit, WaitInit, ReportInit DEF MCInit
<1>2. Inv /\ [MCNext]_clusterVars => Inv'
  BY IInvPreserved, HealthStep, ForwardStep, WaitStep, ReportStep, ClusterPartSteps
<1>3. Inv => ClusterTypeOK
  BY TypesFollow, HealthImplies, ForwardImplies, WaitImplies, ReportImplies DEF ClusterTypeOK
<1> QED
  BY <1>1, <1>2, <1>3, PTL DEF MCSpec
=============================================================================
