-------------------------- MODULE KubeClient_proofs --------------------------
(***************************************************************************)
(* Theorems about KubeClient, for any number of pods, replicas and edits,  *)
(* and any lists of volumes: what a restart or a replacement that answered *)
(* success has done, and that a patch meets the volume it names.  The      *)
(* controllers' steps enter by one lemma: a pod there is after any of them *)
(* was there before, with its generation, or is new.                       *)
(***************************************************************************)
EXTENDS KubeClient, TLAPS, FiniteSetTheorems

VolumeType == [name : Volumes, spec : {"old", "new", "other"}]
PodType == [uid : 1..uids, ready : BOOLEAN, deleting : BOOLEAN, generation : 1..generation]
ReadType == [uid : 1..uids, ready : BOOLEAN]

ClusterTypes ==
    /\ uids \in Nat /\ generation \in Nat \ {0} /\ replicas \in Replicas
    /\ pods \subseteq PodType /\ IsFiniteSet(pods)
    /\ \A p, q \in pods : p.uid = q.uid => p = q
    /\ volumes \in Seq(VolumeType)

CallTypes ==
    /\ deadline \in BOOLEAN /\ patched \in 0..generation
    /\ before \subseteq ReadType /\ IsFiniteSet(before)
    /\ answer \in [success : BOOLEAN, pods : SUBSET ReadType]

\* Where a call can be, and what it knows there.
CallKnows ==
    \/ /\ op = "restart" /\ patched = 0
       /\ pc \in {"start", "delete", "poll", "reread", "timed_out", "done"}
       /\ pc \in {"delete", "poll", "reread", "timed_out"} => before # {}
       /\ pc = "reread" => Uids(pods) \intersect Uids(before) = {}
    \/ /\ op = "replace" /\ before = {}
       /\ pc \in {"start", "patch", "rollout", "done"}

IInv == ClusterTypes /\ CallTypes /\ CallKnows /\ AnswersHold

-----------------------------------------------------------------------------
(* Finite sets of pods.                                                    *)

\* What is made of each pod of a finite set is finite.
LEMMA ReadsAreFinite ==
    ASSUME IsFiniteSet(pods)
    PROVE  IsFiniteSet({[uid |-> p.uid, ready |-> p.ready] : p \in pods})
<1> DEFINE T == {[uid |-> p.uid, ready |-> p.ready] : p \in pods}
<1> DEFINE f == [p \in pods |-> [uid |-> p.uid, ready |-> p.ready]]
<1>1. f \in Surjection(pods, T)
  BY DEF Surjection
<1> QED
  BY <1>1, FS_Surjection

LEMMA MarkedAreFinite ==
    ASSUME IsFiniteSet(pods)
    PROVE  IsFiniteSet({[p EXCEPT !.deleting = TRUE] : p \in pods})
<1> DEFINE T == {[p EXCEPT !.deleting = TRUE] : p \in pods}
<1> DEFINE f == [p \in pods |-> [p EXCEPT !.deleting = TRUE]]
<1>1. f \in Surjection(pods, T)
  BY DEF Surjection
<1> QED
  BY <1>1, FS_Surjection

\* A read that is empty replaces nothing.
LEMMA EmptyReadIsNoReplacement ==
    ASSUME IsFiniteSet(before), before # {}
    PROVE  ~Replaced({})
<1>1. Cardinality(before) \in Nat /\ Cardinality(before) # 0
  BY FS_CardinalityType, FS_EmptySet
<1> QED
  BY <1>1, FS_EmptySet DEF Replaced

\* Uids tell pods apart, so there are as many.
LEMMA UidsCount ==
    ASSUME IsFiniteSet(pods), \A p, q \in pods : p.uid = q.uid => p = q
    PROVE  Cardinality(Uids(pods)) = Cardinality(pods)
<1> DEFINE f == [p \in pods |-> p.uid]
<1>1. f \in Surjection(pods, Uids(pods))
  BY DEF Surjection, Uids
<1>2. f \in Injection(pods, Uids(pods))
  BY <1>1 DEF Surjection, Injection, IsInjective
<1> QED
  BY <1>1, <1>2, FS_Surjection

-----------------------------------------------------------------------------
LEMMA InitHolds == Init => IInv
<1> SUFFICES ASSUME Init PROVE IInv
  OBVIOUS
<1>1. replicas \in Nat \ {0} /\ volumes \in Seq(VolumeType)
  BY KubeAssumption DEF Init, VolumeType
<1>2. IsFiniteSet(pods)
  <2> DEFINE f == [u \in 1..replicas |-> [Pod(u, 1) EXCEPT !.ready = TRUE]]
  <2>1. f \in Surjection(1..replicas, pods)
    BY DEF Surjection, Init
  <2> QED
    BY <1>1, <2>1, FS_Surjection, FS_Interval
<1>3. ClusterTypes
  <2> DEFINE ready(u) == [Pod(u, 1) EXCEPT !.ready = TRUE]
  <2>1. uids = replicas /\ generation = 1 /\ replicas \in Replicas /\ pods = {ready(u) : u \in 1..replicas}
    BY DEF Init
  <2>2. ASSUME NEW u \in 1..replicas
        PROVE  ready(u) \in PodType /\ ready(u).uid = u
    <3>1. PICK p : p = Pod(u, 1)
      OBVIOUS
    <3>2. p \in PodType /\ p.uid = u
      BY <1>1, <2>1, <3>1 DEF Pod, PodType
    <3>3. [p EXCEPT !.ready = TRUE] \in PodType /\ [p EXCEPT !.ready = TRUE].uid = u
      BY <3>2 DEF PodType
    <3> QED
      BY <3>1, <3>3
  <2> HIDE DEF ready
  <2>3. \A p, q \in pods : p.uid = q.uid => p = q
    BY <2>1, <2>2
  <2> QED
    BY <1>1, <1>2, <2>1, <2>2, <2>3 DEF ClusterTypes
<1>4. CallTypes
  <2>1. generation = 1 /\ before = {} /\ ~deadline /\ answer = None /\ patched = 0
    BY DEF Init
  <2>2. deadline \in BOOLEAN
    BY DEF Init
  <2> QED
    BY <2>1, <2>2, FS_EmptySet DEF CallTypes, None
<1>5. CallKnows /\ AnswersHold
  BY DEF Init, CallKnows, AnswersHold, None
<1> QED
  BY <1>3, <1>4, <1>5 DEF IInv

-----------------------------------------------------------------------------
(* The cluster's steps.                                                    *)

\* Every pod there is now was there, in service if it is now, or is new and of the generation now.
PodsDescend ==
    \A q \in pods' :
        \/ \E p \in pods : q.uid = p.uid /\ q.generation = p.generation /\ (~q.deleting => ~p.deleting)
        \/ q.uid = uids + 1 /\ uids' = uids + 1 /\ q.generation = generation

LEMMA UpdateKeeps ==
    ASSUME ClusterTypes, NEW p \in pods, NEW q \in PodType, q.uid = p.uid, q.generation = p.generation,
           ~q.deleting => ~p.deleting,
           Update(p, q), UNCHANGED <<uids, generation, replicas, volumes>>
    PROVE  ClusterTypes' /\ PodsDescend
<1>1. pods' = (pods \ {p}) \union {q}
  BY DEF Update
<1>2. IsFiniteSet(pods')
  BY <1>1, FS_AddElement, FS_RemoveElement DEF ClusterTypes
<1> QED
  BY <1>1, <1>2 DEF ClusterTypes, PodsDescend, PodType

\* A sequence with an element replaced, where it has one.
LEMMA ReplacedInSeq ==
    ASSUME NEW S, NEW s \in Seq(S), NEW v \in S, NEW i
    PROVE  [s EXCEPT ![i] = v] \in Seq(S)
<1>1. s \in [1..Len(s) -> S] /\ Len(s) \in Nat
  OBVIOUS
<1>2. [s EXCEPT ![i] = v] \in [1..Len(s) -> S]
  BY <1>1
<1> QED
  BY <1>1, <1>2

LEMMA VolumesKept ==
    ASSUME volumes \in Seq(VolumeType), OthersEditVolumes
    PROVE  volumes' \in Seq(VolumeType)
<1>1. ASSUME NEW i \in DOMAIN volumes, volumes' = RemoveAt(volumes, i)
      PROVE  volumes' \in Seq(VolumeType)
  <2>1. /\ SubSeq(volumes, 1, i - 1) \in Seq(VolumeType)
        /\ SubSeq(volumes, i + 1, Len(volumes)) \in Seq(VolumeType)
    BY <1>1
  <2> QED
    BY <1>1, <2>1 DEF RemoveAt
<1>2. CASE volumes' = Reverse(volumes)
  BY <1>2 DEF Reverse
<1>3. ASSUME NEW i \in DOMAIN volumes, volumes' = [volumes EXCEPT ![i].spec = "other"]
      PROVE  volumes' \in Seq(VolumeType)
  <2>1. volumes[i] \in VolumeType
    BY <1>3
  <2>2. [volumes[i] EXCEPT !.spec = "other"] \in VolumeType
    BY <2>1 DEF VolumeType
  <2> QED
    BY <1>3, <2>2, ReplacedInSeq
<1> QED
  BY <1>1, <1>2, <1>3 DEF OthersEditVolumes

LEMMA ClusterKeeps ==
    ASSUME ClusterTypes, Cluster
    PROVE  /\ ClusterTypes' /\ PodsDescend
           /\ uids' \in {uids, uids + 1} /\ generation' \in {generation, generation + 1}
           /\ UNCHANGED callVars
<1>1. CASE PodStarts
  <2>1. PICK p \in pods : ~p.ready /\ ~p.deleting /\ Update(p, [p EXCEPT !.ready = TRUE])
    BY <1>1 DEF PodStarts
  <2>2. /\ [p EXCEPT !.ready = TRUE] \in PodType
        /\ [p EXCEPT !.ready = TRUE].uid = p.uid
        /\ [p EXCEPT !.ready = TRUE].generation = p.generation
        /\ [p EXCEPT !.ready = TRUE].deleting = p.deleting
    BY DEF ClusterTypes, PodType
  <2> QED
    BY <1>1, <2>1, <2>2, UpdateKeeps DEF PodStarts
<1>2. CASE PodFails
  <2>1. PICK p \in pods : p.ready /\ Update(p, [p EXCEPT !.ready = FALSE])
    BY <1>2 DEF PodFails
  <2>2. /\ [p EXCEPT !.ready = FALSE] \in PodType
        /\ [p EXCEPT !.ready = FALSE].uid = p.uid
        /\ [p EXCEPT !.ready = FALSE].generation = p.generation
        /\ [p EXCEPT !.ready = FALSE].deleting = p.deleting
    BY DEF ClusterTypes, PodType
  <2> QED
    BY <1>2, <2>1, <2>2, UpdateKeeps DEF PodFails
<1>3. CASE PodEnds
  <2>1. PICK p \in pods : pods' = pods \ {p}
    BY <1>3 DEF PodEnds
  <2>2. IsFiniteSet(pods')
    BY <2>1, FS_RemoveElement DEF ClusterTypes
  <2> QED
    BY <1>3, <2>1, <2>2 DEF PodEnds, ClusterTypes, PodsDescend, PodType
<1>4. CASE CreatePod
  <2> DEFINE q == Pod(uids + 1, generation)
  <2>1. pods' = pods \union {q} /\ uids' = uids + 1
    BY <1>4 DEF CreatePod
  <2>2. q.uid = uids + 1 /\ q.generation = generation /\ q \in PodType'
    BY <1>4, <2>1 DEF CreatePod, Pod, PodType, ClusterTypes
  <2>3. \A p \in pods : p \in PodType' /\ p.uid # uids + 1
    BY <1>4, <2>1 DEF CreatePod, ClusterTypes, PodType
  <2>4. IsFiniteSet(pods')
    BY <2>1, FS_AddElement DEF ClusterTypes
  <2> HIDE DEF q
  <2>5. ClusterTypes'
    BY <1>4, <2>1, <2>2, <2>3, <2>4 DEF CreatePod, ClusterTypes
  <2>6. PodsDescend
    BY <2>1, <2>2 DEF PodsDescend
  <2> QED
    BY <1>4, <2>1, <2>5, <2>6 DEF CreatePod
<1>5. CASE DeletePod
  <2>1. PICK p \in Wanted(pods) : Update(p, [p EXCEPT !.deleting = TRUE])
    BY <1>5 DEF DeletePod
  <2>2. /\ p \in pods
        /\ [p EXCEPT !.deleting = TRUE] \in PodType
        /\ [p EXCEPT !.deleting = TRUE].uid = p.uid
        /\ [p EXCEPT !.deleting = TRUE].generation = p.generation
        /\ [p EXCEPT !.deleting = TRUE].deleting
    BY DEF ClusterTypes, PodType, Wanted
  <2> QED
    BY <1>5, <2>1, <2>2, UpdateKeeps DEF DeletePod
<1>6. CASE OthersScale
  BY <1>6 DEF OthersScale, ClusterTypes, PodsDescend, PodType
<1>7. CASE OthersEditVolumes
  <2>1. volumes' \in Seq(VolumeType)
    BY <1>7, VolumesKept DEF ClusterTypes
  <2>2. UNCHANGED <<pods, uids, replicas, callVars>> /\ generation' = generation + 1
    BY <1>7 DEF OthersEditVolumes
  <2>3. \A p \in pods : p \in PodType'
    BY <2>2 DEF ClusterTypes, PodType
  <2> QED
    BY <2>1, <2>2, <2>3 DEF ClusterTypes, PodsDescend, VolumeType
<1> QED
  BY <1>1, <1>2, <1>3, <1>4, <1>5, <1>6, <1>7 DEF Cluster

\* Whatever the cluster does, a pod that a snapshot holds does not come back, and a pod in service is
\* of no older generation than it was.
LEMMA ClusterPreserves == IInv /\ Cluster => IInv'
<1> SUFFICES ASSUME IInv, Cluster PROVE IInv'
  OBVIOUS
<1>1. /\ ClusterTypes /\ ClusterTypes' /\ PodsDescend
      /\ uids' \in {uids, uids + 1} /\ generation' \in {generation, generation + 1}
      /\ UNCHANGED <<op, pc, before, read, deadline, answer, patched>>
  BY ClusterKeeps DEF IInv, callVars
<1>2. uids \in Nat /\ generation \in Nat
  BY <1>1 DEF ClusterTypes
<1>3. 1..uids \subseteq 1..uids' /\ 0..generation \subseteq 0..generation'
  BY <1>1, <1>2
<1>4. ReadType \subseteq ReadType'
  BY <1>3 DEF ReadType
<1>5. CallTypes'
  BY <1>1, <1>3, <1>4 DEF IInv, CallTypes
<1>6. Uids(before) \subseteq 1..uids
  BY DEF IInv, CallTypes, ReadType, Uids
<1>7. Uids(pods) \intersect Uids(before) = {} => Uids(pods') \intersect Uids(before) = {}
  BY <1>1, <1>2, <1>6 DEF PodsDescend, Uids
<1>8. patched <= generation
  BY <1>2 DEF IInv, CallTypes
<1>9. (\A p \in Wanted(pods) : p.generation >= patched) => \A p \in Wanted(pods') : p.generation >= patched
  BY <1>1, <1>8 DEF PodsDescend, Wanted
<1>10. CallKnows'
  BY <1>1, <1>7 DEF IInv, CallKnows
<1>11. AnswersHold'
  BY <1>1, <1>7, <1>9 DEF IInv, AnswersHold
<1> QED
  BY <1>1, <1>5, <1>10, <1>11 DEF IInv

-----------------------------------------------------------------------------
(* The calls' steps.                                                       *)

\* A read gives what there is, or nothing.
LEMMA ReadTyped ==
    ASSUME ClusterTypes, NEW s \in PodsBySelector
    PROVE  /\ s \subseteq ReadType /\ IsFiniteSet(s)
           /\ s # {} => Uids(s) = Uids(pods)
           /\ s = {} => Uids(s) = {}
<1>1. CASE s = {}
  BY <1>1, FS_EmptySet DEF Uids
<1>2. CASE s = {[uid |-> p.uid, ready |-> p.ready] : p \in pods}
  <2>1. IsFiniteSet(s)
    BY <1>2, ReadsAreFinite DEF ClusterTypes
  <2>2. s \subseteq ReadType
    BY <1>2 DEF ClusterTypes, PodType, ReadType
  <2>3. Uids(s) = Uids(pods)
    <3>1. \A p \in pods : [uid |-> p.uid, ready |-> p.ready] \in s
      BY <1>2
    <3>2. \A q \in s : \E p \in pods : q.uid = p.uid
      BY <1>2
    <3>3. \A p \in pods : \E q \in s : q.uid = p.uid
      <4> SUFFICES ASSUME NEW p \in pods PROVE \E q \in s : q.uid = p.uid
        OBVIOUS
      <4> DEFINE q == [uid |-> p.uid, ready |-> p.ready]
      <4>1. q \in s /\ q.uid = p.uid
        BY <3>1
      <4> QED
        BY <4>1
    <3> QED
      BY <3>2, <3>3 DEF Uids
  <2> QED
    BY <2>1, <2>2, <2>3 DEF Uids
<1> QED
  BY <1>1, <1>2 DEF PodsBySelector

LEMMA RestartPreserves == IInv /\ Restart => IInv'
<1> SUFFICES ASSUME IInv, Restart PROVE IInv'
  OBVIOUS
<1>t. ClusterTypes /\ CallTypes /\ CallKnows
  BY DEF IInv
<1>n. None \in [success : BOOLEAN, pods : SUBSET ReadType] /\ ~None.success
  BY DEF None
<1>1. CASE ReadBefore
  <2>1. before' \subseteq ReadType /\ IsFiniteSet(before')
    BY <1>1, <1>t, ReadTyped DEF ReadBefore
  <2>2. /\ UNCHANGED <<pods, uids, replicas, volumes, generation, op, deadline, patched>>
        /\ op = "restart" /\ pc = "start"
    BY <1>1 DEF ReadBefore, cluster
  <2>3. \/ before' = {} /\ answer' = None /\ pc' = "done"
        \/ before' # {} /\ answer' = answer /\ pc' = "delete"
    BY <1>1 DEF ReadBefore, Answer
  <2>4. ClusterTypes' /\ CallTypes'
    BY <1>t, <1>n, <2>1, <2>2, <2>3 DEF ClusterTypes, CallTypes, PodType, ReadType
  <2>5. CallKnows' /\ AnswersHold'
    BY <1>t, <1>n, <2>2, <2>3 DEF CallKnows, AnswersHold
  <2> QED
    BY <2>4, <2>5 DEF IInv
<1>2. CASE DeletePods
  <2>1. /\ UNCHANGED <<uids, replicas, volumes, generation, op, before, deadline, patched>>
        /\ op = "restart" /\ pc = "delete"
    BY <1>2 DEF DeletePods
  <2>2. \/ pc' = "poll" /\ answer' = answer
        \/ pc' = "done" /\ answer' = None
    BY <1>2 DEF DeletePods, Answer
  <2>3. pods' \subseteq PodType /\ IsFiniteSet(pods') /\ \A p, q \in pods' : p.uid = q.uid => p = q
    <3>1. CASE pods' = {[p EXCEPT !.deleting = TRUE] : p \in pods}
      <4>1. \A p \in pods :
               [p EXCEPT !.deleting = TRUE] \in PodType /\ [p EXCEPT !.deleting = TRUE].uid = p.uid
        BY <1>t DEF ClusterTypes, PodType
      <4>2. IsFiniteSet(pods')
        BY <1>t, <3>1, MarkedAreFinite DEF ClusterTypes
      <4>3. pods' \subseteq PodType
        BY <3>1, <4>1
      <4>4. ASSUME NEW p \in pods', NEW q \in pods', p.uid = q.uid
            PROVE  p = q
        <5>1. PICK a \in pods, b \in pods :
                 p = [a EXCEPT !.deleting = TRUE] /\ q = [b EXCEPT !.deleting = TRUE]
          BY <3>1
        <5>2. a.uid = b.uid
          BY <4>1, <4>4, <5>1
        <5> QED
          BY <1>t, <5>1, <5>2 DEF ClusterTypes
      <4> QED
        BY <4>2, <4>3, <4>4
    <3>2. CASE pods' = {}
      BY <3>2, FS_EmptySet
    <3>3. CASE UNCHANGED pods
      BY <1>t, <3>3 DEF ClusterTypes
    <3> QED
      BY <1>2, <3>1, <3>2, <3>3 DEF DeletePods
  <2>4. ClusterTypes' /\ CallTypes'
    BY <1>t, <1>n, <2>1, <2>2, <2>3 DEF ClusterTypes, CallTypes, PodType, ReadType
  <2>5. CallKnows' /\ AnswersHold'
    BY <1>t, <1>n, <2>1, <2>2 DEF CallKnows, AnswersHold
  <2> QED
    BY <2>4, <2>5 DEF IInv
<1>3. CASE PollReplaced
  <2>1. /\ UNCHANGED <<pods, uids, replicas, volumes, generation, op, before, deadline, answer, patched>>
        /\ op = "restart" /\ pc = "poll" /\ pc' \in {"reread", "timed_out", "poll"}
    BY <1>3 DEF PollReplaced, cluster
  <2>2. pc' = "reread" => Uids(pods) \intersect Uids(before) = {}
    <3> SUFFICES ASSUME pc' = "reread" PROVE Uids(pods) \intersect Uids(before) = {}
      OBVIOUS
    <3>1. PICK s \in PodsBySelector : Replaced(s)
      BY <1>3 DEF PollReplaced
    <3>2. s # {}
      BY <1>t, <2>1, <3>1, EmptyReadIsNoReplacement DEF CallTypes, CallKnows
    <3>3. Uids(s) = Uids(pods)
      BY <1>t, <3>2, ReadTyped
    <3> QED
      BY <3>1, <3>3 DEF Replaced, Uids
  <2>3. ClusterTypes' /\ CallTypes'
    BY <1>t, <2>1 DEF ClusterTypes, CallTypes, PodType, ReadType
  <2>4. CallKnows' /\ AnswersHold'
    BY <1>t, <2>1, <2>2 DEF CallKnows, AnswersHold
  <2> QED
    BY <2>3, <2>4 DEF IInv
<1>4. CASE ReadAfter
  <2>1. PICK s \in PodsBySelector : answer' = [success |-> pc = "reread", pods |-> s] /\ pc' = "done"
    BY <1>4 DEF ReadAfter, Answer
  <2>2. /\ UNCHANGED <<pods, uids, replicas, volumes, generation, op, before, deadline, patched>>
        /\ op = "restart"
    BY <1>4, <1>t DEF ReadAfter, cluster, CallKnows
  <2>3. s \subseteq ReadType /\ Uids(s) \subseteq Uids(pods)
    BY <1>t, ReadTyped
  <2>4. ClusterTypes' /\ CallTypes'
    BY <1>t, <2>1, <2>2, <2>3 DEF ClusterTypes, CallTypes, PodType, ReadType
  <2>5. CallKnows'
    BY <1>t, <2>1, <2>2 DEF CallKnows
  <2>6. \A p \in pods : p.generation >= 0
    BY <1>t DEF ClusterTypes, PodType
  <2>7. AnswersHold'
    <3>1. CASE pc = "reread"
      <4>1. Uids(pods) \intersect Uids(before) = {} /\ patched = 0
        BY <1>t, <2>2, <3>1 DEF CallKnows
      <4> QED
        BY <2>1, <2>2, <2>3, <2>6, <4>1 DEF AnswersHold, Wanted
    <3>2. CASE pc # "reread"
      BY <2>1, <3>2 DEF AnswersHold
    <3> QED
      BY <3>1, <3>2
  <2> QED
    BY <2>4, <2>5, <2>7 DEF IInv
<1> QED
  BY <1>1, <1>2, <1>3, <1>4 DEF Restart

LEMMA ReplacePreserves == IInv /\ Replace => IInv'
<1> SUFFICES ASSUME IInv, Replace PROVE IInv'
  OBVIOUS
<1>t. ClusterTypes /\ CallTypes /\ CallKnows
  BY DEF IInv
<1>n. None \in [success : BOOLEAN, pods : SUBSET ReadType] /\ ~None.success
  BY DEF None
<1>1. CASE ReadVolumes
  <2>1. /\ UNCHANGED <<pods, uids, replicas, volumes, generation, op, before, deadline, patched>>
        /\ op = "replace"
        /\ \/ pc' = "patch" /\ answer' = answer
           \/ pc' = "done" /\ answer' = None
    BY <1>1 DEF ReadVolumes, cluster, Answer
  <2>2. ClusterTypes' /\ CallTypes'
    BY <1>t, <1>n, <2>1 DEF ClusterTypes, CallTypes, PodType, ReadType
  <2>3. CallKnows' /\ AnswersHold'
    BY <1>t, <1>n, <2>1 DEF CallKnows, AnswersHold
  <2> QED
    BY <2>2, <2>3 DEF IInv
<1>2. CASE PatchVolume
  <2>1. /\ UNCHANGED <<pods, uids, replicas, op, before, deadline>>
        /\ op = "replace" /\ pc = "patch"
    BY <1>2, <1>t DEF PatchVolume, CallKnows
  <2>2. CASE pc' = "rollout"
    <3>1. /\ volumes' = [volumes EXCEPT ![read] = [name |-> "wanted", spec |-> "new"]]
          /\ generation' = generation + 1 /\ patched' = generation' /\ answer' = answer
      BY <1>2, <2>2 DEF PatchVolume, Answer
    <3>2. volumes' \in Seq(VolumeType)
      <4>1. [name |-> "wanted", spec |-> "new"] \in VolumeType
        BY KubeAssumption DEF VolumeType
      <4>2. volumes \in Seq(VolumeType)
        BY <1>t DEF ClusterTypes
      <4> QED
        BY <3>1, <4>1, <4>2, ReplacedInSeq
    <3>3. PodType \subseteq PodType' /\ ReadType' = ReadType
      BY <1>t, <2>1, <3>1 DEF ClusterTypes, PodType, ReadType
    <3>4. ClusterTypes' /\ CallTypes'
      BY <1>t, <2>1, <3>1, <3>2, <3>3 DEF ClusterTypes, CallTypes, VolumeType
    <3>5. CallKnows' /\ AnswersHold'
      BY <1>t, <2>1, <2>2 DEF CallKnows, AnswersHold
    <3> QED
      BY <3>4, <3>5 DEF IInv
  <2>3. CASE pc' # "rollout"
    <3>1. pc' = "done" /\ answer' = None /\ UNCHANGED <<volumes, generation, patched>>
      BY <1>2, <2>3 DEF PatchVolume, Answer
    <3>2. ClusterTypes' /\ CallTypes'
      BY <1>t, <1>n, <2>1, <3>1 DEF ClusterTypes, CallTypes, PodType, ReadType
    <3>3. CallKnows' /\ AnswersHold'
      BY <1>t, <1>n, <2>1, <3>1 DEF CallKnows, AnswersHold
    <3> QED
      BY <3>2, <3>3 DEF IInv
  <2> QED
    BY <2>2, <2>3
<1>3. CASE WaitForRollout
  <2>1. /\ UNCHANGED <<pods, uids, replicas, volumes, generation, op, before, deadline, patched>>
        /\ op = "replace" /\ pc' = "done"
        /\ \/ RolledOut /\ answer' = [success |-> TRUE, pods |-> {}]
           \/ answer' = None
    BY <1>3, <1>t DEF WaitForRollout, cluster, Answer, CallKnows
  <2>2. ClusterTypes'
    BY <1>t, <2>1 DEF ClusterTypes, PodType
  <2>3. CallTypes'
    <3>1. answer' \in [success : BOOLEAN, pods : SUBSET ReadType]
      <4>1. [success |-> TRUE, pods |-> {}] \in [success : BOOLEAN, pods : SUBSET ReadType]
        OBVIOUS
      <4> QED
        BY <1>n, <2>1, <4>1
    <3> QED
      BY <1>t, <2>1, <3>1 DEF CallTypes, ReadType
  <2>5. CallKnows'
    BY <1>t, <2>1 DEF CallKnows
  <2>4. AnswersHold'
    <3>1. CASE RolledOut /\ answer' = [success |-> TRUE, pods |-> {}]
      <4>1. \A p \in Wanted(pods) : p.generation >= patched
        BY <1>t, <3>1 DEF RolledOut, ClusterTypes, CallTypes
      <4>2. before' = {} /\ Uids({}) = {}
        BY <1>t, <2>1 DEF CallKnows, Uids
      <4> QED
        BY <2>1, <3>1, <4>1, <4>2 DEF AnswersHold
    <3>2. CASE answer' = None
      BY <1>n, <3>2 DEF AnswersHold
    <3> QED
      BY <2>1, <3>1, <3>2
  <2> QED
    BY <2>2, <2>3, <2>4, <2>5 DEF IInv
<1> QED
  BY <1>1, <1>2, <1>3 DEF Replace

LEMMA IInvPreserved == IInv /\ [Next]_vars => IInv'
<1> SUFFICES ASSUME IInv, [Next]_vars PROVE IInv'
  OBVIOUS
<1>1. CASE DeadlinePasses
  BY <1>1 DEF DeadlinePasses, cluster, IInv, ClusterTypes, CallTypes, CallKnows, AnswersHold, PodType,
              ReadType
<1>2. CASE UNCHANGED vars
  BY <1>2 DEF vars, cluster, callVars, IInv, ClusterTypes, CallTypes, CallKnows, AnswersHold, PodType,
              ReadType
<1> QED
  BY <1>1, <1>2, RestartPreserves, ReplacePreserves, ClusterPreserves DEF Next

-----------------------------------------------------------------------------
\* The inductive invariant holds throughout.
THEOREM IInvAlways == Spec => []IInv
BY InitHolds, IInvPreserved, PTL DEF Spec

LEMMA TypesFollow == IInv => TypeOK
<1> SUFFICES ASSUME IInv PROVE TypeOK
  OBVIOUS
<1>1. Cardinality(Uids(pods)) = Cardinality(pods)
  BY UidsCount DEF IInv, ClusterTypes
<1>2. \A i \in DOMAIN volumes : volumes[i].name \in Volumes
  <2>1. \A i \in DOMAIN volumes : volumes[i] \in VolumeType
    BY DEF IInv, ClusterTypes
  <2> QED
    BY <2>1 DEF VolumeType
<1> QED
  BY <1>1, <1>2 DEF IInv, ClusterTypes, CallKnows, PodType, TypeOK

\* Pods, volumes and the call are of their types, and no two pods share a uid.
THEOREM TypeCorrect == Spec => []TypeOK
BY TypesFollow, IInvAlways, PTL

\* A restart that answers success left no pod of its snapshot, a replacement that does left no pod in
\* service without the volume, now or at any later time.
THEOREM AnswersHoldAlways == Spec => []AnswersHold
<1>1. IInv => AnswersHold
  BY DEF IInv
<1> QED
  BY <1>1, IInvAlways, PTL

\* The patch of replace_deployment_volume changes no volume but the one it names.
THEOREM VolumeByNameAlways == Spec => VolumeByName
<1>1. IInv /\ [Next]_vars
        => [pc = "patch" /\ pc' # "patch" /\ volumes' # volumes =>
               /\ Len(volumes') = Len(volumes)
               /\ \A i \in DOMAIN volumes : volumes'[i] # volumes[i] => volumes[i].name = "wanted"]_vars
  <2> SUFFICES ASSUME IInv, Next, pc = "patch", pc' # "patch", volumes' # volumes
               PROVE  /\ Len(volumes') = Len(volumes)
                      /\ \A i \in DOMAIN volumes : volumes'[i] # volumes[i] => volumes[i].name = "wanted"
    BY DEF vars
  <2>1. PatchVolume
    BY ClusterKeeps DEF IInv, Next, Restart, Replace, ReadBefore, DeletePods, PollReplaced, ReadAfter,
       ReadVolumes, WaitForRollout, DeadlinePasses, callVars
  <2>2. TestsName(read) /\ volumes' = [volumes EXCEPT ![read] = [name |-> "wanted", spec |-> "new"]]
    BY <2>1 DEF PatchVolume
  <2>3. volumes \in Seq(VolumeType)
    BY DEF IInv, ClusterTypes
  <2>4. [name |-> "wanted", spec |-> "new"] \in VolumeType
    BY KubeAssumption DEF VolumeType
  <2> QED
    BY <2>2, <2>3, <2>4 DEF TestsName
<1> QED
  BY <1>1, IInvAlways, PTL DEF Spec, VolumeByName
=============================================================================
