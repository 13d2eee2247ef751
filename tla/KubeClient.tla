----------------------------- MODULE KubeClient -----------------------------
(***************************************************************************)
(* The calls of KubernetesClient that change a cluster and wait for it:    *)
(* restart_pods and replace_deployment_volume (k8s.py).  Each kubectl run  *)
(* is one action, and may fail; between any two of them the controllers    *)
(* replace pods and others edit the deployment.  The client keeps nothing  *)
(* between calls, so a behaviour is one call.                              *)
(***************************************************************************)
EXTENDS Naturals, Sequences, FiniteSets, Functions, SequencesExt

CONSTANTS
    Volumes,            \* volume names, "wanted" among them
    InitVolumes,        \* the volume lists a deployment may start with
    Replicas,           \* the replica counts a deployment may have
    MaxUid,             \* bound: pods ever created
    MaxEdits            \* bound: edits of the deployment by others

ASSUME KubeAssumption ==
    /\ "wanted" \in Volumes /\ Replicas \subseteq Nat \ {0} /\ MaxUid \in Nat /\ MaxEdits \in Nat
    /\ InitVolumes \subseteq Seq([name : Volumes, spec : {"old", "new", "other"}])

VARIABLES
    pods,               \* the pods the selector matches: uid, ready, deleting, generation
    uids, replicas, volumes, generation, edits,     \* the deployment
    op, pc, before, read, deadline, answer,         \* the call
    patched             \* the generation its patch made; for the properties

cluster == <<pods, uids, replicas, volumes, generation, edits>>
callVars == <<op, pc, before, read, deadline, answer, patched>>
vars == <<cluster, callVars>>

None == [success |-> FALSE, pods |-> {}]

Pod(uid, gen) == [uid |-> uid, ready |-> FALSE, deleting |-> FALSE, generation |-> gen]
Uids(ps) == {p.uid : p \in ps}
Wanted(ps) == {p \in ps : ~p.deleting}

Init ==
    /\ replicas \in Replicas
    /\ pods = {[Pod(u, 1) EXCEPT !.ready = TRUE] : u \in 1..replicas} /\ uids = replicas
    /\ volumes \in InitVolumes
    /\ generation = 1 /\ edits = 0
    /\ op \in {"restart", "replace"} /\ pc = "start"
    /\ before = {} /\ read = 0 /\ deadline = FALSE /\ answer = None /\ patched = 0

Update(p, q) == pods' = (pods \ {p}) \union {q}

-----------------------------------------------------------------------------
(* restart_pods. *)

\* pods_by_selector: {} when kubectl fails; pods being deleted are listed with the others.
PodsBySelector == {{[uid |-> p.uid, ready |-> p.ready] : p \in pods}, {}}

Answer(a) == answer' = a /\ pc' = "done"

ReadBefore ==
    /\ op = "restart" /\ pc = "start"
    /\ before' \in PodsBySelector
    /\ IF before' = {} THEN Answer(None) ELSE pc' = "delete" /\ UNCHANGED answer
    /\ UNCHANGED <<cluster, op, read, deadline, patched>>

\* --wait=false: the pods are marked, and forced ones are gone at once.
DeletePods ==
    /\ op = "restart" /\ pc = "delete"
    /\ \/ /\ \/ pods' = {[p EXCEPT !.deleting = TRUE] : p \in pods}
             \/ pods' = {}
          /\ pc' = "poll" /\ UNCHANGED answer
       \/ Answer(None) /\ UNCHANGED pods
    /\ UNCHANGED <<uids, replicas, volumes, generation, edits, op, before, read, deadline, patched>>

ReplacedByCount(current) ==
    Cardinality(current) >= Cardinality(before) /\ \A p \in current : p.ready
Replaced(current) ==
    /\ Cardinality(current) >= Cardinality(before)
    /\ \A p \in current : p.uid \notin Uids(before) /\ p.ready

\* One evaluation of poll_until's predicate; the last one comes after the deadline.
PollReplaced ==
    /\ op = "restart" /\ pc = "poll"
    /\ \E current \in PodsBySelector :
          pc' = IF Replaced(current) THEN "reread" ELSE IF deadline THEN "timed_out" ELSE "poll"
    /\ UNCHANGED <<cluster, op, before, read, deadline, answer, patched>>

DeadlinePasses ==
    /\ pc = "poll" /\ ~deadline
    /\ deadline' = TRUE
    /\ UNCHANGED <<cluster, op, pc, before, read, answer, patched>>

\* Either way the pods are read once more, for the answer.
ReadAfter ==
    /\ pc \in {"reread", "timed_out"}
    /\ \E current \in PodsBySelector : Answer([success |-> pc = "reread", pods |-> current])
    /\ UNCHANGED <<cluster, op, before, read, deadline, patched>>

-----------------------------------------------------------------------------
(* replace_deployment_volume, of the volume "wanted". *)

Index(vs) == SelectInSeq(vs, LAMBDA v : v.name = "wanted")

ReadVolumes ==
    /\ op = "replace" /\ pc = "start"
    /\ \/ Index(volumes) # 0 /\ read' = Index(volumes) /\ pc' = "patch" /\ UNCHANGED answer
       \/ Answer(None) /\ UNCHANGED read
    /\ UNCHANGED <<cluster, op, before, deadline, patched>>

TestsIndex(i) == i <= Len(volumes)
\* A JSON patch is applied as a whole or, when its test fails, not at all.
TestsName(i) == i <= Len(volumes) /\ volumes[i].name = "wanted"
PatchVolume ==
    /\ pc = "patch"
    /\ \/ /\ TestsName(read)
          /\ volumes' = [volumes EXCEPT ![read] = [name |-> "wanted", spec |-> "new"]]
          /\ generation' = generation + 1 /\ patched' = generation'
          /\ pc' = "rollout" /\ UNCHANGED answer
       \/ Answer(None) /\ UNCHANGED <<volumes, generation, patched>>
    /\ UNCHANGED <<pods, uids, replicas, edits, op, before, read, deadline>>

\* kubectl rollout status: every replica updated and available, and no older pod left over.
RolledOut ==
    /\ Cardinality(Wanted(pods)) >= replicas
    /\ \A p \in Wanted(pods) : p.generation = generation /\ p.ready

WaitForRollout ==
    /\ pc = "rollout"
    /\ \/ RolledOut /\ Answer([success |-> TRUE, pods |-> {}])
       \/ Answer(None)
    /\ UNCHANGED <<cluster, op, before, read, deadline, patched>>

-----------------------------------------------------------------------------
(* The cluster: kubelets, the deployment controller, and others. *)

PodStarts ==
    /\ \E p \in pods : ~p.ready /\ ~p.deleting /\ Update(p, [p EXCEPT !.ready = TRUE])
    /\ UNCHANGED <<uids, replicas, volumes, generation, edits, callVars>>
PodFails ==
    /\ \E p \in pods : p.ready /\ Update(p, [p EXCEPT !.ready = FALSE])
    /\ UNCHANGED <<uids, replicas, volumes, generation, edits, callVars>>
PodEnds ==
    /\ \E p \in pods : p.deleting /\ pods' = pods \ {p}
    /\ UNCHANGED <<uids, replicas, volumes, generation, edits, callVars>>

\* A missing replica, or the first of a new generation, which surges over the count.
CreatePod ==
    /\ uids < MaxUid
    /\ \/ Cardinality(Wanted(pods)) < replicas
       \/ Cardinality(Wanted(pods)) = replicas /\ \A p \in Wanted(pods) : p.generation < generation
    /\ uids' = uids + 1
    /\ pods' = pods \union {Pod(uids', generation)}
    /\ UNCHANGED <<replicas, volumes, generation, edits, callVars>>
\* A replica too many, or one of an older generation when the others suffice.
DeletePod ==
    /\ \E p \in Wanted(pods) :
          /\ Cardinality(Wanted(pods)) > replicas
          /\ p.generation < generation \/ \A q \in pods : q.generation = generation
          /\ Update(p, [p EXCEPT !.deleting = TRUE])
    /\ UNCHANGED <<uids, replicas, volumes, generation, edits, callVars>>

OthersScale ==
    /\ edits < MaxEdits /\ edits' = edits + 1
    /\ replicas' \in Replicas \ {replicas}
    /\ UNCHANGED <<pods, uids, volumes, generation, callVars>>
OthersEditVolumes ==
    /\ edits < MaxEdits /\ edits' = edits + 1
    /\ \/ \E i \in DOMAIN volumes : volumes' = RemoveAt(volumes, i)
       \/ volumes' = Reverse(volumes) /\ Len(volumes) > 1
       \/ \E i \in DOMAIN volumes : volumes' = [volumes EXCEPT ![i].spec = "other"] /\ volumes' # volumes
    /\ generation' = generation + 1
    /\ UNCHANGED <<pods, uids, replicas, callVars>>

Restart == ReadBefore \/ DeletePods \/ PollReplaced \/ ReadAfter
Replace == ReadVolumes \/ PatchVolume \/ WaitForRollout
Cluster == PodStarts \/ PodFails \/ PodEnds \/ CreatePod \/ DeletePod \/ OthersScale \/ OthersEditVolumes
Next == Restart \/ Replace \/ DeadlinePasses \/ Cluster
Spec == Init /\ [][Next]_vars

-----------------------------------------------------------------------------
TypeOK ==
    /\ \A p \in pods : p.uid \in 1..uids /\ p.generation \in 1..generation
    /\ Cardinality(Uids(pods)) = Cardinality(pods)
    /\ \A i \in DOMAIN volumes : volumes[i].name \in Volumes
    /\ pc \in {"start", "delete", "poll", "reread", "timed_out", "patch", "rollout", "done"}

\* A restart that answers success leaves no pod of its snapshot, however the controllers interleave
\* and whichever of its reads failed; a replacement that answers success leaves no pod in service
\* that runs without the volume.
AnswersHold ==
    pc = "done" /\ answer.success =>
        /\ Uids(pods) \intersect Uids(before) = {}
        /\ Uids(answer.pods) \intersect Uids(before) = {}
        /\ \A p \in Wanted(pods) : p.generation >= patched

\* The patch changes the volume it is about and no other, whatever others did to the list since it
\* was read (k8s.py:586-587).
VolumeByName ==
    [][pc = "patch" /\ pc' # "patch" /\ volumes' # volumes =>
          /\ Len(volumes') = Len(volumes)
          /\ \A i \in DOMAIN volumes : volumes'[i] # volumes[i] => volumes[i].name = "wanted"]_vars
=============================================================================
