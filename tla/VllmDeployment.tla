--------------------------- MODULE VllmDeployment ---------------------------
(***************************************************************************)
(* VllmDeployment (vllm/server.py): one container per worker, then a proxy *)
(* in front of prefill and decode workers, each awaited at its URL, and    *)
(* removed by stop with docker.py's force_remove_container.  docker and    *)
(* the servers act on their own; on a remote host a `docker run` that was  *)
(* given up may still start its container.                                 *)
(***************************************************************************)
EXTENDS Naturals, Sequences, FiniteSets, SequencesExt

CONSTANTS
    Pools,              \* the pairs of prefill and decode pools a deployment may have
    BasePorts,          \* WORKER_BASE_PORTS
    MaxStarts           \* bound: calls of start

\* A pool has a worker, a worker a GPU, and the ports of the prefill workers, from 8100, end before those
\* of the decode workers, from 8200.
ASSUME PoolsAssumption ==
    LET pool == [workers : Nat \ {0}, tensorParallel : Nat \ {0}]
    IN  /\ Pools \subseteq [prefill : pool, decode : pool]
        /\ BasePorts \in [prefill : Nat, decode : Nat]
        /\ \A p \in Pools : BasePorts.prefill + p.prefill.workers <= BasePorts.decode

VARIABLES
    workers, managed,   \* the deployment's workers; used as a context manager
    containers, workerContainers,
    pc, at, starts,     \* the call, the worker or container it is at, calls so far
    slots,              \* by container ever named: the worker it is, or 0, the proxy
    running, exited, late,      \* docker: containers, and runs given up that may still start one
    serving, everServed,
    unremoved           \* containers whose removal was not confirmed; for the properties

docker == <<slots, running, exited, late, serving, everServed>>
vars == <<workers, managed, containers, workerContainers, pc, at, starts, docker, unremoved>>

-----------------------------------------------------------------------------
(* Workers. *)

\* The numbers from..from+n-1.
Block(from, n) == from..(from + n - 1)

Worker(role, port, gpus, side) == [role |-> role, port |-> port, gpus |-> gpus, side |-> side]
AggregatedWorkers(tensorParallel) == <<Worker("server", 8000, Block(0, tensorParallel), 0)>>

\* Prefill workers, then decode workers, each on its port and the next GPUs.
DisaggregatedWorkers(prefill, decode) ==
    [i \in 1..(prefill.workers + decode.workers) |->
        IF i <= prefill.workers
        THEN Worker("prefill", BasePorts.prefill + i - 1,
                    Block((i - 1) * prefill.tensorParallel, prefill.tensorParallel), i - 1)
        ELSE LET j == i - prefill.workers
                 taken == prefill.workers * prefill.tensorParallel
             IN  Worker("decode", BasePorts.decode + j - 1,
                        Block(taken + (j - 1) * decode.tensorParallel, decode.tensorParallel), i - 1)]

NeededGpus == UNION {w.gpus : w \in ToSet(workers)}
Disaggregated == \E w \in ToSet(workers) : w.role # "server"

Init ==
    /\ workers \in {AggregatedWorkers(2)} \union {DisaggregatedWorkers(p.prefill, p.decode) : p \in Pools}
    /\ managed \in BOOLEAN
    /\ containers = <<>> /\ workerContainers = <<>>
    /\ pc = "idle" /\ at = 0 /\ starts = 0
    /\ slots = <<>> /\ running = {} /\ exited = {} /\ late = {} /\ serving = {} /\ everServed = {}
    /\ unremoved = {}

-----------------------------------------------------------------------------
(* start. *)

Exists == running \union exited

\* __enter__ stops a start that raises; without it the caller is left with what was started.
Raise == pc' = (IF managed THEN "removing" ELSE "failed") /\ at' = 1

Start ==
    /\ pc = "idle" \/ (~managed /\ pc \in {"up", "failed"})
    /\ starts < MaxStarts /\ starts' = starts + 1
    /\ pc' = "run" /\ at' = 1
    /\ UNCHANGED <<workers, managed, containers, workerContainers, docker, unremoved>>

\* _run_container.  A failed run may leave its container, created or on its way.
RunContainer(slot, then) ==
    LET c == Len(slots) + 1
    IN  /\ slots' = Append(slots, slot)
        /\ containers' = Append(containers, c)
        /\ \/ /\ running' = running \union {c}
              /\ pc' = then /\ at' = at + 1
              /\ UNCHANGED <<exited, late>>
           \/ /\ \/ exited' = exited \union {c} /\ UNCHANGED late
                 \/ late' = late \union {c} /\ UNCHANGED exited
                 \/ UNCHANGED <<exited, late>>
              /\ Raise
              /\ UNCHANGED running
        /\ UNCHANGED <<serving, everServed>>

RunWorker ==
    /\ pc = "run" /\ at <= Len(workers)
    /\ workerContainers' = Append(workerContainers, Len(slots) + 1)
    /\ RunContainer(at, "run")
    /\ UNCHANGED <<workers, managed, starts, unremoved>>

AwaitWorkers ==
    /\ pc = "run" /\ at > Len(workers)
    /\ pc' = "poll" /\ at' = 1
    /\ UNCHANGED <<workers, managed, containers, workerContainers, starts, docker, unremoved>>

\* The container a wait is about: the at'th named, and the proxy last.
Awaited == IF at <= Len(workers) THEN workerContainers[at] ELSE Last(containers)
Slot == IF at <= Len(workers) THEN at ELSE 0
\* Whoever answers on the port; a request may fail all the same.
Serves == {(\E c \in serving : slots[c] = Slot), FALSE}
\* So may `docker inspect`.
Running == {(Awaited \in running), FALSE}

PollServes ==
    /\ pc = "poll"
    /\ \E s \in Serves : pc' = IF s THEN "confirm" ELSE "inspect"
    /\ UNCHANGED <<workers, managed, containers, workerContainers, at, starts, docker, unremoved>>
\* The loop goes on, or ends: at the deadline, or when the container does not run.
PollRunning ==
    /\ pc = "inspect"
    /\ \/ pc' = "confirm"
       \/ \E r \in Running : r /\ pc' = "poll"
    /\ UNCHANGED <<workers, managed, containers, workerContainers, at, starts, docker, unremoved>>

\* After the last worker: the proxy, or the end.  Older names than workers: zip raises.
Served ==
    CASE at < Len(workers) -> pc' = "poll" /\ at' = at + 1
      [] at = Len(workers) /\ Len(workerContainers) > Len(workers) -> Raise
      [] at = Len(workers) /\ Disaggregated -> pc' = "proxy" /\ at' = at
      [] OTHER -> pc' = "up" /\ at' = 0

\* Without a second look, a container that exited passes for one that answers.
ConfirmUnseen ==
    /\ pc = "confirm" /\ Served
    /\ UNCHANGED <<workers, managed, containers, workerContainers, starts, docker, unremoved>>
Confirm ==
    /\ pc = "confirm"
    /\ \E s \in Serves : IF s THEN Served ELSE Raise
    /\ UNCHANGED <<workers, managed, containers, workerContainers, starts, docker, unremoved>>

\* Copying the script to a remote host may fail.
RunProxy ==
    /\ pc = "proxy"
    /\ \/ RunContainer(0, "poll")
       \/ Raise /\ UNCHANGED <<containers, docker>>
    /\ UNCHANGED <<workers, managed, workerContainers, starts, unremoved>>

-----------------------------------------------------------------------------
(* stop. *)

Stop ==
    /\ pc \in {"up", "failed"}
    /\ pc' = "removing" /\ at' = 1
    /\ UNCHANGED <<workers, managed, containers, workerContainers, starts, docker, unremoved>>

\* force_remove_container: gone, or not in time; its answer is not looked at.
RemoveContainer ==
    /\ pc = "removing" /\ at <= Len(containers)
    /\ \/ /\ running' = running \ {containers[at]} /\ exited' = exited \ {containers[at]}
          /\ serving' = serving \ {containers[at]}
          /\ unremoved' = unremoved \union ({containers[at]} \intersect late)
       \/ unremoved' = unremoved \union {containers[at]} /\ UNCHANGED <<running, exited, serving>>
    /\ at' = at + 1
    /\ UNCHANGED <<workers, managed, containers, workerContainers, pc, starts, slots, late, everServed>>

Stopped ==
    /\ pc = "removing" /\ at > Len(containers)
    /\ containers' = <<>> /\ workerContainers' = <<>>
    /\ pc' = "idle" /\ at' = 0
    /\ UNCHANGED <<workers, managed, starts, docker, unremoved>>

-----------------------------------------------------------------------------
(* docker and the servers. *)

StartsLate ==
    /\ \E c \in late : late' = late \ {c} /\ running' = running \union {c}
    /\ UNCHANGED <<workers, managed, containers, workerContainers, pc, at, starts, slots, exited, serving, everServed, unremoved>>
\* A container listens when its port is free, and may end at any time.
Listens ==
    /\ \E c \in running \ serving :
          /\ \A d \in serving : slots[d] # slots[c]
          /\ serving' = serving \union {c} /\ everServed' = everServed \union {c}
    /\ UNCHANGED <<workers, managed, containers, workerContainers, pc, at, starts, slots, running, exited, late, unremoved>>
Exits ==
    /\ \E c \in running :
          /\ running' = running \ {c} /\ exited' = exited \union {c} /\ serving' = serving \ {c}
    /\ UNCHANGED <<workers, managed, containers, workerContainers, pc, at, starts, slots, late, everServed, unremoved>>

Next ==
    \/ Start \/ RunWorker \/ AwaitWorkers \/ PollServes \/ PollRunning \/ Confirm \/ RunProxy
    \/ Stop \/ RemoveContainer \/ Stopped
    \/ StartsLate \/ Listens \/ Exits
Spec == Init /\ [][Next]_vars

-----------------------------------------------------------------------------
TypeOK ==
    /\ containers \in Seq(DOMAIN slots) /\ workerContainers \in Seq(DOMAIN slots)
    /\ running \union exited \union late \subseteq DOMAIN slots /\ running \intersect exited = {}
    /\ serving \subseteq running /\ serving \subseteq everServed

\* A container this deployment started and that exists, or may still come up, is in its list for a
\* stop to remove, whichever step of start failed; the only others are those whose removal failed,
\* or came before docker had created them.  No two workers share a port, a side channel or a GPU.
ContainersAccounted ==
    /\ Exists \union late \subseteq ToSet(containers) \union unremoved
    /\ \A i, j \in DOMAIN workers :
          i # j => /\ workers[i].port # workers[j].port /\ workers[i].side # workers[j].side
                   /\ workers[i].gpus \intersect workers[j].gpus = {}
    /\ NeededGpus = 0..(Cardinality(NeededGpus) - 1)

\* A start that returned, with no server of an earlier one left on its ports, has seen every one of
\* its own containers answer.
ServedByItsOwn == pc = "up" /\ starts = 1 => ToSet(containers) \subseteq everServed
=============================================================================
