----------------------------- MODULE DisaggProxy -----------------------------
(***************************************************************************)
(* The proxy of a disaggregated deployment (vllm/disagg_proxy.py): each    *)
(* completion goes to a prefill worker, and with its answer to a decode    *)
(* worker.  Completions interleave at their awaits; the two cycles are     *)
(* all they share.                                                         *)
(***************************************************************************)
EXTENDS Naturals, FiniteSets

CONSTANTS Requests, PrefillWorkers, DecodeWorkers   \* the pools are 1..n

VARIABLES
    pc, worker,         \* by request: where it is, and the worker that has it
    prefills, decodes,  \* next() calls of the two cycles
    sent                \* by decode worker: the completions it was sent

vars == <<pc, worker, prefills, decodes, sent>>

Init ==
    /\ pc = [r \in Requests |-> "new"] /\ worker = [r \in Requests |-> 0]
    /\ prefills = 0 /\ decodes = 0 /\ sent = [w \in 1..DecodeWorkers |-> 0]

\* itertools.cycle: the n'th next().
Cycle(n, workers) == (n % workers) + 1

\* The body is awaited before the cycle is asked; the request waits for its prefill then.
Prefill ==
    /\ \E r \in Requests :
          /\ pc[r] = "new" /\ pc' = [pc EXCEPT ![r] = "prefill"]
          /\ worker' = [worker EXCEPT ![r] = Cycle(prefills, PrefillWorkers)]
    /\ prefills' = prefills + 1
    /\ UNCHANGED <<decodes, sent>>

\* Any other status is the client's answer; an exception of httpx is a 500.
PrefillFails ==
    /\ \E r \in Requests : pc[r] = "prefill" /\ pc' = [pc EXCEPT ![r] = "failed"]
    /\ UNCHANGED <<worker, prefills, decodes, sent>>

Decode ==
    /\ \E r \in Requests :
          LET w == Cycle(decodes, DecodeWorkers)
          IN  /\ pc[r] = "prefill" /\ pc' = [pc EXCEPT ![r] = "decode"]
              /\ worker' = [worker EXCEPT ![r] = w]
              /\ sent' = [sent EXCEPT ![w] = @ + 1]
    /\ decodes' = decodes + 1
    /\ UNCHANGED prefills

\* Streamed or whole, well or badly.
DecodeEnds ==
    /\ \E r \in Requests : pc[r] = "decode" /\ \E e \in {"done", "failed"} : pc' = [pc EXCEPT ![r] = e]
    /\ UNCHANGED <<worker, prefills, decodes, sent>>

Next == Prefill \/ PrefillFails \/ Decode \/ DecodeEnds
Spec == Init /\ [][Next]_vars

-----------------------------------------------------------------------------
TypeOK ==
    /\ pc \in [Requests -> {"new", "prefill", "decode", "done", "failed"}]
    /\ \A r \in Requests : worker[r] \in 0..(PrefillWorkers + DecodeWorkers)

\* However requests overlap, and whichever prefills fail, no decode worker is ever two completions
\* ahead of another.
WorkersTakenInTurn ==
    \A v, w \in 1..DecodeWorkers : sent[v] <= sent[w] + 1
=============================================================================
