---------------------------- MODULE AgentxInstall ----------------------------
(***************************************************************************)
(* AgentxHarness (workload/agentx_workload.py): install checks out two     *)
(* projects under one root and builds the venv they run in, and says so in *)
(* a marker it removes first and writes last.  Any step may fail, or the   *)
(* process be killed in it; the next process may pin other refs.           *)
(***************************************************************************)
EXTENDS Naturals

CONSTANTS
    Refs,               \* refs a version of the framework may pin
    MaxProcesses        \* bound: processes that use the root

VARIABLES
    wanted, processes,  \* the refs this process pins, as one; processes so far
    marker,             \* installed.json: "none", "torn", or refs
    harness, inferencex,        \* checkouts: .git, the ref at HEAD, and the sparse directories set
    venv,               \* its directory, aiperf in it, and the harness it was built for
    pc, answer

disk == <<marker, harness, inferencex, venv>>
vars == <<wanted, processes, disk, pc, answer>>

NoRef == "none"
NoCheckout == [git |-> FALSE, ref |-> NoRef, sparse |-> FALSE]
NoVenv == [dir |-> FALSE, aiperf |-> FALSE, built |-> NoRef]

Init ==
    /\ wanted \in Refs /\ processes = 1
    /\ marker = NoRef /\ harness = NoCheckout /\ inferencex = NoCheckout /\ venv = NoVenv
    /\ pc = "out" /\ answer = "none"

IsInstalled == marker = wanted /\ venv.aiperf

-----------------------------------------------------------------------------
(* install, step by step. *)

\* A step that fails raises; what it changed stays.
Raise == pc' = "out" /\ answer' = "raised"
Goto(p) == pc' = p /\ UNCHANGED answer

Install ==
    /\ pc = "out"
    /\ \/ IsInstalled /\ answer' = "already" /\ UNCHANGED pc
       \/ ~IsInstalled /\ Goto("unlink")
       \/ ~IsInstalled /\ Raise                     \* no uv
    /\ UNCHANGED <<wanted, processes, disk>>

Unlink ==
    /\ pc = "unlink" /\ marker' = NoRef /\ Goto("harness")
    /\ UNCHANGED <<wanted, processes, harness, inferencex, venv>>
\* git removes what a failed clone made; a clone killed by the time-out, or with the process, leaves
\* a .git.
HarnessCheckout ==
    /\ pc = "harness"
    /\ \/ harness' = [harness EXCEPT !.git = TRUE, !.ref = wanted] /\ Goto("clone")
       \/ harness' = [harness EXCEPT !.git = TRUE] /\ Raise
       \/ UNCHANGED harness /\ Raise
    /\ UNCHANGED <<wanted, processes, marker, inferencex, venv>>

Clone ==
    /\ pc = "clone"
    /\ \/ inferencex.git /\ Goto("checkout") /\ UNCHANGED inferencex
       \/ ~inferencex.git /\ inferencex' = [NoCheckout EXCEPT !.git = TRUE] /\ (Goto("sparse") \/ Raise)
       \/ ~inferencex.git /\ UNCHANGED inferencex /\ Raise
    /\ UNCHANGED <<wanted, processes, marker, harness, venv>>
\* `clone --sparse` has the files of the top level only, until this.
LimitSparse ==
    /\ pc = "sparse"
    /\ \/ inferencex' = [inferencex EXCEPT !.sparse = TRUE] /\ Goto("checkout")
       \/ UNCHANGED inferencex /\ Raise
    /\ UNCHANGED <<wanted, processes, marker, harness, venv>>
\* The fetch of an unknown ref, and the checkout.
Checkout ==
    /\ pc = "checkout"
    /\ \/ inferencex' = [inferencex EXCEPT !.ref = wanted] /\ Goto("rmtree")
       \/ UNCHANGED inferencex /\ Raise
    /\ UNCHANGED <<wanted, processes, marker, harness, venv>>

\* Errors of rmtree are ignored.
RemoveVenv ==
    /\ pc = "rmtree" /\ Goto("venv")
    /\ \/ venv' = NoVenv
       \/ UNCHANGED venv
    /\ UNCHANGED <<wanted, processes, marker, harness, inferencex>>
\* uv refuses a directory that is there.
CreateVenv ==
    /\ pc = "venv"
    /\ \/ ~venv.dir /\ venv' = [NoVenv EXCEPT !.dir = TRUE] /\ (Goto("pip") \/ Raise)
       \/ UNCHANGED venv /\ Raise
    /\ UNCHANGED <<wanted, processes, marker, harness, inferencex>>
PipInstall ==
    /\ pc = "pip"
    /\ \/ venv' = [venv EXCEPT !.aiperf = TRUE, !.built = harness.ref] /\ Goto("marker")
       \/ venv' = [venv EXCEPT !.aiperf = TRUE] /\ Raise
       \/ UNCHANGED venv /\ Raise                   \* as when aiperf is missing after it
    /\ UNCHANGED <<wanted, processes, marker, harness, inferencex>>

WriteMarker ==
    /\ pc = "marker" /\ marker' = wanted
    /\ pc' = "out" /\ answer' = "installed"
    /\ UNCHANGED <<wanted, processes, harness, inferencex, venv>>

\* The process ends, in any step or after, and another begins.  A marker half written does not parse.
NewProcess ==
    /\ processes < MaxProcesses /\ processes' = processes + 1
    /\ wanted' \in Refs
    /\ pc' = "out" /\ answer' = "none"
    /\ marker' \in IF pc = "marker" THEN {marker, "torn"} ELSE {marker}
    /\ inferencex' \in IF pc = "clone" THEN {inferencex, [inferencex EXCEPT !.git = TRUE]} ELSE {inferencex}
    /\ venv' \in IF pc = "pip" THEN {venv, [venv EXCEPT !.aiperf = TRUE]} ELSE {venv}
    /\ UNCHANGED harness

Next ==
    \/ Install \/ Unlink \/ HarnessCheckout \/ Clone \/ LimitSparse \/ Checkout
    \/ RemoveVenv \/ CreateVenv \/ PipInstall \/ WriteMarker \/ NewProcess
Spec == Init /\ [][Next]_vars

-----------------------------------------------------------------------------
TypeOK ==
    /\ wanted \in Refs /\ marker \in Refs \union {NoRef, "torn"}
    /\ harness.ref \in Refs \union {NoRef} /\ inferencex.ref \in Refs \union {NoRef}

\* However installs failed or were killed, and whatever refs they were for: between them, a harness
\* that says it is installed has both checkouts at its refs, and a venv that was built to the end
\* for them.
InstalledIsWhole ==
    pc = "out" /\ IsInstalled =>
        harness.ref = wanted /\ inferencex.ref = wanted /\ venv.built = wanted

\* "Check out both projects and build the venv" (workload/agentx_workload.py:141): the checkout of
\* InferenceX has the package that scoring runs.
InstalledHasPackage == pc = "out" /\ IsInstalled => inferencex.sparse
=============================================================================
