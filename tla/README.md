# Verification of production-test-framework

TLA+ models of `src/production_test_framework`, the library that production tests use to run
workloads (NCCL, InferenceX, AgentX, prompts), reach hosts and clusters over SSH and kubectl,
drive switches and report what they saw. The modules are written from the Python sources; names
follow the code. `PROJECT.json` lists components, runs, mutants, the map from definitions to source
lines, findings, hazards and theorems.

To check a run: `tlc -config <run>.cfg <MC module>`. To check the proofs: `tlapm <module>_proofs.tla`,
for each of the eight modules of that name.

## 1. Inventory

| Component | State | Operations | Interacts with | Hard behaviour | What makes it correct |
|---|---|---|---|---|---|
| Workload, thread pool (`workload/workload.py`) | `_executor`, status, times | `submit_background`, `shutdown_executor`, `wait_for_completion` | every workload | callbacks run in whichever thread ends the future | no run is lost; waiting ends |
| CommandWorkload (`workload/command_workload.py`, `docker_mixin.py`) | `_workload_status`, `_result`, `_end_time`, `_cancel_event`, `_completion_fut`, the container of a fixed name | `start`, `stop`, `get_result`, the run, its callback | pool, `run_cancellable_command`, docker | unlocked attributes, one event for all runs, late callbacks, two cleanups | what is reported is the latest run's; stops reach the run they are meant for; containers go |
| `run_cancellable_command` (`helper.py`) | a process group and its pipes, deadline, event | one call | command workloads | children that hold pipes, ignore SIGTERM, leave the group | always answers; kills what it must; reports the look that decided |
| PromptWorkload (`workload/prompt_workload.py`) | `prompt_state`, `prompt_result`, `_stop_event` | `start`, `stop`, `get_result`, prompt loop | pool, vLLM client | as above, with partial success | a stop touches its own run only |
| AgentX, InferenceX, NCCL workloads | installed harness, artifacts on disk, command lines, parsers | `install`, `build_command`, `parse_output` | CommandWorkload | artifacts of an earlier run read as this run's; a half-made install | results come from this run's artifacts |
| SSHExecutor (`ssh.py`) | `_client`, `_current_host` | `run`, `get_transport`, `close` | forwarder, Kubernetes client | dropped connections, hosts alternating on one cached client, lost answers | a command runs on the host asked for; one connection open |
| KubectlPortForwarder (`k8s.py`) | `_tunnels`, `_kubectl_pids`, kubectl processes, bound ports | `start_service_tunnel`, `stop_all` | SSHExecutor | calls that fail half-way, processes that outlive their call, somebody else's listener | nothing it can kill is forgotten; True means forwarded |
| LocalKubectlPortForwarder (`k8s.py`) | `_forwards`, child processes | `start_service_tunnel`, `stop_service_tunnel`, `is_running`, `stop_all` | kubectl | dead entries that shadow live ones; a timeout that counts as success | no orphan; queries speak of the live forward |
| Kubernetes client (`k8s.py`) | none (the cluster's) | `restart_pods`, `unstable_pods`, `replace_deployment_volume`, ... | kubectl local or by SSH | pods replaced between a snapshot and a delete; polls that never see a state | a restart that answers True replaced every pod |
| Switch drivers (`switch/`) | NVUE interface caches, switch revisions; EOS and NX-OS sessions | `delete_vlan`, `set_port_*`, `set_svi_address`, `vlans`, port names | switches over HTTP | changeset of several requests, one of which fails or is repeated; other editors; apply timeouts | a change is whole or not there; reads are fresh |
| vLLM deployment, client, proxy (`vllm/`) | containers, configurations, round robin | `start`, `stop`, `wait_for_ready`, `complete` | docker, workloads | stop that fails in part; a second start | no container survives a stop |
| Docker, compose, HTTP server | containers, stack, served files, server thread | up, down, `force_remove_container` | deployments | cleanup after a failed start | what was started is stopped |
| Polling and probes (`utils/polling.py`, `helper.py`) | a clock | `wait_for`, `poll_until`, `wait_for_tcp`, ... | everything | a condition that comes true at the deadline; interval larger than timeout | the answer is the condition's last value |
| Telemetry, load generation | instruments by name, providers; users, their shared counter | `initialize`, `create_*`, `cleanup`; `on_start`, `on_stop` | tests, Locust | re-initialisation, one name for two kinds; users stopped in the middle of a start | an instrument belongs to the live provider; names differ, nothing exports for a stopped user |
| Environment checks | declarations by directory, what is selected | `declare`, `use`, `enforce` | pytest | declarations and targets in any order | required wins |
| Reporting | outcomes, sections, the file | `Reporter`, pytest hooks | pytest | phases of one test reported in several calls, reruns | every failure of every phase is shown |
| Grafana, Loki | a browser's page | panel queries, `load_all_panels`, waits | HTTP APIs, Playwright | queries that fail in part, panels of one title, lazy panels | no failure hidden by a success, no panel missed |
| Economics, power (`agentx/`) | the chip table; a sampler's thread and readings | `update_gpu_economics`, `resolve_economics`; `start`, `stop` | AgentX report, ipmitool | names and aliases, rates that are missing; a join with a timeout | figures agree with each other and with their source |
| Config, host, switch status command | none | field access, formatting | | | not modelled |
| `ansible/`, `manifests/`, `scripts/`, `profiler/` | none of the program's | | | | not modelled |

Components talk by direct calls in one thread, except: workload runs and their callbacks (pool
threads), the port forwarder's accept threads (which change no shared state but end when their
transport does), the in-memory HTTP server's thread, and the outside world (processes,
containers, switches, clusters), which moves between any two steps.

## 2. Plan

Order, most important first. Done in bold.

1. **ThreadPool, CommandWorkload, CommandRun, CancellableCommand** and **CommandWorkload_proofs**:
   the workload life cycle, which everything else runs under.
2. **PromptWorkload**: the second workload over the same pool.
3. **SSHExecutor, KubectlPortForwarder**: the shared connection and what lives on it.
4. **SwitchConfig**, the configuration callers reckon with, and **NvueSwitch**, which implements it by
   changesets with failing and repeated requests; **CliSwitch**; **LldpReads** over **PortNames**.
   Composed by **MCSwitches**.
5. **KubeClient**: restart_pods and volume replacement against a cluster that replaces pods;
   **PodHealth**, **PodReport**, **LocalPortForwarder**, **Polling**. Composed by **MCCluster**.
6. **VllmDeployment, DisaggProxy, ModelFit, HttpServer, AgentxInstall, BenchmarkRuns**: what a session
   serves, installs and runs.
7. **Otelp, LoadUsers, PowerSampler, EnvironmentCheck, Reporter, PanelQueries, DashboardPage,
   Economics**: what it measures and reports. Groups 6 and 7 are composed by **MCSession**.
8. Proofs, for every value of the constants: **CommandWorkload_proofs**, **CancellableCommand_proofs**,
   **PromptWorkload_proofs**, **KubectlPortForwarder_proofs**, **KubeClient_proofs**, and one module for the
   parts of each composition, **MCSwitches_proofs**, **MCCluster_proofs**, **MCSession_proofs**. They cover
   every safety property of the passing runs, see section 6.

## 3. Modules

### ThreadPool
`concurrent.futures` as the workloads use it: a `Future` state and a callback state per run, the
queue, the run each thread is busy with. Runs are numbered by `start()` calls. A done callback is
executed by the thread that makes the future done: a worker, or the caller inside `cancel()`,
`shutdown()` or `add_done_callback()`. Only `PoolInit` and `Submit` stand for code of the
repository; the rest is external, modelled from what `workload.py` and the two workloads rely on.

### CommandWorkload
One caller thread and the workers, interleaved at each assignment or read of an attribute that
both sides touch.

| State | Code |
|---|---|
| `status`, `result`, `endTime` | `_workload_status`, `_result`, `_end_time` |
| `cancelEvent`, `current`, `startTime`, `commandResult` | `_cancel_event`, `_completion_fut`, `_start_time`, `_command_result` |
| `callerPc`, `snapshot` | where the caller is; what `get_result` has read |
| `phase`, `todo` | where a worker is in `_run_command_sync`; the callback's remaining assignments |
| `proc`, `expired`, `ended`, `container`, `cleaned` | the command, its deadline, its end, the container of the shared name |
| `outcome` | what `fut.result()` gives; `dequeued` is CancelledError |
| `started`, `stops`, `stopped` | history: calls made, runs in the pool at a `stop()` |

Time stamps are run numbers, results a kind and a run: the properties only ask whose they are.
`StartClear` to `StartCallback` are `start()`, `StopEvent` to `StopCleanup` are `stop()`, `Shutdown*`
is `shutdown_executor(wait=False)`, `AwaitDone` and `Read*` are `wait_for_completion` then
`get_result`, `TakeRun` to `Finish` are the worker, `Publish` is one assignment of
`_on_command_done`. `_safe_cleanup` swallows failures, so `CleanUp` and `StopCleanup` may fail
silently; a run whose `build_command` raises or whose command raises is never cleaned up, as in the code.

### CancellableCommand and CommandRun
CancellableCommand is `run_cancellable_command` statement by statement with the processes it starts: which are
alive, in the group, holding the pipes, and which may have become another user's (`foreign`: sudo), whom SIGTERM
and SIGKILL may not reach, as `_signal_group` swallows PermissionError. The input may be one that does not
encode, for which the first `communicate()` raises while the command runs. CommandRun is what callers reckon
with: launch, poll, wait, terminate, one verdict. CancellableCommand implements it (`ImplementsCommandRun`), and
each run in CommandWorkload is one, under an event the runs share (`RunsAreCommandRuns`). So the workload model
rests on the code of `helper.py` and not on a guess of it.

### PromptWorkload
The same pool, another workload: `start()` clears its event last, `stop()` raises when no future is
left, a stopped run returns the answers it has, or raises if it has none, and the callback writes
no status for a cancelled run. The HTTP exchange is an answer or a failure
(`complete()` may also let an exception through, which the callback treats the same way).

### SSHExecutor and KubectlPortForwarder
SSHExecutor has the cached client and the host remembered for it; `Ran` is `run()` with the three
things that can come of a command: answered, executed without an answer, not executed. The
forwarder extends it. Its remote commands are one step each; between them kubectl processes bind,
are refused and die, connections drop, and other users of the executor run commands on other
hosts. `lost` and `missed` are history: launches that gave no pid and kills never executed.
`SshUser` is root, a user sudo lets in, or one it refuses, and each call is made with `use_sudo` or without.
`sudo lsof ... | xargs kill -9` runs only `lsof` as root (`MaySignal`). Under sudo, the default, the pid that
`echo $!` answers is that of sudo: killed with SIGKILL it says nothing to the kubectl it forked, which lives on
unless sudo has exec'ed it (`KillPid`); `spared` is history, the kubectls that outlived the kill of their pid.

### SwitchConfig, NvueSwitch, CliSwitch
SwitchConfig is what the callers of a `NetworkSwitch` reckon with: a configuration that changes by
whole edits, theirs or somebody else's. An edit it was handed may be decided on late, or never.
NvueSwitch is `NvidiaCumulusSwitch`: an edit is a revision, a set of writes made one request each in order,
a PATCH that asks to apply it, and a poll with a deadline.

| State | Code |
|---|---|
| `config` | the switch's applied configuration |
| `revs` | the revision of each call, at the switch: open, submitted, applied, failed |
| `pc`, `call`, `todo` | the request a call is at, its arguments, its writes still to make |
| `appliedCache`, `operCache` | `_interfaces_applied_cache`, `_interfaces_config_cache` |
| `view`, `answer`, `expired` | what a read has so far, what the call returned, the apply deadline |
| `seen`, `joined` | history: configurations during a read, memberships others made |

Each request may be answered, repeated by the session after a lost answer (a DELETE is then answered
404), or fail for good. The switch applies or refuses a submitted revision at any time, also after
the call gave up on it. CliSwitch is the EOS and NX-OS drivers: the same edits as command lists, each
command taking effect on its own, any of them refused.

### LldpReads, PortNames
PortNames is `switch/portname.py`: names parsed to prefix, slot, port and subport, their order, and the
numbering of data ports (EOS takes "Ethernet" and "Et"). LldpReads is the three `lldp_neighbors`: the neighbor
table and the interface list are two requests, and a cage is broken out or made whole between them.

### KubeClient, PodHealth, PodReport
KubeClient is the calls that change a cluster and wait: `restart_pods` and
`replace_deployment_volume`, one action per kubectl, any of which may fail, with the deployment
controller, kubelets and other editors between any two. PodHealth is how one pod is judged: by its
row, by its container statuses, by endpoints, and `unstable_pods` by the last termination each
container remembers. PodReport is `pod_report`, gathered request by request while containers crash.

### LocalPortForwarder
The local kubectl processes and the list kept of them: a start waits in turns for the process, the
port and its timeout; kubectl binds, fails or dies at any moment.

### Polling
All waiting loops of the framework (`poll_until`, `wait_for`, TCP, ping, SSH login) with a clock, slow
probes, and a condition that comes and goes; `use` tells whose loop and whose condition it is.

### VllmDeployment, DisaggProxy, ModelFit
VllmDeployment is `start`, `_wait`, `stop` and the context manager over docker containers that start late,
exit, or survive their removal. DisaggProxy is the proxy script's two round robins under overlapping
requests. ModelFit is `check_model_fits`: footprint, disk, GPU memory and the RoPE override, over runs of
a user who follows its advice and of downloads that stop half-way. Sizes are small numbers, and a sum of
sizes is the number of its bytes. Only what passed the check downloads: what vLLM does of a model that could
not be sized is vLLM's.

### AgentxInstall, BenchmarkRuns
AgentxInstall is `AgentxHarness.install` command by command, with the disk that failures, kills and
changes of pinned refs leave behind. BenchmarkRuns is what AgentX, InferenceX and NCCL runs make of a
command's streams and files, with the rescue of an AgentX run that failed after its result.

### HttpServer
`InMemoryFileServer`: request threads that send a file chunk by chunk while the test replaces it, removes it
or stops the server. A `stop()` before `start()` waits for a loop that never began, as `shutdown()` does.

### Otelp, LoadUsers, PowerSampler
Otelp is the telemetry object with its provider, meter and instruments by name. LoadUsers is
`LocustMetricsUser`: greenlets that share a counter and own an Otelp each, stopped anywhere. PowerSampler is the
sampling thread, with the readings by `nvidia-smi` and `ipmitool`, and the `stop` that joins it. `run_command`
kills a reading at its timeout, but not `sudo -n ipmitool` for a caller that is no root (`killable`): that one is
waited for as long as it lasts, so that the join may end first (`outlasted`). A process that no signal ends
because it hangs in the kernel is left out, and so is a caller that starts the sampler again while its thread
still lives.

### EnvironmentCheck, Reporter
EnvironmentCheck selects declarations by directory and by name for targets in any order. Reporter is
the pytest plugin with the report it keeps: sections, header tables, outcomes by phase, reruns.

### PanelQueries, DashboardPage, Economics
PanelQueries is `dashboard_panel_results`: requests that are rejected, answer in part or fail, kept under a
label made of the panel's title: a title is a sequence, and `Label` appends the number to it as the code appends
" (n)", so that a title can read like the label of another (`Unambiguous` says that none does). DashboardPage is
a dashboard flattened by `dashboard_panels`, an entry a step (`Flatten`, until `DashboardPanels` returns), and
scrolled through by `load_all_panels`. Economics is the chip table, what InferenceX publishes applied to it, and
the inputs and metrics resolved from it, with ratios as pairs of small numbers.

### Composition
Every MC module of groups 4 to 7 drives one of its parts in each behaviour: `driven` is chosen at the
start, the others stand still in one state. They share no state in the code, so that their state
spaces are added and not multiplied, and a property over them is the conjunction of the parts'.
Parts that do share state extend each other instead: the workloads their pool, the forwarder its
executor, NvueSwitch and its abstract configuration.

## 4. Runs

| Run | Bounds | Shows |
|---|---|---|
| CommandWorkload_safety | 1 worker, 2 runs, 1 stop, get_result, shutdown | the safety properties below and the refinement of CommandRun |
| CommandWorkload_liveness | 1 worker, 2 runs, 1 stop | RUNNING is left; no run is lost |
| CommandWorkload_stop_terminates | 2 runs, 1 stop | finding: a stopped command runs on |
| CommandWorkload_killed_cleanup | 1 run, 1 stop | finding: a killed run is not cleaned up |
| CancellableCommand | 2 children, the event set or clear at the start and changed once | refinement of CommandRun, what may be left running, an answer always comes |
| PromptWorkload | 1 worker, 3 runs of 2 prompts, 2 stops | safety and liveness of prompts |
| KubectlPortForwarder | 2 hosts, 2 ports (symmetric), 2 kubectls, 3 connections, a user sudo lets in | the invariants of connection, tunnels and processes |
| KubectlPortForwarder_true | 1 connection, 2 kubectls, the same user | finding: True for somebody else's listener |
| Switches | NVUE: 2 ports, 2 VLANs, 2 addresses, 2 calls, 1 edit by others; CLI: 2 calls; LLDP: 2 cages, one broken out, EOS in both spellings | edits are whole, reads fresh, calls end; port IDs |
| Cluster | 2 replicas, 4 pods ever, 1 edit by others; 6 ticks and 3 crashes of a pod; 2 pods reported on; 3 forwards on 2 ports; timeouts of 1, 4 and 5 ticks at an interval of 2 | restarts, volumes, health, forwards, waits |
| Session | in Session.cfg, tables and dashboards in MCSession: two of most things, three where a third differs, as of panels (the third of one query), whose titles are "a" and "a (2)" | the properties of groups 6 and 7 |
| AgentxInstall_package | 2 refs, 3 processes | finding: an installation without the scoring package |

Why the bounds are enough: the default pool has one worker, and every interference the code allows is between
one run and the next, a stop between them, and the reads of one `get_result`; two runs are the least that
interfere and three add a queue of two behind a running one (checked for prompts, where the state is smaller).
Two children are a child in the group and one that left it. Two kubectls are one left behind and one of the
call; three connections are one dropped, one to another host and one made anew. `MaxRuns`, `MaxStops`,
`MaxTicks`, `MaxClients` and `MaxProcs` bound the number of calls, not their interleaving. One change of the
event lies between two looks or between a look and the answer; more changes are left to the proofs, which are
for any number. So are root and a user whom sudo refuses: the run has the user between them, whose signals reach
some kubectls and not others. Two NVUE calls are one whose revision is applied late and one it meets; one edit
by others is a member that comes or goes between a read and the write made from it. Four pods are a pod replaced
and replaced again beside another. A clock of six ticks holds a restart within the grace period, one within the
window and one before it. The timeouts lie below the interval, at a multiple of it and between two. The chunks,
workers, requests, sections and chips are two because each property is about a pair of them. CHECK_DEADLOCK is
FALSE because a caller may stop calling.

Properties, in short:

- `ContainerReleased`: a run whose command answered has been cleaned up before it is over, and a
  cleanup that worked leaves no container of that run.
- `RemovalSparesRunning`: the name being shared, no removal takes the container of a running
  command that nobody has asked to stop. It needs the single worker.
- `CancelImpliesStopped`, `CancelledNotFailure`: a stop ends only runs that were in the pool, and
  its run is not reported as a failure but for two causes: an exception out of the last `communicate()`, which is
  that of `KilledRunCleanedUp`, or a new start that came first.
- `ResultsAreLatest`: when all is quiet, COMPLETED or ERROR, result and end time are of the latest
  run. This holds while the pool accepts runs: a shutdown can stamp the end of a run it cancels after
  a later run has ended (three runs show it), which is why the property says so. And the unlocked
  reads of `get_result` after `wait_for_completion` give one run's data, if the run succeeded and
  nobody called `stop()`. A failed CommandWorkload run is excluded because the callback writes ERROR
  before the text (lines 142-143).
- `RunningEnds`, `NoRunLost`: waiting ends; every submitted run gets its callback.
- `NothingLeftBehind`, `CallsAnswer`: what `run_cancellable_command` leaves running that its caller is told is
  over is a process the caller may not signal, or the command of an input that does not encode; and deadline and
  event each suffice for an answer.
- `StopsAreOwn`: a prompt run falls short only of a failed prompt or of a stop() of its own.
- `TunnelsShareConnection`, `NoForgottenKubectl`: the remembered host is never
  that of another connection; no tunnel works over a connection the executor has let go; a live
  kubectl is still on the list to be killed, or its pid never came, or its kill never got through, or it
  outlived the kill, which only one started under sudo can, or one killed with a sudo that refuses the user.
- `ImplementsSwitchConfig`: an NVUE switch's configuration changes by whole edits only.
- `AnswersTrue`, `CallsEnd`: a deleted VLAN has no members but those put back meanwhile, a read is of
  the time of the call, whatever is cached; a call comes back.
- `CliReadsBack`, `PortIdsTellApart`: a call that returned is what the matching read gives, also
  after one that failed half-way; neighbors on different interfaces get different port IDs, in order.
- `AnswersHold`, `VolumeByName`: a restart that succeeded left no pod of its snapshot; a patch hits the
  volume it names, and success means no pod in service is without it.
- `HealthAgrees`: a container judged by its last termination is judged as by all of them, three
  readings of readiness agree, and a report holds what a container wrote before the restart it shows.
- `ForwardsReachable`, `WaitsKeepTheirWord`: every live kubectl can be stopped and found between
  calls; a wait misses nothing that came in time and stayed, and ends within a look of its timeout.
- `VllmServes`: containers are accounted for whatever failed; a first start that returned saw its own
  containers answer; no decode worker is two requests ahead.
- `BenchmarksHold`: what says it is installed is whole; a failed or stopped run is not reported as a
  result without saying so.
- `TelemetryHolds`: instruments are of the provider that exports, stopped users export nothing, a
  power summary is of all samples, each with a reading or an error of its kind, but for the one reading under
  way when a `stop()` gave up on a command it could not kill.
- `DownloadsWhole`, `RequiredWins`: a download that ends is one version of its file; a variable is
  required just when some target has it so, in whatever order.
- `FailuresShown`: every failed phase and panel query is shown (of panels whose titles do not read like the
  label of another), items are under their test, no panel is missed.
- `FiguresHold`: what passes the fit check fits; advice is not taken back; names are unique, inverse
  figures agree, rates are of the basis they say.
- `SwitchTypeOK`, `ClusterTypeOK`, `SessionTypeOK`: the types of the parts.

Each property has a mutant in `PROJECT.json`: a change of the code's behaviour that TLC must report
under that property.

Fairness. `TimedSpec` asks weak fairness of each thread (Python schedules runnable threads), of
dropping cancelled work items, and of the clock passing a running command's deadline. The caller's
fairness covers finishing a call it has begun, never beginning one. PromptWorkload counts on each request
being answered or timing out (`VllmConfig.timeout`). CancellableCommand asks fairness only of the
function's own thread: its processes may hang for ever, and `CallsAnswer` assumes the deadline or
the event explicitly. NvueSwitch asks it of the calling thread and of the clock that reaches the apply
deadline, not of the switch, which may leave a revision undecided; each request ends because the session
has a timeout. The other modules state safety only.

## 5. Findings

- `StopTerminates` (command_workload.py:78): `start()` soon after `stop()` clears the event before
  the worker has looked at it; the stopped command goes on.
- `KilledRunCleanedUp` (helper.py:128): an exception out of the `communicate()` that follows SIGKILL
  leaves `run_cancellable_command`, and the container is not removed.
- `TrueMeansForwarded` (k8s.py:946): readiness is any listener on the port.
- `InstalledHasPackage` (agentx_workload.py:176): an install that ends between `git clone` and
  `sparse-checkout set` leaves a `.git` for which later installs skip both; they finish, and write the
  marker, with a checkout that lacks the scoring package.

The models contain other behaviour that a user of these classes should know and that no property
claims otherwise: a stopped workload can end COMPLETED when its run was ending as `stop()` was
called; `fut.result()` returns before the status is published; a prompt workload stopped at that
moment can end COMPLETED without a result; a command that exits while a child holds its pipes is
reported as timed out; a `start()` after shutdown raises and leaves RUNNING; a run terminated for `stop()` whose
last `communicate()` raises ends ERROR, with no later `start()`; a command under sudo may outlive the SIGKILL of
the caller that is told it was cancelled, and one given input that does not encode runs on behind its error.

So does the rest of the project:

- `delete_vlan` raises when the answer to one of its DELETEs was lost, as the repetition is answered 404.
- A revision that was not applied in time may be applied during a later call.
- A refused command leaves an EOS or NX-OS port or SVI half edited.
- `restart_pods` counts a pod made between its snapshot and its delete as a replacement, and its final
  read may fail and answer `{}` with success.
- `all_pods_ready` and `all_nodes_ready` are true of an empty namespace or cluster.
- `pod_report` goes on without any pod, and does not say so, when its JSON listing fails; a container that
  first crashes while the report is made loses the log of that crash.
- `KubectlPortForwarder.stop_all` with `use_sudo`, the default, kills sudo and may leave the kubectl behind it,
  and `|| true` hides a kill that was refused; it clears its list all the same, where its docstring (k8s.py:965)
  says "Stop all kubectl port-forward processes and SSH tunnels." `NoForgottenKubectl` says just which are left.
- A local forward that timed out answers True; dead entries stay in front of live ones of their service.
- `wait_for` with a timeout below its interval never probes.
- `VllmDeployment.stop` ignores whether a container was removed.
- Panels called "A", "A" and "A (2)" share a label, so that one of them overwrites the other's answer and a
  failure may lose its entry, where the comment at grafana.py:696-698 says that "repeats are numbered rather
  than overwritten". TLC finds the collision in the run Session when `Unambiguous` is dropped.
- A power summary may count a sample without a server reading or an error for it, when the reading is by a `sudo`
  command that outlasts the join of `stop()`.
- `BackgroundHTTPServer.stop` before `start` never returns.
- `load_all_panels` stops after 40 steps without saying that a dashboard is longer.
- A load user whose meter could not be made raises out of `on_start`, and its provider goes on exporting.

## 6. Proofs

`CommandWorkload_proofs.tla` proves for any non-empty set of workers and any bounds:

- `TypeCorrect`: `Spec => []TypeOK`;
- `ContainerReleasedAlways`, `CancelImpliesStoppedAlways`, `CancelledNotFailureAlways`;
- `RemovalSparesRunningAlways`: the action property, assuming one worker.

Assumptions are those of the modules: `PoolAssumption` and `CallsAssumption`, which TLC evaluates.
The argument is one inductive invariant, `IInv`: types; the queue, the futures and the workers'
jobs agree (a run is in one place); phases agree with outcomes, ends and cleanups; a live run under
a set event is in `stopped`. None of the properties is inductive by itself: that a cancelled end
implies a stop needs that the event, when set, was set with this run in the pool, which needs that
runs enter the pool only through `StartSubmit`, after the event was cleared. The steps are grouped
by what they can touch (the caller alone, pool calls, inside a run, the rest), one lemma per part of
`IInv` and group, so that each leaf cites a few facts.

`RunsAreCommandRunsAlways` is the same module's refinement: each run, by itself, takes steps of CommandRun.
It needs of `IInv` that a run is with one worker, so that no step of another changes its phase, and that a
command is terminated only with its end set to cancelled or timed out.

`CancellableCommand_proofs.tla`, assuming `ProcessAssumption` (the leader is not one of its children):

- `TypeCorrect`, and `NothingLeftBehindAlways`;
- `RefinesCommandRun`: `Spec => ImplementsCommandRun`.

Its `IInv` adds that the input is pending only before the first communicate() has begun, from which a
ValueError of a later one cannot come (this is what makes an error mean a dead command, or an input that does
not encode), that after SIGKILL what is left of the group is foreign, and that a terminated command was answered
for with its pipes closed or so left. A process that forks after it became foreign has foreign children.
The refinement maps initial states and each step; the steps of the processes are stutters.

`PromptWorkload_proofs.tla`, assuming `PoolAssumption` and `PromptAssumption`, for any number of workers:

- `TypeCorrect`, and `StopsAreOwnAlways`.

A run that falls short saw the event set. `IInv` therefore says that while the event is set every run in the
pool is a stopped one; a run enters the pool only by `StartSubmit`, whose caller has cleared the event and
is the only one who could set it again; a run is with one worker, and one that has not begun is unknown.

`KubectlPortForwarder_proofs.tla`, assuming `SshAssumption` and `ForwarderAssumption`:

- `TypeCorrect`, `TunnelsShareConnectionAlways`, `NoForgottenKubectlAlways`.

What any step does to the executor is one lemma (`SshCases`): it connects, fails to, closes, drops or
stands still. The invariant of the connection is proved over these cases, that of the processes over the
steps that start, end or forget one, for each of the three users; a kubectl is started under sudo or not once
and for all, so what is said of one that was spared stays true.

`KubeClient_proofs.tla`, assuming `KubeAssumption` (which volumes and replica counts there may be):

- `TypeCorrect`, `AnswersHoldAlways`, and the action property `VolumeByNameAlways`.

`AnswersHold` must survive whatever the controllers do after the answer. One lemma (`ClusterKeeps`) says of
all their steps that a pod there is afterwards was there before, with its generation, or has a new uid and
the current generation. `IInv` adds that a snapshot which a call goes on with is not empty, so that a
failed read, which looks like no pods, cannot pass for their replacement; and that no pod of the snapshot
is left when the call reads for its answer.

`MCSwitches_proofs.tla`, assuming `NvueAssumption` and `SwitchAssumption`:

- `ImplementsSwitchConfigAlways`: `MCSpec => ImplementsSwitchConfig`, the refinement. What a revision holds
  is what its edit can record there (`Recordable`: a delete of something absent is answered 404 and records
  nothing) without what is left in `todo`. So a submitted one holds all of it, and what the switch then makes
  of *any* configuration is the edit (`PerformedIsEdited`). The pending edits of SwitchConfig are the submitted
  revisions; every other step changes neither them nor the configuration.
- `AnswersTrueAlways`: a deletion that goes on knows, of every port, that the VLAN is in its changeset, was
  removed, or was put there by others since (`Deleted`), through any age of the caches; a read has, of each
  piece, the configuration of its time that it is from.
- `CliReadsBackAlways`: at each place of a call, which commands are still to run (`CliProgress`) and what
  those that ran have made of the port or SVI (`CliDone`), whatever an earlier call that failed left.
- `PortIdsTellApartAlways`: the order of names is a strict total order among data ports, as the rank of a prefix
  tells it from the others (`RankTellsPrefix`); a port ID is
  the number of names up to one, and initial segments of a total order grow strictly.
- `SwitchTypeOKAlways`.

`SwitchAssumption` says that a switch lists its interfaces by full names: `_full_name` of the NX-OS driver
expands abbreviations of the neighbor table only.

`MCCluster_proofs.tla`, assuming `ClusterAssumption` and `KubeAssumption`:

- `ForwardsReachableAlways`, if 0 is nobody's port. `ForwardIInv` speaks of `Held`, the entries of the list and
  the one a start is about to add: of one process each, for every live process, at most one of a port bound.
  Most steps only end processes and drop entries of ended ones.
- `WaitsKeepTheirWordAlways`: a loop that goes on has a last probe that did not see the condition, so that
  the condition, if it holds, came after that probe began (`NotBefore`). For each kind of loop `WaitLoop` says
  when that was: by the clock for `poll_until` and those with a deadline; for those that count attempts, one
  sleep apart at least and a sleep and a probe at most.
- `HealthAgreesAlways`: the last end of a container is its latest; the report's cursor says which logs have
  been asked for, and a previous log is only asked for after the current one, when the count can only have grown.
- `ClusterTypeOKAlways`.

`MCSession_proofs.tla`, assuming `SessionAssumption`, `FiguresAssumption`, `PageAssumption` and
`PoolsAssumption`; one invariant per part:

- `VllmServesAlways`: every container is in the list, further down than a removal has come or known to be left;
  those before the one a first start is at have answered; workers have blocks of GPUs that do not overlap; the
  first `decodes % DecodeWorkers` decode workers are one completion ahead.
- `DownloadsWholeAlways`: what a request has sent is a prefix of the version it looked up.
- `BenchmarksHoldAlways`: the marker is away from an install's first step to its last, and each step leaves
  what those before it made; what is parsed is a command's that succeeded or was rescued.
- `TelemetryHoldsAlways`: between a cleanup and the next initialize there is neither provider nor instrument;
  the users' counter is ahead of every name it gave; by its event a sampler has one sample at most to finish,
  and the join outlasts both readings of one if both can be killed; a summary given before that stays short of one
  reading at most, whatever the thread does after it (`Settled`).
- `RequiredWinsAlways`: a directory's entries are looked up once, so what a target adds is what applies of them.
- `FailuresShownAlways`, from three invariants. `ReportIInv` cuts the outcomes into one stretch for each run of
  a test, of which only the last still grows, and says what each phase that ended has put into it; the section
  that items go to is that of the test that is running. `PanelIInv` says that a title has as many labels, labels
  in error and labels with rows as it had such answers, while no title met reads like a label of another: labels
  of a title are numbered, so that none is given twice. `PageIInv` holds, for each entry flattened so far, the
  panel made of it under the last row above it, and that every panel above the view has mounted: a step is no
  longer than the view, so nothing between two views is passed over.
- `FiguresHoldAlways`: a sum over some files and one over the others make the sum over all, so that what is
  cached and what is missing make the download whatever part of it came; a user who has followed the advice has
  a profile to which none of it applies again (`FitIInv`). The chips' names stay apart as chips are added
  (`PricesIInv`), and the inputs resolved are of the basis and the power they name, out of the table of then.
- `SessionTypeOKAlways`. Where the types of a part are not among what its property needs, a second invariant
  says them (`ProxyTypes`, `StreamTypes`, `ProviderTypes`, `EnvironmentTypes`, `SamplesTaken`, `ListsNamed`);
  `UsersCounted` bounds the users' counter by the users that have begun.

`FiguresAssumption` says what files and answers the figures are made of: names of tests that are not the mark
for none, watts and costs that are no negative numbers, a fetched power that is the estimate where none was
found, as `fetch_inferencex_gpus` has it; and panel titles that are sequences. `PageAssumption` is Grafana's:
what follows a collapsed row is a row, its own panels being within it; and a scroll of 700 pixels is within the
view of 2400.

`CommandWorkload_proofs.tla` and `PromptWorkload_proofs.tla` also prove `ResultsAreLatestAlways`, assuming one
worker, as in `Workload` (`max_workers=1`, workload.py:35 and command_workload.py:34); with two workers it is false,
as TLC shows at once. One worker takes runs in the order of the queue and carries a run's callbacks to their
end before the next, so that no callback of an earlier run is still to be executed once a later one has ended,
but for those executed by the caller, in `stop()` or `shutdown()`, of runs that never began.

The assumptions named are those of the modules, and TLC evaluates them on the runs.

Model-checked only: liveness (`RunningEnds`, `NoRunLost`, `CallsAnswer`, `CallsEnd`), as the prover handles
neither fairness nor ENABLED, and the four runs that are expected to fail. Every safety property of the other
runs is a theorem. Three definitions are written so that it can be: what a proof by induction would be needed
for elsewhere is a step of the model (`Flatten`), a number of elements (`Sum`) or told by positions
(`OutcomesShown`).

## 7. Not modelled

Wording, logging and layout; the text of results and errors; command lines; the exact times. More
than one caller thread (nothing in the code supports it: `start()` is not atomic). `wait=True` of
`shutdown_executor`. `wait_ready=False` and an explicit `remote_kubectl_port` of the forwarder, the data
its accept threads carry, and a socket's lingering for the second it takes a thread to leave
`accept()`. And:

- `compose.py`: each method is one docker compose command, and the state is docker's; the port ranges of
  `docker ps` are docker's format.
- The rendering of reports, charts and the AgentX tables: layout.
- Reads of a switch, a cluster, Grafana or Loki that are one request and reshape its answer; login pages.
- `host.py`, `config.py` and the switch status command: field access and formatting.
- `ansible/`, `manifests/`, `scripts/`, `profiler/`: configuration and operator scripts.
- Dashboards of schema v2 in DashboardPage: their panels are a flat list, without the rows it is about.
