------------------------------ MODULE MCSession ------------------------------
(***************************************************************************)
(* What a test session does besides, for TLC: it serves a model with vLLM, *)
(* installs and runs benchmarks, exports and samples metrics, serves       *)
(* downloads, checks its environment, reports, queries Grafana and prices  *)
(* GPUs.  A behaviour drives one of them; they share no state, so their    *)
(* state spaces are added and not multiplied.                              *)
(***************************************************************************)
EXTENDS VllmDeployment

CONSTANTS
    ProxyRequests, PrefillWorkers, DecodeWorkers,           \* DisaggProxy
    Downloads, FileNames, Chunks, MaxVersions,              \* HttpServer
    Refs, MaxProcesses,                                     \* AgentxInstall
    MaxBenchmarkRuns,                                       \* BenchmarkRuns
    MetricNames, MaxProviders,                              \* Otelp
    Directories, Parents, VariableNames, Fixtures, Files, Computed, MaxDeclares,    \* EnvironmentCheck
    GpuTimeout, ServerTimeout, JoinTimeout, MaxSamples,     \* PowerSampler
    Users, MaxRecords,                                      \* LoadUsers
    Tests, HeaderTitles, MaxTestRuns, MaxItems,             \* Reporter
    PanelTitles, RefIds, Panels,                            \* PanelQueries
    Tables, Fetches, PriceRequests, Throughputs, MaxUpdates,    \* Economics
    Models, Hosts, Profiles, MaxRounds,                     \* ModelFit
    Dashboards, PanelHeight, Viewport, ScrollStep, MaxSteps \* DashboardPage

Maybe(S) == S \union {-1}    \* -1 stands for None

\* A proxy has workers of both kinds (disagg_proxy.py:90-91).  Refs are no marks of the model.  The join of a
\* sampler's thread outlasts the timeouts of both its readings: 60 s, 15 s and 30 s (agentx/power.py:157, 57, 76).
ASSUME SessionAssumption ==
    /\ Chunks \in Nat /\ PrefillWorkers \in Nat \ {0} /\ DecodeWorkers \in Nat \ {0}
    /\ {"none", "torn"} \intersect Refs = {}
    /\ {GpuTimeout, ServerTimeout, JoinTimeout} \subseteq Nat /\ GpuTimeout + ServerTimeout < JoinTimeout
    /\ MaxSamples \in Nat /\ MaxRecords \in Nat /\ IsFiniteSet(Users)
    /\ Parents \in [Directories -> SUBSET Directories]
    /\ LET entry == [name : VariableNames, required : BOOLEAN, usedBy : SUBSET Fixtures]
       IN  Files \subseteq [Directories -> SUBSET entry] /\ Computed \subseteq entry

\* Tests have names, and panels titles with numbers.  A chip's TDP and rates are no negative numbers, and where a fetch finds no power
\* it is estimated (agentx/gpu_economics.py:254).  A model has its files' sizes, its heads and layers.
ASSUME FiguresAssumption ==
    /\ "none" \notin Tests /\ PanelTitles \subseteq Seq(Nat) /\ Panels \in Nat /\ IsFiniteSet(RefIds)
    /\ \A t \in Tables : \A k \in DOMAIN t :
          t[k] \in [aliases : SUBSET STRING, tdp : Nat, watts : Maybe(Nat), owning : Maybe(Nat), rental : Maybe(Nat)]
    /\ \A f \in Fetches : \A k \in DOMAIN f :
          /\ f[k] \in [label : STRING, tdp : Nat, watts : Nat, estimated : BOOLEAN,
                       owning : Maybe(Nat), rental : Maybe(Nat)]
          /\ f[k].estimated => f[k].watts = (f[k].tdp + 3) * 2
    /\ \A r \in PriceRequests :
          /\ "basis" \in DOMAIN r.overrides => r.overrides.basis \in {"owning", "rental"}
          /\ \A key \in DOMAIN r.overrides \ {"basis"} : r.overrides[key] \in Nat
    /\ Throughputs \subseteq Maybe(Nat)
    /\ MaxRounds \in Nat \ {0} /\ {} \notin {Models, Hosts, Profiles}
    /\ \A m \in Models :
          /\ m.kvHeads \in Nat /\ m.layers \in Nat /\ m.native \in Maybe(Nat)
          /\ IsFiniteSet(DOMAIN m.files) /\ \A f \in DOMAIN m.files : m.files[f].size \in Nat
    /\ Hosts \subseteq [free : Maybe(Nat), workers : SUBSET [tensorParallel : Nat \ {0}, memory : Nat]]
    /\ Profiles \subseteq
          [maxModelLen : Maybe(Nat \ {0}), overrides : SUBSET {"rope_parameters", "rope_scaling"}, minContext : Nat]

\* A collapsed row has its panels within, so that what follows it is another row; an open one has none
\* (grafana.py:378).  A scroll is shorter than the view, 700 pixels in 2400 (SCROLL_STEP_PX and
\* DASHBOARD_VIEWPORT), and a panel is taller than the pixel by which a page may miss its end (grafana.py:996).
ASSUME PageAssumption ==
    /\ {PanelHeight, Viewport, ScrollStep, MaxSteps} \subseteq Nat
    /\ PanelHeight > 1 /\ ScrollStep <= Viewport
    /\ \A d \in Dashboards :
          /\ Len(d) \in Nat /\ DOMAIN d = 1..Len(d)
          /\ \A i \in DOMAIN d : d[i].type \in {"panel", "row"} /\ d[i].collapsed \in BOOLEAN
          /\ \A i \in DOMAIN d : d[i].type = "row" /\ ~d[i].collapsed => d[i].panels = {}
          /\ \A i \in DOMAIN d : d[i].type = "row" /\ d[i].collapsed /\ i < Len(d) => d[i + 1].type = "row"

VARIABLES
    driven,             \* which of them the behaviour drives
    proxyPc, worker, prefills, decodes, proxySent,
    files, versions, route, name, data, written, ended, serverStopping, httpServer, httpCaller,
    wanted, processes, marker, harness, inferencex, venv, installPc, installAnswer,
    kind, runPc, run, export, scores, plots, stream, success, cancelled, stopped, commandResult, runOutcome,
    connected, provider, meter, instruments, live, made, given, clean, fresh,
    fromFile, declared, scoped, selected, environment, declares, targets,
    writesFile, outcomes, sections, headerTables, report, test, phase, opened, phases,
    serverPower, killable, samplerStopping, thread, samplerCaller, busy, joined, samples, gpu, wall, powerErrors,
    summary, outlasted,
    panels, panelAt, raised, seen, panelErrors, rows, answers,
    table, todo, updates, request, inputs,
    model, host, profile, cached, reached, fitPc, fitAnswer, rounds, advised,
    entries, entryAt, pageRow, pageCollapsed, pagePanels, pagePc, pageTop, steps, mounted,
    userPc, userId, userCounter, hasOtelp, exporting, ready, sentBy, lost

proxyVars == <<proxyPc, worker, prefills, decodes, proxySent>>
httpVars == <<files, versions, route, name, data, written, ended, serverStopping, httpServer, httpCaller>>
installVars == <<wanted, processes, marker, harness, inferencex, venv, installPc, installAnswer>>
runVars == <<kind, runPc, run, export, scores, plots, stream, success, cancelled, stopped, commandResult, runOutcome>>
otelpVars == <<connected, provider, meter, instruments, live, made, given, clean, fresh>>
environmentVars == <<fromFile, declared, scoped, selected, environment, declares, targets>>
reportVars == <<writesFile, outcomes, sections, headerTables, report, test, phase, opened, phases>>
powerVars ==
    <<serverPower, killable, samplerStopping, thread, samplerCaller, busy, joined, samples, gpu, wall, powerErrors,
      summary, outlasted>>
panelVars == <<panels, panelAt, raised, seen, panelErrors, rows, answers>>
economicsVars == <<table, todo, updates, request, inputs>>
fitVars == <<model, host, profile, cached, reached, fitPc, fitAnswer, rounds, advised>>
pageVars == <<entries, entryAt, pageRow, pageCollapsed, pagePanels, pagePc, pageTop, steps, mounted>>
userVars == <<userPc, userId, userCounter, hasOtelp, exporting, ready, sentBy, lost>>

-----------------------------------------------------------------------------
(* Their instances.  Bounds that are not parameters above are stated here. *)

\* One worker of either pool, the decode worker on two GPUs.
MCPools ==
    {[prefill |-> [workers |-> 1, tensorParallel |-> 1], decode |-> [workers |-> 1, tensorParallel |-> 2]]}
MCBasePorts == [prefill |-> 8100, decode |-> 8200]

\* Twice as many requests as workers of a pool.
Proxy == INSTANCE DisaggProxy WITH
    Requests <- ProxyRequests, pc <- proxyPc, sent <- proxySent

\* A file is changed, or removed and added, under two downloads.
Http == INSTANCE HttpServer WITH
    Requests <- Downloads, Names <- FileNames,
    sent <- written, outcome <- ended, stopping <- serverStopping, server <- httpServer, caller <- httpCaller

\* Pins change between processes and change back.
Agentx == INSTANCE AgentxInstall WITH pc <- installPc, answer <- installAnswer

\* A second run of the workload finds what the first left.
Benchmarks == INSTANCE BenchmarkRuns WITH
    MaxRuns <- MaxBenchmarkRuns, pc <- runPc, file <- export, outcome <- runOutcome

\* A provider is replaced once.
Telemetry == INSTANCE Otelp WITH Names <- MetricNames

\* A variable is declared above and below, for all and for one name, optional and required.
Entry(n, required, usedBy) == [name |-> n, required |-> required, usedBy |-> usedBy]
MCParents == [root |-> {}, sub |-> {"root"}]
MCFiles ==
    {[root |-> {Entry("x", FALSE, {})}, sub |-> {Entry("x", TRUE, {"f"}), Entry("y", FALSE, {"g"})}],
     [root |-> {Entry("x", TRUE, {"f"})}, sub |-> {Entry("x", FALSE, {}), Entry("y", FALSE, {})}]}
MCComputed == {Entry("y", TRUE, {}), Entry("y", TRUE, {"g"}), Entry("x", TRUE, {"g"})}
Env == INSTANCE EnvironmentCheck

\* Two tests, or one and its rerun.
Report == INSTANCE Reporter WITH
    Titles <- HeaderTitles, MaxRuns <- MaxTestRuns, file <- report

\* Ticks of 15 seconds: nvidia-smi has one, ipmitool two if it can be killed, the join four.
Power == INSTANCE PowerSampler WITH
    server <- serverPower, stopping <- samplerStopping, caller <- samplerCaller, errors <- powerErrors

\* Panels share titles and refIds, and one's title may be the label of another's second panel.
MCPanelTitles == {<<1>>, <<1, 2>>}
Panel == INSTANCE PanelQueries WITH
    Titles <- PanelTitles, Refs <- RefIds, at <- panelAt, errors <- panelErrors

\* A chip has an alias, or two have one; no measured power; no rate, or none of one basis.
MCTables ==
    LET entry(aliases, tdp, watts, owning, rental) ==
            [aliases |-> aliases, tdp |-> tdp, watts |-> watts, owning |-> owning, rental |-> rental]
    IN  {[h |-> entry({"hx"}, 7, -1, 2, 3), b |-> entry(aliases, 9, 30, -1, 4)] : aliases \in {{}, {"hx"}}}
\* A fetch brings a chip of the table by its name or alias, or a new one; labels may name another chip.
MCFetches ==
    LET chip(label, tdp, watts, estimated, owning) ==
            [label |-> label, tdp |-> tdp, watts |-> watts, estimated |-> estimated, owning |-> owning, rental |-> -1]
    IN  {[k \in {a, b} |-> IF k = a THEN chip(la, 8, (8 + 3) * 2, TRUE, 5) ELSE chip(lb, 6, 20, FALSE, -1)] :
             a \in {"h", "hx", "new"}, b \in {"b", "hx", "newer"}, la \in {"h", "newer", "x"}, lb \in {"b", "new", "x"}}
MCRequests ==
    {[gpu |-> g, price |-> -1, overrides |-> o] :
        g \in {"h", "b", "x", "unknown"},
        o \in {<< >>, [basis |-> "rental"], [all_in |-> 5], [server |-> 40], [server |-> 40, gpus |-> 4],
               [host |-> 1], [pue |-> 1, cost |-> 2], [basis |-> "owning", all_in |-> 0], [cost |-> 0],
              [server |-> 40, gpus |-> 0]}}
MCThroughputs == {-1, 0, 2}
Prices == INSTANCE Economics WITH Requests <- PriceRequests

\* Weights in one format or two, three KV heads on one, two or four GPUs.
MCModels ==
    LET file(k, top, size) == [kind |-> k, top |-> top, size |-> size]
        old == [config |-> file("other", TRUE, 1), c |-> file("bin", TRUE, 6)]
        both == [config |-> file("other", TRUE, 1), c |-> file("bin", TRUE, 6),
                 a |-> file("safetensors", TRUE, 4), b |-> file("safetensors", FALSE, 4)]
    IN  {[files |-> f, kvHeads |-> 3, native |-> n, layers |-> 1] : f \in {old, both}, n \in {-1, 2, 4}}
MCHosts ==
    {[free |-> free, workers |-> {[tensorParallel |-> tp, memory |-> m] : tp \in tps}] :
        free \in {-1, 9}, tps \in {{1}, {2, 4}}, m \in {9, 16}}
MCProfiles ==
    {[maxModelLen |-> m, overrides |-> o, minContext |-> c] :
        m \in {-1, 2, 3}, o \in {{}, {"rope_scaling"}, {"rope_parameters", "rope_scaling"}}, c \in {1, 3}}
Fit == INSTANCE ModelFit WITH pc <- fitPc, answer <- fitAnswer

\* Two sections, each an open row, a collapsed one or an empty one; pages up to two panels beyond reach.
MCDashboards ==
    LET panel(t) == [type |-> "panel", title |-> t, collapsed |-> FALSE, panels |-> {}]
        row(t, collapsed, ps) == [type |-> "row", title |-> t, collapsed |-> collapsed, panels |-> ps]
        section(n, a, b) ==
            {<<row(n, FALSE, {}), panel(a), panel(b)>>, <<row(n, TRUE, {a, b})>>, <<row(n, FALSE, {})>>}
    IN  {head \o r \o s : head \in {<<>>, <<panel("p")>>, <<panel("p"), panel("q"), panel("r")>>},
                          r \in section("x", "a", "b"), s \in section("y", "c", "d")}
Page == INSTANCE DashboardPage WITH
    row <- pageRow, collapsed <- pageCollapsed, panels <- pagePanels, top <- pageTop

\* Three users, each with one measurement.
Load == INSTANCE LoadUsers WITH
    export <- exporting, sent <- sentBy

-----------------------------------------------------------------------------
\* What is not driven starts in one state.  The last panel has one query.
MCInit ==
    /\ driven \in {"vllm", "proxy", "http", "install", "run", "otelp", "environment", "report", "power",
                   "panels", "economics", "fit", "page", "load"}
    /\ Init /\ (driven # "vllm" => ~managed /\ ~Disaggregated)
    /\ Proxy!Init /\ Http!Init
    /\ Agentx!Init /\ (driven # "install" => wanted = CHOOSE r \in Refs : TRUE)
    /\ Benchmarks!Init /\ (driven # "run" => kind = "nccl")
    /\ Telemetry!Init
    /\ Env!Init /\ (driven # "environment" => fromFile = CHOOSE f \in Files : TRUE)
    /\ Report!Init /\ (driven # "report" => writesFile)
    /\ Power!Init /\ (driven # "power" => serverPower /\ killable)
    /\ driven # "panels" => panels = CHOOSE p \in [1..Panels -> Panel!Panel] : TRUE
    /\ Panel!Init
    /\ driven = "panels" => \E r \in RefIds : panels[Panels].targets = [q \in {r} |-> "shown"]
    /\ Prices!Init
    /\ IF driven = "fit" THEN Fit!Init
       ELSE /\ model = CHOOSE m \in Models : TRUE
            /\ host = CHOOSE h \in Hosts : TRUE
            /\ profile = CHOOSE p \in Profiles : TRUE
            /\ cached = << >> /\ reached = TRUE /\ Fit!Begun
    /\ Page!Init /\ (driven # "page" => entries = CHOOSE d \in Dashboards : TRUE)
    /\ Load!Init
MCNext ==
    /\ UNCHANGED driven
    /\ IF driven = "vllm" THEN Next ELSE UNCHANGED vars
    /\ IF driven = "proxy" THEN Proxy!Next ELSE UNCHANGED proxyVars
    /\ IF driven = "http" THEN Http!Next ELSE UNCHANGED httpVars
    /\ IF driven = "install" THEN Agentx!Next ELSE UNCHANGED installVars
    /\ IF driven = "run" THEN Benchmarks!Next ELSE UNCHANGED runVars
    /\ IF driven = "otelp" THEN Telemetry!Next ELSE UNCHANGED otelpVars
    /\ IF driven = "environment" THEN Env!Next ELSE UNCHANGED environmentVars
    /\ IF driven = "report" THEN Report!Next ELSE UNCHANGED reportVars
    /\ IF driven = "power" THEN Power!Next ELSE UNCHANGED powerVars
    /\ IF driven = "panels" THEN Panel!Next ELSE UNCHANGED panelVars
    /\ IF driven = "economics" THEN Prices!Next ELSE UNCHANGED economicsVars
    /\ IF driven = "fit" THEN Fit!Next ELSE UNCHANGED fitVars
    /\ IF driven = "page" THEN Page!Next ELSE UNCHANGED pageVars
    /\ IF driven = "load" THEN Load!Next ELSE UNCHANGED userVars
sessionVars ==
    <<driven, vars, proxyVars, httpVars, installVars, runVars, otelpVars, environmentVars, reportVars,
      powerVars, panelVars, economicsVars, fitVars, pageVars, userVars>>
MCSpec == MCInit /\ [][MCNext]_sessionVars

-----------------------------------------------------------------------------
\* The types of their states.
SessionTypeOK ==
    /\ TypeOK /\ Proxy!TypeOK /\ Http!TypeOK /\ Agentx!TypeOK /\ Benchmarks!TypeOK /\ Telemetry!TypeOK
    /\ Env!TypeOK /\ Report!TypeOK /\ Power!TypeOK /\ Panel!TypeOK /\ Prices!TypeOK /\ Fit!TypeOK
    /\ Page!TypeOK /\ Load!TypeOK
\* A deployment accounts for its containers whatever failed, and is up when they all answered; its
\* proxy takes the workers in turn.
VllmServes == ContainersAccounted /\ ServedByItsOwn /\ Proxy!WorkersTakenInTurn
\* What says it is installed is whole, and what a benchmark run reports is its own.
BenchmarksHold == Agentx!InstalledIsWhole /\ Benchmarks!ResultsAreOwn
\* Metrics go to the provider that exports, load users keep apart, and a power summary is of all that
\* was sampled but for a reading that could not be killed.
TelemetryHolds == Telemetry!InstrumentsLive /\ Load!UsersApart /\ Power!SummarySettled
\* A download that ends is one whole version of its file.
DownloadsWhole == Http!DownloadsWhole
\* A variable is required exactly when some target in use has it so.
RequiredWins == Env!RequiredWins
\* No failure of a test or a panel is hidden by a later success, and items are under their test.
\* No panel of a dashboard is missed but those of collapsed rows and those out of the scrolls' reach.
FailuresShown ==
    /\ Report!OutcomesShown /\ Report!ItemsUnderTheirTest
    /\ Panel!PanelFailuresShown /\ Page!PanelsSeen
\* What passes the fit check fits, and prices, power and rates agree with where they are from.
FiguresHold == Fit!ModelFits /\ Fit!AdviceHelps /\ Prices!EconomicsAgree /\ Prices!RatesAsSaid
=============================================================================
