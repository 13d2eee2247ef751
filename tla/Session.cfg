SPECIFICATION MCSpec
CONSTANTS
    Pools <- MCPools
    BasePorts <- MCBasePorts
    MaxStarts = 2
    ProxyRequests = {1, 2, 3, 4}
    PrefillWorkers = 2
    DecodeWorkers = 2
    Downloads = {"r1", "r2"}
    FileNames = {"n"}
    Chunks = 2
    MaxVersions = 2
    Refs = {"ref1", "ref2"}
    MaxProcesses = 3
    MaxBenchmarkRuns = 2
    MetricNames = {"m", "n"}
    MaxProviders = 2
    Directories = {"root", "sub"}
    Parents <- MCParents
    VariableNames = {"x", "y"}
    Fixtures = {"f", "g"}
    Files <- MCFiles
    Computed <- MCComputed
    MaxDeclares = 1
    GpuTimeout = 1
    ServerTimeout = 2
    JoinTimeout = 4
    MaxSamples = 3
    Users = {"u1", "u2", "u3"}
    MaxRecords = 1
    Tests = {"t1", "t2"}
    HeaderTitles = {"h"}
    MaxTestRuns = 2
    MaxItems = 1
    PanelTitles <- MCPanelTitles
    RefIds = {"A", "B"}
    Panels = 3
    Tables <- MCTables
    Fetches <- MCFetches
    PriceRequests <- MCRequests
    Throughputs <- MCThroughputs
    MaxUpdates = 2
    Models <- MCModels
    Hosts <- MCHosts
    Profiles <- MCProfiles
    MaxRounds = 3
    Dashboards <- MCDashboards
    PanelHeight = 3
    Viewport = 7
    ScrollStep = 6
    MaxSteps = 2
INVARIANTS
    SessionTypeOK VllmServes BenchmarksHold TelemetryHolds DownloadsWhole RequiredWins FailuresShown FiguresHold
CHECK_DEADLOCK FALSE
