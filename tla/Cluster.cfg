SPECIFICATION MCSpec
CONSTANTS
    Volumes = {"wanted", "b"}
    InitVolumes <- MCVolumes
    Replicas = {1, 2}
    MaxUid = 4
    MaxEdits = 1
    HealthContainers = {"a", "b"}
    Grace = 1
    Window = 3
    Ceiling = 2
    MaxTime = 6
    MaxRestarts = 3
    Services = {"a", "b"}
    LocalPorts = {1, 2}
    MaxForwards = 3
    Items = {"a", "b"}
    Timeouts = {1, 4, 5}
    Interval = 2
    MaxProbe = 1
    MaxChanges = 2
    ReportPods = {"p", "q"}
    ReportContainers <- MCContainers
    MaxCrashes = 2
INVARIANTS ClusterTypeOK AnswersHold HealthAgrees ForwardsReachable WaitsKeepTheirWord
PROPERTIES VolumeByName
CHECK_DEADLOCK FALSE
