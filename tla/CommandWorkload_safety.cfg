CONSTANTS
    Workers = {w1}
    Caller = c
    MaxRuns = 2
    MaxStops = 1
    ReadsResult = TRUE
SPECIFICATION Spec
CHECK_DEADLOCK FALSE
INVARIANTS TypeOK ContainerReleased CancelImpliesStopped CancelledNotFailure ResultsAreLatest
PROPERTIES RemovalSparesRunning RunsAreCommandRuns
