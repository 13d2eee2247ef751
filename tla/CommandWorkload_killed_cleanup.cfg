SPECIFICATION Spec
CONSTANTS
    Workers = {w1}
    Caller = c
    MaxRuns = 1
    MaxStops = 1
    ReadsResult = FALSE
INVARIANT KilledRunCleanedUp
CHECK_DEADLOCK FALSE
