CONSTANTS
    Workers = {w1}
    Caller = c
    MaxRuns = 2
    MaxStops = 1
    ReadsResult = TRUE
SPECIFICATION Spec
CHECK_DEADLOCK FALSE
PROPERTY StopTerminates
