CONSTANTS
    Workers = {w1}
    Caller = c
    MaxRuns = 2
    MaxStops = 1
    ReadsResult = FALSE
SPECIFICATION TimedSpec
CHECK_DEADLOCK FALSE
PROPERTIES RunningEnds NoRunLost
