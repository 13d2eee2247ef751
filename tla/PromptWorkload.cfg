SPECIFICATION Spec
CONSTANTS
    Workers = {w1}
    Caller = c
    Count = 2
    MaxRuns = 3
    MaxStops = 2
INVARIANTS TypeOK StopsAreOwn ResultsAreLatest
PROPERTY RunningEnds
CHECK_DEADLOCK FALSE
