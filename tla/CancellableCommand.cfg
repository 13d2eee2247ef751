SPECIFICATION Spec
CONSTANTS
    Leader = leader
    Children = {child1, child2}
    MaxTicks = 1
INVARIANTS TypeOK NothingLeftBehind
PROPERTIES ImplementsCommandRun CallsAnswer
CHECK_DEADLOCK FALSE
