CONSTANTS
    BacklogCapacity = 1
    DueCapacity = 1
    HandlerFrames = 4
    ChainLimit = 1
    ReturnModes = {TRUE, FALSE}
    CounterModulus = 1
    MaxDue = 1
    MaxNesting = 5
    MaxStreak = 0
SPECIFICATION Spec
INVARIANTS
    TrackedHandlersStand
    UnacknowledgedOnTop
PROPERTIES
    NestingBounded
