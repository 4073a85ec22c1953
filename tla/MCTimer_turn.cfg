CONSTANTS
    BacklogCapacity = 4
    DueCapacity = 4
    HandlerFrames = 4
    ChainLimit = 1
    ReturnModes = {TRUE}
    CounterModulus = 1
    MaxDue = 4
    MaxNesting = 2
    MaxStreak = 3
SPECIFICATION Spec
INVARIANT TurnAfterChain
