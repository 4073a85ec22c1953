CONSTANTS
    BacklogCapacity = 2
    DueCapacity = 2
    HandlerFrames = 3
    ChainLimit = 1
    ReturnModes = {TRUE}
    CounterModulus = 2
    MaxDue = 2
    MaxNesting = 2
    MaxStreak = 0
SPECIFICATION FairSpec
INVARIANTS
    TicksAccounted
    PendingIffOwed
PROPERTIES
    ClockNeverStops
