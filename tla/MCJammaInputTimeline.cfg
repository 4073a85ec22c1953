CONSTANTS
    InputClockHz = 3
    NanosPerSecond = 4
    Divisors = {1, 2}
    DefaultDivisor = 1
    MaxGeneration = 2
    MaxNow = 4
    Keys = {k1}
    HistoryCapacity = 2
    DueCapacity = 2
    StaleBegins = 1
    PadCapacity = 2
    Models = {"cache", "direct"}
    MaxEdges = 3
    MaxLate = 1
    MaxBegins = 3
    MaxStack = 3
SPECIFICATION Spec
INVARIANTS
    ReplayExact
    TicksOnTime
    ReadsOwnTick
    PadReturnsHome
