CONSTANTS
    Capacity = 2
    MaxOutstandingSwaps = 1
    AsyncModes = {TRUE, FALSE}
    RecoveryAttempts = 1
    MaxCommands = 4
SPECIFICATION FairSpec
INVARIANTS
    TypeOK
    PostedInOrder
    OutstandingSwapsBounded
    PendingSwapsCovered
    NoWakeUpLost
PROPERTIES
    RunsInSubmissionOrder
    GateReturns
    TeardownFinishes
