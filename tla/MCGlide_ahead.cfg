CONSTANTS
    Capacity = 2
    MaxOutstandingSwaps = 1
    AsyncModes = {TRUE}
    RecoveryAttempts = 1
    MaxCommands = 3
SPECIFICATION Spec
INVARIANT NeverMoreThanAFrameAhead
