CONSTANTS
    OtherFiles = {}
    MaxVersion = 3
SPECIFICATION FairSpec
CHECK_DEADLOCK FALSE
INVARIANTS
    OldFilesKept
    WorkerJoined
PROPERTIES
    AllOrNothing
    UpdateSettles
