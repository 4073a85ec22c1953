CONSTANTS
    Song <- MCSong
    Byte <- MCByte
    Logical = 9
    Physical = 10
    MaxBatch = 3
    HeaderBytes = 2
    FrameBytes = 3
    InitialFrames = 3
    DrainBytes = 4
    PcmTarget = 2
    NotifyEvery = 8
SPECIFICATION Mp3FairSpec
INVARIANTS
    Mp3TypeOK
    StreamUnbroken
    InflightExact
    InflightBounded
    GrantedPushFits
    ConsumeNeverFails
PROPERTIES
    SongKeepsMoving
    WorkerExits
    UsesFifo
