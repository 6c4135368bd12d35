SPECIFICATION Spec
CONSTANTS
    MaxRecords = 4
    BodyLen <- MCBodyLen
    MaxRecordBytes = 2
    MemCapacity = 1
    WalLimit = 9
    IoErrors = TRUE
    DirSyncErrors = TRUE
INVARIANTS TypeOK AckedSurvive Reopenable NoReplayAfterCheckpoint
