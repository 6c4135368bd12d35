\* The limit of the file leaves room for a record longer than MaxRecordBytes.
SPECIFICATION Spec
CONSTANTS
    MaxRecords = 3
    BodyLen <- MCBodyLen
    MaxRecordBytes = 1
    MemCapacity = 1
    WalLimit = 9
    IoErrors = FALSE
    DirSyncErrors = FALSE
INVARIANT Reopenable
