SPECIFICATION Spec
CONSTANTS
    Parts = 2
    SoftErrors = FALSE
    MaxSent = 1
    MaxSessions = 2
    MaxKeys = 1
    SyncPackets <- First
    MaxQueue = 2
    MaxTasks = 3
    MaxUnprocessed = 1
INVARIANTS KeyWholeBeforeEncrypted
