SPECIFICATION Spec
CONSTANTS
    Parts = 2
    SoftErrors = TRUE
    MaxSent = 3
    MaxSessions = 2
    MaxKeys = 1
    SyncPackets <- FirstTwo
    MaxQueue = 2
    MaxTasks = 2
    MaxUnprocessed = 2
INVARIANTS TypeOK AtMostOnce SentInOrder QueueServed KeyScheduledFirst
