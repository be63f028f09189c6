SPECIFICATION Spec
CONSTANTS
    MaxAttempts = 2
    MaxWrites = 0
    MaxTasks = 1
    Packets <- KnownPackets
PROPERTIES TimeoutSparesSession
