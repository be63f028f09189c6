SPECIFICATION FairSpec
CONSTANTS
    MaxAttempts = 3
    MaxWrites = 1
    MaxTasks = 1
    Packets <- AllPackets
INVARIANTS RetryPending SessionScoped
PROPERTIES SessionsSound SingleReader ReadModeMatches KeepsListening Recovers
