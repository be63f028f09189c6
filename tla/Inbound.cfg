CONSTANTS
    MaxPackets = 4
    MaxSessions = 2
    MaxDynamic = 1
SPECIFICATION FairSpec
INVARIANTS
    InStep
    KeyAgrees
PROPERTIES
    DeliversInOrder
    Drains
CHECK_DEADLOCK FALSE
