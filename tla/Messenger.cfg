SPECIFICATION FairSpec
CONSTANTS
    Accounts = {a, b}
    MaxLoads = 2
INVARIANTS MobileNeedsSession StatusSeen Subscribed
PROPERTIES LoginShown
