SPECIFICATION FairSpec
CONSTANTS
    c1 = c1
    c2 = c2
    Cores = {c1, c2}
    Shops = {"shop"}
    Members = {"member"}
    Guilds = {"guild"}
    Players = {"player"}
    Wars = {"war"}
    Home <- HomeIsSecond
    MaxNews = 2
    MaxSessions = 2
INVARIANTS NewsKnown
PROPERTIES NewsArrives RequestEnds
CHECK_DEADLOCK FALSE
