\* Two players come and go around the sync packet; the retries reach their limit,
\* in one session or over several.
SPECIFICATION FairSpec
CONSTANTS
    Players = {p1, p2}
    Kinds = {"CONFIG_MANAGER"}
    kMaxRetryCount = 3
INVARIANTS
    PlayersReported
    OneSync
    SessionServed
PROPERTIES
    SyncEnds
    EditsRead
