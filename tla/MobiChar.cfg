SPECIFICATION FairSpec
CONSTANTS
    Auth = auth
    GameCores = {ch1, ch2}
    Pids = {p}
    MaxDescs = 4
INVARIANTS Supervised ToldTheEnd AuthFirst OneLoad
PROPERTIES StaleGoes LoadEnds
