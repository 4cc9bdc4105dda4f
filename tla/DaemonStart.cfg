SPECIFICATION FairSpec
CONSTANTS
    Pids = {p1, p2}
    NoPid = NoPid
    MaxRuns = 4
    MaxSignals = 1
    MaxCrashes = 1
CHECK_DEADLOCK FALSE
INVARIANTS
    TypeOK
    OneDaemonInTurn
    NamedIsReachable
PROPERTIES
    TuiServed
