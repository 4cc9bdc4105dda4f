SPECIFICATION FairSpec
CONSTANTS
    p1 = p1
    p2 = p2
    r1 = r1
    r2 = r2
    r3 = r3
    Pids = {p1, p2, p3}
    SynthPids = {}
    RealIds = {r1, r2, r3}
    Agents = {}
    Speaks <- OwnIds
    NoPid = NoPid
    NoId = NoId
    NoAgent = NoAgent
    NoSession = NoSession
    MaxSessions = 2
    MaxDepth = 3
    MaxStart = 2
    LateMessages = TRUE
    Rediscovery = FALSE
INVARIANTS
    IndexComplete
    SubscriberAgrees
PROPERTIES
    DeadEntriesReaped
