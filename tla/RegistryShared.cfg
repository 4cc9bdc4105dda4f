SPECIFICATION Spec
CONSTANTS
    p1 = p1
    p2 = p2
    r1 = r1
    r2 = r2
    r3 = r3
    Pids = {p1, p2}
    SynthPids = {s1}
    RealIds = {r1, r2}
    Agents = {}
    Speaks <- AnyIds
    NoPid = NoPid
    NoId = NoId
    NoAgent = NoAgent
    NoSession = NoSession
    MaxSessions = 1
    MaxDepth = 3
    MaxStart = 2
    LateMessages = TRUE
    Rediscovery = TRUE
INVARIANTS
    IndexSound
PROPERTIES
    DirectoryKept
