SPECIFICATION ViewSpec
CONSTANTS
    Ids = {x, y}
    Conns = {c1}
    NoConn = NoConn
    NoEvent = NoEvent
    MaxClients = 1
    ChannelSize = 2
    WireSize = 1
SYMMETRY Interchangeable
INVARIANTS
    TypeOK
    CatchesUp
PROPERTIES
    OnlySubscribersWritten
