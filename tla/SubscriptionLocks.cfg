SPECIFICATION FairSpec
CONSTANTS
    Ids = {x}
    Conns = {c1, c2}
    NoConn = NoConn
    NoEvent = NoEvent
    MaxClients = 1
    ChannelSize = 1
    WireSize = 1
INVARIANTS
    ClientLimit
PROPERTIES
    LockObtained
    DepartedForgotten
