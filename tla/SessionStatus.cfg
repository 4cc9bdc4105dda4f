SPECIFICATION FairSpec
CONSTANTS
    Tools = {bash, ask}
    InteractiveTools = {ask}
    NoTool = NoTool
    NoSession = NoSession
    MaxHistory = 2
    MaxInFlight = 2
    MaxLines = 1
    Parallel = FALSE
INVARIANTS
    TypeOK
    ActivityRecorded
    QuietStatus
PROPERTIES
    IdleAtLast
