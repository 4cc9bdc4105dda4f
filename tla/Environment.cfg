SPECIFICATION Spec
CONSTANTS
    HookTypes = {h1, h2}
    NoFile = NoFile
    Torn = Torn
    MaxCommands = 3
    MaxEdits = 2
    Windows = {w1, w2}
    Commands = {c1, c2}
    NoWindow = NoWindow
    MaxAborts = 2
    Custom <- SomeLayouts
    LastPid = 3
    LastPane = 2
    NoPid = NoPid
    NoPane = NoPane
    NoProcess = NoProcess
    Looks <- TwoLooks
    MaxDepth = 2
    MaxSessions = 1
    MaxStarts = 3
    Ids = {i1, i2}
    AgentPane = AgentPane
    OtherPane = OtherPane
    NoPrompt = NoPrompt
    NoAnswer = NoAnswer
    OptionCounts = {0, 3, 10}
    LinesAbove = 2
    LineKinds <- SomeKinds
    FallbackLines = 1
    MaxMoves = 2
    Untouched = Untouched
SYMMETRY Symmetry
CHECK_DEADLOCK FALSE
INVARIANTS
    TypeOK
    HooksServed
    OthersKept
    Completes
    OneSidebar
    SlotsFilled
    SteadyAgentsFound
    PromptServed
