SPECIFICATION Spec
CONSTANTS
    a = a
    b = b
    pane1 = pane1
    pane2 = pane2
    Views <- TwoSessions
    NoParent = NoParent
    NoPane = NoPane
    Filtered = TRUE
    PaneSets <- OneOrBoth
    PickMode = TRUE
    HalfPage = 2
    MaxCount = 2
CHECK_DEADLOCK FALSE
INVARIANTS
    TypeOK
    SelectionOnRow
    Placed
    OutputOfSelected
PROPERTIES
    CursorFollowsFold
    KillsWhatWasArmed
