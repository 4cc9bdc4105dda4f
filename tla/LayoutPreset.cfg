SPECIFICATION Spec
CONSTANTS
    Custom = {}
CHECK_DEADLOCK FALSE
INVARIANTS
    PanelBesideAll
