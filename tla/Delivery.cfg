SPECIFICATION DeliveryFairSpec
CONSTANTS
    Events = {a, b}
    Nothing = Nothing
    OUTBOX_MAX = 2
    HighWater = 2
    MaxFaults = 2
INVARIANTS
    TypeOK
    NoneHeldBack
PROPERTIES
    InOrder
    KeepsShowing
