SPECIFICATION FairSpec
CONSTANTS
    Saved <- SomeSessions
    MaxEdits = 2
    MaxMounts = 3
INVARIANTS
    EarlierAnswered
    ShownIsStored
    RequestsAreWhole
    FunnelAddsUp
PROPERTIES
    WaitsEnd
CHECK_DEADLOCK FALSE
