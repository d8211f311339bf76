SPECIFICATION FairSpec
CONSTANTS
    Users = {u1}
    Nobody = Nobody
    MaxKeys = 2
    MaxClicks = 2
CHECK_DEADLOCK FALSE
INVARIANTS
    BusyIsUnderWay
    ConsentsAreTheServers
PROPERTIES
    ConfirmedIsTrue
    ShownKeysAreKept
    LoadingEnds
    BusyEnds
