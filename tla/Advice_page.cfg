SPECIFICATION FairSpec
CONSTANTS
    Bodies <- SomeBodies
    MONTHS <- CommonYear
    QUARTERS_PER_DAY = 2
    LEAP_YEAR_DAYS = 5
    Frames = 4
    Pointers = 5
    Floor = 8
    Unreadable = Unreadable
    Garbled = Garbled
    Null = Null
    Missing = Missing
    Nested = Nested
INVARIANTS
    BlankOnlyUnlooked
    EveryBandOnce
    HeadlineOnTrack
    PlateIsTheModel
    ReadingIsThePixel
    ReducedIsStill
PROPERTIES
    PageSettles
CHECK_DEADLOCK FALSE
