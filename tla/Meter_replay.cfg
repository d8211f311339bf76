\* A device that replays a quarter which was folded meanwhile.
SPECIFICATION Spec
CONSTANTS
    Requests = {q1}
    Devices = {d1}
    Folds = {f1}
    MaxLinks = 1
    MaxMoments = 1
    PerHour = 1
    MaxStored = 2
SYMMETRY Symmetry
\* Links and quarters are bounded: in the end there is nothing left to do.
CHECK_DEADLOCK FALSE
INVARIANTS
    WrittenOnce
