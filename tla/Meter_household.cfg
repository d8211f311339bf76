\* One request of the household at a time, a push and a fold beside it.  Two
\* quarters of one hour, each written up to twice.
SPECIFICATION Spec
CONSTANTS
    Requests = {q1}
    Devices = {d1}
    Folds = {f1}
    MaxLinks = 2
    MaxMoments = 2
    PerHour = 2
    MaxStored = 2
SYMMETRY Symmetry
\* Links and quarters are bounded: in the end there is nothing left to do.
CHECK_DEADLOCK FALSE
INVARIANTS
    OneActiveLink
    FoldsConserve
PROPERTIES
    EmptiedWhenRevoked
    ImplementsContract
