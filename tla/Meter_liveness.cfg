\* Every process may interleave; nothing dies but to break a deadlock.  No
\* symmetry: the property is a liveness one.
SPECIFICATION FairSpec
CONSTANTS
    Requests = {q1}
    Devices = {d1}
    Folds = {f1}
    MaxLinks = 1
    MaxMoments = 2
    PerHour = 2
    MaxStored = 2
\* Links and quarters are bounded: in the end there is nothing left to do.
CHECK_DEADLOCK FALSE
PROPERTIES
    OldQuartersLeave
