SPECIFICATION Spec
CONSTANTS
    Users = {u1}
    Nobody = Nobody
    MaxKeys = 1
    MaxClicks = 2
CHECK_DEADLOCK FALSE
INVARIANTS
    ShownKeyWorks
