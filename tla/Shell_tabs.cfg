SPECIFICATION Spec
CONSTANTS
    Tabs = {t1, t2}
    Access = {"works", "full"}
    MaxWrites = 4
INVARIANTS
    NoIsHonoured
    PageViewOnce
    ToggleIsTheTheme
CHECK_DEADLOCK FALSE
