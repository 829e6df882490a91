CONSTANTS
    c1 = c1
    c2 = c2
    None = None
    Foreign = Foreign
    Children = {c1, c2}
SPECIFICATION LiveSpec
CHECK_DEADLOCK FALSE
INVARIANTS
    OneManaged
    Truthful
    ShutdownReaps
PROPERTIES
    StoppedDies
