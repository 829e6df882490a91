CONSTANTS
    all = all
    report = report
    p1 = p1
    Paths = {all, report}
    Clients = {p1}
    View <- MCView
    Buffer = 2
    CacheSize = 1
    Keep = 3
    MaxRefreshes = 5
    MaxLosses = 1
    Moves = {"revert"}
SPECIFICATION Spec
CHECK_DEADLOCK FALSE
INVARIANTS
    DataKept
