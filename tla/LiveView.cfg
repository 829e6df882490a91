CONSTANTS
    all = all
    report = report
    p1 = p1
    Paths = {all, report}
    Clients = {p1}
    View <- MCView
    Buffer = 2
    CacheSize = 1
    Keep = 1
    MaxRefreshes = 2
    MaxLosses = 1
    Moves = {"fail", "reload"}
SPECIFICATION LiveSpec
CHECK_DEADLOCK FALSE
INVARIANTS
    TypeOK
    DataKept
PROPERTIES
    NeverBack
    ShowsLatest
