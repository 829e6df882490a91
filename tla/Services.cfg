CONSTANTS
    chart = chart
    guide = guide
    en = en
    de = de
    h1 = h1
    Source = Source
    Handlers = {h1}
    Targets = {chart, guide}
    Artefacts = {guide}
    Shared = {guide}
    Languages = {en}
    MaxEdits = 1
    MaxBuilds = 1
    MaxRefreshes = 3
    Moves = {"break-file", "duplicate", "fail-hook", "override", "pdf"}
SPECIFICATION LiveSpec
CHECK_DEADLOCK FALSE
INVARIANTS
    TypeOK
    CacheFresh
    OwnRows
PROPERTIES
    RequestsReturn
