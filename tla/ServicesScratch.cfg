CONSTANTS
    chart = chart
    guide = guide
    en = en
    de = de
    h1 = h1
    Source = Source
    Handlers = {h1}
    Targets = {chart, guide}
    Artefacts = {guide}
    Shared = {guide}
    Languages = {en, de}
    MaxEdits = 2
    MaxBuilds = 1
    MaxRefreshes = 3
    Moves = {}
SPECIFICATION Spec
CHECK_DEADLOCK FALSE
INVARIANTS
    RowsKept
