CONSTANTS
    chart = chart
    guide = guide
    en = en
    de = de
    h1 = h1
    Source = Source
    Handlers = {h1}
    Targets = {chart, guide}
    Artefacts = {guide}
    Shared = {guide}
    Languages = {en}
    MaxEdits = 0
    MaxBuilds = 1
    MaxRefreshes = 3
    Moves = {"fail-hook"}
SPECIFICATION Spec
CHECK_DEADLOCK FALSE
INVARIANTS
    CacheOfPlugin
