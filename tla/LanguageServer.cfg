CONSTANTS
    page = page
    r1 = r1
    r2 = r2
    k1 = k1
    None = None
    Docs = {page}
    Runs = {r1, r2}
    Fetches = {k1}
    MaxTexts = 3
    MaxChanges = 1
    Prompt = TRUE
    Restarts = FALSE
SPECIFICATION LiveSpec
CHECK_DEADLOCK FALSE
INVARIANTS
    DraftFresh
PROPERTIES
    LatestAnalyzed
