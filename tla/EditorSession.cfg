CONSTANTS
    page = page
    sales = sales
    r1 = r1
    r2 = r2
    k1 = k1
    k2 = k2
    None = None
    Docs = {page}
    Runs = {r1}
    Fetches = {k1, k2}
    MaxTexts = 0
    MaxChanges = 0
    Prompt = TRUE
    Restarts = FALSE
    Manifests = {page}
    Data = {sales}
    ChanCap = 1
    MaxEdits = 2
    MaxFailures = 1
SPECIFICATION LiveSession
CHECK_DEADLOCK FALSE
INVARIANTS
    ProjectFollows
    ChangesDue
PROPERTIES
    ChangesReported
    StateFollows
