CONSTANTS
    d1 = d1
    d2 = d2
    d3 = d3
    lsp = lsp
    None = None
    Torn = Torn
    Daemons = {d1, d2, d3}
    ByHand = {d3}
    Tools = {lsp}
    MaxFailures = 1
SPECIFICATION LiveSpec
CHECK_DEADLOCK FALSE
INVARIANTS
    SecondDaemon
PROPERTIES
    Recovers
