CONSTANTS
    fSales = fSales
    fGuide = fGuide
    fTable = fTable
    fStyle = fStyle
    sales = sales
    guide = guide
    summary = summary
    table = table
    style = style
    Root = Root
    Nil = Nil
    Docs = {sales, guide, summary, table, style}
    Reports = {sales}
    Documents = {guide}
    Pages = {summary}
    Configs = {style}
    Uses <- MCUses
    Files = {fSales, fGuide, fTable, fStyle}
    Home <- HomeApart
    Absent = {}
    Incremental = TRUE
    ChanCap = 2
    MaxEdits = 2
    MaxBuilds = 0
    Moves = {"remove-document"}
SPECIFICATION Spec
CHECK_DEADLOCK FALSE
INVARIANTS
    RoutesFresh
