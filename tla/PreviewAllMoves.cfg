CONSTANTS
    fSales = fSales
    fGuide = fGuide
    fTable = fTable
    fStyle = fStyle
    sales = sales
    guide = guide
    summary = summary
    table = table
    style = style
    Root = Root
    Nil = Nil
    Docs = {sales, guide, summary, table, style}
    Reports = {sales}
    Documents = {guide}
    Pages = {summary}
    Configs = {style}
    Uses <- MCUses
    Files = {fSales, fGuide, fTable, fStyle}
    Home <- HomeApart
    Absent = {}
    Incremental = TRUE
    ChanCap = 1
    MaxEdits = 1
    MaxBuilds = 1
    Moves <- AllMoves
SPECIFICATION Spec
CHECK_DEADLOCK FALSE
INVARIANTS
    TypeOK
    WindowHolds
