CONSTANTS
    fSales = fSales
    fGuide = fGuide
    fTable = fTable
    fStyle = fStyle
    sales = sales
    guide = guide
    summary = summary
    table = table
    style = style
    Root = Root
    Nil = Nil
    Docs = {sales, guide, summary, table, style}
    Reports = {sales}
    Documents = {guide}
    Pages = {summary}
    Configs = {style}
    Uses <- MCUses
    Files = {fSales, fGuide, fTable, fStyle}
    Home <- HomeApart
    Absent = {guide}
    Incremental = TRUE
    ChanCap = 3
    MaxEdits = 2
    MaxBuilds = 2
    Moves = {"fail-plugin"}
SPECIFICATION Spec
CHECK_DEADLOCK FALSE
INVARIANTS
    RoutesFresh
    RoutesHaveAssets
    OnePlugin
