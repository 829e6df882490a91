CONSTANTS
    report = report
    plain = plain
    layout = layout
    first = first
    second = second
    Clients = {first, second}
    Routes <- ThreeRoutes
    Values = {"v1"}
    NoValue = NoValue
    Takes <- WithParameter
    Offers <- WithOptions
    Paged <- WithPages
    Page <- OneReport
    Nobody = Nobody
    Nothing = Nothing
    MaxEntries = 2
    MaxEdits = 1
    MaxAsks = 4
    Moves <- AllMoves
SPECIFICATION Spec
CHECK_DEADLOCK FALSE
SYMMETRY Symmetry
INVARIANTS
    TypeOK
    NothingMixed
    DataReachable
    MutexHeld
