SPECIFICATION WindowSpec
CONSTANTS
    p1 = p1
    p2 = p2
    p3 = p3
    Panes = {p1, p2, p3}
    Seed = p1
    c1 = c1
    c2 = c2
    Callers = {c1, c2}
    FirstSize <- Cells6x4
    Placeholder <- CellsSpawned
    ClientSizes <- CellsOfClients
    Deltas <- OneCell
    Nothing = Nothing
    MaxCalls = 3
    MaxUnsized = 1
SYMMETRY Symmetry
INVARIANTS
    RectsTile
    DisplayMatchesLayout
    FocusIsALeaf
PROPERTIES
    NoneIsSqueezed
CONSTRAINT LastOverlapIsShort
CHECK_DEADLOCK FALSE
