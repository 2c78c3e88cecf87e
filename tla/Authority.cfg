SPECIFICATION FairSpec
CONSTANTS
    None = None
    Daemons = {d1, d2}
    Panes = {p1}
    Conns = {c1, c2, c3}
    MaxStarts = 3
    MaxLosses = 1
    MaxRefusals = 1
    MaxStalls = 1
INVARIANTS
    PanesAreServed
    LeaseIsNewest
PROPERTIES
    HandsOverForward
    NeverLosesToItself
    PanesSettle
CHECK_DEADLOCK FALSE
