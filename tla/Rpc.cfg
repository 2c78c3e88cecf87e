SPECIFICATION Spec
CONSTANTS
    None = None
    Clients = {c1, c2}
    Leader = c1
    Conns = {k1, k2, k3}
    Chunks = 2
    MaxCalls = 2
    MaxStarts = 2
    MaxCuts = 1
SYMMETRY Symmetry
INVARIANTS
    NeverTwice
    AnswersAreOwn
    InputIsAPrefix
    LinkIsKnown
CONSTRAINT FewFaults
CHECK_DEADLOCK FALSE
