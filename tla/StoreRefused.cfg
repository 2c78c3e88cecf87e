SPECIFICATION Spec
CONSTANTS
    s = s
    p = p
    q = q
    Sessions = {s}
    Panes = {p, q}
    Of <- MCOf
    MaxStarts = 2
    MaxKills = 1
    MaxUpsets = 1
    Overlap = 1
INVARIANT RefusalIsHarmless
