SPECIFICATION Spec
CONSTANTS
    None = None
    Sessions = {s1, s2}
    Held = {s1, s2}
    Anchors = {a1, a2}
    Calls = {c1, c2}
    Inodes = {i1, i2, i3, i4}
    MaxStarts = 2
SYMMETRY Symmetry
INVARIANTS
    IndexIsSound
    Remembers
PROPERTY
    OldOrNew
CONSTRAINT OneAtATimeOnceTorn
CHECK_DEADLOCK FALSE
