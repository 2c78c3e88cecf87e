SPECIFICATION Spec
CONSTANTS
    None = None
    Panes = {p1, p2}
    Seed = p1
    Held = {p2}
    Kills = {k1}
    Subs = {s1}
    MaxChunks = 1
INVARIANTS
    ReplayMeetsStream
    RunningIsServed
    TreesAgreeWithPanes
    QuietIsClean
CONSTRAINT OneIsHeard
CHECK_DEADLOCK FALSE
