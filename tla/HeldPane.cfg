SPECIFICATION FairSpec
CONSTANTS
    None = None
    Holders = {h1, h2, h3}
    ReviveBudget = 1
    MaxFaults = 2
    MaxSlow = 0
    MaxStarts = 2
INVARIANTS
    EndingsAreTrue
    OneShell
PROPERTIES
    NeverLeftDead
    AskedHolderEnds
CHECK_DEADLOCK FALSE
