SPECIFICATION FairSpec
CONSTANTS
    MaxChunk = 2
    ReviveBudget = 1
    MaxBytes = 3
    MaxDeaths = 2
    MaxFaults = 1
    MaxStalls = 1
    MaxStarts = 2
INVARIANTS
    ShownInOrder
    NoHole
    FinalOutputIsShown
PROPERTIES
    LogIsByteLog
    CatchesUp
CHECK_DEADLOCK FALSE
