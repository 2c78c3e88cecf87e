SPECIFICATION ScreenSpec
CONSTANTS
    Sizes <- MCSizes
    HistoryCap = 2
    MaxOps = 5
CHECK_DEADLOCK FALSE
INVARIANTS
    WritingKeepsGlyphsWhole
    LinesAreKept
    ReplayIsFaithful
