SPECIFICATION Spec
CONSTANTS
    SegmentBytes = 2
    MaxBytes = 2
    SyncBytes = 3
    MaxChunk = 2
    MaxFed = 6
    MaxFaults = 2
    MaxCrashes = 1
INVARIANTS
    FilesAreTheLog
    ReplayIsComplete
    DiskIsBounded
PROPERTIES
    OffsetsAreNeverReused
    ImplementsByteLog
CHECK_DEADLOCK FALSE
