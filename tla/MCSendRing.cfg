SPECIFICATION FairSpec
CONSTANTS
    Ring = 3
    MaxTimes = 2
    Space = 2
    Sizes = {0, 1, 2}
    MaxMessages = 4
INVARIANTS
    WritesInOrder
    FreedOnce
    NoWriteAfterFailure
PROPERTIES
    PendingIsWritten
CHECK_DEADLOCK FALSE
