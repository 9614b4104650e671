SPECIFICATION FairSpec
CONSTANTS
    Size = 4
    Header = 1
    End = 8
    Streams <- ShortStream
PROPERTIES
    ReadLoopEnds
CHECK_DEADLOCK FALSE
