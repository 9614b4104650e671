SPECIFICATION FairSpec
CONSTANTS
    Size = 8
    Header = 1
    End = 10
    Streams <- MixedStreams
    Connections = 2
INVARIANTS
    HandledIntact
    CopiesDisjoint
PROPERTIES
    ArrivedIsHandled
CHECK_DEADLOCK FALSE
