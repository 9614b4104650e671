SPECIFICATION FairSpec
CONSTANTS
    Size = 8
    Header = 1
    End = 10
    Streams <- MixedStreams
INVARIANTS
    HandedIntact
    CopiesDisjoint
    FullHasCause
PROPERTIES
    ArrivedIsHanded
CHECK_DEADLOCK FALSE
