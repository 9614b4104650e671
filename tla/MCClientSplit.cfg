SPECIFICATION Spec
CONSTANTS
    Size = 8
    Header = 1
    End = 10
    Streams <- MixedStreams
    Connections = 1
INVARIANTS
    SplitIsAwaited
CHECK_DEADLOCK FALSE
