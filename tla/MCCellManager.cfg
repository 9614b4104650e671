\* Two connections on two descriptors: both open at once, or the second on the first's
\* descriptor; a short queue and ring.
CONSTANTS
    NConns = 2
    Fds = {1, 2}
    Senders = {s1}
    Acceptor = acceptor
    MaxSends = 2
    SendCap = 1
    QueueCap = 3
SPECIFICATION FairSpec
INVARIANTS
    CellsAreLive
    WatchedAreStored
    WrittenOnceInOrder
PROPERTIES
    OrderUnlessDoubled
    ConnectedAreAnnounced
    EndedAreReleased
