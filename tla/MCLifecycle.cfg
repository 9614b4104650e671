SPECIFICATION FairSpec
CONSTANTS
    Last = 2
    MaxServers = 1
    Conns = {c1, c2}
    Fds = {1, 2}
    Senders = {s1}
    c1 = c1
    c2 = c2
    s1 = s1
INVARIANTS
    JoinedBeforeDeleted
    NothingDeletedIsUsed
    StopClosesAll
PROPERTIES
    StopReturns
    AcceptedIsAnnounced
CHECK_DEADLOCK FALSE
