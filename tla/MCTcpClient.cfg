SPECIFICATION FairSpec
CONSTANTS
    Readers = {r1, r2}
    Senders = {s1}
    r1 = r1
    r2 = r2
    s1 = s1
    Fds = {3, 4}
    Others = 1
    MaxCalls = 6
    Patient = TRUE
INVARIANTS
    NoSilentEnd
PROPERTIES
    StopIsClean
    ClosesItsSocket
    StopReturns
CHECK_DEADLOCK FALSE
