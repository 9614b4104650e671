SPECIFICATION FairSpec
CONSTANTS
    Producers = {p1, p2}
    Getters = {g1}
    p1 = p1
    p2 = p2
    g1 = g1
    PageMsgs = 2
    InitPages = 1
    Values = {a, b}
    a = a
    b = b
    NoValue = NoValue
    MaxPush = 4
INVARIANTS
    InTable
    GetFinds
PROPERTIES
    IsLog
    PushIsHeld
CHECK_DEADLOCK FALSE
