SPECIFICATION Spec
CONSTANTS
    Producers = {p1, p2, p3}
    Msg = {a, b}
    PMC = 2
    PIC = 2
    MaxPosts = 3
SYMMETRY Symmetry
INVARIANTS
    AcceptedIsKept
