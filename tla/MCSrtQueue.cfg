SPECIFICATION FairSpec
CONSTANTS
    Producers = {p1, p2, p3}
    Msg = {a}
    PMC = 2
    PIC = 2
    MaxPosts = 3
CONSTRAINT BeforeOverrun
INVARIANTS
    OvershootBounded
    HeldPagesAreLive
    KeptUnlessOverrun
    PagesAreReturned
PROPERTIES
    ImplementsTaskQueue
    EveryPlaceIsPopped
