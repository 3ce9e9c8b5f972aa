CONSTANTS
    Event = {1, 2, 3, 4}
    Participant = {p1, p2}
    Author = {p1, p2, user}
    Graph <- MCGraph
    p1 = p1
    p2 = p2
    user = user
SPECIFICATION FairSpec
INVARIANTS
    AncestryComplete
    NoLostWakeup
    SeenByExact
    TipsCoverGraph
    CanonicalOrderTopological
PROPERTIES
    CanonicalOrderGrows
    ImplementsDagSpec
    InsertReturns
CHECK_DEADLOCK FALSE
