\* Two objects of two properties each.
CONSTANTS
    Objects = {a, b}
    Root = root
    None = none
    MaxFields = 2
    Meddling = FALSE
SPECIFICATION FairSpec
INVARIANTS
    CountsAreExact
    ReachableIsAlive
PROPERTIES
    DestructedOnce
    NothingIsLeft
    CollectionEnds
CHECK_DEADLOCK FALSE
