\* Two compilers, two keys, room for one object, one crash.
CONSTANTS
    Compilers = {c1, c2}
    Keys = {k1, k2}
    Nobody = Nobody
    MaxObjects = 1
    LeaseTries = 2
    MaxCrashes = 1
SPECIFICATION FairSpec
INVARIANTS
    LeaseIsSound
    BoundHolds
PROPERTIES
    LitterIsCollected
    CompilationsEnd
CHECK_DEADLOCK FALSE
