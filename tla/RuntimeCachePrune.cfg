\* Two compilers, three keys, room for two objects, nobody dies.
CONSTANTS
    Compilers = {c1, c2}
    Keys = {k1, k2, k3}
    Nobody = Nobody
    MaxObjects = 2
    LeaseTries = 2
    MaxCrashes = 0
SPECIFICATION Spec
INVARIANTS
    RunsAreTolerated
CHECK_DEADLOCK FALSE
