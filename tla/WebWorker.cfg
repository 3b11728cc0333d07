\* All three variants, two connections, a quota of one.
CONSTANTS
    Modes = {"worker", "application", "isolated"}
    MaxConns = 2
    MaxRequests = 1
SPECIFICATION FairSpec
INVARIANTS
    TypeOK
    PlannedExitIsClean
    FewUntold
PROPERTIES
    RecycleCompletes
    StopHangsOnlyUntold
CHECK_DEADLOCK FALSE
