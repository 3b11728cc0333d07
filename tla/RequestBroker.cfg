\* One handler at a time, three requests, a failed fork or a crash.
CONSTANTS
    MaxRequests = 3
    Concurrency = 1
    MaxPids = 3
    MaxFaults = 1
SPECIFICATION FairSpec
INVARIANTS
    TypeOK
    ActiveIsExact
    NoForeignStream
PROPERTIES
    ImplementsService
    RequestsSettle
    CancelledStops
    ShutdownCompletes
CHECK_DEADLOCK FALSE
