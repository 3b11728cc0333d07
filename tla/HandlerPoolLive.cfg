\* One slot, two requests, one crash; a platform whose recv sees the peer close.
CONSTANTS
    MaxRequests = 2
    Concurrency = 1
    MaxPids = 4
    Quota = 2
    StatusCap = 1
    MaxCrashes = 1
    PeerCloseWakes = TRUE
SPECIFICATION FairSpec
PROPERTIES
    RequestsSettle
    CancelledStops
    ShutdownCompletes
    DeadChildIsReaped
CHECK_DEADLOCK FALSE
