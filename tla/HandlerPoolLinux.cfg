\* The same on a platform whose recv on a datagram pair does not.
CONSTANTS
    MaxRequests = 2
    Concurrency = 1
    MaxPids = 4
    Quota = 2
    StatusCap = 1
    MaxCrashes = 1
    PeerCloseWakes = FALSE
SPECIFICATION FairSpec
PROPERTIES
    DeadChildIsReaped
CHECK_DEADLOCK FALSE
