\* Two slots, two requests, a quota of one, one crash; MaxPids lets a fork fail.
CONSTANTS
    MaxRequests = 2
    Concurrency = 2
    MaxPids = 4
    Quota = 1
    StatusCap = 1
    MaxCrashes = 1
    PeerCloseWakes = FALSE
SPECIFICATION Spec
INVARIANTS
    TableIsTrue
    NoForeignStream
    AckIsTheHolders
    CancelFollowsDispatch
PROPERTIES
    KillsOnlyCancelled
    ImplementsService
CHECK_DEADLOCK FALSE
