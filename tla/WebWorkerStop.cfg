\* An application without a quota, and two connections.
CONSTANTS
    Modes = {"application"}
    MaxConns = 2
    MaxRequests = 0
SPECIFICATION FairSpec
PROPERTIES
    StopCompletes
CHECK_DEADLOCK FALSE
