\* Two children of one worker, two requests, and any two rare events or an upload.
CONSTANTS
    Children = {c1, c2}
    Sids = {s1, s2}
    NoSid = none
    Known = {s1}
    MaxFiles = 5
    MaxRequests = 2
    MaxCalls = 3
    MaxProgress = 1
    MaxRare = 2
SPECIFICATION FairSpec
INVARIANTS
    UpdatesSurvive
    DestroyedStaysGone
PROPERTIES
    WaitsEnd
CHECK_DEADLOCK FALSE
