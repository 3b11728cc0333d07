\* Two workers, a crash loop of two, two signals that may fall anywhere.
CONSTANTS
    Workers = 2
    MaxFastDeaths = 2
    MaxPids = 4
    MaxSignals = 2
    MaxOrphans = 1
    RaceWindows = {"wait", "fork", "reap"}
SPECIFICATION FairSpec
INVARIANTS
    TypeOK
    PoolIsWhole
    OnlyTheLastIsStale
    GivesUpOnlyOnCrashLoop
    NoWorkerLeftBehind
PROPERTIES
    ShutdownHangsOnlyInARace
CHECK_DEADLOCK FALSE
