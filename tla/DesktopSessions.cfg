\* The instances of MCDesktopSessions.
SPECIFICATION FairSpec
CONSTANTS
    c1 = c1
    c2 = c2
    Calls = {c1, c2}
    Instances <- MCInstances
INVARIANTS
    EnginesWithinCaps
    ToldOnce
    StopReachesEngines
    RowsSettle
PROPERTY
    EnginesEnd
CHECK_DEADLOCK FALSE
