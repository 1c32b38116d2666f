\* Two lookups and a readiness check share a queue of one and an overflow of one.
SPECIFICATION FairSpec
CONSTANTS
    Lookups = {"l1", "l2"}
    Checks = {"c1"}
    PoolSize = 1
    MaxOverflow = 1
INVARIANTS TypeOK NoConnectionIsLost FailuresHaveACause ReadinessIsTruthful
PROPERTY EveryCheckEnds
CHECK_DEADLOCK FALSE
