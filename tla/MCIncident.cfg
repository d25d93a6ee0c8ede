SPECIFICATION Spec
CONSTANTS
    NumWorkers = 6
    Incidents <- MCIncidents
    Drains <- MCDrains
    Added = 2
    Window = 1
    CacheAge = 1
    Settle = 3
    Jitter <- MCJitter
    MaxTime = 4
    MaxChanges = 2
    PoolOf <- MCPoolOf
    Delivered <- MCDelivered
    TracesAvailable = TRUE
INVARIANTS
    TypeOK
    AffectedMatchFleet
    ConclusionAgrees
    VerdictFromNewTelemetry
    VerdictMatchesFleet
CHECK_DEADLOCK FALSE
