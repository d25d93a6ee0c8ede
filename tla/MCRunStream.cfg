SPECIFICATION FairSpec
CONSTANTS
    MaxTurns = 2
    Parallel = 2
    MaxVerifies = 2
    MayRestart = TRUE
    MaxDrops = 1
CHECK_DEADLOCK FALSE
INVARIANTS
    TypeOK
    VerifyingIsLive
    LedgerHasNoHoles
    ShownStateIsTrue
PROPERTIES
    OutcomeReachesBrowser
    VerdictEndsTheWait
