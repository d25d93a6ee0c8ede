SPECIFICATION FairSpec
CONSTANTS
    MaxTurns = 1
    Parallel = 1
    MaxVerifies = 0
    MayRestart = FALSE
    MaxDrops = 0
CHECK_DEADLOCK FALSE
PROPERTIES
    FailureEndsTheWait
