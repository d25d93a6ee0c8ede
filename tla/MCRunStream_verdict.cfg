SPECIFICATION Spec
CONSTANTS
    MaxTurns = 1
    Parallel = 1
    MaxVerifies = 2
    MayRestart = FALSE
    MaxDrops = 0
CHECK_DEADLOCK FALSE
INVARIANTS
    NoVerdictSkipped
