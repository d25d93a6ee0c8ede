SPECIFICATION Spec
CONSTANTS
    s1 = s1
    s2 = s2
    Sessions <- MCSessions
    PerSession = 2
    PerDeployment = 3
    Window = 3
    TicksPerSec = 2
    DispatchLimit = 1
    RepliesLost = TRUE
    MaxRuns = 4
    MaxTime = 5
SYMMETRY SessionSymmetry
INVARIANTS
    TypeOK
    WindowHeld
    OutageNeverCharges
    RetryIsTruthful
