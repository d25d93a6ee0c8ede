CONSTANTS
    b1 = b1
    b2 = b2
    b3 = b3
    s1 = s1
    s2 = s2
    r1 = r1
    o1 = o1
    o2 = o2
    Tabs <- MCTabs
    Sessions <- MCSessions
    SessionOf <- MCSessionOf
    Runs <- MCRuns
    Options <- OneOption
    NumWorlds = 1
    Nobody = Nobody
    Observer = Observer
    NoPreference = NoPreference
    Unlisted = Unlisted
    NoRun = NoRun
    NoTenant = NoTenant
    TTL = 3
    Beat = 1
    CallLimit = 1
    MaxAsks = 2
    MaxCalls = 1
    MaxTime = 3
SPECIFICATION ASpec
SYMMETRY MCSymmetry
INVARIANTS ATypeOK ShownWorldIsHeld ApprovalKeepsLease
CHECK_DEADLOCK FALSE
