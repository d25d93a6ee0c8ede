CONSTANTS
    b1 = b1
    b2 = b2
    b3 = b3
    s1 = s1
    s2 = s2
    r1 = r1
    o1 = o1
    o2 = o2
    Tabs <- OneTab
    Sessions <- MCSessions
    SessionOf <- OneSessionOf
    Runs <- MCRuns
    Options <- MCOptions
    NumWorlds = 2
    Nobody = Nobody
    Observer = Observer
    NoPreference = NoPreference
    Unlisted = Unlisted
    NoRun = NoRun
    NoTenant = NoTenant
    TTL = 3
    Beat = 1
    CallLimit = 1
    MaxAsks = 2
    MaxCalls = 1
    MaxTime = 3
SPECIFICATION ASpec
INVARIANT RunStaysWithItsWorld
CHECK_DEADLOCK FALSE
