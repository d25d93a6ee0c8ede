SPECIFICATION Spec
CONSTANTS
    s1 = s1
    s2 = s2
    s3 = s3
    s4 = s4
    Sessions <- MCSessions
    NumWorlds = 3
    Nobody = Nobody
    Observer = Observer
    NoPreference = NoPreference
    Unlisted = Unlisted
    TTL = 2
    MaxTime = 4
SYMMETRY SessionSymmetry
INVARIANTS
    TypeOK
    OneLeasePerSession
PROPERTIES
    ObserverOnlyWhenFull
    SwitchNeverLosesWorld
    ImplementsOwnership
