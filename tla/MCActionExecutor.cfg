SPECIFICATION FairSpec
CONSTANTS
    r1 = r1
    r2 = r2
    r3 = r3
    k1 = k1
    k2 = k2
    Requests <- MCRequests
    Keys <- MCKeys
    NoRequest = NoRequest
    MaxRestarts = 1
CHECK_DEADLOCK FALSE
INVARIANTS
    TypeOK
    AppliedOnce
    LockIsHeld
    AuditAgrees
    ChangesAreRecorded
PROPERTIES
    ImplementsLedger
    EveryRequestAnswered
