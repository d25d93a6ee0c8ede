SPECIFICATION FairSpec
CONSTANTS
    r1 = r1
    r2 = r2
    r3 = r3
    range = range
    incidents = incidents
    Requests <- MCRequests
    Writers <- MCWriters
    Queries <- MCQueries
    Metadata <- MCMetadata
    Sourced <- MCSourced
    Write = Write
    None = None
    Bucket = 2
    RangeTtl = 0
    MetadataTtl = 1
    StaleMax = 1
    Capacity = 1
    Rate = 1
    MaxPolls = 1
    MaxTime = 2
CHECK_DEADLOCK FALSE
INVARIANTS
    TypeOK
    OneCallPerKey
    ServedIsCurrent
    GrantsHeld
PROPERTIES
    EveryCallAnswered
