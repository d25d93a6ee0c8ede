SPECIFICATION Spec
CONSTANTS
    r1 = r1
    r2 = r2
    r3 = r3
    range = range
    incidents = incidents
    Requests <- MCRequests
    Writers <- MCWriters
    Queries <- MCQueries
    Metadata <- MCMetadata
    Sourced <- MCSourced
    Write = Write
    None = None
    Bucket = 2
    RangeTtl = 3
    MetadataTtl = 4
    StaleMax = 4
    Capacity = 2
    Rate = 1
    MaxPolls = 1
    MaxTime = 3
CHECK_DEADLOCK FALSE
PROPERTIES
    StaleCoversOutage
