CONSTANTS
    c1 = c1
    c2 = c2
    c3 = c3
    NoCall = NoCall
    Calls <- MCCalls
    MaxLosses = 1
    MaxForgotten = 2
SPECIFICATION FairSpec
INVARIANTS TypeOK RanOnce SessionsAreShared
PROPERTIES EveryCallEnds
CHECK_DEADLOCK FALSE
