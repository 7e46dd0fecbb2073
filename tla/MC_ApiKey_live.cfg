SPECIFICATION FairSpec
CONSTANTS
    c1 = c1
    c2 = c2
    c3 = c3
    Callers <- TwoCallers
    MaxConcurrency = 1
    PoolTimeout = 1
    Threshold = 2
    Reset = 1
PROPERTIES
    CallsEnd
    Recovers
