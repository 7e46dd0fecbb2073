SPECIFICATION FairSpec
CONSTANTS
    j1 = j1
    j2 = j2
    u1 = u1
    u2 = u2
    c1 = c1
    c2 = c2
    NoId = NoId
    NoJti = NoJti
    Users <- OneUser
    Jtis <- TokensOfOne
    Owner <- OwnerOfOne
    Requests <- OneCall
    Generations <- TwoGenerations
    Ids <- AllIds
    FailClosed = TRUE
    RetryOn401 = TRUE
    DurableIds = TRUE
    CacheTTL = 1
    RTT = 1
    MaxTracked = 1
    MaxTime = 2
INVARIANTS
    StalenessBound
    NoFalseDenial
PROPERTIES
    FirstDeliveryActs
    SparesLiveSessions
    CallsEnd
