SPECIFICATION Spec
CONSTANTS
    j1 = j1
    j2 = j2
    u1 = u1
    u2 = u2
    c1 = c1
    c2 = c2
    NoId = NoId
    NoJti = NoJti
    Users <- TwoUsers
    Jtis <- TokenOfOne
    Owner <- OwnerOfOne
    Requests <- TwoCalls
    Generations <- TwoGenerations
    Ids <- AllIds
    FailClosed = FALSE
    RetryOn401 = TRUE
    DurableIds = FALSE
    CacheTTL = 1
    RTT = 0
    MaxTracked = 1
    MaxTime = 1
SYMMETRY CallSymmetry
INVARIANTS
    TypeOK
    BypassFresh
    Bookkeeping
    UserWideHolds
PROPERTIES
    AppliedRevocationDenies
    KeepsPromise
