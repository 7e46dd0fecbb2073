SPECIFICATION ServiceSpec
CONSTANTS
    j1 = j1
    u1 = u1
    w1 = w1
    k1 = k1
    s1 = s1
    NoId = NoId
    NoJti = NoJti
    NoKey = NoKey
    NoClient = NoClient
    Users = {u1}
    Jtis = {j1}
    Owner <- OwnerOfOne
    Generations <- TwoGenerations
    Ids <- AllIds
    WebRequests = {w1}
    Requests <- CallOfEach
    FailClosed = FALSE
    RetryOn401 = TRUE
    DurableIds = FALSE
    CacheTTL = 1
    RTT = 0
    MaxTracked = 1
    MaxTime = 1
    Keys = {k1}
    KeyOwner <- KeyOwnerOfOne
    KeyCap <- ReadWrite
    Clients = {s1}
    Scopes = {"read"}
    Grants <- EveryScope
    Authorities <- ReaderOrAdmin
    Routes <- BothTiers
    Exempt = {}
    TokenLife = 4
INVARIANTS
    GrantsAreCurrent
    VerifiedWindow
PROPERTIES
    UsesClient
    ImplementsAccess
    AppliedRevocationReaches
