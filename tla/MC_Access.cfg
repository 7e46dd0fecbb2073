SPECIFICATION Spec
CONSTANTS
    r1 = r1
    s1 = s1
    s2 = s2
    u1 = u1
    kr = kr
    kw = kw
    c1 = c1
    Requests = {r1}
    Sessions = {s1}
    Users = {u1}
    Keys = {kr, kw}
    Clients = {c1}
    Scopes = {"execute", "admin"}
    NoSession = NoSession
    NoKey = NoKey
    NoClient = NoClient
    Checks <- MCChecks
    Holder <- MCHolder
    KeyOwner <- MCKeyOwner
    KeyCap <- MCKeyCap
    Grants <- MCGrants
    Authorities <- MCAuthorities
    Routes <- MCRoutes
    Exempt <- MCExempt
    StrictTiers = {"fresh"}
    Grace = 1
    TokenLife = 1
    FailOpen = TRUE
    MaxTime = 2
INVARIANTS AccessTypeOK GrantsAreCurrent TokenWindow EntitledAreServed AuditFindsUncapped
