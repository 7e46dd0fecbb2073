SPECIFICATION FairSpec
CONSTANTS
    p1 = p1
    p2 = p2
    Probes <- TwoProbes
    Owned <- Resources
    Validators = 2
    Checks = 2
    Timeout = 1
    CacheTTL = 2
    Strict = FALSE
INVARIANTS
    HealthAge
    CodeFollowsPolicy
    ChecksAfterStartup
    ExtrasKeepClients
PROPERTY
    ProbesEnd
