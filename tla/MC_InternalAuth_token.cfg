SPECIFICATION FairSpec
CONSTANTS
    c1 = c1
    c2 = c2
    NoCaller = NoCaller
    Callers <- TwoCallers
    Life <- MixedLives
    Leeway = 4
    Delay = 1
    MaxMints = 3
    MaxRotations = 1
    MaxTime = 3
INVARIANTS
    TypeOK
    ExpiryNeverRejects
    RetryChangesToken
    NobodyLockedOut
PROPERTIES
    NoNeedlessMint
    CallsEnd
