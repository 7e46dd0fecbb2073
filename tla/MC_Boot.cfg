SPECIFICATION Spec
CONSTANT MaxTries = 3
INVARIANTS
    GateHolds
    NoLegacyInProduction
    ClientsConfigured
PROPERTY
    ProbingEnds
CHECK_DEADLOCK FALSE
