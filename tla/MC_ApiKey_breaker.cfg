SPECIFICATION Spec
CONSTANTS
    c1 = c1
    c2 = c2
    c3 = c3
    Callers <- ThreeCallers
    MaxConcurrency = 2
    PoolTimeout = 1
    Threshold = 2
    Reset = 2
SYMMETRY CallerSymmetry
INVARIANTS
    SlotsConserved
    ChargedOnce
    OpensOnStreak
    OutageKeepsOpen
    OpenCircuitDrains
