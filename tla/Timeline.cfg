SPECIFICATION Spec
CHECK_DEADLOCK FALSE
CONSTANTS
    c1 = c1
    c2 = c2
    k1 = k1
    Injectors <- MCInjectors
    Corrupting <- MCCorrupting
    Long <- MCLong
    Requests = {r1}
    MaxEvents = 2
    MaxClears = 1
    MaxCuts = 2
SYMMETRY MCSymmetry
INVARIANTS
    LossBounded
    FabricationTakesTwo
    SplicesCounted
PROPERTIES
    ReadIsSnapshot
