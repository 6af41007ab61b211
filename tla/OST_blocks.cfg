SPECIFICATION Spec
CONSTANTS
    c1 = c1
    c2 = c2
    c3 = c3
    f1 = f1
    d1 = d1
    k1 = k1
    k2 = k2
    ostA = ostA
    ostB = ostB
    none = none
    Calls <- MCCalls
    Files = {f1}
    Chunks = {k1, k2}
    Osts = {ostA, ostB}
    DirOf <- MCDirOf
    Payloads <- MCPayloads
    Ranges <- MCRanges
    Ops = {"write", "read", "delete", "health"}
    IOMayFail = TRUE
    NoBlock = none
SYMMETRY MCSymmetry
VIEW MCView
INVARIANTS
    TypeOK
    SettledReads
    
    HealthTruthful
    LostToDelete
