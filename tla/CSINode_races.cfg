SPECIFICATION Spec
CONSTANTS
    c1 = c1
    c2 = c2
    c3 = c3
    c4 = c4
    Calls <- MCCalls
    Targets = {t1}
    Stagings = {s1, s2}
    NoPath = NoPath
    NoMarker = NoMarker
    Blank = Blank
    Mixed = Mixed
    IOMayFail = TRUE
    RemoveMayFail = TRUE
    MayBeKilled = TRUE
SYMMETRY MCSymmetry
VIEW MCView
INVARIANTS
    TypeOK
    NoBareTarget
    PublishSettles
    UnpublishSettles
