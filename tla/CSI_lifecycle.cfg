SPECIFICATION LSpec
CONSTANTS
    c1 = c1
    c2 = c2
    s1 = s1
    s2 = s2
    t1 = t1
    t2 = t2
    t3 = t3
    p1 = p1
    p2 = p2
    p3 = p3
    Calls <- MCCalls
    Targets <- MCTargets
    Stagings <- MCStagings
    StagingOf <- MCStagingOf
    Claims <- MCClaims
    NameOf <- MCNameOf
    BytesOf <- MCBytesOf
    PathOf <- MCPathOf
    Lower <- MCLower
    DefaultCapacity = 2
    NoPath = NoPath
    NoMarker = NoMarker
    Blank = Blank
    Mixed = Mixed
    IOMayFail = TRUE
    RemoveMayFail = FALSE
    MayBeKilled = TRUE
SYMMETRY MCSymmetry
VIEW MCView
INVARIANTS
    PublishedIsStaged
    BeliefIsTrue
    AnswersAgree
    VolumesAreClaimed
    DeletedLeavesNothing
