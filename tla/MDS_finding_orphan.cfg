SPECIFICATION Spec
CONSTANTS
    n1 = n1
    n2 = n2
    slash = slash
    none = none
    ost0 = ost0
    ost1 = ost1
    Names <- MCNames
    SlashNames <- MCSlashNames
    RootName = slash
    NoName = none
    OstIds <- MCOneOst
    MaxClock = 3
    PersistMayFail = TRUE
SYMMETRY MCSymmetry
VIEW MCView
INVARIANTS
    AckedReachable
