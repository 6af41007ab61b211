SPECIFICATION Spec
CONSTANTS
    n1 = n1
    n2 = n2
    slash = slash
    none = none
    ost0 = ost0
    Names <- MCNames
    SlashNames <- MCSlashNames
    RootName = slash
    NoName = none
    OstIds <- MCOneOst
    MaxClock = 4
    PersistMayFail = FALSE
SYMMETRY MCSymmetry
VIEW MCView
INVARIANTS
    Mirror
    Rooted
PROPERTIES
    NamespaceImplemented
