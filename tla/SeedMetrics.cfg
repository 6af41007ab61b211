SPECIFICATION SSpec
CONSTANTS
    a = a
    b = b
    a1 = a1
    a2 = a2
    b1 = b1
    b2 = b2
    slash = slash
    none = none
    ost0 = ost0
    Clients <- MCClients
    Iterations <- MCIterations
    FileName <- MCFileName
    Torn = none
    Names <- MCNames
    SlashNames <- MCSlashNames
    RootName = slash
    NoName = none
    OstIds <- MCOstIds
    MaxClock = 4
    PersistMayFail = TRUE
VIEW MCView
INVARIANTS
    ReadsOwnWrite
    OrphansWereAbandoned
    CleanRunLeavesNothing
PROPERTIES
    SeedEnds
