SPECIFICATION FairSpec
CONSTANTS
    DBs = {a, b}
    InvalidOid = InvalidOid
    MaxDB = 2
    MaxWorkers = 1
    MayFail = FALSE
    EarlyExit = FALSE
    Shutdown = TRUE
    MaxCrash = 0
    WellFormed = TRUE
INVARIANTS
    NoEntryLeaks
    BooksAgree
    ExitStopsWorkers
PROPERTIES
    
    SignalledWorkerExits
CHECK_DEADLOCK FALSE
