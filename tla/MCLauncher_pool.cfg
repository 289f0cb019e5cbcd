SPECIFICATION Spec
CONSTANTS
    DBs = {a, b}
    InvalidOid = InvalidOid
    MaxDB = 1
    MaxWorkers = 2
    MayFail = TRUE
    EarlyExit = TRUE
    Shutdown = FALSE
    MaxCrash = 1
    WellFormed = FALSE
SYMMETRY DbSymmetry
VIEW PoolView
INVARIANTS
    TypeOK
    WorkerIsRegistered
    SlotNamesItsWorker
    LiveWorkerKeepsEntry
