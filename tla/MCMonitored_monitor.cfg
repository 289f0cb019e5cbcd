SPECIFICATION Spec
CONSTANTS
    DBs = {a, b}
    FirstDBs = {a}
    Segs = {n1}
    Workers = {w1, w2}
    Sessions = {s1}
    MaxDB = 1
    EpochMod = 3
    MaxRequests = 2
    MaxCalls = 2
    MaxFaults = 0
INVARIANTS WaitSeesFullRound PauseHolds
CHECK_DEADLOCK FALSE
