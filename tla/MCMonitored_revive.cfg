SPECIFICATION FairSpec
CONSTANTS
    DBs = {a}
    FirstDBs = {a}
    Segs = {n1}
    Workers = {w1, w2}
    Sessions = {s1}
    MaxDB = 1
    EpochMod = 3
    MaxRequests = 2
    MaxCalls = 1
    MaxFaults = 1
INVARIANTS  LiveWorkerHasEntry
PROPERTIES LostEntryComesBack UnreadyEnds
CHECK_DEADLOCK FALSE
