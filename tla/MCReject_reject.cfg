SPECIFICATION FairSpec
CONSTANTS
    Tables = {t}
    Segs = {n1}
    Roles = {r, s}
    MaxVer = 2
    MaxToggles = 2
    MaxFaults = 1
INVARIANTS  BlockedOnlyIfRejected DropSweepsMaps
PROPERTIES  RefusalEnds
CHECK_DEADLOCK FALSE
