SPECIFICATION FairSpec
CONSTANTS
    DBs = {a, b}
    Requesters = {r, s}
    MaxDB = 2
    Polls = 1
    MayFail = TRUE
    MaxRequests = 2
    MaxCrash = 2
INVARIANTS
    ExtensionIsListed
    BooksFollowList
    HolderIsAlone
PROPERTIES
    ImplementsService
    RequestEnds
CHECK_DEADLOCK FALSE
