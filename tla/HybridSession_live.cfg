SPECIFICATION FairSpec
CONSTANTS
    Clients = {c1}
    Tools = {"tls","dep"}
    StrictTools = {"dep"}
    Paths = {"app"}
    Excludes = {"default","custom"}
    DefaultExclude = "default"
    PageSize <- TwoToolPageSize
    Requests <- RefusalRequests
    TTL = 1
    MaxTotal = 3
    MaxTime = 2
    MaxScans = 1
    MaxRestarts = 1
    NoEntry = NoEntry
    NoJob = NoJob
    NoChain = NoChain
    NoCursor = NoCursor
PROPERTIES
    ExpiredEvicted
    PaginationEnds
CHECK_DEADLOCK FALSE
