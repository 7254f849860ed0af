SPECIFICATION Spec
CONSTANTS
    Clients = {c1, c2}
    Tools = {"tls"}
    StrictTools = {}
    Paths = {"app"}
    Excludes = {"default","custom"}
    DefaultExclude = "default"
    PageSize <- OneToolPageSize
    Requests <- ScopeRequests
    TTL = 1
    MaxTotal = 3
    MaxTime = 1
    MaxScans = 2
    MaxRestarts = 0
    NoEntry = NoEntry
    NoJob = NoJob
    NoChain = NoChain
    NoCursor = NoCursor
SYMMETRY ClientSymmetry
INVARIANT ScopeKept
CHECK_DEADLOCK FALSE
