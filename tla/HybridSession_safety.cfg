SPECIFICATION Spec
CONSTANTS
    Clients = {c1, c2}
    Tools = {"tls"}
    StrictTools = {}
    Paths = {"app"}
    Excludes = {"default"}
    DefaultExclude = "default"
    PageSize <- OneToolPageSize
    Requests <- OneToolRequests
    TTL = 1
    MaxTotal = 3
    MaxTime = 2
    MaxScans = 2
    MaxRestarts = 1
    NoEntry = NoEntry
    NoJob = NoJob
    NoChain = NoChain
    NoCursor = NoCursor
SYMMETRY ClientSymmetry
INVARIANTS
    TypeOK
    PagesContiguous
    CompleteMeansAll
    LostOnlyByExpiry
CHECK_DEADLOCK FALSE
