SPECIFICATION FairSpec
CONSTANTS
    Procs = {p1, p2}
    Canonical = Canonical
    FreshTTL = 1
    StaleTTL = 2
    DayLength = 1
    MaxFeed = 2
    MaxTime = 1
    InitFiles <- Found
    NoFile = NoFile
    NoMeta = NoMeta
    Free = Free
INVARIANTS
    TypeOK
    TouchHonest
    FreshUnlessAnnounced
PROPERTIES NeverRegress WaiterEnds
CHECK_DEADLOCK FALSE
