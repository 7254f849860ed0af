SPECIFICATION Spec
CONSTANTS
    Procs = {p1, p2}
    Canonical = Canonical
    FreshTTL = 1
    StaleTTL = 2
    DayLength = 2
    MaxFeed = 2
    MaxTime = 2
    InitFiles <- OldCanonical
    NoFile = NoFile
    NoMeta = NoMeta
    Free = Free
SYMMETRY ProcSymmetry
INVARIANT UpdateTakesEffect
CHECK_DEADLOCK FALSE
