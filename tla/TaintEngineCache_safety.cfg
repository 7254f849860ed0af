SPECIFICATION EngineFairSpec
CONSTANTS
    Callers = {c1, c2, c3}
    Roots = {r1}
    LoadTimeout = 2
    MaxClock = 3
    NoRoot = NoRoot
    NoEngine = NoEngine
INVARIANTS
    EngineTypeOK
    OneLoadPerRoot
    SameEngine
    WaitBounded
PROPERTY CallerReturns
