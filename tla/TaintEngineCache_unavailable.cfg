SPECIFICATION EngineSpec
CONSTANTS
    Callers = {c1, c2}
    Roots = {r1}
    LoadTimeout = 2
    MaxClock = 4
    NoRoot = NoRoot
    NoEngine = NoEngine
INVARIANT UnavailableIsReal
SYMMETRY CallerSymmetry
