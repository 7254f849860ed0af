SPECIFICATION Spec
CONSTANTS
    Clients = {c1, c2}
    Projects <- Two
    Files <- TwoFiles
    Routing = {"cart", "pay", "teller"}
    KeywordFiles = {"login"}
    Broken = {"teller"}
    Requests <- AllCollectors
    MaxEdits = 1
    NoClient = NoClient
INVARIANTS
    TypeOK
    FreshWhenAlone
    SameEvidence
    Accounted
SYMMETRY ClientSymmetry
