SPECIFICATION Spec
CONSTANTS
    Clients = {c1, c2}
    Projects <- Two
    Files <- TwoFiles
    Routing = {"cart", "pay", "teller"}
    KeywordFiles = {"login"}
    Broken = {"teller"}
    Requests <- AllCollectors
    MaxEdits = 0
    NoClient = NoClient
INVARIANT EvidenceCurrent
