SPECIFICATION Spec
CONSTANTS
    Clients = {c1}
    Projects <- Two
    Files <- TwoFiles
    Routing = {"cart", "pay", "teller"}
    KeywordFiles = {"login"}
    Broken = {"teller"}
    Requests <- AllCollectors
    MaxEdits = 1
    NoClient = NoClient
INVARIANT SyntaxOrError
