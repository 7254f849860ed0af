SPECIFICATION Spec
CONSTANTS
    ScannerPage = 2
    DepPage = 2
    TriagePage = 2
    ReportPage = 2
    ScannerTop = 2
    SingleTop = 1
    ReportTop = 2
    MaxByRuleEntries = 2
    VerifiedOKRules = {4}
    Scans <- MCScans
    FirstRequests <- MCFirstRequests
    FollowRequests <- MCFollowRequests
INVARIANT
    ToolFloorHonoured
