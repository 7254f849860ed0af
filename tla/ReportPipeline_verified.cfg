SPECIFICATION Spec
CONSTANTS
    Scanners <- ThreeScanners
    Covers <- ThreeCovers
    Reqs <- AllReqs
    SbomReq = "6.3.2"
    Rules <- TwoRules
    IgnoredPatterns = {"mock/**"}
    Outputs <- ThreeOutputs
INVARIANT PassMeansVerified
