SPECIFICATION Spec
CONSTANTS
    Scanners <- ThreeScanners
    Covers <- ThreeCovers
    Reqs <- AllReqs
    SbomReq = "6.3.2"
    Rules <- TwoRules
    IgnoredPatterns = {"mock/**"}
    Outputs <- ThreeOutputs
INVARIANTS
    TypeOK
    NeverSilentlyDropped
    ExclusionsAccounted
    FailIffShown
    CrossReferenceStable
    SummaryHonest
