SPECIFICATION Spec
CONSTANTS
    MaxFindings = 2
    MaxComparisons = 1
    MaxComparisonSources = 2
    MaxLimitGaps = 2
    MaxChecks = 3
    MaxGaps = 8
    Digest <- MCDigest
    FieldDigest <- MCFieldDigest
    OrdinalOrder <- MCOrdinalOrder
    Reviews <- MCReviews
    Withdrawable = {"spec", "test_sufficiency", "impact"}
INVARIANTS
    AxesAgreeWithVerdict
    ReadyNeedsEverything
    AcceptedDraftsAreReducible
    UnestablishedIsNeverReady
    OverflowCanBeDeclared
    ReasonsStayVisible
PROPERTIES
    LossNeverMakesReady
CHECK_DEADLOCK FALSE
