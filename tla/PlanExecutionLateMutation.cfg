SPECIFICATION Spec
CONSTANTS
    Plans <- MCPlans
    Contents = {0, 1}
    Metas = {m1, m2}
    Submissions <- MCSubmissions
    Reverts = FALSE
    None = None
INVARIANTS
    DetectedMutationPreventsReady
