SPECIFICATION ExecutionSpec
CONSTANTS
    t = t
    u = u
    i = i
    v1 = v1
    v2 = v2
    v3 = v3
    absent = absent
    Tracked = {t}
    Untracked = {u}
    Ignored = {}
    Nested = {u}
    Versions = {v1, v2, v3}
    Absent = absent
    Unread = unread
    Initial <- MCInitial
    EditSets <- MCEditSets
    MaxEdits = 2
    Unusable = {"no argv"}
    Files = {"f0", "f1", "f2"}
    Declares <- MCDeclares
    TrustedInputs <- MCTrustedInputs
    PlannerInputs <- MCPlannerInputs
    Minimums = {"filesystem_only", "git_repository"}
    Hosts <- MCHosts
    Required = {"network", "limits"}
    GitClass <- MCGitClass
    IdOrder <- MCIdOrder
    MaxProposals = 2
    Nothing = "none yet"
    Plans <- MCPlans
    Contents = {0, 1}
    Metas = {m1, m2}
    Submissions <- MCSubmissions
    Reverts = FALSE
    None = None
INVARIANTS
    ScannedDataIsOneMoment
    FailureHasCause
    ProfilesNameTheirRaisers
    LaunchedGuidanceIsReviewed
    ApprovalIsHonest
    EvidenceIsBuildable
    EvidenceCoversPlan
    FailuresBelongToRuns
    ReadyMeansRequiredPassed
    ReadyMeansUndisturbedRuns
PROPERTIES
    CaptureAdvances
    ProposalsOnlyAdd
SYMMETRY VersionSymmetry
