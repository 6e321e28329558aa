SPECIFICATION SessionSpec
CONSTANTS
    Sessions = {s1}
    Paths = {p}
    Contents = {base, edit, edit2}
    base = base
    edit = edit
    edit2 = edit2
    p = p
    Absent = absent
    commit1 = commit1
    Heads = {commit1}
    PinnedHead = commit1
    HeadTree <- MCHeadTree
    RepoStates <- MCRepoStates
    ScopeChoices = {"working-changes"}
    VerificationChoices = {"authorize", "review-without-execution"}
    Checks = {k1}
    Capabilities = {host}
    Policies = {limits, wider}
    Authorizations <- MCAuthorizations
    Damaged = damaged
    Retries = TRUE
    MaxRuns = 2
    MaxMisplaced = 1
    None = None
INVARIANTS
    ExecutionIsConsented
PROPERTIES
    EvidenceWrittenOnce
    PersistedEvidenceEndsExecution
