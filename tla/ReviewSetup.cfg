SPECIFICATION SetupSpec
CONSTANTS
    Sessions = {s1}
    Paths = {p}
    Contents = {base, edit, restage}
    base = base
    edit = edit
    restage = restage
    p = p
    Absent = absent
    commit1 = commit1
    commit2 = commit2
    Heads = {commit1, commit2}
    PinnedHead = commit1
    HeadTree <- MCHeadTree
    RepoStates <- MCRepoStates
    ScopeChoices = {"working-changes", "current-branch"}
    VerificationChoices = {"authorize", "review-without-execution", "customize-authorization"}
    Authorizations = {b1, b2}
    None = None
INVARIANTS
    TypeOK
    BindingFollowsAnswer
    ReadyBindingWasConfirmed
    DetailMatchesAnswer
    ReviewedWorkIsConfirmedWork
CHECK_DEADLOCK TRUE
