--------------------------- MODULE ScopeIdentity ---------------------------
(***************************************************************************)
(* The repository as the setup sees it, and resolved_scope_identity: the   *)
(* value the setup stores when a scope is confirmed and compares with when *)
(* review starts.  A repository state has three layers over the same       *)
(* paths: the HEAD commit, the index and the working tree.                 *)
(***************************************************************************)
EXTENDS Naturals

CONSTANTS
    Paths,      \* paths that may differ between the layers
    Contents,   \* contents (bytes and mode) a path can have in a layer
    Absent,     \* the path is not there
    Heads,      \* commits HEAD may point at
    PinnedHead, \* ResolvedScope.expected_head_commit
    HeadTree    \* the tree of PinnedHead: [Paths -> Contents \cup {Absent}]

Layer == [Paths -> Contents \cup {Absent}]

ASSUME ScopeConstants ==
    /\ Absent \notin Contents
    /\ PinnedHead \in Heads
    /\ HeadTree \in Layer

RepoState == [head : Heads, index : Layer, work : Layer]

-----------------------------------------------------------------------------
\* git diff-index --cached HEAD: the index differs from the commit.
Staged(r) == {p \in Paths : r.index[p] # HeadTree[p]}

\* git diff-files: a tracked path whose working file differs from the index.
Unstaged(r) == {p \in Paths : r.index[p] # Absent /\ r.work[p] # r.index[p]}

\* git ls-files --others: a working file the index does not have.
Untracked(r) == {p \in Paths : r.index[p] = Absent /\ r.work[p] # Absent}

PendingPaths(r) == Staged(r) \cup Unstaged(r) \cup Untracked(r)

\* _scope_metadata raises PreflightError once HEAD has left the pinned commit.
ScopeResolves(r) == r.head = PinnedHead

\* Mutant of ResolvedScopeIdentity: the pending names without their contents.
NamesOnlyIdentity(r) ==
    [ staged |-> Staged(r), unstaged |-> Unstaged(r), untracked |-> Untracked(r),
      working |-> [p \in PendingPaths(r) |-> Absent] ]

\* The hash of the payload is injective, so the identity is the payload.  Only
\* the working file of a pending path is read: no index blob enters it.
ResolvedScopeIdentity(r) ==
    [ staged    |-> Staged(r),
      unstaged  |-> Unstaged(r),
      untracked |-> Untracked(r),
      working   |-> [p \in PendingPaths(r) |-> r.work[p]] ]

\* Every value the identity can take (for type invariants).
ScopeIdentities ==
    [ staged    : SUBSET Paths,
      unstaged  : SUBSET Paths,
      untracked : SUBSET Paths,
      working   : UNION {[P -> Contents \cup {Absent}] : P \in SUBSET Paths} ]

=============================================================================
