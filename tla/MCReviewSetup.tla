--------------------------- MODULE MCReviewSetup ---------------------------
(* One PreReviewSetup over a repository with one changed path. *)
EXTENDS ReviewSetup

CONSTANTS base, edit, restage, commit1, commit2, p

MCHeadTree == [q \in {p} |-> base]
MCRepoStates == RepoState

=============================================================================
