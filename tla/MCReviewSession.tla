-------------------------- MODULE MCReviewSession --------------------------
(* One path with two pending edits; the plan may be replaced by another.   *)
EXTENDS ReviewSession, TLC

CONSTANTS base, edit, edit2, commit1, p

MCHeadTree == [q \in {p} |-> base]

Work(c) == [head |-> commit1, index |-> MCHeadTree, work |-> [q \in {p} |-> c]]
MCRepoStates == {Work(edit), Work(edit2)}

MCAuthorizations ==
    [ plan : [changeset : MCRepoStates, checks : Checks],
      capability : Capabilities, policy : Policies ]

SessionSymmetry == Permutations(Sessions)

=============================================================================
