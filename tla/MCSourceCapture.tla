-------------------------- MODULE MCSourceCapture --------------------------
(* A tracked path, and an untracked or an ignored one, edited one at a time  *)
(* or together, beside edits of the index and commits.                      *)
EXTENDS SourceCapture, TLC

CONSTANTS t, u, i, v1, v2, v3, absent

MCEditSets ==
    { {Index}, {HEAD, Index} }
      \cup UNION {{{Content(p)}, {Content(p), Mode(p)}} : p \in Paths}
      \cup {{Mode(p)} : p \in Tracked}
      \cup {PathParts(Paths)}

\* v1 is in the initial repository; the two other versions are alike.
VersionSymmetry == Permutations({v2, v3})

\* One file at least is there; the other may be missing from the start.
MCInitial ==
    { r \in [Components -> {v1, absent}] :
        /\ \A c \in Metadata : r[c] = v1
        /\ \A p \in Paths : r[Content(p)] = r[Mode(p)]
        /\ \E p \in Paths : r[Content(p)] = v1 }

=============================================================================
