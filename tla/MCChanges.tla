----------------------------- MODULE MCChanges -----------------------------
(* Three paths, so that a rename can meet another path's history, and two    *)
(* contents of different size.                                               *)
EXTENDS ChangeAssembly

MCTreePaths == {"a", "b", "c"}
MCPathSequence == <<"a", "b", "c">>
MCBlobs == {"x", "y"}
MCBlobSize == [b \in MCBlobs |-> IF b = "x" THEN 1 ELSE 2]

\* Every merge base, up to the names of its paths.
Rank(content) == CASE content = "x" -> 1 [] content = "y" -> 2 [] OTHER -> 3
MCBases ==
    {t \in Trees : Rank(t["a"]) <= Rank(t["b"]) /\ Rank(t["b"]) <= Rank(t["c"])}

MCContentLimits ==
    {[per_file |-> 2, total |-> 3], [per_file |-> 2, total |-> 2], [per_file |-> 1, total |-> 2]}

=============================================================================
