--------------------------- MODULE ChangeAssembly ---------------------------
(***************************************************************************)
(* From the four layers a capture has read (merge base, HEAD, index and    *)
(* working tree) to logical changes and their contents: the events between *)
(* consecutive layers, the groups of paths they tie together, and which    *)
(* contents fit the limits.                                                *)
(*                                                                         *)
(* A layer maps every path to its content or Missing.  A content stands    *)
(* for kind, mode and bytes; a node is a path in a layer.                  *)
(***************************************************************************)
EXTENDS Integers, SequencesExt, FiniteSetsExt

CONSTANTS
    TreePaths,   \* paths
    PathSequence, \* paths in byte order
    Blobs,       \* contents
    BlobSize,    \* contents -> their sizes
    Missing,     \* no file
    ContentLimits, \* the limits explored: per file, and in total
    Bases,       \* the merge bases explored
    MaxTouched   \* bound: paths that differ between two layers

Trees == [TreePaths -> Blobs \cup {Missing}]

ASSUME AssemblyConstants ==
    /\ Bases \subseteq Trees
    /\ PathSequence \in Seq(TreePaths)
    /\ Range(PathSequence) = TreePaths
    /\ BlobSize \in [Blobs -> Nat]
    /\ Missing \notin Blobs
    /\ ContentLimits \subseteq [per_file : Nat, total : Nat]
    /\ MaxTouched \in Nat

VARIABLES
    scope,    \* ScopeMode: what is pending, or only what is committed
    layers,   \* the layers so far, the merge base first
    renames,  \* renames[i]: what is paired between the layers i and i + 1
    ending,   \* "none", "assembled" or the exception
    changes   \* the logical changes and contents when assembled

assemblyVars == <<scope, layers, renames, ending, changes>>

-----------------------------------------------------------------------------
(* Events between two layers.                                              *)

Gone(before, after) == {p \in TreePaths : before[p] # Missing /\ after[p] = Missing}
Added(before, after) == Gone(after, before)

OneToOne(pairs) ==
    \A a, b \in pairs : (a.old = b.old \/ a.new = b.new) => a = b

\* git diff -M: whatever else is found similar, exact matches are paired first.
GitRenames(before, after) ==
    LET pairs == [old : Gone(before, after), new : Added(before, after)]
        exact == {r \in pairs : before[r.old] = after[r.new]}
    IN  { m \in SUBSET pairs :
            OneToOne(m) /\ \A r \in exact \ m : ~OneToOne((m \cap exact) \cup {r}) }

\* _working_tree_scan: one deleted and one untracked file of the same content.
WorkingRenames(index, working) ==
    LET From(c) == {p \in Gone(index, working) : index[p] = c}
        To(c)   == {p \in Added(index, working) : working[p] = c}
    IN  UNION { [old : From(c), new : To(c)] :
                  c \in {b \in Blobs : Cardinality(From(b)) = 1 /\ Cardinality(To(b)) = 1} }

\* What stays when the renames of a transition are taken out.
Events(i) ==
    LET before == layers[i]
        after  == layers[i + 1]
        single == {p \in TreePaths : before[p] # after[p]}
                    \ ({r.old : r \in renames[i]} \cup {r.new : r \in renames[i]})
    IN  renames[i] \cup {[old |-> p, new |-> p] : p \in single}

Transitions == 1 .. Len(layers) - 1

-----------------------------------------------------------------------------
(* _build_groups.                                                          *)

EventPaths == UNION {{e.old, e.new} : e \in UNION {Events(i) : i \in Transitions}}

Node(layer, path) == [layer |-> layer, path |-> path]

\* Mutant of Carried: a path is always its own continuation.
CarriedAlways(i) == EventPaths

\* A path carries on into the next layer unless a rename took or made it there.
Carried(i) ==
    EventPaths \ ({r.old : r \in renames[i]} \cup {r.new : r \in renames[i]})

Links ==
    UNION { {<<Node(i, e.old), Node(i + 1, e.new)>> : e \in Events(i)}
              \cup {<<Node(i, p), Node(i + 1, p)>> : p \in Carried(i)} : i \in Transitions }

\* The disjoint sets: every link merges the groups of its ends.
Partition ==
    LET Join(link, groups) ==
          LET touched == {g \in groups : link[1] \in g \/ link[2] \in g}
          IN  (groups \ touched) \cup {UNION touched}
    IN  FoldSet(Join, {{n} : n \in [layer : DOMAIN layers, path : EventPaths]}, Links)

\* A group is kept for its events.
Groups ==
    { g \in Partition : \E i \in Transitions : \E e \in Events(i) : Node(i, e.old) \in g }

\* "logical change has multiple paths in one layer"
Ambiguous(g) == \E m, n \in g : m.layer = n.layer /\ m.path # n.path

\* A layer that a group has no path in is looked up and not found (KeyError).
Incomplete(g) == \E i \in DOMAIN layers : \A n \in g : n.layer # i

\* Mutant of Origins: an event is looked up where it ends, by its old path.
OriginsAtEnd(g) == {i \in Transitions : \E e \in Events(i) : Node(i + 1, e.old) \in g}

Origins(g) == {i \in Transitions : \E e \in Events(i) : Node(i, e.old) \in g}

PathAt(g, i) == (CHOOSE n \in g : n.layer = i).path

-----------------------------------------------------------------------------
(* _allocate_content: by path, then by layer, every content once.          *)

Candidate(k) ==
    LET n == Len(layers)
    IN  Node(((k - 1) % n) + 1, PathSequence[((k - 1) \div n) + 1])

\* Mutant of Fits: a limit is passed before it is noticed.
FitsBefore(used, blob, limits) == used <= limits.total

Fits(used, blob, limits) == used + BlobSize[blob] <= limits.total

Decision(used, blob, limits) ==
    IF BlobSize[blob] > limits.per_file THEN "per_file_limit"
    ELSE IF Fits(used, blob, limits) THEN "captured"
    ELSE "total_limit"

Decide(acc, blob, limits) ==
    LET as == Decision(acc.used, blob, limits)
    IN  [ decided |-> [b \in DOMAIN acc.decided \cup {blob} |->
                         IF b = blob THEN as ELSE acc.decided[b]],
          used |-> acc.used + IF as = "captured" THEN BlobSize[blob] ELSE 0 ]

Allocation(groups, limits) ==
    LET last == Len(layers) * Len(PathSequence)
        run[k \in 0 .. last] ==
          IF k = 0 THEN [decided |-> [b \in {} |-> "captured"], used |-> 0]
          ELSE LET n    == Candidate(k)
                   blob == layers[n.layer][n.path]
                   acc  == run[k - 1]
               IN  IF n \in UNION groups /\ blob # Missing /\ blob \notin DOMAIN acc.decided
                   THEN Decide(acc, blob, limits)
                   ELSE acc
    IN  run[last].decided

-----------------------------------------------------------------------------
ActiveLayers == IF scope = "pending" THEN 4 ELSE 2

AssemblyInit ==
    /\ scope \in {"pending", "committed_only"}
    /\ \E tree \in Bases : layers = <<tree>>
    /\ renames = <<>>
    /\ ending = "none"
    /\ changes = [groups |-> {}]

\* What the author committed, staged and left in the working tree.
NextLayer ==
    /\ ending = "none"
    /\ Len(layers) < ActiveLayers
    /\ \E tree \in Trees :
         LET last == Last(layers)
         IN  /\ Cardinality({p \in TreePaths : tree[p] # last[p]}) <= MaxTouched
             /\ layers' = Append(layers, tree)
             /\ \E pairs \in IF Len(layers) < 3 THEN GitRenames(last, tree)
                             ELSE {WorkingRenames(last, tree)} :
                  renames' = Append(renames, pairs)
    /\ UNCHANGED <<scope, ending, changes>>

Assembled(groups, limits) ==
    [ groups |-> { [ origins |-> Origins(g),
                     paths   |-> [i \in DOMAIN layers |-> PathAt(g, i)],
                     states  |-> [i \in DOMAIN layers |-> layers[i][PathAt(g, i)]] ] :
                   g \in groups },
      limits   |-> limits,
      contents |-> Allocation(groups, limits) ]

\* _capture_once, after the second scan.
Assemble ==
    /\ ending = "none"
    /\ Len(layers) = ActiveLayers
    /\ LET groups == Groups
       IN  /\ ending' = IF \E g \in groups : Ambiguous(g) THEN "InternalCaptureError"
                        ELSE IF \E g \in groups : Incomplete(g) THEN "KeyError"
                        ELSE "assembled"
           /\ IF ending' = "assembled"
              THEN \E limits \in ContentLimits : changes' = Assembled(groups, limits)
              ELSE UNCHANGED changes
    /\ UNCHANGED <<scope, layers, renames>>

AssemblyNext == NextLayer \/ Assemble

AssemblySpec == AssemblyInit /\ [][AssemblyNext]_assemblyVars

-----------------------------------------------------------------------------
(* What a ChangeSet promises.                                              *)

\* A path that was renamed away is made again, or one that was deleted is the
\* target of a later rename: the two halves of its history are two changes.
Reused ==
    \E i, j \in Transitions : i < j /\ \E p \in TreePaths :
      \/ /\ \E r \in renames[i] : r.old = p
         /\ p \in Added(layers[j], layers[j + 1]) /\ \A r \in renames[j] : r.new # p
      \/ /\ p \in Gone(layers[i], layers[i + 1]) /\ \A r \in renames[i] : r.old # p
         /\ \E r \in renames[j] : r.new = p

\* A capture that was read completely is assembled, unless a path is reused:
\* no order of commits, staging and edits gives a change two paths in a layer.
OnlyReuseStopsAssembly ==
    /\ ending # "InternalCaptureError"
    /\ ending = "KeyError" <=> (ending # "none" /\ Reused)

\* docs/05_repository_scope_and_changeset.md: a logical change preserves base,
\* HEAD, index, working and effective states, and the origins it has.
EveryChangeHasItsLayers == ending # "KeyError"

\* Every file of a layer that is not the same in all layers is the state of
\* exactly one change, and the changes of each layer differ from the next one
\* exactly where they name an origin: nothing is lost or told twice.
ChangesTellEverything ==
    ending = "assembled" =>
      /\ \A i \in DOMAIN layers, p \in TreePaths :
           layers[i][p] # Missing /\ (\E j \in DOMAIN layers : layers[j][p] # layers[i][p]) =>
             Cardinality({c \in changes.groups : c.paths[i] = p}) = 1
      /\ \A c \in changes.groups, i \in Transitions :
           i \in c.origins <=>
             (c.states[i] # c.states[i + 1] \/ c.paths[i] # c.paths[i + 1])

\* docs/05_repository_scope_and_changeset.md: the captured contents fit the total
\* limit, and what is left out for it would not fit even now.  Every content
\* of a change is decided once, wherever it appears.
ContentsFit ==
    ending = "assembled" =>
      LET decided  == changes.contents
          captured == {b \in DOMAIN decided : decided[b] = "captured"}
          used     == SumFunctionOnSet(BlobSize, captured)
      IN  /\ DOMAIN decided = (UNION {Range(c.states) : c \in changes.groups}) \ {Missing}
          /\ used <= changes.limits.total
          /\ \A b \in DOMAIN decided :
               /\ decided[b] = "per_file_limit" <=> BlobSize[b] > changes.limits.per_file
               /\ decided[b] = "total_limit" => used + BlobSize[b] > changes.limits.total

=============================================================================
