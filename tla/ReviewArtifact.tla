--------------------------- MODULE ReviewArtifact ---------------------------
(***************************************************************************)
(* build_review_artifact: what is persisted of a review.  The verdict and  *)
(* the axes are reduced from everything; check summaries and evidence gaps *)
(* are cut at the limits of the schema, with an index of the whole.        *)
(***************************************************************************)
EXTENDS VerdictReduction, FiniteSets

CONSTANTS
    MaxChecks,   \* summaries an artifact holds
    MaxGaps,     \* gaps an artifact holds
    Digest,      \* checks -> the order of their SHA-256 digests
    FieldDigest, \* fields of limit gaps -> the order of theirs
    OrdinalOrder \* ordinals of commands -> their place in string order

\* Structural checks and commands, as they are named here.
Floor == {"scope-capture", "source-preservation", "result-classification"}
FloorCheck(id) == [id |-> id, ordinal |-> 0]
CommandCheck(i) == [id |-> "command", ordinal |-> i]

ASSUME ArtifactLimits ==
    /\ {MaxChecks, MaxGaps} \subseteq Nat \ {0}
    /\ {FloorCheck(id) : id \in Floor} \subseteq DOMAIN Digest
    /\ \A c \in DOMAIN Digest : Digest[c] \in Nat
    /\ \A i \in DOMAIN OrdinalOrder : OrdinalOrder[i] \in Nat

-----------------------------------------------------------------------------
(* _check_summaries.                                                       *)

Summary(check, level, outcome, kind, gap) ==
    [check |-> check, level |-> level, outcome |-> outcome, kind |-> kind, gap |-> gap]

FloorSummary(id, evidence) ==
    LET lost == id = "source-preservation" /\ evidence.failures # {}
    IN  Summary(FloorCheck(id), "required",
                IF lost THEN "evidence_gap" ELSE "satisfied", "none", lost)

CommandSummary(i, r) == Summary(CommandCheck(i), r.level, r.status, r.kind, RequiredGap(r))

CheckSummaries(evidence) ==
    {FloorSummary(id, evidence) : id \in Floor}
      \cup {CommandSummary(i, evidence.executions[i]) : i \in DOMAIN evidence.executions}

\* The change made this required check fail.
Blocks(summary) ==
    summary.level = "required" /\ summary.outcome = "failed" /\ summary.kind = "verification"

-----------------------------------------------------------------------------
(* What is retained.                                                       *)

\* Mutant of RetainedBefore: the digest decides.
RetainedBeforeByDigest(a, b) == Digest[a.check] < Digest[b.check]

\* Failures the change made come first, then gaps, then the digest decides.
RetainedBefore(a, b) ==
    \/ Blocks(a) /\ ~Blocks(b)
    \/ Blocks(a) = Blocks(b) /\ a.gap /\ ~b.gap
    \/ Blocks(a) = Blocks(b) /\ a.gap = b.gap /\ Digest[a.check] < Digest[b.check]

\* The first summaries in that order.
RetainedChecks(evidence) ==
    { c \in CheckSummaries(evidence) :
        Cardinality({d \in CheckSummaries(evidence) : RetainedBefore(d, c)}) < MaxChecks }

\* Gaps are ordered by their IDs, which begin with what they are about.
GapRank(gap) ==
    CASE gap.kind = "semantic_limit" -> 0
      [] gap.kind = "semantic" -> 1
      [] gap.kind = "source_preservation" -> 2
      [] gap.kind = "verification" -> 3

AxisRank(x) ==
    CASE x = "contextual_security" -> 0 [] x = "impact" -> 1 [] x = "spec" -> 2
      [] x = "standards" -> 3 [] x = "test_sufficiency" -> 4

ConcernRank(c) == CASE c = "identifier" -> 0 [] c = "prose" -> 1 [] c = "collection" -> 2

\* Within a kind: by concern and field, by axis, or by ordinal.
GapBefore(a, b) ==
    \/ GapRank(a) < GapRank(b)
    \/ /\ GapRank(a) = GapRank(b)
       /\ CASE a.kind = "semantic_limit" ->
                 \/ ConcernRank(a.limit.concern) < ConcernRank(b.limit.concern)
                 \/ /\ a.limit.concern = b.limit.concern
                    /\ FieldDigest[a.limit.field] < FieldDigest[b.limit.field]
            [] a.kind = "semantic" ->
                 \E x \in a.affected, y \in b.affected : AxisRank(x) < AxisRank(y)
            [] OTHER -> OrdinalOrder[a.ordinal] < OrdinalOrder[b.ordinal]

RetainedGaps(gaps) == {g \in gaps : Cardinality({d \in gaps : GapBefore(d, g)}) < MaxGaps}

Index(all, retained, blocking, required) ==
    [ count |-> Cardinality(all), retained |-> Cardinality(retained),
      omitted |-> Cardinality(all \ retained), blocking |-> blocking, required |-> required ]

\* _canonical_payload.
Artifact(s, evidence) ==
    LET gaps   == EvidenceGaps(s, evidence)
        checks == CheckSummaries(evidence)
    IN  [ verdict     |-> ReduceVerdict(s, evidence, gaps),
          axes        |-> ReduceAxes(s, evidence, gaps),
          checks      |-> RetainedChecks(evidence),
          check_index |-> Index(checks, RetainedChecks(evidence),
                                Cardinality({c \in checks : Blocks(c)}),
                                Cardinality({c \in checks : c.gap})),
          gaps        |-> RetainedGaps(gaps),
          gap_index   |-> Index(gaps, RetainedGaps(gaps), 0, Cardinality(gaps)) ]

-----------------------------------------------------------------------------
\* What was cut is never the reason: an artifact whose verdict rests on a failed
\* command shows such a command, every axis that a gap holds back shows a gap
\* that does, and a READY artifact has nothing to hide.
ReasonsAreShown(s, evidence) ==
    LET a == Artifact(s, evidence)
    IN  /\ a.check_index.blocking > 0 <=> \E c \in a.checks : Blocks(c)
        /\ \A c \in CheckSummaries(evidence) \ a.checks, d \in a.checks :
             Blocks(c) => Blocks(d)
        /\ \A x \in Axes : a.axes[x].gap => \E g \in a.gaps : x \in g.affected
        /\ a.verdict = "ready" =>
             a.check_index.blocking + a.check_index.required + a.gap_index.count = 0

=============================================================================
