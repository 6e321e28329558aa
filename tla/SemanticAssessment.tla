------------------------- MODULE SemanticAssessment -------------------------
(***************************************************************************)
(* What a reviewer submits and what build_semantic_assessment makes of it: *)
(* a signal that a collection is too long, an error, or an assessment that *)
(* the reducer accepts.                                                    *)
(*                                                                         *)
(* A draft is what the reviewer submits: the requirement sources reviewed, *)
(* the comparisons in the order made, the findings with the axes that name *)
(* them, the five axes and the limit gaps.  A scope is what it is bound    *)
(* to: the winning requirement sources, the Standards sources, and what    *)
(* can be referred to of each kind.  An identity is the value it hashes.   *)
(***************************************************************************)
EXTENDS VerdictReduction, FiniteSets

CONSTANTS
    MaxFindings,         \* findings of an assessment
    MaxComparisons,      \* requirement comparisons of an assessment
    MaxComparisonSources,\* sources of one comparison
    MaxLimitGaps         \* limit gaps of an assessment

ASSUME AssessmentLimits ==
    /\ {MaxFindings, MaxComparisons, MaxLimitGaps} \subseteq Nat \ {0}
    /\ MaxComparisonSources \in Nat \ {0, 1}

ReferenceKinds ==
    {"change_path", "discovery_source", "plan_check", "execution", "source_preservation"}

SpecCategories == {"spec_mismatch", "spec_partial", "spec_contradiction", "out_of_scope"}

CategoryAxis ==
    [ c \in SpecCategories \cup {"standard_violation", "impact_regression", "test_gap",
                                 "contextual_security", "unsupported_suspicion"} |->
        CASE c \in SpecCategories -> "spec"
          [] c = "standard_violation" -> "standards"
          [] c = "impact_regression" -> "impact"
          [] c = "test_gap" -> "test_sufficiency"
          [] OTHER -> "contextual_security" ]

ConfirmedBlocker(f) == f.state = "confirmed" /\ f.blocking

\* A draft of the models' types, as far as they matter here.
IsTyped(draft) ==
    /\ draft = [ reviewed |-> draft.reviewed, comparisons |-> draft.comparisons,
                 findings |-> draft.findings, axes |-> draft.axes, limits |-> draft.limits ]
    /\ draft.comparisons \in Seq({draft.comparisons[i] : i \in DOMAIN draft.comparisons})
    /\ IsFiniteSet(draft.limits)
    /\ draft.axes \in [Axes -> [status : {"pass", "fail", "inconclusive"}, gap : BOOLEAN]]
    /\ \A g \in draft.limits :
         /\ g.concern \in {"collection", "prose", "identifier"}
         /\ g.field \in LimitFields
         /\ g.affected \in (SUBSET Axes) \ {{}}

\* What a finding cites of a kind.
Cited(f, kind) == {r.identifier : r \in {q \in f.evidence : q.kind = kind}}

Withdrawn(axis) == axis.status = "inconclusive" /\ axis.gap

-----------------------------------------------------------------------------
(* Limit gaps.                                                             *)

SignalGap(field, affected, input) ==
    [concern |-> "collection", field |-> field, affected |-> affected, input |-> input]

\* _requirement_comparison_limit_gap: bound to the comparisons that are kept.
ComparisonGap(kept) ==
    SignalGap("requirement_comparisons", {"spec"}, {kept[i] : i \in DOMAIN kept})

\* The collections are bounded in this order; the first one too long is
\* signalled.
Overflowing(draft) ==
    IF Cardinality(draft.findings) > MaxFindings THEN "findings"
    ELSE IF Len(draft.comparisons) > MaxComparisons THEN "requirement_comparisons"
    ELSE IF Cardinality(draft.limits) > MaxLimitGaps THEN "limit_gaps"
    ELSE "none"

Kept(draft) == SubSeq(draft.comparisons, 1, MaxComparisons)

\* Mutant of Signal: the gap is bound to everything that was consumed.
SignalConsumed(draft) ==
    CASE Overflowing(draft) = "findings" -> SignalGap("findings", Axes, {})
      [] Overflowing(draft) = "requirement_comparisons" -> ComparisonGap(draft.comparisons)
      [] Overflowing(draft) = "limit_gaps" -> SignalGap("limit_gaps", Axes, {})

\* The gap of SemanticLimitExceeded.
Signal(draft) ==
    CASE Overflowing(draft) = "findings" -> SignalGap("findings", Axes, {})
      [] Overflowing(draft) = "requirement_comparisons" -> ComparisonGap(Kept(draft))
      [] Overflowing(draft) = "limit_gaps" -> SignalGap("limit_gaps", Axes, {})

-----------------------------------------------------------------------------
(* The contract of the models: _validate_semantic_assessment_contract and  *)
(* the validators of findings, axes and comparisons.                       *)

FindingIsValid(f) ==
    /\ f.axis = CategoryAxis[f.category]
    /\ f.blocking => f.state = "confirmed"
    /\ f.category = "unsupported_suspicion" => f.state # "confirmed" /\ ~f.blocking
    /\ f.evidence # {}

\* Mutant of BlockersHeeded: an axis may pass over its own blocker.
BlockersUnheeded(draft) == TRUE

\* No axis passes that owns a confirmed blocking finding.
BlockersHeeded(draft) ==
    \A x \in Axes : draft.axes[x].status = "pass" =>
      ~ \E f \in draft.findings : x \in f.owners /\ ConfirmedBlocker(f)

ContractHolds(draft) ==
    /\ \A f \in draft.findings : FindingIsValid(f) /\ f.owners = {f.axis}
    /\ \A f, g \in draft.findings : f.id = g.id => f = g
    /\ \A x \in Axes : draft.axes[x].gap => draft.axes[x].status = "inconclusive"
    /\ BlockersHeeded(draft)
    /\ \A i, j \in DOMAIN draft.comparisons :
         /\ Cardinality(draft.comparisons[i].sources) \in 2 .. MaxComparisonSources
         /\ draft.comparisons[i].sources = draft.comparisons[j].sources => i = j
    /\ \A c, d \in draft.limits : c.concern = d.concern /\ c.field = d.field => c = d
    /\ \A c \in draft.limits : c.concern = "collection" =>
         \A x \in c.affected : Withdrawn(draft.axes[x])

-----------------------------------------------------------------------------
(* load_semantic_assessment.                                               *)

ReferencesExist(scope, draft) ==
    \A f \in draft.findings, kind \in ReferenceKinds : Cited(f, kind) \subseteq scope.known[kind]

\* What a confirmed finding has to cite.
CitesItsGround(scope, f) ==
    CASE f.category = "standard_violation" ->
           Cited(f, "discovery_source") \cap scope.standards # {}
      [] f.category \in SpecCategories ->
           Cited(f, "discovery_source") \cap scope.winning # {}
      [] f.category = "contextual_security" -> Cited(f, "change_path") # {}
      [] f.category = "test_gap" ->
           Cited(f, "change_path") \cup Cited(f, "plan_check") \cup Cited(f, "execution") # {}
      [] f.category = "impact_regression" ->
           Cited(f, "change_path") \cup Cited(f, "execution") # {}

\* _validate_requirement_reviewed_set.
ReviewedSetHolds(scope, draft) ==
    draft.reviewed = scope.winning \/ Withdrawn(draft.axes["spec"])

\* The fields whose limit gaps speak of the comparisons: their list, and
\* whatever is inside one of them.
ComparisonFields == {"requirement_comparisons", "requirement_comparisons.text"}

\* _validate_requirement_completeness.
ComparisonsHold(scope, draft) ==
    LET supplied == {g \in draft.limits : g.field \in ComparisonFields}
    IN  /\ supplied # {} =>
             /\ Len(draft.comparisons) = MaxComparisons
             /\ supplied = {ComparisonGap(draft.comparisons)}
        /\ draft.comparisons # <<>> => Cardinality(scope.winning) > 1
        /\ \A i \in DOMAIN draft.comparisons : draft.comparisons[i].sources \subseteq scope.winning

OwnSpecFindings(draft) == {f \in draft.findings : "spec" \in f.owners}

Contradictions(draft) ==
    {c \in {draft.comparisons[i] : i \in DOMAIN draft.comparisons} : c.relation = "contradictory"}

\* Mutant of RequirementsHold: a contradiction is only recorded.
RequirementsHoldIfThere(scope, draft) ==
    scope.winning = {} =>
      /\ Withdrawn(draft.axes["spec"])
      /\ \E f \in OwnSpecFindings(draft) :
           f.state = "evidence_gap" /\ f.category \in SpecCategories

\* _validate_requirement_semantics: no requirement, or two that contradict
\* each other, leave the spec axis without an answer, and a finding says so.
RequirementsHold(scope, draft) ==
    /\ scope.winning = {} =>
         /\ Withdrawn(draft.axes["spec"])
         /\ \E f \in OwnSpecFindings(draft) :
              f.state = "evidence_gap" /\ f.category \in SpecCategories
    /\ Contradictions(draft) # {} => Withdrawn(draft.axes["spec"])
    /\ \A c \in Contradictions(draft) :
         \E f \in OwnSpecFindings(draft) :
           /\ f.category = "spec_contradiction" /\ f.state = "evidence_gap" /\ ~f.blocking
           /\ c.sources \subseteq Cited(f, "discovery_source")

Loads(scope, draft) ==
    /\ ContractHolds(draft)
    /\ ReferencesExist(scope, draft)
    /\ \A f \in draft.findings : f.state = "confirmed" => CitesItsGround(scope, f)
    /\ ReviewedSetHolds(scope, draft)
    /\ ComparisonsHold(scope, draft)
    /\ RequirementsHold(scope, draft)

\* build_semantic_assessment returns; otherwise it signals or raises.
Accepted(scope, draft) == Overflowing(draft) = "none" /\ Loads(scope, draft)

\* What the reducer sees of an accepted draft.
Assessment(draft) ==
    [ axes |-> [x \in Axes |->
        [ status  |-> draft.axes[x].status,
          blocker |-> \E f \in draft.findings : x \in f.owners /\ ConfirmedBlocker(f),
          gap     |-> draft.axes[x].gap ]],
      limits |-> {[concern |-> g.concern, field |-> g.field, affected |-> g.affected] :
                   g \in draft.limits} ]

-----------------------------------------------------------------------------
(* docs/09_v1_skill_runbook.md: after the signal the reviewer keeps what   *)
(* fits, preserves the gap and withdraws the axes it affects.              *)

WithdrawAxes(draft, affected) ==
    [draft EXCEPT !.axes = [x \in Axes |->
        IF x \in affected THEN [status |-> "inconclusive", gap |-> TRUE] ELSE draft.axes[x]]]

Shortened(draft) ==
    WithdrawAxes([draft EXCEPT !.comparisons = Kept(draft)], Signal(draft).affected)

Declared(draft) == [Shortened(draft) EXCEPT !.limits = @ \cup {Signal(draft)}]

-----------------------------------------------------------------------------
(* What an accepted draft promises.                                        *)

\* Every draft that is accepted is an assessment the reducer was written for.
AcceptedIsReducible(scope, draft) ==
    Accepted(scope, draft) => Assessment(draft) \in Assessments

\* docs/02_review_and_verdict_contracts.md: whoever did not review all the winning
\* requirements, found none or contradictory ones, or lost comparisons to the
\* limit, cannot have a READY review, whatever the evidence.
UnestablishedSpecBlocksReady(scope, draft, evidence) ==
    /\ Accepted(scope, draft)
    /\ \/ scope.winning = {}
       \/ draft.reviewed # scope.winning
       \/ Contradictions(draft) # {}
       \/ \E g \in draft.limits : g.concern = "collection"
    => Review(Assessment(draft), evidence).verdict # "ready"

\* A signalled overflow of comparisons is no dead end: if what is left of the
\* draft would be accepted, it is accepted together with the signalled gap.
OverflowIsDeclarable(scope, draft) ==
    /\ Overflowing(draft) = "requirement_comparisons"
    /\ Cardinality(draft.limits) < MaxLimitGaps
    /\ Accepted(scope, Shortened(draft))
    => Accepted(scope, Declared(draft))

=============================================================================
