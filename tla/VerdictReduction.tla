------------------------- MODULE VerdictReduction -------------------------
(***************************************************************************)
(* The deterministic reducer: from a semantic assessment and verification  *)
(* evidence to evidence gaps, five reduced axes and one verdict.  Pure     *)
(* operators; findings are abstracted to "this axis owns a confirmed       *)
(* blocking finding", the only thing about them the reducer looks at.      *)
(***************************************************************************)
EXTENDS Naturals, Sequences

Axes == {"spec", "standards", "impact", "test_sufficiency", "contextual_security"}
Levels == {"required", "advisory"}
Statuses == {"passed", "failed", "not_run", "timed_out", "errored", "cancelled"}
FailureKinds ==
    { "verification", "unclassified", "infrastructure", "capability",
      "configuration", "permission" }

-----------------------------------------------------------------------------
(* Inputs.                                                                 *)

\* One axis of a SemanticAssessment, after the model validators.
AxisAssessments ==
    { a \in [status : {"pass", "fail", "inconclusive"}, blocker : BOOLEAN, gap : BOOLEAN] :
        /\ a.gap => a.status = "inconclusive"
        /\ a.blocker => a.status # "pass" }

\* A collection overflow obliges every axis it affects to be a gap.
CollectionGapsDeclared(s) ==
    \A g \in s.limits : g.concern = "collection" =>
      \A x \in g.affected : s.axes[x].gap

\* The limit gaps of an assessment: the field that overflowed, and what it affects.
LimitFields ==
    {"requirement_comparisons", "requirement_comparisons.text", "findings", "limit_gaps", "text"}
LimitGaps == [ concern : {"collection", "prose", "identifier"}, field : LimitFields,
               affected : (SUBSET Axes) \ {{}} ]

Assessments ==
    { s \in [axes : [Axes -> AxisAssessments], limits : SUBSET LimitGaps] :
        CollectionGapsDeclared(s) }

\* A command result; kind is None-like "none" exactly when it passed.
Result(level, status, kind) == [level |-> level, status |-> status, kind |-> kind]

\* A trusted caller's attribution proves that the change made the check fail.
ProvesChangeFailure(r) ==
    r.level = "required" /\ r.status = "failed" /\ r.kind = "verification"

\* Mutant of RequiredGap: what never ran is nobody's failure.
RequiredGapAfterLaunch(r) ==
    r.level = "required" /\ r.status \notin {"passed", "not_run"} /\ ~ProvesChangeFailure(r)

\* execute_request and ExecutionResult agree on required_evidence_gap.
RequiredGap(r) ==
    r.level = "required" /\ r.status # "passed" /\ ~ProvesChangeFailure(r)

-----------------------------------------------------------------------------
(* _evidence_gaps.  Evidence is a sequence of results, whose ordinals count *)
(* from 0, and the ordinals whose source-preservation failed.               *)

\* Mutant of SemanticGaps: limit gaps are left to the report.
SemanticGapsWithoutLimits(s) ==
    { [kind |-> "semantic", affected |-> {x}] :
        x \in {y \in Axes : s.axes[y].gap \/ s.axes[y].status = "inconclusive"} }

SemanticGaps(s) ==
    { [kind |-> "semantic", affected |-> {x}] :
        x \in {y \in Axes : s.axes[y].gap \/ s.axes[y].status = "inconclusive"} }
      \cup {[kind |-> "semantic_limit", affected |-> g.affected, limit |-> g] : g \in s.limits}

VerificationGaps(evidence) ==
    { [kind |-> "verification", affected |-> {"test_sufficiency"}, ordinal |-> i - 1] :
        i \in {j \in DOMAIN evidence.executions : RequiredGap(evidence.executions[j])} }

\* Mutant of PreservationGaps: only required commands matter.
PreservationGapsOfRequired(evidence) ==
    {[kind |-> "source_preservation", affected |-> Axes, ordinal |-> i] :
       i \in {j \in evidence.failures : evidence.executions[j + 1].level = "required"}}

PreservationGaps(evidence) ==
    {[kind |-> "source_preservation", affected |-> Axes, ordinal |-> i] :
       i \in evidence.failures}

EvidenceGaps(s, evidence) ==
    SemanticGaps(s) \cup VerificationGaps(evidence) \cup PreservationGaps(evidence)

Affected(gaps) == UNION {g.affected : g \in gaps}

-----------------------------------------------------------------------------
(* _reduce_axes and _reduce_verdict.                                       *)

VerificationBlocker(evidence) ==
    \E i \in DOMAIN evidence.executions : ProvesChangeFailure(evidence.executions[i])

\* Mutant of AxisStatus: what the axis claims outranks a gap.
AxisStatusAsClaimed(s, evidence, gaps, x) ==
    IF s.axes[x].blocker \/ (x = "test_sufficiency" /\ VerificationBlocker(evidence))
    THEN "fail" ELSE s.axes[x].status

\* A failure outranks a gap, a gap outranks what the axis claims, and a
\* claimed failure without a blocking finding is only inconclusive.
AxisStatus(s, evidence, gaps, x) ==
    LET fails == \/ s.axes[x].blocker
                 \/ x = "test_sufficiency" /\ VerificationBlocker(evidence)
    IN  IF fails THEN "fail"
        ELSE IF x \in Affected(gaps) \/ s.axes[x].status = "fail" THEN "inconclusive"
        ELSE s.axes[x].status

ReduceAxes(s, evidence, gaps) ==
    [x \in Axes |-> [status |-> AxisStatus(s, evidence, gaps, x),
                     gap |-> x \in Affected(gaps)]]

ReduceVerdict(s, evidence, gaps) ==
    IF (\E x \in Axes : s.axes[x].blocker) \/ VerificationBlocker(evidence)
    THEN "needs_changes"
    ELSE IF gaps # {} \/ \E x \in Axes : AxisStatus(s, evidence, gaps, x) # "pass"
         THEN "inconclusive"
         ELSE "ready"

\* finalize_review: the axes and the verdict of the artifact.
Review(s, evidence) ==
    LET gaps == EvidenceGaps(s, evidence)
    IN  [ axes    |-> ReduceAxes(s, evidence, gaps),
          verdict |-> ReduceVerdict(s, evidence, gaps) ]

-----------------------------------------------------------------------------
(* What the reducer promises of any assessment s and evidence.             *)

\* docs/02: READY is five PASS axes, a blocker is NEEDS_CHANGES.  The axes and
\* the verdict are reduced separately; they never tell different stories.
VerdictAgreesWithAxes(s, evidence) ==
    LET r == Review(s, evidence)
    IN  /\ r.verdict = "ready" <=> \A x \in Axes : r.axes[x].status = "pass"
        /\ r.verdict = "needs_changes" <=> \E x \in Axes : r.axes[x].status = "fail"
        /\ \A x \in Axes : r.axes[x].gap => r.axes[x].status # "pass"

\* READY rests on a reviewer who passed every axis without a limit gap, on
\* every required command having passed, and on an undisturbed source.
ReadyIsComplete(s, evidence) ==
    Review(s, evidence).verdict = "ready" =>
      /\ \A x \in Axes : s.axes[x].status = "pass"
      /\ s.limits = {}
      /\ evidence.failures = {}
      /\ \A i \in DOMAIN evidence.executions :
           evidence.executions[i].level = "required" =>
             evidence.executions[i].status = "passed"

=============================================================================
