----------------------- MODULE VerdictReductionProofs -----------------------
(***************************************************************************)
(* What the reducer promises, for every assessment and every evidence:     *)
(* any number of commands, in any order, with any results.                 *)
(***************************************************************************)
EXTENDS VerdictReduction, TLAPS

\* An assessment names every axis, and a limit gap affects some of them.
LEMMA AssessmentShape ==
    ASSUME NEW s \in Assessments
    PROVE  /\ \A x \in Axes : s.axes[x].status \in {"pass", "fail", "inconclusive"}
           /\ \A g \in s.limits : g.affected # {} /\ g.affected \subseteq Axes
<1>1. s.axes \in [Axes -> AxisAssessments] /\ s.limits \subseteq LimitGaps
  BY DEF Assessments
<1>2. \A a \in AxisAssessments : a.status \in {"pass", "fail", "inconclusive"}
  BY DEF AxisAssessments
<1>3. \A g \in LimitGaps : g.affected # {} /\ g.affected \subseteq Axes
  BY DEF LimitGaps
<1> QED BY <1>1, <1>2, <1>3

\* Every evidence gap affects an axis: no gap can stop READY without showing.
LEMMA GapsAffectAxes ==
    ASSUME NEW s \in Assessments, NEW evidence
    PROVE  EvidenceGaps(s, evidence) # {} <=>
             \E x \in Axes : x \in Affected(EvidenceGaps(s, evidence))
<1> DEFINE gaps == EvidenceGaps(s, evidence)
<1>1. "test_sufficiency" \in Axes
  BY DEF Axes
<1>2. ASSUME NEW g \in SemanticGaps(s)
      PROVE  \E x \in Axes : x \in g.affected
  BY AssessmentShape DEF SemanticGaps
<1>3. ASSUME NEW g \in VerificationGaps(evidence)
      PROVE  \E x \in Axes : x \in g.affected
  BY <1>1 DEF VerificationGaps
<1>4. ASSUME NEW g \in PreservationGaps(evidence)
      PROVE  \E x \in Axes : x \in g.affected
  BY <1>1 DEF PreservationGaps
<1>5. \A g \in gaps : \E x \in Axes : x \in g.affected
  BY <1>2, <1>3, <1>4 DEF EvidenceGaps
<1> QED BY <1>5 DEF Affected

\* When an axis is reduced to FAIL, and when to PASS.
LEMMA AxisStatusCases ==
    ASSUME NEW s \in Assessments, NEW evidence, NEW gaps, NEW x \in Axes
    PROVE  /\ AxisStatus(s, evidence, gaps, x) = "fail" <=>
                (s.axes[x].blocker \/ (x = "test_sufficiency" /\ VerificationBlocker(evidence)))
           /\ AxisStatus(s, evidence, gaps, x) = "pass" <=>
                /\ ~s.axes[x].blocker
                /\ ~(x = "test_sufficiency" /\ VerificationBlocker(evidence))
                /\ x \notin Affected(gaps)
                /\ s.axes[x].status = "pass"
BY AssessmentShape DEF AxisStatus

\* The five axes and the verdict of an artifact tell the same story.
THEOREM AxesTellTheVerdict ==
    ASSUME NEW s \in Assessments, NEW evidence
    PROVE  VerdictAgreesWithAxes(s, evidence)
<1> DEFINE gaps == EvidenceGaps(s, evidence)
           Status(x) == AxisStatus(s, evidence, gaps, x)
           Blocked == (\E x \in Axes : s.axes[x].blocker) \/ VerificationBlocker(evidence)
<1>1. Blocked <=> \E x \in Axes : Status(x) = "fail"
  <2>1. "test_sufficiency" \in Axes
    BY DEF Axes
  <2> QED BY <2>1, AxisStatusCases
<1>2. ReduceVerdict(s, evidence, gaps) = "needs_changes" <=> Blocked
  BY DEF ReduceVerdict
<1>3. ReduceVerdict(s, evidence, gaps) = "ready" <=>
        ~Blocked /\ gaps = {} /\ \A x \in Axes : Status(x) = "pass"
  BY DEF ReduceVerdict
<1>4. (\A x \in Axes : Status(x) = "pass") => ~Blocked /\ gaps = {}
  <2>1. (\A x \in Axes : Status(x) = "pass") => \A x \in Axes : x \notin Affected(gaps)
    BY AxisStatusCases
  <2>2. (\A x \in Axes : Status(x) = "pass") => ~Blocked
    BY <1>1
  <2> QED BY <2>1, <2>2, GapsAffectAxes
<1>5. \A x \in Axes : x \in Affected(gaps) => Status(x) # "pass"
  BY AxisStatusCases
<1> QED
  <2>1. /\ Review(s, evidence).verdict = ReduceVerdict(s, evidence, gaps)
        /\ \A x \in Axes : /\ Review(s, evidence).axes[x].status = Status(x)
                           /\ Review(s, evidence).axes[x].gap = (x \in Affected(gaps))
    BY DEF Review, ReduceAxes
  <2> HIDE DEF Status, gaps
  <2> QED BY <1>1, <1>2, <1>3, <1>4, <1>5, <2>1 DEF VerdictAgreesWithAxes

\* READY rests on complete evidence: every axis passed by the reviewer, no
\* limit gap, no source lost, and every required command passed.
THEOREM ReadyNeedsAll ==
    ASSUME NEW s \in Assessments, NEW evidence
    PROVE  ReadyIsComplete(s, evidence)
<1> DEFINE gaps == EvidenceGaps(s, evidence)
<1> SUFFICES ASSUME Review(s, evidence).verdict = "ready"
             PROVE  /\ \A x \in Axes : s.axes[x].status = "pass"
                    /\ s.limits = {}
                    /\ evidence.failures = {}
                    /\ \A i \in DOMAIN evidence.executions :
                         evidence.executions[i].level = "required" =>
                           evidence.executions[i].status = "passed"
  BY DEF ReadyIsComplete
<1>1. ReduceVerdict(s, evidence, gaps) = "ready"
  BY DEF Review
<1>2. /\ ~VerificationBlocker(evidence)
      /\ gaps = {}
      /\ \A x \in Axes : AxisStatus(s, evidence, gaps, x) = "pass"
  BY <1>1 DEF ReduceVerdict
<1>3. \A x \in Axes : s.axes[x].status = "pass"
  BY <1>2, AxisStatusCases
<1>4. SemanticGaps(s) = {} /\ VerificationGaps(evidence) = {} /\ PreservationGaps(evidence) = {}
  BY <1>2 DEF EvidenceGaps
<1>5. s.limits = {}
  BY <1>4 DEF SemanticGaps
<1>6. evidence.failures = {}
  BY <1>4 DEF PreservationGaps
<1>7. ASSUME NEW i \in DOMAIN evidence.executions,
             evidence.executions[i].level = "required"
      PROVE  evidence.executions[i].status = "passed"
  <2>1. ~RequiredGap(evidence.executions[i])
    BY <1>4 DEF VerificationGaps
  <2>2. ~ProvesChangeFailure(evidence.executions[i])
    BY <1>2 DEF VerificationBlocker
  <2> QED BY <1>7, <2>1, <2>2 DEF RequiredGap
<1> QED BY <1>3, <1>5, <1>6, <1>7

\* The second review has lost something of the first: an axis the reviewer no
\* longer passes, a result that became NOT_RUN, a source found changed.
LosesEvidence(s1, e1, s2, e2) ==
    /\ \A x \in Axes : s2.axes[x].status = "pass" => s1.axes[x].status = "pass"
    /\ s1.limits \subseteq s2.limits
    /\ e1.failures \subseteq e2.failures
    /\ DOMAIN e1.executions = DOMAIN e2.executions
    /\ \A i \in DOMAIN e1.executions :
         \/ e2.executions[i] = e1.executions[i]
         \/ /\ e2.executions[i].level = e1.executions[i].level
            /\ e2.executions[i].status = "not_run"

\* Nothing is gained from evidence that goes missing: a review that is READY
\* without it would have been READY with it.
THEOREM LossNeverHelps ==
    ASSUME NEW s1 \in Assessments, NEW s2 \in Assessments, NEW e1, NEW e2,
           LosesEvidence(s1, e1, s2, e2),
           Review(s2, e2).verdict = "ready"
    PROVE  Review(s1, e1).verdict = "ready"
<1>1. /\ \A x \in Axes : s2.axes[x].status = "pass"
      /\ s2.limits = {}
      /\ e2.failures = {}
      /\ \A i \in DOMAIN e2.executions :
           e2.executions[i].level = "required" => e2.executions[i].status = "passed"
  BY ReadyNeedsAll DEF ReadyIsComplete
<1>2. /\ \A x \in Axes : s1.axes[x].status = "pass"
      /\ s1.limits = {}
      /\ e1.failures = {}
  BY <1>1 DEF LosesEvidence
<1>3. \A x \in Axes : ~s1.axes[x].blocker /\ ~s1.axes[x].gap
  <2>1. \A x \in Axes : s1.axes[x] \in AxisAssessments
    BY DEF Assessments
  <2>2. \A a \in AxisAssessments : a.status = "pass" => ~a.blocker /\ ~a.gap
    BY DEF AxisAssessments
  <2> QED BY <1>2, <2>1, <2>2
<1>4. ASSUME NEW i \in DOMAIN e1.executions,
             e1.executions[i].level = "required"
      PROVE  e1.executions[i].status = "passed"
  BY <1>1, <1>4 DEF LosesEvidence
<1>5. SemanticGaps(s1) = {}
  BY <1>2, <1>3 DEF SemanticGaps
<1>6. VerificationGaps(e1) = {}
  BY <1>4 DEF VerificationGaps, RequiredGap
<1>7. PreservationGaps(e1) = {}
  BY <1>2 DEF PreservationGaps
<1>8. ~VerificationBlocker(e1)
  BY <1>4 DEF VerificationBlocker, ProvesChangeFailure
<1>9. EvidenceGaps(s1, e1) = {}
  BY <1>5, <1>6, <1>7 DEF EvidenceGaps
<1>10. \A x \in Axes : AxisStatus(s1, e1, {}, x) = "pass"
  BY <1>2, <1>3, <1>8 DEF AxisStatus, Affected
<1> QED BY <1>3, <1>8, <1>9, <1>10 DEF Review, ReduceVerdict

=============================================================================
