----------------------- MODULE ReviewReductionProofs -----------------------
(***************************************************************************)
(* What is accepted of a reviewer, what becomes of it when evidence is     *)
(* lost or axes are withdrawn, and what an artifact shows of it, for every *)
(* scope, draft and evidence and for all limits of the collections.        *)
(***************************************************************************)
EXTENDS ReviewReduction, VerdictReductionProofs, SequenceTheorems, FiniteSetTheorems,
        WellFoundedInduction

\* An axis of an accepted draft, as the reducer sees it.
LEMMA AcceptedAxis ==
    ASSUME NEW sc, NEW dr, IsTyped(dr), Accepted(sc, dr), NEW x \in Axes
    PROVE  Assessment(dr).axes[x] \in AxisAssessments
<1> DEFINE blocker == \E f \in dr.findings : x \in f.owners /\ ConfirmedBlocker(f)
           axis == [status |-> dr.axes[x].status, blocker |-> blocker, gap |-> dr.axes[x].gap]
<1>1. Assessment(dr).axes[x] = axis
  BY DEF Assessment
<1>2. dr.axes[x].status \in {"pass", "fail", "inconclusive"} /\ dr.axes[x].gap \in BOOLEAN
  BY DEF IsTyped
<1>3. dr.axes[x].gap => dr.axes[x].status = "inconclusive"
  BY DEF Accepted, Loads, ContractHolds
<1>4. blocker => dr.axes[x].status # "pass"
  BY DEF Accepted, Loads, ContractHolds, BlockersHeeded
<1>5. blocker \in BOOLEAN
  OBVIOUS
<1> QED BY <1>1, <1>2, <1>3, <1>4, <1>5 DEF AxisAssessments

\* What the axis of an assessment takes from the draft.
LEMMA AssessedAxis ==
    ASSUME NEW dr, NEW x \in Axes
    PROVE  /\ Assessment(dr).axes[x].status = dr.axes[x].status
           /\ Assessment(dr).axes[x].gap = dr.axes[x].gap
BY DEF Assessment

\* For every scope and typed draft: build_semantic_assessment accepts only what
\* the reducer was written for.
THEOREM AcceptedDrafts ==
    ASSUME NEW sc, NEW dr, IsTyped(dr)
    PROVE  AcceptedIsReducible(sc, dr)
<1> SUFFICES ASSUME Accepted(sc, dr)
             PROVE  Assessment(dr) \in Assessments
  BY DEF AcceptedIsReducible
<1>1. Assessment(dr).axes \in [Axes -> AxisAssessments]
  <2>1. \A x \in Axes : Assessment(dr).axes[x] \in AxisAssessments
    BY AcceptedAxis
  <2>2. Assessment(dr).axes = [x \in Axes |-> Assessment(dr).axes[x]]
    BY DEF Assessment
  <2> QED BY <2>1, <2>2
<1>2. Assessment(dr).limits \in SUBSET LimitGaps
  BY DEF Assessment, IsTyped, LimitGaps
<1>3. CollectionGapsDeclared(Assessment(dr))
  <2> SUFFICES ASSUME NEW g \in Assessment(dr).limits, g.concern = "collection",
                      NEW x \in g.affected
               PROVE  Assessment(dr).axes[x].gap
    BY DEF CollectionGapsDeclared
  <2>1. PICK h \in dr.limits : g.concern = h.concern /\ g.affected = h.affected
    BY DEF Assessment
  <2>2. x \in Axes
    BY <2>1 DEF IsTyped
  <2>3. dr.axes[x].gap
    BY <2>1 DEF Accepted, Loads, ContractHolds, Withdrawn
  <2> QED BY <2>2, <2>3, AssessedAxis
<1>4. Assessment(dr) = [axes |-> Assessment(dr).axes, limits |-> Assessment(dr).limits]
  BY DEF Assessment
<1> QED BY <1>1, <1>2, <1>3, <1>4 DEF Assessments

\* For every scope, typed draft and evidence: without requirements that are all
\* there, reviewed and free of contradiction, or with a collection that was cut,
\* the review is not READY.
THEOREM UnestablishedSpec ==
    ASSUME NEW sc, NEW dr, NEW ev, IsTyped(dr)
    PROVE  UnestablishedSpecBlocksReady(sc, dr, ev)
<1> SUFFICES ASSUME Accepted(sc, dr),
                    Review(Assessment(dr), ev).verdict = "ready",
                    \/ sc.winning = {}
                    \/ dr.reviewed # sc.winning
                    \/ Contradictions(dr) # {}
                    \/ \E g \in dr.limits : g.concern = "collection"
             PROVE  FALSE
  BY DEF UnestablishedSpecBlocksReady
<1>1. Assessment(dr) \in Assessments
  BY AcceptedDrafts DEF AcceptedIsReducible
<1>2. /\ \A x \in Axes : Assessment(dr).axes[x].status = "pass"
      /\ Assessment(dr).limits = {}
  BY <1>1, ReadyNeedsAll DEF ReadyIsComplete
<1>3. "spec" \in Axes
  BY DEF Axes
<1>4. ~Withdrawn(dr.axes["spec"])
  BY <1>2, <1>3, AssessedAxis DEF Withdrawn
<1>5. dr.limits = {}
  BY <1>2 DEF Assessment
<1>6. ReviewedSetHolds(sc, dr) /\ RequirementsHold(sc, dr)
  BY DEF Accepted, Loads
<1> QED BY <1>4, <1>5, <1>6 DEF ReviewedSetHolds, RequirementsHold

-----------------------------------------------------------------------------
(* The gap that an overflow signals.                                       *)

\* What the reviewer resubmits after an overflow of the comparisons.
LEMMA Resubmitted ==
    ASSUME NEW dr, IsTyped(dr), Overflowing(dr) = "requirement_comparisons"
    PROVE  LET short == Shortened(dr)
               full  == Declared(dr)
           IN  /\ Signal(dr) = ComparisonGap(Kept(dr))
               /\ short.limits = dr.limits
               /\ short.axes = [x \in Axes |-> IF x = "spec"
                                               THEN [status |-> "inconclusive", gap |-> TRUE]
                                               ELSE dr.axes[x]]
               /\ full.limits = dr.limits \cup {Signal(dr)}
               /\ full.reviewed = short.reviewed /\ full.findings = short.findings
               /\ full.axes = short.axes
               /\ full.comparisons = short.comparisons
               /\ short.comparisons = Kept(dr) /\ short.findings = dr.findings
<1> DEFINE kept == [dr EXCEPT !.comparisons = Kept(dr)]
           withdrawn == [x \in Axes |-> IF x \in {"spec"}
                                       THEN [status |-> "inconclusive", gap |-> TRUE]
                                       ELSE kept.axes[x]]
<1>1. Signal(dr) = ComparisonGap(Kept(dr)) /\ Signal(dr).affected = {"spec"}
  BY DEF Signal, ComparisonGap, SignalGap
<1>2. kept = [ reviewed |-> dr.reviewed, comparisons |-> Kept(dr),
               findings |-> dr.findings, axes |-> dr.axes, limits |-> dr.limits ]
  BY DEF IsTyped
<1>3. Shortened(dr) = [kept EXCEPT !.axes = withdrawn]
  BY <1>1 DEF Shortened, WithdrawAxes
<1>4. Shortened(dr) = [ reviewed |-> dr.reviewed, comparisons |-> Kept(dr),
               findings |-> dr.findings, axes |-> withdrawn, limits |-> dr.limits ]
  BY <1>2, <1>3
<1>5. Declared(dr) = [ reviewed |-> dr.reviewed, comparisons |-> Kept(dr),
               findings |-> dr.findings, axes |-> withdrawn,
               limits |-> dr.limits \cup {Signal(dr)} ]
  <2>1. Declared(dr) = [Shortened(dr) EXCEPT !.limits =
                             Shortened(dr).limits \cup {Signal(dr)}]
    BY DEF Declared
  <2> HIDE DEF withdrawn
  <2> QED BY <1>4, <2>1
<1>6. withdrawn = [x \in Axes |-> IF x = "spec"
                                 THEN [status |-> "inconclusive", gap |-> TRUE]
                                 ELSE dr.axes[x]]
  BY <1>2
<1> QED BY <1>1, <1>4, <1>5, <1>6

\* For every scope, typed draft and limits: a signalled overflow of comparisons
\* can be declared, and is accepted if what is left of the draft is.
THEOREM OverflowsCanBeDeclared ==
    ASSUME NEW sc, NEW dr, IsTyped(dr)
    PROVE  OverflowIsDeclarable(sc, dr)
<1> DEFINE short == Shortened(dr)
           full  == Declared(dr)
           gap   == Signal(dr)
<1> SUFFICES ASSUME Overflowing(dr) = "requirement_comparisons",
                    Cardinality(dr.limits) < MaxLimitGaps,
                    Accepted(sc, short)
             PROVE  Accepted(sc, full)
  BY DEF OverflowIsDeclarable
<1>1. /\ gap = ComparisonGap(short.comparisons)
      /\ short.limits = dr.limits /\ full.limits = dr.limits \cup {gap}
      /\ full.reviewed = short.reviewed /\ full.findings = short.findings
      /\ full.axes = short.axes /\ full.comparisons = short.comparisons
      /\ short.comparisons = Kept(dr) /\ short.findings = dr.findings
  BY Resubmitted
<1>2. Withdrawn(full.axes["spec"])
  <2>1. short.axes = [x \in Axes |-> IF x = "spec"
                                    THEN [status |-> "inconclusive", gap |-> TRUE]
                                    ELSE dr.axes[x]]
    BY Resubmitted
  <2>2. "spec" \in Axes
    BY DEF Axes
  <2>3. short.axes["spec"] = [status |-> "inconclusive", gap |-> TRUE]
    BY <2>1, <2>2
  <2> HIDE DEF short, full
  <2> QED BY <1>1, <2>3 DEF Withdrawn
<1>3. gap.concern = "collection" /\ gap.field = "requirement_comparisons" /\ gap.affected = {"spec"}
  BY <1>1 DEF ComparisonGap, SignalGap
<1>4. Len(full.comparisons) = MaxComparisons
  <2>1. Len(dr.comparisons) > MaxComparisons /\ MaxComparisons \in Nat
    BY AssessmentLimits DEF Overflowing
  <2>2. dr.comparisons \in Seq({dr.comparisons[i] : i \in DOMAIN dr.comparisons})
    BY DEF IsTyped
  <2>3. Len(SubSeq(dr.comparisons, 1, MaxComparisons)) = MaxComparisons
    BY <2>1, <2>2
  <2> QED BY <1>1, <2>3 DEF Kept
<1>5. {g \in short.limits : g.field \in ComparisonFields} \subseteq {gap}
  BY <1>1 DEF Accepted, Loads, ComparisonsHold
<1>6. Overflowing(full) = "none"
  <2>1. Cardinality(full.limits) <= MaxLimitGaps
    <3>1. Cardinality(dr.limits \cup {gap}) \in
            {Cardinality(dr.limits), Cardinality(dr.limits) + 1}
      BY FS_AddElement DEF IsTyped
    <3>2. Cardinality(dr.limits) \in Nat
      BY FS_CardinalityType DEF IsTyped
    <3> HIDE DEF gap
    <3> QED BY <1>1, <3>1, <3>2, AssessmentLimits
  <2>2. ~(Cardinality(full.findings) > MaxFindings)
    BY <1>1 DEF Overflowing
  <2>3. ~(Len(full.comparisons) > MaxComparisons) /\ ~(Cardinality(full.limits) > MaxLimitGaps)
    <3>1. Cardinality(full.limits) \in Nat
      BY <1>1, FS_AddElement, FS_CardinalityType DEF IsTyped
    <3> QED BY <1>4, <2>1, <3>1, AssessmentLimits
  <2> QED BY <2>2, <2>3 DEF Overflowing
<1>7. ContractHolds(full)
  <2>1. \A c, d \in full.limits : c.concern = d.concern /\ c.field = d.field => c = d
    BY <1>1, <1>3, <1>5 DEF Accepted, Loads, ContractHolds, ComparisonFields
  <2>2. \A c \in full.limits : c.concern = "collection" =>
          \A x \in c.affected : Withdrawn(full.axes[x])
    BY <1>1, <1>2, <1>3 DEF Accepted, Loads, ContractHolds
  <2> QED BY <1>1, <2>1, <2>2 DEF Accepted, Loads, ContractHolds, BlockersHeeded
<1>8. ComparisonsHold(sc, full)
  <2>1. {g \in full.limits : g.field \in ComparisonFields} = {gap}
    BY <1>1, <1>3, <1>5 DEF ComparisonFields
  <2> QED BY <1>1, <1>4, <2>1 DEF Accepted, Loads, ComparisonsHold
<1>9. RequirementsHold(sc, full) /\ ReviewedSetHolds(sc, full)
  BY <1>1 DEF Accepted, Loads, RequirementsHold, ReviewedSetHolds, Contradictions, OwnSpecFindings
<1>10. /\ ReferencesExist(sc, full)
       /\ \A f \in full.findings : f.state = "confirmed" => CitesItsGround(sc, f)
  BY <1>1 DEF Accepted, Loads, ReferencesExist
<1> QED BY <1>6, <1>7, <1>8, <1>9, <1>10 DEF Accepted, Loads

-----------------------------------------------------------------------------
(* What is submitted and collected keeps its types.                        *)

\* What is under review is what the models' types admit.
InputInv == IsTyped(draft) /\ IsCollected(evidence)

\* Withdrawing axes changes the axes alone.
LEMMA WithdrawnDraft ==
    ASSUME NEW d, IsTyped(d), NEW affected
    PROVE  /\ WithdrawAxes(d, affected) =
                [ reviewed |-> d.reviewed, comparisons |-> d.comparisons,
                  findings |-> d.findings, limits |-> d.limits,
                  axes |-> [x \in Axes |-> IF x \in affected
                                          THEN [status |-> "inconclusive", gap |-> TRUE]
                                          ELSE d.axes[x]] ]
           /\ \A x \in affected \cap Axes : Withdrawn(WithdrawAxes(d, affected).axes[x])
           /\ IsTyped(WithdrawAxes(d, affected))
<1> DEFINE axes == [x \in Axes |-> IF x \in affected
                                   THEN [status |-> "inconclusive", gap |-> TRUE]
                                   ELSE d.axes[x]]
           full == [ reviewed |-> d.reviewed, comparisons |-> d.comparisons,
                     findings |-> d.findings, limits |-> d.limits, axes |-> axes ]
<1>1. axes \in [Axes -> [status : {"pass", "fail", "inconclusive"}, gap : BOOLEAN]]
  BY DEF IsTyped
<1>2. WithdrawAxes(d, affected) = [d EXCEPT !.axes = axes]
  BY DEF WithdrawAxes
<1>5. \A x \in affected \cap Axes : Withdrawn(axes[x])
  BY DEF Withdrawn
<1> HIDE DEF axes
<1>3. [d EXCEPT !.axes = axes] = full
  BY DEF IsTyped
<1>4. IsTyped(full)
  BY <1>1 DEF IsTyped
<1>6. \A x \in affected \cap Axes : Withdrawn(WithdrawAxes(d, affected).axes[x])
  BY <1>2, <1>3, <1>5
<1> QED BY <1>2, <1>3, <1>4, <1>6 DEF axes

\* So does declaring an overflow, but for the gap and what is kept.
LEMMA DeclaredDraft ==
    ASSUME NEW d, IsTyped(d), Overflowing(d) = "requirement_comparisons"
    PROVE  IsTyped(Declared(d))
<1> DEFINE full == Declared(d)
           short == Shortened(d)
<1>1. /\ full.limits = d.limits \cup {ComparisonGap(Kept(d))}
      /\ full.comparisons = Kept(d)
      /\ full.axes = [x \in Axes |-> IF x = "spec"
                                    THEN [status |-> "inconclusive", gap |-> TRUE]
                                    ELSE d.axes[x]]
  BY Resubmitted
<1>2. full = [ reviewed |-> full.reviewed, comparisons |-> full.comparisons,
               findings |-> full.findings, axes |-> full.axes, limits |-> full.limits ]
  <2> DEFINE kept == [d EXCEPT !.comparisons = Kept(d)]
  <2>2. kept = [ reviewed |-> d.reviewed, comparisons |-> Kept(d), findings |-> d.findings,
                 axes |-> d.axes, limits |-> d.limits ]
    BY DEF IsTyped
  <2>3. \E axes : short = [kept EXCEPT !.axes = axes]
    BY DEF Shortened, WithdrawAxes
  <2> HIDE DEF kept
  <2>4. PICK axes : short = [kept EXCEPT !.axes = axes]
    BY <2>3
  <2>5. short = [ reviewed |-> d.reviewed, comparisons |-> Kept(d), findings |-> d.findings,
                  axes |-> axes, limits |-> d.limits ]
    BY <2>2, <2>4
  <2>6. \E limits : full = [short EXCEPT !.limits = limits]
    BY DEF Declared
  <2> HIDE DEF short, full
  <2>7. PICK limits : full = [short EXCEPT !.limits = limits]
    BY <2>6
  <2>8. full = [ reviewed |-> d.reviewed, comparisons |-> Kept(d), findings |-> d.findings,
                 axes |-> axes, limits |-> limits ]
    BY <2>5, <2>7
  <2> QED BY <2>8
<1> HIDE DEF full
<1>3. IsFiniteSet(full.limits)
  <2>1. IsFiniteSet(d.limits)
    BY DEF IsTyped
  <2>2. IsFiniteSet(d.limits \cup {ComparisonGap(Kept(d))})
    BY <2>1, FS_AddElement
  <2> QED BY <1>1, <2>2
<1>4. Kept(d) \in Seq({Kept(d)[i] : i \in DOMAIN Kept(d)})
  <2>1. Len(d.comparisons) > MaxComparisons /\ MaxComparisons \in Nat
    BY AssessmentLimits DEF Overflowing
  <2>2. d.comparisons \in Seq({d.comparisons[i] : i \in DOMAIN d.comparisons})
    BY DEF IsTyped
  <2> DEFINE S == {d.comparisons[i] : i \in DOMAIN d.comparisons}
  <2> HIDE DEF S
  <2>3. Kept(d) \in Seq(S)
    BY <2>1, <2>2 DEF Kept, S
  <2>4. DOMAIN Kept(d) = 1 .. Len(Kept(d)) /\ Len(Kept(d)) \in Nat
    BY <2>3
  <2>5. Kept(d) \in [1 .. Len(Kept(d)) -> {Kept(d)[i] : i \in DOMAIN Kept(d)}]
    BY <2>3, <2>4
  <2> QED BY <2>4, <2>5
<1>5. \A g \in full.limits :
        /\ g.concern \in {"collection", "prose", "identifier"}
        /\ g.field \in LimitFields
        /\ g.affected \in (SUBSET Axes) \ {{}}
  <2> DEFINE gap == ComparisonGap(Kept(d))
  <2>1. gap.concern = "collection" /\ gap.field = "requirement_comparisons" /\ gap.affected = {"spec"}
    BY DEF ComparisonGap, SignalGap
  <2>2. \A g \in d.limits :
          /\ g.concern \in {"collection", "prose", "identifier"}
          /\ g.field \in LimitFields
          /\ g.affected \in (SUBSET Axes) \ {{}}
    BY DEF IsTyped
  <2>3. full.limits = d.limits \cup {gap}
    BY <1>1
  <2> HIDE DEF gap
  <2> QED BY <2>1, <2>2, <2>3 DEF LimitFields, Axes
<1>6. full.axes \in [Axes -> [status : {"pass", "fail", "inconclusive"}, gap : BOOLEAN]]
  BY <1>1 DEF IsTyped
<1> QED BY <1>1, <1>2, <1>3, <1>4, <1>5, <1>6 DEF IsTyped, full

\* Evidence that loses a result or a source is evidence.
LEMMA LossIsCollected ==
    ASSUME IsCollected(evidence), NEW i \in DOMAIN evidence.executions,
           LoseResult(i) \/ LoseSource(i)
    PROVE  /\ IsCollected(evidence')
           /\ DOMAIN evidence'.executions = DOMAIN evidence.executions
           /\ \A j \in DOMAIN evidence.executions :
                \/ evidence'.executions[j] = evidence.executions[j]
                \/ /\ evidence'.executions[j].level = evidence.executions[j].level
                   /\ evidence'.executions[j].status = "not_run"
<1> DEFINE Results == [level : Levels, status : Statuses, kind : FailureKinds \cup {"none"}]
           executions == evidence.executions
           lost == Result(executions[i].level, "not_run", "capability")
<1>0. executions \in Seq(Results)
  BY DEF IsCollected
<1>1. executions \in Seq(Results) /\ executions[i] \in Results
  <2> HIDE DEF Results
  <2> QED BY <1>0
<1>2. CASE LoseSource(i)
  <2>1. evidence' = [executions |-> executions, failures |-> evidence.failures \cup {i - 1}]
    BY <1>2 DEF LoseSource, IsCollected
  <2>2. i - 1 \in Launched(executions)
    BY <1>2 DEF LoseSource
  <2> QED BY <2>1, <2>2 DEF IsCollected
<1>3. CASE LoseResult(i)
  <2>1. evidence' = [ executions |-> [executions EXCEPT ![i] = lost],
                      failures |-> evidence.failures \ {i - 1} ]
    <3> DEFINE first == [evidence EXCEPT !.executions[i] = lost]
    <3>1. evidence' = [first EXCEPT !.failures = evidence.failures \ {i - 1}]
      BY <1>3 DEF LoseResult, IsCollected
    <3>2. first = [executions |-> [executions EXCEPT ![i] = lost], failures |-> evidence.failures]
      BY DEF IsCollected
    <3> HIDE DEF first, lost
    <3> QED BY <3>1, <3>2
  <2> DEFINE rest == [executions EXCEPT ![i] = lost]
  <2>2. lost \in Results /\ lost.level = executions[i].level /\ lost.status = "not_run"
    BY <1>1 DEF Result, Levels, Statuses, FailureKinds
  <2> HIDE DEF lost, executions
  <2>3. /\ rest \in Seq(Results) /\ DOMAIN rest = DOMAIN executions
        /\ rest[i] = lost
        /\ \A j \in DOMAIN executions : j # i => rest[j] = executions[j]
    BY <1>1, <2>2 DEF executions
  <2> HIDE DEF rest
  <2>4. evidence.failures \ {i - 1} \subseteq Launched(rest)
    BY <2>3 DEF IsCollected, Launched, executions
  <2>5. /\ evidence' = [executions |-> evidence'.executions, failures |-> evidence'.failures]
        /\ evidence'.executions = rest
        /\ evidence'.failures = evidence.failures \ {i - 1}
    BY <2>1 DEF rest
  <2>6. \A j \in DOMAIN rest : CommandCheck(j) \in DOMAIN Digest /\ j - 1 \in DOMAIN OrdinalOrder
    BY <2>3 DEF IsCollected, executions
  <2> HIDE DEF Results
  <2>7. IsCollected(evidence')
    BY <2>3, <2>4, <2>5, <2>6 DEF IsCollected, Results
  <2> QED BY <2>2, <2>3, <2>5, <2>7 DEF executions
<1> QED BY <1>2, <1>3

\* Every step keeps the types.
LEMMA InputsInductive == InputInv /\ [Next]_vars => InputInv'
<1> SUFFICES ASSUME InputInv, [Next]_vars
             PROVE  InputInv'
  OBVIOUS
<1>1. CASE \E i \in DOMAIN evidence.executions : LoseResult(i) \/ LoseSource(i)
  <2>1. PICK i \in DOMAIN evidence.executions : LoseResult(i) \/ LoseSource(i)
    BY <1>1
  <2>2. draft' = draft
    BY <2>1 DEF LoseResult, LoseSource
  <2> QED BY <2>1, <2>2, LossIsCollected DEF InputInv
<1>2. CASE \E x \in Withdrawable : LoseAxis(x)
  <2>1. PICK x \in Withdrawable : LoseAxis(x)
    BY <1>2
  <2> QED BY <2>1, WithdrawnDraft DEF InputInv, LoseAxis
<1>3. CASE Declare
  BY <1>3, DeclaredDraft DEF InputInv, Declare
<1>4. CASE UNCHANGED vars
  BY <1>4 DEF InputInv, vars
<1> QED BY <1>1, <1>2, <1>3, <1>4 DEF Next

\* Of whatever was submitted, what is accepted keeps the types.
LEMMA InputsTyped == Spec => []InputInv
<1>1. Init => InputInv
  BY ReviewInputs DEF Init, InputInv
<1> QED BY <1>1, InputsInductive, PTL DEF Spec

-----------------------------------------------------------------------------
(* Whatever is lost on the way.                                            *)

\* For every scope, draft and evidence, and whatever is lost of them, what is
\* accepted can be reduced.
THEOREM AcceptedAreReducible == Spec => []AcceptedDraftsAreReducible
<1>1. InputInv => AcceptedDraftsAreReducible
  BY AcceptedDrafts DEF InputInv, AcceptedDraftsAreReducible
<1> QED BY <1>1, InputsTyped, PTL

\* An accepted draft is an assessment.
LEMMA ReviewedAssessment ==
    ASSUME InputInv, Reviewed
    PROVE  Assessment(draft) \in Assessments
BY AcceptedDrafts DEF InputInv, Reviewed, AcceptedIsReducible

\* Verdict and axes tell the same story, whatever is lost.
THEOREM AxesAlwaysAgree == Spec => []AxesAgreeWithVerdict
<1>1. InputInv => AxesAgreeWithVerdict
  BY ReviewedAssessment, AxesTellTheVerdict DEF AxesAgreeWithVerdict
<1> QED BY <1>1, InputsTyped, PTL

\* READY rests on complete and undisturbed evidence, whatever is lost.
THEOREM ReadyIsAlwaysComplete == Spec => []ReadyNeedsEverything
<1>1. InputInv => ReadyNeedsEverything
  BY ReviewedAssessment, ReadyNeedsAll DEF ReadyNeedsEverything
<1> QED BY <1>1, InputsTyped, PTL

\* A Spec that is not established never ends in READY, whatever is withdrawn
\* or declared.
THEOREM UnestablishedNeverReady == Spec => []UnestablishedIsNeverReady
<1>1. InputInv => UnestablishedIsNeverReady
  BY UnestablishedSpec DEF InputInv, UnestablishedIsNeverReady
<1> QED BY <1>1, InputsTyped, PTL

\* An overflow of comparisons is never a dead end.
THEOREM OverflowsAreDeclarable == Spec => []OverflowCanBeDeclared
<1>1. InputInv => OverflowCanBeDeclared
  BY OverflowsCanBeDeclared DEF InputInv, OverflowCanBeDeclared
<1> QED BY <1>1, InputsTyped, PTL

\* A withdrawn axis is a gap, and a gap is not READY.
LEMMA WithdrawnIsNotReady ==
    ASSUME NEW s, NEW collected, NEW x \in Axes, s.axes[x].gap
    PROVE  Review(s, collected).verdict # "ready"
<1>1. [kind |-> "semantic", affected |-> {x}] \in SemanticGaps(s)
  BY DEF SemanticGaps
<1>2. EvidenceGaps(s, collected) # {}
  BY <1>1 DEF EvidenceGaps
<1> QED BY <1>2 DEF Review, ReduceVerdict

\* No step that loses something makes a review READY: for any evidence, any
\* number of commands and whatever axes are withdrawn.
THEOREM LossNeverGains == Spec => LossNeverMakesReady
<1> DEFINE
      NoGain ==
        /\ Reviewed /\ evidence.failures \subseteq evidence'.failures
        /\ Review(Assessment(draft'), evidence').verdict = "ready"
        => Review(Assessment(draft), evidence).verdict = "ready"
<1>1. InputInv /\ [Next]_vars => [NoGain]_vars
  <2> SUFFICES ASSUME InputInv, Next, Reviewed,
                      evidence.failures \subseteq evidence'.failures,
                      Review(Assessment(draft'), evidence').verdict = "ready"
               PROVE  Review(Assessment(draft), evidence).verdict = "ready"
    OBVIOUS
  <2> DEFINE s == Assessment(draft)
  <2>1. s \in Assessments
    BY ReviewedAssessment
  <2> HIDE DEF s
  <2>2. CASE \E i \in DOMAIN evidence.executions : LoseResult(i) \/ LoseSource(i)
    <3>1. PICK i \in DOMAIN evidence.executions : LoseResult(i) \/ LoseSource(i)
      BY <2>2
    <3>2. Assessment(draft') = s
      BY <3>1 DEF LoseResult, LoseSource, s
    <3>3. LosesEvidence(s, evidence, s, evidence')
      BY <3>1, LossIsCollected DEF LosesEvidence, InputInv
    <3> QED BY <2>1, <3>2, <3>3, LossNeverHelps DEF s
  <2>3. CASE \E x \in Withdrawable : LoseAxis(x)
    <3>1. PICK x \in Withdrawable : LoseAxis(x)
      BY <2>3
    <3>2. x \in Axes
      BY ReviewInputs
    <3>3. draft' = WithdrawAxes(draft, {x}) /\ IsTyped(draft)
      BY <3>1 DEF LoseAxis, InputInv
    <3>4. Withdrawn(draft'.axes[x])
      BY <3>2, <3>3, WithdrawnDraft
    <3>5. Assessment(draft').axes[x].gap
      BY <3>2, <3>4, AssessedAxis DEF Withdrawn
    <3> QED BY <3>2, <3>5, WithdrawnIsNotReady
  <2>4. CASE Declare
    BY <2>4 DEF Declare, Reviewed, Accepted
  <2> QED BY <2>2, <2>3, <2>4 DEF Next
<1> HIDE DEF NoGain
<1>2. Spec => [][NoGain]_vars
  BY <1>1, InputsTyped, PTL DEF Spec
<1> QED BY <1>2 DEF NoGain, LossNeverMakesReady

-----------------------------------------------------------------------------
(* What an artifact retains.                                               *)

\* A set of natural numbers has a least one.
LEMMA LeastNatural ==
    ASSUME NEW T, T \subseteq Nat, T # {}
    PROVE  \E m \in T : \A k \in T : ~(k < m)
<1>1. \E m \in T : \A k \in T : <<k, m>> \notin OpToRel(<, Nat)
  BY NatLessThanWellFounded, WFMin
<1> QED BY <1>1 DEF OpToRel

\* A function of finitely many arguments has at most as many values.
LEMMA ImagesAreFinite ==
    ASSUME NEW S, IsFiniteSet(S), NEW f, f \in [S -> {f[x] : x \in S}]
    PROVE  /\ IsFiniteSet({f[x] : x \in S})
           /\ Cardinality({f[x] : x \in S}) <= Cardinality(S)
<1> DEFINE T == {f[x] : x \in S}
<1>1. f \in Surjection(S, T)
  BY DEF Surjection
<1> HIDE DEF T
<1> QED BY <1>1, FS_Surjection DEF T

\* The summaries of a plan's checks.
LEMMA SummaryShape ==
    ASSUME InputInv, NEW c \in CheckSummaries(evidence)
    PROVE  /\ Digest[c.check] \in Nat
           /\ c.gap \in BOOLEAN
           /\ Blocks(c) => ~c.gap
<1>1. CASE \E id \in Floor : c = FloorSummary(id, evidence)
  <2>1. PICK id \in Floor : c = FloorSummary(id, evidence)
    BY <1>1
  <2>2. c.check = FloorCheck(id) /\ c.outcome # "failed" /\ c.gap \in BOOLEAN
    BY <2>1 DEF FloorSummary, Summary
  <2> QED BY <2>2, ArtifactLimits DEF Blocks
<1>2. CASE \E i \in DOMAIN evidence.executions : c = CommandSummary(i, evidence.executions[i])
  <2>1. PICK i \in DOMAIN evidence.executions : c = CommandSummary(i, evidence.executions[i])
    BY <1>2
  <2> DEFINE r == evidence.executions[i]
  <2>2. c.check = CommandCheck(i) /\ c.gap = RequiredGap(r)
        /\ c.level = r.level /\ c.outcome = r.status /\ c.kind = r.kind
    BY <2>1 DEF CommandSummary, Summary
  <2>3. CommandCheck(i) \in DOMAIN Digest
    BY DEF InputInv, IsCollected
  <2>4. RequiredGap(r) \in BOOLEAN
    BY DEF RequiredGap
  <2> QED BY <2>2, <2>3, <2>4, ArtifactLimits DEF Blocks, RequiredGap, ProvesChangeFailure
<1> QED BY <1>1, <1>2 DEF CheckSummaries

\* There are finitely many of them.
LEMMA SummariesAreFinite ==
    ASSUME InputInv
    PROVE  IsFiniteSet(CheckSummaries(evidence))
<1> DEFINE floor == {FloorSummary(id, evidence) : id \in Floor}
           commands == {CommandSummary(i, evidence.executions[i]) : i \in DOMAIN evidence.executions}
<1>1. IsFiniteSet(Floor)
  <2>1. IsFiniteSet({"scope-capture"})
    BY FS_Singleton
  <2>2. IsFiniteSet({"scope-capture"} \cup {"source-preservation"})
    BY <2>1, FS_AddElement
  <2>3. IsFiniteSet(({"scope-capture"} \cup {"source-preservation"}) \cup {"result-classification"})
    BY <2>2, FS_AddElement
  <2>4. Floor = ({"scope-capture"} \cup {"source-preservation"}) \cup {"result-classification"}
    BY DEF Floor
  <2> QED BY <2>3, <2>4
<1>2. IsFiniteSet(floor)
  <2> DEFINE f == [id \in Floor |-> FloorSummary(id, evidence)]
  <2>1. f \in [Floor -> {f[x] : x \in Floor}] /\ {f[x] : x \in Floor} = floor
    OBVIOUS
  <2> HIDE DEF f, floor
  <2> QED BY <1>1, <2>1, ImagesAreFinite
<1>3. IsFiniteSet(DOMAIN evidence.executions)
  <2>1. DOMAIN evidence.executions = 1 .. Len(evidence.executions)
        /\ Len(evidence.executions) \in Nat
    BY LenProperties DEF InputInv, IsCollected
  <2> QED BY <2>1, FS_Interval
<1>4. IsFiniteSet(commands)
  <2> DEFINE D == DOMAIN evidence.executions
             f == [i \in D |-> CommandSummary(i, evidence.executions[i])]
  <2>1. f \in [D -> {f[x] : x \in D}] /\ {f[x] : x \in D} = commands
    OBVIOUS
  <2> HIDE DEF f, commands
  <2> QED BY <1>3, <2>1, ImagesAreFinite
<1> HIDE DEF floor, commands
<1>5. IsFiniteSet(floor \cup commands)
  BY <1>2, <1>4, FS_Union
<1> QED BY <1>5 DEF CheckSummaries, floor, commands

\* What comes before, in the order of retention.
Before(c) == {d \in CheckSummaries(evidence) : RetainedBefore(d, c)}

\* The order of retention is one.
LEMMA RetentionIsTransitive ==
    ASSUME InputInv, NEW b \in CheckSummaries(evidence), NEW c \in CheckSummaries(evidence),
           NEW d \in CheckSummaries(evidence), RetainedBefore(b, c), RetainedBefore(c, d)
    PROVE  RetainedBefore(b, d)
<1>1. Blocks(b) \in BOOLEAN /\ Blocks(c) \in BOOLEAN /\ Blocks(d) \in BOOLEAN
  BY DEF Blocks
<1>2. /\ Digest[b.check] \in Nat /\ Digest[c.check] \in Nat /\ Digest[d.check] \in Nat
      /\ b.gap \in BOOLEAN /\ c.gap \in BOOLEAN /\ d.gap \in BOOLEAN
  BY SummaryShape
<1> QED BY <1>1, <1>2 DEF RetainedBefore

\* A check that the change made fail is only cut for others it made fail.
LEMMA BlockersAreCutLast ==
    ASSUME InputInv,
           NEW c \in CheckSummaries(evidence) \ RetainedChecks(evidence),
           NEW d \in RetainedChecks(evidence), Blocks(c)
    PROVE  Blocks(d)
<1> SUFFICES ASSUME ~Blocks(d)
             PROVE  FALSE
  OBVIOUS
<1>1. RetainedBefore(c, d) /\ d \in CheckSummaries(evidence)
  BY DEF RetainedBefore, RetainedChecks
<1>2. Before(c) \subseteq Before(d)
  BY <1>1, RetentionIsTransitive DEF Before
<1>3. IsFiniteSet(Before(d)) /\ IsFiniteSet(Before(c))
  BY SummariesAreFinite, FS_Subset DEF Before
<1>4. Cardinality(Before(c)) <= Cardinality(Before(d))
  BY <1>2, <1>3, FS_Subset
<1>5. Cardinality(Before(c)) \in Nat /\ Cardinality(Before(d)) \in Nat
  BY <1>3, FS_CardinalityType
<1>6. ~(Cardinality(Before(c)) < MaxChecks) /\ Cardinality(Before(d)) < MaxChecks
  BY DEF Before, RetainedChecks
<1> QED BY <1>4, <1>5, <1>6, ArtifactLimits

\* If there is one, one is shown.
LEMMA ABlockerIsShown ==
    ASSUME InputInv, NEW c \in CheckSummaries(evidence), Blocks(c)
    PROVE  \E d \in RetainedChecks(evidence) : Blocks(d)
<1> DEFINE blocking == {d \in CheckSummaries(evidence) : Blocks(d)}
           places == {Digest[d.check] : d \in blocking}
<1>1. places \subseteq Nat /\ places # {}
  BY SummaryShape
<1>2. PICK m \in places : \A k \in places : ~(k < m)
  BY <1>1, LeastNatural
<1>3. PICK d \in blocking : Digest[d.check] = m
  BY <1>2
<1>4. Before(d) = {}
  <2> SUFFICES ASSUME NEW b \in CheckSummaries(evidence), RetainedBefore(b, d)
               PROVE  FALSE
    BY DEF Before
  <2>1. Blocks(b) /\ Blocks(d) /\ ~b.gap
    BY <1>3, SummaryShape DEF RetainedBefore, Blocks
  <2>2. Digest[b.check] < Digest[d.check]
    BY <2>1 DEF RetainedBefore
  <2> QED BY <1>2, <1>3, <2>1, <2>2
<1>5. Cardinality(Before(d)) < MaxChecks
  BY <1>4, FS_EmptySet, ArtifactLimits
<1> QED BY <1>3, <1>5 DEF RetainedChecks, Before

\* Gaps of the reviewer: those of axes and those of limits.
AxisGaps(s) ==
    { [kind |-> "semantic", affected |-> {x}] :
        x \in {y \in Axes : s.axes[y].gap \/ s.axes[y].status = "inconclusive"} }

LimitsAsGaps(s) ==
    {[kind |-> "semantic_limit", affected |-> g.affected, limit |-> g] : g \in s.limits}

\* There are as many of them as axes and declared limits.
LEMMA SemanticGapsAreFew ==
    ASSUME InputInv, Reviewed
    PROVE  LET few == SemanticGaps(Assessment(draft))
           IN  /\ IsFiniteSet(few)
               /\ Cardinality(few) \in Nat /\ Cardinality(few) < MaxGaps
<1> DEFINE s == Assessment(draft)
<1>1. IsFiniteSet(Axes) /\ Cardinality(Axes) \in Nat
  <2> DEFINE A == {"spec"} \cup {"standards"}
             B == A \cup {"impact"}
             C == B \cup {"test_sufficiency"}
             D == C \cup {"contextual_security"}
  <2>1. Axes = D
    BY DEF Axes
  <2>2. IsFiniteSet(A)
    BY FS_Singleton, FS_AddElement
  <2> HIDE DEF A
  <2>3. IsFiniteSet(B)
    BY <2>2, FS_AddElement
  <2> HIDE DEF B
  <2>4. IsFiniteSet(C)
    BY <2>3, FS_AddElement
  <2> HIDE DEF C
  <2>5. IsFiniteSet(D)
    BY <2>4, FS_AddElement
  <2> HIDE DEF D
  <2> QED BY <2>1, <2>5, FS_CardinalityType
<1>2. /\ IsFiniteSet(AxisGaps(s))
      /\ Cardinality(AxisGaps(s)) <= Cardinality(Axes)
  <2> DEFINE S == {y \in Axes : s.axes[y].gap \/ s.axes[y].status = "inconclusive"}
             f == [x \in S |-> [kind |-> "semantic", affected |-> {x}]]
  <2>1. IsFiniteSet(S) /\ Cardinality(S) <= Cardinality(Axes)
    BY <1>1, FS_Subset
  <2>2. f \in [S -> {f[x] : x \in S}] /\ AxisGaps(s) = {f[x] : x \in S}
    BY DEF AxisGaps
  <2> HIDE DEF S, f
  <2>3. IsFiniteSet({f[x] : x \in S}) /\ Cardinality({f[x] : x \in S}) <= Cardinality(S)
    BY <2>1, <2>2, ImagesAreFinite
  <2>4. /\ Cardinality(S) \in Nat /\ Cardinality({f[x] : x \in S}) \in Nat
    BY <2>1, <2>3, FS_CardinalityType
  <2> QED BY <1>1, <2>1, <2>2, <2>3, <2>4
<1>3. /\ IsFiniteSet(s.limits)
      /\ Cardinality(s.limits) <= Cardinality(draft.limits)
  <2> DEFINE f == [g \in draft.limits |->
                     [concern |-> g.concern, field |-> g.field, affected |-> g.affected]]
  <2>1. /\ f \in [draft.limits -> {f[g] : g \in draft.limits}]
        /\ s.limits = {f[g] : g \in draft.limits}
    BY DEF Assessment
  <2>2. IsFiniteSet(draft.limits)
    BY DEF InputInv, IsTyped
  <2> HIDE DEF f, s
  <2> QED BY <2>1, <2>2, ImagesAreFinite
<1>4. /\ IsFiniteSet(LimitsAsGaps(s))
      /\ Cardinality(LimitsAsGaps(s)) <= Cardinality(s.limits)
  <2> DEFINE S == s.limits
             f == [g \in S |-> [kind |-> "semantic_limit", affected |-> g.affected, limit |-> g]]
  <2>1. /\ f \in [S -> {f[g] : g \in S}]
        /\ LimitsAsGaps(s) = {f[g] : g \in S}
    BY DEF LimitsAsGaps
  <2> HIDE DEF f, s
  <2> QED BY <1>3, <2>1, ImagesAreFinite
<1> DEFINE axisGaps == AxisGaps(s)
           limitGaps == LimitsAsGaps(s)
           few == axisGaps \cup limitGaps
<1>5. SemanticGaps(s) = few
  BY DEF SemanticGaps, AxisGaps, LimitsAsGaps
<1> HIDE DEF axisGaps, limitGaps, s
<1>6. IsFiniteSet(axisGaps) /\ IsFiniteSet(limitGaps)
  BY <1>2, <1>4 DEF axisGaps, limitGaps
<1>7. /\ IsFiniteSet(few)
      /\ Cardinality(few) =
           Cardinality(axisGaps) + Cardinality(limitGaps) - Cardinality(axisGaps \cap limitGaps)
  BY <1>6, FS_Union
<1>8. IsFiniteSet(axisGaps \cap limitGaps) /\ IsFiniteSet(draft.limits)
  BY <1>6, FS_Subset DEF InputInv, IsTyped
<1>9. /\ Cardinality(axisGaps) \in Nat /\ Cardinality(limitGaps) \in Nat
      /\ Cardinality(axisGaps \cap limitGaps) \in Nat
      /\ Cardinality(few) \in Nat /\ Cardinality(s.limits) \in Nat
      /\ Cardinality(draft.limits) \in Nat
  BY <1>3, <1>6, <1>7, <1>8, FS_CardinalityType
<1>10. ~(Cardinality(draft.limits) > MaxLimitGaps)
  BY DEF Reviewed, Accepted, Overflowing
<1>11. /\ Cardinality(axisGaps) <= Cardinality(Axes)
       /\ Cardinality(limitGaps) <= Cardinality(s.limits)
  BY <1>2, <1>4 DEF axisGaps, limitGaps
<1>12. MaxLimitGaps \in Nat /\ MaxGaps \in Nat
  BY AssessmentLimits, ArtifactLimits
<1>13. Cardinality(few) <= Cardinality(Axes) + MaxLimitGaps
  BY <1>1, <1>3, <1>7, <1>9, <1>10, <1>11, <1>12
<1>14. Cardinality(few) < MaxGaps
  BY <1>1, <1>9, <1>12, <1>13, GapsFit
<1> QED BY <1>5, <1>7, <1>9, <1>14 DEF s

\* A gap that only the reviewer's come before is shown.
LEMMA EarlyGapsAreShown ==
    ASSUME InputInv, Reviewed,
           NEW g \in EvidenceGaps(Assessment(draft), evidence),
           \A d \in EvidenceGaps(Assessment(draft), evidence) :
             GapBefore(d, g) => d \in SemanticGaps(Assessment(draft))
    PROVE  g \in RetainedGaps(EvidenceGaps(Assessment(draft), evidence))
<1> DEFINE gaps == EvidenceGaps(Assessment(draft), evidence)
           few == SemanticGaps(Assessment(draft))
           before == {d \in gaps : GapBefore(d, g)}
<1>1. before \subseteq few
  OBVIOUS
<1>2. IsFiniteSet(few) /\ Cardinality(few) \in Nat /\ Cardinality(few) < MaxGaps
  BY SemanticGapsAreFew
<1> HIDE DEF few
<1>3. IsFiniteSet(before) /\ Cardinality(before) <= Cardinality(few)
  BY <1>1, <1>2, FS_Subset
<1>4. Cardinality(before) \in Nat
  BY <1>3, FS_CardinalityType
<1>5. Cardinality(before) < MaxGaps
  BY <1>2, <1>3, <1>4, ArtifactLimits
<1> HIDE DEF gaps
<1>6. g \in RetainedGaps(gaps)
  BY <1>5 DEF RetainedGaps, gaps
<1> QED BY <1>6 DEF gaps

\* What is a gap of which kind.
LEMMA GapKinds ==
    ASSUME NEW s, NEW collected
    PROVE  /\ EvidenceGaps(s, collected) =
                (SemanticGaps(s) \cup VerificationGaps(collected)) \cup PreservationGaps(collected)
           /\ \A g \in SemanticGaps(s) : g.kind \in {"semantic", "semantic_limit"}
           /\ \A g \in VerificationGaps(collected) :
                g.kind = "verification" /\ g.affected = {"test_sufficiency"}
           /\ \A g \in PreservationGaps(collected) :
                g.kind = "source_preservation" /\ g.affected = Axes
BY DEF EvidenceGaps, SemanticGaps, VerificationGaps, PreservationGaps

\* The ordinals of gaps have their place.
LEMMA GapOrdinals ==
    ASSUME InputInv
    PROVE  \A g \in VerificationGaps(evidence) \cup PreservationGaps(evidence) :
             OrdinalOrder[g.ordinal] \in Nat
<1>1. \A i \in DOMAIN evidence.executions : i - 1 \in DOMAIN OrdinalOrder
  BY DEF InputInv, IsCollected
<1>2. \A o \in evidence.failures : o \in DOMAIN OrdinalOrder
  BY <1>1 DEF InputInv, IsCollected, Launched
<1>3. \A g \in VerificationGaps(evidence) : g.ordinal \in DOMAIN OrdinalOrder
  BY <1>1 DEF VerificationGaps
<1>4. \A g \in PreservationGaps(evidence) : g.ordinal \in DOMAIN OrdinalOrder
  BY <1>2 DEF PreservationGaps
<1> QED BY <1>3, <1>4, ArtifactLimits

\* Of the gaps of one kind, one has no other of its kind before it.
LEMMA FirstOfKind ==
    ASSUME NEW S, S # {}, \A g \in S : OrdinalOrder[g.ordinal] \in Nat
    PROVE  \E g \in S : \A d \in S : ~(OrdinalOrder[d.ordinal] < OrdinalOrder[g.ordinal])
<1> DEFINE places == {OrdinalOrder[g.ordinal] : g \in S}
<1>1. places \subseteq Nat
  OBVIOUS
<1>2. places # {}
  OBVIOUS
<1> HIDE DEF places
<1>3. PICK m \in places : \A k \in places : ~(k < m)
  BY <1>1, <1>2, LeastNatural
<1>4. PICK g \in S : m = OrdinalOrder[g.ordinal]
  BY <1>3 DEF places
<1>5. \A d \in S : OrdinalOrder[d.ordinal] \in places
  BY DEF places
<1> QED BY <1>3, <1>4, <1>5

\* The order of gaps goes by their kinds.
LEMMA GapsInOrder ==
    ASSUME NEW d, NEW g, GapBefore(d, g)
    PROVE  /\ g.kind \in {"semantic", "semantic_limit"} /\
                d.kind \in {"semantic", "semantic_limit", "verification", "source_preservation"}
              => d.kind \in {"semantic", "semantic_limit"}
           /\ g.kind = "source_preservation" =>
                /\ d.kind # "verification"
                /\ d.kind = "source_preservation" =>
                     OrdinalOrder[d.ordinal] < OrdinalOrder[g.ordinal]
           /\ g.kind = "verification" /\ d.kind = "verification" =>
                OrdinalOrder[d.ordinal] < OrdinalOrder[g.ordinal]
BY DEF GapBefore, GapRank

\* Every axis that a gap holds back shows a gap that does.
LEMMA AxesShowTheirGaps ==
    ASSUME InputInv, Reviewed, NEW x \in Axes,
           NEW g \in EvidenceGaps(Assessment(draft), evidence), x \in g.affected
    PROVE  \E d \in RetainedGaps(EvidenceGaps(Assessment(draft), evidence)) : x \in d.affected
<1> DEFINE s == Assessment(draft)
           few == SemanticGaps(s)
           lost == PreservationGaps(evidence)
           unproved == VerificationGaps(evidence)
           gaps == EvidenceGaps(s, evidence)
<1>0. /\ gaps = (few \cup unproved) \cup lost
      /\ \A d \in few : d.kind \in {"semantic", "semantic_limit"}
      /\ \A d \in unproved : d.kind = "verification" /\ d.affected = {"test_sufficiency"}
      /\ \A d \in lost : d.kind = "source_preservation" /\ d.affected = Axes
  BY GapKinds
<1>1. \A d \in unproved \cup lost : OrdinalOrder[d.ordinal] \in Nat
  BY GapOrdinals
<1>2. \A d \in gaps :
        (\A b \in gaps : GapBefore(b, d) => b \in few) => d \in RetainedGaps(gaps)
  BY EarlyGapsAreShown
<1> HIDE DEF few, lost, unproved, gaps
<1>3. CASE g \in few
  <2>1. \A b \in gaps : GapBefore(b, g) => b \in few
    BY <1>0, <1>3, GapsInOrder
  <2> QED BY <1>0, <1>2, <1>3, <2>1 DEF gaps
<1>4. CASE lost # {}
  <2>1. PICK d \in lost : \A b \in lost : ~(OrdinalOrder[b.ordinal] < OrdinalOrder[d.ordinal])
    BY <1>1, <1>4, FirstOfKind
  <2>2. \A b \in gaps : GapBefore(b, d) => b \in few
    BY <1>0, <2>1, GapsInOrder
  <2> QED BY <1>0, <1>2, <2>1, <2>2 DEF gaps
<1>5. CASE lost = {} /\ g \in unproved
  <2>1. PICK d \in unproved :
          \A b \in unproved : ~(OrdinalOrder[b.ordinal] < OrdinalOrder[d.ordinal])
    BY <1>1, <1>5, FirstOfKind
  <2>2. \A b \in gaps : GapBefore(b, d) => b \in few
    BY <1>0, <1>5, <2>1, GapsInOrder
  <2> QED BY <1>0, <1>2, <1>5, <2>1, <2>2 DEF gaps
<1> QED BY <1>0, <1>3, <1>4, <1>5 DEF gaps

\* A READY artifact has nothing to hide.
LEMMA ReadyHidesNothing ==
    ASSUME InputInv, Reviewed, Review(Assessment(draft), evidence).verdict = "ready"
    PROVE  /\ EvidenceGaps(Assessment(draft), evidence) = {}
           /\ \A c \in CheckSummaries(evidence) : ~Blocks(c) /\ ~c.gap
<1>1. EvidenceGaps(Assessment(draft), evidence) = {} /\ ~VerificationBlocker(evidence)
  BY DEF Review, ReduceVerdict
<1>2. VerificationGaps(evidence) = {} /\ PreservationGaps(evidence) = {}
  BY <1>1 DEF EvidenceGaps
<1>3. evidence.failures = {}
  BY <1>2 DEF PreservationGaps
<1>4. \A i \in DOMAIN evidence.executions :
        /\ ~RequiredGap(evidence.executions[i])
        /\ ~ProvesChangeFailure(evidence.executions[i])
  BY <1>1, <1>2 DEF VerificationGaps, VerificationBlocker
<1>5. \A id \in Floor : ~Blocks(FloorSummary(id, evidence)) /\ ~FloorSummary(id, evidence).gap
  BY <1>3 DEF FloorSummary, Summary, Blocks
<1>6. \A i \in DOMAIN evidence.executions :
        LET c == CommandSummary(i, evidence.executions[i]) IN ~Blocks(c) /\ ~c.gap
  BY <1>4 DEF CommandSummary, Summary, Blocks, ProvesChangeFailure
<1> QED BY <1>1, <1>5, <1>6 DEF CheckSummaries

\* What an artifact cuts is never the reason for its verdict: for any number of
\* commands, limits and gaps, whatever the order of digests.
THEOREM ReasonsAlwaysShow == Spec => []ReasonsStayVisible
<1>1. ASSUME InputInv, Reviewed
      PROVE  ReasonsAreShown(Assessment(draft), evidence)
  <2> DEFINE s == Assessment(draft)
             a == Artifact(s, evidence)
             gaps == EvidenceGaps(s, evidence)
             checks == CheckSummaries(evidence)
             blocking == {c \in checks : Blocks(c)}
             required == {c \in checks : c.gap}
  <2>1. /\ a.verdict = Review(s, evidence).verdict
        /\ \A x \in Axes : a.axes[x].gap <=> x \in Affected(gaps)
        /\ a.checks = RetainedChecks(evidence)
        /\ a.gaps = RetainedGaps(gaps)
        /\ a.check_index.blocking = Cardinality(blocking)
        /\ a.check_index.required = Cardinality(required)
        /\ a.gap_index.count = Cardinality(gaps)
    BY DEF Artifact, Review, ReduceAxes, Index
  <2> HIDE DEF a
  <2>2. IsFiniteSet(blocking) /\ Cardinality(blocking) \in Nat
    BY <1>1, SummariesAreFinite, FS_Subset, FS_CardinalityType
  <2>3. Cardinality(blocking) > 0 <=> blocking # {}
    BY <2>2, FS_EmptySet
  <2>4. blocking # {} <=> \E c \in a.checks : Blocks(c)
    BY <1>1, <2>1, ABlockerIsShown DEF RetainedChecks
  <2>5. \A c \in checks \ a.checks, d \in a.checks : Blocks(c) => Blocks(d)
    BY <1>1, <2>1, BlockersAreCutLast
  <2>6. \A x \in Axes : a.axes[x].gap => \E g \in a.gaps : x \in g.affected
    <3> SUFFICES ASSUME NEW x \in Axes, a.axes[x].gap
                 PROVE  \E g \in a.gaps : x \in g.affected
      OBVIOUS
    <3>1. PICK g \in gaps : x \in g.affected
      BY <2>1 DEF Affected
    <3> QED BY <1>1, <2>1, <3>1, AxesShowTheirGaps
  <2>7. ASSUME a.verdict = "ready"
        PROVE  a.check_index.blocking + a.check_index.required + a.gap_index.count = 0
    <3>1. gaps = {} /\ blocking = {} /\ required = {}
      BY <1>1, <2>1, <2>7, ReadyHidesNothing
    <3>2. Cardinality(blocking) = 0 /\ Cardinality(required) = 0 /\ Cardinality(gaps) = 0
      BY <3>1, FS_EmptySet
    <3> QED BY <2>1, <3>2
  <2> HIDE DEF blocking
  <2> QED BY <2>1, <2>3, <2>4, <2>5, <2>6, <2>7 DEF ReasonsAreShown, a
<1>2. InputInv => ReasonsStayVisible
  BY <1>1 DEF ReasonsStayVisible
<1> QED BY <1>2, InputsTyped, PTL

=============================================================================
