-------------------------- MODULE ReviewReduction --------------------------
(***************************************************************************)
(* From a reviewer's draft and the evidence of the executor to a review    *)
(* artifact: whatever is submitted is signalled, rejected or reduced.  A   *)
(* step takes something away from what an accepted review rests on, or     *)
(* declares a signalled overflow.                                          *)
(***************************************************************************)
EXTENDS SemanticAssessment, ReviewArtifact

CONSTANTS
    Reviews,     \* scopes, with the drafts and the evidence explored for each
    Withdrawable \* axes a reviewer may withdraw

\* Ordinals of the commands that ran.
Launched(executions) == {i - 1 : i \in {j \in DOMAIN executions : executions[j].status # "not_run"}}

\* VerificationEvidence as its validator accepts it: a source can only have been
\* lost by a command that ran.
IsCollected(collected) ==
    /\ collected = [executions |-> collected.executions, failures |-> collected.failures]
    /\ collected.executions \in
         Seq([level : Levels, status : Statuses, kind : FailureKinds \cup {"none"}])
    /\ collected.failures \subseteq Launched(collected.executions)
    /\ \A i \in DOMAIN collected.executions :
         CommandCheck(i) \in DOMAIN Digest /\ i - 1 \in DOMAIN OrdinalOrder

ASSUME ReviewInputs ==
    /\ \A r \in Reviews :
         /\ \A d \in r.drafts : IsTyped(d)
         /\ \A e \in r.evidence : IsCollected(e)
    /\ Withdrawable \subseteq Axes

\* Every limit gap, one gap for each axis and one more fit in an artifact.
ASSUME GapsFit == MaxLimitGaps + Cardinality(Axes) < MaxGaps

VARIABLES
    scope,    \* what the review is bound to
    draft,    \* what the reviewer submits
    evidence  \* what the executor collected

vars == <<scope, draft, evidence>>

Init ==
    \E r \in Reviews :
      scope = r.scope /\ draft \in r.drafts /\ evidence \in r.evidence

\* A command's result is lost: it could not be run after all.
LoseResult(i) ==
    /\ Accepted(scope, draft)
    /\ evidence.executions[i].status # "not_run"
    /\ evidence' = [evidence EXCEPT
                      !.executions[i] = Result(@.level, "not_run", "capability"),
                      !.failures = @ \ {i - 1}]
    /\ UNCHANGED <<scope, draft>>

\* The source is found changed after a command.
LoseSource(i) ==
    /\ Accepted(scope, draft)
    /\ i - 1 \in Launched(evidence.executions) \ evidence.failures
    /\ evidence' = [evidence EXCEPT !.failures = @ \cup {i - 1}]
    /\ UNCHANGED <<scope, draft>>

\* The reviewer withdraws an axis.
LoseAxis(x) ==
    /\ Accepted(scope, draft)
    /\ ~Withdrawn(draft.axes[x])
    /\ draft' = WithdrawAxes(draft, {x})
    /\ UNCHANGED <<scope, evidence>>

\* The reviewer declares what was signalled.
Declare ==
    /\ Overflowing(draft) = "requirement_comparisons"
    /\ draft' = Declared(draft)
    /\ UNCHANGED <<scope, evidence>>

Next ==
    \/ \E i \in DOMAIN evidence.executions : LoseResult(i) \/ LoseSource(i)
    \/ \E x \in Withdrawable : LoseAxis(x)
    \/ Declare

Spec == Init /\ [][Next]_vars

-----------------------------------------------------------------------------
(* What a review promises.                                                 *)

Reviewed == Accepted(scope, draft)

\* docs/02: the verdict and the axes of an artifact tell the same story.
AxesAgreeWithVerdict == Reviewed => VerdictAgreesWithAxes(Assessment(draft), evidence)

\* READY is only reached with complete and undisturbed required evidence.
ReadyNeedsEverything == Reviewed => ReadyIsComplete(Assessment(draft), evidence)

\* Losing a source, or a result whose source was preserved, never turns
\* another verdict into READY: there is nothing to gain from evidence that
\* goes missing.
LossNeverMakesReady ==
    [][ (/\ Reviewed /\ evidence.failures \subseteq evidence'.failures
         /\ Review(Assessment(draft'), evidence').verdict = "ready")
          => Review(Assessment(draft), evidence).verdict = "ready" ]_vars

\* What build_semantic_assessment accepts is what the reducer was written for.
AcceptedDraftsAreReducible == AcceptedIsReducible(scope, draft)

\* No winning requirement, one that was not reviewed, a contradiction or an
\* overflow: none of them can end in READY.
UnestablishedIsNeverReady == UnestablishedSpecBlocksReady(scope, draft, evidence)

\* The gap that a comparison overflow signals can be declared by the reviewer.
OverflowCanBeDeclared == OverflowIsDeclarable(scope, draft)

\* The limits of the artifact never cut the reason for its verdict.
ReasonsStayVisible == Reviewed => ReasonsAreShown(Assessment(draft), evidence)

=============================================================================
