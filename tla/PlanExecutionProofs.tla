------------------------ MODULE PlanExecutionProofs ------------------------
(***************************************************************************)
(* Proofs about the execution of a plan, for plans of any length, any      *)
(* contents and metadata of the source, any number of edits at any moment  *)
(* and any assessment the reviewer submits on the evidence.                *)
(***************************************************************************)
EXTENDS PlanExecution, VerdictReductionProofs, FiniteSetTheorems

Results == [level : Levels, status : Statuses, kind : FailureKinds \cup {"none"}]
Executions == [check : Nat, result : Results]

(***************************************************************************)
(* Types.  Where a step reads a value its predecessors left (the check it  *)
(* is at, the record of the command), the value has to be there.           *)
(***************************************************************************)

\* The executor is at a command check of the plan from the snapshot's opening
\* to its result, holds the result once the command has one, and has gone
\* through the plan when it builds the evidence.
Position ==
    /\ pc \notin {"next", "evidence", "finalized", "aborted"} =>
         /\ next <= Len(plan)
         /\ plan[next].kind = "command"
    /\ pc \in {"evidence", "finalized"} => next = Len(plan) + 1
    /\ pc \in {"recapture_after", "compare_after"} =>
         /\ record \in Results
         /\ record.level = plan[next].level

StepInv ==
    /\ plan \in Plans
    /\ source \in Source
    /\ pc \in Steps
    /\ next \in 1 .. Len(plan) + 1
    /\ fingerprint \in Metas \cup {None}
    /\ seen \in Contents \cup {None}
    /\ complete \in BOOLEAN
    /\ record \in Results \cup {None}
    /\ Position

\* A plan is a sequence of checks.
LEMMA PlanShape ==
    ASSUME StepInv
    PROVE  /\ plan \in Seq(Check)
           /\ Len(plan) \in Nat
           /\ \A c \in 1 .. Len(plan) : plan[c] \in Check
BY ExecutionConstants DEF StepInv

\* What never ran has a result that says so.
LEMMA NotRunType ==
    ASSUME StepInv, next <= Len(plan),
           NEW kind \in {"capability", "configuration", "permission"}
    PROVE  /\ NotRun(kind) \in Results
           /\ NotRun(kind).level = plan[next].level
           /\ NotRun(kind).status = "not_run"
<1>1. plan[next].level \in Levels
  BY PlanShape DEF StepInv, Check
<1> QED BY <1>1 DEF NotRun, Result, Results, Current, Statuses, FailureKinds

\* What a command ends with is a result, and it did run.
LEMMA FinishType ==
    ASSUME StepInv, next <= Len(plan),
           NEW r \in { <<"passed", "none">>, <<"failed", "unclassified">>,
                       <<"timed_out", "infrastructure">>, <<"errored", "infrastructure">> }
    PROVE  /\ Result(Current.level, r[1], r[2]) \in Results
           /\ Result(Current.level, r[1], r[2]).level = plan[next].level
           /\ Result(Current.level, r[1], r[2]).status # "not_run"
<1>1. plan[next].level \in Levels
  BY PlanShape DEF StepInv, Check
<1> QED BY <1>1 DEF Result, Results, Current, Statuses, FailureKinds

\* Appending a result moves the executor to the next check.
LEMMA AppendMoves ==
    ASSUME StepInv, next <= Len(plan), NEW result, AppendResult(result),
           UNCHANGED <<plan, fingerprint, seen>>, source' \in Source, complete' \in BOOLEAN
    PROVE  StepInv'
<1>1. next' \in 1 .. Len(plan) + 1
  BY PlanShape DEF StepInv, AppendResult
<1> QED BY <1>1 DEF StepInv, Position, AppendResult, Steps

\* The executor is always somewhere, with what its next step will read.
LEMMA StepInductive == StepInv /\ [Next]_vars => StepInv'
<1> SUFFICES ASSUME StepInv, [Next]_vars
             PROVE  StepInv'
  OBVIOUS
<1>0. Len(plan) \in Nat
  BY PlanShape
<1> USE DEF Steps
<1>1. CASE ChangeSource
  BY <1>1 DEF ChangeSource, StepInv, Position, Source
<1>2. CASE SkipStructural
  BY <1>0, <1>2 DEF SkipStructural, StepInv, Position
<1>3. CASE RejectDirectGit
  BY <1>3, AppendMoves DEF RejectDirectGit, StepInv
<1>4. CASE OpenSnapshot
  BY <1>4 DEF OpenSnapshot, StepInv, Position, Current, Source
<1>5. CASE Recapture
  BY <1>5 DEF Recapture, StepInv, Position, Compare, Source
<1>6. CASE SnapshotRefused
  BY <1>6, AppendMoves DEF SnapshotRefused, StepInv, Position
<1>7. CASE SnapshotAccepted
  BY <1>7 DEF SnapshotAccepted, StepInv, Position
<1>8. CASE Materialize
  <2>1. ASSUME AppendResult(NotRun("capability")), UNCHANGED complete
        PROVE  StepInv'
    BY <1>8, <2>1, AppendMoves DEF Materialize, StepInv, Position
  <2>2. ASSUME pc' = "recapture_ready", complete' \in BOOLEAN, UNCHANGED <<next, record>>
        PROVE  StepInv'
    BY <1>8, <2>2 DEF Materialize, StepInv, Position
  <2>3. complete \in BOOLEAN
    BY DEF StepInv
  <2> QED BY <1>8, <2>1, <2>2, <2>3 DEF Materialize
<1>9. CASE Refuse
  <2>1. next <= Len(plan) /\ plan[next].kind = "command"
    BY <1>9 DEF Refuse, StepInv, Position
  <2>2. record' \in Results /\ record'.level = plan[next].level
    BY <1>9, <2>1, NotRunType DEF Refuse
  <2> QED BY <1>9, <2>1, <2>2 DEF Refuse, StepInv, Position
<1>10. CASE Launch
  BY <1>10 DEF Launch, StepInv, Position
<1>11. CASE Finish
  <2>1. next <= Len(plan) /\ plan[next].kind = "command"
    BY <1>11 DEF Finish, StepInv, Position
  <2>2. record' \in Results /\ record'.level = plan[next].level
    BY <1>11, <2>1, FinishType DEF Finish
  <2> QED BY <1>11, <2>1, <2>2 DEF Finish, StepInv, Position
<1>12. CASE SourceNotPreserved
  BY <1>12, AppendMoves DEF SourceNotPreserved, StepInv, Position
<1>13. CASE SourcePreserved
  BY <1>13, AppendMoves DEF SourcePreserved, StepInv, Position
<1>14. CASE Abort
  BY <1>14 DEF Abort, StepInv, Position
<1>15. CASE BuildEvidence
  BY <1>15 DEF BuildEvidence, StepInv, Position
<1>16. CASE Finalize
  BY <1>16 DEF Finalize, StepInv, Position
<1>17. CASE Stopped \/ UNCHANGED vars
  BY <1>17 DEF Stopped, vars, StepInv, Position
<1> QED BY <1>1, <1>2, <1>3, <1>4, <1>5, <1>6, <1>7, <1>8, <1>9, <1>10, <1>11, <1>12,
           <1>13, <1>14, <1>15, <1>16, <1>17 DEF Next

(***************************************************************************)
(* The evidence.                                                           *)
(***************************************************************************)

\* The command checks the executor has gone past.
CommandsBefore(n) == {c \in 1 .. n - 1 : plan[c].kind = "command"}

\* The evidence so far tells of exactly the command checks passed, each with
\* the level of its check, and its failures of commands that ran.
Covered ==
    /\ executions \in Seq(Executions)
    /\ ordinal = Len(executions)
    /\ Len(executions) < next
    /\ \A i \in 1 .. Len(executions) :
         /\ executions[i].check \in 1 .. next - 1
         /\ plan[executions[i].check].kind = "command"
         /\ executions[i].result.level = plan[executions[i].check].level
         /\ \A j \in 1 .. i - 1 : executions[j].check < executions[i].check
    /\ \A c \in CommandsBefore(next) :
         \E i \in 1 .. Len(executions) : executions[i].check = c
    /\ Len(executions) = Cardinality(CommandsBefore(next))
    /\ failures \subseteq 0 .. Len(executions) - 1
    /\ \A o \in failures : executions[o + 1].result.status # "not_run"

\* One more check is gone past.
LEMMA CommandsGrow ==
    ASSUME StepInv, next <= Len(plan)
    PROVE  /\ plan[next].kind = "command" =>
                /\ CommandsBefore(next + 1) = CommandsBefore(next) \cup {next}
                /\ Cardinality(CommandsBefore(next + 1)) = Cardinality(CommandsBefore(next)) + 1
           /\ plan[next].kind # "command" => CommandsBefore(next + 1) = CommandsBefore(next)
<1>0. next \in Nat /\ next >= 1
  BY PlanShape DEF StepInv
<1>1. 1 .. (next + 1) - 1 = (1 .. next - 1) \cup {next}
  BY <1>0
<1>2. /\ plan[next].kind = "command" =>
           CommandsBefore(next + 1) = CommandsBefore(next) \cup {next}
      /\ plan[next].kind # "command" => CommandsBefore(next + 1) = CommandsBefore(next)
  BY <1>1 DEF CommandsBefore
<1>3. IsFiniteSet(CommandsBefore(next)) /\ next \notin CommandsBefore(next)
  <2>1. IsFiniteSet(1 .. next - 1)
    BY <1>0, FS_Interval
  <2>2. CommandsBefore(next) \subseteq 1 .. next - 1
    BY DEF CommandsBefore
  <2> QED BY <1>0, <2>1, <2>2, FS_Subset
<1> QED BY <1>2, <1>3, FS_AddElement

\* A result for the command check the executor is at, appended with or without
\* a failure of its run, keeps the evidence complete.
LEMMA AppendCovers ==
    ASSUME StepInv, Covered, next <= Len(plan), plan[next].kind = "command",
           NEW result \in Results, result.level = plan[next].level,
           AppendResult(result), UNCHANGED plan,
           \/ failures' = failures
           \/ failures' = failures \cup {ordinal} /\ result.status # "not_run"
    PROVE  Covered'
<1> DEFINE e == [check |-> next, result |-> result]
<1>1. /\ next \in Nat /\ next >= 1
      /\ executions \in Seq(Executions)
      /\ ordinal = Len(executions)
      /\ Len(executions) \in Nat
      /\ next' = next + 1
      /\ ordinal' = ordinal + 1
      /\ executions' = Append(executions, e)
  BY PlanShape DEF StepInv, Covered, AppendResult
<1>2. e \in Executions /\ e.check = next /\ e.result = result
  BY <1>1 DEF Executions
<1> HIDE DEF e
<1>3. /\ executions' \in Seq(Executions)
      /\ Len(executions') = Len(executions) + 1
      /\ \A i \in 1 .. Len(executions) : executions'[i] = executions[i]
      /\ executions'[Len(executions) + 1] = e
  BY <1>1, <1>2
<1>4. /\ CommandsBefore(next)' = CommandsBefore(next) \cup {next}
      /\ Cardinality(CommandsBefore(next)') = Len(executions) + 1
  <2>1. CommandsBefore(next)' = CommandsBefore(next + 1)
    BY <1>1 DEF CommandsBefore
  <2> QED BY <2>1, CommandsGrow DEF Covered
<1>5. ASSUME NEW i \in 1 .. Len(executions')
      PROVE  /\ executions'[i].check \in 1 .. next' - 1
             /\ plan'[executions'[i].check].kind = "command"
             /\ executions'[i].result.level = plan'[executions'[i].check].level
             /\ \A j \in 1 .. i - 1 : executions'[j].check < executions'[i].check
  <2>1. CASE i \in 1 .. Len(executions)
    BY <1>1, <1>3, <2>1 DEF Covered
  <2>2. CASE i = Len(executions) + 1
    <3>1. executions'[i].check = next /\ executions'[i].result = result
      BY <1>2, <1>3, <2>2
    <3>2. ASSUME NEW j \in 1 .. i - 1
          PROVE  executions'[j].check < next
      <4>1. j \in 1 .. Len(executions) /\ executions'[j] = executions[j]
        BY <1>1, <1>3, <2>2
      <4> QED BY <1>1, <4>1 DEF Covered
    <3> QED BY <1>1, <3>1, <3>2
  <2> QED BY <1>1, <1>3, <2>1, <2>2
<1>6. ASSUME NEW c \in CommandsBefore(next)'
      PROVE  \E i \in 1 .. Len(executions') : executions'[i].check = c
  <2>1. CASE c = next
    BY <1>1, <1>2, <1>3, <2>1
  <2>2. CASE c \in CommandsBefore(next)
    <3>1. PICK i \in 1 .. Len(executions) : executions[i].check = c
      BY <2>2 DEF Covered
    <3> QED BY <1>1, <1>3, <3>1
  <2> QED BY <1>4, <2>1, <2>2
<1>7. /\ failures' \subseteq 0 .. Len(executions') - 1
      /\ \A o \in failures' : executions'[o + 1].result.status # "not_run"
  <2>1. ASSUME NEW o \in failures
        PROVE  o \in 0 .. Len(executions) - 1 /\ executions'[o + 1].result.status # "not_run"
    <3>1. o \in 0 .. Len(executions) - 1 /\ executions[o + 1].result.status # "not_run"
      BY DEF Covered
    <3>2. executions'[o + 1] = executions[o + 1]
      BY <1>1, <1>3, <3>1
    <3> QED BY <3>1, <3>2
  <2>2. executions'[ordinal + 1].result = result
    BY <1>1, <1>2, <1>3
  <2> QED BY <1>1, <1>3, <2>1, <2>2
<1>8. Len(executions') < next'
  BY <1>1, <1>3 DEF Covered
<1>9. ordinal' = Len(executions')
  BY <1>1, <1>3
<1> HIDE DEF CommandsBefore
<1> QED BY <1>3, <1>4, <1>5, <1>6, <1>7, <1>8, <1>9 DEF Covered

\* A structural check is gone past without a result.
LEMMA SkipCovers ==
    ASSUME StepInv, Covered, SkipStructural
    PROVE  Covered'
<1>1. /\ next' = next + 1 /\ next \in Nat /\ next <= Len(plan)
      /\ plan[next].kind # "command"
      /\ UNCHANGED <<plan, executions, ordinal, failures>>
      /\ Len(executions) \in Nat
  BY PlanShape DEF StepInv, SkipStructural, Current, Covered
<1>2. CommandsBefore(next)' = CommandsBefore(next)
  BY <1>1, CommandsGrow DEF CommandsBefore
<1> HIDE DEF CommandsBefore
<1> QED BY <1>1, <1>2 DEF Covered

\* Whatever way a check takes, its result is told once and in its place.
LEMMA CoverageInductive == StepInv /\ Covered /\ [Next]_vars => Covered'
<1> SUFFICES ASSUME StepInv, Covered, [Next]_vars
             PROVE  Covered'
  OBVIOUS
<1>0. ASSUME UNCHANGED <<plan, next, ordinal, executions, failures>>
      PROVE  Covered'
  BY <1>0 DEF Covered, CommandsBefore
<1>1. CASE SkipStructural
  BY <1>1, SkipCovers
<1>2. CASE RejectDirectGit
  <2>1. next <= Len(plan) /\ plan[next].kind = "command"
    BY <1>2 DEF RejectDirectGit, Current
  <2>2. GateFailure(Current) \in {"capability", "configuration"}
    BY <1>2 DEF RejectDirectGit, GateFailure
  <2>3. NotRun(GateFailure(Current)) \in Results /\ NotRun(GateFailure(Current)).level = plan[next].level
    BY <2>1, <2>2, NotRunType
  <2> QED BY <1>2, <2>1, <2>3, AppendCovers DEF RejectDirectGit
<1>3. CASE SnapshotRefused
  <2>1. next <= Len(plan) /\ plan[next].kind = "command"
    BY <1>3 DEF SnapshotRefused, StepInv, Position
  <2> QED BY <1>3, <2>1, NotRunType, AppendCovers DEF SnapshotRefused
<1>4. CASE Materialize
  <2>1. next <= Len(plan) /\ plan[next].kind = "command"
    BY <1>4 DEF Materialize, StepInv, Position
  <2>2. ASSUME AppendResult(NotRun("capability"))
        PROVE  Covered'
    BY <1>4, <2>1, <2>2, NotRunType, AppendCovers DEF Materialize
  <2> QED BY <1>0, <1>4, <2>2 DEF Materialize
<1>5. CASE SourceNotPreserved
  <2>1. /\ next <= Len(plan) /\ plan[next].kind = "command"
        /\ record \in Results /\ record.level = plan[next].level
    BY <1>5 DEF SourceNotPreserved, StepInv, Position
  <2>2. CASE record.status # "not_run"
    BY <1>5, <2>1, <2>2, AppendCovers DEF SourceNotPreserved
  <2>3. CASE record.status = "not_run"
    BY <1>5, <2>1, <2>3, AppendCovers DEF SourceNotPreserved
  <2> QED BY <2>2, <2>3
<1>6. CASE SourcePreserved
  <2>1. /\ next <= Len(plan) /\ plan[next].kind = "command"
        /\ record \in Results /\ record.level = plan[next].level
    BY <1>6 DEF SourcePreserved, StepInv, Position
  <2> QED BY <1>6, <2>1, AppendCovers DEF SourcePreserved
<1>7. CASE \/ ChangeSource \/ OpenSnapshot \/ Recapture \/ SnapshotAccepted \/ Refuse \/ Launch
           \/ Finish \/ Abort \/ BuildEvidence \/ Finalize \/ Stopped \/ UNCHANGED vars
  BY <1>0, <1>7 DEF ChangeSource, OpenSnapshot, Recapture, SnapshotAccepted, Refuse, Launch,
                    Finish, Abort, BuildEvidence, Finalize, Stopped, vars
<1> QED BY <1>1, <1>2, <1>3, <1>4, <1>5, <1>6, <1>7 DEF Next

\* Before the first check there is nothing to tell.
LEMMA InitiallyCovered == Init => StepInv /\ Covered
<1> SUFFICES ASSUME Init
             PROVE  StepInv /\ Covered
  OBVIOUS
<1>1. Len(plan) \in Nat
  BY ExecutionConstants DEF Init
<1>2. StepInv
  BY <1>1 DEF Init, StepInv, Position, Source, Steps
<1>3. CommandsBefore(next) = {}
  BY DEF Init, CommandsBefore
<1>4. Covered
  <2>1. /\ executions = <<>> /\ executions \in Seq(Executions) /\ Len(executions) = 0
        /\ ordinal = 0 /\ next = 1 /\ failures = {}
    BY DEF Init
  <2>2. Cardinality(CommandsBefore(next)) = 0
    BY <1>3, FS_EmptySet
  <2> HIDE DEF CommandsBefore
  <2> QED BY <1>3, <2>1, <2>2 DEF Covered
<1> QED BY <1>2, <1>4

\* The invariant every theorem below rests on.
LEMMA ExecutionInvariant == Spec => [](StepInv /\ Covered)
BY InitiallyCovered, StepInductive, CoverageInductive, PTL DEF Spec

\* Type correctness, with the executions and the failures within the plan.
THEOREM ExecutionTypeCorrect == Spec => []TypeOK
<1>1. StepInv /\ Covered => TypeOK
  <2> SUFFICES ASSUME StepInv, Covered
               PROVE  TypeOK
    OBVIOUS
  <2>1. Len(plan) \in Nat /\ Len(executions) \in Nat /\ next <= Len(plan) + 1
    BY PlanShape DEF StepInv, Covered
  <2>2. record # None => record.status \in Statuses /\ record.level \in Levels
    BY DEF StepInv, Results
  <2> QED BY <2>1, <2>2 DEF StepInv, Covered, TypeOK
<1> QED BY <1>1, ExecutionInvariant, PTL

\* One result per command check, in plan order, with its level, counted by the
\* ordinals: the evidence always passes the validation that follows.
THEOREM EvidenceIsWhole == Spec => []EvidenceCoversPlan
<1>1. StepInv /\ Covered => EvidenceCoversPlan
  BY DEF Covered, EvidenceCoversPlan, CommandsBefore
<1> QED BY <1>1, ExecutionInvariant, PTL

\* Every source-preservation failure is of a command in the evidence that ran.
THEOREM FailuresAreOfRuns == Spec => []FailuresBelongToRuns
<1>1. StepInv /\ Covered => FailuresBelongToRuns
  BY DEF Covered, FailuresBelongToRuns
<1> QED BY <1>1, ExecutionInvariant, PTL

(***************************************************************************)
(* The review.                                                             *)
(***************************************************************************)

\* There is a review exactly when finalize_review has been called, and it is
\* the reduction of some submission on the evidence.
Reviewed ==
    /\ pc # "finalized" => review = None
    /\ pc = "finalized" => \E s \in Submissions : review = Review(s, Evidence)

\* Nothing is appended to the evidence of a review, and no review precedes it.
LEMMA ReviewedInductive == StepInv /\ Reviewed /\ [Next]_vars => Reviewed'
<1> SUFFICES ASSUME StepInv, Reviewed, [Next]_vars
             PROVE  Reviewed'
  OBVIOUS
<1>1. ASSUME UNCHANGED review, pc # "finalized", pc' # "finalized"
      PROVE  Reviewed'
  BY <1>1 DEF Reviewed
<1>2. CASE Finalize
  BY <1>2 DEF Finalize, Reviewed, Evidence
<1>3. CASE Stopped \/ UNCHANGED vars
  BY <1>3 DEF Stopped, vars, Reviewed, Evidence
<1>4. CASE \/ ChangeSource \/ SkipStructural \/ RejectDirectGit \/ OpenSnapshot
           \/ Recapture \/ SnapshotRefused \/ SnapshotAccepted \/ Materialize
           \/ Refuse \/ Launch \/ Finish \/ SourceNotPreserved \/ SourcePreserved
           \/ Abort \/ BuildEvidence
  BY <1>1, <1>4 DEF ChangeSource, SkipStructural, RejectDirectGit, OpenSnapshot, Recapture,
     Compare, SnapshotRefused, SnapshotAccepted, Materialize, Refuse, Launch, Finish,
     SourceNotPreserved, SourcePreserved, Abort, BuildEvidence, AppendResult
<1> QED BY <1>2, <1>3, <1>4 DEF Next

\* What READY says of the evidence of a finalized review.
LEMMA ReadyEvidence ==
    ASSUME StepInv, Covered, Reviewed, review # None, review.verdict = "ready"
    PROVE  /\ pc = "finalized" /\ next = Len(plan) + 1
           /\ failures = {}
           /\ \A i \in 1 .. Len(executions) :
                executions[i].result.level = "required" =>
                  executions[i].result.status = "passed"
<1>1. pc = "finalized"
  BY DEF Reviewed
<1>2. PICK s \in Submissions : review = Review(s, Evidence)
  BY <1>1 DEF Reviewed
<1>3. ReadyIsComplete(s, Evidence)
  BY ExecutionConstants, ReadyNeedsAll
<1>4. /\ Evidence.failures = {}
      /\ \A i \in DOMAIN Evidence.executions :
           Evidence.executions[i].level = "required" =>
             Evidence.executions[i].status = "passed"
  BY <1>2, <1>3 DEF ReadyIsComplete
<1>5. DOMAIN executions = 1 .. Len(executions)
  BY DEF Covered
<1> QED BY <1>1, <1>4, <1>5 DEF StepInv, Position, Evidence

\* READY means every required command of the plan, whatever its length, has a
\* result in the evidence and that result is a pass.
THEOREM ReadyPlansPassed == Spec => []ReadyMeansRequiredPassed
<1>1. StepInv /\ Covered /\ Reviewed => ReadyMeansRequiredPassed
  <2> SUFFICES ASSUME StepInv, Covered, Reviewed, review # None, review.verdict = "ready",
                      NEW c \in DOMAIN plan, plan[c].kind = "command",
                      plan[c].level = "required"
               PROVE  \E i \in DOMAIN executions :
                        executions[i].check = c /\ executions[i].result.status = "passed"
    BY DEF ReadyMeansRequiredPassed
  <2>1. Len(plan) \in Nat /\ DOMAIN plan = 1 .. Len(plan)
    BY PlanShape
  <2>2. c \in CommandsBefore(next)
    BY <2>1, ReadyEvidence DEF CommandsBefore
  <2>3. PICK i \in 1 .. Len(executions) : executions[i].check = c
    BY <2>2 DEF Covered
  <2>4. executions[i].result.level = "required"
    BY <2>3 DEF Covered
  <2>5. executions[i].result.status = "passed" /\ i \in DOMAIN executions
    BY <2>3, <2>4, ReadyEvidence DEF Covered
  <2> QED BY <2>3, <2>5
<1>2. Init => Reviewed
  BY DEF Init, Reviewed
<1> QED BY <1>1, <1>2, ReviewedInductive, ExecutionInvariant, PTL DEF Spec

(***************************************************************************)
(* The source during a run.  Once a content is left it does not come back, *)
(* so a run that was disturbed is told from the source by its final        *)
(* recapture, and the failure that then enters the evidence stays there.   *)
(***************************************************************************)

\* A disturbed run has its failure, or is still to be recaptured from a source
\* that no longer holds what the ChangeSet captured, or the call was aborted.
DisturbanceIsTold ==
    \A o \in disturbed :
      /\ source.content # 0
      /\ \/ o \in failures
         \/ pc = "aborted"
         \/ /\ o = ordinal
            /\ \/ pc = "running"
               \/ pc = "recapture_after" /\ record.status # "not_run"
               \/ pc = "compare_after" /\ record.status # "not_run" /\ seen # 0

\* With contents that do not come back, no disturbed run is forgotten.
LEMMA DisturbanceInductive ==
    ~Reverts /\ StepInv /\ DisturbanceIsTold /\ [Next]_vars => DisturbanceIsTold'
<1> SUFFICES ASSUME ~Reverts, StepInv, DisturbanceIsTold, [Next]_vars
             PROVE  DisturbanceIsTold'
  OBVIOUS
<1>1. CASE ChangeSource
  <2>1. /\ source.content \in Nat /\ source'.content \in Nat
        /\ source'.content >= source.content
    BY <1>1, ExecutionConstants DEF ChangeSource, StepInv, Source
  <2>2. UNCHANGED <<pc, ordinal, failures, record, seen>>
    BY <1>1 DEF ChangeSource
  <2>3. ASSUME NEW o \in disturbed
        PROVE  source'.content # 0
    BY <2>1 DEF DisturbanceIsTold
  <2>4. CASE disturbed' = disturbed
    BY <2>2, <2>3, <2>4 DEF DisturbanceIsTold
  <2>5. CASE RunWindow /\ source'.content # source.content
    <3>1. disturbed' = disturbed \cup {ordinal} /\ source'.content # 0
      BY <1>1, <2>1, <2>5 DEF ChangeSource
    <3> QED BY <2>2, <2>5, <3>1 DEF DisturbanceIsTold, RunWindow
  <2> QED BY <1>1, <2>4, <2>5 DEF ChangeSource
<1>2. ASSUME UNCHANGED <<source, failures, disturbed>>,
             pc \notin {"running", "recapture_after", "compare_after", "aborted"}
      PROVE  DisturbanceIsTold'
  BY <1>2 DEF DisturbanceIsTold
<1>3. CASE Finish
  <2>1. record'.status # "not_run"
    <3>1. next <= Len(plan)
      BY <1>3 DEF Finish, StepInv, Position
    <3> QED BY <1>3, <3>1, FinishType DEF Finish
  <2> QED BY <1>3, <2>1 DEF Finish, DisturbanceIsTold
<1>4. CASE Recapture
  BY <1>4 DEF Recapture, Compare, DisturbanceIsTold
<1>5. CASE SourceNotPreserved
  BY <1>5 DEF SourceNotPreserved, AppendResult, DisturbanceIsTold
<1>6. CASE SourcePreserved
  BY <1>6 DEF SourcePreserved, Preserved, AppendResult, DisturbanceIsTold
<1>7. CASE Abort
  BY <1>7 DEF Abort, DisturbanceIsTold
<1>8. CASE \/ SkipStructural \/ RejectDirectGit \/ OpenSnapshot \/ SnapshotAccepted
           \/ Materialize \/ Refuse \/ Launch \/ BuildEvidence \/ Finalize
  BY <1>2, <1>8 DEF SkipStructural, RejectDirectGit, OpenSnapshot, SnapshotAccepted,
     Materialize, Refuse, Launch, BuildEvidence, Finalize
<1>9. CASE SnapshotRefused
  BY <1>2, <1>9 DEF SnapshotRefused
<1>10. CASE Stopped \/ UNCHANGED vars
  BY <1>10 DEF Stopped, vars, DisturbanceIsTold
<1> QED BY <1>1, <1>3, <1>4, <1>5, <1>6, <1>7, <1>8, <1>9, <1>10 DEF Next

\* As long as no content comes back, READY means that no launched command, not
\* even an advisory one, ran while the source left what was captured.
THEOREM ReadyRunsUndisturbed == ~Reverts => (Spec => []ReadyMeansUndisturbedRuns)
<1>1. StepInv /\ Covered /\ Reviewed /\ DisturbanceIsTold => ReadyMeansUndisturbedRuns
  <2> SUFFICES ASSUME StepInv, Covered, Reviewed, DisturbanceIsTold,
                      review # None, review.verdict = "ready"
               PROVE  disturbed = {}
    BY DEF ReadyMeansUndisturbedRuns
  <2> QED BY ReadyEvidence DEF DisturbanceIsTold
<1>2. Init => Reviewed /\ DisturbanceIsTold
  BY DEF Init, Reviewed, DisturbanceIsTold
<1>3. ASSUME ~Reverts
      PROVE  StepInv /\ DisturbanceIsTold /\ [Next]_vars => DisturbanceIsTold'
  BY <1>3, DisturbanceInductive
<1>4. ASSUME ~Reverts
      PROVE  Spec => []ReadyMeansUndisturbedRuns
  BY <1>1, <1>2, <1>3, <1>4, ReviewedInductive, ExecutionInvariant, PTL DEF Spec
<1> QED BY <1>4

=============================================================================
