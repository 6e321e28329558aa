--------------------------- MODULE PlanExecution ---------------------------
(***************************************************************************)
(* execute_verification_plan with the disposable snapshots it opens, while *)
(* the author (or a command) may change the source repository between any  *)
(* two steps, followed by finalize_review on the evidence it returns.      *)
(*                                                                         *)
(* The source is what the executor can see of the repository: the content  *)
(* a capture identifies and the metadata source_preservation_fingerprint   *)
(* digests (HEAD, index file, configuration).                              *)
(***************************************************************************)
EXTENDS VerdictReduction, FiniteSets

CONSTANTS
    Plans,       \* verification plans: sequences of Check
    Contents,    \* contents of the source; 0 is the one the ChangeSet captured
    Metas,       \* metadata fingerprints
    Submissions, \* the semantic assessments a reviewer may submit
    Reverts,     \* whether the author may put an earlier content back
    None

\* git: what _classify_direct_git_request says of the check's argv.
Check ==
    [ kind    : {"command", "structural"},
      level   : Levels,
      profile : {"filesystem_only", "git_repository"},
      git     : {"not_direct", "supported", "unsupported", "prohibited"} ]

ASSUME ExecutionConstants ==
    /\ Plans \subseteq Seq(Check)
    /\ Contents \subseteq Nat /\ 0 \in Contents
    /\ Submissions \subseteq Assessments
    /\ Reverts \in BOOLEAN

VARIABLES
    plan,       \* the plan being executed
    source,     \* the author's repository: content and metadata
    pc,         \* where the executor is
    next,       \* index of the check in plan.checks
    ordinal,    \* command_ordinal
    fingerprint,\* source_fingerprint of the open snapshot
    seen,       \* content of the last recapture
    complete,   \* whether the open snapshot's manifest is complete
    record,     \* execution_record: the result, None before there is one
    executions, \* results with the plan index they belong to
    failures,   \* ordinals of SourcePreservationFailure
    review,     \* the finalized review, None before
    launched,   \* history: some command has been launched
    detected,   \* history: the executor saw a change after a launch
    disturbed   \* history: ordinals whose run the source did not stay put for

vars == <<plan, source, pc, next, ordinal, fingerprint, seen, complete, record,
          executions, failures, review, launched, detected, disturbed>>

Source == [content : Contents, meta : Metas]
Steps ==
    { "next", "recapture_before", "compare_before", "materialize", "recapture_ready",
      "compare_ready", "decide", "running", "recapture_after", "compare_after",
      "evidence", "finalized", "aborted" }

TypeOK ==
    /\ plan \in Plans
    /\ source \in Source
    /\ pc \in Steps
    /\ next \in 1 .. Len(plan) + 1
    /\ ordinal \in 0 .. Len(plan)
    /\ fingerprint \in Metas \cup {None}
    /\ seen \in Contents \cup {None}
    /\ complete \in BOOLEAN
    /\ record # None => record.status \in Statuses /\ record.level \in Levels
    /\ Len(executions) <= Len(plan)
    /\ failures \subseteq 0 .. Len(plan)

Init ==
    /\ plan \in Plans
    /\ source \in {s \in Source : s.content = 0}
    /\ pc = "next"
    /\ next = 1 /\ ordinal = 0
    /\ fingerprint = None /\ seen = None
    /\ complete = TRUE
    /\ record = None
    /\ executions = <<>> /\ failures = {}
    /\ review = None
    /\ launched = FALSE /\ detected = FALSE /\ disturbed = {}

-----------------------------------------------------------------------------
(* The author, or a command that reaches outside its snapshot.             *)

\* A launched command has started and its final recapture has not been taken.
RunWindow ==
    \/ pc = "running"
    \/ pc = "recapture_after" /\ record.status # "not_run"

ChangeSource ==
    /\ pc \notin {"finalized", "aborted"}
    /\ source' \in Source \ {source}
    /\ ~Reverts => source'.content >= source.content
    /\ disturbed' = IF RunWindow /\ source'.content # source.content
                    THEN disturbed \cup {ordinal} ELSE disturbed
    /\ UNCHANGED <<plan, pc, next, ordinal, fingerprint, seen, complete, record,
                   executions, failures, review, launched, detected>>

-----------------------------------------------------------------------------
(* The loop over plan.checks.                                              *)

Current == plan[next]

\* One more execution in the evidence; both counters move on.
AppendResult(result) ==
    /\ executions' = Append(executions, [check |-> next, result |-> result])
    /\ ordinal' = ordinal + 1
    /\ next' = next + 1
    /\ pc' = "next"
    /\ record' = None

NotRun(kind) == Result(Current.level, "not_run", kind)

\* Mutant of SkipStructural: structural checks are counted too.
SkipStructuralCounted ==
    /\ pc = "next" /\ next <= Len(plan)
    /\ Current.kind = "structural"
    /\ next' = next + 1
    /\ ordinal' = ordinal + 1
    /\ UNCHANGED <<plan, source, pc, fingerprint, seen, complete, record,
                   executions, failures, review, launched, detected, disturbed>>

SkipStructural ==
    /\ pc = "next" /\ next <= Len(plan)
    /\ Current.kind = "structural"
    /\ next' = next + 1
    /\ UNCHANGED <<plan, source, pc, ordinal, fingerprint, seen, complete, record,
                   executions, failures, review, launched, detected, disturbed>>

\* _direct_git_gate_failure: rejected before anything is materialized.
GateFailure(c) ==
    IF c.profile = "git_repository" /\ c.git = "prohibited" THEN "configuration"
    ELSE IF c.profile = "git_repository" /\ c.git = "unsupported" THEN "capability"
    ELSE "none"

RejectDirectGit ==
    /\ pc = "next" /\ next <= Len(plan)
    /\ Current.kind = "command"
    /\ GateFailure(Current) # "none"
    /\ AppendResult(NotRun(GateFailure(Current)))
    /\ UNCHANGED <<plan, source, fingerprint, seen, complete, failures, review,
                   launched, detected, disturbed>>

OpenSnapshot ==
    /\ pc = "next" /\ next <= Len(plan)
    /\ Current.kind = "command"
    /\ GateFailure(Current) = "none"
    /\ fingerprint' = source.meta
    /\ complete' = TRUE
    /\ pc' = "recapture_before"
    /\ UNCHANGED <<plan, source, next, ordinal, seen, record, executions, failures,
                   review, launched, detected, disturbed>>

-----------------------------------------------------------------------------
(* The three recaptures of a snapshot's life.                              *)

Compare(p) ==
    CASE p = "recapture_before" -> "compare_before"
      [] p = "recapture_ready" -> "compare_ready"
      [] p = "recapture_after" -> "compare_after"

Recapture ==
    /\ pc \in {"recapture_before", "recapture_ready", "recapture_after"}
    /\ seen' = source.content
    /\ pc' = Compare(pc)
    /\ UNCHANGED <<plan, source, next, ordinal, fingerprint, complete, record,
                   executions, failures, review, launched, detected, disturbed>>

\* The recaptured identity and a fresh fingerprint are what they must be.
Preserved == seen = 0 /\ source.meta = fingerprint

\* The source does not match before the command: the command is NOT_RUN.  A
\* capture that the author keeps disturbing fails the same way.
SnapshotRefused ==
    /\ \/ pc \in {"compare_before", "compare_ready"} /\ ~Preserved
       \/ pc \in {"recapture_before", "recapture_ready"}
    /\ AppendResult(NotRun("capability"))
    /\ detected' = (detected \/ (launched /\ pc \in {"compare_before", "compare_ready"}))
    /\ UNCHANGED <<plan, source, fingerprint, seen, complete, failures, review,
                   launched, disturbed>>

SnapshotAccepted ==
    /\ pc \in {"compare_before", "compare_ready"}
    /\ Preserved
    /\ pc' = IF pc = "compare_before" THEN "materialize" ELSE "decide"
    /\ UNCHANGED <<plan, source, next, ordinal, fingerprint, seen, complete, record,
                   executions, failures, review, launched, detected, disturbed>>

\* The snapshot is written from the ChangeSet, not from the live tree.  What
\* cannot be written is a NOT_RUN result or, for Git, an incomplete manifest.
Materialize ==
    /\ pc = "materialize"
    /\ \/ /\ pc' = "recapture_ready"
          /\ UNCHANGED <<complete, executions, ordinal, next, record>>
       \/ /\ Current.profile = "git_repository"
          /\ complete' = FALSE
          /\ pc' = "recapture_ready"
          /\ UNCHANGED <<executions, ordinal, next, record>>
       \/ /\ Current.profile = "filesystem_only"
          /\ AppendResult(NotRun("capability"))
          /\ UNCHANGED complete
    /\ UNCHANGED <<plan, source, fingerprint, seen, failures, review, launched,
                   detected, disturbed>>

\* execute_request refuses: incomplete manifest, missing capability or
\* approval, or a working directory that is not there.
Refuse ==
    /\ pc = "decide"
    /\ \E kind \in {"capability", "configuration", "permission"} :
         record' = NotRun(kind)
    /\ pc' = "recapture_after"
    /\ UNCHANGED <<plan, source, next, ordinal, fingerprint, seen, complete,
                   executions, failures, review, launched, detected, disturbed>>

Launch ==
    /\ pc = "decide"
    /\ complete
    /\ pc' = "running"
    /\ launched' = TRUE
    /\ UNCHANGED <<plan, source, next, ordinal, fingerprint, seen, complete, record,
                   executions, failures, review, detected, disturbed>>

\* The executor never passes a nonzero_failure_kind, so a nonzero exit is
\* unclassified.
Finish ==
    /\ pc = "running"
    /\ \E r \in { <<"passed", "none">>, <<"failed", "unclassified">>,
                  <<"timed_out", "infrastructure">>, <<"errored", "infrastructure">> } :
         record' = Result(Current.level, r[1], r[2])
    /\ pc' = "recapture_after"
    /\ UNCHANGED <<plan, source, next, ordinal, fingerprint, seen, complete,
                   executions, failures, review, launched, detected, disturbed>>

\* Mutant of SourceNotPreserved: a failure is recorded whether or not it ran.
SourceNotPreservedAlways ==
    /\ \/ pc = "compare_after" /\ ~Preserved
       \/ pc = "recapture_after"
    /\ failures' = failures \cup {ordinal}
    /\ detected' = (detected \/ (launched /\ pc = "compare_after"))
    /\ AppendResult(record)
    /\ UNCHANGED <<plan, source, fingerprint, seen, complete, review, launched, disturbed>>

\* The final recapture raises: the result stands, and unless it is NOT_RUN the
\* change is recorded beside it.
SourceNotPreserved ==
    /\ \/ pc = "compare_after" /\ ~Preserved
       \/ pc = "recapture_after"
    /\ failures' = IF record.status # "not_run" THEN failures \cup {ordinal} ELSE failures
    /\ detected' = (detected \/ (launched /\ pc = "compare_after"))
    /\ AppendResult(record)
    /\ UNCHANGED <<plan, source, fingerprint, seen, complete, review, launched, disturbed>>

SourcePreserved ==
    /\ pc = "compare_after"
    /\ Preserved
    /\ AppendResult(record)
    /\ UNCHANGED <<plan, source, fingerprint, seen, complete, failures, review,
                   launched, detected, disturbed>>

\* Neither an InternalCaptureError of a recapture nor an OSError while the
\* snapshot is written is a PreflightError: it ends the whole call.
Abort ==
    /\ pc \in {"recapture_before", "materialize", "recapture_ready", "recapture_after"}
    /\ pc' = "aborted"
    /\ UNCHANGED <<plan, source, next, ordinal, fingerprint, seen, complete, record,
                   executions, failures, review, launched, detected, disturbed>>

BuildEvidence ==
    /\ pc = "next" /\ next = Len(plan) + 1
    /\ pc' = "evidence"
    /\ UNCHANGED <<plan, source, next, ordinal, fingerprint, seen, complete, record,
                   executions, failures, review, launched, detected, disturbed>>

Evidence ==
    [ executions |-> [i \in DOMAIN executions |-> executions[i].result],
      failures |-> failures ]

Finalize ==
    /\ pc = "evidence"
    /\ \E s \in Submissions : review' = Review(s, Evidence)
    /\ pc' = "finalized"
    /\ UNCHANGED <<plan, source, next, ordinal, fingerprint, seen, complete, record,
                   executions, failures, launched, detected, disturbed>>

Stopped == pc \in {"finalized", "aborted"} /\ UNCHANGED vars

Next ==
    \/ ChangeSource
    \/ SkipStructural \/ RejectDirectGit \/ OpenSnapshot
    \/ Recapture \/ SnapshotRefused \/ SnapshotAccepted \/ Materialize
    \/ Refuse \/ Launch \/ Finish \/ SourceNotPreserved \/ SourcePreserved
    \/ Abort \/ BuildEvidence \/ Finalize \/ Stopped

Spec == Init /\ [][Next]_vars

-----------------------------------------------------------------------------
(* What execution and review promise together.                             *)

\* Whatever path a check takes (gate, refused snapshot, refused or failed
\* command), the evidence has one result per command check, in plan order and
\* with its level, and the ordinals count them: otherwise validate_evidence
\* would reject the evidence after the commands had run.
EvidenceCoversPlan ==
    /\ ordinal = Len(executions)
    /\ \A i \in DOMAIN executions :
         /\ plan[executions[i].check].kind = "command"
         /\ executions[i].result.level = plan[executions[i].check].level
         /\ \A j \in 1 .. i - 1 : executions[j].check < executions[i].check
    /\ Len(executions) =
         Cardinality({c \in 1 .. next - 1 : plan[c].kind = "command"})

\* A source-preservation failure names an execution that is in the evidence
\* and did run; anything else makes the evidence unbuildable.
FailuresBelongToRuns ==
    \A o \in failures :
      /\ o < Len(executions)
      /\ executions[o + 1].result.status # "not_run"

\* READY means every required command of the plan passed, on the ChangeSet.
ReadyMeansRequiredPassed ==
    review # None /\ review.verdict = "ready" =>
      \A c \in DOMAIN plan :
        plan[c].kind = "command" /\ plan[c].level = "required" =>
          \E i \in DOMAIN executions :
            executions[i].check = c /\ executions[i].result.status = "passed"

\* As long as no content comes back (Reverts = FALSE), READY means the source
\* stayed what the ChangeSet captured from the launch of every command to its
\* final recapture, advisory commands included.
ReadyMeansUndisturbedRuns ==
    review # None /\ review.verdict = "ready" => disturbed = {}

\* docs/04_security_and_trust.md: a late source mutation makes READY
\* impossible.  A change the executor meets around a later command that then
\* does not run leaves no source-preservation failure, and an advisory
\* command leaves no gap at all.
DetectedMutationPreventsReady ==
    detected /\ review # None => review.verdict # "ready"

=============================================================================
