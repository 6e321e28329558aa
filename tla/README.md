# A TLA+ model of PrePR Verify

PrePR Verify reviews the local changes of a repository before a pull request.
A person chooses a scope, the program captures it as a `ChangeSet`, plans and
(with consent) runs local checks in disposable snapshots, and reduces a
reviewer's semantic assessment and the collected evidence to a verdict: `READY`,
`NEEDS_CHANGES` or `INCONCLUSIVE`. All paths below are relative to the
repository; the code is in `src/pre_pr_verify/`.

What can go wrong here is rarely inside one function. The author keeps editing
while the program reads; a person changes an answer after something was
authorized; a process dies between running a command and persisting what it
saw; a `READY` is issued although something was lost on the way. Those are the
questions the modules ask.

## 1. Inventory

| Component | State it keeps | Operations | Talks to | What is hard | What makes it correct |
|---|---|---|---|---|---|
| Scope identity (`scope_intent.py`) | none; reads HEAD, index, working tree | `resolved_scope_identity` | setup | the repository moves between two computations | equal identity means equal work |
| Pre-review setup (`pre_review_setup.py`) | phase, answers, details, confirmed scope, authorization binding | `submit`, `cancel`, `set_requirement_candidates`, `bind_scope`, `bind_verification_authorization`, `require_*` | identity, orchestration | calls that fail half-way, reopened answers | consent and details follow the answers |
| Orchestration (`orchestration.py`) | evidence files; authorization objects in the caller | `authorize_verification_plan`, `execute_authorized_plan`, `persist_verification_evidence`, `load_completed_execution`, `finalize_review` | setup, executor, file system | crash between run and persist, retries, two processes, stale authorizations | what runs was confirmed; persisted evidence ends it |
| Plan execution (`executor.py`, `snapshot.py`) | the disposable snapshot; evidence under construction | `execute_verification_plan`, `execute_request`, `disposable_snapshot`, `disposable_git_snapshot` | capture, child processes | the source changes before, while and after a command runs | evidence says what happened, in order |
| Verdict reduction and artifact (`review.py`) | none | `_evidence_gaps`, `_reduce_axes`, `_reduce_verdict`, `_check_summaries`, `build_review_artifact` | evidence, assessment | two reducers that must agree; missing evidence; summaries cut at a limit | `READY` only on complete evidence; the reason of a verdict is never cut |
| Source capture (`git_capture.py`) | none between calls; two attempts within one | `capture_changeset`, `_capture_once`, `_working_tree_scan`, `_metadata_fingerprint` | Git, file system | the author edits between any two reads | the data is of one moment; it ends |
| Change groups, content allocation (`git_capture.py`) | none | events between layers, `_build_groups`, `_allocate_content` | capture | chains of renames, reused paths, budgets at their limit | every difference in one change; budget kept |
| Process runner (`executor.py`) | selector, pipes, process group of one command | loop of `execute_request`, `_process_group_alive`, `_terminate_process_group` | child processes, clock | exits, forks and escapes between polls, late deadline, refused kills | it ends; nothing outlives it; output is whole |
| Output redaction (`executor.py`) | output buffers | `_Collector.feed`, `finish` | process runner | values across chunks, over each other, and at the limit | no protected value shows; chunks do not matter |
| Execution decision (`verification_models.py`, `verification.py`) | none | `build_execution_request`, `derive_execution_decision`, validators of results and bindings | executor | the decision is derived again; validators that reject what the executor recorded | approvals waive what they say; evidence can be built |
| Check planning (`verification.py`) | none | `discover_canonical_checks`, `build_verification_plan` | executor | merging four origins of checks; guidance read from the live tree | a proposal only adds |
| Semantic assessment (`semantic.py`, `semantic_models.py`) | none | `build_semantic_assessment`, `load_semantic_assessment` | verdict | limits reached, gaps to declare, three places that check one contract | what is accepted can be reduced; what was cut can be declared |
| Semantic context (`semantic.py`) | none | `collect_semantic_context` | capture | excerpts under a budget | not modelled |
| Scope discovery and selection (`scope_intent.py`) | none | options, previews, `resolve_scope_selection` | Git | ambiguous bases | selection is what was shown |
| Final report (`orchestration.py`) | report directory and file | `persist_final_report` | file system | paths replaced while writing | the report is written once, outside the repository |
| Discovery, relevance, rendering, CLI, schemas | none | reading and formatting | - | - | not modelled |

Interaction: the caller holds one `PreReviewSetup` per review and passes it to
every orchestration call. Orchestration asks the setup whether it may proceed,
calls the executor, and persists its evidence under a name derived from the
authorization's `binding_identity`. The executor opens a snapshot per check;
the snapshot recaptures the source three times through `capture_changeset`. The
author's repository is shared by everything and belongs to somebody else: in
every module it can change between any two steps of the code.

## 2. Modules

| Module | Models | Extends |
|---|---|---|
| `ScopeIdentity` | a repository of three layers and `resolved_scope_identity` over it | - |
| `ReviewSetup` | `PreReviewSetup`, one action per call | `ScopeIdentity` |
| `ReviewSession` | authorization, execution, evidence files, recovery, crashes; composes `ReviewSetup` | `ReviewSetup` |
| `ConsentedExecution` | abstract specification: a permit is good for one execution | - |
| `PlanExecution` | `execute_verification_plan`, the life of a snapshot, `finalize_review` | `VerdictReduction` |
| `VerdictReduction` | the reducer, as operators | - |
| `SemanticAssessment` | what a reviewer submits, what is signalled, rejected or accepted of it | `VerdictReduction` |
| `ReviewArtifact` | what is persisted of a review, and what is cut | `VerdictReduction` |
| `ReviewReduction` | composes the three above: from drafts to artifacts, losing evidence on the way | `SemanticAssessment`, `ReviewArtifact` |
| `CheckPlanning` | candidates of all origins and their merge, as operators | - |
| `ExecutionDecision` | requests, decisions, outcomes and their validators, as operators | - |
| `PlannedExecution` | capture, discovery, proposals, plan, authorization and the results of its commands | `CheckPlanning`, `ExecutionDecision` |
| `SourceCapture` | `capture_changeset`, attempt by attempt, read by read | - |
| `ProcessRunner` | one command from `Popen` to the result: pipes, polls, deadline, process group | - |
| `RedactionCollector` | `_Collector`, chunk by chunk | - |
| `ChangeAssembly` | from four layers to logical changes and their contents | - |
| `ReviewSessionProofs`, `VerdictReductionProofs`, `ReviewReductionProofs`, `PlanExecutionProofs`, `PlannedExecutionProofs`, `SourceCaptureProofs`, `ProcessRunnerProofs`, `RetainedProofs` | theorems and proofs | their module, `TLAPS`, the proofs of a component they build on |
| `MC*` | constants and small inputs for TLC | the module they instantiate |

How state and actions correspond to the code is in `PROJECT.json` under `map`,
line by line. In short:

- `ScopeIdentity`. A repository is `[head, index, work]` over a set of paths.
  The code hashes a payload (`scope_intent.py:92-151`); the model takes the hash
  to be injective and keeps the payload: the names of staged, unstaged and
  untracked paths and the working file of each. A scope is always a pending
  one, as `resolve_scope_selection` makes it.
- `ReviewSetup`. The record `setup[s]` holds the fields of one object.
  `SubmitScope`, `SubmitRequirement`, `SubmitVerification` and `SubmitFinal` are
  the branches of `submit` by phase. A call that raises before it assigns is a
  stuttering step; the two that assign and then raise are actions
  (`SubmitRequirementWithoutDetail`, and `BindScope` when HEAD has moved).
  `boundRepo`, `consent` and `reviewed` are history variables.
- `ReviewSession`. Between two steps of one `execute_authorized_plan` (lookup,
  execute, write the temporary file, replace, load) another session, the author
  or a crash can come. `Execute` takes the authorization, the plan and the
  capability as independent arguments, as the function does: what does not match
  withdraws the binding (`ExecuteMismatched`). `ExecutePlan` records every
  command `NOT_RUN` when the repository no longer is the plan's ChangeSet.
  `CallerMayCall` is the caller's part: `execute_authorized_plan` looks for an evidence
  file and keeps no record of a call that began. That a caller calls once per confirmed
  authorization (`Retries = FALSE`) is a rule of the runbook; `MayExecute` has what the
  code checks itself.
- `PlanExecution`. `pc` follows one check through the direct-Git gate, the
  recapture before, materialization, the recapture when ready, the decision, the
  run and the recapture after. `ordinal` and `next` are `command_ordinal` and the
  loop index. A nonzero exit is always unclassified, because
  `execute_verification_plan` passes no attribution. `Abort` is everything the loop does
  not catch: an `InternalCaptureError` of a recapture, an `OSError` while the snapshot is
  written.
- `VerdictReduction`. Findings are reduced to whether an axis owns a confirmed
  blocking one. Statuses and failure kinds keep the code's names.
- `SourceCapture`. A component of the repository (HEAD, the index, the content
  and the mode of each path) is read at its own step, in the order of
  `_capture_once`: HEAD, fingerprint, index, first scan, the late reads of paths no
  scan covers, fingerprint, second scan, fingerprint. `read[phase]` keeps
  what was seen. A path in `Nested` is below a directory, and when it is missing the
  directory may be missing as well: `ReadMissing` is a `stat` that returns nothing,
  `DirectoryMissing` one that raises. Both that and `ModeMissing` end the capture
  (`Fail`), because only `_UnstableCapture` is retried.

- `ProcessRunner`. `pc` follows `execute_request` through one iteration of its loop
  (deadline, select, one read per ready pipe, or a poll of the group) and its
  end (wait, kill, the `finally` block). The command is a set of processes that
  fork, leave the group, write, close their pipes and exit between any two
  steps. Output is counted in chunks; a pipe is at its end when no process
  holds it. `_process_group_alive` is one step: once the leader has been polled
  dead the group is empty or not at the moment of `killpg`, and a leader polled alive is answered at
  once. The `TimeoutExpired` branch after the loop has no action, because the
  poll that ended the loop has reaped the leader. `refused` is a history
  variable. A process that has been sent `SIGKILL` takes no more steps and
  counts as gone.

- `SemanticAssessment`. A draft is rejected, signalled (`SemanticLimitExceeded`) or
  accepted. The model keeps the order of the code: collections are bounded first
  (findings, comparisons, limit gaps), then references, coverage and
  contract are checked. An identity is the value it hashes, so a gap is bound to
  the kept comparisons themselves. `ComparisonFields` are the fields that
  `semantic.py:458-463` takes for one of the comparisons: their list, and
  `requirement_comparisons.text` for whatever is inside one of them. Prose, excerpts and identifiers
  are one value each.
- `ReviewArtifact`. `CheckSummaries` has the three structural checks and a summary
  per command; `RetainedChecks` and `RetainedGaps` are the cuts, with the orders the
  code sorts by. Digests are an arbitrary order given by a constant, and so are the
  ordinals at the end of gap IDs, which the code sorts as strings (`OrdinalOrder`:
  `verification.10` comes before `verification.2`).
- `ReviewReduction`. The code that composes assessment and artifact is
  `build_review_artifact`, a function of the draft and the evidence. The steps change
  its inputs: a result or a source is lost, the reviewer withdraws an axis or
  declares an overflow. `IsTyped` and `IsCollected` are what the models' validators
  admit of either.
- `CheckPlanning`. `Candidates` are the structural floor, trusted policy, the
  repository's declarations and a model's proposals; the winner of an ID and the
  profile, raised by every candidate and the invocation, are computed apart, as in
  `build_verification_plan`.
- `ExecutionDecision`. `Decide` is `derive_execution_decision`, first failure first.
  `Outcomes` is every result `execute_request` can return: a working directory
  that fails changes the request and the decision is derived a second time.
- `PlannedExecution`. The author edits what guidance is read from between any two
  steps; a command is one step here (`PlanExecution` has what happens inside).
- `RedactionCollector`. Symbols stand for bytes, `output` for what the digest and the
  byte count see. `StreamingBoundary`, `Settle` and `RedactPrefix` are the code's;
  `Redaction` is a definition of its own, over the whole output at once, that the
  code is compared with.
- `ChangeAssembly`. A layer (merge base, HEAD, index, working tree) maps paths to
  contents. Between two committed or staged layers the renames are Git's: any
  one-to-one pairing, exact ones first. Into the working tree they are
  `_working_tree_scan`'s. Disjoint sets become a fold over links. The loop of
  `_allocate_content` is a recursive function: `Candidate(k)` is its k-th
  candidate, paths in the order of `PathSequence` and layers within a path, and
  `Decide` its body.
- `MCExecution` is the disjoint union of `SourceCapture`, `PlannedExecution` and
  `PlanExecution`, the stages between the author's repository and the evidence. They
  share no variable: a behaviour belongs to one of them, and the other two wait in an
  initial state of their own. `PlannedExecution` has the origin of a check and whatever
  can be recorded of it, `PlanExecution` one check from within; each
  abstracts from what the other is about. One run asks of all three what an
  author who keeps editing can do to a review.
- `MCRetained` is the disjoint union of `RedactionCollector` and `ChangeAssembly`. The
  two share no state and never interact: a behaviour belongs to one of them. One run
  asks of both what is kept of content under limits.

Most modules have operators marked "Mutant of ...": an
implementation mistake (a dropped guard, a missing reset) that a property must
notice. They are used by no action; `PROJECT.json` says which property each
one breaks.

## 3. Runs

Run a configuration with `tlc -config X.cfg M` in this directory.

| Run | Shows |
|---|---|
| `ReviewSetup` | consent (`BindingFollowsAnswer`, `ReadyBindingWasConfirmed`), details (`DetailMatchesAnswer`) and confirmed work (`ReviewedWorkIsConfirmedWork`) survive every order of calls |
| `ReviewSetupStale` | violation: restaging a path that was already staged and modified passes the gate |
| `SessionRunbook` | two processes sharing repository and evidence directory: no foreign result, and refinement of `ConsentedExecution` by callers that follow the runbook |
| `SessionRetry` | one process that retries with stale authorizations: only what was confirmed last runs; once evidence is persisted nothing runs again under its authorization, readable or not, and it is never overwritten |
| `Verdict` | what is accepted can be reduced; axes and verdict agree; `READY` is complete; an unestablished Spec never ends in `READY`; an overflow can be declared; losing evidence never helps; the artifact shows its reasons |
| `Execution`, capture | committed, index and scanned data are of one moment; a capture is given up as unstable only after two edits and ends in an error only over a missing path; each of its steps brings it nearer its end, and no edit farther from it |
| `Execution`, planning | proposals only add; a profile names everyone who raised it; nothing is launched on guidance that is not under review; approvals waive what they say; every record passes the validators |
| `Execution`, execution | evidence is aligned with the plan and truthful, and `READY` needs every required command passed and no disturbance during any run |
| `PlanExecutionLateMutation` | violation: a change met around a later advisory command leaves `READY` |
| `SourceCaptureEdit` | violation: one deletion between the bytes and the mode of a file ends the capture |
| `SourceCaptureDeletion` | violation: a repository at rest with a deleted directory cannot be captured |
| `Retained` | no protected value ever shows and chunks do not matter; every difference between layers is told once, contents fit, and only a reused path stops the assembly |
| `ChangesReused` | violation: a path that is renamed away and made again ends the capture in a `KeyError` |
| `ProcessRunner` | a run that passed or failed lost no output and left no process; nothing of the group outlives the call unless the host refuses the kill; the call returns, whatever the command does |

### Disagreements with the documents

1. `docs/09_v1_skill_runbook.md:269`: the gate "fails closed on ... stale repository
   state". The identity holds no index blob, so the staged half of a path that
   is staged and changed again can be replaced (`ReviewSetupStale`).
2. `docs/04_security_and_trust.md:51`: a late source mutation "records
   `SourcePreservationFailure`, and makes `READY` impossible". When the change
   falls between the final recapture of one command and the snapshot of the next,
   or into the life of a snapshot whose command did not run, only a `NOT_RUN` is
   recorded, which for an advisory check is no gap (`PlanExecutionLateMutation`).
3. `docs/05_repository_scope_and_changeset.md:43`: "A logical file change preserves
   base, HEAD, index, working, and effective states". A path that a commit renames
   away and the working tree makes again has a history in two halves that nothing
   ties together; the change has no path in a layer, and looking it up
   ends the capture with a bare `KeyError` (`ChangesReused`). Calling `_build_groups` with
   these events (`a -> b` committed, `a` untracked) raises it.
   `OnlyReuseStopsAssembly` shows that this is the only history that does.
4. `docs/05_repository_scope_and_changeset.md:57`: "A changed state discards the entire
   attempt and retries once." A file that goes after its bytes were read and before its
   mode is (`git_capture.py:620`) raises a `PreflightError`, which the retry does not
   catch: the first attempt is the last (`SourceCaptureEdit`). `FailureHasCause` says
   that of the edits that are modelled (none changes what a path is) only a deletion,
   of a file or of its directory, has such an effect.
5. `docs/05_repository_scope_and_changeset.md:45`: "deletion uses an explicit absence
   marker". `_working_state` asks `stat` first (`git_capture.py:586`), and when a
   tracked file was deleted together with its directory `stat` does not answer "absent"
   but raises `_RootedPathMissing` (`git_capture.py:243`): "repository path is missing"
   ends the capture, with nobody editing (`SourceCaptureDeletion`). `read_file` catches the
   same exception. `capture_changeset` on a repository with a tracked `dir/f`, after
   `rm -r dir`, raises it.

Met while modelling and left to the reader, without a run:

- `docs/05_repository_scope_and_changeset.md:57`: "data from different moments is never
  blended". A changed path that is out of the index and ignored is read once, between
  the scans, and compared with nothing (`git_capture.py:1128`). `SourceCapture` has such
  paths in the constant `Ignored`, which its configuration leaves empty; with one,
  "captured is a member of moments" does not hold.
- `docs/03_verification_strategy.md:22` has a proposal whose ID collides rejected; a
  proposal identical to the existing check is merged into it.
- `docs/07_decision_log.md:117` and `docs/04_security_and_trust.md:41` call the retained
  tail bounded. It is pulled back by every match that reaches over it, so it grows
  with a run of self-overlapping values; `NothingWithheldNeedlessly` says exactly so much.
- A limit that `load_semantic_assessment` finds is bound to the whole payload
  (`semantic.py:786`), which no resubmission through the builder expects. The builder
  bounds its collections first and never gets there. A gap whose field is inside
  `requirement_comparisons`, which only the loader signals, can never be declared:
  `_validate_requirement_completeness` takes it for one of the comparisons' list and
  rejects it (`InnerLimit` in `MCVerdict`), where `docs/09_v1_skill_runbook.md:529` has a
  `requirement_comparisons...` gap preserved.
- `orchestration.py:445`: "Reuse valid run evidence or execute once for the bound
  authorization." What the code has against a second execution is the evidence file.
  When a process dies between the commands and the file, a second call runs them again:
  `SessionRetry` has such behaviours, and `docs/09_v1_skill_runbook.md` tells the caller
  not to make that call.

### Bounds, and why they are enough

- `ReviewSetup`: one session (sessions share only the repository, which is
  arbitrary at every step), one path, three contents plus absence in index and
  working tree, two commits, two authorizations. Three contents allow a commit, a
  staged and a working version to differ; two commits let HEAD move; two
  authorizations let one replace another.
- `SessionRunbook`: two sessions, two repository states, so that the same
  authorization, and different ones, can be held by both. The caller follows the
  runbook (`Retries = FALSE`: one call per confirmed authorization).
  `MaxRuns = 2` lets a second run appear if a call could make one;
  `MaxMisplaced = 1` bounds files damaged or swapped at a time.
- `SessionRetry`: one session, two policies, two verification answers: a stale
  authorization and a "review without execution" meet, and the caller retries. Files
  can be damaged or swapped but not deleted: after a deletion the code does run
  the commands again.
- `Verdict`: every evidence of up to two commands (a gap in one and none in the other,
  two blockers, a blocker and a gap) under plain drafts, and drafts with two findings,
  a comparison and two limit gaps at most, one more than which overflows, under few
  evidences. Two of five axes vary over everything and a third can be withdrawn: the
  code treats axes alike except `spec` and `test_sufficiency`, which are the two.
  `MaxChecks = 3` is below the number of summaries, so that checks are cut. `MaxGaps = 8`
  keeps the proportion of the code, where 256 exceeds the 16 limit gaps and the five axes
  (`GapsFit`: 2 + 5 < 8), and is below the nine gaps that two limits, three axes and two
  lost commands make, so that gaps are cut too. The theorems remove these bounds.
- `Execution`, execution: two command checks and a structural one, in two orders. All
  hazards are between one command and the next. `Contents = {0, 1}` and
  `Reverts = FALSE`: the author cannot bring the captured content back, an
  assumption that `ReadyMeansUndisturbedRuns` needs, since recaptures compare
  content and cannot see a change that was undone.
- `Execution`, capture: one tracked and one untracked path, each with content and
  mode, three versions, two edits; the untracked path is below a directory, and one of the
  two may be missing from the start. An edit touches the index, HEAD with the index, the
  content of a path, or its mode (of the tracked one), or both, or all paths together (a
  checkout). Two edits is what it takes to disturb both attempts.
  An edit gives a component a value it has not had (`Edit`), for the same reason as
  above: an edit undone between two equal scans is invisible, and the atomicity
  property is about the rest.
- `Execution`, planning: two free IDs and one of the floor; a file that declares both, one that
  declares one of them more weakly, and one that is invalid; three policies; seven
  proposals, of which two are made; five hosts, one for each way a capability can be
  there, waived, approved or missing. Two proposals of one ID can collide with each other and with both
  other origins.
- `Retained`, redaction: every output of up to seven symbols in every chunking into ones
  and twos, eleven sets of values (nested, self-overlapping, overlapping each other
  or the marker, too long, too many), limits within and above. A value of
  three symbols, a tail of one more and a boundary pulled back fit in seven.
- `Retained` and `ChangesReused`, assembly: three paths, two contents of different size,
  every merge base up to the names of its paths, every history in which each
  layer changes at most two paths (`MaxTouched`, what a rename takes), three pairs of
  limits. Three paths let a rename chain pass through another path's history.
- `ProcessRunner`: the leader and two children, one chunk per pipe. Two children
  let one stay in the group while the other leaves it with the pipes; one
  chunk tells a pipe that was read to its end from one that was not. The
  theorems remove both bounds.

The counters are bounded by `MaxEdits` (capture), `MaxRuns` and
`MaxMisplaced` (sessions), `MaxProposals` (planning), `MaxChunk` and `MaxOutput`
(redaction), `MaxTouched` (assembly).

Symmetry is used over sessions (`SessionRunbook`, whose temporal property is a
refinement of a safety specification and names no single session) and over the
two later versions (`Execution`, `SourceCaptureEdit` and `SourceCaptureDeletion`, whose
properties name no version).
Deadlock is checked everywhere except in `Verdict`, `Retained` and
`ChangesReused`, whose behaviours are finite: a review that has lost everything has
nothing left to lose, and output and layers end. In `Execution` a plan that was rejected
stutters. Elsewhere the end of a program is an explicit stuttering action or the
program never stops.

### Fairness

One run assumes fairness, of the program's own thread and never of the other side.
`ProcessRunner` has weak fairness of `RunnerStep`, the steps of `execute_request`,
which waits for nothing but `select` with a timeout, and of `Expire`: time
passes, so the deadline comes. Nothing is assumed of the command's processes.

That a capture ends needs no more than that its thread takes steps: `CaptureAdvances`
says that each of them brings a bounded measure strictly nearer its end and no
edit takes it back, however long the author goes on.

The setup and the sessions have a person on the other side who may stop at any
time; nothing there is claimed to happen eventually.

## 4. Proofs

TLAPS checks the following for every value of the constants that satisfies the
assumptions named below. `X is strengthened by Y` means that X is not inductive and
`X /\ Y` is.

### The setup (`ReviewSessionProofs`, first part)

- `IdentityDeterminesWork`: equal identities mean equal working trees. A clean path
  is never read, but a path that is in none of the three sets holds what the
  commit holds, in both repositories; a pending one is compared by content.
- `SetupTypeCorrect`: type correctness.
- `SetupConsent`, `NoBindingAfterConsent`: `BindingFollowsAnswer` and
  `ReadyBindingWasConfirmed` together with types are inductive (`ConsentInv`). The
  second needs the first: a reauthorized setup must come back to the final
  confirmation without a binding.
- `SetupReviewsConfirmedWork`: the invariant does not mention why the stored
  identity is the right one, so it is strengthened by `ConfirmedIdentity`: a scope
  is bound exactly when `boundRepo` is set, and a stored identity is that of
  `boundRepo`, which was on the pinned commit. The gate's comparison then
  feeds `IdentityDeterminesWork`.
- `SetupDetails`: strengthened by `AnswersOpen`: details are only ever added by
  `submit`, so a phase whose question is open must hold none.

### The sessions (`ReviewSessionProofs`, second part)

- `SessionImplementsSetup`: every behaviour of the sessions is one of `ReviewSetup`,
  by a step simulation (`SessionStepsSetup`). All of the above therefore holds of a
  setup that orchestration drives, with crashes and any number of processes.
- `SessionTypeCorrect`: types, strengthened by `CallsAreAuthorized`.
- `ExecutionsAreConsented`: `ExecutionIsConsented`, from the setup's two consent
  invariants and `CallIsBound`: between the match of its authorization and the end of
  a call, the setup is ready and holds that authorization. No person can answer and
  nothing reauthorizes while the call of the same process is under way; a
  crash ends both.
- `ResultsBelong`: strengthened by `HeldForChangeSet`: a session only holds
  authorizations of its ChangeSet and only calls with what it holds. The ChangeSet is
  chosen once, while nothing is held.
- `OneProcessWritesOnce`: the action property `EvidenceWrittenOnce` for a single session,
  as in the run (`SessionRetry`), where retries are allowed. It needs `TargetStaysFree`: a
  call that found no file meets none when it puts its own in place. With two
  sessions that is false: the other can be faster.
- `PersistedEndsExecution`: the action property `PersistedEvidenceEndsExecution` for a
  single session, with any caller, retries and crashes. A call that found no file finds
  none when its commands run either (`TargetStaysFree` again), and no step takes a file
  away (`EvidenceStays`). It is what the code ensures of callers that do not follow the runbook.
- `SessionImplementsConsent`: the refinement of `ConsentedExecution`, for any number of
  sessions, under `~Retries`. Each kind of step is shown to be a grant,
  a use, a revocation or a stutter of the abstract specification under the mapping
  `PermitOf`, `ExecutedOf`, given `ConsentedInv` and `AttemptsCount`: before the attempt nothing
  has run, and nothing runs before its plan is executed.

### Execution of a plan (`PlanExecutionProofs`)

- `ExecutionTypeCorrect`, `EvidenceIsWhole`, `FailuresAreOfRuns`: by induction along the
  steps of a check. `Position` says what holds at each `pc`; `Covered` that the
  evidence so far tells of exactly the command checks before the loop index, counted by
  the ordinal. The properties speak of the finished evidence alone and are not inductive.
- `ReadyPlansPassed`: `Covered` lines evidence up with the plan, `Reviewed` makes the
  review the reduction of an assessment on it, and `ReadyNeedsAll` does the rest.
- `ReadyRunsUndisturbed`, where no content comes back (`~Reverts`): strengthened by
  `DisturbanceIsTold`: a disturbed run has its failure recorded, or is still to be
  compared with a source that has left the captured content for good, or the call was
  aborted. With reverts it is false, as no recapture can see an undone change.

### Planning and the records of a plan (`PlannedExecutionProofs`)

- `ApprovalsAreHonest`, `RecordsPassValidation`: `ApprovalIsHonest` and
  `EvidenceIsBuildable` for every plan, host and number of commands. What
  `execute_request` can return is described once (`OutcomeShape`), from which both
  follow for one command (`OutcomeIsHonest`, `OutcomeIsRecordable`); `RecordInv` carries
  them along the plan, which stays as it is from its authorization on.
- `ProposalsAdd`: the action property `ProposalsOnlyAdd`. The winner of an ID is the least
  candidate in an order of origins and places that no proposal disturbs; a profile is
  a maximum over more candidates.
- `PlansNameTheirRaisers`: a plan is the image of the candidates' IDs
  (`PlanIsBuilt`), built from candidates that pass the validators. `Sorted` is described as a
  set of sequences with one member, because `IdOrder` is injective; that it has one is not
  needed, any member satisfies the invariant.
- `OnlyReviewedGuidanceRuns`: strengthened by `SourcesAgree`: once something was launched,
  every declaration of the plan was read from what the ChangeSet captured.

### Source capture (`SourceCaptureProofs`)

- `CaptureTypeCorrect`: types, and that the repository is one of the `moments`.
- `FailuresHaveCauses`: `FailureHasCause`. For what is unstable it is strengthened by
  `ReadOfRepo` (in an attempt nobody has disturbed, what was read still holds, so that
  comparing again finds it equal) and `EditsCount` (a second attempt has seen one edit);
  for an error by `ReadsArePast` and `ListedArePast`: a path that was listed, or of which
  the bytes were read, had been there (`ErrorHasCause`).
- `CaptureIsOneMoment`: the moment is the one at which the first scan was done.
  `ReadsArePast`: a component, and what was read of it, are versions it has had;
  where no version returns (`Edit`), two equal reads mean that it was that version in between.
  `CollectIsBetween` is this for the index, and `MomentWasThere` says that the state of that
  moment agrees with every component whose second read has not differed; at the
  end none has. `InTurn` gives the order of the phases.
- `CapturesAdvance`: the action property `CaptureAdvances`. `Progress` counts slots
  filled and paths listed, and more than all of them for a second attempt; it
  is bounded because both are subsets of a finite set.

### Process runner (`ProcessRunnerProofs`)

- `RunnerTypeCorrect`: types. What the types alone do not keep is that a pipe is only
  left to read while a round lasts and that no more is collected than was written.
- `CompletedRuns`: `CompletedRunIsWhole` for any number of processes and chunks. It
  is strengthened to `RunInv`: a pipe taken off the selector has no holder and no
  chunk left and, since only a holder can fork a holder or write, gets neither
  back (`Draining`); an empty group stays empty, because only a member can fork
  into it (`Finishing`); a leader that is not in its group has an exit code
  (`LeaderExits`).
- `GroupsEnd`: `NothingOutlivesTheCall`, from `RunInv` and `Ending`: the `finally`
  block skips the kill only when the group was seen empty or was terminated already.

### Output redaction (`RetainedProofs`, first part)

None of the three properties of an excerpt is inductive: they speak of what is shown and
not of what is pending. `CollectorInv` ties both to the output: there is a release point
`k` (`ReleasedTo(k)`) such that

- what has arrived since `k` is pending, and what is shown is what the limit leaves of
  `TextOf(patterns, output)[k]`, the redaction of the whole output up to `k`;
- no occurrence of a value reaches over `k`, and every value that begins before `k` would
  end before the end of the output (`FarFromEnd`): no chunk can ever add an
  occurrence over `k` (`StaysUncrossed`);
- every later place that is far from the end is crossed (`AllCrossed`).

`TextOf` says position by position what is shown: a marker where a run of overlapping
occurrences opens, nothing where one goes on, the symbol elsewhere. That `RedactPrefix`
computes it from the matches of what is pending alone is `RedactPrefixFacts` and
`TextSplit`: a place that is not crossed splits the text. Cutting every piece at the
limit is cutting the whole (`CutAppend`).

- `CollectorIgnoresChunks`: `ChunksDoNotMatter`. One chunk moves the release point
  (`FeedReleases`), `finish` moves it to the reference's `TailStart` (`FinalBoundaryFacts`,
  `TailFacts`), and the reference definition is `TextOf` up to there (`RedactionText`).
- `CollectorWithholdsOnlyTails`: `NothingWithheldNeedlessly`, from `AllCrossed`: that is why the
  boundary must be the last one possible and not just a safe one.
- `CollectorKeepsSecrets`: `ProtectedValuesNeverShow`. The text of the first `n` positions ends
  with symbols that nothing covers, and before them with a marker or nothing at all
  (`EndsPlain`). A value that one more symbol completes is in the output, so that the symbol
  was covered, or reaches into the marker, which `Overlaps` excludes; one that a
  marker completes overlaps it as well (`MarkerApart`). What a limit leaves of a clean text is
  clean (`CutClean`).

The induction over positions goes through two lemmas stated about sets and functions
instead of operators, `Induction` and `Recursion`, both from the well-foundedness of `<`.

### Assembly of a change set (`RetainedProofs`, second part)

What is known of a capture (`CaptureInv`) is types and that between any two layers the
renames pair what is gone with what is added, one to one (`Renaming`): Git's pairings by
definition, `_working_tree_scan`'s because it only pairs a content that one gone and one added
path have (`RenamingFacts`). The rest is about what `Assemble` computes from four
layers of which nothing else is known.

`FoldSet` takes links in an order chosen by `CHOOSE`. `FoldExists` is recursion over the subsets
of a finite set, `JoinFacts` one merge, and `PartitionFacts` says of the result, whatever the
order, that it covers the nodes, that groups are apart, that linked nodes are together and
that a group lies inside every closed set it meets (`GroupWithin`).

- `AssemblyStopsOnlyForReuse`: `OnlyReuseStopsAssembly`. A group is a chain. A path is linked to
  at most one path of the next layer and at most one of the layer before (`EdgeFacts`), and
  every node of a group but its first is linked to one of the layer before (`Predecessors`); by
  induction over the layers it has one path in each (`OnePath`). No group is `Ambiguous`: "logical
  change has multiple paths in one layer" is never raised. A group that begins after the first layer begins where a rename took its
  path away before, and one that ends before the last ends at a path a rename makes again
  (`GroupEnds`, `StartsLate`, `EndsEarly`); with its nearest event that is `Reused`. The
  converse, that a reuse always splits a group off, is `ReusedIsIncomplete`: the `KeyError`
  is not one possible outcome of a reuse but the only one.
- `ChangesAreTold`: `ChangesTellEverything`. A file that is not the same in all layers is, up to
  the nearest layer that differs, one run of linked nodes (`SameRun`), and there is an event
  at the end of it (`EventHere`, `InAGroup`): it is in a group that is kept, and in no other. Between
  origins nothing changes (`OriginFacts`, `QuietWalk`).
- `AllocationFits`: `ContentsFit`, by induction over the candidates (`AllocationFacts`): what was
  decided stays decided, `used` is the sum of what was captured, and a content that did
  not fit the total does not fit later because `used` only grows (`DecideFacts`). The sum over a
  set is a fold again; that it grows by the size of each new element is `SumGrows`.

The three together with `CaptureInv` are the inductive invariant `AssemblyInv`.

### Reducer and artifact (`VerdictReductionProofs`, `ReviewReductionProofs`)

- `AxesTellTheVerdict`, `ReadyNeedsAll`, `LossNeverHelps`: about the reducer's
  operators, for any assessment the model validators accept and evidence
  of any length. `GapsAffectAxes` carries the first: a gap that affected no axis could stop `READY`
  without showing in any of them.
- `AcceptedDrafts`, `UnestablishedSpec`, `OverflowsCanBeDeclared`: for any scope and any
  draft of the models' types (`IsTyped`). The first discharges the premise
  `s \in Assessments` of the reducer's theorems for all that can reach the reducer; the
  second follows from it and `ReadyNeedsAll`, because whatever leaves the Spec
  unestablished obliges a withdrawn axis or a limit gap. The third is the step a
  reviewer takes after `SemanticLimitExceeded`: the added gap collides with no other,
  since a gap already there must be the same one.
- `AcceptedAreReducible`, `AxesAlwaysAgree`, `ReadyIsAlwaysComplete`, `UnestablishedNeverReady`,
  `OverflowsAreDeclarable`: the properties of the run `Verdict`, from the
  above and `InputInv`: whatever is lost or declared, the draft stays typed and the
  evidence what its validator accepts.
- `LossNeverGains`: the action property `LossNeverMakesReady`. A step that loses evidence is
  `LossNeverHelps`; a withdrawn axis cannot be `READY`.
- `ReasonsAlwaysShow`: `ReasonsStayVisible` for every number of commands and all limits. A
  set whose order is transitive keeps its least elements when it is cut: a failed
  command is only cut for other failed commands (`BlockersAreCutLast`), and one is shown
  if there is one (`ABlockerIsShown`). Gaps go by kind, so at most `MaxLimitGaps` and one per axis
  come before the first source or verification gap
  (`SemanticGapsAreFew`, `EarlyGapsAreShown`), which affects every axis that later ones do.

### Assumptions

Each is as weak as the proofs allow, and TLC evaluates it in a run.

- `ScopeConstants`, `SetupConstants`, `SessionConstants`, `RunnerConstants`, `NoConfusion`: special
  values are none of the others, kinds of paths are disjoint, `RepoStates` and `Sessions`
  are any sets; nothing is said of how many.
- `ExecutionConstants`: what the reviewer submits is in `Assessments`, which is what
  `finalize_review` gets from `load_semantic_assessment` (`AcceptedDrafts` proves it).
- `PlanningConstants`, `HostRecords`: inputs, profiles and hosts have their types, `IdOrder`
  gives each ID its own place, as the string order of different IDs does.
- `CaptureConstants`, `InitialRepositories`: finitely many paths, tracked or untracked.
- `AssessmentLimits`, `ArtifactLimits`: limits are positive; digests and ordinals have a place.
  Digests need not differ.
- `ReviewInputs`: drafts and evidence are instances of their models.
- `CollectorConstants`: the marker and the values are sequences and not empty, each set of
  values is finite. Nothing is said of the symbols, of their number, of the limits
  beyond being positive, or of the size of chunks.
- `AssemblyConstants`: bases are trees, the paths can be put in a sequence, each content has a size, a limit
  is a natural number. Nothing is said of how many paths or contents there are, or of
  `MaxTouched`, which bounds the runs and plays no part in the proofs.
- `GapsFit`: the artifact holds more gaps than limit gaps and axes together; in the code 256
  (`review_models.py:33`) against 16 (`semantic_models.py:29`) and 5. Without it
  the reviewer's gaps could hide the one of a command, which sorts after them.

### Model-checked only

- `RunEnds`: liveness under fairness, with `ENABLED`.
- The five violations, which are counterexamples.

## 5. Not modelled

- `PlanExecution` takes a run as one step with four outcomes; `ProcessRunner`,
  `RedactionCollector` and `ExecutionDecision` look inside it on their own. `FAILED` with a
  trusted attribution exists in `VerdictReduction` but the executor never produces it.
- Evidence of a plan without commands; explicit includes, ignored files, submodules and
  symbolic links in the assembly of changes; change signals and the parsing of
  `pyproject.toml` in planning; which Git commands the direct-Git gate knows.
- `collect_semantic_context`: excerpts under a budget, read from a ChangeSet that does
  not change any more; no state and no concurrency.
- The identity is read in one step although the code reads it in several.
- Scope discovery and selection, and `persist_final_report`: planned. A report is
  written after the verdict and nothing reads it back.
- Rendering, CLI, JSON schemas, requirement discovery: reading and formatting without
  state.
- Legacy document versions (`Legacy*` models): loaders only.

## 6. Plan

Done, in this order: `ScopeIdentity`, `ReviewSetup`, `ReviewSession` with
`ConsentedExecution`, `VerdictReduction`, `PlanExecution`, `SourceCapture`, `ProcessRunner`,
`RedactionCollector`, `ExecutionDecision`, `CheckPlanning` and `PlannedExecution`,
`SemanticAssessment`, `ReviewArtifact`, `ReviewReduction`, `ChangeAssembly`, and the proofs of
every component: every invariant and every action property of a passing run is a theorem.

Next theorems:

1. `SessionRetry` for several sessions: what `EvidenceWrittenOnce` becomes when
   two processes race (the file that stays is of the same authorization).

Next modules:

1. `FinalReport`: `persist_final_report` with paths replaced between its steps.
2. `ScopeSelection`: options, previews and selection with a moving HEAD; and a
   step-wise reading of the identity.
3. `SemanticContext`: excerpts under their budgets.
