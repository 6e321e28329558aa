------------------------- MODULE ExecutionDecision -------------------------
(***************************************************************************)
(* Whether one command may be executed: the decision derived from a        *)
(* request and what the host can do, the results that may follow from it,  *)
(* and the validators that read request, decision and result again.        *)
(*                                                                         *)
(* A host is what an ExecutionCapability says: whether the invariants that *)
(* nobody can waive all hold, the capabilities it has, those whose absence *)
(* a policy lets a human accept, and those a human accepted.               *)
(***************************************************************************)
EXTENDS Naturals

Failure(kind) == kind # "none"

\* _direct_git_gate_failure: rejected before anything is materialized.  git is
\* what _classify_direct_git_request says of the argv.
DirectGitFailure(c) ==
    IF c.profile = "git_repository" /\ c.git = "prohibited" THEN "configuration"
    ELSE IF c.profile = "git_repository" /\ c.git = "unsupported" THEN "capability"
    ELSE "none"

\* The model validator: only a waivable gap can be approved.
HostIsValid(host) == host.approved \subseteq host.waivable

-----------------------------------------------------------------------------
(* Requests.  cwd and snapshot are the failures found before launch.       *)

\* Mutant of Request: the tree is taken to be there.
RequestTrusting(check, manifest, required) ==
    [ id |-> check.id, command |-> check.command, level |-> check.level,
      profile |-> check.profile, required |-> required, cwd |-> "none",
      snapshot |-> "none" ]

\* build_execution_request; the manifest says whether the tree is complete.
Request(check, manifest, required) ==
    [ id |-> check.id, command |-> check.command, level |-> check.level,
      profile |-> check.profile, required |-> required, cwd |-> "none",
      snapshot |-> IF manifest.complete = (manifest.failure = "none")
                   THEN manifest.failure ELSE "capability" ]

-----------------------------------------------------------------------------
(* derive_execution_decision.                                              *)

Missing(request, host) == request.required \ host.available

Decision(kind, failure, missing, accepted) ==
    [kind |-> kind, failure |-> failure, missing |-> missing, accepted |-> accepted]

Blocked(failure, missing) == Decision("cannot_safely_execute", failure, missing, {})

\* Mutant of Decide: what a policy may waive is waived.
DecideWaived(request, host) ==
    LET missing == Missing(request, host)
    IN  IF Failure(request.cwd) THEN Blocked(request.cwd, {})
        ELSE IF Failure(request.snapshot) THEN Blocked(request.snapshot, {})
        ELSE IF ~host.invariants \/ ~(missing \subseteq host.waivable)
        THEN Blocked("capability", missing)
        ELSE Decision("executable", "none", missing, missing)

Decide(request, host) ==
    LET missing == Missing(request, host)
    IN  IF Failure(request.cwd) THEN Blocked(request.cwd, {})
        ELSE IF Failure(request.snapshot) THEN Blocked(request.snapshot, {})
        ELSE IF ~host.invariants \/ ~(missing \subseteq host.waivable)
        THEN Blocked("capability", missing)
        ELSE IF ~(missing \subseteq host.approved)
        THEN Decision("requires_approval", "permission", missing, {})
        ELSE Decision("executable", "none", missing, missing)

-----------------------------------------------------------------------------
(* Results.                                                                *)

Outcome(request, host, decision, status, kind) ==
    [request |-> request, host |-> host, decision |-> decision,
     status |-> status, kind |-> kind]

NotRunOutcome(request, host, decision) ==
    Outcome(request, host, decision, "not_run", decision.failure)

\* execute_request on a tree whose working directory is "there", "missing" or
\* "unsafe": every result it can return.  A working directory that fails
\* changes the request, so the decision is derived again.
Outcomes(request, host, directory) ==
    LET decision == Decide(request, host)
        failure  == IF directory = "missing" THEN "configuration" ELSE "permission"
        blocked  == [request EXCEPT !.cwd = failure]
    IN  IF decision.kind # "executable"
        THEN {NotRunOutcome(request, host, decision)}
        ELSE IF directory # "there"
        THEN {NotRunOutcome(blocked, host, Decide(blocked, host))}
        ELSE { Outcome(request, host, decision, r[1], r[2]) :
                 r \in { <<"passed", "none">>, <<"failed", "unclassified">>,
                         <<"timed_out", "infrastructure">>,
                         <<"errored", "infrastructure">>, <<"errored", "permission">>,
                         <<"errored", "configuration">> } }

-----------------------------------------------------------------------------
(* The validators.                                                         *)

\* ExecutionResult.validate_result.
ResultIsValid(r) ==
    /\ r.decision = Decide(r.request, r.host)
    /\ r.decision.kind = "executable" <=> r.status # "not_run"
    /\ r.kind = "none" <=> r.status = "passed"
    /\ r.status = "failed" => r.kind = "unclassified"
    /\ r.status = "not_run" => Failure(r.decision.failure) /\ r.kind = r.decision.failure
    /\ r.status \in {"timed_out", "cancelled"} => r.kind = "infrastructure"
    /\ r.status = "errored" => r.kind \in {"infrastructure", "permission", "configuration"}

\* CommandExecutionEvidence.validate_binding.
BindingIsValid(manifest, r) ==
    /\ r.request.profile = manifest.profile
    /\ manifest.complete <=> r.request.snapshot = "none"
    /\ ~manifest.complete => r.request.snapshot = manifest.failure

\* A manifest as its own validator accepts it.
ManifestIsValid(manifest) ==
    manifest.complete <=> manifest.failure \notin {"capability", "configuration", "permission"}

=============================================================================
