--------------------------- MODULE ReviewSession ---------------------------
(***************************************************************************)
(* The orchestration of one review: a PreReviewSetup, the ChangeSet it     *)
(* captures, the authorization it binds and execute_authorized_plan, which *)
(* reuses persisted evidence or runs the plan and persists what it saw.    *)
(*                                                                         *)
(* A session is a process that hosts one review.  Sessions share the       *)
(* author's repository and the evidence directory, and each runs one call  *)
(* at a time; steps of a call are separate because another session, the    *)
(* author or a crash can come between them.                                *)
(***************************************************************************)
EXTENDS ReviewSetup, Sequences, FiniteSets

CONSTANTS
    Checks,       \* the contents (some command) a plan for a ChangeSet may have
    Capabilities, \* ExecutionCapability identities
    Policies,     \* timeout, output limit and required capabilities
    Damaged,      \* an evidence file the canonical loader rejects
    Retries,      \* whether a caller executes again after a failed call
    MaxRuns,      \* bound: executions explored per final confirmation
    MaxMisplaced  \* bound: evidence files unreadable or misplaced at a time

Plans == [changeset : RepoStates, checks : Checks]

ASSUME SessionConstants ==
    /\ Authorizations =
         [plan : Plans, capability : Capabilities, policy : Policies]
    /\ Retries \in BOOLEAN
    /\ MaxRuns \in Nat
    /\ MaxMisplaced \in Nat

\* Evidence records the authorization it was collected under, whether its
\* commands ran, and (to tell runs apart) the session that ran them.
Evidence == [auth : Authorizations, ran : BOOLEAN, by : Sessions]

ASSUME NoConfusion == {None, Damaged} \cap Evidence = {}

VARIABLES
    changeset, \* the ChangeSet each session captured
    held,      \* the VerificationAuthorization objects each session has
    call,      \* where each session is in execute_authorized_plan
    temp,      \* the temporary evidence file of each session's process
    files,     \* the evidence files, named by binding identity
    result,    \* the evidence the last call returned, None if it raised
    attempted, \* the caller has attempted this confirmed authorization
    runs       \* history: executions since the last final confirmation

execVars == <<changeset, held, call, temp, files, result, attempted, runs>>
sessionVars == <<vars, execVars>>

CallSteps == {"idle", "lookup", "execute", "write", "replace", "load"}

IdleCall == [at |-> "idle", auth |-> None, evidence |-> None]

SessionTypeOK ==
    /\ TypeOK
    /\ changeset \in [Sessions -> RepoStates \cup {None}]
    /\ held \in [Sessions -> SUBSET Authorizations]
    /\ call \in [Sessions -> [at : CallSteps,
                              auth : Authorizations \cup {None},
                              evidence : Evidence \cup {None}]]
    /\ temp \in [Sessions -> Evidence \cup {None}]
    /\ files \in [Authorizations -> Evidence \cup {None, Damaged}]
    /\ result \in [Sessions -> Evidence \cup {None}]
    /\ attempted \in [Sessions -> BOOLEAN]
    /\ runs \in [Sessions -> Seq(Authorizations)]
    /\ \A s \in Sessions : Len(runs[s]) <= MaxRuns

SessionInit ==
    /\ SetupInit
    /\ \A s \in Sessions : ~setup[s].configured
    /\ changeset = [s \in Sessions |-> None]
    /\ held = [s \in Sessions |-> {}]
    /\ call = [s \in Sessions |-> IdleCall]
    /\ temp = [s \in Sessions |-> None]
    /\ files = [a \in Authorizations |-> None]
    /\ result = [s \in Sessions |-> None]
    /\ attempted = [s \in Sessions |-> FALSE]
    /\ runs = [s \in Sessions |-> <<>>]

Idle(s) == call[s].at = "idle"

-----------------------------------------------------------------------------
(* Setup answers, between calls.                                           *)

\* The runbook's order: bind the scope, capture, then configure requirements.
\* Which requirement is chosen changes nothing below: one answer stands for all.
AnswerSetup(s) ==
    /\ Idle(s)
    /\ \/ \E c \in ScopeChoices : SubmitScope(s, c, TRUE)
       \/ BindScope(s)
       \/ changeset[s] # None /\ ConfigureRequirements(s)
       \/ SubmitRequirement(s, "accepted-discovered-source")
       \/ \E c \in VerificationChoices : SubmitVerification(s, c, TRUE)
       \/ Cancel(s)
    /\ UNCHANGED execVars

\* A final confirmation opens a new authorization flow for the caller.
AnswerFinal(s) ==
    /\ Idle(s)
    /\ SubmitFinal(s)
    /\ attempted' = [attempted EXCEPT ![s] = FALSE]
    /\ runs' = [runs EXCEPT ![s] = <<>>]
    /\ result' = [result EXCEPT ![s] = None]
    /\ UNCHANGED <<changeset, held, call, temp, files>>

\* capture_resolved_scope, after bind_scope and before the next answer.  An
\* empty ChangeSet is rejected by every later call and is not captured here.
Capture(s) ==
    /\ Idle(s)
    /\ setup[s].phase = "requirements"
    /\ setup[s].scopeBound
    /\ changeset[s] = None
    /\ ScopeResolves(repo)
    /\ PendingPaths(repo) # {}
    /\ changeset' = [changeset EXCEPT ![s] = repo]
    /\ UNCHANGED <<vars, held, call, temp, files, result, attempted, runs>>

-----------------------------------------------------------------------------
(* authorize_verification_plan                                             *)

\* The phase and scope checks both calls of authorization begin with.
MayAuthorize(s) ==
    /\ \/ setup[s].phase = "final_confirmation"
       \/ setup[s].phase = "ready_to_review" /\ setup[s].binding # None
    /\ ScopeConfirmed(s)
    /\ changeset[s] # None
    /\ setup[s].verification \in Authorizing

\* Binds the authorization, or finds the same one already bound.
Authorize(s, a) ==
    /\ Idle(s)
    /\ MayAuthorize(s)
    /\ a.plan.changeset = changeset[s]
    /\ \/ BindAuthorization(s, a)
       \/ setup[s].binding = a /\ UNCHANGED vars
    /\ held' = [held EXCEPT ![s] = @ \cup {a}]
    /\ UNCHANGED <<changeset, call, temp, files, result, attempted, runs>>

\* A different plan, capability or policy withdraws what was bound and raises.
AuthorizeChanged(s, a) ==
    /\ Idle(s)
    /\ MayAuthorize(s)
    /\ a.plan.changeset = changeset[s]
    /\ setup[s].binding \notin {None, a}
    /\ RequireReauthorization(s)
    /\ UNCHANGED execVars

-----------------------------------------------------------------------------
(* execute_authorized_plan, called with an authorization object, a plan    *)
(* and a capability that need not be the ones it was made for.             *)

\* The caller's part, which the code does not check: docs/09_v1_skill_runbook.md
\* has it call once for a confirmed authorization and only Recover after that.
CallerMayCall(s) == Retries \/ ~attempted[s]

\* What the call checks before it compares authorization, plan and capability.
MayExecute(s) ==
    /\ Idle(s)
    /\ setup[s].phase = "ready_to_review"
    /\ ScopeConfirmed(s)
    /\ changeset[s] # None
    /\ setup[s].verification \in Authorizing
    /\ setup[s].binding # None

\* Mutant of Matches: the binding of the setup is not consulted.
MatchesIgnoringBinding(s, a, plan, capability) ==
    a.plan = plan /\ a.capability = capability

Matches(s, a, plan, capability) ==
    /\ a.plan = plan
    /\ a.capability = capability
    /\ setup[s].binding = [plan |-> plan, capability |-> capability, policy |-> a.policy]

Execute(s, a, plan, capability) ==
    /\ CallerMayCall(s)
    /\ MayExecute(s)
    /\ a \in held[s]
    /\ plan.changeset = changeset[s]
    /\ Matches(s, a, plan, capability)
    /\ call' = [call EXCEPT ![s] = [IdleCall EXCEPT !.at = "lookup", !.auth = a]]
    /\ attempted' = [attempted EXCEPT ![s] = TRUE]
    /\ result' = [result EXCEPT ![s] = None]
    /\ UNCHANGED <<vars, changeset, held, temp, files, runs>>

ExecuteMismatched(s, a, plan, capability) ==
    /\ CallerMayCall(s)
    /\ MayExecute(s)
    /\ a \in held[s]
    /\ plan.changeset = changeset[s]
    /\ ~Matches(s, a, plan, capability)
    /\ RequireReauthorization(s)
    /\ UNCHANGED execVars

\* Mutant of EndCall: the call record is dropped.
EndCallDropped(s) == call' = [call EXCEPT ![s] = None]

\* The call raises or returns: whatever was in memory is gone.
EndCall(s) == call' = [call EXCEPT ![s] = IdleCall]

\* Mutant of Loadable: any readable evidence will do.
LoadableUnmatched(a) == files[a] \in Evidence

\* load_completed_execution accepts the file at the target of a: it is
\* readable and names the same plan, capability and policy.
Loadable(a) == files[a] \in Evidence /\ files[a].auth = a

\* Mutant of LookupEvidence: evidence that does not load is collected again.
LookupEvidenceAgain(s) ==
    /\ call[s].at = "lookup"
    /\ LET a == call[s].auth
       IN  IF ~Loadable(a)
           THEN /\ call' = [call EXCEPT ![s].at = "execute"]
                /\ UNCHANGED result
           ELSE /\ EndCall(s)
                /\ result' = [result EXCEPT ![s] = files[a]]
    /\ UNCHANGED <<vars, changeset, held, temp, files, attempted, runs>>

\* Mutant of LookupEvidence: evidence that does not load is discarded first.
LookupEvidenceDiscarded(s) ==
    /\ call[s].at = "lookup"
    /\ LET a == call[s].auth
       IN  IF ~Loadable(a)
           THEN /\ call' = [call EXCEPT ![s].at = "execute"]
                /\ files' = [files EXCEPT ![a] = None]
                /\ UNCHANGED result
           ELSE /\ EndCall(s)
                /\ result' = [result EXCEPT ![s] = files[a]]
                /\ UNCHANGED files
    /\ UNCHANGED <<vars, changeset, held, temp, attempted, runs>>

\* target.exists(): load it or raise; otherwise the plan will be executed.
LookupEvidence(s) ==
    /\ call[s].at = "lookup"
    /\ LET a == call[s].auth
       IN  IF files[a] = None
           THEN /\ call' = [call EXCEPT ![s].at = "execute"]
                /\ UNCHANGED result
           ELSE /\ EndCall(s)
                /\ result' = [result EXCEPT ![s] =
                                IF Loadable(a) THEN files[a] ELSE None]
    /\ UNCHANGED <<vars, changeset, held, temp, files, attempted, runs>>

\* execute_verification_plan.  Its snapshot accepts the repository only if it
\* recaptures to the ChangeSet; otherwise every command is recorded NOT_RUN.
ExecutePlan(s) ==
    /\ call[s].at = "execute"
    /\ Len(runs[s]) < MaxRuns
    /\ LET a   == call[s].auth
           ran == repo = a.plan.changeset
       IN  /\ call' = [call EXCEPT ![s] =
                         [@ EXCEPT !.at = "write",
                                   !.evidence = [auth |-> a, ran |-> ran, by |-> s]]]
           /\ runs' = [runs EXCEPT ![s] = IF ran THEN Append(@, a) ELSE @]
    /\ UNCHANGED <<vars, changeset, held, temp, files, result, attempted>>

\* persist_verification_evidence: the temporary file is complete before the
\* replace, and its name holds the process id.
WriteTemporary(s) ==
    /\ call[s].at = "write"
    /\ temp' = [temp EXCEPT ![s] = call[s].evidence]
    /\ call' = [call EXCEPT ![s].at = "replace"]
    /\ UNCHANGED <<vars, changeset, held, files, result, attempted, runs>>

ReplaceTarget(s) ==
    /\ call[s].at = "replace"
    /\ files' = [files EXCEPT ![call[s].auth] = temp[s]]
    /\ temp' = [temp EXCEPT ![s] = None]
    /\ call' = [call EXCEPT ![s].at = "load"]
    /\ UNCHANGED <<vars, changeset, held, result, attempted, runs>>

LoadPersisted(s) ==
    /\ call[s].at = "load"
    /\ result' = [result EXCEPT ![s] =
                    IF Loadable(call[s].auth) THEN files[call[s].auth] ELSE None]
    /\ EndCall(s)
    /\ UNCHANGED <<vars, changeset, held, temp, files, attempted, runs>>

\* Mutant of CallFails: the executor is called again in the same call.
CallFailsRetried(s) ==
    /\ call[s].at \in {"execute", "write", "replace"}
    /\ call' = [call EXCEPT ![s].at = "execute"]
    /\ temp' = [temp EXCEPT ![s] = None]
    /\ UNCHANGED <<vars, changeset, held, files, result, attempted, runs>>

\* An exception from the executor or the file system; the temporary file is
\* removed on the way out and the setup stays ready.
CallFails(s) ==
    /\ call[s].at \in {"execute", "write", "replace"}
    /\ EndCall(s)
    /\ temp' = [temp EXCEPT ![s] = None]
    /\ UNCHANGED <<vars, changeset, held, files, result, attempted, runs>>

\* load_completed_execution on the original target, the only recovery.
Recover(s, a) ==
    /\ Idle(s)
    /\ attempted[s]
    /\ a \in held[s]
    /\ a.plan.changeset = changeset[s]
    /\ Loadable(a)
    /\ result' = [result EXCEPT ![s] = files[a]]
    /\ UNCHANGED <<vars, changeset, held, call, temp, files, attempted, runs>>

-----------------------------------------------------------------------------
(* The environment.                                                        *)

\* The process ends, at any step of a call, and another review is started.
RestartSession(s) ==
    /\ Restart(s, FALSE)
    /\ changeset' = [changeset EXCEPT ![s] = None]
    /\ held' = [held EXCEPT ![s] = {}]
    /\ EndCall(s)
    /\ temp' = [temp EXCEPT ![s] = None]
    /\ result' = [result EXCEPT ![s] = None]
    /\ attempted' = [attempted EXCEPT ![s] = FALSE]
    /\ runs' = [runs EXCEPT ![s] = <<>>]
    /\ UNCHANGED <<files>>

EditRepo ==
    /\ ChangeRepo
    /\ UNCHANGED execVars

\* A persisted file becomes unreadable, or a file of another authorization is
\* put in its place.
Misplaced(a) == files[a] # None /\ (files[a] = Damaged \/ files[a].auth # a)

DamageEvidence(a) ==
    /\ files[a] # None
    /\ Cardinality({b \in Authorizations \ {a} : Misplaced(b)}) < MaxMisplaced
    /\ \E content \in {Damaged} \cup {files[b] : b \in Authorizations} :
         /\ content \notin {None, files[a]}
         /\ files' = [files EXCEPT ![a] = content]
    /\ UNCHANGED <<vars, changeset, held, call, temp, result, attempted, runs>>

CallStep(s) ==
    \/ LookupEvidence(s) \/ ExecutePlan(s) \/ WriteTemporary(s)
    \/ ReplaceTarget(s) \/ LoadPersisted(s) \/ CallFails(s)

SessionNext ==
    \/ EditRepo
    \/ \E a \in Authorizations : DamageEvidence(a)
    \/ \E s \in Sessions :
         \/ AnswerSetup(s) \/ AnswerFinal(s) \/ Capture(s)
         \/ CallStep(s) \/ RestartSession(s)
         \/ \E a \in Authorizations :
              \/ Authorize(s, a) \/ AuthorizeChanged(s, a) \/ Recover(s, a)
              \/ \E plan \in Plans, c \in Capabilities :
                   \/ Execute(s, a, plan, c)
                   \/ ExecuteMismatched(s, a, plan, c)

SessionSpec == SessionInit /\ [][SessionNext]_sessionVars

-----------------------------------------------------------------------------
(* What the orchestration promises.                                        *)

\* From the moment a call finds no evidence until it has persisted its own,
\* the session is ready under exactly the authorization being executed, and
\* that is the one the person confirmed last: no reauthorization, other plan
\* or withdrawn answer can slip under an execution that has begun.
ExecutionIsConsented ==
    \A s \in Sessions :
      call[s].at # "idle" =>
        /\ setup[s].phase = "ready_to_review"
        /\ setup[s].verification \in Authorizing
        /\ setup[s].binding = call[s].auth
        /\ consent[s] = call[s].auth

\* The evidence a call returns was collected under an authorization this
\* session holds, for the ChangeSet this session captured, whatever happened
\* to the file and whichever session wrote it.
ResultBelongsToSession ==
    \A s \in Sessions :
      result[s] # None =>
        /\ result[s].auth \in held[s]
        /\ result[s].auth.plan.changeset = changeset[s]

\* A single process never overwrites persisted evidence, even a file it can
\* no longer read: the second call fails closed instead of running again.
EvidenceWrittenOnce ==
    [][\A s \in Sessions :
         call[s].at = "replace" /\ call'[s].at = "load"
           => files[call[s].auth] = None]_sessionVars

\* The file is what the code has against a second execution.  In a single
\* process commands run again only while none of their evidence has been
\* persisted: once it has, no retry, crash, restart or new confirmation runs
\* them under that authorization, not even when the file no longer loads.
PersistedEvidenceEndsExecution ==
    [][ /\ \A s \in Sessions :
             Len(runs'[s]) > Len(runs[s]) => files[call[s].auth] = None
        /\ \A a \in Authorizations : files[a] # None => files'[a] # None
      ]_sessionVars

\* The consent a person gives, seen without phases, files or processes.
Consent == INSTANCE ConsentedExecution WITH
    permit <- [s \in Sessions |->
                 IF setup[s].phase = "ready_to_review" THEN setup[s].binding ELSE None],
    executed <- [s \in Sessions |->
                   IF setup[s].phase = "ready_to_review" THEN runs[s] ELSE <<>>]

\* Every execution uses up a permit for exactly that authorization.
ImplementsConsent == Consent!Spec

=============================================================================
