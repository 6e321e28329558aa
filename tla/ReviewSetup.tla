---------------------------- MODULE ReviewSetup ----------------------------
(***************************************************************************)
(* PreReviewSetup: the coordinator that takes a reviewer from the choice   *)
(* of a scope to "ready to review".  A session is one PreReviewSetup       *)
(* object; the author may change the repository between any two calls.     *)
(*                                                                         *)
(* A call that raises before it assigns anything is a stuttering step and  *)
(* has no action here; the two calls that assign first and raise later do. *)
(***************************************************************************)
EXTENDS ScopeIdentity

CONSTANTS
    Sessions,            \* PreReviewSetup objects
    RepoStates,          \* the states the author puts the repository in
    ScopeChoices,        \* values of _SCOPE_CHOICES offered
    VerificationChoices, \* values of _VERIFICATION_CHOICES offered, cancel apart
    Authorizations,      \* VerificationAuthorization.binding_identity values
    None                 \* Python's None

\* _SCOPE_CHOICES and _VERIFICATION_CHOICES without "cancel".
ScopeAnswers == {"working-changes", "current-branch", "since-commit", "custom"}
VerificationAnswers ==
    {"authorize", "review-without-execution", "customize-authorization"}

ASSUME SetupConstants ==
    /\ RepoStates \subseteq RepoState
    /\ ScopeChoices \subseteq ScopeAnswers
    /\ VerificationChoices \subseteq VerificationAnswers
    /\ None \notin Authorizations
    /\ None \notin ScopeIdentities
    /\ None \notin RepoState
    /\ None \notin ScopeAnswers \cup VerificationAnswers

Phases ==
    { "scope", "requirements", "verification", "final_confirmation",
      "ready_to_review", "cancelled" }

RequirementChoices ==
    { "accepted-discovered-source", "provided-requirement",
      "continue-without-requirements" }

\* The verification answers that let commands run.
Authorizing == {"authorize", "customize-authorization"}

VARIABLES
    setup,     \* the fields of each PreReviewSetup
    repo,      \* the author's repository
    boundRepo, \* history: the repository when bind_scope computed the identity
    consent,   \* history: the binding in place when the final "yes" was given
    reviewed   \* history: the repository when the gate let the review start

setupVars == <<setup, boundRepo, consent, reviewed>>
vars == <<setup, repo, boundRepo, consent, reviewed>>

SetupState ==
    [ phase              : Phases,
      scope              : ScopeChoices \cup {None},
      configured         : BOOLEAN,    \* _requirements_configured
      requirement        : RequirementChoices \cup {None},
      requirementDetail  : BOOLEAN,    \* requirement_detail is not None
      verification       : VerificationChoices \cup {None},
      verificationDetail : BOOLEAN,    \* verification_detail is not None
      binding            : Authorizations \cup {None},
      scopeBound         : BOOLEAN,    \* _confirmed_scope is not None
      confirmed          : ScopeIdentities \cup {None} ]

\* PreReviewSetup.__init__.  Candidates may be given to the constructor.
NewSetup(configured) ==
    [ phase |-> "scope", scope |-> None,
      configured |-> configured, requirement |-> None,
      requirementDetail |-> FALSE, verification |-> None,
      verificationDetail |-> FALSE, binding |-> None,
      scopeBound |-> FALSE, confirmed |-> None ]

TypeOK ==
    /\ setup \in [Sessions -> SetupState]
    /\ repo \in RepoStates
    /\ boundRepo \in [Sessions -> RepoStates \cup {None}]
    /\ consent \in [Sessions -> Authorizations \cup {None}]
    /\ reviewed \in [Sessions -> RepoStates \cup {None}]

SetupInit ==
    /\ setup \in [Sessions -> {NewSetup(c) : c \in BOOLEAN}]
    /\ repo \in RepoStates /\ ScopeResolves(repo)
    /\ boundRepo = [s \in Sessions |-> None]
    /\ consent = [s \in Sessions |-> None]
    /\ reviewed = [s \in Sessions |-> None]

-----------------------------------------------------------------------------
(* The author's side.                                                      *)

\* Edits, staging, commits and checkouts, in any amount, between two calls.
ChangeRepo ==
    /\ repo' \in RepoStates \ {repo}
    /\ UNCHANGED setupVars

-----------------------------------------------------------------------------
(* submit, one action per phase.                                           *)

\* detail: the caller supplied a usable detail string.
SubmitScope(s, choice, detail) ==
    /\ setup[s].phase = "scope"
    /\ choice # "working-changes" => detail
    /\ setup' = [setup EXCEPT ![s].scope = choice, ![s].phase = "requirements"]
    /\ UNCHANGED <<repo, boundRepo, consent, reviewed>>

SubmitRequirement(s, choice) ==
    /\ setup[s].phase = "requirements"
    /\ setup[s].configured
    /\ setup' = [setup EXCEPT ![s].requirement = choice,
                              ![s].requirementDetail =
                                setup[s].requirementDetail \/ choice # "continue-without-requirements",
                              ![s].phase = "verification"]
    /\ UNCHANGED <<repo, boundRepo, consent, reviewed>>

\* Mutant of SubmitRequirementWithoutDetail: the phase advances all the same.
SubmitRequirementAdvances(s) ==
    /\ setup[s].phase = "requirements"
    /\ setup[s].configured
    /\ setup' = [setup EXCEPT ![s].requirement = "provided-requirement",
                              ![s].phase = "verification"]
    /\ UNCHANGED <<repo, boundRepo, consent, reviewed>>

\* The selection is stored before the missing detail is noticed, so the call
\* fails with requirement_selection already changed and the phase unchanged.
SubmitRequirementWithoutDetail(s) ==
    /\ setup[s].phase = "requirements"
    /\ setup[s].configured
    /\ setup' = [setup EXCEPT ![s].requirement = "provided-requirement"]
    /\ UNCHANGED <<repo, boundRepo, consent, reviewed>>

SubmitVerification(s, choice, detail) ==
    /\ setup[s].phase = "verification"
    /\ choice = "customize-authorization" => detail
    /\ setup' = [setup EXCEPT ![s].verification = choice,
                              ![s].verificationDetail =
                                setup[s].verificationDetail \/ choice = "customize-authorization",
                              ![s].phase = "final_confirmation"]
    /\ UNCHANGED <<repo, boundRepo, consent, reviewed>>

SubmitFinal(s) ==
    /\ setup[s].phase = "final_confirmation"
    /\ setup[s].verification \in Authorizing => setup[s].binding # None
    /\ setup' = [setup EXCEPT ![s].phase = "ready_to_review"]
    /\ consent' = [consent EXCEPT ![s] = setup[s].binding]
    /\ UNCHANGED <<repo, boundRepo, reviewed>>

\* Mutant of Cancel: a phase the other methods do not know.
CancelMisspelled(s) ==
    /\ setup[s].phase # "ready_to_review"
    /\ setup' = [setup EXCEPT ![s].phase = "canceled"]
    /\ UNCHANGED <<repo, boundRepo, consent, reviewed>>

\* cancel(), called directly or by a "cancel" answer.
Cancel(s) ==
    /\ setup[s].phase # "ready_to_review"
    /\ setup' = [setup EXCEPT ![s].phase = "cancelled"]
    /\ UNCHANGED <<repo, boundRepo, consent, reviewed>>

-----------------------------------------------------------------------------
(* The other operations.                                                   *)

ConfigureRequirements(s) ==
    /\ setup[s].phase = "requirements"
    /\ ~setup[s].configured
    /\ setup' = [setup EXCEPT ![s].configured = TRUE]
    /\ UNCHANGED <<repo, boundRepo, consent, reviewed>>

\* Mutant of RequireReauthorization: the binding survives the reopening.
ReauthorizationKeepsBinding(s) ==
    /\ setup[s].phase \in {"final_confirmation", "ready_to_review"}
    /\ setup' = [setup EXCEPT ![s].verification = None,
                              ![s].verificationDetail = FALSE,
                              ![s].phase = "verification"]
    /\ UNCHANGED <<repo, boundRepo, consent, reviewed>>

\* Reopens verification and forgets everything the answer had authorized.
RequireReauthorization(s) ==
    /\ setup[s].phase \in {"final_confirmation", "ready_to_review"}
    /\ setup' = [setup EXCEPT ![s].verification = None,
                              ![s].verificationDetail = FALSE,
                              ![s].binding = None,
                              ![s].phase = "verification"]
    /\ UNCHANGED <<repo, boundRepo, consent, reviewed>>

\* Mutant of BindAuthorization: a ready setup may be bound again.
BindAuthorizationLate(s, b) ==
    /\ setup[s].phase \in {"final_confirmation", "ready_to_review"}
    /\ setup[s].verification \in Authorizing
    /\ setup' = [setup EXCEPT ![s].binding = b]
    /\ UNCHANGED <<repo, boundRepo, consent, reviewed>>

BindAuthorization(s, b) ==
    /\ setup[s].phase = "final_confirmation"
    /\ setup[s].verification \in Authorizing
    /\ setup[s].binding = None
    /\ setup' = [setup EXCEPT ![s].binding = b]
    /\ UNCHANGED <<repo, boundRepo, consent, reviewed>>

\* The scope object is stored before its identity is computed: when HEAD has
\* moved the identity stays None and the scope cannot be bound again.
BindScope(s) ==
    /\ setup[s].phase = "requirements"
    /\ ~setup[s].scopeBound
    /\ LET id == IF ScopeResolves(repo) THEN ResolvedScopeIdentity(repo) ELSE None
       IN  setup' = [setup EXCEPT ![s].scopeBound = TRUE, ![s].confirmed = id]
    /\ boundRepo' = [boundRepo EXCEPT ![s] = repo]
    /\ UNCHANGED <<repo, consent, reviewed>>

\* _require_confirmed_scope returns instead of raising.
ScopeConfirmed(s) ==
    /\ setup[s].scopeBound
    /\ setup[s].confirmed # None
    /\ ScopeResolves(repo)
    /\ ResolvedScopeIdentity(repo) = setup[s].confirmed

\* require_ready_to_review returns: the canonical review may start.
RequireReady(s) ==
    /\ setup[s].phase = "ready_to_review"
    /\ ScopeConfirmed(s)
    /\ reviewed' = [reviewed EXCEPT ![s] = repo]
    /\ UNCHANGED <<setup, repo, boundRepo, consent>>

\* The caller drops the object and creates another ("restart setup").
Restart(s, configured) ==
    /\ setup' = [setup EXCEPT ![s] = NewSetup(configured)]
    /\ boundRepo' = [boundRepo EXCEPT ![s] = None]
    /\ consent' = [consent EXCEPT ![s] = None]
    /\ reviewed' = [reviewed EXCEPT ![s] = None]
    /\ UNCHANGED repo

\* The calls a caller makes on the setup itself, whatever composes it.
Answer(s) ==
    \/ \E c \in ScopeChoices, d \in BOOLEAN : SubmitScope(s, c, d)
    \/ ConfigureRequirements(s)
    \/ BindScope(s)
    \/ \E c \in RequirementChoices : SubmitRequirement(s, c)
    \/ SubmitRequirementWithoutDetail(s)
    \/ \E c \in VerificationChoices, d \in BOOLEAN : SubmitVerification(s, c, d)
    \/ SubmitFinal(s)
    \/ Cancel(s)
    \/ RequireReady(s)
    \/ \E c \in BOOLEAN : Restart(s, c)

SetupNext ==
    \/ ChangeRepo
    \/ \E s \in Sessions :
         \/ Answer(s)
         \/ RequireReauthorization(s)
         \/ \E b \in Authorizations : BindAuthorization(s, b)

SetupSpec == SetupInit /\ [][SetupNext]_vars

-----------------------------------------------------------------------------
(* What the setup promises.                                                *)

\* A binding exists only under an answer that lets commands run, and a setup
\* that is ready has a binding exactly when its answer lets commands run: no
\* path through failed submits, reauthorizations and cancellations leaves an
\* authorization behind a "review without execution".
BindingFollowsAnswer ==
    \A s \in Sessions :
      /\ setup[s].binding # None =>
           /\ setup[s].verification \in Authorizing
           /\ setup[s].phase \in
                {"final_confirmation", "ready_to_review", "cancelled"}
      /\ setup[s].phase = "ready_to_review" =>
           (setup[s].binding # None <=> setup[s].verification \in Authorizing)

\* The authorization a ready setup carries is the one that was in place when
\* the final confirmation was given: it cannot be attached afterwards.
ReadyBindingWasConfirmed ==
    \A s \in Sessions :
      setup[s].phase = "ready_to_review" => setup[s].binding = consent[s]

\* Past the requirements phase every answer that needs a detail has one, and
\* the detail kept is never that of an answer since withdrawn.  A failed
\* "provide requirement" and a reopened "customize" are the hard cases.
DetailMatchesAnswer ==
    \A s \in Sessions :
      /\ setup[s].phase \in {"verification", "final_confirmation", "ready_to_review"}
           => (setup[s].requirementDetail
                 <=> setup[s].requirement # "continue-without-requirements")
      /\ setup[s].verificationDetail
           <=> setup[s].verification = "customize-authorization"

\* When the gate opens, the working tree holds, path by path, what it held
\* when the scope was confirmed, and HEAD is still the pinned commit.
ReviewedWorkIsConfirmedWork ==
    \A s \in Sessions :
      reviewed[s] # None =>
        /\ boundRepo[s] # None
        /\ reviewed[s].work = boundRepo[s].work
        /\ reviewed[s].head = boundRepo[s].head

\* docs/09_v1_skill_runbook.md says the gate fails closed on stale repository
\* state.  The index blob of a path that is staged and changed again is part
\* of the pending state but not of the identity, so restaging passes the gate.
StaleRepositoryFailsClosed ==
    \A s \in Sessions : reviewed[s] # None => reviewed[s] = boundRepo[s]

=============================================================================
