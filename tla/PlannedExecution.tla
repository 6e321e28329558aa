-------------------------- MODULE PlannedExecution --------------------------
(***************************************************************************)
(* From proposals to results: a ChangeSet is captured, the checks the      *)
(* repository declares are read from its live files, a model proposes      *)
(* more, the plan is built and authorized for a host, and its commands are *)
(* executed one after the other, while the author may edit the repository  *)
(* at any time.  PlanExecution has the steps inside one command.           *)
(***************************************************************************)
EXTENDS CheckPlanning, ExecutionDecision

CONSTANTS
    Files,          \* what the repository can hold, guidance included
    Declares,       \* Files -> the inputs its pyproject.toml declares
    TrustedInputs,  \* the sequences of trusted-policy inputs explored
    PlannerInputs,  \* inputs a model may propose
    Minimums,       \* minimum environment profiles of the invocation
    Hosts,          \* execution capabilities explored
    Required,       \* capabilities every request requires
    GitClass,       \* commands -> what the direct-Git gate says of them
    IdOrder,        \* IDs -> their place in string order
    MaxProposals,   \* bound: inputs a model proposes
    Nothing

Profiles == {"filesystem_only", "git_repository"}

\* What any channel says of a check.
Inputs ==
    [ id : DOMAIN IdOrder, level : {"required", "advisory"}, command : DOMAIN GitClass,
      profile : Profiles ]

ASSUME PlanningConstants ==
    /\ Declares \in [Files -> Seq(Inputs)]
    /\ TrustedInputs \subseteq Seq(Inputs)
    /\ PlannerInputs \subseteq Inputs
    /\ Minimums \subseteq Profiles
    /\ \A h \in Hosts : HostIsValid(h)
    /\ FloorIds \subseteq DOMAIN IdOrder
    /\ \A i, j \in DOMAIN IdOrder : IdOrder[i] = IdOrder[j] => i = j
    /\ MaxProposals \in Nat
    /\ Nothing \notin Files /\ "none" \notin Files

\* A host is an ExecutionCapability.
ASSUME HostRecords ==
    \A h \in Hosts :
      /\ h = [ invariants |-> h.invariants, available |-> h.available,
               waivable |-> h.waivable, approved |-> h.approved ]
      /\ h.invariants \in BOOLEAN

VARIABLES
    live,        \* the repository
    underReview, \* what the ChangeSet holds of it, Nothing before
    declared,    \* the file the repository checks were read from, Nothing before
    trusted,     \* trusted-policy inputs
    proposed,    \* planner additions
    minimum,     \* minimum profile of the invocation
    phase,       \* "planning", "rejected", "planned" or "executing"
    planned,     \* the plan's checks in order
    host,        \* the authorized host, Nothing before
    results      \* results of the plan's commands so far, with their manifests

planningVars ==
    <<live, underReview, declared, trusted, proposed, minimum, phase, planned, host, results>>

PlanningInit ==
    /\ live \in Files
    /\ underReview = Nothing /\ declared = Nothing
    /\ trusted \in TrustedInputs
    /\ proposed = <<>>
    /\ minimum \in Minimums
    /\ phase = "planning"
    /\ planned = <<>> /\ host = Nothing /\ results = <<>>

-----------------------------------------------------------------------------
(* Planning.                                                               *)

EditSource ==
    /\ phase # "rejected"
    /\ live' \in Files \ {live}
    /\ UNCHANGED <<underReview, declared, trusted, proposed, minimum, phase, planned, host,
                   results>>

Capture ==
    /\ underReview = Nothing
    /\ underReview' = live
    /\ UNCHANGED <<live, declared, trusted, proposed, minimum, phase, planned, host, results>>

\* discover_canonical_checks: a file that names an ID twice is an error.
Discover ==
    /\ declared = Nothing
    /\ \A i, j \in DOMAIN Declares[live] :
         Declares[live][i].id = Declares[live][j].id => i = j
    /\ declared' = live
    /\ UNCHANGED <<live, underReview, trusted, proposed, minimum, phase, planned, host, results>>

Propose(input) ==
    /\ phase = "planning"
    /\ Len(proposed) < MaxProposals
    /\ proposed' = Append(proposed, input)
    /\ UNCHANGED <<live, underReview, declared, trusted, minimum, phase, planned, host, results>>

AllCandidates(additions) ==
    Candidates(trusted, IF declared = Nothing THEN <<>> ELSE Declares[declared], declared,
               additions)

User == ProfileEntries("user_invocation", minimum)

\* planned_check_sort_key: the checks of a plan differ in their ID, so there is
\* one such sequence.
Sorted(checks) ==
    LET Before(c, d) ==
          \/ OriginOrder(c.origin) < OriginOrder(d.origin)
          \/ c.origin = d.origin /\ IdOrder[c.id] < IdOrder[d.id]
    IN  { s \in [1 .. Cardinality(checks) -> checks] :
            \A i, j \in DOMAIN s : i < j => Before(s[i], s[j]) }

Build ==
    /\ phase = "planning"
    /\ underReview # Nothing /\ declared # Nothing
    /\ IF PlanIsRejected(AllCandidates(proposed))
       THEN phase' = "rejected" /\ UNCHANGED planned
       ELSE /\ phase' = "planned"
            /\ planned' \in Sorted(PlanChecks(AllCandidates(proposed), User))
    /\ UNCHANGED <<live, underReview, declared, trusted, proposed, minimum, host, results>>

\* The setup's answers authorize this plan on this host (ReviewSession).
Authorize ==
    /\ phase = "planned"
    /\ host' \in Hosts
    /\ phase' = "executing"
    /\ UNCHANGED <<live, underReview, declared, trusted, proposed, minimum, planned, results>>

-----------------------------------------------------------------------------
(* Execution of one command.                                               *)

Manifest(check, complete, failure) ==
    [profile |-> check.profile, complete |-> complete, failure |-> failure]

\* Mutant of SourcesMatch: a command only answers for its own declaration.
SourcesMatchOwn(check) == check.source \in {"none", underReview}

\* _validate_plan_sources: the guidance of every check is in the ChangeSet.
SourcesMatch(check) == \A i \in DOMAIN planned : planned[i].source \in {"none", underReview}

\* What materializing a tree for the check can end in.  The repository is
\* recaptured first; a Git tree records a failure that another raises.
Manifests(check) ==
    LET gate == DirectGitFailure([profile |-> check.profile, git |-> GitClass[check.command]])
    IN  IF gate # "none" THEN {Manifest(check, FALSE, gate)}
        ELSE IF live # underReview THEN {Manifest(check, FALSE, "capability")}
        ELSE IF ~SourcesMatch(check)
        THEN {Manifest(check, FALSE,
                IF check.profile = "git_repository" THEN "configuration" ELSE "capability")}
        ELSE {Manifest(check, TRUE, "none"), Manifest(check, FALSE, "capability")}
               \cup IF check.profile = "git_repository"
                    THEN {Manifest(check, FALSE, f) : f \in {"configuration", "permission"}}
                    ELSE {}

CommandChecks(checks) == SelectSeq(checks, LAMBDA c : c.kind = "command")
Commands == CommandChecks(planned)

ExecuteNext ==
    /\ phase = "executing"
    /\ Len(results) < Len(Commands)
    /\ LET check == Commands[Len(results) + 1]
       IN  \E manifest \in Manifests(check), directory \in {"there", "missing", "unsafe"} :
             \E r \in Outcomes(Request(check, manifest, Required), host, directory) :
               results' = Append(results, [manifest |-> manifest, outcome |-> r])
    /\ UNCHANGED <<live, underReview, declared, trusted, proposed, minimum, phase, planned, host>>

PlanningNext ==
    \/ EditSource \/ Capture \/ Discover \/ Build \/ Authorize \/ ExecuteNext
    \/ \E input \in PlannerInputs : Propose(input)

PlanningSpec == PlanningInit /\ [][PlanningNext]_planningVars

-----------------------------------------------------------------------------
(* What planning promises.                                                 *)

\* docs/03: a proposal may add a check or raise a profile and can replace or
\* downgrade nothing: every check of the plan without it is in the plan with
\* it, unless the plan is rejected altogether.
NewChecks(additions) == PlanChecks(AllCandidates(additions), User)
ProposalsOnlyAdd ==
    [][ \A input \in PlannerInputs :
          Propose(input) /\ ~PlanIsRejected(AllCandidates(proposed')) =>
            /\ ~PlanIsRejected(AllCandidates(proposed))
            /\ \A c \in NewChecks(proposed) : \E d \in NewChecks(proposed') :
                 /\ [d EXCEPT !.profile = c.profile, !.provenance = c.provenance] = c
                 /\ ProfileOrder(d.profile) >= ProfileOrder(c.profile)
                 /\ c.provenance \subseteq d.provenance
            /\ \A d \in NewChecks(proposed') :
                 d.id = input.id \/ d \in NewChecks(proposed) ]_proposed

\* A command needs Git exactly when somebody asked for it, and the plan names
\* everyone who did, whoever won the definition.
ProfilesNameTheirRaisers ==
    \A check \in {planned[i] : i \in {j \in DOMAIN planned : planned[j].kind = "command"}} :
      LET raisers == {Channel(AllCandidates(proposed)[j].origin) :
                        j \in {k \in DOMAIN AllCandidates(proposed) :
                                 /\ AllCandidates(proposed)[k].id = check.id
                                 /\ AllCandidates(proposed)[k].profile = "git_repository"}}
                       \cup {e.channel : e \in User}
      IN  /\ {e.channel : e \in check.provenance} = raisers
          /\ check.profile = "git_repository" <=> raisers # {}

Launched == {i \in DOMAIN results : results[i].outcome.status # "not_run"}

\* Nothing is launched from a plan whose repository checks are not declared,
\* with this level and command, by the file under review: the guidance was
\* read from the live tree, before or after the capture.
LaunchedGuidanceIsReviewed ==
    Launched # {} =>
      \A i \in DOMAIN planned : planned[i].origin = "repository_canonical" =>
        \E j \in DOMAIN Declares[underReview] :
          LET input == Declares[underReview][j]
          IN  input.id = planned[i].id /\ input.level = planned[i].level
                /\ input.command = planned[i].command

\* An approval is asked for where nothing but approvals is missing, and a
\* command is executable where no approval is.
HonestlyDecided(r) ==
    LET approving == [r.host EXCEPT !.approved = r.host.waivable]
    IN  /\ r.decision.kind = "requires_approval" =>
             Decide(r.request, approving).kind = "executable"
        /\ r.decision.kind = "cannot_safely_execute" =>
             Decide(r.request, approving).kind # "executable"
        /\ r.decision.kind = "executable" =>
             r.host.invariants
               /\ r.request.required \subseteq r.host.available \cup r.host.approved

\* A person is asked for an approval exactly where approvals are what is
\* missing, and nothing runs without the approvals it needs: this holds of
\* every recorded result, also where the decision was derived a second time.
ApprovalIsHonest == \A i \in DOMAIN results : HonestlyDecided(results[i].outcome)

\* What is recorded of a command passes the validators and is about it.
RecordIsValid(record, check) ==
    LET r == record.outcome
        m == record.manifest
    IN  /\ ResultIsValid(r) /\ BindingIsValid(m, r) /\ ManifestIsValid(m)
        /\ r.request.id = check.id /\ r.request.command = check.command
        /\ r.request.level = check.level /\ r.request.profile = check.profile

\* Whatever path a command takes, what is recorded of it passes the
\* validators: otherwise the evidence of all commands would be lost.
EvidenceIsBuildable == \A i \in DOMAIN results : RecordIsValid(results[i], Commands[i])

=============================================================================
