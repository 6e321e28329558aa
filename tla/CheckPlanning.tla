--------------------------- MODULE CheckPlanning ---------------------------
(***************************************************************************)
(* build_verification_plan: checks required by a trusted policy, declared  *)
(* by the repository and proposed by a model become one plan.  Candidates  *)
(* with the same ID are merged: the most trusted one keeps its definition, *)
(* everyone may raise the environment profile.                             *)
(***************************************************************************)
EXTENDS Naturals, Sequences, FiniteSets

CONSTANTS
    Unusable \* commands (argv and cwd) that no PlannedCheck can have

FloorIds == {"scope-capture", "source-preservation", "result-classification"}

OriginOrder(origin) ==
    CASE origin = "deterministic_floor" -> 0
      [] origin = "trusted_policy" -> 1
      [] origin = "repository_canonical" -> 2
      [] origin = "model_proposed" -> 3

Channel(origin) ==
    CASE origin = "trusted_policy" -> "trusted_policy"
      [] origin = "repository_canonical" -> "repository_declaration"
      [] origin = "model_proposed" -> "model_proposal"

ProfileOrder(profile) == IF profile = "git_repository" THEN 1 ELSE 0

\* _profile_entries: asking for the weakest profile is asking for nothing.
ProfileEntries(channel, profile) ==
    IF profile = "filesystem_only" THEN {} ELSE {[channel |-> channel, profile |-> profile]}

\* resolve_profile_provenance: the strongest request, and who made it.
ResolvedProfile(entries) ==
    IF entries = {} THEN "filesystem_only"
    ELSE (CHOOSE e \in entries :
            \A f \in entries : ProfileOrder(f.profile) <= ProfileOrder(e.profile)).profile

Retained(entries) == {e \in entries : e.profile = ResolvedProfile(entries)}

-----------------------------------------------------------------------------
(* Candidates.                                                             *)

FloorCheck(id) ==
    [ id |-> id, level |-> "required", kind |-> "structural",
      origin |-> "deterministic_floor", command |-> "none",
      profile |-> "filesystem_only", provenance |-> {}, source |-> "none" ]

\* _planner_check, _repository_check, _trusted_policy_check: the channel fixes
\* the origin.  source is the content of the file that declares the check.
Candidate(origin, input, source) ==
    [ id |-> input.id, level |-> input.level, kind |-> "command", origin |-> origin,
      command |-> input.command, profile |-> input.profile,
      provenance |-> ProfileEntries(Channel(origin), input.profile), source |-> source ]

Candidates(trusted, repository, source, proposed) ==
    [i \in 1 .. Len(trusted) |-> Candidate("trusted_policy", trusted[i], "none")]
      \o [i \in 1 .. Len(repository) |-> Candidate("repository_canonical", repository[i], source)]
      \o [i \in 1 .. Len(proposed) |-> Candidate("model_proposed", proposed[i], "none")]

-----------------------------------------------------------------------------
(* _merge_check_candidates.  A group is the candidates of one ID.          *)

Definition(check) == <<check.level, check.kind, check.command>>

\* Mutant of Primary: the latest candidate replaces the others.
PrimaryLatest(group) ==
    CHOOSE c \in group : \A d \in group : OriginOrder(d.origin) <= OriginOrder(c.origin)

Primary(group) ==
    CHOOSE c \in group : \A d \in group : OriginOrder(c.origin) <= OriginOrder(d.origin)

Conflicting(group) == \E c \in group : Definition(c) # Definition(Primary(group))

\* Mutant of Requested: only the winner's own profile counts.
RequestedByPrimary(group, user) == Primary(group).provenance \cup user

Requested(group, user) == (UNION {c.provenance : c \in group}) \cup user

Merge(group, user) ==
    [Primary(group) EXCEPT !.profile = ResolvedProfile(Requested(group, user)),
                           !.provenance = Retained(Requested(group, user))]

-----------------------------------------------------------------------------
(* build_verification_plan.                                                *)

Group(candidates, id) == {candidates[i] : i \in {j \in DOMAIN candidates : candidates[j].id = id}}

CandidateIds(candidates) == {candidates[i].id : i \in DOMAIN candidates}

\* A channel names an ID once.
RepeatedChannel(candidates) ==
    \E i, j \in DOMAIN candidates :
      /\ i # j
      /\ candidates[i].id = candidates[j].id
      /\ candidates[i].origin = candidates[j].origin

\* PlannedCheck, the merge and VerificationPlan each raise for their part.
PlanIsRejected(candidates) ==
    \/ \E i \in DOMAIN candidates : candidates[i].command \in Unusable
    \/ RepeatedChannel(candidates)
    \/ \E id \in CandidateIds(candidates) : Conflicting(Group(candidates, id))
    \/ CandidateIds(candidates) \cap FloorIds # {}

MergedChecks(candidates, user) ==
    {Merge(Group(candidates, id), user) : id \in CandidateIds(candidates)}

PlanChecks(candidates, user) == {FloorCheck(id) : id \in FloorIds} \cup MergedChecks(candidates, user)

=============================================================================
