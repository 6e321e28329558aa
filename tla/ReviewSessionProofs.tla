------------------------ MODULE ReviewSessionProofs ------------------------
(***************************************************************************)
(* Proofs about PreReviewSetup and about the orchestration of a review,    *)
(* for every set of sessions, repositories, authorizations, plans,         *)
(* capabilities and policies, and for calls that are interrupted, fail or  *)
(* die at any step.  The setup comes first: nothing about it depends on    *)
(* the orchestration.                                                      *)
(***************************************************************************)
EXTENDS ReviewSession, TLAPS

(***************************************************************************)
(* The scope identity.                                                     *)
(***************************************************************************)

\* resolved_scope_identity returns a value of the type the setup stores.
LEMMA IdentityType ==
    ASSUME NEW r \in RepoState
    PROVE  ResolvedScopeIdentity(r) \in ScopeIdentities
<1> DEFINE Pending == PendingPaths(r)
<1>1. Pending \subseteq Paths
  BY DEF PendingPaths, Staged, Unstaged, Untracked
<1>2. [p \in Pending |-> r.work[p]] \in [Pending -> Contents \cup {Absent}]
  BY <1>1 DEF RepoState, Layer
<1>3. [p \in Pending |-> r.work[p]] \in
        UNION {[P -> Contents \cup {Absent}] : P \in SUBSET Paths}
  BY <1>1, <1>2
<1>4. /\ Staged(r) \in SUBSET Paths
      /\ Unstaged(r) \in SUBSET Paths
      /\ Untracked(r) \in SUBSET Paths
  BY DEF Staged, Unstaged, Untracked
<1> QED
  BY <1>3, <1>4 DEF ResolvedScopeIdentity, ScopeIdentities

\* Under the pinned commit, two repositories with the same scope identity have
\* the same working tree, although no clean path is read: a path that is not
\* pending holds what the commit holds.
THEOREM IdentityDeterminesWork ==
    ASSUME NEW r1 \in RepoState, NEW r2 \in RepoState,
           ResolvedScopeIdentity(r1) = ResolvedScopeIdentity(r2)
    PROVE  r1.work = r2.work
<1>1. /\ Staged(r1) = Staged(r2)
      /\ Unstaged(r1) = Unstaged(r2)
      /\ Untracked(r1) = Untracked(r2)
      /\ [p \in PendingPaths(r1) |-> r1.work[p]] = [p \in PendingPaths(r2) |-> r2.work[p]]
  BY DEF ResolvedScopeIdentity
<1>2. PendingPaths(r1) = PendingPaths(r2)
  BY <1>1 DEF PendingPaths
<1>3. ASSUME NEW p \in Paths, p \in PendingPaths(r1)
      PROVE  r1.work[p] = r2.work[p]
  BY <1>1, <1>2, <1>3
<1>4. ASSUME NEW r \in RepoState, NEW p \in Paths, p \notin PendingPaths(r)
      PROVE  r.work[p] = HeadTree[p]
  <2>1. r.index[p] = HeadTree[p]
    BY <1>4 DEF PendingPaths, Staged
  <2>2. r.index[p] # Absent => r.work[p] = r.index[p]
    BY <1>4 DEF PendingPaths, Unstaged
  <2>3. r.index[p] = Absent => r.work[p] = Absent
    BY <1>4 DEF PendingPaths, Untracked
  <2> QED BY <2>1, <2>2, <2>3
<1>5. \A p \in Paths : r1.work[p] = r2.work[p]
  BY <1>2, <1>3, <1>4
<1>6. r1.work \in [Paths -> Contents \cup {Absent}] /\ r2.work \in [Paths -> Contents \cup {Absent}]
  BY DEF RepoState, Layer
<1> QED BY <1>5, <1>6

(***************************************************************************)
(* Type correctness.                                                       *)
(***************************************************************************)

\* A new setup is a setup.
LEMMA NewSetupType ==
    ASSUME NEW c \in BOOLEAN
    PROVE  NewSetup(c) \in SetupState
BY DEF NewSetup, SetupState, Phases

\* Configuring candidates leaves a setup.
LEMMA ConfiguredType ==
    ASSUME NEW r \in SetupState
    PROVE  [r EXCEPT !.configured = TRUE] \in SetupState
BY DEF SetupState

\* Binding a scope, with its identity or without, leaves a setup.
LEMMA BoundType ==
    ASSUME NEW r \in SetupState, NEW id \in ScopeIdentities \cup {None}
    PROVE  [r EXCEPT !.scopeBound = TRUE, !.confirmed = id] \in SetupState
BY DEF SetupState

\* Binding an authorization leaves a setup.
LEMMA AuthorizedType ==
    ASSUME NEW r \in SetupState, NEW b \in Authorizations
    PROVE  [r EXCEPT !.binding = b] \in SetupState
BY DEF SetupState

\* Every call leaves every field of a setup among the values it can have.
THEOREM SetupTypeCorrect == SetupSpec => []TypeOK
<1>1. SetupInit => TypeOK
  BY NewSetupType DEF SetupInit, TypeOK
<1>2. TypeOK /\ [SetupNext]_vars => TypeOK'
  <2> SUFFICES ASSUME TypeOK, [SetupNext]_vars
               PROVE  TypeOK'
    OBVIOUS
  <2> USE DEF TypeOK
  <2>1. CASE ChangeRepo
    BY <2>1 DEF ChangeRepo, setupVars
  <2>2. ASSUME NEW s \in Sessions, Answer(s)
        PROVE  TypeOK'
    <3> USE DEF SetupState, Phases
    <3>1. ASSUME NEW c \in ScopeChoices, NEW d \in BOOLEAN, SubmitScope(s, c, d)
          PROVE  TypeOK'
      BY <3>1 DEF SubmitScope
    <3>2. CASE ConfigureRequirements(s)
      <4> HIDE DEF SetupState
      <4>1. [setup[s] EXCEPT !.configured = TRUE] \in SetupState
        BY ConfiguredType
      <4> QED BY <3>2, <4>1 DEF ConfigureRequirements
    <3>3. CASE BindScope(s)
      <4> HIDE DEF SetupState
      <4> DEFINE id == IF ScopeResolves(repo) THEN ResolvedScopeIdentity(repo) ELSE None
      <4>1. id \in ScopeIdentities \cup {None}
        BY IdentityType, SetupConstants
      <4>2. [setup[s] EXCEPT !.scopeBound = TRUE, !.confirmed = id] \in SetupState
        BY <4>1, BoundType
      <4> QED BY <3>3, <4>2 DEF BindScope
    <3>4. ASSUME NEW c \in RequirementChoices, SubmitRequirement(s, c)
          PROVE  TypeOK'
      BY <3>4 DEF SubmitRequirement
    <3>5. CASE SubmitRequirementWithoutDetail(s)
      BY <3>5 DEF SubmitRequirementWithoutDetail, RequirementChoices
    <3>6. ASSUME NEW c \in VerificationChoices, NEW d \in BOOLEAN,
                 SubmitVerification(s, c, d)
          PROVE  TypeOK'
      BY <3>6 DEF SubmitVerification
    <3>7. CASE SubmitFinal(s)
      BY <3>7 DEF SubmitFinal
    <3>8. CASE Cancel(s)
      BY <3>8 DEF Cancel
    <3>9. CASE RequireReady(s)
      BY <3>9 DEF RequireReady
    <3>10. ASSUME NEW c \in BOOLEAN, Restart(s, c)
           PROVE  TypeOK'
      BY <3>10, NewSetupType DEF Restart
    <3> QED BY <2>2, <3>1, <3>2, <3>3, <3>4, <3>5, <3>6, <3>7, <3>8, <3>9, <3>10 DEF Answer
  <2>3. ASSUME NEW s \in Sessions, RequireReauthorization(s)
        PROVE  TypeOK'
    BY <2>3 DEF RequireReauthorization, SetupState, Phases
  <2>4. ASSUME NEW s \in Sessions, NEW b \in Authorizations, BindAuthorization(s, b)
        PROVE  TypeOK'
    <3> DEFINE bound == [setup[s] EXCEPT !.binding = b]
    <3>1. bound \in SetupState
      BY AuthorizedType
    <3>2. setup' = [setup EXCEPT ![s] = bound]
      BY <2>4 DEF BindAuthorization
    <3> HIDE DEF bound
    <3> QED BY <2>4, <3>1, <3>2 DEF BindAuthorization
  <2>5. CASE UNCHANGED vars
    BY <2>5 DEF vars
  <2> QED BY <2>1, <2>2, <2>3, <2>4, <2>5 DEF SetupNext
<1> QED BY <1>1, <1>2, PTL DEF SetupSpec

(***************************************************************************)
(* Consent.  BindingFollowsAnswer is inductive; the binding that was       *)
(* confirmed needs it, because no binding may appear in a ready setup.     *)
(***************************************************************************)

ConsentInv == TypeOK /\ BindingFollowsAnswer /\ ReadyBindingWasConfirmed

\* Both consent properties survive every step: no failed submit, cancellation,
\* reauthorization or restart separates a ready setup from what was confirmed.
LEMMA ConsentInductive == ConsentInv /\ [SetupNext]_vars /\ TypeOK' => ConsentInv'
<1> SUFFICES ASSUME ConsentInv, [SetupNext]_vars, TypeOK'
             PROVE  BindingFollowsAnswer' /\ ReadyBindingWasConfirmed'
  BY DEF ConsentInv
<1> USE SetupConstants
    DEF ConsentInv, TypeOK, SetupState, BindingFollowsAnswer, ReadyBindingWasConfirmed, Authorizing
<1>1. CASE ChangeRepo
  BY <1>1 DEF ChangeRepo, setupVars
<1>2. ASSUME NEW s \in Sessions, Answer(s)
      PROVE  BindingFollowsAnswer' /\ ReadyBindingWasConfirmed'
  <2>1. ASSUME NEW c \in ScopeChoices, NEW d \in BOOLEAN, SubmitScope(s, c, d)
        PROVE  BindingFollowsAnswer' /\ ReadyBindingWasConfirmed'
    BY <2>1 DEF SubmitScope
  <2>2. CASE ConfigureRequirements(s)
    BY <2>2 DEF ConfigureRequirements
  <2>3. CASE BindScope(s)
    BY <2>3 DEF BindScope
  <2>4. ASSUME NEW c \in RequirementChoices, SubmitRequirement(s, c)
        PROVE  BindingFollowsAnswer' /\ ReadyBindingWasConfirmed'
    BY <2>4 DEF SubmitRequirement
  <2>5. CASE SubmitRequirementWithoutDetail(s)
    BY <2>5 DEF SubmitRequirementWithoutDetail
  <2>6. ASSUME NEW c \in VerificationChoices, NEW d \in BOOLEAN,
               SubmitVerification(s, c, d)
        PROVE  BindingFollowsAnswer' /\ ReadyBindingWasConfirmed'
    BY <2>6 DEF SubmitVerification
  <2>7. CASE SubmitFinal(s)
    BY <2>7 DEF SubmitFinal
  <2>8. CASE Cancel(s)
    BY <2>8 DEF Cancel
  <2>9. CASE RequireReady(s)
    BY <2>9 DEF RequireReady
  <2>10. ASSUME NEW c \in BOOLEAN, Restart(s, c)
         PROVE  BindingFollowsAnswer' /\ ReadyBindingWasConfirmed'
    BY <2>10 DEF Restart, NewSetup
  <2> QED BY <1>2, <2>1, <2>2, <2>3, <2>4, <2>5, <2>6, <2>7, <2>8, <2>9, <2>10 DEF Answer
<1>3. ASSUME NEW s \in Sessions, RequireReauthorization(s)
      PROVE  BindingFollowsAnswer' /\ ReadyBindingWasConfirmed'
  BY <1>3 DEF RequireReauthorization
<1>4. ASSUME NEW s \in Sessions, NEW b \in Authorizations, BindAuthorization(s, b)
      PROVE  BindingFollowsAnswer' /\ ReadyBindingWasConfirmed'
  BY <1>4 DEF BindAuthorization
<1>5. CASE UNCHANGED vars
  BY <1>5 DEF vars
<1> QED BY <1>1, <1>2, <1>3, <1>4, <1>5 DEF SetupNext

\* A setup that is ready carries an authorization exactly when its answer lets
\* commands run, and it is the one that was in place at the final "yes".
THEOREM SetupConsent == SetupSpec => [](BindingFollowsAnswer /\ ReadyBindingWasConfirmed)
<1>1. SetupInit => BindingFollowsAnswer /\ ReadyBindingWasConfirmed
  BY SetupConstants
     DEF SetupInit, NewSetup, BindingFollowsAnswer, ReadyBindingWasConfirmed, Authorizing
<1> QED BY <1>1, SetupTypeCorrect, ConsentInductive, PTL DEF SetupSpec, ConsentInv

\* No sequence of calls leaves a ready setup with another authorization than the
\* one its final "yes" was given over: a later binding, a cancellation or a
\* reauthorization takes the setup out of ready_to_review first.
THEOREM NoBindingAfterConsent == SetupSpec => []ReadyBindingWasConfirmed
BY SetupConsent, PTL

(***************************************************************************)
(* The confirmed work.  The identity kept since bind_scope is that of the  *)
(* repository it was computed in, and bind_scope happens once, so the gate *)
(* compares two repositories that are both on the pinned commit.           *)
(***************************************************************************)

ConfirmedIdentity ==
    \A s \in Sessions :
      /\ setup[s].scopeBound <=> boundRepo[s] # None
      /\ setup[s].confirmed # None =>
           /\ setup[s].scopeBound
           /\ ScopeResolves(boundRepo[s])
           /\ setup[s].confirmed = ResolvedScopeIdentity(boundRepo[s])

WorkInv == TypeOK /\ ConfirmedIdentity /\ ReviewedWorkIsConfirmedWork

\* A call that leaves scope, bound repository and review alone keeps WorkInv.
LEMMA WorkUndisturbed ==
    ASSUME ConfirmedIdentity, ReviewedWorkIsConfirmedWork,
           UNCHANGED <<boundRepo, reviewed>>,
           \A s \in Sessions : /\ setup'[s].scopeBound = setup[s].scopeBound
                               /\ setup'[s].confirmed = setup[s].confirmed
    PROVE  ConfirmedIdentity' /\ ReviewedWorkIsConfirmedWork'
BY DEF ConfirmedIdentity, ReviewedWorkIsConfirmedWork, ScopeResolves

\* What bind_scope stores is the identity of the repository it saw.
LEMMA WorkBound ==
    ASSUME WorkInv, NEW s \in Sessions, BindScope(s)
    PROVE  ConfirmedIdentity' /\ ReviewedWorkIsConfirmedWork'
<1> DEFINE id == IF ScopeResolves(repo) THEN ResolvedScopeIdentity(repo) ELSE None
<1>1. /\ repo \in RepoStates
      /\ repo # None
      /\ boundRepo' = [boundRepo EXCEPT ![s] = repo]
      /\ boundRepo \in [Sessions -> RepoStates \cup {None}]
      /\ setup \in [Sessions -> SetupState]
      /\ reviewed' = reviewed
  BY SetupConstants DEF WorkInv, TypeOK, BindScope
<1>2. boundRepo[s] = None /\ reviewed[s] = None
  BY DEF WorkInv, ConfirmedIdentity, ReviewedWorkIsConfirmedWork, BindScope
<1>3. setup'[s].scopeBound = TRUE /\ setup'[s].confirmed = id
  BY <1>1 DEF BindScope, SetupState
<1>4. \A q \in Sessions \ {s} : setup'[q] = setup[q] /\ boundRepo'[q] = boundRepo[q]
  BY <1>1 DEF BindScope
<1>5. boundRepo'[s] = repo
  BY <1>1
<1>6. ConfirmedIdentity'
  <2>1. ASSUME NEW q \in Sessions, q # s
        PROVE  /\ setup'[q].scopeBound <=> boundRepo'[q] # None
               /\ setup'[q].confirmed # None =>
                    /\ setup'[q].scopeBound
                    /\ ScopeResolves(boundRepo'[q])
                    /\ setup'[q].confirmed = ResolvedScopeIdentity(boundRepo'[q])
    BY <1>4, <2>1 DEF WorkInv, ConfirmedIdentity
  <2>2. /\ setup'[s].scopeBound <=> boundRepo'[s] # None
        /\ setup'[s].confirmed # None =>
             /\ setup'[s].scopeBound
             /\ ScopeResolves(boundRepo'[s])
             /\ setup'[s].confirmed = ResolvedScopeIdentity(boundRepo'[s])
    BY <1>1, <1>3, <1>5
  <2> QED BY <2>1, <2>2 DEF ConfirmedIdentity, ScopeResolves
<1>7. ReviewedWorkIsConfirmedWork'
  BY <1>1, <1>2, <1>4 DEF WorkInv, ReviewedWorkIsConfirmedWork
<1> QED BY <1>6, <1>7

\* The gate compares the identities of two repositories on the pinned commit.
LEMMA WorkReviewed ==
    ASSUME WorkInv, NEW s \in Sessions, RequireReady(s)
    PROVE  ConfirmedIdentity' /\ ReviewedWorkIsConfirmedWork'
<1>1. /\ boundRepo[s] # None
      /\ ScopeResolves(boundRepo[s]) /\ ScopeResolves(repo)
      /\ ResolvedScopeIdentity(repo) = ResolvedScopeIdentity(boundRepo[s])
  BY DEF WorkInv, ConfirmedIdentity, RequireReady, ScopeConfirmed
<1>2. repo \in RepoState /\ boundRepo[s] \in RepoState
  BY <1>1, SetupConstants DEF WorkInv, TypeOK
<1>3. repo.work = boundRepo[s].work /\ repo.head = boundRepo[s].head
  BY <1>1, <1>2, IdentityDeterminesWork DEF ScopeResolves
<1>4. ConfirmedIdentity'
  BY DEF WorkInv, ConfirmedIdentity, RequireReady, ScopeResolves
<1>5. ReviewedWorkIsConfirmedWork'
  BY <1>1, <1>3 DEF WorkInv, TypeOK, ReviewedWorkIsConfirmedWork, RequireReady
<1> QED BY <1>4, <1>5

\* A restarted setup has neither a scope nor a review.
LEMMA WorkRestarted ==
    ASSUME WorkInv, NEW s \in Sessions, NEW c \in BOOLEAN, Restart(s, c)
    PROVE  ConfirmedIdentity' /\ ReviewedWorkIsConfirmedWork'
BY DEF WorkInv, TypeOK, ConfirmedIdentity, ReviewedWorkIsConfirmedWork, Restart,
       NewSetup, ScopeResolves

\* No call of any session separates a review from the confirmed work.
LEMMA WorkInductive ==
    WorkInv /\ [SetupNext]_vars => ConfirmedIdentity' /\ ReviewedWorkIsConfirmedWork'
<1> SUFFICES ASSUME WorkInv, [SetupNext]_vars
             PROVE  ConfirmedIdentity' /\ ReviewedWorkIsConfirmedWork'
  OBVIOUS
<1> DEFINE Undisturbed ==
      /\ UNCHANGED <<boundRepo, reviewed>>
      /\ \A s \in Sessions : /\ setup'[s].scopeBound = setup[s].scopeBound
                             /\ setup'[s].confirmed = setup[s].confirmed
<1>1. ASSUME Undisturbed
      PROVE  ConfirmedIdentity' /\ ReviewedWorkIsConfirmedWork'
  BY <1>1, WorkUndisturbed DEF WorkInv
<1>2. CASE ChangeRepo
  BY <1>1, <1>2 DEF ChangeRepo, setupVars
<1>3. ASSUME NEW s \in Sessions, Answer(s)
      PROVE  ConfirmedIdentity' /\ ReviewedWorkIsConfirmedWork'
  <2> HIDE DEF Undisturbed
  <2>0. setup \in [Sessions -> SetupState]
    BY DEF WorkInv, TypeOK
  <2>1. ASSUME NEW c \in ScopeChoices, NEW d \in BOOLEAN, SubmitScope(s, c, d)
        PROVE  Undisturbed
    BY <2>0, <2>1 DEF SubmitScope, SetupState, Undisturbed
  <2>2. ASSUME ConfigureRequirements(s)
        PROVE  Undisturbed
    BY <2>0, <2>2 DEF ConfigureRequirements, SetupState, Undisturbed
  <2>3. ASSUME NEW c \in RequirementChoices, SubmitRequirement(s, c)
        PROVE  Undisturbed
    BY <2>0, <2>3 DEF SubmitRequirement, SetupState, Undisturbed
  <2>4. ASSUME SubmitRequirementWithoutDetail(s)
        PROVE  Undisturbed
    BY <2>0, <2>4 DEF SubmitRequirementWithoutDetail, SetupState, Undisturbed
  <2>5. ASSUME NEW c \in VerificationChoices, NEW d \in BOOLEAN,
               SubmitVerification(s, c, d)
        PROVE  Undisturbed
    BY <2>0, <2>5 DEF SubmitVerification, SetupState, Undisturbed
  <2>6. ASSUME SubmitFinal(s)
        PROVE  Undisturbed
    BY <2>0, <2>6 DEF SubmitFinal, SetupState, Undisturbed
  <2>7. ASSUME Cancel(s)
        PROVE  Undisturbed
    BY <2>0, <2>7 DEF Cancel, SetupState, Undisturbed
  <2> HIDE DEF WorkInv
  <2> QED BY <1>1, <1>3, <2>1, <2>2, <2>3, <2>4, <2>5, <2>6, <2>7,
             WorkBound, WorkReviewed, WorkRestarted DEF Answer
<1>4. ASSUME NEW s \in Sessions, RequireReauthorization(s)
      PROVE  ConfirmedIdentity' /\ ReviewedWorkIsConfirmedWork'
  BY <1>1, <1>4 DEF WorkInv, TypeOK, RequireReauthorization, SetupState
<1>5. ASSUME NEW s \in Sessions, NEW b \in Authorizations, BindAuthorization(s, b)
      PROVE  ConfirmedIdentity' /\ ReviewedWorkIsConfirmedWork'
  BY <1>1, <1>5 DEF WorkInv, TypeOK, BindAuthorization, SetupState
<1>6. CASE UNCHANGED vars
  BY <1>1, <1>6 DEF vars
<1> QED BY <1>2, <1>3, <1>4, <1>5, <1>6 DEF SetupNext

\* Whenever the gate has let a review start, its working tree and commit were
\* those of the moment the scope was confirmed, path by path.
THEOREM SetupReviewsConfirmedWork == SetupSpec => []ReviewedWorkIsConfirmedWork
<1>1. SetupInit => ConfirmedIdentity /\ ReviewedWorkIsConfirmedWork
  BY DEF SetupInit, NewSetup, ConfirmedIdentity, ReviewedWorkIsConfirmedWork
<1> QED BY <1>1, SetupTypeCorrect, WorkInductive, PTL DEF SetupSpec, WorkInv

(***************************************************************************)
(* Details.                                                                *)
(***************************************************************************)

\* A detail is only ever kept or added by submit, so a phase whose question is
\* open must hold none: this is what makes DetailMatchesAnswer inductive.
AnswersOpen ==
    \A s \in Sessions :
      /\ setup[s].phase \in {"scope", "requirements"} => ~setup[s].requirementDetail
      /\ setup[s].phase \in {"scope", "requirements", "verification"} =>
           setup[s].verification = None

DetailInv == TypeOK /\ AnswersOpen /\ DetailMatchesAnswer

\* Neither a failed submit nor a reopened verification leaves a detail behind.
LEMMA DetailInductive ==
    DetailInv /\ [SetupNext]_vars => AnswersOpen' /\ DetailMatchesAnswer'
<1> SUFFICES ASSUME DetailInv, [SetupNext]_vars
             PROVE  AnswersOpen' /\ DetailMatchesAnswer'
  OBVIOUS
<1> USE SetupConstants
    DEF DetailInv, TypeOK, SetupState, AnswersOpen, DetailMatchesAnswer, VerificationAnswers
<1>1. CASE ChangeRepo
  BY <1>1 DEF ChangeRepo, setupVars
<1>2. ASSUME NEW s \in Sessions, Answer(s)
      PROVE  AnswersOpen' /\ DetailMatchesAnswer'
  <2>1. ASSUME NEW c \in ScopeChoices, NEW d \in BOOLEAN, SubmitScope(s, c, d)
        PROVE  AnswersOpen' /\ DetailMatchesAnswer'
    BY <2>1 DEF SubmitScope
  <2>2. CASE ConfigureRequirements(s)
    BY <2>2 DEF ConfigureRequirements
  <2>3. CASE BindScope(s)
    BY <2>3 DEF BindScope
  <2>4. ASSUME NEW c \in RequirementChoices, SubmitRequirement(s, c)
        PROVE  AnswersOpen' /\ DetailMatchesAnswer'
    BY <2>4 DEF SubmitRequirement
  <2>5. CASE SubmitRequirementWithoutDetail(s)
    BY <2>5 DEF SubmitRequirementWithoutDetail
  <2>6. ASSUME NEW c \in VerificationChoices, NEW d \in BOOLEAN,
               SubmitVerification(s, c, d)
        PROVE  AnswersOpen' /\ DetailMatchesAnswer'
    BY <2>6 DEF SubmitVerification
  <2>7. CASE SubmitFinal(s)
    BY <2>7 DEF SubmitFinal
  <2>8. CASE Cancel(s)
    BY <2>8 DEF Cancel
  <2>9. CASE RequireReady(s)
    BY <2>9 DEF RequireReady
  <2>10. ASSUME NEW c \in BOOLEAN, Restart(s, c)
         PROVE  AnswersOpen' /\ DetailMatchesAnswer'
    BY <2>10 DEF Restart, NewSetup
  <2> QED BY <1>2, <2>1, <2>2, <2>3, <2>4, <2>5, <2>6, <2>7, <2>8, <2>9, <2>10 DEF Answer
<1>3. ASSUME NEW s \in Sessions, RequireReauthorization(s)
      PROVE  AnswersOpen' /\ DetailMatchesAnswer'
  BY <1>3 DEF RequireReauthorization
<1>4. ASSUME NEW s \in Sessions, NEW b \in Authorizations, BindAuthorization(s, b)
      PROVE  AnswersOpen' /\ DetailMatchesAnswer'
  BY <1>4 DEF BindAuthorization
<1>5. CASE UNCHANGED vars
  BY <1>5 DEF vars
<1> QED BY <1>1, <1>2, <1>3, <1>4, <1>5 DEF SetupNext

\* Every answer that needs a detail has one, and none outlives its answer.
THEOREM SetupDetails == SetupSpec => []DetailMatchesAnswer
<1>1. SetupInit => AnswersOpen /\ DetailMatchesAnswer
  BY SetupConstants
     DEF SetupInit, NewSetup, AnswersOpen, DetailMatchesAnswer, VerificationAnswers
<1> QED BY <1>1, SetupTypeCorrect, DetailInductive, PTL DEF SetupSpec, DetailInv

-----------------------------------------------------------------------------
(***************************************************************************)
(* A session uses the setup only through its own operations, so whatever   *)
(* holds of every setup holds of the setups of sessions.                   *)
(***************************************************************************)

\* Every step of the orchestration is a call of PreReviewSetup, a change of
\* the repository, or leaves every setup alone.
LEMMA SessionStepsSetup == [SessionNext]_sessionVars => [SetupNext]_vars
<1> SUFFICES ASSUME [SessionNext]_sessionVars
             PROVE  [SetupNext]_vars
  OBVIOUS
<1>1. CASE EditRepo
  BY <1>1 DEF EditRepo, SetupNext
<1>2. ASSUME NEW a \in Authorizations, DamageEvidence(a)
      PROVE  UNCHANGED vars
  BY <1>2 DEF DamageEvidence
<1>3. ASSUME NEW s \in Sessions, AnswerSetup(s)
      PROVE  SetupNext
  BY <1>3 DEF AnswerSetup, SetupNext, Answer, RequirementChoices
<1>4. ASSUME NEW s \in Sessions, AnswerFinal(s)
      PROVE  SetupNext
  BY <1>4 DEF AnswerFinal, SetupNext, Answer
<1>5. ASSUME NEW s \in Sessions, Capture(s)
      PROVE  UNCHANGED vars
  BY <1>5 DEF Capture
<1>6. ASSUME NEW s \in Sessions, CallStep(s)
      PROVE  UNCHANGED vars
  BY <1>6 DEF CallStep, LookupEvidence, ExecutePlan, WriteTemporary, ReplaceTarget,
              LoadPersisted, CallFails
<1>7. ASSUME NEW s \in Sessions, RestartSession(s)
      PROVE  SetupNext
  BY <1>7 DEF RestartSession, SetupNext, Answer
<1>8. ASSUME NEW s \in Sessions, NEW a \in Authorizations, Authorize(s, a)
      PROVE  [SetupNext]_vars
  BY <1>8 DEF Authorize, SetupNext
<1>9. ASSUME NEW s \in Sessions, NEW a \in Authorizations, AuthorizeChanged(s, a)
      PROVE  SetupNext
  BY <1>9 DEF AuthorizeChanged, SetupNext
<1>10. ASSUME NEW s \in Sessions, NEW a \in Authorizations, Recover(s, a)
       PROVE  UNCHANGED vars
  BY <1>10 DEF Recover
<1>11. ASSUME NEW s \in Sessions, NEW a \in Authorizations, NEW plan \in Plans,
              NEW c \in Capabilities, Execute(s, a, plan, c)
       PROVE  UNCHANGED vars
  BY <1>11 DEF Execute
<1>12. ASSUME NEW s \in Sessions, NEW a \in Authorizations, NEW plan \in Plans,
              NEW c \in Capabilities, ExecuteMismatched(s, a, plan, c)
       PROVE  SetupNext
  BY <1>12 DEF ExecuteMismatched, SetupNext
<1>13. CASE UNCHANGED sessionVars
  BY <1>13 DEF sessionVars
<1> QED BY <1>1, <1>2, <1>3, <1>4, <1>5, <1>6, <1>7, <1>8, <1>9, <1>10, <1>11,
           <1>12, <1>13 DEF SessionNext

\* The orchestration implements the setup: what was proved of PreReviewSetup
\* on its own holds when sessions, calls and crashes drive it.
THEOREM SessionImplementsSetup == SessionSpec => SetupSpec
<1>1. SessionInit => SetupInit
  BY DEF SessionInit
<1> QED BY <1>1, SessionStepsSetup, PTL DEF SessionSpec, SetupSpec

(***************************************************************************)
(* Type correctness.                                                       *)
(***************************************************************************)

CallState == [at : CallSteps, auth : Authorizations \cup {None},
              evidence : Evidence \cup {None}]

\* A call that is under way is a call of one authorization.
CallsAreAuthorized ==
    \A s \in Sessions : call[s].at # "idle" => call[s].auth \in Authorizations

SessionTypeInv == SessionTypeOK /\ CallsAreAuthorized

\* A call that has ended, or begins, is a call.
LEMMA CallTypes ==
    /\ IdleCall \in CallState
    /\ \A a \in Authorizations :
         [IdleCall EXCEPT !.at = "lookup", !.auth = a] \in CallState
BY DEF IdleCall, CallState, CallSteps

\* A call moves on, with or without evidence, and stays a call.
LEMMA CallMoves ==
    ASSUME NEW c \in CallState, NEW at \in CallSteps, NEW e \in Evidence \cup {None}
    PROVE  /\ [c EXCEPT !.at = at] \in CallState
           /\ [c EXCEPT !.at = at].auth = c.auth
           /\ [c EXCEPT !.at = at, !.evidence = e] \in CallState
           /\ [c EXCEPT !.at = at, !.evidence = e].auth = c.auth
BY DEF CallState

\* A step that only moves a call on keeps its type and its authorization.
LEMMA CallMovesOn ==
    ASSUME call \in [Sessions -> CallState], NEW s \in Sessions, NEW at \in CallSteps,
           call' = [call EXCEPT ![s].at = at]
    PROVE  /\ call' \in [Sessions -> CallState]
           /\ \A q \in Sessions : call'[q].auth = call[q].auth
           /\ \A q \in Sessions \ {s} : call'[q] = call[q]
<1> DEFINE c == [call[s] EXCEPT !.at = at]
<1>1. c \in CallState /\ c.auth = call[s].auth
  BY DEF CallState
<1>2. call' = [call EXCEPT ![s] = c]
  OBVIOUS
<1> HIDE DEF c
<1> QED BY <1>1, <1>2

\* What the executor records is evidence of the authorization it was given.
LEMMA EvidenceType ==
    ASSUME NEW a \in Authorizations, NEW ran \in BOOLEAN, NEW s \in Sessions
    PROVE  [auth |-> a, ran |-> ran, by |-> s] \in Evidence
BY DEF Evidence

RunsType ==
    /\ runs \in [Sessions -> Seq(Authorizations)]
    /\ \A s \in Sessions : Len(runs[s]) <= MaxRuns

\* A history that is cleared, or grows below the bound, is a history.
LEMMA RunsTyped ==
    ASSUME RunsType, NEW s \in Sessions, NEW q \in Seq(Authorizations),
           Len(q) <= MaxRuns, runs' = [runs EXCEPT ![s] = q]
    PROVE  RunsType'
BY DEF RunsType

\* Clearing the history of a session.
LEMMA RunsCleared ==
    ASSUME RunsType, NEW s \in Sessions, runs' = [runs EXCEPT ![s] = <<>>]
    PROVE  RunsType'
<1>1. <<>> \in Seq(Authorizations) /\ Len(<<>>) = 0
  OBVIOUS
<1>2. Len(<<>>) <= MaxRuns
  BY <1>1, SessionConstants
<1> QED BY <1>1, <1>2, RunsTyped

\* A step of a call leaves every session variable with a value it can have.
LEMMA CallStepType ==
    ASSUME SessionTypeInv, NEW s \in Sessions, CallStep(s)
    PROVE  SessionTypeInv'
<1> USE DEF SessionTypeInv, SessionTypeOK, TypeOK, CallsAreAuthorized
<1>0. /\ call \in [Sessions -> CallState]
      /\ call[s].auth \in Authorizations
      /\ files[call[s].auth] \in Evidence \cup {None, Damaged}
  BY DEF CallState, CallStep, LookupEvidence, ExecutePlan, WriteTemporary,
         ReplaceTarget, LoadPersisted, CallFails
<1>1. CASE LookupEvidence(s)
  <2> DEFINE a == call[s].auth
  <2>1. CASE files[a] = None
    <3>1. call' = [call EXCEPT ![s] = [call[s] EXCEPT !.at = "execute"]]
      BY <1>1, <2>1 DEF LookupEvidence
    <3>2. /\ call' \in [Sessions -> CallState]
          /\ \A q \in Sessions : call'[q].auth = call[q].auth
          /\ \A q \in Sessions \ {s} : call'[q] = call[q]
      <4> DEFINE c == [call[s] EXCEPT !.at = "execute"]
      <4>1. c \in CallState /\ c.auth = call[s].auth
        BY <1>0, CallMoves DEF CallSteps
      <4>2. call' = [call EXCEPT ![s] = c]
        BY <3>1
      <4> HIDE DEF c
      <4> QED BY <1>0, <4>1, <4>2
    <3>3. UNCHANGED <<vars, changeset, held, temp, files, attempted, runs, result>>
      BY <1>1, <2>1 DEF LookupEvidence
    <3> QED BY <1>0, <3>2, <3>3 DEF CallState, vars
  <2>2. CASE files[a] # None
    <3>1. call' = [call EXCEPT ![s] = IdleCall]
      BY <1>1, <2>2 DEF LookupEvidence, EndCall
    <3>2. result' \in [Sessions -> Evidence \cup {None}]
      BY <1>0, <1>1, <2>2 DEF LookupEvidence, Loadable
    <3> QED BY <1>0, <1>1, <3>1, <3>2, CallTypes DEF LookupEvidence, CallState, IdleCall, vars
  <2> QED BY <2>1, <2>2
<1>2. CASE ExecutePlan(s)
  <2> DEFINE a == call[s].auth
             ran == repo = a.plan.changeset
             e == [auth |-> a, ran |-> ran, by |-> s]
  <2>1. e \in Evidence
    BY <1>0, EvidenceType
  <2>2. call' = [call EXCEPT ![s] = [call[s] EXCEPT !.at = "write", !.evidence = e]]
    BY <1>2 DEF ExecutePlan
  <2>3. RunsType'
    <3>1. RunsType /\ runs[s] \in Seq(Authorizations)
      BY DEF RunsType
    <3>2. CASE ran
      <4>1. runs' = [runs EXCEPT ![s] = Append(runs[s], a)] /\ Len(runs[s]) < MaxRuns
        BY <1>2, <3>2 DEF ExecutePlan
      <4>2. Append(runs[s], a) \in Seq(Authorizations) /\ Len(Append(runs[s], a)) <= MaxRuns
        BY <1>0, <3>1, <4>1, SessionConstants
      <4> QED BY <3>1, <4>1, <4>2, RunsTyped
    <3>3. CASE ~ran
      <4>1. runs' = runs
        BY <1>2, <3>1, <3>3 DEF ExecutePlan
      <4> QED BY <3>1, <4>1 DEF RunsType
    <3> QED BY <3>2, <3>3
  <2> HIDE DEF e
  <2>4. /\ call' \in [Sessions -> CallState]
        /\ \A q \in Sessions : call'[q].auth = call[q].auth
        /\ \A q \in Sessions \ {s} : call'[q] = call[q]
    <3> DEFINE c == [call[s] EXCEPT !.at = "write", !.evidence = e]
    <3>1. c \in CallState /\ c.auth = call[s].auth
      BY <1>0, <2>1, CallMoves DEF CallSteps
    <3>2. call' = [call EXCEPT ![s] = c]
      BY <2>2
    <3> HIDE DEF c
    <3> QED BY <1>0, <3>1, <3>2
  <2>5. UNCHANGED <<vars, changeset, held, temp, files, attempted, result>>
    BY <1>2 DEF ExecutePlan
  <2>6. TypeOK'
    BY <2>5 DEF vars
  <2>7. CallsAreAuthorized'
    <3> TAKE q \in Sessions
    <3> HAVE call'[q].at # "idle"
    <3>1. CASE q = s
      BY <1>0, <2>4, <3>1
    <3>2. CASE q # s
      BY <2>4, <3>2
    <3> QED BY <3>1, <3>2
  <2>8. /\ call' \in [Sessions -> CallState]
        /\ UNCHANGED <<changeset, held, temp, files, attempted, result>>
    BY <2>4, <2>5
  <2> HIDE DEF TypeOK, CallsAreAuthorized
  <2> QED BY <2>3, <2>6, <2>7, <2>8 DEF CallState, RunsType
<1>3. CASE WriteTemporary(s)
  <2>1. /\ call' \in [Sessions -> CallState]
        /\ \A q \in Sessions : call'[q].auth = call[q].auth
        /\ \A q \in Sessions \ {s} : call'[q] = call[q]
    BY <1>0, <1>3, CallMovesOn DEF WriteTemporary, CallSteps
  <2>2. temp' \in [Sessions -> Evidence \cup {None}]
    BY <1>0, <1>3 DEF WriteTemporary, CallState
  <2>3. UNCHANGED <<vars, changeset, held, files, result, attempted, runs>>
    BY <1>3 DEF WriteTemporary
  <2>4. TypeOK'
    BY <2>3 DEF vars
  <2> HIDE DEF TypeOK
  <2> QED BY <1>0, <2>1, <2>2, <2>3, <2>4 DEF CallState
<1>4. CASE ReplaceTarget(s)
  <2>1. /\ call' \in [Sessions -> CallState]
        /\ \A q \in Sessions : call'[q].auth = call[q].auth
        /\ \A q \in Sessions \ {s} : call'[q] = call[q]
    BY <1>0, <1>4, CallMovesOn DEF ReplaceTarget, CallSteps
  <2>2. /\ temp' \in [Sessions -> Evidence \cup {None}]
        /\ files' \in [Authorizations -> Evidence \cup {None, Damaged}]
    BY <1>0, <1>4 DEF ReplaceTarget, CallState
  <2>3. UNCHANGED <<vars, changeset, held, result, attempted, runs>>
    BY <1>4 DEF ReplaceTarget
  <2>4. TypeOK'
    BY <2>3 DEF vars
  <2> HIDE DEF TypeOK
  <2> QED BY <1>0, <2>1, <2>2, <2>3, <2>4 DEF CallState
<1>5. CASE LoadPersisted(s)
  <2>1. result' \in [Sessions -> Evidence \cup {None}]
    BY <1>0, <1>5 DEF LoadPersisted, Loadable
  <2> QED BY <1>0, <1>5, <2>1, CallTypes DEF LoadPersisted, EndCall, CallState, IdleCall, vars
<1>6. CASE CallFails(s)
  BY <1>0, <1>6, CallTypes DEF CallFails, EndCall, CallState, IdleCall, vars
<1> QED BY <1>1, <1>2, <1>3, <1>4, <1>5, <1>6 DEF CallStep

\* Every field of every session, and every evidence file, keeps its type.
LEMMA SessionTypeInductive ==
    SessionTypeInv /\ TypeOK' /\ [SessionNext]_sessionVars => SessionTypeInv'
<1> SUFFICES ASSUME SessionTypeInv, TypeOK', [SessionNext]_sessionVars
             PROVE  SessionTypeInv'
  OBVIOUS
<1>0. /\ call \in [Sessions -> CallState]
      /\ repo \in RepoStates
  BY DEF SessionTypeInv, SessionTypeOK, TypeOK, CallState
<1> USE DEF SessionTypeInv, SessionTypeOK, CallsAreAuthorized
<1>1. ASSUME UNCHANGED execVars PROVE SessionTypeInv'
  BY <1>1 DEF execVars
<1>2. ASSUME NEW a \in Authorizations, DamageEvidence(a)
      PROVE  SessionTypeInv'
  BY <1>2 DEF DamageEvidence
<1>3. ASSUME NEW s \in Sessions, AnswerFinal(s)
      PROVE  SessionTypeInv'
  <2>1. RunsType'
    BY <1>3, RunsCleared DEF AnswerFinal, RunsType
  <2> QED BY <1>3, <2>1 DEF AnswerFinal, RunsType
<1>4. ASSUME NEW s \in Sessions, Capture(s)
      PROVE  SessionTypeInv'
  BY <1>0, <1>4 DEF Capture
<1>5. ASSUME NEW s \in Sessions, RestartSession(s)
      PROVE  SessionTypeInv'
  <2>1. RunsType'
    BY <1>5, RunsCleared DEF RestartSession, RunsType
  <2>2. call' = [call EXCEPT ![s] = IdleCall]
    BY <1>5 DEF RestartSession, EndCall
  <2> QED BY <1>0, <1>5, <2>1, <2>2, CallTypes DEF RestartSession, CallState, IdleCall, RunsType
<1>6. ASSUME NEW s \in Sessions, NEW a \in Authorizations, Authorize(s, a)
      PROVE  SessionTypeInv'
  BY <1>6 DEF Authorize
<1>7. ASSUME NEW s \in Sessions, NEW a \in Authorizations, Recover(s, a)
      PROVE  SessionTypeInv'
  BY <1>7 DEF Recover, Loadable
<1>8. ASSUME NEW s \in Sessions, NEW a \in Authorizations, NEW plan \in Plans,
              NEW c \in Capabilities, Execute(s, a, plan, c)
      PROVE  SessionTypeInv'
  <2> DEFINE begun == [IdleCall EXCEPT !.at = "lookup", !.auth = a]
  <2>1. begun \in CallState /\ begun.auth = a
    BY CallTypes DEF IdleCall
  <2>2. call' = [call EXCEPT ![s] = begun]
    BY <1>8 DEF Execute
  <2> HIDE DEF begun
  <2>3. /\ call' \in [Sessions -> CallState]
        /\ \A q \in Sessions : call'[q] = IF q = s THEN begun ELSE call[q]
    BY <1>0, <2>1, <2>2
  <2>4. \A q \in Sessions : call'[q].at # "idle" => call'[q].auth \in Authorizations
    BY <2>1, <2>3
  <2>5. /\ attempted' = [attempted EXCEPT ![s] = TRUE] /\ result' = [result EXCEPT ![s] = None]
        /\ UNCHANGED <<changeset, held, temp, files, runs>>
    BY <1>8 DEF Execute
  <2>6. attempted' \in [Sessions -> BOOLEAN] /\ result' \in [Sessions -> Evidence \cup {None}]
    BY <2>5
  <2> QED BY <2>3, <2>4, <2>5, <2>6 DEF CallState
<1>9. ASSUME NEW s \in Sessions, CallStep(s)
      PROVE  SessionTypeInv'
  BY <1>9, CallStepType
<1> HIDE DEF SessionTypeInv, SessionTypeOK, CallsAreAuthorized
<1> QED
  BY <1>1, <1>2, <1>3, <1>4, <1>5, <1>6, <1>7, <1>8, <1>9
     DEF SessionNext, EditRepo, AnswerSetup, AuthorizeChanged, ExecuteMismatched, sessionVars

\* Type correctness of the orchestration: what a call holds, returns, writes
\* and counts keeps its type through failures, crashes and damaged files.
THEOREM SessionTypeCorrect == SessionSpec => [](SessionTypeOK /\ CallsAreAuthorized)
<1>1. SessionInit /\ TypeOK => SessionTypeInv
  <2> SUFFICES ASSUME SessionInit, TypeOK
               PROVE  SessionTypeInv
    OBVIOUS
  <2>1. RunsType
    <3>1. <<>> \in Seq(Authorizations) /\ Len(<<>>) = 0
      OBVIOUS
    <3> QED BY <3>1, SessionConstants DEF SessionInit, RunsType
  <2>2. call \in [Sessions -> CallState] /\ CallsAreAuthorized
    BY CallTypes DEF SessionInit, CallsAreAuthorized, IdleCall
  <2> QED BY <2>1, <2>2 DEF SessionInit, SessionTypeInv, SessionTypeOK, RunsType, CallState
<1> QED BY <1>1, SessionTypeInductive, SessionImplementsSetup, SetupTypeCorrect, PTL
        DEF SessionSpec, SessionTypeInv

(***************************************************************************)
(* Consent.  While a call is under way its session answers nothing, so the *)
(* binding the call was matched against is still the one in place.         *)
(***************************************************************************)

\* A call that is under way executes the authorization its ready setup holds.
CallIsBound ==
    \A s \in Sessions :
      call[s].at # "idle" =>
        /\ setup[s].phase = "ready_to_review"
        /\ setup[s].binding = call[s].auth

\* A step that leaves the calls alone, and changes the setup of sessions
\* without a call only, separates no call from its binding.
LEMMA CallBoundUndisturbed ==
    ASSUME CallIsBound,
           \A s \in Sessions : call[s].at # "idle" => setup'[s] = setup[s],
           \A s \in Sessions :
             call'[s].at # "idle" => call[s].at # "idle" /\ call'[s].auth = call[s].auth
    PROVE  CallIsBound'
BY DEF CallIsBound

\* A step of the setup of one session leaves the other setups alone.
LEMMA AnswersAreLocal ==
    ASSUME NEW s \in Sessions, TypeOK,
           \/ AnswerSetup(s) \/ SubmitFinal(s) \/ RequireReauthorization(s)
           \/ \E a \in Authorizations : BindAuthorization(s, a)
           \/ Restart(s, FALSE)
    PROVE  \A q \in Sessions \ {s} : setup'[q] = setup[q]
BY DEF TypeOK, AnswerSetup, SubmitScope, BindScope, ConfigureRequirements, SubmitRequirement,
       SubmitVerification, Cancel, SubmitFinal, RequireReauthorization, BindAuthorization,
       Restart

\* A step of a call ends it or goes on with the same authorization.
LEMMA CallsGoOn ==
    ASSUME SessionTypeOK, NEW s \in Sessions, CallStep(s)
    PROVE  \A q \in Sessions :
             /\ q # s => call'[q] = call[q]
             /\ call'[q].at # "idle" =>
                  call[q].at # "idle" /\ call'[q].auth = call[q].auth
<1>0. call \in [Sessions -> CallState] /\ IdleCall.at = "idle"
  BY DEF SessionTypeOK, CallState, IdleCall
<1>1. CASE LookupEvidence(s)
  <2>1. CASE files[call[s].auth] = None
    BY <1>0, <1>1, <2>1 DEF LookupEvidence, CallState
  <2>2. CASE files[call[s].auth] # None
    BY <1>0, <1>1, <2>2 DEF LookupEvidence, EndCall
  <2> QED BY <2>1, <2>2
<1>2. CASE ExecutePlan(s)
  BY <1>0, <1>2 DEF ExecutePlan, CallState
<1>3. CASE WriteTemporary(s)
  BY <1>0, <1>3 DEF WriteTemporary, CallState
<1>4. CASE ReplaceTarget(s)
  BY <1>0, <1>4 DEF ReplaceTarget, CallState
<1>5. CASE LoadPersisted(s)
  BY <1>0, <1>5 DEF LoadPersisted, EndCall
<1>6. CASE CallFails(s)
  BY <1>0, <1>6 DEF CallFails, EndCall
<1> QED BY <1>1, <1>2, <1>3, <1>4, <1>5, <1>6 DEF CallStep

\* No step of any session comes between a call and its authorization.
LEMMA CallBoundInductive ==
    SessionTypeInv /\ CallIsBound /\ [SessionNext]_sessionVars => CallIsBound'
<1> SUFFICES ASSUME SessionTypeInv, CallIsBound, [SessionNext]_sessionVars
             PROVE  CallIsBound'
  OBVIOUS
<1>0. /\ call \in [Sessions -> CallState]
      /\ TypeOK /\ SessionTypeOK
      /\ IdleCall.at = "idle"
  BY DEF SessionTypeInv, SessionTypeOK, CallState, IdleCall
<1> DEFINE Apart(s) ==
      /\ call[s].at = "idle"
      /\ call' = call
      /\ \A q \in Sessions \ {s} : setup'[q] = setup[q]
<1>1. ASSUME NEW s \in Sessions, Apart(s)
      PROVE  CallIsBound'
  BY <1>1, CallBoundUndisturbed
<1>2. ASSUME setup' = setup, call' = call
      PROVE  CallIsBound'
  BY <1>2, CallBoundUndisturbed
<1>3. CASE EditRepo
  BY <1>2, <1>3 DEF EditRepo, ChangeRepo, setupVars, execVars
<1>4. ASSUME NEW a \in Authorizations, DamageEvidence(a)
      PROVE  CallIsBound'
  BY <1>2, <1>4 DEF DamageEvidence, vars
<1>5. ASSUME NEW s \in Sessions, AnswerSetup(s)
      PROVE  CallIsBound'
  <2>1. Apart(s)
    BY <1>0, <1>5, AnswersAreLocal DEF AnswerSetup, Idle, execVars
  <2> QED BY <1>1, <2>1
<1>6. ASSUME NEW s \in Sessions, AnswerFinal(s)
      PROVE  CallIsBound'
  <2>1. Apart(s)
    BY <1>0, <1>6, AnswersAreLocal DEF AnswerFinal, Idle
  <2> QED BY <1>1, <2>1
<1>7. ASSUME NEW s \in Sessions, Capture(s)
      PROVE  CallIsBound'
  BY <1>2, <1>7 DEF Capture, vars
<1>8. ASSUME NEW s \in Sessions, CallStep(s)
      PROVE  CallIsBound'
  <2>1. setup' = setup
    BY <1>8 DEF CallStep, LookupEvidence, ExecutePlan, WriteTemporary, ReplaceTarget,
                LoadPersisted, CallFails, vars
  <2> QED BY <1>0, <1>8, <2>1, CallsGoOn, CallBoundUndisturbed
<1>9. ASSUME NEW s \in Sessions, RestartSession(s)
      PROVE  CallIsBound'
  <2>1. call' = [call EXCEPT ![s] = IdleCall]
    BY <1>9 DEF RestartSession, EndCall
  <2>2. \A q \in Sessions \ {s} : setup'[q] = setup[q]
    BY <1>0, <1>9, AnswersAreLocal DEF RestartSession
  <2> QED BY <1>0, <2>1, <2>2 DEF CallIsBound
<1>10. ASSUME NEW s \in Sessions, NEW a \in Authorizations, Authorize(s, a)
       PROVE  CallIsBound'
  <2>1. Apart(s)
    BY <1>0, <1>10, AnswersAreLocal DEF Authorize, Idle, vars
  <2> QED BY <1>1, <2>1
<1>11. ASSUME NEW s \in Sessions, NEW a \in Authorizations, AuthorizeChanged(s, a)
       PROVE  CallIsBound'
  <2>1. Apart(s)
    BY <1>0, <1>11, AnswersAreLocal DEF AuthorizeChanged, Idle, execVars
  <2> QED BY <1>1, <2>1
<1>12. ASSUME NEW s \in Sessions, NEW a \in Authorizations, Recover(s, a)
       PROVE  CallIsBound'
  BY <1>2, <1>12 DEF Recover, vars
<1>13. ASSUME NEW s \in Sessions, NEW a \in Authorizations, NEW plan \in Plans,
              NEW c \in Capabilities, Execute(s, a, plan, c)
       PROVE  CallIsBound'
  <2>1. call' = [call EXCEPT ![s] = [IdleCall EXCEPT !.at = "lookup", !.auth = a]]
    BY <1>13 DEF Execute
  <2>2. [IdleCall EXCEPT !.at = "lookup", !.auth = a].auth = a
    BY DEF IdleCall
  <2>3. setup' = setup
    BY <1>13 DEF Execute, vars
  <2>4. setup[s].phase = "ready_to_review" /\ setup[s].binding = a
    <3>1. a \in [plan : Plans, capability : Capabilities, policy : Policies]
      BY SessionConstants
    <3>2. setup[s].binding = [plan |-> a.plan, capability |-> a.capability, policy |-> a.policy]
      BY <1>13 DEF Execute, Matches
    <3>3. a = [plan |-> a.plan, capability |-> a.capability, policy |-> a.policy]
      BY <3>1
    <3> QED BY <1>13, <3>2, <3>3 DEF Execute, MayExecute
  <2> QED BY <1>0, <2>1, <2>2, <2>3, <2>4 DEF CallIsBound
<1>14. ASSUME NEW s \in Sessions, NEW a \in Authorizations, NEW plan \in Plans,
              NEW c \in Capabilities, ExecuteMismatched(s, a, plan, c)
       PROVE  CallIsBound'
  <2>1. Apart(s)
    BY <1>0, <1>14, AnswersAreLocal DEF ExecuteMismatched, MayExecute, Idle, execVars
  <2> QED BY <1>1, <2>1
<1>15. CASE UNCHANGED sessionVars
  BY <1>2, <1>15 DEF sessionVars, vars, execVars
<1> QED BY <1>3, <1>4, <1>5, <1>6, <1>7, <1>8, <1>9, <1>10, <1>11, <1>12, <1>13,
           <1>14, <1>15 DEF SessionNext

\* A call that has begun executes the authorization the person confirmed last,
\* whatever is withdrawn, edited, damaged or restarted meanwhile.
THEOREM ExecutionsAreConsented == SessionSpec => []ExecutionIsConsented
<1>1. SessionInit => CallIsBound
  BY DEF SessionInit, CallIsBound, IdleCall
<1>2. CallIsBound /\ CallsAreAuthorized /\ BindingFollowsAnswer /\ ReadyBindingWasConfirmed
        => ExecutionIsConsented
  BY SetupConstants DEF CallIsBound, CallsAreAuthorized, BindingFollowsAnswer,
     ReadyBindingWasConfirmed, ExecutionIsConsented
<1> QED BY <1>1, <1>2, CallBoundInductive, SessionTypeCorrect, SessionImplementsSetup,
           SetupConsent, PTL DEF SessionSpec, SessionTypeInv

(***************************************************************************)
(* Results.  A session holds authorizations for the ChangeSet it captured, *)
(* and it captures once: before, it can hold none.                         *)
(***************************************************************************)

\* What a session holds is for its ChangeSet, and it calls with what it holds.
HeldForChangeSet ==
    \A s \in Sessions :
      /\ \A a \in held[s] : a.plan.changeset = changeset[s]
      /\ call[s].at # "idle" => call[s].auth \in held[s]

ResultInv == HeldForChangeSet /\ ResultBelongsToSession

\* What the loader accepts at the target of a held authorization is a result
\* of the session.
LEMMA LoadedBelongs ==
    ASSUME ResultInv, NEW s \in Sessions, NEW a \in held[s], Loadable(a)
    PROVE  /\ files[a].auth \in held[s]
           /\ files[a].auth.plan.changeset = changeset[s]
BY DEF ResultInv, HeldForChangeSet, Loadable

\* The results of the other sessions stand, and this one has none or one that
\* belongs to it.
LEMMA ResultGiven ==
    ASSUME SessionTypeOK, ResultInv, NEW s \in Sessions,
           UNCHANGED <<changeset, held>>,
           \A q \in Sessions : call'[q].at # "idle" => call'[q].auth \in held[q],
           \A q \in Sessions \ {s} : result'[q] = result[q],
           result'[s] # None =>
             \/ result'[s] = result[s]
             \/ /\ result'[s].auth \in held[s]
                /\ result'[s].auth.plan.changeset = changeset[s]
    PROVE  ResultInv'
BY DEF SessionTypeOK, ResultInv, HeldForChangeSet, ResultBelongsToSession

\* A step of a call returns what it loaded for its own authorization.
LEMMA CallResults ==
    ASSUME SessionTypeOK, ResultInv, NEW s \in Sessions, CallStep(s)
    PROVE  ResultInv'
<1>1. \A q \in Sessions : call'[q].at # "idle" => call'[q].auth \in held[q]
  BY CallsGoOn DEF ResultInv, HeldForChangeSet
<1>2. call[s].auth \in held[s]
  BY DEF ResultInv, HeldForChangeSet, CallStep, LookupEvidence, ExecutePlan,
         WriteTemporary, ReplaceTarget, LoadPersisted, CallFails
<1>3. UNCHANGED <<changeset, held>>
  BY DEF CallStep, LookupEvidence, ExecutePlan, WriteTemporary, ReplaceTarget,
         LoadPersisted, CallFails
<1>4. result \in [Sessions -> Evidence \cup {None}]
  BY DEF SessionTypeOK
<1>5. ASSUME UNCHANGED result
      PROVE  ResultInv'
  BY <1>1, <1>3, <1>5, ResultGiven
<1>6. ASSUME result' = [result EXCEPT ![s] =
                          IF Loadable(call[s].auth) THEN files[call[s].auth] ELSE None]
      PROVE  ResultInv'
  <2>1. CASE Loadable(call[s].auth)
    <3>1. result' = [result EXCEPT ![s] = files[call[s].auth]]
      BY <1>6, <2>1
    <3> QED BY <1>1, <1>2, <1>3, <1>4, <2>1, <3>1, LoadedBelongs, ResultGiven
  <2>2. CASE ~Loadable(call[s].auth)
    <3>1. result' = [result EXCEPT ![s] = None]
      BY <1>6, <2>2
    <3> QED BY <1>1, <1>3, <1>4, <3>1, ResultGiven
  <2> QED BY <2>1, <2>2
<1>7. UNCHANGED result \/ result' = [result EXCEPT ![s] =
                            IF Loadable(call[s].auth) THEN files[call[s].auth] ELSE None]
  BY DEF CallStep, LookupEvidence, ExecutePlan, WriteTemporary, ReplaceTarget,
         LoadPersisted, CallFails
<1> QED BY <1>5, <1>6, <1>7

\* Whoever wrote a file, and whatever became of it, a session only takes a
\* result that names an authorization of its own.
LEMMA ResultInductive ==
    SessionTypeInv /\ ResultInv /\ [SessionNext]_sessionVars => ResultInv'
<1> SUFFICES ASSUME SessionTypeInv, ResultInv, [SessionNext]_sessionVars
             PROVE  ResultInv'
  OBVIOUS
<1>0. /\ SessionTypeOK
      /\ result \in [Sessions -> Evidence \cup {None}]
      /\ held \in [Sessions -> SUBSET Authorizations]
      /\ changeset \in [Sessions -> RepoStates \cup {None}]
      /\ call \in [Sessions -> CallState]
      /\ IdleCall.at = "idle"
  BY DEF SessionTypeInv, SessionTypeOK, CallState, IdleCall
<1>1. ASSUME UNCHANGED <<changeset, held, call, result>>
      PROVE  ResultInv'
  BY <1>1 DEF ResultInv, HeldForChangeSet, ResultBelongsToSession
<1>2. CASE EditRepo
  BY <1>1, <1>2 DEF EditRepo, execVars
<1>3. ASSUME NEW a \in Authorizations, DamageEvidence(a)
      PROVE  ResultInv'
  BY <1>1, <1>3 DEF DamageEvidence
<1>4. ASSUME NEW s \in Sessions, AnswerSetup(s)
      PROVE  ResultInv'
  BY <1>1, <1>4 DEF AnswerSetup, execVars
<1>5. ASSUME NEW s \in Sessions, AnswerFinal(s)
      PROVE  ResultInv'
  <2>1. /\ UNCHANGED <<changeset, held, call>>
        /\ result' = [result EXCEPT ![s] = None]
    BY <1>5 DEF AnswerFinal
  <2> QED BY <1>0, <2>1 DEF ResultInv, HeldForChangeSet, ResultBelongsToSession
<1>6. ASSUME NEW s \in Sessions, Capture(s)
      PROVE  ResultInv'
  <2>1. /\ UNCHANGED <<held, call, result>>
        /\ changeset' = [changeset EXCEPT ![s] = repo]
        /\ changeset[s] = None /\ call[s].at = "idle"
    BY <1>6 DEF Capture, Idle
  <2>2. held[s] = {}
    <3> SUFFICES ASSUME NEW a \in held[s]
                 PROVE  FALSE
      OBVIOUS
    <3>1. a \in [plan : Plans, capability : Capabilities, policy : Policies]
      BY <1>0, SessionConstants
    <3>2. a.plan.changeset \in RepoStates
      BY <3>1 DEF Plans
    <3>3. a.plan.changeset = None
      BY <2>1 DEF ResultInv, HeldForChangeSet
    <3> QED BY <3>2, <3>3, SetupConstants
  <2>3. result[s] = None
    BY <2>2 DEF ResultInv, ResultBelongsToSession
  <2> QED BY <1>0, <2>1, <2>2, <2>3 DEF ResultInv, HeldForChangeSet, ResultBelongsToSession
<1>7. ASSUME NEW s \in Sessions, CallStep(s)
      PROVE  ResultInv'
  BY <1>0, <1>7, CallResults
<1>8. ASSUME NEW s \in Sessions, RestartSession(s)
      PROVE  ResultInv'
  <2>1. /\ changeset' = [changeset EXCEPT ![s] = None]
        /\ held' = [held EXCEPT ![s] = {}]
        /\ call' = [call EXCEPT ![s] = IdleCall]
        /\ result' = [result EXCEPT ![s] = None]
    BY <1>8 DEF RestartSession, EndCall
  <2> QED BY <1>0, <2>1 DEF ResultInv, HeldForChangeSet, ResultBelongsToSession
<1>9. ASSUME NEW s \in Sessions, NEW a \in Authorizations, Authorize(s, a)
      PROVE  ResultInv'
  <2>1. /\ UNCHANGED <<changeset, call, result>>
        /\ held' = [held EXCEPT ![s] = held[s] \cup {a}]
        /\ a.plan.changeset = changeset[s]
    BY <1>9 DEF Authorize
  <2> QED BY <1>0, <2>1 DEF ResultInv, HeldForChangeSet, ResultBelongsToSession
<1>10. ASSUME NEW s \in Sessions, NEW a \in Authorizations, AuthorizeChanged(s, a)
       PROVE  ResultInv'
  BY <1>1, <1>10 DEF AuthorizeChanged, execVars
<1>11. ASSUME NEW s \in Sessions, NEW a \in Authorizations, Recover(s, a)
       PROVE  ResultInv'
  <2>1. /\ UNCHANGED <<changeset, held, call>>
        /\ result' = [result EXCEPT ![s] = files[a]]
        /\ a \in held[s] /\ Loadable(a)
    BY <1>11 DEF Recover
  <2>2. \A q \in Sessions : call'[q].at # "idle" => call'[q].auth \in held[q]
    BY <2>1 DEF ResultInv, HeldForChangeSet
  <2> QED BY <1>0, <2>1, <2>2, LoadedBelongs, ResultGiven
<1>12. ASSUME NEW s \in Sessions, NEW a \in Authorizations, NEW plan \in Plans,
              NEW c \in Capabilities, Execute(s, a, plan, c)
       PROVE  ResultInv'
  <2>1. /\ UNCHANGED <<changeset, held>>
        /\ call' = [call EXCEPT ![s] = [IdleCall EXCEPT !.at = "lookup", !.auth = a]]
        /\ result' = [result EXCEPT ![s] = None]
        /\ a \in held[s]
    BY <1>12 DEF Execute
  <2>2. [IdleCall EXCEPT !.at = "lookup", !.auth = a].auth = a
    BY DEF IdleCall
  <2>3. \A q \in Sessions : call'[q].at # "idle" => call'[q].auth \in held[q]
    BY <1>0, <2>1, <2>2 DEF ResultInv, HeldForChangeSet
  <2> QED BY <1>0, <2>1, <2>3, ResultGiven
<1>13. ASSUME NEW s \in Sessions, NEW a \in Authorizations, NEW plan \in Plans,
              NEW c \in Capabilities, ExecuteMismatched(s, a, plan, c)
       PROVE  ResultInv'
  BY <1>1, <1>13 DEF ExecuteMismatched, execVars
<1>14. CASE UNCHANGED sessionVars
  BY <1>1, <1>14 DEF sessionVars, execVars
<1> QED BY <1>2, <1>3, <1>4, <1>5, <1>6, <1>7, <1>8, <1>9, <1>10, <1>11, <1>12,
           <1>13, <1>14 DEF SessionNext

\* The evidence a call returns is of an authorization this session holds and
\* of the ChangeSet it captured, with any number of sessions sharing files.
THEOREM ResultsBelong == SessionSpec => []ResultBelongsToSession
<1>1. SessionInit => ResultInv
  BY DEF SessionInit, ResultInv, HeldForChangeSet, ResultBelongsToSession, IdleCall
<1> QED BY <1>1, ResultInductive, SessionTypeCorrect, PTL
        DEF SessionSpec, SessionTypeInv, ResultInv

(***************************************************************************)
(* A caller that does not execute twice.  An attempt is remembered from    *)
(* its first step, so commands can only have run in the one call of a      *)
(* confirmation.                                                           *)
(***************************************************************************)

\* Nothing has run before the attempt, nor until its plan is executed.
AttemptsCount ==
    \A s \in Sessions :
      /\ ~attempted[s] => runs[s] = <<>> /\ call[s].at = "idle"
      /\ call[s].at \in {"lookup", "execute"} => runs[s] = <<>>

\* The commands of a call run while nothing has run, or not at all.
LEMMA CallAttempts ==
    ASSUME SessionTypeInv, AttemptsCount, NEW s \in Sessions, CallStep(s)
    PROVE  AttemptsCount'
<1>0. /\ call \in [Sessions -> CallState]
      /\ attempted \in [Sessions -> BOOLEAN]
      /\ runs \in [Sessions -> Seq(Authorizations)]
      /\ call[s].auth \in Authorizations
      /\ attempted[s] = TRUE
      /\ attempted' = attempted
      /\ IdleCall.at = "idle"
  BY DEF SessionTypeInv, SessionTypeOK, CallsAreAuthorized, CallState, IdleCall, AttemptsCount,
         CallStep, LookupEvidence, ExecutePlan, WriteTemporary, ReplaceTarget,
         LoadPersisted, CallFails
<1>1. ASSUME runs' = runs,
             \A q \in Sessions \ {s} : call'[q] = call[q],
             call'[s].at \in {"lookup", "execute"} => call[s].at \in {"lookup", "execute"}
      PROVE  AttemptsCount'
  BY <1>0, <1>1 DEF AttemptsCount
<1>2. CASE LookupEvidence(s)
  BY <1>0, <1>1, <1>2 DEF LookupEvidence, EndCall
<1>3. CASE ExecutePlan(s)
  <2>1. /\ \A q \in Sessions \ {s} : call'[q] = call[q] /\ runs'[q] = runs[q]
        /\ call'[s].at = "write"
    BY <1>0, <1>3 DEF ExecutePlan, CallState
  <2> QED BY <1>0, <2>1 DEF AttemptsCount
<1>4. CASE WriteTemporary(s)
  BY <1>0, <1>1, <1>4 DEF WriteTemporary, CallState
<1>5. CASE ReplaceTarget(s)
  BY <1>0, <1>1, <1>5 DEF ReplaceTarget, CallState
<1>6. CASE LoadPersisted(s)
  BY <1>0, <1>1, <1>6 DEF LoadPersisted, EndCall
<1>7. CASE CallFails(s)
  BY <1>0, <1>1, <1>7 DEF CallFails, EndCall
<1> QED BY <1>2, <1>3, <1>4, <1>5, <1>6, <1>7 DEF CallStep

\* With a caller that does not retry, no failure or crash leaves room for a
\* second execution of one confirmation.
LEMMA AttemptInductive ==
    ~Retries /\ SessionTypeInv /\ AttemptsCount /\ [SessionNext]_sessionVars => AttemptsCount'
<1> SUFFICES ASSUME ~Retries, SessionTypeInv, AttemptsCount, [SessionNext]_sessionVars
             PROVE  AttemptsCount'
  OBVIOUS
<1>0. /\ call \in [Sessions -> CallState]
      /\ attempted \in [Sessions -> BOOLEAN]
      /\ runs \in [Sessions -> Seq(Authorizations)]
      /\ IdleCall.at = "idle"
  BY DEF SessionTypeInv, SessionTypeOK, CallState, IdleCall
<1>1. ASSUME UNCHANGED <<call, attempted, runs>>
      PROVE  AttemptsCount'
  BY <1>1 DEF AttemptsCount
<1>2. CASE EditRepo
  BY <1>1, <1>2 DEF EditRepo, execVars
<1>3. ASSUME NEW a \in Authorizations, DamageEvidence(a)
      PROVE  AttemptsCount'
  BY <1>1, <1>3 DEF DamageEvidence
<1>4. ASSUME NEW s \in Sessions, AnswerSetup(s) \/ Capture(s)
      PROVE  AttemptsCount'
  BY <1>1, <1>4 DEF AnswerSetup, Capture, execVars
<1>5. ASSUME NEW s \in Sessions, AnswerFinal(s)
      PROVE  AttemptsCount'
  <2>1. /\ call' = call /\ call[s].at = "idle"
        /\ attempted' = [attempted EXCEPT ![s] = FALSE]
        /\ runs' = [runs EXCEPT ![s] = <<>>]
    BY <1>5 DEF AnswerFinal, Idle
  <2> QED BY <1>0, <2>1 DEF AttemptsCount
<1>6. ASSUME NEW s \in Sessions, CallStep(s)
      PROVE  AttemptsCount'
  BY <1>6, CallAttempts
<1>7. ASSUME NEW s \in Sessions, RestartSession(s)
      PROVE  AttemptsCount'
  <2>1. /\ call' = [call EXCEPT ![s] = IdleCall]
        /\ attempted' = [attempted EXCEPT ![s] = FALSE]
        /\ runs' = [runs EXCEPT ![s] = <<>>]
    BY <1>7 DEF RestartSession, EndCall
  <2> QED BY <1>0, <2>1 DEF AttemptsCount
<1>8. ASSUME NEW s \in Sessions, NEW a \in Authorizations,
             Authorize(s, a) \/ AuthorizeChanged(s, a) \/ Recover(s, a)
      PROVE  AttemptsCount'
  BY <1>1, <1>8 DEF Authorize, AuthorizeChanged, Recover, execVars
<1>9. ASSUME NEW s \in Sessions, NEW a \in Authorizations, NEW plan \in Plans,
             NEW c \in Capabilities, Execute(s, a, plan, c)
      PROVE  AttemptsCount'
  <2>1. /\ call' = [call EXCEPT ![s] = [IdleCall EXCEPT !.at = "lookup", !.auth = a]]
        /\ attempted' = [attempted EXCEPT ![s] = TRUE]
        /\ runs' = runs
    BY <1>9 DEF Execute
  <2>2. runs[s] = <<>>
    BY <1>9 DEF Execute, CallerMayCall, AttemptsCount
  <2> QED BY <1>0, <2>1, <2>2 DEF AttemptsCount
<1>10. ASSUME NEW s \in Sessions, NEW a \in Authorizations, NEW plan \in Plans,
              NEW c \in Capabilities, ExecuteMismatched(s, a, plan, c)
       PROVE  AttemptsCount'
  BY <1>1, <1>10 DEF ExecuteMismatched, execVars
<1>11. CASE UNCHANGED sessionVars
  BY <1>1, <1>11 DEF sessionVars, execVars
<1> QED BY <1>2, <1>3, <1>4, <1>5, <1>6, <1>7, <1>8, <1>9, <1>10, <1>11
        DEF SessionNext

(***************************************************************************)
(* One process and its evidence file.                                      *)
(***************************************************************************)

\* A call that found no file meets none until it has put its own in place:
\* evidence is damaged where it is, and no other process writes.
TargetStaysFree ==
    \A s \in Sessions :
      call[s].at \in {"execute", "write", "replace"} => files[call[s].auth] = None

\* With one session the target of a call stays free until it is written.
LEMMA TargetInductive ==
    ASSUME \A s, q \in Sessions : s = q
    PROVE  SessionTypeInv /\ TargetStaysFree /\ [SessionNext]_sessionVars => TargetStaysFree'
<1> SUFFICES ASSUME SessionTypeInv, TargetStaysFree, [SessionNext]_sessionVars
             PROVE  TargetStaysFree'
  OBVIOUS
<1>0. /\ call \in [Sessions -> CallState]
      /\ files \in [Authorizations -> Evidence \cup {None, Damaged}]
      /\ CallsAreAuthorized
      /\ IdleCall.at = "idle"
  BY DEF SessionTypeInv, SessionTypeOK, CallState, IdleCall
<1>1. ASSUME UNCHANGED <<call, files>>
      PROVE  TargetStaysFree'
  BY <1>1 DEF TargetStaysFree
<1>2. ASSUME NEW s \in Sessions, call'[s].at \notin {"execute", "write", "replace"}
      PROVE  TargetStaysFree'
  BY <1>2 DEF TargetStaysFree
<1>3. CASE EditRepo
  BY <1>1, <1>3 DEF EditRepo, execVars
<1>4. ASSUME NEW a \in Authorizations, DamageEvidence(a)
      PROVE  TargetStaysFree'
  <2>1. PICK content : files' = [files EXCEPT ![a] = content]
    BY <1>4 DEF DamageEvidence
  <2>2. files[a] # None /\ call' = call
    BY <1>4 DEF DamageEvidence
  <2> QED BY <1>0, <2>1, <2>2 DEF TargetStaysFree, CallsAreAuthorized
<1>5. ASSUME NEW s \in Sessions, AnswerSetup(s) \/ AnswerFinal(s) \/ Capture(s)
      PROVE  TargetStaysFree'
  BY <1>1, <1>5 DEF AnswerSetup, AnswerFinal, Capture, execVars
<1>6. ASSUME NEW s \in Sessions, CallStep(s)
      PROVE  TargetStaysFree'
  <2>1. CASE LookupEvidence(s)
    <3>1. files' = files /\ \A q \in Sessions : q = s
      BY <2>1 DEF LookupEvidence
    <3>2. CASE files[call[s].auth] = None
      BY <1>0, <2>1, <3>1, <3>2 DEF LookupEvidence, CallState, TargetStaysFree
    <3>3. CASE files[call[s].auth] # None
      BY <1>0, <1>2, <2>1, <3>3 DEF LookupEvidence, EndCall
    <3> QED BY <3>2, <3>3
  <2>2. CASE ExecutePlan(s)
    <3>1. /\ files' = files /\ call'[s].auth = call[s].auth
          /\ call[s].at = "execute"
      BY <1>0, <2>2 DEF ExecutePlan, CallState
    <3> QED BY <3>1 DEF TargetStaysFree
  <2>3. CASE WriteTemporary(s)
    <3>1. /\ files' = files /\ call'[s].auth = call[s].auth
          /\ call[s].at = "write"
      BY <1>0, <2>3 DEF WriteTemporary, CallState
    <3> QED BY <3>1 DEF TargetStaysFree
  <2>4. CASE ReplaceTarget(s)
    BY <1>0, <1>2, <2>4 DEF ReplaceTarget, CallState
  <2>5. CASE LoadPersisted(s)
    BY <1>0, <1>2, <2>5 DEF LoadPersisted, EndCall
  <2>6. CASE CallFails(s)
    BY <1>0, <1>2, <2>6 DEF CallFails, EndCall
  <2> QED BY <1>6, <2>1, <2>2, <2>3, <2>4, <2>5, <2>6 DEF CallStep
<1>7. ASSUME NEW s \in Sessions, RestartSession(s)
      PROVE  TargetStaysFree'
  BY <1>0, <1>2, <1>7 DEF RestartSession, EndCall
<1>8. ASSUME NEW s \in Sessions, NEW a \in Authorizations,
             Authorize(s, a) \/ AuthorizeChanged(s, a) \/ Recover(s, a)
      PROVE  TargetStaysFree'
  BY <1>1, <1>8 DEF Authorize, AuthorizeChanged, Recover, execVars
<1>9. ASSUME NEW s \in Sessions, NEW a \in Authorizations, NEW plan \in Plans,
             NEW c \in Capabilities, Execute(s, a, plan, c)
      PROVE  TargetStaysFree'
  <2>1. [IdleCall EXCEPT !.at = "lookup", !.auth = a].at = "lookup"
    BY DEF IdleCall
  <2> QED BY <1>0, <1>2, <1>9, <2>1 DEF Execute
<1>10. ASSUME NEW s \in Sessions, NEW a \in Authorizations, NEW plan \in Plans,
              NEW c \in Capabilities, ExecuteMismatched(s, a, plan, c)
       PROVE  TargetStaysFree'
  BY <1>1, <1>10 DEF ExecuteMismatched, execVars
<1>11. CASE UNCHANGED sessionVars
  BY <1>1, <1>11 DEF sessionVars, execVars
<1> QED BY <1>3, <1>4, <1>5, <1>6, <1>7, <1>8, <1>9, <1>10, <1>11 DEF SessionNext

\* A single process never overwrites persisted evidence, however often its
\* caller retries and whatever happens to the file.
THEOREM OneProcessWritesOnce ==
    (\A s, q \in Sessions : s = q) => (SessionSpec => EvidenceWrittenOnce)
<1>1. SessionInit => TargetStaysFree
  BY DEF SessionInit, TargetStaysFree, IdleCall
<1>2. ASSUME \A s, q \in Sessions : s = q
      PROVE  SessionTypeInv /\ TargetStaysFree /\ [SessionNext]_sessionVars => TargetStaysFree'
  BY <1>2, TargetInductive
<1>3. TargetStaysFree =>
        \A s \in Sessions :
          call[s].at = "replace" /\ call'[s].at = "load" => files[call[s].auth] = None
  BY DEF TargetStaysFree
<1>4. ASSUME \A s, q \in Sessions : s = q
      PROVE  SessionSpec => EvidenceWrittenOnce
  BY <1>1, <1>2, <1>3, <1>4, SessionTypeCorrect, PTL
     DEF SessionSpec, SessionTypeInv, EvidenceWrittenOnce
<1> QED BY <1>4

\* What runs grows by an execution only, whose target is free, and what is in
\* the evidence directory is replaced or damaged and never goes away.
EvidenceStays ==
    /\ \A s \in Sessions :
         Len(runs'[s]) > Len(runs[s]) => files[call[s].auth] = None
    /\ \A a \in Authorizations : files[a] # None => files'[a] # None

\* Every step of a session or its environment leaves persisted evidence so.
LEMMA EvidenceStaysInStep ==
    SessionTypeInv /\ TargetStaysFree /\ [SessionNext]_sessionVars => EvidenceStays
<1> SUFFICES ASSUME SessionTypeInv, TargetStaysFree, [SessionNext]_sessionVars
             PROVE  EvidenceStays
  OBVIOUS
<1>0. /\ runs \in [Sessions -> Seq(Authorizations)]
      /\ files \in [Authorizations -> Evidence \cup {None, Damaged}]
      /\ CallsAreAuthorized
      /\ \A s \in Sessions : Len(runs[s]) \in Nat
      /\ Len(<<>>) = 0
  <2>1. runs \in [Sessions -> Seq(Authorizations)]
    BY DEF SessionTypeInv, SessionTypeOK
  <2>2. \A s \in Sessions : Len(runs[s]) \in Nat
    BY <2>1
  <2>3. Len(<<>>) = 0
    OBVIOUS
  <2> QED BY <2>1, <2>2, <2>3 DEF SessionTypeInv, SessionTypeOK
<1>1. ASSUME UNCHANGED files,
             \A q \in Sessions : runs'[q] = runs[q] \/ runs'[q] = <<>>
      PROVE  EvidenceStays
  BY <1>0, <1>1 DEF EvidenceStays
<1>2. CASE EditRepo \/ UNCHANGED sessionVars
  BY <1>1, <1>2 DEF EditRepo, sessionVars, execVars
<1>3. ASSUME NEW a \in Authorizations, DamageEvidence(a)
      PROVE  EvidenceStays
  <2>1. PICK content : content # None /\ files' = [files EXCEPT ![a] = content]
    BY <1>3 DEF DamageEvidence
  <2>2. runs' = runs
    BY <1>3 DEF DamageEvidence
  <2> QED BY <1>0, <2>1, <2>2 DEF EvidenceStays
<1>4. ASSUME NEW s \in Sessions, AnswerSetup(s) \/ AnswerFinal(s) \/ Capture(s)
      PROVE  EvidenceStays
  BY <1>0, <1>1, <1>4 DEF AnswerSetup, AnswerFinal, Capture, execVars
<1>5. ASSUME NEW s \in Sessions, CallStep(s)
      PROVE  EvidenceStays
  <2>1. CASE ExecutePlan(s)
    <3>1. /\ files[call[s].auth] = None /\ files' = files
          /\ \A q \in Sessions \ {s} : runs'[q] = runs[q]
      BY <1>0, <2>1 DEF ExecutePlan, TargetStaysFree
    <3> QED BY <1>0, <3>1 DEF EvidenceStays
  <2>2. CASE ReplaceTarget(s)
    <3>1. /\ files[call[s].auth] = None /\ runs' = runs
          /\ files' = [files EXCEPT ![call[s].auth] = temp[s]]
      BY <2>2 DEF ReplaceTarget, TargetStaysFree
    <3> QED BY <1>0, <3>1 DEF EvidenceStays
  <2>3. CASE LookupEvidence(s) \/ WriteTemporary(s) \/ LoadPersisted(s) \/ CallFails(s)
    BY <1>1, <2>3 DEF LookupEvidence, WriteTemporary, LoadPersisted, CallFails
  <2> QED BY <1>5, <2>1, <2>2, <2>3 DEF CallStep
<1>6. ASSUME NEW s \in Sessions, RestartSession(s)
      PROVE  EvidenceStays
  BY <1>0, <1>1, <1>6 DEF RestartSession
<1>7. ASSUME NEW s \in Sessions, NEW a \in Authorizations,
             Authorize(s, a) \/ AuthorizeChanged(s, a) \/ Recover(s, a)
      PROVE  EvidenceStays
  BY <1>1, <1>7 DEF Authorize, AuthorizeChanged, Recover, execVars
<1>8. ASSUME NEW s \in Sessions, NEW a \in Authorizations, NEW plan \in Plans,
             NEW c \in Capabilities,
             Execute(s, a, plan, c) \/ ExecuteMismatched(s, a, plan, c)
      PROVE  EvidenceStays
  BY <1>1, <1>8 DEF Execute, ExecuteMismatched, execVars
<1> QED BY <1>2, <1>3, <1>4, <1>5, <1>6, <1>7, <1>8 DEF SessionNext

\* In a single process persisted evidence is the end of executing under its
\* authorization: no retry, crash, restart, new confirmation or damage to the
\* file makes the commands run again.
THEOREM PersistedEndsExecution ==
    (\A s, q \in Sessions : s = q) => (SessionSpec => PersistedEvidenceEndsExecution)
<1>1. SessionInit => TargetStaysFree
  BY DEF SessionInit, TargetStaysFree, IdleCall
<1>2. ASSUME \A s, q \in Sessions : s = q
      PROVE  SessionTypeInv /\ TargetStaysFree /\ [SessionNext]_sessionVars => TargetStaysFree'
  BY <1>2, TargetInductive
<1>3. ASSUME \A s, q \in Sessions : s = q
      PROVE  SessionSpec => PersistedEvidenceEndsExecution
  BY <1>1, <1>2, <1>3, EvidenceStaysInStep, SessionTypeCorrect, PTL
     DEF SessionSpec, SessionTypeInv, EvidenceStays, PersistedEvidenceEndsExecution
<1> QED BY <1>3

(***************************************************************************)
(* The orchestration implements the consent a person gives.                *)
(***************************************************************************)

PermitOf(s) ==
    IF setup[s].phase = "ready_to_review" THEN setup[s].binding ELSE None

ExecutedOf(s) ==
    IF setup[s].phase = "ready_to_review" THEN runs[s] ELSE <<>>

permits == [s \in Sessions |-> PermitOf(s)]
executions == [s \in Sessions |-> ExecutedOf(s)]

\* What the refinement needs to know of a state.
ConsentedInv ==
    /\ SessionTypeInv /\ AttemptsCount /\ CallIsBound

\* A step that keeps every permit, and every execution under one, is not seen.
LEMMA ConsentUndisturbed ==
    ASSUME \A s \in Sessions : PermitOf(s)' = PermitOf(s) /\ ExecutedOf(s)' = ExecutedOf(s)
    PROVE  UNCHANGED Consent!vars
<1>1. permits' = permits /\ executions' = executions
  BY DEF permits, executions
<1> QED BY <1>1 DEF permits, executions, PermitOf, ExecutedOf, Consent!vars

\* A setup that is not ready before a step of one session, nor after it, is
\* not seen, whatever the answer.
LEMMA UnreadyIsUnseen ==
    ASSUME NEW s \in Sessions,
           setup[s].phase # "ready_to_review", setup'[s].phase # "ready_to_review",
           \A q \in Sessions \ {s} : setup'[q] = setup[q],
           runs' = runs
    PROVE  UNCHANGED Consent!vars
BY ConsentUndisturbed DEF PermitOf, ExecutedOf

\* A session that is no longer ready has lost its permit.
LEMMA UnreadyIsRevoked ==
    ASSUME NEW s \in Sessions,
           setup'[s].phase # "ready_to_review",
           \A q \in Sessions \ {s} : setup'[q] = setup[q] /\ runs'[q] = runs[q]
    PROVE  Consent!Revoke(s)
<1>1. permits' = [permits EXCEPT ![s] = None]
  BY DEF permits, PermitOf
<1>2. executions' = [executions EXCEPT ![s] = <<>>]
  BY DEF executions, ExecutedOf
<1> QED BY <1>1, <1>2 DEF permits, executions, PermitOf, ExecutedOf, Consent!Revoke

\* A final confirmation grants a permit for the authorization that is bound.
LEMMA FinalGrants ==
    ASSUME ConsentedInv, NEW s \in Sessions, AnswerFinal(s)
    PROVE  [Consent!Next]_(Consent!vars)
<1>1. /\ setup \in [Sessions -> SetupState]
      /\ runs \in [Sessions -> Seq(Authorizations)]
      /\ setup[s].phase = "final_confirmation"
      /\ setup' = [setup EXCEPT ![s] = [setup[s] EXCEPT !.phase = "ready_to_review"]]
      /\ runs' = [runs EXCEPT ![s] = <<>>]
  BY DEF ConsentedInv, SessionTypeInv, SessionTypeOK, TypeOK, AnswerFinal, SubmitFinal
<1>2. /\ setup'[s].phase = "ready_to_review"
      /\ setup'[s].binding = setup[s].binding
      /\ setup[s].binding \in Authorizations \cup {None}
      /\ \A q \in Sessions \ {s} : setup'[q] = setup[q] /\ runs'[q] = runs[q]
      /\ runs'[s] = <<>>
  BY <1>1 DEF SetupState
<1>3. /\ permits[s] = None
      /\ permits' = [permits EXCEPT ![s] = setup[s].binding]
      /\ executions' = executions
  BY <1>1, <1>2 DEF permits, executions, PermitOf, ExecutedOf
<1>4. CASE setup[s].binding = None
  <2>1. permits' = permits
    BY <1>3, <1>4 DEF permits
  <2> QED BY <1>3, <2>1 DEF permits, executions, PermitOf, ExecutedOf, Consent!vars
<1>5. CASE setup[s].binding \in Authorizations
  <2>1. PICK a \in Authorizations : a = setup[s].binding
    BY <1>5
  <2>2. Consent!Grant(s, a)
    BY <1>3, <2>1 DEF permits, executions, PermitOf, ExecutedOf, Consent!Grant
  <2> QED BY <2>2 DEF Consent!Next
<1> QED BY <1>2, <1>4, <1>5

\* The commands of a call use the permit for exactly its authorization.
LEMMA ExecutionLaunches ==
    ASSUME ConsentedInv, NEW s \in Sessions, ExecutePlan(s)
    PROVE  [Consent!Next]_(Consent!vars)
<1>1. /\ setup' = setup
      /\ setup[s].phase = "ready_to_review"
      /\ setup[s].binding = call[s].auth
      /\ call[s].auth \in Authorizations
      /\ runs[s] = <<>>
      /\ runs \in [Sessions -> Seq(Authorizations)]
  BY DEF ConsentedInv, SessionTypeInv, SessionTypeOK, CallsAreAuthorized,
         AttemptsCount, CallIsBound, ExecutePlan, vars
<1>2. CASE repo = call[s].auth.plan.changeset
  <2>1. runs' = [runs EXCEPT ![s] = Append(<<>>, call[s].auth)]
    BY <1>1, <1>2 DEF ExecutePlan
  <2>2. Append(<<>>, call[s].auth) = <<call[s].auth>>
    BY <1>1
  <2>3. /\ permits' = permits
        /\ permits[s] = call[s].auth /\ permits[s] # None
        /\ executions[s] = <<>>
        /\ executions' = [executions EXCEPT ![s] = <<permits[s]>>]
    BY <1>1, <2>1, <2>2, SetupConstants DEF permits, executions, PermitOf, ExecutedOf
  <2>4. Consent!Launch(s)
    BY <2>3 DEF permits, executions, PermitOf, ExecutedOf, Consent!Launch
  <2> QED BY <2>4 DEF Consent!Next
<1>3. CASE repo # call[s].auth.plan.changeset
  <2>1. runs' = runs
    BY <1>1, <1>3 DEF ExecutePlan
  <2> QED BY <1>1, <2>1, ConsentUndisturbed DEF PermitOf, ExecutedOf
<1> QED BY <1>2, <1>3

\* Every step grants, launches, revokes, or is not seen.
LEMMA ConsentStep ==
    ConsentedInv /\ [SessionNext]_sessionVars => [Consent!Next]_(Consent!vars)
<1> SUFFICES ASSUME ConsentedInv, [SessionNext]_sessionVars
             PROVE  [Consent!Next]_(Consent!vars)
  OBVIOUS
<1>0. /\ TypeOK
      /\ setup \in [Sessions -> SetupState]
      /\ runs \in [Sessions -> Seq(Authorizations)]
  BY DEF ConsentedInv, SessionTypeInv, SessionTypeOK, TypeOK
<1>1. ASSUME setup' = setup, runs' = runs
      PROVE  UNCHANGED Consent!vars
  BY <1>1, ConsentUndisturbed DEF PermitOf, ExecutedOf
<1>2. CASE EditRepo
  BY <1>1, <1>2 DEF EditRepo, ChangeRepo, setupVars, execVars
<1>3. ASSUME NEW a \in Authorizations, DamageEvidence(a)
      PROVE  UNCHANGED Consent!vars
  BY <1>1, <1>3 DEF DamageEvidence, vars
<1>4. ASSUME NEW s \in Sessions, AnswerSetup(s)
      PROVE  UNCHANGED Consent!vars
  <2>1. \A q \in Sessions \ {s} : setup'[q] = setup[q]
    BY <1>0, <1>4, AnswersAreLocal
  <2>2. setup[s].phase # "ready_to_review" /\ setup'[s].phase # "ready_to_review"
    <3>1. ASSUME NEW c \in ScopeChoices, SubmitScope(s, c, TRUE)
          PROVE  setup[s].phase # "ready_to_review" /\ setup'[s].phase # "ready_to_review"
      BY <1>0, <3>1 DEF SubmitScope, SetupState
    <3>2. CASE BindScope(s)
      <4> DEFINE id == IF ScopeResolves(repo) THEN ResolvedScopeIdentity(repo) ELSE None
      <4>1. setup' = [setup EXCEPT ![s] =
                        [setup[s] EXCEPT !.scopeBound = TRUE, !.confirmed = id]]
        BY <3>2 DEF BindScope
      <4>2. setup[s].phase = "requirements"
        BY <3>2 DEF BindScope
      <4> HIDE DEF id
      <4> QED BY <1>0, <4>1, <4>2 DEF SetupState
    <3>3. CASE ConfigureRequirements(s)
      BY <1>0, <3>3 DEF ConfigureRequirements, SetupState
    <3>4. CASE SubmitRequirement(s, "accepted-discovered-source")
      BY <1>0, <3>4 DEF SubmitRequirement, SetupState
    <3>5. ASSUME NEW c \in VerificationChoices, SubmitVerification(s, c, TRUE)
          PROVE  setup[s].phase # "ready_to_review" /\ setup'[s].phase # "ready_to_review"
      BY <1>0, <3>5 DEF SubmitVerification, SetupState
    <3>6. CASE Cancel(s)
      BY <1>0, <3>6 DEF Cancel, SetupState
    <3> QED BY <1>4, <3>1, <3>2, <3>3, <3>4, <3>5, <3>6 DEF AnswerSetup
  <2>3. runs' = runs
    BY <1>4 DEF AnswerSetup, execVars
  <2> QED BY <2>1, <2>2, <2>3, UnreadyIsUnseen
<1>5. ASSUME NEW s \in Sessions, AnswerFinal(s)
      PROVE  [Consent!Next]_(Consent!vars)
  BY <1>5, FinalGrants
<1>6. ASSUME NEW s \in Sessions, Capture(s)
      PROVE  UNCHANGED Consent!vars
  BY <1>1, <1>6 DEF Capture, vars
<1>7. ASSUME NEW s \in Sessions, CallStep(s)
      PROVE  [Consent!Next]_(Consent!vars)
  <2>1. CASE ExecutePlan(s)
    BY <2>1, ExecutionLaunches
  <2>2. CASE ~ExecutePlan(s)
    BY <1>1, <1>7, <2>2 DEF CallStep, LookupEvidence, WriteTemporary, ReplaceTarget,
                            LoadPersisted, CallFails, vars
  <2> QED BY <2>1, <2>2
<1>8. ASSUME NEW s \in Sessions, RestartSession(s)
      PROVE  Consent!Revoke(s)
  <2>1. setup'[s].phase # "ready_to_review"
    BY <1>0, <1>8 DEF RestartSession, Restart, NewSetup
  <2>2. \A q \in Sessions \ {s} : setup'[q] = setup[q] /\ runs'[q] = runs[q]
    BY <1>0, <1>8 DEF RestartSession, Restart
  <2> QED BY <2>1, <2>2, UnreadyIsRevoked
<1>9. ASSUME NEW s \in Sessions, NEW a \in Authorizations, Authorize(s, a)
      PROVE  UNCHANGED Consent!vars
  <2>1. CASE BindAuthorization(s, a)
    <3>1. setup[s].phase # "ready_to_review" /\ setup'[s].phase # "ready_to_review"
      BY <1>0, <2>1 DEF BindAuthorization, SetupState
    <3>2. \A q \in Sessions \ {s} : setup'[q] = setup[q]
      BY <1>0, <2>1, AnswersAreLocal
    <3> QED BY <1>9, <3>1, <3>2, UnreadyIsUnseen DEF Authorize
  <2>2. CASE UNCHANGED vars
    BY <1>1, <1>9, <2>2 DEF Authorize, vars
  <2> QED BY <1>9, <2>1, <2>2 DEF Authorize
<1>10. ASSUME NEW s \in Sessions, RequireReauthorization(s), UNCHANGED execVars
       PROVE  Consent!Revoke(s)
  <2>1. setup'[s].phase # "ready_to_review"
    BY <1>0, <1>10 DEF RequireReauthorization, SetupState
  <2>2. \A q \in Sessions \ {s} : setup'[q] = setup[q] /\ runs'[q] = runs[q]
    BY <1>0, <1>10, AnswersAreLocal DEF execVars
  <2> QED BY <2>1, <2>2, UnreadyIsRevoked
<1>11. ASSUME NEW s \in Sessions, NEW a \in Authorizations, Recover(s, a)
       PROVE  UNCHANGED Consent!vars
  BY <1>1, <1>11 DEF Recover, vars
<1>12. ASSUME NEW s \in Sessions, NEW a \in Authorizations, NEW plan \in Plans,
              NEW c \in Capabilities, Execute(s, a, plan, c)
       PROVE  UNCHANGED Consent!vars
  BY <1>1, <1>12 DEF Execute, vars
<1>13. CASE UNCHANGED sessionVars
  BY <1>1, <1>13 DEF sessionVars, vars, execVars
<1> QED
  BY <1>2, <1>3, <1>4, <1>5, <1>6, <1>7, <1>8, <1>9, <1>10, <1>11, <1>12, <1>13
     DEF SessionNext, AuthorizeChanged, ExecuteMismatched, Consent!Next

\* With a caller that executes once, the whole orchestration (phases, files,
\* failures, crashes, any number of sessions) does no more than a person who
\* grants a permit, uses it once or revokes it.
THEOREM SessionImplementsConsent == ~Retries => (SessionSpec => ImplementsConsent)
<1>1. SessionInit => Consent!Init
  BY DEF SessionInit, SetupInit, NewSetup, Consent!Init
<1>2. SessionInit => AttemptsCount /\ CallIsBound
  BY DEF SessionInit, AttemptsCount, CallIsBound, IdleCall
<1>3. ASSUME ~Retries
      PROVE  SessionTypeInv /\ AttemptsCount /\ [SessionNext]_sessionVars => AttemptsCount'
  BY <1>3, AttemptInductive
<1>4. ASSUME ~Retries
      PROVE  SessionSpec => Consent!Spec
  BY <1>1, <1>2, <1>3, <1>4, CallBoundInductive, ConsentStep, SessionTypeCorrect, PTL
     DEF SessionSpec, SessionTypeInv, ConsentedInv, Consent!Spec
<1> QED BY <1>4 DEF ImplementsConsent

=============================================================================
