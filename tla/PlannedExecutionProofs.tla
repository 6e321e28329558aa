----------------------- MODULE PlannedExecutionProofs -----------------------
(***************************************************************************)
(* What is planned and what is recorded of a command, for every set of     *)
(* declarations and proposals, plan, host, set of capabilities and number  *)
(* of commands.                                                            *)
(***************************************************************************)
EXTENDS PlannedExecution, SequenceTheorems, TLAPS

-----------------------------------------------------------------------------
(* One command.                                                            *)

\* What a decision says of the request and the host it was derived from.
LEMMA DecideCases ==
    ASSUME NEW request, NEW h
    PROVE  LET d == Decide(request, h)
               m == Missing(request, h)
           IN  /\ d.kind \in {"executable", "requires_approval", "cannot_safely_execute"}
               /\ d.kind = "executable" <=>
                    /\ request.cwd = "none" /\ request.snapshot = "none"
                    /\ h.invariants /\ m \subseteq h.waivable /\ m \subseteq h.approved
               /\ d.kind = "requires_approval" <=>
                    /\ request.cwd = "none" /\ request.snapshot = "none"
                    /\ h.invariants /\ m \subseteq h.waivable /\ ~(m \subseteq h.approved)
               /\ d.kind # "executable" => Failure(d.failure)
BY DEF Decide, Blocked, Decision, Failure

\* Every result that execute_request can return is that of the request, but
\* for a failure of its working directory, and its decision follows from it.
LEMMA OutcomeShape ==
    ASSUME NEW check, NEW manifest, NEW h, NEW directory,
           NEW r \in Outcomes(Request(check, manifest, Required), h, directory)
    PROVE  /\ r.host = h
           /\ r.decision = Decide(r.request, h)
           /\ r.request.required = Required
           /\ r.request.snapshot = Request(check, manifest, Required).snapshot
           /\ r.request.id = check.id /\ r.request.command = check.command
           /\ r.request.level = check.level /\ r.request.profile = check.profile
           /\ \/ /\ r.decision.kind # "executable"
                 /\ r.status = "not_run" /\ r.kind = r.decision.failure
              \/ /\ r.decision.kind = "executable"
                 /\ \/ r.status = "passed" /\ r.kind = "none"
                    \/ r.status = "failed" /\ r.kind = "unclassified"
                    \/ r.status = "timed_out" /\ r.kind = "infrastructure"
                    \/ /\ r.status = "errored"
                       /\ r.kind \in {"infrastructure", "permission", "configuration"}
<1> DEFINE request == Request(check, manifest, Required)
           decision == Decide(request, h)
           failure == IF directory = "missing" THEN "configuration" ELSE "permission"
           blocked == [request EXCEPT !.cwd = failure]
<1>1. /\ request.required = Required /\ request.id = check.id
      /\ request.command = check.command /\ request.level = check.level
      /\ request.profile = check.profile
  BY DEF Request
<1>2. /\ blocked.required = Required /\ blocked.id = check.id
      /\ blocked.command = check.command /\ blocked.level = check.level
      /\ blocked.profile = check.profile /\ blocked.snapshot = request.snapshot
      /\ blocked.cwd = failure
  BY DEF Request
<1>3. CASE decision.kind # "executable"
  BY <1>1, <1>3 DEF Outcomes, NotRunOutcome, Outcome
<1>4. CASE decision.kind = "executable" /\ directory # "there"
  <2>1. r = NotRunOutcome(blocked, h, Decide(blocked, h))
    BY <1>4 DEF Outcomes
  <2>2. Decide(blocked, h).kind = "cannot_safely_execute"
    BY <1>2 DEF Decide, Blocked, Decision, Failure
  <2> QED BY <1>2, <2>1, <2>2 DEF NotRunOutcome, Outcome
<1>5. CASE decision.kind = "executable" /\ directory = "there"
  <2>1. PICK p \in { <<"passed", "none">>, <<"failed", "unclassified">>,
                     <<"timed_out", "infrastructure">>,
                     <<"errored", "infrastructure">>, <<"errored", "permission">>,
                     <<"errored", "configuration">> } :
           r = Outcome(request, h, decision, p[1], p[2])
    BY <1>5 DEF Outcomes
  <2> QED BY <1>1, <1>5, <2>1 DEF Outcome
<1> QED BY <1>3, <1>4, <1>5

\* Approvals are asked for and used honestly, on any host.
LEMMA OutcomeIsHonest ==
    ASSUME NEW check, NEW manifest, NEW h \in Hosts, NEW directory,
           NEW r \in Outcomes(Request(check, manifest, Required), h, directory)
    PROVE  HonestlyDecided(r)
<1> DEFINE approving == [h EXCEPT !.approved = h.waivable]
<1>1. /\ approving.invariants = h.invariants /\ approving.available = h.available
      /\ approving.waivable = h.waivable /\ approving.approved = h.waivable
  BY HostRecords
<1>2. Missing(r.request, approving) = Missing(r.request, h)
  BY <1>1 DEF Missing
<1>3. r.host = h /\ r.decision = Decide(r.request, h)
  BY OutcomeShape
<1>4. r.decision.kind = "requires_approval" => Decide(r.request, approving).kind = "executable"
  BY <1>1, <1>2, <1>3 DEF Decide, Blocked, Decision
<1>5. r.decision.kind = "cannot_safely_execute" =>
        Decide(r.request, approving).kind # "executable"
  BY <1>1, <1>2, <1>3 DEF Decide, Blocked, Decision
<1>6. r.decision.kind = "executable" =>
        h.invariants /\ r.request.required \subseteq h.available \cup h.approved
  BY <1>3, DecideCases DEF Missing
<1> QED BY <1>3, <1>4, <1>5, <1>6 DEF HonestlyDecided

\* The manifest of a command is complete or says why it is not.
LEMMA ManifestShape ==
    ASSUME NEW check, NEW manifest \in Manifests(check)
    PROVE  /\ manifest.profile = check.profile
           /\ \/ manifest.complete = TRUE /\ manifest.failure = "none"
              \/ /\ manifest.complete = FALSE
                 /\ manifest.failure \in {"capability", "configuration", "permission"}
BY DEF Manifests, Manifest, DirectGitFailure

\* Every record of a command passes every validator.
LEMMA OutcomeIsRecordable ==
    ASSUME NEW check, NEW manifest \in Manifests(check), NEW h, NEW directory,
           NEW r \in Outcomes(Request(check, manifest, Required), h, directory)
    PROVE  RecordIsValid([manifest |-> manifest, outcome |-> r], check)
<1> DEFINE request == Request(check, manifest, Required)
<1>1. request.snapshot = manifest.failure
  BY ManifestShape DEF Request
<1>2. ManifestIsValid(manifest)
  BY ManifestShape DEF ManifestIsValid
<1>3. BindingIsValid(manifest, r)
  <2>1. r.request.profile = check.profile /\ r.request.snapshot = request.snapshot
    BY OutcomeShape
  <2>2. manifest.profile = check.profile
    BY ManifestShape
  <2>3. (manifest.complete \in BOOLEAN) /\ (manifest.complete <=> manifest.failure = "none")
    BY ManifestShape
  <2> QED BY <1>1, <2>1, <2>2, <2>3 DEF BindingIsValid
<1>4. ResultIsValid(r)
  BY OutcomeShape, DecideCases DEF ResultIsValid, Failure
<1> QED BY <1>2, <1>3, <1>4, OutcomeShape DEF RecordIsValid

-----------------------------------------------------------------------------
(* A plan's commands, one after the other.                                 *)

\* Results are only recorded once a host is authorized for the plan, which
\* stays as it is from then on.
Recording ==
    /\ phase \in {"planning", "rejected", "planned", "executing"}
    /\ phase # "executing" => results = <<>>
    /\ phase = "executing" => host \in Hosts
    /\ results \in Seq({results[i] : i \in DOMAIN results})

RecordInv == Recording /\ ApprovalIsHonest /\ EvidenceIsBuildable

\* Nothing is recorded to begin with.
LEMMA RecordInitially == PlanningInit => RecordInv
BY DEF PlanningInit, RecordInv, Recording, ApprovalIsHonest, EvidenceIsBuildable

\* The commands of a plan only change with it.
LEMMA CommandsFollowPlan == planned' = planned => Commands' = Commands
BY DEF Commands

\* Everything but the execution of a command leaves the records alone.
LEMMA RecordsUndisturbed ==
    ASSUME RecordInv, results' = results,
           phase' \in {"planning", "rejected", "planned", "executing"},
           phase = "executing" => phase' = "executing" /\ planned' = planned /\ host' = host,
           phase' = "executing" => host' \in Hosts
    PROVE  RecordInv'
<1>1. Recording'
  BY DEF RecordInv, Recording
<1>2. ApprovalIsHonest'
  BY DEF RecordInv, ApprovalIsHonest
<1>3. EvidenceIsBuildable'
  <2>1. CASE phase = "executing"
    BY <2>1, CommandsFollowPlan DEF RecordInv, EvidenceIsBuildable
  <2>2. CASE phase # "executing"
    BY <2>2 DEF RecordInv, Recording, EvidenceIsBuildable
  <2> QED BY <2>1, <2>2
<1> QED BY <1>1, <1>2, <1>3 DEF RecordInv

\* The execution of a command adds one valid record, that of the next command.
LEMMA ExecutionRecords == RecordInv /\ ExecuteNext => RecordInv'
<1> SUFFICES ASSUME RecordInv, ExecuteNext
             PROVE  RecordInv'
  OBVIOUS
<1> DEFINE n == Len(results) + 1
           check == Commands[n]
           Recorded == {results[i] : i \in DOMAIN results}
<1>1. PICK manifest \in Manifests(check), directory \in {"there", "missing", "unsafe"} :
        \E r \in Outcomes(Request(check, manifest, Required), host, directory) :
          results' = Append(results, [manifest |-> manifest, outcome |-> r])
  BY DEF ExecuteNext
<1>2. PICK r \in Outcomes(Request(check, manifest, Required), host, directory) :
        results' = Append(results, [manifest |-> manifest, outcome |-> r])
  BY <1>1
<1> DEFINE record == [manifest |-> manifest, outcome |-> r]
<1>3. /\ phase = "executing" /\ phase' = "executing"
      /\ planned' = planned /\ host' = host /\ host \in Hosts
  BY DEF ExecuteNext, RecordInv, Recording
<1>4. results \in Seq(Recorded \cup {record})
  BY DEF RecordInv, Recording
<1>5. /\ DOMAIN results' = 1 .. n /\ Len(results') = n
      /\ \A i \in DOMAIN results : results'[i] = results[i]
      /\ results'[n] = record
      /\ DOMAIN results = 1 .. n - 1 /\ n \in Nat \ {0}
  BY <1>2, <1>4
<1>6. results' \in Seq({results'[i] : i \in DOMAIN results'})
  <2>1. results' \in Seq(Recorded \cup {record})
    BY <1>2, <1>4
  <2>2. Recorded \cup {record} = {results'[i] : i \in DOMAIN results'}
    BY <1>5
  <2> QED BY <2>1, <2>2
<1>7. HonestlyDecided(record.outcome)
  BY <1>3, OutcomeIsHonest
<1>8. RecordIsValid(record, check)
  BY OutcomeIsRecordable
<1>9. ApprovalIsHonest'
  BY <1>5, <1>7 DEF RecordInv, ApprovalIsHonest
<1>10. EvidenceIsBuildable'
  <2>1. Commands' = Commands
    BY <1>3, CommandsFollowPlan
  <2>2. \A i \in 1 .. n - 1 : RecordIsValid(results'[i], Commands[i])
    BY <1>5 DEF RecordInv, EvidenceIsBuildable
  <2> QED BY <1>5, <1>8, <2>1, <2>2 DEF EvidenceIsBuildable
<1> QED BY <1>3, <1>6, <1>9, <1>10 DEF RecordInv, Recording

\* What is recorded stays valid in every step.
LEMMA RecordInductive == RecordInv /\ [PlanningNext]_planningVars => RecordInv'
<1> SUFFICES ASSUME RecordInv, [PlanningNext]_planningVars
             PROVE  RecordInv'
  OBVIOUS
<1> USE DEF RecordInv, Recording
<1>1. CASE EditSource
  BY <1>1, RecordsUndisturbed DEF EditSource
<1>2. CASE Capture
  BY <1>2, RecordsUndisturbed DEF Capture
<1>3. CASE Discover
  BY <1>3, RecordsUndisturbed DEF Discover
<1>4. CASE Build
  BY <1>4, RecordsUndisturbed DEF Build
<1>5. CASE Authorize
  BY <1>5, RecordsUndisturbed DEF Authorize
<1>6. CASE ExecuteNext
  BY <1>6, ExecutionRecords
<1>7. CASE \E input \in PlannerInputs : Propose(input)
  BY <1>7, RecordsUndisturbed DEF Propose
<1>8. CASE UNCHANGED planningVars
  BY <1>8, RecordsUndisturbed DEF planningVars
<1> QED BY <1>1, <1>2, <1>3, <1>4, <1>5, <1>6, <1>7, <1>8 DEF PlanningNext

\* For every host and set of capabilities, a person is asked exactly for what
\* approvals can give, and nothing runs that an approval is missing for.
THEOREM ApprovalsAreHonest == PlanningSpec => []ApprovalIsHonest
<1>1. RecordInv => ApprovalIsHonest
  BY DEF RecordInv
<1> QED BY RecordInitially, RecordInductive, <1>1, PTL DEF PlanningSpec

\* For every plan and number of commands, all that is recorded passes the
\* validators, and the evidence can be built.
THEOREM RecordsPassValidation == PlanningSpec => []EvidenceIsBuildable
<1>1. RecordInv => EvidenceIsBuildable
  BY DEF RecordInv
<1> QED BY RecordInitially, RecordInductive, <1>1, PTL DEF PlanningSpec

-----------------------------------------------------------------------------
(* Candidates and their merge.                                             *)

Origins == {"trusted_policy", "repository_canonical", "model_proposed"}

\* What a candidate of a check is: its origin tells who asks for its profile.
IsCandidate(c) ==
    /\ c = [ id |-> c.id, level |-> c.level, kind |-> "command", origin |-> c.origin,
             command |-> c.command, profile |-> c.profile, provenance |-> c.provenance,
             source |-> c.source ]
    /\ c.origin \in Origins
    /\ c.profile \in Profiles
    /\ c.provenance = ProfileEntries(Channel(c.origin), c.profile)

\* Every input of a channel makes a candidate.
LEMMA InputsMakeCandidates ==
    ASSUME NEW origin \in Origins, NEW input \in Inputs, NEW source
    PROVE  /\ IsCandidate(Candidate(origin, input, source))
           /\ Candidate(origin, input, source).origin = origin
           /\ Candidate(origin, input, source).id = input.id
BY DEF IsCandidate, Candidate, Inputs

\* The candidates of the three channels, one after the other.
LEMMA CandidatesShape ==
    ASSUME NEW t \in Seq(Inputs), NEW r \in Seq(Inputs), NEW source, NEW p \in Seq(Inputs)
    PROVE  LET C == Candidates(t, r, source, p)
               n == Len(t) + Len(r) + Len(p)
           IN  /\ DOMAIN C = 1 .. n /\ n \in Nat
               /\ \A i \in 1 .. Len(t) : C[i] = Candidate("trusted_policy", t[i], "none")
               /\ \A i \in 1 .. Len(r) :
                    C[Len(t) + i] = Candidate("repository_canonical", r[i], source)
               /\ \A i \in 1 .. Len(p) :
                    C[Len(t) + Len(r) + i] = Candidate("model_proposed", p[i], "none")
               /\ \A k \in 1 .. n :
                    \/ k \in 1 .. Len(t)
                    \/ \E i \in 1 .. Len(r) : k = Len(t) + i
                    \/ \E i \in 1 .. Len(p) : k = Len(t) + Len(r) + i
<1> DEFINE a == [i \in 1 .. Len(t) |-> Candidate("trusted_policy", t[i], "none")]
           b == [i \in 1 .. Len(r) |-> Candidate("repository_canonical", r[i], source)]
           c == [i \in 1 .. Len(p) |-> Candidate("model_proposed", p[i], "none")]
           All == {a[i] : i \in 1 .. Len(t)} \cup {b[i] : i \in 1 .. Len(r)}
                    \cup {c[i] : i \in 1 .. Len(p)}
<1>1. /\ Len(t) \in Nat /\ Len(r) \in Nat /\ Len(p) \in Nat
      /\ a \in Seq(All) /\ b \in Seq(All) /\ c \in Seq(All)
      /\ Len(a) = Len(t) /\ Len(b) = Len(r) /\ Len(c) = Len(p)
  <2>1. Len(t) \in Nat /\ Len(r) \in Nat /\ Len(p) \in Nat
    BY LenProperties
  <2>2. a \in [1 .. Len(t) -> All] /\ b \in [1 .. Len(r) -> All] /\ c \in [1 .. Len(p) -> All]
    OBVIOUS
  <2> HIDE DEF a, b, c, All
  <2>3. ASSUME NEW n \in Nat, NEW f \in [1 .. n -> All]
        PROVE  f \in Seq(All) /\ Len(f) = n
    <3>1. f \in Seq(All)
      OBVIOUS
    <3>2. Len(f) \in Nat /\ 1 .. Len(f) = 1 .. n
      BY <3>1, LenProperties
    <3> QED BY <3>1, <3>2
  <2> QED BY <2>1, <2>2, <2>3
<1>2. /\ \A i \in 1 .. Len(t) : a[i] = Candidate("trusted_policy", t[i], "none")
      /\ \A i \in 1 .. Len(r) : b[i] = Candidate("repository_canonical", r[i], source)
      /\ \A i \in 1 .. Len(p) : c[i] = Candidate("model_proposed", p[i], "none")
  OBVIOUS
<1>3. Candidates(t, r, source, p) = (a \o b) \o c
  BY <1>1 DEF Candidates
<1> HIDE DEF a, b, c, All
<1> DEFINE ab == a \o b
           C == ab \o c
<1>4. /\ ab \in Seq(All) /\ Len(ab) = Len(a) + Len(b)
      /\ \A i \in 1 .. Len(a) + Len(b) :
           ab[i] = IF i <= Len(a) THEN a[i] ELSE b[i - Len(a)]
  BY <1>1, ConcatProperties
<1> HIDE DEF ab
<1>5. /\ C \in Seq(All) /\ Len(C) = Len(ab) + Len(c)
      /\ \A i \in 1 .. Len(ab) + Len(c) :
           C[i] = IF i <= Len(ab) THEN ab[i] ELSE c[i - Len(ab)]
  BY <1>1, <1>4, ConcatProperties
<1> HIDE DEF C
<1>6. DOMAIN C = 1 .. Len(t) + Len(r) + Len(p)
  BY <1>1, <1>4, <1>5, LenProperties
<1>7. /\ \A i \in 1 .. Len(t) : C[i] = a[i]
      /\ \A i \in 1 .. Len(r) : C[Len(t) + i] = b[i]
      /\ \A i \in 1 .. Len(p) : C[Len(t) + Len(r) + i] = c[i]
  <2>1. ASSUME NEW i \in 1 .. Len(t)
        PROVE  C[i] = a[i]
    <3>1. i \in 1 .. Len(a) + Len(b) /\ i <= Len(a) /\ i \in 1 .. Len(ab) + Len(c) /\ i <= Len(ab)
      BY <1>1, <1>4
    <3>2. ab[i] = a[i]
      BY <1>4, <3>1
    <3>3. C[i] = ab[i]
      BY <1>5, <3>1
    <3> QED BY <3>2, <3>3
  <2>2. ASSUME NEW i \in 1 .. Len(r)
        PROVE  C[Len(t) + i] = b[i]
    <3>1. PICK k \in Nat : k = Len(t) + i
      BY <1>1
    <3>2. Len(ab) = Len(t) + Len(r)
      BY <1>1, <1>4
    <3>3. k \in 1 .. Len(a) + Len(b) /\ ~(k <= Len(a)) /\ k - Len(a) = i
      BY <1>1, <3>1
    <3>4. ab[k] = b[i]
      BY <1>4, <3>3
    <3>5. k \in 1 .. Len(ab) + Len(c) /\ k <= Len(ab)
      BY <1>1, <3>1, <3>2
    <3>6. C[k] = ab[k]
      BY <1>5, <3>5
    <3> QED BY <3>1, <3>4, <3>6
  <2>3. ASSUME NEW i \in 1 .. Len(p)
        PROVE  C[Len(t) + Len(r) + i] = c[i]
    <3>1. PICK k \in Nat : k = Len(t) + Len(r) + i
      BY <1>1
    <3>2. Len(ab) = Len(t) + Len(r) /\ Len(c) = Len(p)
      BY <1>1, <1>4
    <3>3. k \in 1 .. Len(ab) + Len(c) /\ ~(k <= Len(ab)) /\ k - Len(ab) = i
      BY <1>1, <3>1, <3>2
    <3> QED BY <1>5, <3>1, <3>3
  <2> QED BY <2>1, <2>2, <2>3
<1>8. \A k \in 1 .. Len(t) + Len(r) + Len(p) :
        \/ k \in 1 .. Len(t)
        \/ \E i \in 1 .. Len(r) : k = Len(t) + i
        \/ \E i \in 1 .. Len(p) : k = Len(t) + Len(r) + i
  <2> TAKE k \in 1 .. Len(t) + Len(r) + Len(p)
  <2>1. CASE k > Len(t) /\ k <= Len(t) + Len(r)
    <3>1. k - Len(t) \in 1 .. Len(r) /\ k = Len(t) + (k - Len(t))
      BY <1>1, <2>1
    <3> QED BY <3>1
  <2>2. CASE k > Len(t) + Len(r)
    <3>1. /\ k - (Len(t) + Len(r)) \in 1 .. Len(p)
          /\ k = Len(t) + Len(r) + (k - (Len(t) + Len(r)))
      BY <1>1, <2>2
    <3> QED BY <3>1
  <2> QED BY <1>1, <2>1, <2>2
<1>9. Candidates(t, r, source, p) = C
  BY <1>3 DEF C, ab
<1> QED BY <1>1, <1>2, <1>6, <1>7, <1>8, <1>9

\* Each of them is a candidate, and says where its declaration is.
LEMMA CandidatesAreSo ==
    ASSUME NEW t \in Seq(Inputs), NEW r \in Seq(Inputs), NEW source, NEW p \in Seq(Inputs),
           NEW k \in DOMAIN Candidates(t, r, source, p)
    PROVE  LET c == Candidates(t, r, source, p)[k]
           IN  /\ IsCandidate(c)
               /\ c.origin = "repository_canonical" =>
                    \E i \in 1 .. Len(r) : c = Candidate("repository_canonical", r[i], source)
               /\ c.origin # "repository_canonical" => c.source = "none"
<1> DEFINE C == Candidates(t, r, source, p)
<1>0. /\ \A i \in 1 .. Len(t) : t[i] \in Inputs
      /\ \A i \in 1 .. Len(r) : r[i] \in Inputs
      /\ \A i \in 1 .. Len(p) : p[i] \in Inputs
  BY ElementOfSeq
<1> DEFINE Right(c) ==
      /\ IsCandidate(c)
      /\ c.origin = "repository_canonical" =>
           \E i \in 1 .. Len(r) : c = Candidate("repository_canonical", r[i], source)
      /\ c.origin # "repository_canonical" => c.source = "none"
<1>6. \A input \in Inputs : Right(Candidate("trusted_policy", input, "none"))
  BY InputsMakeCandidates DEF Origins, Candidate
<1>7. \A input \in Inputs : Right(Candidate("model_proposed", input, "none"))
  BY InputsMakeCandidates DEF Origins, Candidate
<1>8. \A i \in 1 .. Len(r) : Right(Candidate("repository_canonical", r[i], source))
  BY <1>0, InputsMakeCandidates DEF Origins
<1> HIDE DEF Right
<1>1. ASSUME k \in 1 .. Len(t)
      PROVE  Right(C[k])
  <2>1. C[k] = Candidate("trusted_policy", t[k], "none")
    BY <1>1, CandidatesShape
  <2> QED BY <1>0, <1>1, <1>6, <2>1
<1>2. ASSUME NEW i \in 1 .. Len(r), k = Len(t) + i
      PROVE  C[k] = Candidate("repository_canonical", r[i], source) /\ r[i] \in Inputs
  BY <1>0, <1>2, CandidatesShape
<1>3. ASSUME NEW i \in 1 .. Len(p), k = Len(t) + Len(r) + i
      PROVE  C[k] = Candidate("model_proposed", p[i], "none") /\ p[i] \in Inputs
  BY <1>0, <1>3, CandidatesShape
<1>4. ASSUME \E i \in 1 .. Len(r) : k = Len(t) + i
      PROVE  Right(C[k])
  BY <1>2, <1>4, <1>8
<1>5. ASSUME \E i \in 1 .. Len(p) : k = Len(t) + Len(r) + i
      PROVE  Right(C[k])
  BY <1>3, <1>5, <1>7
<1>9. k \in 1 .. Len(t) + Len(r) + Len(p)
  BY CandidatesShape
<1>10. Right(C[k])
  BY <1>1, <1>4, <1>5, <1>9, CandidatesShape
<1> QED BY <1>10 DEF Right

\* A proposal adds a candidate at the end.
LEMMA ProposalAddsOne ==
    ASSUME NEW t \in Seq(Inputs), NEW r \in Seq(Inputs), NEW source, NEW p \in Seq(Inputs),
           NEW input \in Inputs
    PROVE  LET C == Candidates(t, r, source, p)
               D == Candidates(t, r, source, Append(p, input))
               n == Len(t) + Len(r) + Len(p)
           IN  /\ n \in Nat /\ DOMAIN C = 1 .. n /\ DOMAIN D = 1 .. n + 1
               /\ \A k \in 1 .. n : D[k] = C[k]
               /\ D[n + 1] = Candidate("model_proposed", input, "none")
<1> DEFINE C == Candidates(t, r, source, p)
           q == Append(p, input)
           D == Candidates(t, r, source, q)
           n == Len(t) + Len(r) + Len(p)
<1>1. /\ q \in Seq(Inputs) /\ Len(q) = Len(p) + 1
      /\ \A i \in 1 .. Len(p) : q[i] = p[i]
      /\ q[Len(p) + 1] = input
      /\ Len(t) \in Nat /\ Len(r) \in Nat /\ Len(p) \in Nat
  BY AppendProperties, LenProperties
<1> HIDE DEF q
<1>2. DOMAIN C = 1 .. n /\ DOMAIN D = 1 .. n + 1 /\ n \in Nat
  <2>1. DOMAIN C = 1 .. n /\ n \in Nat
    BY CandidatesShape
  <2>2. DOMAIN D = 1 .. Len(t) + Len(r) + Len(q)
    <3>1. q \in Seq(Inputs)
      BY <1>1
    <3> QED BY <3>1, CandidatesShape
  <2>3. Len(t) + Len(r) + Len(q) = n + 1
    BY <1>1
  <2> QED BY <2>1, <2>2, <2>3
<1>6. q \in Seq(Inputs)
  BY <1>1
<1>5. \A i \in 1 .. Len(q) : D[Len(t) + Len(r) + i] = Candidate("model_proposed", q[i], "none")
  BY <1>6, CandidatesShape
<1>3. ASSUME NEW k \in 1 .. n
      PROVE  D[k] = C[k]
  <2>1. CASE k \in 1 .. Len(t)
    <3>1. C[k] = Candidate("trusted_policy", t[k], "none")
      BY <2>1, CandidatesShape
    <3>2. D[k] = Candidate("trusted_policy", t[k], "none")
      BY <1>6, <2>1, CandidatesShape
    <3> QED BY <3>1, <3>2
  <2>2. CASE \E i \in 1 .. Len(r) : k = Len(t) + i
    <3>1. PICK i \in 1 .. Len(r) : k = Len(t) + i
      BY <2>2
    <3>2. C[k] = Candidate("repository_canonical", r[i], source)
      BY <3>1, CandidatesShape
    <3>3. D[k] = Candidate("repository_canonical", r[i], source)
      BY <1>6, <3>1, CandidatesShape
    <3> QED BY <3>2, <3>3
  <2>3. CASE \E i \in 1 .. Len(p) : k = Len(t) + Len(r) + i
    <3>1. PICK i \in 1 .. Len(p) : k = Len(t) + Len(r) + i
      BY <2>3
    <3>2. i \in 1 .. Len(q)
      BY <1>1
    <3>3. D[k] = Candidate("model_proposed", q[i], "none")
      BY <1>5, <3>1, <3>2
    <3>4. C[k] = Candidate("model_proposed", p[i], "none")
      BY <3>1, CandidatesShape
    <3> QED BY <1>1, <3>3, <3>4
  <2> QED BY <2>1, <2>2, <2>3, CandidatesShape
<1>4. D[n + 1] = Candidate("model_proposed", input, "none")
  <2>1. Len(p) + 1 \in 1 .. Len(q) /\ n + 1 = Len(t) + Len(r) + (Len(p) + 1)
    BY <1>1
  <2>2. D[n + 1] = Candidate("model_proposed", q[Len(p) + 1], "none")
    BY <1>5, <2>1
  <2> QED BY <1>1, <2>2
<1> QED BY <1>2, <1>3, <1>4 DEF q

\* The order of the origins is theirs alone, and a proposal comes last.
LEMMA OriginsOrdered ==
    /\ \A o \in Origins : OriginOrder(o) \in 1 .. 3
    /\ \A o, q \in Origins : OriginOrder(o) = OriginOrder(q) => o = q
    /\ OriginOrder("model_proposed") = 3
    /\ OriginOrder("trusted_policy") = 1 /\ OriginOrder("repository_canonical") = 2
<1>1. OriginOrder("trusted_policy") = 1
  BY DEF OriginOrder
<1>2. OriginOrder("repository_canonical") = 2
  BY DEF OriginOrder
<1>3. OriginOrder("model_proposed") = 3
  BY DEF OriginOrder
<1> QED BY <1>1, <1>2, <1>3 DEF Origins

\* A group has a most trusted candidate.
LEMMA PrimaryIsThere ==
    ASSUME NEW group, group # {}, \A c \in group : IsCandidate(c)
    PROVE  /\ Primary(group) \in group
           /\ \A d \in group : OriginOrder(Primary(group).origin) <= OriginOrder(d.origin)
<1>1. \A c \in group : c.origin \in Origins
  BY DEF IsCandidate
<1>2. \E c \in group : \A d \in group : OriginOrder(c.origin) <= OriginOrder(d.origin)
  <2>1. CASE \E c \in group : c.origin = "trusted_policy"
    BY <1>1, <2>1, OriginsOrdered
  <2>2. CASE /\ ~ \E c \in group : c.origin = "trusted_policy"
             /\ \E c \in group : c.origin = "repository_canonical"
    <3>1. PICK c \in group : c.origin = "repository_canonical"
      BY <2>2
    <3>2. \A d \in group : d.origin \in {"repository_canonical", "model_proposed"}
      BY <1>1, <2>2 DEF Origins
    <3> QED BY <3>1, <3>2, OriginsOrdered
  <2>3. CASE /\ ~ \E c \in group : c.origin = "trusted_policy"
             /\ ~ \E c \in group : c.origin = "repository_canonical"
    <3>1. \A d \in group : d.origin = "model_proposed"
      BY <1>1, <2>3 DEF Origins
    <3> QED BY <3>1, OriginsOrdered
  <2> QED BY <2>1, <2>2, <2>3
<1> QED BY <1>2 DEF Primary

\* A proposal never takes the place of what its group had.
LEMMA PrimaryStays ==
    ASSUME NEW group, group # {}, \A c \in group : IsCandidate(c),
           NEW new, IsCandidate(new), new.origin = "model_proposed",
           \A c, d \in group \cup {new} : c.origin = d.origin => c = d
    PROVE  Primary(group \cup {new}) = Primary(group)
<1> DEFINE both == group \cup {new}
           P == Primary(group)
           Q == Primary(both)
<1>1. P \in group /\ \A d \in group : OriginOrder(P.origin) <= OriginOrder(d.origin)
  BY PrimaryIsThere
<1>2. Q \in both /\ \A d \in both : OriginOrder(Q.origin) <= OriginOrder(d.origin)
  <2>1. both # {} /\ \A c \in both : IsCandidate(c)
    OBVIOUS
  <2> HIDE DEF both
  <2> QED BY <2>1, PrimaryIsThere
<1> HIDE DEF P, Q
<1>3. \A c \in both : c.origin \in Origins
  BY DEF IsCandidate
<1>4. OriginOrder(P.origin) <= OriginOrder(Q.origin)
  <2>1. CASE Q \in group
    BY <1>1, <2>1
  <2>2. CASE Q = new
    BY <1>1, <1>3, <2>2, OriginsOrdered
  <2> QED BY <1>2, <2>1, <2>2
<1>5. P.origin = Q.origin
  <2>1. P.origin \in Origins /\ Q.origin \in Origins
    BY <1>1, <1>2, <1>3
  <2>2. OriginOrder(Q.origin) <= OriginOrder(P.origin)
    BY <1>1, <1>2
  <2>3. OriginOrder(P.origin) \in 1 .. 3 /\ OriginOrder(Q.origin) \in 1 .. 3
    BY <2>1, OriginsOrdered
  <2>4. OriginOrder(P.origin) = OriginOrder(Q.origin)
    BY <1>4, <2>2, <2>3
  <2> QED BY <2>1, <2>4, OriginsOrdered
<1> QED BY <1>1, <1>2, <1>5 DEF P, Q

\* Asking for a profile is asking for Git.
LEMMA EntriesAskForGit ==
    /\ \A channel : \A profile \in Profiles : \A e \in ProfileEntries(channel, profile) :
         e.profile = "git_repository"
    /\ \A entries : (\A e \in entries : e.profile = "git_repository") =>
         /\ Retained(entries) = entries
         /\ ResolvedProfile(entries) =
              IF entries = {} THEN "filesystem_only" ELSE "git_repository"
<1>1. \A channel : \A profile \in Profiles : \A e \in ProfileEntries(channel, profile) :
        e.profile = "git_repository"
  BY DEF ProfileEntries, Profiles
<1>2. ASSUME NEW entries, \A e \in entries : e.profile = "git_repository"
      PROVE  ResolvedProfile(entries) =
               IF entries = {} THEN "filesystem_only" ELSE "git_repository"
  <2>1. CASE entries # {}
    <3> DEFINE Strongest(e) == \A f \in entries : ProfileOrder(f.profile) <= ProfileOrder(e.profile)
    <3>1. \A e \in entries : Strongest(e)
      BY <1>2 DEF ProfileOrder
    <3>2. (CHOOSE e \in entries : Strongest(e)) \in entries
      BY <2>1, <3>1
    <3>3. ResolvedProfile(entries) = (CHOOSE e \in entries : Strongest(e)).profile
      BY <2>1 DEF ResolvedProfile
    <3> HIDE DEF Strongest
    <3> QED BY <1>2, <2>1, <3>2, <3>3
  <2>2. CASE entries = {}
    BY <2>2 DEF ResolvedProfile
  <2> QED BY <2>1, <2>2
<1>3. ASSUME NEW entries, \A e \in entries : e.profile = "git_repository"
      PROVE  Retained(entries) = entries
  <2>1. \A e \in entries : e.profile = ResolvedProfile(entries)
    BY <1>2, <1>3
  <2> QED BY <2>1 DEF Retained
<1> QED BY <1>1, <1>2, <1>3

\* The fields of a check.
IsCheck(c) ==
    c = [ id |-> c.id, level |-> c.level, kind |-> c.kind, origin |-> c.origin,
          command |-> c.command, profile |-> c.profile, provenance |-> c.provenance,
          source |-> c.source ]

\* A check with another profile and provenance.
With(c, x, y) == [c EXCEPT !.profile = x, !.provenance = y]

\* It is otherwise the same.
LEMMA CandidateWith ==
    ASSUME NEW c, NEW x, NEW y, IsCheck(c)
    PROVE  With(c, x, y) =
             [ id |-> c.id, level |-> c.level, kind |-> c.kind, origin |-> c.origin,
               command |-> c.command, profile |-> x, provenance |-> y, source |-> c.source ]
<1> DEFINE d == [c EXCEPT !.profile = x]
<1>1. With(c, x, y) = [d EXCEPT !.provenance = y]
  BY DEF With
<1>2. d = [ id |-> c.id, level |-> c.level, kind |-> c.kind, origin |-> c.origin,
            command |-> c.command, profile |-> x, provenance |-> c.provenance,
            source |-> c.source ]
  BY DEF IsCheck
<1> HIDE DEF d
<1>3. [d EXCEPT !.provenance = y] =
        [ id |-> c.id, level |-> c.level, kind |-> c.kind, origin |-> c.origin,
          command |-> c.command, profile |-> x, provenance |-> y, source |-> c.source ]
  BY <1>2
<1> QED BY <1>1, <1>3

\* The check a group becomes: the definition of the most trusted candidate, and
\* the profile that anybody asked for with everybody who did.
LEMMA MergeShape ==
    ASSUME NEW group, group # {}, \A c \in group : IsCandidate(c),
           NEW user, \A e \in user : e.profile = "git_repository"
    PROVE  LET P == Primary(group)
               asked == Requested(group, user)
           IN  /\ P \in group
               /\ \A e \in asked : e.profile = "git_repository"
               /\ Merge(group, user) =
                    [ id |-> P.id, level |-> P.level, kind |-> "command", origin |-> P.origin,
                      command |-> P.command,
                      profile |-> IF asked = {} THEN "filesystem_only" ELSE "git_repository",
                      provenance |-> asked, source |-> P.source ]
<1> DEFINE P == Primary(group)
           asked == Requested(group, user)
<1>1. P \in group
  BY PrimaryIsThere
<1>2. P = [ id |-> P.id, level |-> P.level, kind |-> "command", origin |-> P.origin,
            command |-> P.command, profile |-> P.profile, provenance |-> P.provenance,
            source |-> P.source ]
  BY <1>1 DEF IsCandidate
<1>3. \A e \in asked : e.profile = "git_repository"
  <2>1. ASSUME NEW c \in group, NEW e \in c.provenance
        PROVE  e.profile = "git_repository"
    <3>1. c.provenance = ProfileEntries(Channel(c.origin), c.profile) /\ c.profile \in Profiles
      BY DEF IsCandidate
    <3> QED BY <3>1, EntriesAskForGit
  <2>2. ASSUME NEW e \in asked
        PROVE  (\E c \in group : e \in c.provenance) \/ e \in user
    <3>1. ASSUME e \in UNION {c.provenance : c \in group}
          PROVE  \E c \in group : e \in c.provenance
      BY <3>1
    <3> DEFINE U == UNION {c.provenance : c \in group}
    <3>3. asked = U \cup user
      BY DEF Requested
    <3> HIDE DEF U, asked
    <3>2. e \in U \/ e \in user
      BY <3>3
    <3> QED BY <3>1, <3>2 DEF U
  <2> QED BY <2>1, <2>2
<1>4. Merge(group, user) =
        With(P, ResolvedProfile(asked), Retained(asked))
  BY DEF Merge, With
<1> HIDE DEF P, asked
<1>5. /\ Retained(asked) = asked
      /\ ResolvedProfile(asked) = IF asked = {} THEN "filesystem_only" ELSE "git_repository"
  BY <1>3, EntriesAskForGit
<1>6. Merge(group, user) =
        [ id |-> P.id, level |-> P.level, kind |-> "command", origin |-> P.origin,
          command |-> P.command, profile |-> ResolvedProfile(asked),
          provenance |-> Retained(asked), source |-> P.source ]
  <2>1. P.kind = "command" /\ IsCheck(P)
    BY <1>2 DEF IsCheck
  <2> QED BY <1>4, <2>1, CandidateWith
<1> QED BY <1>1, <1>3, <1>5, <1>6 DEF P, asked

-----------------------------------------------------------------------------
(* What a proposal does to a plan.                                         *)

\* A list of candidates.
AreCandidates(C) ==
    /\ \E n \in Nat : DOMAIN C = 1 .. n
    /\ \A k \in DOMAIN C : IsCandidate(C[k])

\* D is C with one more candidate, which a model proposed.
Extends(D, C, new) ==
    \E n \in Nat :
      /\ DOMAIN C = 1 .. n /\ DOMAIN D = 1 .. n + 1
      /\ \A k \in 1 .. n : D[k] = C[k]
      /\ D[n + 1] = new
      /\ IsCandidate(new) /\ new.origin = "model_proposed"

\* The candidates of the three channels are such a list.
LEMMA CandidateLists ==
    ASSUME NEW t \in Seq(Inputs), NEW r \in Seq(Inputs), NEW source, NEW p \in Seq(Inputs)
    PROVE  AreCandidates(Candidates(t, r, source, p))
BY CandidatesShape, CandidatesAreSo DEF AreCandidates

\* It joins the group of its ID, and no other group changes.
LEMMA GroupsExtend ==
    ASSUME NEW C, NEW D, NEW new, Extends(D, C, new)
    PROVE  /\ CandidateIds(D) = CandidateIds(C) \cup {new.id}
           /\ Group(D, new.id) = Group(C, new.id) \cup {new}
           /\ \A id : id # new.id => Group(D, id) = Group(C, id)
           /\ \A id : Group(C, id) # {} <=> id \in CandidateIds(C)
<1>1. PICK n \in Nat :
        /\ DOMAIN C = 1 .. n /\ DOMAIN D = 1 .. n + 1
        /\ \A k \in 1 .. n : D[k] = C[k]
        /\ D[n + 1] = new
  BY DEF Extends
<1>2. 1 .. n + 1 = (1 .. n) \cup {n + 1}
  OBVIOUS
<1>3. CandidateIds(D) = CandidateIds(C) \cup {new.id}
  <2>1. ASSUME NEW x \in CandidateIds(D)
        PROVE  x \in CandidateIds(C) \cup {new.id}
    BY <1>1, <1>2 DEF CandidateIds
  <2>2. ASSUME NEW x \in CandidateIds(C) \cup {new.id}
        PROVE  x \in CandidateIds(D)
    BY <1>1, <1>2 DEF CandidateIds
  <2> QED BY <2>1, <2>2
<1>4. ASSUME NEW id
      PROVE  Group(D, id) = Group(C, id) \cup (IF id = new.id THEN {new} ELSE {})
  <2>1. ASSUME NEW x \in Group(D, id)
        PROVE  x \in Group(C, id) \cup (IF id = new.id THEN {new} ELSE {})
    <3>1. PICK k \in 1 .. n + 1 : D[k].id = id /\ x = D[k]
      BY <1>1 DEF Group
    <3>2. CASE k \in 1 .. n
      BY <1>1, <3>1, <3>2 DEF Group
    <3>3. CASE k = n + 1
      BY <1>1, <3>1, <3>3
    <3> QED BY <1>2, <3>2, <3>3
  <2>2. ASSUME NEW x \in Group(C, id)
        PROVE  x \in Group(D, id)
    BY <1>1, <1>2 DEF Group
  <2>3. id = new.id => new \in Group(D, id)
    BY <1>1, <1>2 DEF Group
  <2> QED BY <2>1, <2>2, <2>3
<1>5. ASSUME NEW id
      PROVE  Group(C, id) # {} <=> id \in CandidateIds(C)
  BY DEF Group, CandidateIds
<1>6. Group(D, new.id) = Group(C, new.id) \cup {new}
  BY <1>4
<1>7. ASSUME NEW id, id # new.id
      PROVE  Group(D, id) = Group(C, id)
  <2>1. Group(D, id) = Group(C, id) \cup (IF id = new.id THEN {new} ELSE {})
    BY <1>4
  <2> QED BY <1>7, <2>1
<1> QED BY <1>3, <1>5, <1>6, <1>7

\* The members of a group are candidates of its ID, one for each origin.
LEMMA GroupMembers ==
    ASSUME NEW C, AreCandidates(C), NEW id
    PROVE  /\ \A c \in Group(C, id) : IsCandidate(c) /\ c.id = id /\ \E k \in DOMAIN C : c = C[k]
           /\ ~RepeatedChannel(C) =>
                \A c, d \in Group(C, id) : c.origin = d.origin => c = d
<1>1. \A c \in Group(C, id) : \E k \in DOMAIN C : C[k].id = id /\ c = C[k]
  BY DEF Group
<1>2. ASSUME ~RepeatedChannel(C), NEW c \in Group(C, id), NEW d \in Group(C, id),
             c.origin = d.origin
      PROVE  c = d
  <2>1. PICK j \in DOMAIN C : C[j].id = id /\ c = C[j]
    BY <1>1
  <2>2. PICK k \in DOMAIN C : C[k].id = id /\ d = C[k]
    BY <1>1
  <2>3. j = k
    BY <1>2, <2>1, <2>2 DEF RepeatedChannel
  <2> QED BY <2>1, <2>2, <2>3
<1> QED BY <1>1, <1>2 DEF AreCandidates

\* What is wrong with the candidates stays wrong with one more of them.
LEMMA RejectionStays ==
    ASSUME NEW C, NEW D, NEW new, AreCandidates(C), AreCandidates(D), Extends(D, C, new),
           ~PlanIsRejected(D)
    PROVE  /\ ~PlanIsRejected(C)
           /\ \A id \in CandidateIds(C) : Primary(Group(D, id)) = Primary(Group(C, id))
<1>0. IsCandidate(new) /\ new.origin = "model_proposed"
  BY DEF Extends
<1>1. ASSUME NEW id \in CandidateIds(C)
      PROVE  Primary(Group(D, id)) = Primary(Group(C, id))
  <2>1. CASE id = new.id
    <3>1. Group(D, id) = Group(C, id) \cup {new} /\ Group(C, id) # {}
      BY <1>1, <2>1, GroupsExtend
    <3>2. \A c, d \in Group(C, id) \cup {new} : c.origin = d.origin => c = d
      BY <3>1, GroupMembers DEF PlanIsRejected
    <3>3. \A c \in Group(C, id) : IsCandidate(c)
      BY GroupMembers
    <3> QED BY <1>0, <3>1, <3>2, <3>3, PrimaryStays
  <2>2. CASE id # new.id
    <3>1. Group(D, id) = Group(C, id)
      BY <2>2, GroupsExtend
    <3> QED BY <3>1
  <2> QED BY <2>1, <2>2
<1>2. ASSUME NEW id \in CandidateIds(C), Conflicting(Group(C, id))
      PROVE  FALSE
  <2>1. Group(C, id) \subseteq Group(D, id) /\ id \in CandidateIds(D)
    BY <1>2, GroupsExtend
  <2>2. Conflicting(Group(D, id))
    BY <1>1, <1>2, <2>1 DEF Conflicting
  <2> QED BY <2>1, <2>2 DEF PlanIsRejected
<1>3. PICK n \in Nat : /\ DOMAIN C = 1 .. n /\ DOMAIN D = 1 .. n + 1
                       /\ \A k \in 1 .. n : D[k] = C[k]
  BY DEF Extends
<1>4. \A k \in DOMAIN C : k \in DOMAIN D /\ D[k] = C[k]
  BY <1>3
<1>5. ~ \E k \in DOMAIN C : C[k].command \in Unusable
  BY <1>4 DEF PlanIsRejected
<1>6. ~RepeatedChannel(C)
  BY <1>4 DEF PlanIsRejected, RepeatedChannel
<1>7. CandidateIds(C) \cap FloorIds = {}
  BY GroupsExtend DEF PlanIsRejected
<1> QED BY <1>1, <1>2, <1>5, <1>6, <1>7 DEF PlanIsRejected

\* What a check of a plan becomes when a proposal is added to the plan.
Raised(c, d) ==
    /\ With(d, c.profile, c.provenance) = c
    /\ ProfileOrder(d.profile) >= ProfileOrder(c.profile)
    /\ c.provenance \subseteq d.provenance

\* Checks that differ in profile and provenance only.
LEMMA RaisingKeeps ==
    ASSUME NEW c, NEW d, IsCheck(c), IsCheck(d),
           c.id = d.id, c.level = d.level, c.kind = d.kind, c.origin = d.origin,
           c.command = d.command, c.source = d.source
    PROVE  With(d, c.profile, c.provenance) = c
<1>1. With(d, c.profile, c.provenance) =
        [ id |-> c.id, level |-> c.level, kind |-> c.kind, origin |-> c.origin,
          command |-> c.command, profile |-> c.profile, provenance |-> c.provenance,
          source |-> c.source ]
  BY CandidateWith
<1> QED BY <1>1 DEF IsCheck

\* A merged check keeps its definition and its askers.
LEMMA MergedChecksAreRaised ==
    ASSUME NEW C, NEW D, NEW new, AreCandidates(C), AreCandidates(D), Extends(D, C, new),
           ~PlanIsRejected(D), NEW id \in CandidateIds(C),
           NEW user, \A e \in user : e.profile = "git_repository"
    PROVE  Raised(Merge(Group(C, id), user), Merge(Group(D, id), user))
<1> DEFINE g == Group(C, id)
           h == Group(D, id)
           P == Primary(g)
           asked == Requested(g, user)
           more == Requested(h, user)
           resolved == IF asked = {} THEN "filesystem_only" ELSE "git_repository"
           raised == IF more = {} THEN "filesystem_only" ELSE "git_repository"
<1>1. g # {} /\ h # {} /\ g \subseteq h
  BY GroupsExtend
<1>2. (\A c \in g : IsCandidate(c)) /\ (\A c \in h : IsCandidate(c))
  BY GroupMembers
<1>3. Primary(h) = P
  BY RejectionStays
<1>4. asked \subseteq more
  BY <1>1 DEF Requested
<1>5. Merge(g, user) =
        [ id |-> P.id, level |-> P.level, kind |-> "command", origin |-> P.origin,
          command |-> P.command, profile |-> resolved, provenance |-> asked,
          source |-> P.source ]
  BY <1>1, <1>2, MergeShape
<1>6. Merge(h, user) =
        [ id |-> P.id, level |-> P.level, kind |-> "command", origin |-> P.origin,
          command |-> P.command, profile |-> raised, provenance |-> more,
          source |-> P.source ]
  BY <1>1, <1>2, <1>3, MergeShape
<1>7. ProfileOrder(raised) >= ProfileOrder(resolved)
  BY <1>4 DEF ProfileOrder
<1> HIDE DEF g, h, P, asked, more, resolved, raised
<1>8. IsCheck(Merge(g, user)) /\ IsCheck(Merge(h, user))
  BY <1>5, <1>6 DEF IsCheck
<1>9. /\ Merge(g, user).id = Merge(h, user).id
      /\ Merge(g, user).level = Merge(h, user).level
      /\ Merge(g, user).kind = Merge(h, user).kind
      /\ Merge(g, user).origin = Merge(h, user).origin
      /\ Merge(g, user).command = Merge(h, user).command
      /\ Merge(g, user).source = Merge(h, user).source
  BY <1>5, <1>6
<1>10. /\ Merge(g, user).profile = resolved /\ Merge(g, user).provenance = asked
       /\ Merge(h, user).profile = raised /\ Merge(h, user).provenance = more
  BY <1>5, <1>6
<1> DEFINE c == Merge(g, user)
           d == Merge(h, user)
<1> HIDE DEF c, d
<1>11. With(d, c.profile, c.provenance) = c
  <2>1. /\ IsCheck(c) /\ IsCheck(d) /\ c.id = d.id /\ c.level = d.level /\ c.kind = d.kind
        /\ c.origin = d.origin /\ c.command = d.command /\ c.source = d.source
    BY <1>8, <1>9 DEF c, d
  <2> QED BY <2>1, RaisingKeeps
<1>12. /\ ProfileOrder(d.profile) >= ProfileOrder(c.profile)
       /\ c.provenance \subseteq d.provenance
  BY <1>4, <1>7, <1>10 DEF c, d
<1> QED BY <1>11, <1>12 DEF Raised, c, d, g, h

\* A check that nobody proposed anything about is as it was.
LEMMA OtherChecksStay ==
    ASSUME NEW C, NEW D, NEW new, AreCandidates(D), Extends(D, C, new),
           NEW id \in CandidateIds(D),
           NEW user, \A e \in user : e.profile = "git_repository"
    PROVE  \/ Merge(Group(D, id), user).id = new.id
           \/ id \in CandidateIds(C) /\ Merge(Group(D, id), user) = Merge(Group(C, id), user)
<1>1. CASE id = new.id
  <2>1. Group(D, id) # {} /\ \A c \in Group(D, id) : IsCandidate(c) /\ c.id = id
    BY <1>1, GroupMembers, GroupsExtend
  <2>2. Primary(Group(D, id)).id = id
    BY <2>1, PrimaryIsThere
  <2>3. Merge(Group(D, id), user).id = Primary(Group(D, id)).id
    BY <2>1, MergeShape
  <2> QED BY <1>1, <2>2, <2>3
<1>2. CASE id # new.id
  <2>1. id \in CandidateIds(C)
    BY <1>2, GroupsExtend
  <2>2. Group(D, id) = Group(C, id)
    BY <1>2, GroupsExtend
  <2> QED BY <2>1, <2>2
<1> QED BY <1>1, <1>2

-----------------------------------------------------------------------------
(* Planning, in any order of captures, discoveries, proposals and edits.   *)

PlanningTypes ==
    /\ live \in Files
    /\ underReview \in Files \cup {Nothing} /\ declared \in Files \cup {Nothing}
    /\ trusted \in Seq(Inputs) /\ proposed \in Seq(Inputs)
    /\ minimum \in Profiles

\* A plan is built of all that was declared and proposed, from candidates that
\* can be a plan, and stays what it was built as: neither a later proposal nor a
\* later discovery nor a second capture can come between it and what it was of.
PlanIsBuilt ==
    /\ phase \in {"planning", "rejected"} => planned = <<>>
    /\ phase \in {"planned", "executing"} =>
         /\ underReview # Nothing /\ declared # Nothing
         /\ ~PlanIsRejected(AllCandidates(proposed))
         /\ planned \in Sorted(PlanChecks(AllCandidates(proposed), User))

PlanningInv == RecordInv /\ PlanningTypes /\ PlanIsBuilt

Phase == {"planning", "rejected", "planned", "executing"}

\* At first nothing is captured, declared or planned.
LEMMA PlanningInitially == PlanningInit => PlanningTypes /\ PlanIsBuilt
BY PlanningConstants, EmptySeq DEF PlanningInit, PlanningTypes, PlanIsBuilt

\* What is declared is a list of inputs.
LEMMA DeclaredInputs ==
    ASSUME PlanningTypes
    PROVE  (IF declared = Nothing THEN <<>> ELSE Declares[declared]) \in Seq(Inputs)
<1>1. CASE declared = Nothing
  BY <1>1, EmptySeq
<1>2. CASE declared # Nothing
  BY <1>2, PlanningConstants DEF PlanningTypes
<1> QED BY <1>1, <1>2

\* The candidates of a plan, and who asked for a profile for all of it.
LEMMA PlanIsOfCandidates ==
    ASSUME PlanningTypes
    PROVE  /\ AreCandidates(AllCandidates(proposed))
           /\ \A e \in User : e.profile = "git_repository"
<1> DEFINE r == IF declared = Nothing THEN <<>> ELSE Declares[declared]
<1>1. r \in Seq(Inputs) /\ trusted \in Seq(Inputs) /\ proposed \in Seq(Inputs)
  BY DeclaredInputs DEF PlanningTypes
<1>2. AllCandidates(proposed) = Candidates(trusted, r, declared, proposed)
  BY DEF AllCandidates
<1> HIDE DEF r
<1>3. AreCandidates(AllCandidates(proposed))
  BY <1>1, <1>2, CandidateLists
<1>4. \A e \in User : e.profile = "git_repository"
  BY EntriesAskForGit DEF User, PlanningTypes
<1> QED BY <1>3, <1>4

\* Commands and candidates are fixed when the plan is.
LEMMA PlanningUndisturbed ==
    ASSUME PlanIsBuilt,
           phase \in {"planned", "executing"} =>
             /\ UNCHANGED <<underReview, declared, trusted, proposed, minimum, planned>>
             /\ phase' \in {"planned", "executing"},
           phase \notin {"planned", "executing"} => phase' = phase /\ planned' = planned
    PROVE  PlanIsBuilt'
BY DEF PlanIsBuilt, AllCandidates, User

\* Every step keeps the types and keeps a plan what it was built as.
LEMMA PlanningInductive ==
    PlanningInv /\ [PlanningNext]_planningVars => PlanningTypes' /\ PlanIsBuilt'
<1> SUFFICES ASSUME PlanningInv, [PlanningNext]_planningVars
             PROVE  PlanningTypes' /\ PlanIsBuilt'
  OBVIOUS
<1>0. PlanningTypes /\ PlanIsBuilt /\ phase \in Phase
  BY DEF PlanningInv, RecordInv, Recording, Phase
<1>1. CASE EditSource
  BY <1>0, <1>1, PlanningUndisturbed DEF EditSource, PlanningTypes
<1>2. CASE Capture
  <2>1. underReview = Nothing => phase \notin {"planned", "executing"}
    BY <1>0 DEF PlanIsBuilt
  <2> QED BY <1>0, <1>2, <2>1, PlanningUndisturbed DEF Capture, PlanningTypes
<1>3. CASE Discover
  <2>1. declared = Nothing => phase \notin {"planned", "executing"}
    BY <1>0 DEF PlanIsBuilt
  <2> QED BY <1>0, <1>3, <2>1, PlanningUndisturbed DEF Discover, PlanningTypes
<1>4. CASE Build
  <2>1. PlanningTypes'
    BY <1>0, <1>4 DEF Build, PlanningTypes
  <2>2. CASE PlanIsRejected(AllCandidates(proposed))
    <3>1. phase = "planning" /\ phase' = "rejected" /\ planned' = planned
      BY <1>4, <2>2 DEF Build
    <3> QED BY <1>0, <2>1, <3>1 DEF PlanIsBuilt
  <2>3. CASE ~PlanIsRejected(AllCandidates(proposed))
    <3>1. /\ phase' = "planned"
          /\ planned' \in Sorted(PlanChecks(AllCandidates(proposed), User))
          /\ UNCHANGED <<underReview, declared, trusted, proposed, minimum>>
          /\ underReview # Nothing /\ declared # Nothing
      BY <1>4, <2>3 DEF Build
    <3>2. AllCandidates(proposed)' = AllCandidates(proposed) /\ User' = User
      BY <3>1 DEF AllCandidates, User
    <3> QED BY <2>1, <2>3, <3>1, <3>2 DEF PlanIsBuilt
  <2> QED BY <2>1, <2>2, <2>3
<1>5. CASE Authorize
  BY <1>0, <1>5, PlanningUndisturbed DEF Authorize, PlanningTypes
<1>6. CASE ExecuteNext
  BY <1>0, <1>6, PlanningUndisturbed DEF ExecuteNext, PlanningTypes
<1>7. ASSUME NEW input \in PlannerInputs, Propose(input)
      PROVE  PlanningTypes' /\ PlanIsBuilt'
  <2>1. proposed' \in Seq(Inputs)
    BY <1>0, <1>7, PlanningConstants, AppendProperties DEF Propose, PlanningTypes
  <2> QED BY <1>0, <1>7, <2>1, PlanningUndisturbed DEF Propose, PlanningTypes
<1>8. CASE UNCHANGED planningVars
  BY <1>0, <1>8, PlanningUndisturbed DEF planningVars, PlanningTypes, Phase
<1> QED BY <1>1, <1>2, <1>3, <1>4, <1>5, <1>6, <1>7, <1>8 DEF PlanningNext

\* A proposal is a step that only ever adds.
LEMMA ProposalAdds ==
    ASSUME PlanningTypes, NEW input \in PlannerInputs, Propose(input),
           ~PlanIsRejected(AllCandidates(proposed'))
    PROVE  /\ ~PlanIsRejected(AllCandidates(proposed))
           /\ \A c \in NewChecks(proposed) : \E d \in NewChecks(proposed') : Raised(c, d)
           /\ \A d \in NewChecks(proposed') : d.id = input.id \/ d \in NewChecks(proposed)
<1> DEFINE r == IF declared = Nothing THEN <<>> ELSE Declares[declared]
           C == AllCandidates(proposed)
           D == AllCandidates(proposed')
           new == Candidate("model_proposed", input, "none")
<1>1. /\ r \in Seq(Inputs) /\ trusted \in Seq(Inputs) /\ proposed \in Seq(Inputs)
      /\ input \in Inputs
  BY DeclaredInputs, PlanningConstants DEF PlanningTypes
<1>2. proposed' = Append(proposed, input) /\ proposed' \in Seq(Inputs)
  BY <1>1, AppendProperties DEF Propose
<1>3. /\ C = Candidates(trusted, r, declared, proposed)
      /\ D = Candidates(trusted, r, declared, proposed')
  BY DEF AllCandidates
<1>4. IsCandidate(new) /\ new.origin = "model_proposed" /\ new.id = input.id
  BY <1>1, InputsMakeCandidates DEF Origins
<1> HIDE DEF r, C, D, new
<1>5. AreCandidates(C) /\ AreCandidates(D)
  BY <1>1, <1>2, <1>3, CandidateLists
<1>6. Extends(D, C, new)
  <2> DEFINE n == Len(trusted) + Len(r) + Len(proposed)
  <2>1. /\ n \in Nat /\ DOMAIN C = 1 .. n /\ DOMAIN D = 1 .. n + 1
        /\ \A k \in 1 .. n : D[k] = C[k]
        /\ D[n + 1] = new
    BY <1>1, <1>2, <1>3, ProposalAddsOne DEF new
  <2> HIDE DEF n
  <2> QED BY <1>4, <2>1 DEF Extends
<1>7. \A e \in User : e.profile = "git_repository"
  BY PlanIsOfCandidates
<1>8. ~PlanIsRejected(D)
  BY DEF D
<1>9. ~PlanIsRejected(C)
  BY <1>5, <1>6, <1>8, RejectionStays
<1>10. /\ NewChecks(proposed) = PlanChecks(C, User)
       /\ NewChecks(proposed') = PlanChecks(D, User)
  BY DEF NewChecks, C, D
<1>11. CandidateIds(C) \subseteq CandidateIds(D)
  BY <1>6, GroupsExtend
<1>12. ASSUME NEW c \in PlanChecks(C, User)
       PROVE  \E d \in PlanChecks(D, User) : Raised(c, d)
  <2>1. CASE \E id \in FloorIds : c = FloorCheck(id)
    <3>1. PICK id \in FloorIds : c = FloorCheck(id)
      BY <2>1
    <3>2. IsCheck(c)
      BY <3>1 DEF FloorCheck, IsCheck
    <3>3. With(c, c.profile, c.provenance) = c
      BY <3>2, RaisingKeeps
    <3>4. ProfileOrder(c.profile) >= ProfileOrder(c.profile)
      BY DEF ProfileOrder
    <3>5. Raised(c, c)
      BY <3>3, <3>4 DEF Raised
    <3>6. c \in PlanChecks(D, User)
      BY <3>1 DEF PlanChecks
    <3> QED BY <3>5, <3>6
  <2>2. CASE c \in MergedChecks(C, User)
    <3>1. PICK id \in CandidateIds(C) : c = Merge(Group(C, id), User)
      BY <2>2 DEF MergedChecks
    <3>2. Raised(c, Merge(Group(D, id), User))
      BY <1>5, <1>6, <1>7, <1>8, <3>1, MergedChecksAreRaised
    <3>3. Merge(Group(D, id), User) \in PlanChecks(D, User)
      BY <1>11, <3>1 DEF PlanChecks, MergedChecks
    <3> QED BY <3>2, <3>3
  <2> QED BY <2>1, <2>2 DEF PlanChecks
<1>13. ASSUME NEW d \in PlanChecks(D, User)
       PROVE  d.id = input.id \/ d \in PlanChecks(C, User)
  <2>1. CASE d \in MergedChecks(D, User)
    <3>1. PICK id \in CandidateIds(D) : d = Merge(Group(D, id), User)
      BY <2>1 DEF MergedChecks
    <3>2. \/ d.id = new.id
          \/ id \in CandidateIds(C) /\ d = Merge(Group(C, id), User)
      BY <1>5, <1>6, <1>7, <3>1, OtherChecksStay
    <3> QED BY <1>4, <3>2 DEF PlanChecks, MergedChecks
  <2>2. CASE d \notin MergedChecks(D, User)
    BY <2>2 DEF PlanChecks
  <2> QED BY <2>1, <2>2
<1> QED BY <1>9, <1>10, <1>12, <1>13 DEF C

\* Whatever the repository declares, a policy requires and was proposed before,
\* a proposal adds a check or raises a profile, and replaces and downgrades
\* nothing.
THEOREM ProposalsAdd == PlanningSpec => ProposalsOnlyAdd
<1> DEFINE
      Adds ==
        \A input \in PlannerInputs :
          Propose(input) /\ ~PlanIsRejected(AllCandidates(proposed')) =>
            /\ ~PlanIsRejected(AllCandidates(proposed))
            /\ \A c \in NewChecks(proposed) : \E d \in NewChecks(proposed') :
                 /\ [d EXCEPT !.profile = c.profile, !.provenance = c.provenance] = c
                 /\ ProfileOrder(d.profile) >= ProfileOrder(c.profile)
                 /\ c.provenance \subseteq d.provenance
            /\ \A d \in NewChecks(proposed') :
                 d.id = input.id \/ d \in NewChecks(proposed)
<1>1. PlanningTypes => Adds
  BY ProposalAdds DEF Raised, With
<1>2. PlanningInv /\ [PlanningNext]_planningVars => PlanningInv'
  BY RecordInductive, PlanningInductive DEF PlanningInv
<1>3. PlanningInit => PlanningInv
  BY RecordInitially, PlanningInitially DEF PlanningInv
<1>4. PlanningInv => PlanningTypes
  BY DEF PlanningInv
<1>5. PlanningTypes => [Adds]_proposed
  BY <1>1
<1> HIDE DEF Adds
<1>6. PlanningSpec => [][Adds]_proposed
  BY <1>2, <1>3, <1>4, <1>5, PTL DEF PlanningSpec
<1> QED BY <1>6 DEF Adds, ProposalsOnlyAdd

-----------------------------------------------------------------------------
(* What a plan says of who wanted what.                                    *)

\* A check of a plan is one of the floor or a merged one.
LEMMA PlanChecksOnly ==
    ASSUME PlanningInv, NEW i \in DOMAIN planned
    PROVE  /\ phase \in {"planned", "executing"}
           /\ planned[i] \in PlanChecks(AllCandidates(proposed), User)
<1>1. phase \in Phase /\ PlanIsBuilt
  BY DEF PlanningInv, RecordInv, Recording, Phase
<1>2. phase \in {"planned", "executing"}
  BY <1>1 DEF PlanIsBuilt, Phase
<1>3. planned \in Sorted(PlanChecks(AllCandidates(proposed), User))
  BY <1>1, <1>2 DEF PlanIsBuilt
<1> DEFINE checks == PlanChecks(AllCandidates(proposed), User)
<1> HIDE DEF checks
<1>4. planned \in [1 .. Cardinality(checks) -> checks]
  BY <1>3 DEF Sorted, checks
<1> QED BY <1>2, <1>4 DEF checks

\* Those who asked for Git, of a list of candidates and of the invocation.
Raisers(C, id, user) ==
    {Channel(C[j].origin) :
       j \in {k \in DOMAIN C : C[k].id = id /\ C[k].profile = "git_repository"}}
      \cup {e.channel : e \in user}

\* The provenance of a merged check names them all and nobody else.
LEMMA MergeNamesRaisers ==
    ASSUME NEW C, AreCandidates(C), NEW id \in CandidateIds(C),
           NEW user, \A e \in user : e.profile = "git_repository"
    PROVE  LET check == Merge(Group(C, id), user)
           IN  /\ check.id = id
               /\ {e.channel : e \in check.provenance} = Raisers(C, id, user)
               /\ check.profile = "git_repository" <=> Raisers(C, id, user) # {}
<1> DEFINE g == Group(C, id)
           asked == Requested(g, user)
           check == Merge(g, user)
           who == Raisers(C, id, user)
<1>1. g # {}
  BY DEF Group, CandidateIds
<1>2. \A c \in g : IsCandidate(c) /\ c.id = id
  BY GroupMembers
<1>3. /\ check.id = id /\ check.provenance = asked
      /\ check.profile = IF asked = {} THEN "filesystem_only" ELSE "git_repository"
  BY <1>1, <1>2, MergeShape
<1>4. ASSUME NEW e \in asked
      PROVE  e.channel \in who
  <2>1. CASE e \in user
    BY <2>1 DEF Raisers
  <2>2. CASE \E c \in g : e \in c.provenance
    <3>1. PICK c \in g : e \in c.provenance
      BY <2>2
    <3>2. PICK k \in DOMAIN C : C[k].id = id /\ c = C[k]
      BY <1>2, <3>1, GroupMembers
    <3>3. e \in ProfileEntries(Channel(c.origin), c.profile) /\ c.profile \in Profiles
      BY <1>2, <3>1 DEF IsCandidate
    <3>4. e.channel = Channel(c.origin) /\ c.profile = "git_repository"
      BY <3>3 DEF ProfileEntries, Profiles
    <3> QED BY <3>2, <3>4 DEF Raisers
  <2>3. e \in UNION {c.provenance : c \in g} \/ e \in user
    BY DEF Requested
  <2>4. ASSUME e \in UNION {c.provenance : c \in g}
        PROVE  \E c \in g : e \in c.provenance
    BY <2>4
  <2> QED BY <2>1, <2>2, <2>3, <2>4
<1>5. ASSUME NEW w \in who
      PROVE  \E e \in asked : w = e.channel
  <2>1. CASE \E e \in user : w = e.channel
    BY <2>1 DEF Requested
  <2>2. CASE \E k \in DOMAIN C : /\ C[k].id = id /\ C[k].profile = "git_repository"
                                  /\ w = Channel(C[k].origin)
    <3>1. PICK k \in DOMAIN C : /\ C[k].id = id /\ C[k].profile = "git_repository"
                                /\ w = Channel(C[k].origin)
      BY <2>2
    <3>2. C[k] \in g /\ IsCandidate(C[k])
      BY <3>1 DEF Group, AreCandidates
    <3>3. C[k].provenance = {[channel |-> w, profile |-> "git_repository"]}
      BY <3>1, <3>2 DEF IsCandidate, ProfileEntries
    <3>4. [channel |-> w, profile |-> "git_repository"] \in asked
      BY <3>2, <3>3 DEF Requested
    <3>5. [channel |-> w, profile |-> "git_repository"].channel = w
      OBVIOUS
    <3> QED BY <3>4, <3>5
  <2> QED BY <2>1, <2>2 DEF Raisers
<1> HIDE DEF g, asked, check, who
<1>6. {e.channel : e \in asked} = who
  <2>1. ASSUME NEW w \in {e.channel : e \in asked}
        PROVE  w \in who
    <3>1. PICK e \in asked : w = e.channel
      BY <2>1
    <3> QED BY <1>4, <3>1
  <2>2. ASSUME NEW w \in who
        PROVE  w \in {e.channel : e \in asked}
    BY <1>5, <2>2
  <2> QED BY <2>1, <2>2
<1>7. asked = {} <=> who = {}
  BY <1>4, <1>5
<1>8. /\ check.id = id
      /\ {e.channel : e \in check.provenance} = who
      /\ check.profile = "git_repository" <=> who # {}
  BY <1>3, <1>6, <1>7
<1> QED BY <1>8 DEF check, who, g

\* A command of any plan needs Git exactly when somebody asked for it, and names
\* everyone who did, whoever won the definition.
THEOREM PlansNameTheirRaisers == PlanningSpec => []ProfilesNameTheirRaisers
<1> DEFINE
      Named(check) ==
        /\ {e.channel : e \in check.provenance} =
             Raisers(AllCandidates(proposed), check.id, User)
        /\ check.profile = "git_repository" <=>
             Raisers(AllCandidates(proposed), check.id, User) # {}
<1>1. PlanningInv => ProfilesNameTheirRaisers
  <2>1. ASSUME PlanningInv, NEW i \in DOMAIN planned, planned[i].kind = "command"
        PROVE  Named(planned[i])
    <3> DEFINE C == AllCandidates(proposed)
    <3>1. AreCandidates(C) /\ \A e \in User : e.profile = "git_repository"
      BY <2>1, PlanIsOfCandidates DEF PlanningInv
    <3> HIDE DEF C
    <3>2. planned[i] \in PlanChecks(C, User)
      BY <2>1, PlanChecksOnly DEF C
    <3>3. planned[i] \in MergedChecks(C, User)
      BY <2>1, <3>2 DEF PlanChecks, FloorCheck
    <3>4. PICK id \in CandidateIds(C) : planned[i] = Merge(Group(C, id), User)
      BY <3>3 DEF MergedChecks
    <3>5. /\ planned[i].id = id
          /\ {e.channel : e \in planned[i].provenance} = Raisers(C, id, User)
          /\ planned[i].profile = "git_repository" <=> Raisers(C, id, User) # {}
      BY <3>1, <3>4, MergeNamesRaisers
    <3> QED BY <3>5 DEF C
  <2> HIDE DEF Named
  <2>2. ASSUME PlanningInv,
               NEW check \in {planned[i] : i \in {j \in DOMAIN planned : planned[j].kind = "command"}}
        PROVE  Named(check)
    BY <2>1, <2>2
  <2>3. (\A check \in {planned[i] : i \in {j \in DOMAIN planned : planned[j].kind = "command"}} :
            Named(check))
          => ProfilesNameTheirRaisers
    BY ZenonT(60) DEF Named, ProfilesNameTheirRaisers, Raisers
  <2> QED BY <2>2, <2>3
<1>2. PlanningInv /\ [PlanningNext]_planningVars => PlanningInv'
  BY RecordInductive, PlanningInductive DEF PlanningInv
<1>3. PlanningInit => PlanningInv
  BY RecordInitially, PlanningInitially DEF PlanningInv
<1> QED BY <1>1, <1>2, <1>3, PTL DEF PlanningSpec

-----------------------------------------------------------------------------
(* What is launched was declared by the files under review.                *)

\* A command has only been launched from a plan all of whose declarations were
\* read from the content that the ChangeSet captured.
SourcesAgree == Launched # {} => \A i \in DOMAIN planned : planned[i].source \in {"none", underReview}

\* A tree is only complete when they were.
LEMMA LaunchedSourcesMatch ==
    ASSUME NEW check, NEW manifest \in Manifests(check), NEW h, NEW directory,
           NEW r \in Outcomes(Request(check, manifest, Required), h, directory),
           r.status # "not_run"
    PROVE  SourcesMatch(check)
<1>1. r.decision.kind = "executable" /\ r.decision = Decide(r.request, h)
  BY OutcomeShape
<1>2. r.request.snapshot = "none"
  BY <1>1, DecideCases
<1>3. r.request.snapshot = Request(check, manifest, Required).snapshot
  BY OutcomeShape
<1>4. manifest.failure = "none"
  BY <1>2, <1>3, ManifestShape DEF Request
<1> QED BY <1>4 DEF Manifests, Manifest, DirectGitFailure

\* No step but the execution of a command launches one, and none changes what
\* the launched commands were planned from.
LEMMA SourcesInductive == PlanningInv /\ SourcesAgree /\ [PlanningNext]_planningVars => SourcesAgree'
<1> SUFFICES ASSUME PlanningInv, SourcesAgree, [PlanningNext]_planningVars
             PROVE  SourcesAgree'
  OBVIOUS
<1>0. /\ phase # "executing" => results = <<>>
      /\ phase \in {"planned", "executing"} => underReview # Nothing /\ declared # Nothing
      /\ results \in Seq({results[i] : i \in DOMAIN results})
  BY DEF PlanningInv, RecordInv, Recording, PlanIsBuilt
<1>1. ASSUME results' = results,
             phase = "executing" => planned' = planned /\ underReview' = underReview
      PROVE  SourcesAgree'
  <2>1. CASE phase = "executing"
    BY <1>1, <2>1 DEF SourcesAgree, Launched
  <2>2. CASE phase # "executing"
    BY <1>0, <1>1, <2>2 DEF SourcesAgree, Launched
  <2> QED BY <2>1, <2>2
<1>2. CASE ExecuteNext
  <2> DEFINE check == Commands[Len(results) + 1]
  <2>1. PICK manifest \in Manifests(check), directory \in {"there", "missing", "unsafe"} :
          \E r \in Outcomes(Request(check, manifest, Required), host, directory) :
            results' = Append(results, [manifest |-> manifest, outcome |-> r])
    BY <1>2 DEF ExecuteNext
  <2>2. PICK r \in Outcomes(Request(check, manifest, Required), host, directory) :
          results' = Append(results, [manifest |-> manifest, outcome |-> r])
    BY <2>1
  <2>3. planned' = planned /\ underReview' = underReview
    BY <1>2 DEF ExecuteNext
  <2>4. ASSUME NEW i \in Launched'
        PROVE  i \in Launched \/ r.status # "not_run"
    <3>1. i \in DOMAIN results' /\ results'[i].outcome.status # "not_run"
      BY <2>4 DEF Launched
    <3>2. \/ i \in DOMAIN results /\ results'[i] = results[i]
          \/ results'[i] = [manifest |-> manifest, outcome |-> r]
      BY <1>0, <2>2, <3>1
    <3> QED BY <3>1, <3>2 DEF Launched
  <2>5. r.status # "not_run" => SourcesMatch(check)
    BY LaunchedSourcesMatch
  <2> QED BY <2>3, <2>4, <2>5 DEF SourcesAgree, SourcesMatch
<1>3. CASE Capture
  BY <1>0, <1>1, <1>3 DEF Capture
<1>4. CASE EditSource \/ Discover \/ Build \/ Authorize \/ UNCHANGED planningVars
  BY <1>1, <1>4 DEF EditSource, Discover, Build, Authorize, planningVars
<1>5. CASE \E input \in PlannerInputs : Propose(input)
  BY <1>1, <1>5 DEF Propose
<1> QED BY <1>2, <1>3, <1>4, <1>5 DEF PlanningNext

\* A repository check of a plan is the declaration of the file it was read from,
\* with the profile that was asked for.
LEMMA RepositoryChecksAreDeclared ==
    ASSUME PlanningInv, NEW i \in DOMAIN planned, planned[i].origin = "repository_canonical"
    PROVE  /\ declared \in Files /\ planned[i].source = declared
           /\ \E j \in DOMAIN Declares[declared] :
                /\ Declares[declared][j].id = planned[i].id
                /\ Declares[declared][j].level = planned[i].level
                /\ Declares[declared][j].command = planned[i].command
<1> DEFINE C == AllCandidates(proposed)
           r == IF declared = Nothing THEN <<>> ELSE Declares[declared]
<1>1. /\ planned[i] \in PlanChecks(C, User)
      /\ phase \in {"planned", "executing"}
  BY PlanChecksOnly
<1>2. declared \in Files /\ declared # Nothing
  BY <1>1 DEF PlanningInv, PlanningTypes, PlanIsBuilt
<1>3. AreCandidates(C) /\ \A e \in User : e.profile = "git_repository"
  BY PlanIsOfCandidates DEF PlanningInv
<1>4. r \in Seq(Inputs) /\ trusted \in Seq(Inputs) /\ proposed \in Seq(Inputs)
  BY DeclaredInputs DEF PlanningInv, PlanningTypes
<1>5. C = Candidates(trusted, r, declared, proposed)
  BY DEF AllCandidates
<1>6. r = Declares[declared]
  BY <1>2
<1> HIDE DEF C, r
<1>7. planned[i] \in MergedChecks(C, User)
  BY <1>1 DEF PlanChecks, FloorCheck
<1>8. PICK id \in CandidateIds(C) : planned[i] = Merge(Group(C, id), User)
  BY <1>7 DEF MergedChecks
<1> DEFINE g == Group(C, id)
           P == Primary(g)
<1>9. g # {}
  BY <1>8 DEF Group, CandidateIds
<1>10. \A c \in g : IsCandidate(c) /\ \E k \in DOMAIN C : c = C[k]
  BY <1>3, GroupMembers
<1> HIDE DEF g
<1>11. /\ P \in g
       /\ planned[i].id = P.id /\ planned[i].level = P.level /\ planned[i].origin = P.origin
       /\ planned[i].command = P.command /\ planned[i].source = P.source
  BY <1>3, <1>8, <1>9, <1>10, MergeShape DEF g
<1> HIDE DEF P
<1>12. PICK k \in DOMAIN C : P = C[k]
  BY <1>10, <1>11
<1>13. PICK j \in 1 .. Len(r) : P = Candidate("repository_canonical", r[j], declared)
  <2>1. C[k].origin = "repository_canonical"
    BY <1>11, <1>12
  <2> QED BY <1>4, <1>5, <1>12, <2>1, CandidatesAreSo
<1>14. /\ P.source = declared /\ P.id = r[j].id
       /\ P.level = r[j].level /\ P.command = r[j].command
  BY <1>13 DEF Candidate
<1>15. j \in DOMAIN r
  BY <1>4, LenProperties
<1> QED BY <1>2, <1>6, <1>11, <1>14, <1>15

\* However often the files are edited between capture, discovery and execution,
\* nothing is launched from a plan whose repository checks the captured file
\* does not declare.
THEOREM OnlyReviewedGuidanceRuns == PlanningSpec => []LaunchedGuidanceIsReviewed
<1>1. PlanningInv /\ SourcesAgree => LaunchedGuidanceIsReviewed
  <2> SUFFICES ASSUME PlanningInv, SourcesAgree, Launched # {},
                      NEW i \in DOMAIN planned, planned[i].origin = "repository_canonical"
               PROVE  \E j \in DOMAIN Declares[underReview] :
                        /\ Declares[underReview][j].id = planned[i].id
                        /\ Declares[underReview][j].level = planned[i].level
                        /\ Declares[underReview][j].command = planned[i].command
    BY DEF LaunchedGuidanceIsReviewed
  <2>1. planned[i].source \in {"none", underReview}
    BY DEF SourcesAgree
  <2>2. planned[i].source = declared /\ declared # "none"
    BY RepositoryChecksAreDeclared, PlanningConstants
  <2> QED BY <2>1, <2>2, RepositoryChecksAreDeclared
<1>2. PlanningInv /\ [PlanningNext]_planningVars => PlanningInv'
  BY RecordInductive, PlanningInductive DEF PlanningInv
<1>3. PlanningInit => PlanningInv /\ SourcesAgree
  <2>1. PlanningInit => results = <<>>
    BY DEF PlanningInit
  <2> QED BY <2>1, RecordInitially, PlanningInitially
       DEF PlanningInv, SourcesAgree, Launched
<1> QED BY <1>1, <1>2, <1>3, SourcesInductive, PTL DEF PlanningSpec

=============================================================================
