----------------------------- MODULE MCVerdict -----------------------------
(* From drafts to artifacts: every evidence of at most two commands under    *)
(* plain drafts, and drafts with findings, comparisons, limit gaps and       *)
(* requirements of every kind under a few evidences.                         *)
EXTENDS ReviewReduction, SequencesExt

-----------------------------------------------------------------------------
(* Evidence.                                                               *)

MCResults ==
    { Result(l, r[1], r[2]) :
        l \in Levels,
        r \in { <<"passed", "none">>, <<"failed", "verification">>,
                <<"failed", "unclassified">>, <<"not_run", "capability">>,
                <<"timed_out", "infrastructure">> } }

MCEvidence ==
    UNION { {[executions |-> e, failures |-> f] : f \in SUBSET Launched(e)} :
              e \in UNION {[1 .. n -> MCResults] : n \in 0 .. 2} }

Evidence(executions) == [executions |-> executions, failures |-> {}]

MCFewEvidence ==
    { Evidence(<<Result("required", "passed", "none"), Result("advisory", "failed", "unclassified")>>),
      Evidence(<<Result("required", "failed", "verification")>>) }

MCDigest ==
    [ c \in {FloorCheck(i) : i \in Floor} \cup {CommandCheck(i) : i \in 1 .. 2} |->
        CASE c.id = "scope-capture" -> 1 [] c.id = "source-preservation" -> 4
          [] c.id = "result-classification" -> 2
          [] OTHER -> IF c.ordinal = 1 THEN 3 ELSE 5 ]

MCOrdinalOrder == [i \in 0 .. 1 |-> i]

MCFieldDigest ==
    [ f \in LimitFields |-> CASE f = "text" -> 1 [] f = "requirement_comparisons" -> 2
                              [] f = "findings" -> 3 [] f = "limit_gaps" -> 4
                              [] f = "requirement_comparisons.text" -> 5 ]

-----------------------------------------------------------------------------
(* Scopes and drafts: four sources, the last of them a Standard.           *)

MCScopes ==
    { [ winning |-> w, standards |-> {"s4"},
        known |-> [ k \in ReferenceKinds |->
                      CASE k = "discovery_source" -> {"s1", "s2", "s3", "s4"}
                        [] k = "change_path" -> {"path"} [] k = "plan_check" -> {"check"}
                        [] OTHER -> {} ] ] :
        w \in {{}, {"s1"}, {"s1", "s2", "s3"}} }

Compare(sources, relation) == [sources |-> sources, relation |-> relation]

MCComparisons ==
    SeqOf({ Compare({"s1", "s2"}, "complementary"), Compare({"s1", "s2"}, "contradictory"),
            Compare({"s2", "s3"}, "complementary") }, 2)

Sources(ids) == {[kind |-> "discovery_source", identifier |-> i] : i \in ids}

Finding(id, category, state, blocking, evidenceOf) ==
    [ id |-> id, axis |-> CategoryAxis[category], category |-> category, state |-> state,
      blocking |-> blocking, evidence |-> evidenceOf, owners |-> {CategoryAxis[category]} ]

Mismatch == Finding("f1", "spec_mismatch", "confirmed", TRUE, Sources({"s1"}))
Conflict == Finding("f2", "spec_contradiction", "evidence_gap", FALSE, Sources({"s1", "s2"}))
HalfConflict == Finding("f3", "spec_contradiction", "evidence_gap", FALSE, Sources({"s1"}))
TestGap == Finding("f4", "test_gap", "confirmed", TRUE, {[kind |-> "change_path", identifier |-> "path"]})
Suspicion == Finding("f5", "unsupported_suspicion", "suspected", FALSE, Sources({"s4"}))
Standard == Finding("f6", "standard_violation", "confirmed", FALSE, Sources({"s4"}))
Dangling == Finding("f7", "impact_regression", "confirmed", TRUE, {[kind |-> "execution", identifier |-> "9"]})

MCFindings ==
    { {}, {Mismatch}, {Conflict}, {HalfConflict}, {TestGap}, {Dangling}, {Standard, Suspicion},
      {Mismatch, Conflict}, {Conflict, TestGap}, {Mismatch, Conflict, TestGap},
      {[Mismatch EXCEPT !.owners = {}]}, {[TestGap EXCEPT !.owners = {"spec", "test_sufficiency"}]} }

Axis(status, gap) == [status |-> status, gap |-> gap]
Passing == Axis("pass", FALSE)
MCAxes == {Passing, Axis("fail", FALSE), Axis("inconclusive", FALSE), Axis("inconclusive", TRUE)}

Axes5(a, b) ==
    [x \in Axes |-> CASE x = "spec" -> a [] x = "test_sufficiency" -> b [] OTHER -> Passing]

Limit(concern, field, affected, input) ==
    [concern |-> concern, field |-> field, affected |-> affected, input |-> input]

ProseLimit == Limit("prose", "text", {"spec", "impact"}, {})
FindingsLimit == Limit("collection", "findings", {"spec"}, {})
ForgedLimit == Limit("collection", "requirement_comparisons", {"spec"}, {})
InnerLimit == Limit("prose", "requirement_comparisons.text", {"spec"}, {})

MCLimits == {{}, {ProseLimit}, {FindingsLimit}, {ForgedLimit}, {InnerLimit}, {ProseLimit, FindingsLimit},
             {ProseLimit, FindingsLimit, ForgedLimit}}

Draft(reviewed, comparisons, findings, axes, limits) ==
    [ reviewed |-> reviewed, comparisons |-> comparisons, findings |-> findings,
      axes |-> axes, limits |-> limits ]

\* Drafts without comparisons, for every evidence.
PlainDrafts(sc) ==
    { Draft(sc.winning, <<>>, f, Axes5(a, b), l) :
        a \in MCAxes, b \in MCAxes, l \in {{}, {ProseLimit}, {ProseLimit, FindingsLimit}},
        f \in {{}, {Mismatch}} }

MCDrafts(sc) ==
    { Draft(r, c, f, Axes5(a, b), l) :
        r \in {sc.winning, {"s1"}}, c \in MCComparisons, f \in MCFindings,
        a \in MCAxes, b \in {Passing, Axis("fail", FALSE)}, l \in MCLimits }

MCReviews ==
    {[scope |-> sc, drafts |-> MCDrafts(sc), evidence |-> MCFewEvidence] : sc \in MCScopes}
      \cup {[scope |-> sc, drafts |-> PlainDrafts(sc), evidence |-> MCEvidence] :
             sc \in {w \in MCScopes : w.winning = {"s1"}}}

=============================================================================
