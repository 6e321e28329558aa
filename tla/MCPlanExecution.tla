-------------------------- MODULE MCPlanExecution --------------------------
(* Plans of two commands around a structural check.                        *)
EXTENDS PlanExecution

Command(level, profile, git) ==
    [kind |-> "command", level |-> level, profile |-> profile, git |-> git]
Structural ==
    [kind |-> "structural", level |-> "required", profile |-> "filesystem_only",
     git |-> "not_direct"]

MCCommands ==
    {Command(l, "filesystem_only", "not_direct") : l \in Levels}
      \cup {Command(l, "git_repository", g) :
              l \in Levels, g \in {"supported", "unsupported", "prohibited"}}

MCPlans == {<<Structural, c, d>> : c, d \in MCCommands}
             \cup {<<c, Structural>> : c \in MCCommands}

Assess(odd, status, blocker, gap) ==
    [ axes |-> [x \in Axes |->
                  IF x = odd THEN [status |-> status, blocker |-> blocker, gap |-> gap]
                  ELSE [status |-> "pass", blocker |-> FALSE, gap |-> FALSE]],
      limits |-> {} ]

MCSubmissions ==
    { Assess("spec", "pass", FALSE, FALSE), Assess("impact", "fail", TRUE, FALSE),
      Assess("spec", "inconclusive", FALSE, TRUE) }

=============================================================================
