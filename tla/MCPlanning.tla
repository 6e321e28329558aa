----------------------------- MODULE MCPlanning -----------------------------
(* Two free IDs and one of the floor; a file that declares a check, one that *)
(* declares another under the same ID, and one that names an ID twice.       *)
EXTENDS PlannedExecution

Input(id, level, command, profile) ==
    [id |-> id, level |-> level, command |-> command, profile |-> profile]

MCIdOrder ==
    [i \in FloorIds \cup {"lint", "test"} |->
       CASE i = "scope-capture" -> 0 [] i = "source-preservation" -> 1
         [] i = "result-classification" -> 2 [] i = "lint" -> 3 [] i = "test" -> 4]

MCGitClass ==
    [c \in {"pytest", "git status", "git log", "git -C", "no argv"} |->
       CASE c = "git status" -> "supported" [] c = "git log" -> "unsupported"
         [] c = "git -C" -> "prohibited" [] OTHER -> "not_direct"]

MCDeclares ==
    [f \in {"f0", "f1", "f2"} |->
       CASE f = "f0" -> <<Input("test", "required", "pytest", "filesystem_only"),
                          Input("lint", "advisory", "git status", "git_repository")>>
         [] f = "f1" -> <<Input("test", "advisory", "pytest", "filesystem_only")>>
         [] f = "f2" -> <<Input("test", "required", "pytest", "filesystem_only"),
                          Input("test", "advisory", "pytest", "filesystem_only")>>]

MCTrustedInputs ==
    { <<>>, <<Input("test", "required", "pytest", "git_repository")>>,
      <<Input("lint", "required", "git log", "filesystem_only")>> }

MCPlannerInputs ==
    { Input("test", "required", "pytest", "filesystem_only"),
      Input("test", "required", "pytest", "git_repository"),
      Input("test", "advisory", "pytest", "git_repository"),
      Input("lint", "required", "git log", "git_repository"),
      Input("lint", "advisory", "git -C", "git_repository"),
      Input("lint", "advisory", "no argv", "filesystem_only"),
      Input("scope-capture", "required", "pytest", "filesystem_only") }

Host(invariants, available, waivable, approved) ==
    [invariants |-> invariants, available |-> available, waivable |-> waivable,
     approved |-> approved]

MCHosts ==
    { Host(TRUE, {"network", "limits"}, {}, {}),
      Host(TRUE, {"limits"}, {"network"}, {"network"}),
      Host(TRUE, {"limits"}, {"network", "limits"}, {"limits"}),
      Host(TRUE, {"limits"}, {}, {}),
      Host(FALSE, {"limits"}, {"network"}, {}) }

=============================================================================
