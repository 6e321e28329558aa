---------------------------- MODULE MCExecution ----------------------------
(* What lies between the author's repository and the evidence: its capture,  *)
(* the plan that is made and authorized for it, and the execution of a plan, *)
(* check by check.  The three share no variable and each has small constants *)
(* of its own; a behaviour is of one of them, and the others wait where they *)
(* begin.                                                                    *)
EXTENDS MCSourceCapture, MCPlanning, MCPlanExecution

VARIABLE part

parts == <<part, captureVars, planningVars, vars>>

CaptureWaits == repo = CHOOSE r \in Initial : TRUE

PlanningWaits ==
    live = "f0" /\ trusted = <<>> /\ minimum = "filesystem_only"

ExecutionWaits ==
    /\ plan = CHOOSE p \in Plans : TRUE
    /\ source = CHOOSE s \in Source : s.content = 0

ExecutionInit ==
    /\ part \in {"capture", "planning", "execution"}
    /\ part # "capture" => CaptureWaits
    /\ part # "planning" => PlanningWaits
    /\ part # "execution" => ExecutionWaits
    /\ CaptureInit /\ PlanningInit /\ Init

\* A plan is rejected: there is nothing left to do.
Rejected == phase = "rejected" /\ UNCHANGED planningVars

ExecutionNext ==
    \/ part = "capture" /\ CaptureNext /\ UNCHANGED <<part, planningVars, vars>>
    \/ part = "planning" /\ (PlanningNext \/ Rejected) /\ UNCHANGED <<part, captureVars, vars>>
    \/ part = "execution" /\ Next /\ UNCHANGED <<part, captureVars, planningVars>>

ExecutionSpec == ExecutionInit /\ [][ExecutionNext]_parts

=============================================================================
