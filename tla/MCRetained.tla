----------------------------- MODULE MCRetained -----------------------------
(* What is kept of content under limits: of a command's output, or of the    *)
(* files of a change.  The two share no state; a behaviour is of one of them. *)
EXTENDS MCRedaction, MCChanges

retainedVars == <<vars, assemblyVars>>

NoAssembly ==
    /\ scope = "pending" /\ layers = <<>> /\ renames = <<>>
    /\ ending = "idle" /\ changes = [groups |-> {}]

NoOutput ==
    /\ patterns = {} /\ limit = Min(Limits)
    /\ pending = <<>> /\ excerpt = <<>> /\ output = <<>>
    /\ truncated = FALSE /\ redacted = FALSE /\ finished = TRUE

RetainedInit == (Init /\ NoAssembly) \/ (AssemblyInit /\ NoOutput)

RetainedNext ==
    \/ Next /\ UNCHANGED assemblyVars
    \/ AssemblyNext /\ UNCHANGED vars

RetainedSpec == RetainedInit /\ [][RetainedNext]_retainedVars

=============================================================================
