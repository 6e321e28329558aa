------------------------ MODULE ConsentedExecution ------------------------
(***************************************************************************)
(* What an authorization means, without phases, files or processes: a      *)
(* person grants a session one permit for one exact authorization; the     *)
(* permit is good for one execution of it, and may be revoked before.      *)
(***************************************************************************)
CONSTANTS Sessions, Authorizations, None

VARIABLES
    permit,  \* the authorization each session may execute, or None
    executed \* what was executed under the current permit, in order

vars == <<permit, executed>>

Init ==
    /\ permit = [s \in Sessions |-> None]
    /\ executed = [s \in Sessions |-> <<>>]

Grant(s, a) ==
    /\ permit[s] = None
    /\ permit' = [permit EXCEPT ![s] = a]
    /\ UNCHANGED executed

Launch(s) ==
    /\ permit[s] # None
    /\ executed[s] = <<>>
    /\ executed' = [executed EXCEPT ![s] = <<permit[s]>>]
    /\ UNCHANGED permit

Revoke(s) ==
    /\ permit' = [permit EXCEPT ![s] = None]
    /\ executed' = [executed EXCEPT ![s] = <<>>]

Next ==
    \E s \in Sessions :
      \/ \E a \in Authorizations : Grant(s, a)
      \/ Launch(s)
      \/ Revoke(s)

Spec == Init /\ [][Next]_vars

=============================================================================
