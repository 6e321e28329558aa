------------------------ MODULE ProcessRunnerProofs ------------------------
(***************************************************************************)
(* Proofs about one run of a command, for any number of processes it       *)
(* starts and chunks it writes.                                            *)
(***************************************************************************)
EXTENDS ProcessRunner, TLAPS

(***************************************************************************)
(* What makes a completed run whole: a pipe taken off the selector has no  *)
(* holder and no chunk left, and can get neither back; a group seen empty  *)
(* stays empty; a leader that is not in the group has exited.              *)
(***************************************************************************)

Processes ==
    /\ group \subseteq Procs
    /\ holds \in [Streams -> SUBSET (group \cup escaped)]
    /\ Leader \notin escaped
    /\ group \cup escaped \subseteq started
    /\ pc = "launch" => started = {}
    /\ written \in [Streams -> Nat]
    /\ received \in [Streams -> Nat]

Drained(s) == holds[s] = {} /\ received[s] = written[s]

Draining ==
    /\ pc \in {"loop", "select", "read", "poll", "reap"} =>
         \A s \in Streams \ streams : Drained(s)
    /\ pc \in {"poll", "reap"} => streams = {}

LeaderExits ==
    pc \in {"register", "loop", "select", "read", "poll", "reap"} =>
      Leader \in group \/ exit \in {"zero", "nonzero"}

Finishing ==
    /\ pc \in Steps
    /\ pc = "reap" => finished
    /\ pc \notin {"cleanup", "returned"} => status = None
    /\ finished => group = {} /\ pc \in {"reap", "cleanup", "returned"}
    /\ status \in {"passed", "failed"} => finished
    /\ status \in {"passed", "failed", "timed_out", "errored", None}

RunInv == Processes /\ Draining /\ LeaderExits /\ Finishing /\ CompletedRunIsWhole

\* No process of the command, inside the group or out of it, can give a drained
\* pipe back a holder or a chunk, or an empty group a member.
LEMMA CommandKeeps ==
    ASSUME RunInv, CommandStep
    PROVE  RunInv'
<1> USE RunnerConstants DEF RunInv, Processes, Draining, Drained, LeaderExits, Finishing,
        CompletedRunIsWhole, runnerVars, Procs, Gone
<1>1. ASSUME NEW p \in Procs, NEW c \in Children, Fork(p, c)
      PROVE  RunInv'
  <2>1. Processes' /\ Finishing'
    BY <1>1 DEF Fork
  <2>2. \A s \in Streams : Drained(s) => Drained(s)'
    BY <1>1 DEF Fork
  <2>3. group = {} => group' = {}
    BY <1>1 DEF Fork
  <2>4. Draining' /\ LeaderExits' /\ CompletedRunIsWhole'
    BY <1>1, <2>2, <2>3 DEF Fork
  <2> QED BY <2>1, <2>4
<1>2. ASSUME NEW c \in Children, Escape(c)
      PROVE  RunInv'
  BY <1>2 DEF Escape
<1>3. ASSUME NEW p \in Procs, NEW s \in Streams, Write(p, s)
      PROVE  RunInv'
  BY <1>3 DEF Write
<1>4. ASSUME NEW p \in Procs, NEW s \in Streams, Close(p, s)
      PROVE  RunInv'
  BY <1>4 DEF Close
<1>5. ASSUME NEW p \in Procs, Exit(p)
      PROVE  RunInv'
  <2>1. Processes'
    BY <1>5 DEF Exit
  <2>2. Draining' /\ Finishing' /\ LeaderExits'
    BY <1>5 DEF Exit
  <2>3. CompletedRunIsWhole'
    BY <1>5 DEF Exit
  <2> QED BY <2>1, <2>2, <2>3
<1> QED BY <1>1, <1>2, <1>3, <1>4, <1>5 DEF CommandStep

\* Every step of execute_request keeps the invariant: it takes a pipe off the
\* selector only when it is drained, and reaps only an empty group.
LEMMA RunnerKeeps ==
    ASSUME RunInv, RunnerStep
    PROVE  RunInv'
<1> USE RunnerConstants DEF RunInv, Processes, Draining, Drained, LeaderExits, Finishing,
        CompletedRunIsWhole, commandVars, Procs, Steps
<1>1. CASE LaunchFails
  BY <1>1 DEF LaunchFails
<1>2. CASE Launch
  BY <1>2 DEF Launch
<1>3. CASE Register
  BY <1>3 DEF Register
<1>4. CASE RunnerFails
  BY <1>4 DEF RunnerFails
<1>5. CASE Iterate
  BY <1>5 DEF Iterate
<1>6. CASE Select
  BY <1>6 DEF Select
<1>7. CASE Poll
  BY <1>7 DEF Poll
<1>8. CASE Reap
  BY <1>8 DEF Reap
<1>9. CASE Terminate
  BY <1>9 DEF Terminate, Kill, Gone
<1>10. CASE Cleanup
  BY <1>10 DEF Cleanup, Kill, Gone
<1>11. ASSUME NEW s \in Streams, Read(s)
       PROVE  RunInv'
  BY <1>11 DEF Read, Readable
<1> QED BY <1>1, <1>2, <1>3, <1>4, <1>5, <1>6, <1>7, <1>8, <1>9, <1>10, <1>11 DEF RunnerStep

\* The invariant is inductive.
LEMMA StepKeeps ==
    ASSUME RunInv, [Next]_vars
    PROVE  RunInv'
<1>1. CASE Expire
  BY <1>1 DEF Expire, commandVars, runnerVars, RunInv, Processes, Draining, Drained,
     LeaderExits, Finishing, CompletedRunIsWhole
<1>2. CASE UNCHANGED vars
  BY <1>2 DEF vars, commandVars, runnerVars, RunInv, Processes, Draining, Drained,
     LeaderExits, Finishing, CompletedRunIsWhole
<1> QED BY <1>1, <1>2, CommandKeeps, RunnerKeeps DEF Next, Returned

\* A run that is reported as passed or failed has no live process in its group
\* and no output left in its pipes.
THEOREM CompletedRuns == Spec => []CompletedRunIsWhole
<1>1. Init => RunInv
  BY RunnerConstants DEF Init, RunInv, Processes, Draining, LeaderExits, Finishing,
     CompletedRunIsWhole, Steps
<1>2. RunInv /\ [Next]_vars => RunInv'
  BY StepKeeps
<1>3. RunInv => CompletedRunIsWhole
  BY DEF RunInv
<1> QED BY <1>1, <1>2, <1>3, PTL DEF Spec

(***************************************************************************)
(* What leaves nothing behind: the finally block skips the kill only for a *)
(* group that is gone or that was already terminated, and only a refusal   *)
(* of the host lets a part of it survive either kill.                      *)
(***************************************************************************)
Ending ==
    /\ timedOut => pc \in {"terminate", "cleanup", "returned"}
    /\ pc = "terminate" => timedOut
    /\ pc \in {"cleanup", "returned"} => status # None
    /\ pc = "launch" => group = {}
    /\ pc = "returned" \/ (pc = "cleanup" /\ (finished \/ timedOut)) => group = {} \/ refused

\* A call that returns leaves no process of the group behind, unless the host
\* refused the kill, and a run that left one is neither passed nor failed.
THEOREM GroupsEnd == Spec => []NothingOutlivesTheCall
<1> DEFINE EndInv == RunInv /\ Ending
<1>1. Init => EndInv
  BY RunnerConstants DEF Init, RunInv, Processes, Draining, LeaderExits, Finishing,
     CompletedRunIsWhole, Steps, Ending
<1>2. EndInv /\ [Next]_vars => EndInv'
  <2> SUFFICES ASSUME RunInv, Ending, [Next]_vars
               PROVE  EndInv'
    OBVIOUS
  <2>1. RunInv'
    BY StepKeeps
  <2>2. CASE CommandStep
    <3>1. (group = {} => group' = {}) /\ UNCHANGED runnerVars
      BY <2>2 DEF CommandStep, Fork, Escape, Write, Close, Exit, Gone, RunInv, Processes
    <3> QED BY <3>1, <2>1, <2>2 DEF Ending, runnerVars
  <2>3. CASE RunnerStep
    <3> USE RunnerConstants DEF Ending, commandVars
    <3>1. CASE LaunchFails \/ Launch \/ Register \/ RunnerFails
      BY <3>1, <2>1 DEF LaunchFails, Launch, Register, RunnerFails, RunInv, Finishing
    <3>2. CASE Iterate \/ Select \/ Poll \/ \E s \in Streams : Read(s)
      BY <3>2, <2>1 DEF Iterate, Select, Poll, Read
    <3>3. CASE Reap
      BY <3>3, <2>1 DEF Reap, RunInv, Finishing
    <3>4. CASE Terminate
      BY <3>4, <2>1 DEF Terminate, Kill, Gone
    <3>5. CASE Cleanup
      BY <3>5, <2>1 DEF Cleanup, Kill, Gone
    <3> QED BY <2>3, <3>1, <3>2, <3>3, <3>4, <3>5 DEF RunnerStep
  <2>4. CASE Expire \/ UNCHANGED vars
    BY <2>4, <2>1 DEF Expire, vars, commandVars, runnerVars, Ending
  <2> QED BY <2>2, <2>3, <2>4 DEF Next, Returned
<1>3. EndInv => NothingOutlivesTheCall
  <2> SUFFICES ASSUME RunInv, Ending, pc = "returned", group # {}
               PROVE  refused /\ status \in {"timed_out", "errored"}
    BY DEF NothingOutlivesTheCall
  <2>1. refused /\ status # None
    BY DEF Ending
  <2>2. ~finished /\ status \notin {"passed", "failed"}
    BY DEF RunInv, Finishing
  <2> QED BY <2>1, <2>2 DEF RunInv, Finishing
<1> QED BY <1>1, <1>2, <1>3, PTL DEF Spec

(***************************************************************************)
(* Types.  What is not bounded by the types alone: a pipe is only left to  *)
(* read while the round lasts, and nothing is collected that was not       *)
(* written.                                                                *)
(***************************************************************************)

TypeInv ==
    /\ RunInv /\ TypeOK
    /\ ready # {} => pc = "read"

\* The command's steps keep the types: a process leaves the group or the pipes,
\* or joins them where the one that starts it is.
LEMMA CommandTypes ==
    ASSUME TypeInv, CommandStep
    PROVE  TypeOK' /\ (ready # {} => pc = "read")'
<1> USE RunnerConstants DEF TypeInv, TypeOK, RunInv, Processes, runnerVars, Procs, Gone
<1>1. ASSUME NEW p \in Procs, NEW c \in Children, Fork(p, c)
      PROVE  TypeOK' /\ (ready # {} => pc = "read")'
  BY <1>1 DEF Fork
<1>2. ASSUME NEW c \in Children, Escape(c)
      PROVE  TypeOK' /\ (ready # {} => pc = "read")'
  BY <1>2 DEF Escape
<1>3. ASSUME NEW p \in Procs, NEW s \in Streams, Write(p, s)
      PROVE  TypeOK' /\ (ready # {} => pc = "read")'
  BY <1>3 DEF Write
<1>4. ASSUME NEW p \in Procs, NEW s \in Streams, Close(p, s)
      PROVE  TypeOK' /\ (ready # {} => pc = "read")'
  BY <1>4 DEF Close
<1>5. ASSUME NEW p \in Procs, Exit(p)
      PROVE  TypeOK' /\ (ready # {} => pc = "read")'
  BY <1>5 DEF Exit
<1> QED BY <1>1, <1>2, <1>3, <1>4, <1>5 DEF CommandStep

\* A kill takes processes away, from the group and from the pipes alike.
LEMMA KillTypes ==
    ASSUME TypeOK, Kill
    PROVE  /\ group' \subseteq Procs
           /\ escaped' \subseteq Children \ group'
           /\ holds' \in [Streams -> SUBSET (group' \cup escaped')]
           /\ refused' \in BOOLEAN
<1>1. ASSUME NEW ps, Gone(ps)
      PROVE  /\ group' \subseteq Procs
             /\ escaped' \subseteq Children \ group'
             /\ holds' \in [Streams -> SUBSET (group' \cup escaped')]
  BY <1>1 DEF Gone, TypeOK
<1> QED BY <1>1 DEF Kill, TypeOK

\* Every step of execute_request keeps the types.
LEMMA RunnerTypes ==
    ASSUME TypeInv, RunnerStep
    PROVE  TypeOK' /\ (ready # {} => pc = "read")'
<1> USE RunnerConstants DEF TypeInv, TypeOK, RunInv, Processes, commandVars, Procs, Steps
<1>1. CASE LaunchFails \/ Launch \/ Register \/ RunnerFails
  BY <1>1 DEF LaunchFails, Launch, Register, RunnerFails
<1>2. CASE Iterate \/ Poll \/ Reap
  BY <1>2 DEF Iterate, Poll, Reap
<1>3. CASE Select
  BY <1>3 DEF Select
<1>4. CASE Terminate
  <2>1. ready = {} /\ ready' = {} /\ pc' \in Steps /\ status' = "timed_out"
    BY <1>4 DEF Terminate
  <2>2. UNCHANGED <<started, written, exit, expired, streams, received, finished, timedOut>>
    BY <1>4 DEF Terminate
  <2> QED BY <1>4, <2>1, <2>2, KillTypes DEF Terminate
<1>5. CASE Cleanup
  <2>1. ready = {} /\ ready' = {} /\ pc' \in Steps /\ streams' = {}
    BY <1>5 DEF Cleanup
  <2>2. UNCHANGED <<started, written, exit, expired, received, finished, timedOut, status>>
    BY <1>5 DEF Cleanup
  <2>3. CASE finished \/ timedOut
    BY <1>5, <2>1, <2>2, <2>3 DEF Cleanup
  <2>4. CASE ~(finished \/ timedOut)
    BY <1>5, <2>1, <2>2, <2>4, KillTypes DEF Cleanup
  <2> QED BY <2>3, <2>4
<1>6. ASSUME NEW s \in Streams, Read(s)
      PROVE  TypeOK' /\ (ready # {} => pc = "read")'
  BY <1>6 DEF Read
<1> QED BY <1>1, <1>2, <1>3, <1>4, <1>5, <1>6 DEF RunnerStep

\* Whatever the command does, no process is in the group and out of it, a pipe
\* is held by live processes only, and no more is collected than was written.
THEOREM RunnerTypeCorrect == Spec => []TypeOK
<1>1. Init => TypeInv
  <2> SUFFICES ASSUME Init
               PROVE  TypeInv
    OBVIOUS
  <2>1. RunInv
    BY RunnerConstants DEF Init, RunInv, Processes, Draining, LeaderExits, Finishing,
       CompletedRunIsWhole, Steps
  <2>2. TypeOK
    <3>1. /\ written \in [Streams -> 0 .. MaxWrites]
          /\ \A s \in Streams : received[s] \in 0 .. written[s]
          /\ holds \in [Streams -> SUBSET (group \cup escaped)]
      BY RunnerConstants DEF Init
    <3> QED BY <3>1 DEF Init, TypeOK, Steps
  <2> QED BY <2>1, <2>2 DEF Init, TypeInv
<1>2. TypeInv /\ [Next]_vars => TypeInv'
  <2> SUFFICES ASSUME TypeInv, [Next]_vars
               PROVE  TypeInv'
    OBVIOUS
  <2>1. RunInv'
    BY StepKeeps DEF TypeInv
  <2>2. CASE CommandStep \/ RunnerStep
    BY <2>1, <2>2, CommandTypes, RunnerTypes DEF TypeInv
  <2>3. CASE Expire \/ UNCHANGED vars
    BY <2>1, <2>3 DEF Expire, vars, commandVars, runnerVars, TypeInv, TypeOK
  <2> QED BY <2>2, <2>3 DEF Next, Returned
<1>3. TypeInv => TypeOK
  BY DEF TypeInv
<1> QED BY <1>1, <1>2, <1>3, PTL DEF Spec

=============================================================================
