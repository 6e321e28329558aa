--------------------------- MODULE ProcessRunner ---------------------------
(***************************************************************************)
(* execute_request from Popen to its return: one loop that drains two      *)
(* pipes, polls a process group and watches an absolute deadline, while    *)
(* the processes of the command start others, write, exit or leave the     *)
(* group.                                                                  *)
(*                                                                         *)
(* Output is counted in chunks.  A process holds a pipe while it has the   *)
(* write end open, and the pipe is at its end when nobody does.            *)
(***************************************************************************)
EXTENDS Naturals

CONSTANTS
    Children,  \* processes the command may start
    MaxWrites, \* bound: chunks written to a stream
    None

Leader == "leader"
Procs == {Leader} \cup Children
Streams == {"stdout", "stderr"}

ASSUME RunnerConstants ==
    /\ Leader \notin Children
    /\ MaxWrites \in Nat
    /\ None \notin {"passed", "failed", "timed_out", "errored"}

VARIABLES
    group,    \* live processes of the command's process group
    escaped,  \* live processes that have left it for a session of their own
    started,  \* processes that have been started
    holds,    \* the processes that hold each pipe
    written,  \* chunks written to each pipe
    exit,     \* the leader's exit code: "zero", "nonzero" or None
    expired,  \* the deadline has passed
    pc,       \* where execute_request is
    streams,  \* the pipes still registered with the selector
    ready,    \* the pipes the last select returned, not yet read
    received, \* chunks collected from each pipe
    finished, \* process_group_finished
    timedOut, \* timed_out
    status,   \* status of the result, None before there is one
    refused   \* history: the host refused to kill the group

commandVars == <<group, escaped, started, holds, written, exit>>
runnerVars == <<pc, streams, ready, received, finished, timedOut, status, refused>>
vars == <<commandVars, expired, runnerVars>>

Steps ==
    { "launch", "register", "loop", "select", "read", "poll", "reap", "terminate",
      "cleanup", "returned" }

TypeOK ==
    /\ group \subseteq Procs
    /\ escaped \subseteq Children \ group
    /\ started \subseteq Procs
    /\ holds \in [Streams -> SUBSET (group \cup escaped)]
    /\ written \in [Streams -> 0 .. MaxWrites]
    /\ exit \in {"zero", "nonzero", None}
    /\ expired \in BOOLEAN
    /\ pc \in Steps
    /\ streams \subseteq Streams /\ ready \subseteq streams
    /\ \A s \in Streams : received[s] \in 0 .. written[s]
    /\ finished \in BOOLEAN /\ timedOut \in BOOLEAN /\ refused \in BOOLEAN
    /\ status \in {"passed", "failed", "timed_out", "errored", None}

Init ==
    /\ group = {} /\ escaped = {} /\ started = {}
    /\ holds = [s \in Streams |-> {}]
    /\ written = [s \in Streams |-> 0]
    /\ exit = None
    /\ expired = FALSE
    /\ pc = "launch"
    /\ streams = {} /\ ready = {}
    /\ received = [s \in Streams |-> 0]
    /\ finished = FALSE /\ timedOut = FALSE
    /\ status = None
    /\ refused = FALSE

-----------------------------------------------------------------------------
(* The processes of the command, and the clock.                            *)

\* The processes ps are gone, and their ends of the pipes with them.
Gone(ps) ==
    /\ group' = group \ ps
    /\ escaped' = escaped \ ps
    /\ holds' = [s \in Streams |-> holds[s] \ ps]

\* A child is born into the group, or out of it, of the process that starts it.
Fork(p, c) ==
    /\ p \in group \cup escaped
    /\ c \notin started
    /\ group' = IF p \in group THEN group \cup {c} ELSE group
    /\ escaped' = IF p \in group THEN escaped ELSE escaped \cup {c}
    /\ started' = started \cup {c}
    /\ holds' = [s \in Streams |-> IF p \in holds[s] THEN holds[s] \cup {c} ELSE holds[s]]
    /\ UNCHANGED <<written, exit, expired, runnerVars>>

Escape(c) ==
    /\ c \in group \cap Children
    /\ group' = group \ {c}
    /\ escaped' = escaped \cup {c}
    /\ UNCHANGED <<started, holds, written, exit, expired, runnerVars>>

Write(p, s) ==
    /\ p \in holds[s]
    /\ written[s] < MaxWrites
    /\ written' = [written EXCEPT ![s] = @ + 1]
    /\ UNCHANGED <<group, escaped, started, holds, exit, expired, runnerVars>>

Close(p, s) ==
    /\ p \in holds[s]
    /\ holds' = [holds EXCEPT ![s] = @ \ {p}]
    /\ UNCHANGED <<group, escaped, started, written, exit, expired, runnerVars>>

Exit(p) ==
    /\ p \in group \cup escaped
    /\ Gone({p})
    /\ IF p = Leader THEN exit' \in {"zero", "nonzero"} ELSE UNCHANGED exit
    /\ UNCHANGED <<started, written, expired, runnerVars>>

Expire ==
    /\ ~expired
    /\ expired' = TRUE
    /\ UNCHANGED <<commandVars, runnerVars>>

-----------------------------------------------------------------------------
(* Starting.                                                               *)

LaunchFails ==
    /\ pc = "launch"
    /\ status' = "errored"
    /\ pc' = "returned"
    /\ UNCHANGED <<commandVars, expired, streams, ready, received, finished, timedOut, refused>>

\* Popen: the leader of a new session and process group, with both pipes.
Launch ==
    /\ pc = "launch"
    /\ group' = {Leader}
    /\ started' = {Leader}
    /\ holds' = [s \in Streams |-> {Leader}]
    /\ pc' = "register"
    /\ UNCHANGED <<escaped, written, exit, expired, streams, ready, received, finished,
                   timedOut, status, refused>>

Register ==
    /\ pc = "register"
    /\ streams' = Streams
    /\ pc' = "loop"
    /\ UNCHANGED <<commandVars, expired, ready, received, finished, timedOut, status, refused>>

\* An exception after Popen: registering, selecting or collecting fails.
RunnerFails ==
    /\ pc \in {"register", "select", "read"}
    /\ status' = "errored"
    /\ ready' = {}
    /\ pc' = "cleanup"
    /\ UNCHANGED <<commandVars, expired, streams, received, finished, timedOut, refused>>

-----------------------------------------------------------------------------
(* The loop.                                                               *)

\* Mutant of Iterate: the deadline is only looked at while there is output.
IterateWhileOpen ==
    /\ pc = "loop"
    /\ IF expired /\ streams # {}
       THEN timedOut' = TRUE /\ pc' = "terminate"
       ELSE timedOut' = timedOut /\ pc' = IF streams # {} THEN "select" ELSE "poll"
    /\ UNCHANGED <<commandVars, expired, streams, ready, received, finished, status, refused>>

\* The deadline, then the pipes while there are any, then the group.
Iterate ==
    /\ pc = "loop"
    /\ IF expired
       THEN timedOut' = TRUE /\ pc' = "terminate"
       ELSE timedOut' = timedOut /\ pc' = IF streams # {} THEN "select" ELSE "poll"
    /\ UNCHANGED <<commandVars, expired, streams, ready, received, finished, status, refused>>

Readable(s) == received[s] < written[s] \/ holds[s] = {}

\* selector.select(remaining) blocks until a pipe is readable or time is up.
Select ==
    /\ pc = "select"
    /\ LET readable == {s \in streams : Readable(s)}
       IN  \/ /\ readable # {}
              /\ ready' = readable
              /\ pc' = "read"
              /\ UNCHANGED timedOut
           \/ /\ readable = {} /\ expired
              /\ timedOut' = TRUE
              /\ pc' = "terminate"
              /\ UNCHANGED ready
    /\ UNCHANGED <<commandVars, expired, streams, received, finished, status, refused>>

\* Mutant of Read: a pipe that is closed stays in the round.
ReadAgain(s) ==
    /\ pc = "read" /\ s \in ready
    /\ received[s] = written[s] /\ holds[s] = {}
    /\ streams' = streams \ {s}
    /\ UNCHANGED received
    /\ UNCHANGED <<commandVars, expired, pc, ready, finished, timedOut, status, refused>>

\* One read of what there is; an empty read is the end of the pipe, and a read
\* that fails or would block leaves the pipe for the next round.
Read(s) ==
    /\ pc = "read" /\ s \in ready
    /\ \/ /\ received[s] < written[s]
          /\ received' = [received EXCEPT ![s] = written[s]]
          /\ UNCHANGED streams
       \/ /\ received[s] = written[s] /\ holds[s] = {}
          /\ streams' = streams \ {s}
          /\ UNCHANGED received
       \/ UNCHANGED <<streams, received>>
    /\ ready' = ready \ {s}
    /\ pc' = IF ready' = {} THEN "loop" ELSE "read"
    /\ UNCHANGED <<commandVars, expired, finished, timedOut, status, refused>>

\* Mutant of Poll: only the process that was started counts.
PollLeader ==
    /\ pc = "poll"
    /\ finished' = (Leader \notin group)
    /\ pc' = IF finished' THEN "reap" ELSE "loop"
    /\ UNCHANGED <<commandVars, expired, streams, ready, received, timedOut, status, refused>>

\* _process_group_alive: the leader first, then any other process of the group.
Poll ==
    /\ pc = "poll"
    /\ finished' = (group = {})
    /\ pc' = IF finished' THEN "reap" ELSE "loop"
    /\ UNCHANGED <<commandVars, expired, streams, ready, received, timedOut, status, refused>>

\* process.wait: the leader has been polled, so its exit code is there.
Reap ==
    /\ pc = "reap"
    /\ status' = IF exit = "zero" THEN "passed" ELSE "failed"
    /\ pc' = "cleanup"
    /\ UNCHANGED <<commandVars, expired, streams, ready, received, finished, timedOut, refused>>

-----------------------------------------------------------------------------
(* Ending.                                                                 *)

\* _terminate_process_group: SIGKILL to the group or, where the host refuses
\* that, to its leader.  The host may let a part of the group escape either
\* signal (a process of another user).  A process that has been sent SIGKILL
\* takes no more steps of its own and counts as gone.
Kill ==
    \/ /\ Gone(group)
       /\ UNCHANGED refused
    \/ /\ \E ps \in (SUBSET group) \ {group} : Gone(ps)
       /\ refused' = TRUE

Terminate ==
    /\ pc = "terminate"
    /\ Kill
    /\ status' = "timed_out"
    /\ pc' = "cleanup"
    /\ UNCHANGED <<started, written, exit, expired, streams, ready, received, finished, timedOut>>

\* Mutant of Cleanup: an exception leaves the group alone.
CleanupPipes ==
    /\ pc = "cleanup"
    /\ UNCHANGED <<group, escaped, holds, refused>>
    /\ streams' = {}
    /\ pc' = "returned"
    /\ UNCHANGED <<started, written, exit, expired, ready, received, finished, timedOut, status>>

\* The finally block: a group that neither finished nor was terminated is
\* terminated here, then the pipes are closed.
Cleanup ==
    /\ pc = "cleanup"
    /\ IF finished \/ timedOut
       THEN UNCHANGED <<group, escaped, holds, refused>>
       ELSE Kill
    /\ streams' = {}
    /\ pc' = "returned"
    /\ UNCHANGED <<started, written, exit, expired, ready, received, finished, timedOut, status>>

RunnerStep ==
    \/ LaunchFails \/ Launch \/ Register \/ RunnerFails
    \/ Iterate \/ Select \/ Poll \/ Reap \/ Terminate \/ Cleanup
    \/ \E s \in Streams : Read(s)

CommandStep ==
    \/ \E p \in Procs, c \in Children : Fork(p, c)
    \/ \E c \in Children : Escape(c)
    \/ \E p \in Procs, s \in Streams : Write(p, s) \/ Close(p, s)
    \/ \E p \in Procs : Exit(p)

Returned == pc = "returned" /\ UNCHANGED vars

Next == RunnerStep \/ CommandStep \/ Expire \/ Returned

Spec == Init /\ [][Next]_vars

\* execute_request runs in the caller's thread and time passes; nothing is
\* assumed of the command, which may hang or write for ever.
FairSpec == Spec /\ WF_vars(RunnerStep) /\ WF_vars(Expire)

-----------------------------------------------------------------------------
(* What a run promises.                                                    *)

\* docs/03_verification_strategy.md: closed pipes do not prove that the group
\* is finished.  A run that passed or failed is one whose whole group is gone
\* and whose output was collected to the last chunk, whoever wrote it and
\* however the exits, forks and escapes fell around the polls.
CompletedRunIsWhole ==
    status \in {"passed", "failed"} =>
      /\ group = {}
      /\ (status = "passed" <=> exit = "zero")
      /\ \A s \in Streams : holds[s] = {} /\ received[s] = written[s]

\* docs/04_security_and_trust.md: any error after Popen terminates the group.
\* However the call ends, nothing of the group outlives it unless the host
\* refused the kill, and then the run is neither passed nor failed.
NothingOutlivesTheCall ==
    pc = "returned" /\ group # {} => refused /\ status \in {"timed_out", "errored"}

\* The call returns, whatever the command does: hang, write for ever, close its
\* pipes and stay, or leave a process behind that keeps them open.
RunEnds == <>(pc = "returned")

=============================================================================
