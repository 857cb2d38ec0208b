---------------------------- MODULE LocalProcess ----------------------------
(***************************************************************************)
(* The local process Tool (greentyper local_process.rs, Unix): a durable    *)
(* call is requested, granted and executed by a child process, with one     *)
(* thread writing its input, two reading its output under a shared limit,   *)
(* and the caller waiting for its exit, the limit or the deadline.  Output  *)
(* and input are counted in units; a pipe holds PipeSize of them.           *)
(***************************************************************************)
EXTENDS Integers

CONSTANTS
    Scenarios,      \* smoke scenarios: name -> how its child behaves
    Message,        \* units of the echoed message
    MaxOutput,      \* output limit of both pipes together
    PipeSize

ASSUME ProcessAssumption == {Message, MaxOutput} \subseteq Nat /\ PipeSize \in Nat \ {0}

VARIABLES
    smoke,      \* the scenario whose commands are run, each with its own identity
    call,       \* its durable Tool call
    main,       \* where the running command is, or "none"
    child,      \* the child process
    descendant, \* a process the child started, with the same output pipes
    stdin,      \* units in the pipe, and whether the writer still has it
    pipe,       \* "out", "err" -> units in the pipe
    writer,     \* units left and state of the writer thread
    reader,     \* "out", "err" -> state, units just read, units kept
    total,      \* output_bytes
    exceeded,   \* output_limit_exceeded
    result,     \* what the executor returned
    ran         \* children started for it

process_vars == <<smoke, call, main, child, descendant, stdin, pipe, writer, reader, total,
                  exceeded, result, ran>>

Streams == {"out", "err"}
Names == DOMAIN Scenarios

\* The child modes: whether stdin is read to its end, the units written, and
\* what happens then.
Child(reads, out, err, then) ==
    [reads |-> reads, out |-> out, err |-> err, then |-> then, spawns |-> FALSE]
Echo == Child(TRUE, Message, 0, "exit0")
Hang == Child(FALSE, 0, 0, "hang")
Overflow == Child(FALSE, MaxOutput + 1, 0, "exit0")
Flood == Child(FALSE, MaxOutput + 1, 0, "hang")
Fail == Child(FALSE, 0, 1, "exit1")
Environment == Child(FALSE, 1, 0, "exit0")
DescendantHang == [Hang EXCEPT !.spawns = TRUE]
BlockedStdin == Child(FALSE, 0, 0, "sleep")

\* A scenario: the child's mode, whether its call is one validate_echo_call
\* accepts, whether a marker is waited at, and whether it can be spawned.
Programs == [reads : BOOLEAN, out : Nat, err : Nat, then : {"exit0", "exit1", "hang", "sleep"},
             spawns : BOOLEAN]
ASSUME ScenarioAssumption ==
    Scenarios \in [Names -> [program : Programs, valid : BOOLEAN, marker : BOOLEAN, starts : BOOLEAN]]

NoChild == [state |-> "none", program |-> Hang, out |-> 0, err |-> 0, got |-> 0]
NoThreads ==
    /\ stdin' = [units |-> 0, open |-> FALSE]
    /\ pipe' = [x \in Streams |-> 0]
    /\ writer' = [state |-> "none", left |-> 0]
    /\ reader' = [x \in Streams |-> [state |-> "none", chunk |-> 0, kept |-> 0]]
    /\ total' = 0 /\ exceeded' = FALSE

-----------------------------------------------------------------------------
(* The Tool call around the process.                                        *)

\* run_smoke: an earlier call of the same identity is reported, never run again.
Start ==
    /\ main = "none" /\ call = "none"
    /\ main' = "requested" /\ call' = "AwaitingApproval"
    /\ UNCHANGED <<smoke, child, descendant, stdin, pipe, writer, reader, total, exceeded, result, ran>>

\* The grant prepares the effect durably before it is executed.
GrantCall ==
    /\ main = "requested"
    /\ call' = "ReconciliationRequired"
    /\ main' = "execute"
    /\ UNCHANGED <<smoke, child, descendant, stdin, pipe, writer, reader, total, exceeded, result, ran>>

\* The marker a crash test waits at comes first, then validate_echo_call.
Valid == Scenarios[smoke].valid
Marked == Scenarios[smoke].marker
RefuseCall ==
    /\ main = "execute" /\ (Marked \/ ~Valid)
    /\ main' = "done" /\ result' = [kind |-> "Failed", output |-> 0]
    /\ UNCHANGED <<call, smoke, child, descendant, stdin, pipe, writer, reader, total, exceeded, ran>>
Park ==
    /\ main = "execute" /\ Marked
    /\ main' = "parked"
    /\ UNCHANGED <<call, smoke, child, descendant, stdin, pipe, writer, reader, total, exceeded, result, ran>>

SettleCall ==
    /\ main = "done"
    /\ call' = IF result.kind = "Ambiguous" THEN "ReconciliationRequired" ELSE result.kind
    /\ main' = "none"
    /\ child' = NoChild /\ descendant' = FALSE /\ NoThreads
    /\ result' = [kind |-> "none", output |-> 0]
    /\ UNCHANGED <<smoke, ran>>

\* The command dies.  Its child, if any, is no longer anyone's.
CommandDies ==
    /\ main # "none"
    /\ main' = "none"
    /\ child' = NoChild /\ descendant' = FALSE /\ NoThreads
    /\ result' = [kind |-> "none", output |-> 0]
    /\ UNCHANGED <<smoke, call, ran>>

-----------------------------------------------------------------------------
(* run_echo.                                                                *)

\* spawn fails, or the container cannot be activated and the child is killed.
NotStarted ==
    /\ main = "execute" /\ Valid /\ ~Marked
    /\ main' = "done" /\ result' = [kind |-> "Failed", output |-> 0]
    /\ UNCHANGED <<call, smoke, child, descendant, stdin, pipe, writer, reader, total, exceeded, ran>>
Uncontained ==
    /\ main = "execute" /\ Valid /\ ~Marked /\ Scenarios[smoke].starts
    /\ child' = [NoChild EXCEPT !.state = "killed"] /\ ran' = ran + 1
    /\ main' = "done" /\ result' = [kind |-> "Ambiguous", output |-> 0]
    /\ UNCHANGED <<call, smoke, descendant, stdin, pipe, writer, reader, total, exceeded>>

Spawn ==
    LET program == Scenarios[smoke].program IN
    /\ main = "execute" /\ Valid /\ ~Marked /\ Scenarios[smoke].starts
    /\ child' = [state |-> "run", program |-> program, out |-> program.out, err |-> program.err, got |-> 0]
    /\ ran' = ran + 1
    /\ stdin' = [units |-> 0, open |-> TRUE]
    /\ writer' = [state |-> "writing", left |-> Message]
    /\ reader' = [x \in Streams |-> [state |-> "reading", chunk |-> 0, kept |-> 0]]
    /\ main' = "waiting"
    /\ UNCHANGED <<call, smoke, descendant, pipe, total, exceeded, result>>

\* write_all: a child that is gone breaks the pipe.
Write ==
    /\ writer.state = "writing"
    /\ \/ /\ writer.left = 0
          /\ writer' = [writer EXCEPT !.state = "done"] /\ stdin' = [stdin EXCEPT !.open = FALSE]
       \/ /\ writer.left > 0 /\ child.state # "run"
          /\ writer' = [writer EXCEPT !.state = "failed"] /\ stdin' = [stdin EXCEPT !.open = FALSE]
       \/ /\ writer.left > 0 /\ child.state = "run" /\ stdin.units < PipeSize
          /\ writer' = [writer EXCEPT !.left = @ - 1] /\ stdin' = [stdin EXCEPT !.units = @ + 1]
    /\ UNCHANGED <<call, smoke, main, child, descendant, pipe, reader, total, exceeded, result, ran>>

\* read_bounded: what is in the pipe, counted with the other stream's; the
\* limit is announced in a step of its own, and reading goes on past it.
Kept(previous, n) == IF previous >= MaxOutput THEN 0
                     ELSE IF n < MaxOutput - previous THEN n ELSE MaxOutput - previous
Read(x) ==
    /\ reader[x].state = "reading"
    /\ IF pipe[x] > 0
       THEN /\ pipe' = [pipe EXCEPT ![x] = 0]
            /\ reader' = [reader EXCEPT ![x] = [@ EXCEPT !.state = "read", !.chunk = pipe[x]]]
       ELSE /\ child.state # "run" /\ ~descendant
            /\ reader' = [reader EXCEPT ![x].state = "done"]
            /\ UNCHANGED pipe
    /\ UNCHANGED <<call, smoke, main, child, descendant, stdin, writer, total, exceeded, result, ran>>
Count(x) ==
    LET n == reader[x].chunk IN
    /\ reader[x].state = "read"
    /\ total' = total + n
    /\ reader' = [reader EXCEPT ![x] =
            [state |-> IF n > MaxOutput - total THEN "over" ELSE "reading", chunk |-> 0,
             kept |-> IF x = "out" THEN @.kept + Kept(total, n) ELSE @.kept]]
    /\ UNCHANGED <<call, smoke, main, child, descendant, stdin, pipe, writer, exceeded, result, ran>>
Announce(x) ==
    /\ reader[x].state = "over"
    /\ exceeded' = TRUE /\ reader' = [reader EXCEPT ![x].state = "reading"]
    /\ UNCHANGED <<call, smoke, main, child, descendant, stdin, pipe, writer, total, result, ran>>

\* wait_for_exit: the exit first, then the limit, then the deadline.
SeeExit ==
    /\ main = "waiting" /\ child.state # "run"
    /\ main' = "joining"
    /\ UNCHANGED <<call, smoke, child, descendant, stdin, pipe, writer, reader, total, exceeded, result, ran>>
GiveUp_AtLimit ==
    /\ main = "waiting" /\ child.state = "run" /\ exceeded
    /\ main' = "killing"
    /\ UNCHANGED <<call, smoke, child, descendant, stdin, pipe, writer, reader, total, exceeded, result, ran>>
GiveUp ==
    /\ main = "waiting" /\ child.state = "run"
    /\ main' = "killing"
    /\ UNCHANGED <<call, smoke, child, descendant, stdin, pipe, writer, reader, total, exceeded, result, ran>>

\* terminate_and_wait: the group of a child that has not exited by now.
Terminate ==
    /\ main = "killing"
    /\ IF child.state = "run" THEN child' = [child EXCEPT !.state = "killed"] /\ descendant' = FALSE
       ELSE UNCHANGED <<child, descendant>>
    /\ main' = "abandoned"
    /\ UNCHANGED <<call, smoke, stdin, pipe, writer, reader, total, exceeded, result, ran>>

\* The three threads are joined before anything is classified.
Joined_Early == TRUE
Joined == writer.state \in {"done", "failed"} /\ \A x \in Streams : reader[x].state = "done"
classify_process ==
    CASE main = "abandoned" \/ writer.state = "failed" \/ exceeded -> "Ambiguous"
      [] main = "joining" /\ writer.state # "failed" /\ ~exceeded /\ child.state = "exit0" -> "Succeeded"
      [] OTHER -> "Failed"
Return ==
    /\ main \in {"joining", "abandoned"} /\ Joined
    /\ result' = [kind |-> classify_process,
                  output |-> IF classify_process = "Succeeded" THEN reader["out"].kept ELSE 0]
    /\ main' = "done"
    /\ UNCHANGED <<call, smoke, child, descendant, stdin, pipe, writer, reader, total, exceeded, ran>>

-----------------------------------------------------------------------------
(* The child: run_local_process_child.                                      *)

ReadInput ==
    /\ child.state = "run" /\ child.program.reads /\ stdin.units > 0
    /\ stdin' = [stdin EXCEPT !.units = 0] /\ child' = [child EXCEPT !.got = @ + stdin.units]
    /\ UNCHANGED <<call, smoke, main, descendant, pipe, writer, reader, total, exceeded, result, ran>>
HasInput == child.program.reads => stdin.units = 0 /\ ~stdin.open
WriteOutput(x) ==
    /\ child.state = "run" /\ HasInput /\ child[x] > 0 /\ pipe[x] < PipeSize
    /\ child' = [child EXCEPT ![x] = @ - 1] /\ pipe' = [pipe EXCEPT ![x] = @ + 1]
    /\ UNCHANGED <<call, smoke, main, descendant, stdin, writer, reader, total, exceeded, result, ran>>
SpawnDescendant ==
    /\ child.state = "run" /\ child.program.spawns /\ ~descendant
    /\ descendant' = TRUE /\ child' = [child EXCEPT !.program.spawns = FALSE]
    /\ UNCHANGED <<call, smoke, main, stdin, pipe, writer, reader, total, exceeded, result, ran>>
Exit ==
    /\ child.state = "run" /\ HasInput /\ child.out = 0 /\ child.err = 0
    /\ child.program.then # "hang"
    /\ child' = [child EXCEPT !.state = IF child.program.then = "exit1" THEN "exit1" ELSE "exit0"]
    /\ UNCHANGED <<call, smoke, main, descendant, stdin, pipe, writer, reader, total, exceeded, result, ran>>
DescendantExits ==
    /\ descendant /\ descendant' = FALSE
    /\ UNCHANGED <<call, smoke, main, child, stdin, pipe, writer, reader, total, exceeded, result, ran>>

-----------------------------------------------------------------------------
ProcessInit ==
    /\ smoke \in Names /\ call = "none" /\ ran = 0
    /\ main = "none" /\ child = NoChild /\ descendant = FALSE
    /\ stdin = [units |-> 0, open |-> FALSE] /\ pipe = [x \in Streams |-> 0]
    /\ writer = [state |-> "none", left |-> 0]
    /\ reader = [x \in Streams |-> [state |-> "none", chunk |-> 0, kept |-> 0]]
    /\ total = 0 /\ exceeded = FALSE /\ result = [kind |-> "none", output |-> 0]

ChildSteps ==
    ReadInput \/ WriteOutput("out") \/ WriteOutput("err") \/ SpawnDescendant \/ Exit \/ DescendantExits

ProcessNext ==
    \/ Start \/ GrantCall \/ RefuseCall \/ Park \/ SettleCall \/ CommandDies
    \/ NotStarted \/ Uncontained \/ Spawn
    \/ Write \/ SeeExit \/ GiveUp \/ Terminate \/ Return
    \/ \E x \in Streams : Read(x) \/ Count(x) \/ Announce(x)
    \/ ChildSteps

\* The executor's threads keep running, and its deadline passes.  Nothing is
\* assumed of the child, which may hang; a process holding the pipes is killed
\* with it.
ProcessFairness ==
    /\ WF_process_vars(Write) /\ WF_process_vars(SeeExit) /\ WF_process_vars(GiveUp)
    /\ WF_process_vars(Terminate) /\ WF_process_vars(Return)
    /\ \A x \in Streams :
          WF_process_vars(Read(x)) /\ WF_process_vars(Count(x)) /\ WF_process_vars(Announce(x))
ProcessSpec == ProcessInit /\ [][ProcessNext]_process_vars /\ ProcessFairness

-----------------------------------------------------------------------------
\* A success is of a child that exited well and was not killed, with all of its
\* standard output and within the limit; a failure is of a child that was never
\* started or ended badly by itself.  Anything else stays ambiguous.
OutcomeIsEarned ==
    /\ result.kind = "Succeeded" =>
          /\ child.state = "exit0"
          /\ result.output = child.program.out - child.out
          /\ child.out = 0 /\ child.program.out + child.program.err <= MaxOutput
    /\ result.kind = "Failed" => child.state \in {"none", "exit1"}

\* No scenario's effect is started twice, over any number of commands and
\* crashes, and a call that is settled is never left as if it had not run.
EffectRunsOnce ==
    /\ ran <= 1
    /\ ran = 1 => call \in {"ReconciliationRequired", "Succeeded", "Failed"}

\* The outcome of an effect is the child's, and there is one child.
EffectsAreSettled == OutcomeIsEarned /\ EffectRunsOnce

\* An execution that has begun returns, or its command dies: whatever the child
\* does with its pipes, and however long it runs.
ExecutionReturns == main = "waiting" ~> main \in {"done", "none"}
=============================================================================
