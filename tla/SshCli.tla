------------------------------- MODULE SshCli -------------------------------
(***************************************************************************)
(* Supervision of a system ssh process (SshCliRemote::stream, and run,     *)
(* which has no writers): a loop polls two pipes, the cancellation flag    *)
(* and the process, with a grace period after the interrupt, one after the *)
(* kill and one for pipes that outlive the process; writer threads copy    *)
(* the output to the caller's writers.                                     *)
(***************************************************************************)
EXTENDS Integers, FiniteSets

CONSTANTS
    Streams,      \* stdout and stderr
    ReadLimit,    \* reads of one pipe in one round of the loop (16)
    MaxChunks     \* bound on the chunks the process writes to a pipe

ASSUME CliAssumption == ReadLimit \in Nat

VARIABLES
    cli,        \* the call: "idle", "poll", "wait", "finish", "returned"
    verdict,    \* its result
    writers,    \* does the call stream to writers?
    process,    \* "running", "zombie", "reaped"
    killed,     \* has the process been killed?
    exitSeen,   \* has the loop got the exit status?
    ends,       \* pipes the process or a descendant still holds open
    wrote,      \* chunks put into each pipe
    read,       \* chunks taken from each pipe
    opened,     \* pipes the loop still reads (stdout_open, stderr_open)
    writer,     \* each writer thread: "copying", "ok", "failed"
    written,    \* chunks handed to each of the caller's writers
    stop,       \* cancellation flag
    graces,     \* the three deadlines: "unset", "set", "over"
    reaper      \* who still owns the process after the call: "call", "drop", "thread", "nobody"

cliVars == <<cli, verdict, writers, process, killed, exitSeen, ends, wrote, read,
             opened, writer, written, stop, graces, reaper>>
worldVars == <<process, ends, wrote>>
loopVars == <<exitSeen, read, opened, graces>>

NoGrace == [interrupt |-> "unset", kill |-> "unset", pipes |-> "unset"]

CliErrors == {"spawn", "io", "exit", "cancelled", "write", "interrupt", "pipes"}

CliTypeOK ==
    /\ cli \in {"idle", "poll", "wait", "finish", "returned"}
    /\ verdict \in {"none", "ok"} \cup CliErrors
    /\ process \in {"running", "zombie", "reaped"}
    /\ \A s \in Streams : read[s] \in 0..wrote[s] /\ written[s] \in 0..read[s]
    /\ reaper \in {"call", "drop", "thread", "nobody"}

CliInit ==
    /\ cli = "idle" /\ verdict = "none" /\ writers \in BOOLEAN
    /\ process = "running" /\ killed = FALSE /\ exitSeen = FALSE
    /\ ends = Streams /\ opened = Streams
    /\ wrote = [s \in Streams |-> 0] /\ read = wrote /\ written = wrote
    /\ writer = [s \in Streams |-> "copying"]
    /\ stop = FALSE /\ graces = NoGrace /\ reaper = "call"

\* spawn_piped and OutputForwarders::spawn
Spawn ==
    /\ cli = "idle"
    /\ \/ cli' = "poll" /\ UNCHANGED <<verdict, process, reaper>>
       \/ cli' = "returned" /\ verdict' = "spawn" /\ process' = "reaped" /\ reaper' = "nobody"
    /\ UNCHANGED <<writers, killed, ends, wrote, loopVars, writer, written, stop>>

(***************************************************************************)
(* The process, its descendants, the writers and the canceller.            *)
(***************************************************************************)
Output(s) ==
    /\ cli # "idle" /\ s \in ends /\ wrote[s] < MaxChunks
    /\ wrote' = [wrote EXCEPT ![s] = @ + 1]
    /\ UNCHANGED <<cli, verdict, writers, process, killed, ends, loopVars, writer, written, stop, reaper>>

\* A descendant may keep a pipe open when the process has exited.
Exit ==
    /\ cli # "idle" /\ process = "running" /\ process' = "zombie"
    /\ ends' \in SUBSET ends
    /\ UNCHANGED <<cli, verdict, writers, killed, wrote, loopVars, writer, written, stop, reaper>>

ClosePipe(s) ==
    /\ cli # "idle" /\ s \in ends /\ ends' = ends \ {s}
    /\ UNCHANGED <<cli, verdict, writers, process, killed, wrote, loopVars, writer, written, stop, reaper>>

\* copy_chunks: a writer takes a chunk, fails, or ends once the sender is dropped.
WriterStep(s) ==
    /\ writers /\ cli # "idle" /\ writer[s] = "copying"
    /\ \/ /\ written[s] < read[s]
          /\ \/ written' = [written EXCEPT ![s] = @ + 1] /\ UNCHANGED writer
             \/ writer' = [writer EXCEPT ![s] = "failed"] /\ UNCHANGED written
       \/ /\ written[s] = read[s] /\ cli \in {"finish", "returned"}
          /\ writer' = [writer EXCEPT ![s] = "ok"] /\ UNCHANGED written
    /\ UNCHANGED <<cli, verdict, writers, killed, worldVars, loopVars, stop, reaper>>

CancelCommand ==
    /\ cli # "idle" /\ ~stop /\ stop' = TRUE
    /\ UNCHANGED <<cli, verdict, writers, killed, worldVars, loopVars, writer, written, reaper>>

\* The time of a deadline comes.
GraceOver(g) ==
    /\ graces[g] = "set" /\ graces' = [graces EXCEPT ![g] = "over"]
    /\ UNCHANGED <<cli, verdict, writers, killed, worldVars, exitSeen, read, opened, writer, written, stop, reaper>>

(***************************************************************************)
(* The loop of supervise_child_with_timeouts.                              *)
(***************************************************************************)
\* The call returns: the process is dropped, killed unless it has exited.
DropOwned == reaper' = "drop"
Give(result) == verdict' = result /\ cli' = "returned" /\ DropOwned

Unread(s) == wrote[s] - read[s]
Take(s) == IF s \notin opened THEN 0 ELSE IF Unread(s) < ReadLimit THEN Unread(s) ELSE ReadLimit
PipeAtEof(s) == s \notin ends /\ Unread(s) < ReadLimit

\* A writer that has failed ends the call; else the pipes are read, and the
\* first round that sees the flag interrupts the process.
PollPipes ==
    /\ cli = "poll"
    /\ IF \E s \in Streams : writers /\ writer[s] = "failed"
       THEN Give("write") /\ killed' = TRUE /\ UNCHANGED <<loopVars>>
       ELSE /\ read' = [s \in Streams |-> read[s] + Take(s)]
            /\ opened' = {s \in opened : ~PipeAtEof(s)}
            /\ IF stop /\ graces.interrupt = "unset"
               THEN IF process = "reaped"
                    THEN Give("interrupt") /\ killed' = TRUE /\ UNCHANGED graces
                    ELSE /\ graces' = [graces EXCEPT !.interrupt = "set"] /\ cli' = "wait"
                         /\ UNCHANGED <<verdict, reaper, killed>>
               ELSE cli' = "wait" /\ UNCHANGED <<graces, verdict, reaper, killed>>
            /\ UNCHANGED exitSeen
    /\ UNCHANGED <<writers, worldVars, writer, written, stop>>

\* Mutant: a process that ignores the interrupt is not killed.
KillDueNever == FALSE
\* The grace period of the interrupt is over and the process not yet killed.
KillDue == graces.interrupt = "over" /\ graces.kill = "unset"

\* try_wait, then the deadlines.
WaitChild ==
    /\ cli = "wait"
    /\ LET exited == process = "zombie" \/ exitSeen
           pipes == IF exited /\ graces.pipes = "unset" THEN "set" ELSE graces.pipes
       IN  /\ process' = IF process = "zombie" THEN "reaped" ELSE process
           /\ exitSeen' = exited
           /\ IF exited /\ opened = {}
              THEN /\ UNCHANGED <<killed, graces>>
                   /\ IF stop THEN Give("cancelled")
                      ELSE IF writers THEN cli' = "finish" /\ UNCHANGED <<verdict, reaper>>
                      ELSE \E result \in {"ok", "exit"} : Give(result)
              ELSE /\ killed' = (killed \/ KillDue)
                   /\ graces' = [graces EXCEPT !.pipes = pipes, !.kill = IF KillDue THEN "set" ELSE @]
                   /\ IF graces.kill = "over" THEN Give("cancelled")
                      ELSE IF graces.pipes = "over" THEN Give(IF stop THEN "cancelled" ELSE "pipes")
                      ELSE cli' = "poll" /\ UNCHANGED <<verdict, reaper>>
    /\ UNCHANGED <<writers, ends, wrote, read, opened, writer, written, stop>>

\* Mutant: the call does not wait for its writers.
FinishWritersNot ==
    /\ cli = "finish"
    /\ \E result \in {"ok", "exit"} : Give(result)
    /\ UNCHANGED <<writers, killed, worldVars, loopVars, writer, written, stop>>

\* finish_output_writers: both threads report before the call returns.
FinishWriters ==
    /\ cli = "finish"
    /\ \/ (\E s \in Streams : writer[s] = "failed") /\ Give("write")
       \/ (\A s \in Streams : writer[s] = "ok") /\ \E result \in {"ok", "exit"} : Give(result)
    /\ UNCHANGED <<writers, killed, worldVars, loopVars, writer, written, stop>>

(***************************************************************************)
(* OwnedChild::drop reaps the process, or leaves it to a thread.           *)
(***************************************************************************)
DropChild ==
    /\ reaper = "drop"
    /\ killed' = (killed \/ process = "running")
    /\ process' = IF process = "zombie" THEN "reaped" ELSE process
    /\ reaper' \in IF process = "running" THEN {"thread"} ELSE {"nobody"}
    /\ UNCHANGED <<cli, verdict, writers, ends, wrote, loopVars, writer, written, stop>>

ThreadWaits ==
    /\ reaper = "thread" /\ process # "running"
    /\ process' = "reaped" /\ reaper' = "nobody"
    /\ UNCHANGED <<cli, verdict, writers, killed, ends, wrote, loopVars, writer, written, stop>>

\* A pipe cannot be made nonblocking or read, or the process not waited for.
CliIoError ==
    /\ cli \in {"poll", "wait"} /\ Give("io") /\ killed' = TRUE
    /\ UNCHANGED <<writers, worldVars, loopVars, writer, written, stop>>

CliStep == PollPipes \/ WaitChild \/ FinishWriters
CliNext ==
    \/ Spawn \/ Exit \/ CliIoError \/ CancelCommand \/ CliStep \/ DropChild \/ ThreadWaits
    \/ \E s \in Streams : Output(s) \/ ClosePipe(s) \/ WriterStep(s)
    \/ \E g \in DOMAIN NoGrace : GraceOver(g)

\* Time passes and a killed process dies. Nothing is asked of the process, its
\* descendants or the caller's writers.
CliFairness ==
    /\ WF_cliVars(CliStep)
    /\ WF_cliVars(DropChild \/ ThreadWaits \/ (killed /\ Exit))
    /\ WF_cliVars(\E g \in DOMAIN NoGrace : GraceOver(g))

-----------------------------------------------------------------------------
\* A call that reports the exit of the command has delivered its whole output:
\* both pipes were read to their ends and both writers took every chunk.
OutputIsWhole ==
    verdict \in {"ok", "exit"} =>
        \A s \in Streams :
            /\ s \notin ends /\ read[s] = wrote[s]
            /\ writers => written[s] = wrote[s]

\* A cancelled call returns, although the process ignores the interrupt, a
\* descendant holds the pipes or a writer blocks; only a call whose command is
\* over waits for its writers. Whatever is left of the process is reaped.
\* (True again and again in every fair behaviour.)
CancelledCallIsOver ==
    /\ stop => cli \in {"finish", "returned"}
    /\ cli = "returned" => process = "reaped"
=============================================================================
