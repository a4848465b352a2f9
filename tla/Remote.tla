------------------------------- MODULE Remote -------------------------------
(***************************************************************************)
(* A command on an SSH session (Remote::run_bytes and Remote::stream): the *)
(* messages of the channel are taken in order, a stream hands each chunk   *)
(* to a writer that may block, and a cancellation interrupts the command   *)
(* and cleans the channel up within a time limit.  The sessions are those  *)
(* of SshClient; SshCli runs the same commands with the system's ssh.      *)
(***************************************************************************)
EXTENDS SshCli, SshClient

CONSTANT MaxMail     \* bound on the messages of a command

VARIABLES
    rc,         \* "idle", "opening", "starting", "reading", "writing", "interrupting", "draining", "returned"
    rverdict,   \* what the call returns once rc is "returned"
    rstream,    \* stream rather than run_bytes?
    rstop,      \* the caller's cancellation
    mail,       \* the messages taken from the channel so far, in order
    passedOn,  \* chunks handed to the writer or put into the output
    exit_status, exit_signal,
    session     \* its channel: "none", "open", "closed", or "abandoned" at a time limit

remoteVars == <<session, rc, rverdict, rstream, rstop, mail, passedOn, exit_status, exit_signal>>
resultVars == <<mail, passedOn, exit_status, exit_signal>>

CommandErrors == {"session", "start", "command", "rejected", "write", "interrupt", "cancelled"}

RemoteTypeOK ==
    /\ rc \in {"idle", "opening", "starting", "reading", "writing", "interrupting", "draining", "returned"}
    /\ rverdict \in {"none", "ok"} \cup CommandErrors
    /\ passedOn <= Len(mail) /\ exit_status \in {"none", "zero", "other"} /\ exit_signal \in BOOLEAN
    /\ session \in {"none", "open", "closed", "abandoned"}

RemoteInit ==
    /\ rc = "idle" /\ rverdict = "none" /\ rstream \in BOOLEAN /\ rstop = FALSE
    /\ mail = <<>> /\ passedOn = 0
    /\ exit_status = "none" /\ exit_signal = FALSE /\ session = "none"

CancelRemote ==
    /\ rc # "idle" /\ ~rstop /\ rstop' = TRUE
    /\ UNCHANGED <<rc, rverdict, rstream, resultVars, session>>

(***************************************************************************)
(* The call.                                                               *)
(***************************************************************************)
StartCommand ==
    /\ rc = "idle" /\ rc' = "opening"
    /\ UNCHANGED <<rverdict, rstream, rstop, resultVars, session>>

ReturnResult(result) == rc' = "returned" /\ rverdict' = result

\* open_session has no cancellation of its own.
OpenSession ==
    /\ rc = "opening"
    /\ \/ rc' = "starting" /\ session' = "open" /\ UNCHANGED rverdict
       \/ ReturnResult("session") /\ UNCHANGED session
    /\ UNCHANGED <<rstream, rstop, resultVars>>

\* Mutant: the result is returned without closing the channel.
CleanUpNot(result) == rc' = "returned" /\ rverdict' = result

\* close_and_drain, then the given result.
CleanUp(result) == rc' = "draining" /\ rverdict' = result
Interrupt == rc' = "interrupting" /\ UNCHANGED rverdict

Exec ==
    /\ rc = "starting"
    /\ \/ rc' = "reading" /\ UNCHANGED rverdict
       \/ CleanUp("start")
       \/ rstop /\ Interrupt
    /\ UNCHANGED <<rstream, rstop, resultVars, session>>

\* Mutant: a command that a signal ended counts as successful.
SucceededIgnoringSignal == exit_status = "zero"

\* exit_signal.is_some() || exit_status != Some(0) is a failure.
Succeeded == ~exit_signal /\ exit_status = "zero"

\* The next message of the channel; the connection may also be gone (None).
TakeMessage ==
    /\ rc = "reading" /\ Len(mail) < MaxMail
    /\ \E msg \in {"data", "zero", "other", "signal", "failure", "close"} :
          /\ mail' = Append(mail, msg)
          /\ passedOn' = IF msg = "data" /\ ~rstream THEN passedOn + 1 ELSE passedOn
          /\ exit_status' = IF msg \in {"zero", "other"} THEN msg ELSE exit_status
          /\ exit_signal' = (exit_signal \/ msg = "signal")
          /\ CASE msg = "data" /\ rstream -> rc' = "writing" /\ UNCHANGED rverdict
               [] msg = "failure" -> CleanUp("rejected")
               [] msg = "close" -> ReturnResult(IF Succeeded THEN "ok" ELSE "command")
               [] OTHER -> UNCHANGED <<rc, rverdict>>
          /\ session' = IF msg = "close" THEN "closed" ELSE session
    /\ UNCHANGED <<rstream, rstop>>

\* write_or_cancel: the writer takes the chunk or fails; it may also block.
WriteChunk ==
    /\ rc = "writing"
    /\ \/ rc' = "reading" /\ passedOn' = passedOn + 1 /\ UNCHANGED rverdict
       \/ CleanUp("write") /\ UNCHANGED passedOn
    /\ UNCHANGED <<rstream, rstop, mail, exit_status, exit_signal, session>>

\* The cancellation wins the select of the read or of the write.
NoticeCancel ==
    /\ rc \in {"reading", "writing"} /\ rstop /\ Interrupt
    /\ UNCHANGED <<rstream, rstop, resultVars, session>>

\* The signal is sent, fails (the channel is drained all the same), or times out.
SendSignal ==
    /\ rc = "interrupting"
    /\ \/ (\E result \in {"cancelled", "interrupt"} : CleanUp(result)) /\ UNCHANGED session
       \/ ReturnResult("interrupt") /\ session' = "abandoned"
    /\ UNCHANGED <<rstream, rstop, resultVars>>

\* Mutant: the close message is awaited without a limit.
DrainUnbounded == FALSE /\ UNCHANGED remoteVars

\* The channel is closed and its messages dropped up to the close, or until the time
\* limit.
Drain ==
    /\ rc = "draining" /\ rc' = "returned" /\ session' \in {"closed", "abandoned"}
    /\ UNCHANGED <<rverdict, rstream, rstop, resultVars>>

RemoteNext ==
    \/ StartCommand \/ CancelRemote \/ OpenSession \/ Exec \/ TakeMessage
    \/ WriteChunk \/ NoticeCancel \/ SendSignal \/ Drain

\* Nothing is asked of the server or of the writer.
RemoteFairness ==
    WF_remoteVars(NoticeCancel \/ SendSignal \/ Drain \/ (rstop /\ Exec))

-----------------------------------------------------------------------------
\* A call that returns Ok had exit status zero as the last status and no
\* signal, and gave the caller every chunk that came before the channel closed.
OkMeansSuccess ==
    (rc = "returned" /\ rverdict = "ok") =>
        /\ \E i \in 1..Len(mail) : mail[i] = "zero" /\ \A j \in i + 1..Len(mail) : mail[j] # "other"
        /\ \A i \in 1..Len(mail) : mail[i] \notin {"signal", "failure"}
        /\ passedOn = Cardinality({i \in 1..Len(mail) : mail[i] = "data"})

\* A call that has returned left no channel open, unless a time limit of its clean
\* up passed: whatever ended it, the server or the call has closed the channel
\* (remote.rs:228-252).
SessionIsClosed == rc = "returned" => session # "open"

\* A cancelled call returns once its session is open, whether or not the
\* server says anything more and whether or not the writer takes its chunk.
\* (True again and again in every fair behaviour.)
CancelledCommandIsOver == rstop => rc \in {"opening", "returned"}

\* A command over ssh is only reported as done when it succeeded and all its
\* output was passed on; it has closed its session when it returns, and a
\* connection that others use keeps no channel open that came when its caller was
\* known to have cancelled.
CommandsAreTrue == OutputIsWhole /\ OkMeansSuccess /\ SessionIsClosed /\ ConnectionIsTidy
=============================================================================
