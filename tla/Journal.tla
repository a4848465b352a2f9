------------------------------ MODULE Journal ------------------------------
(***************************************************************************)
(* The streaming reader of the system journal (crate                       *)
(* ployz-internal-journal): journalctl runs as a child process, a worker   *)
(* thread scans its standard output into entries and hands them over a     *)
(* rendezvous channel, the iterator takes them, and any thread may cancel. *)
(*                                                                         *)
(*   stream   where the iterator's owner is                                *)
(*   process  journalctl; "closed" has closed its output, "exited" is a    *)
(*            zombie nobody has waited for                                 *)
(*   child    whether the shared Option<Child> still holds it              *)
(*   killed   whether it was sent a kill                                   *)
(*   stdout   the bytes written and not yet read; output, all of them      *)
(*   worker   where the thread is; line and pending_error are ScanLines'   *)
(*            fields, offered the entry the thread is sending              *)
(*   entries  what next() has returned; ended, whether it returned None    *)
(*                                                                         *)
(* A byte is "x", a carriage return or a line feed; none of these inputs   *)
(* has a space, so no entry has a timestamp.                               *)
(***************************************************************************)
EXTENDS Integers, Sequences, FiniteSetsExt

CONSTANTS
    INITIAL_SCAN_BUFFER_SIZE,  \* the most one fill of the buffer returns
    MAX_SCAN_TOKEN_SIZE,       \* a line of this many bytes is too long
    MaxOutput                  \* bound: the bytes journalctl writes

VARIABLES stream, process, child, killed, stdout, output,
          worker, line, pending_error, read_failed, offered, entries, ended

ownerVars == <<stream, entries, ended>>
processVars == <<process, child, killed>>
bytesVars == <<stdout, output, read_failed>>
scanVars == <<line, pending_error>>
journalVars == <<ownerVars, processVars, bytesVars, scanVars, worker, offered>>

CR == "\r"
LF == "\n"
NoEntry == <<>>
ReadError == <<"journal logs">>

JournalInit ==
    /\ stream = "new" /\ process = "none" /\ child = FALSE /\ killed = FALSE
    /\ stdout = <<>> /\ output = <<>> /\ read_failed = FALSE
    /\ worker = "none" /\ line = <<>> /\ pending_error = FALSE
    /\ offered = NoEntry /\ entries = <<>> /\ ended = FALSE

\* A line without its last carriage return, and the entry it becomes.
Popped(bytes) ==
    IF bytes # <<>> /\ bytes[Len(bytes)] = CR THEN SubSeq(bytes, 1, Len(bytes) - 1) ELSE bytes
entry(bytes) == Append(bytes, LF)

(***************************************************************************)
(* Journal::logs.                                                          *)
(***************************************************************************)
Logs ==
    /\ stream = "new" /\ process = "none"
    /\ \/ stream' = "failed" /\ UNCHANGED <<process, child, worker>>
       \/ /\ process' = "running" /\ child' = TRUE
          /\ stream' = "idle" /\ worker' = "reading"
       \/ \* the thread cannot be spawned: stop_child takes the child
          /\ process' = "running" /\ child' = FALSE
          /\ stream' = "stopping" /\ UNCHANGED worker
    /\ killed' = (stream' = "stopping")
    /\ UNCHANGED <<bytesVars, scanVars, offered, entries, ended>>

\* The wait of stop_child returns and logs() reports the spawn error.
LogsFails ==
    /\ stream = "stopping" /\ process = "exited"
    /\ process' = "reaped" /\ stream' = "failed"
    /\ UNCHANGED <<child, killed, bytesVars, scanVars, worker, offered, entries, ended>>

(***************************************************************************)
(* The iterator's owner.                                                   *)
(***************************************************************************)
NextEntry ==
    /\ stream = "idle" /\ stream' = "receiving"
    /\ UNCHANGED <<entries, ended, processVars, bytesVars, scanVars, worker, offered>>

\* recv: the rendezvous with the worker's send, or the sender is gone.
Receive ==
    /\ stream = "receiving" /\ stream' = "idle"
    /\ \/ /\ worker = "sending"
          /\ entries' = Append(entries, offered) /\ offered' = NoEntry
          /\ worker' = IF offered = ReadError THEN "waiting" ELSE "reading"
          /\ UNCHANGED ended
       \/ /\ worker = "done" /\ ended' = TRUE
          /\ UNCHANGED <<entries, offered, worker>>
    /\ UNCHANGED <<processVars, bytesVars, scanVars>>

\* Drop for LogStream: the receiver goes first, then the child is killed,
\* then the worker is joined.
DropReceiver ==
    /\ stream = "idle" /\ stream' = "cancelling"
    /\ UNCHANGED <<entries, ended, processVars, bytesVars, scanVars, worker, offered>>

\* Mutant: the worker is joined without the child being killed.
DropJoinsAtOnce ==
    /\ stream = "cancelling" /\ stream' = "joining"
    /\ UNCHANGED <<entries, ended, processVars, bytesVars, scanVars, worker, offered>>

DropCancels ==
    /\ stream = "cancelling" /\ stream' = "joining"
    /\ killed' = (killed \/ child)
    /\ UNCHANGED <<entries, ended, process, child, bytesVars, scanVars, worker, offered>>

DropJoins ==
    /\ stream = "joining" /\ worker = "done" /\ stream' = "dropped"
    /\ UNCHANGED <<entries, ended, processVars, bytesVars, scanVars, worker, offered>>

\* LogCancellation::cancel, from any thread that holds a handle.
CancelLogs ==
    /\ child /\ ~killed /\ killed' = TRUE
    /\ UNCHANGED <<ownerVars, process, child, bytesVars, scanVars, worker, offered>>

ReceiverGone == stream \in {"cancelling", "joining", "dropped"}

(***************************************************************************)
(* run_reader, the worker: ScanLines::next_line one fill of the buffer at  *)
(* a time.                                                                 *)
(***************************************************************************)

\* What EntryReader::next makes of a scanned line or of an error.
Offer(item) == offered' = item /\ worker' = "sending"

\* fill_buf returned some bytes.
Scan ==
    /\ worker = "reading" /\ ~pending_error
    /\ \E size \in 1 .. Min({Len(stdout), INITIAL_SCAN_BUFFER_SIZE}) :
        LET available == SubSeq(stdout, 1, size)
            newlines == {i \in 1 .. size : available[i] = LF}
            consumed == IF newlines = {} THEN size ELSE Min(newlines)
            extended == line \o SubSeq(available, 1, IF newlines = {} THEN size ELSE consumed - 1)
            tooLong == IF newlines = {}
                       THEN Len(line) + size >= MAX_SCAN_TOKEN_SIZE
                       ELSE Len(line) + consumed > MAX_SCAN_TOKEN_SIZE
        IN IF tooLong
           THEN /\ Offer(ReadError)
                /\ UNCHANGED <<line, stdout>>
           ELSE /\ stdout' = SubSeq(stdout, consumed + 1, Len(stdout))
                /\ IF newlines = {}
                   THEN line' = extended /\ UNCHANGED <<worker, offered>>
                   ELSE line' = <<>> /\ Offer(entry(Popped(extended)))
    /\ UNCHANGED <<ownerVars, processVars, output, read_failed, pending_error>>

\* fill_buf returned nothing: the end of the output.
ScanEnd ==
    /\ worker = "reading" /\ ~pending_error
    /\ stdout = <<>> /\ process \in {"closed", "exited"}
    /\ line' = <<>>
    /\ IF line = <<>>
       THEN worker' = "waiting" /\ UNCHANGED offered
       ELSE Offer(entry(Popped(line)))
    /\ UNCHANGED <<ownerVars, processVars, bytesVars, pending_error>>

\* fill_buf failed: what was scanned so far is an entry of its own, and the
\* error is kept for the call after it.
ScanFails ==
    /\ worker = "reading" /\ ~pending_error /\ ~read_failed
    /\ read_failed' = TRUE /\ line' = <<>>
    /\ pending_error' = (line # <<>>)
    /\ Offer(IF line = <<>> THEN ReadError ELSE entry(Popped(line)))
    /\ UNCHANGED <<ownerVars, processVars, stdout, output>>

\* The error kept back.
ScanPending ==
    /\ worker = "reading" /\ pending_error
    /\ pending_error' = FALSE /\ Offer(ReadError)
    /\ UNCHANGED <<ownerVars, processVars, bytesVars, line>>

\* The send fails: stop_child takes the child and kills it ...
SendFails ==
    /\ worker = "sending" /\ ReceiverGone
    /\ offered' = NoEntry
    /\ worker' = (IF child THEN "stopping" ELSE "done")
    /\ child' = FALSE /\ killed' = (killed \/ child)
    /\ UNCHANGED <<ownerVars, process, bytesVars, scanVars>>

\* ... and waits for it.
StopWaits ==
    /\ worker = "stopping" /\ process = "exited"
    /\ process' = "reaped" /\ worker' = "done"
    /\ UNCHANGED <<ownerVars, child, killed, bytesVars, scanVars, offered>>

\* wait_for_child: try_wait under the lock every 5 ms until it has exited.
\* Mutant: the reader returns at the end of the output without waiting.
WaitForChildSkipped ==
    /\ worker = "waiting" /\ worker' = "done"
    /\ UNCHANGED <<ownerVars, processVars, bytesVars, scanVars, offered>>

WaitForChild ==
    /\ worker = "waiting" /\ process = "exited"
    /\ process' = "reaped" /\ child' = FALSE /\ worker' = "done"
    /\ UNCHANGED <<ownerVars, killed, bytesVars, scanVars, offered>>

(***************************************************************************)
(* journalctl. Following, it never ends by itself; a kill ends it, and so  *)
(* does writing once the worker has dropped the pipe's read end.           *)
(***************************************************************************)
PipeOpen == worker \in {"reading", "sending"}

JournalctlWrites ==
    /\ process = "running" /\ Len(output) < MaxOutput
    /\ IF PipeOpen
       THEN /\ \E byte \in {"x", CR, LF} :
                /\ stdout' = Append(stdout, byte) /\ output' = Append(output, byte)
            /\ UNCHANGED process
       ELSE process' = "exited" /\ UNCHANGED <<stdout, output>>
    /\ UNCHANGED <<ownerVars, child, killed, read_failed, scanVars, worker, offered>>

JournalctlCloses ==
    /\ process = "running" /\ process' = "closed"
    /\ UNCHANGED <<ownerVars, child, killed, bytesVars, scanVars, worker, offered>>

JournalctlExits ==
    /\ process \in {"running", "closed"} /\ process' = "exited"
    /\ UNCHANGED <<ownerVars, child, killed, bytesVars, scanVars, worker, offered>>

\* What the iterator's owner, the worker and a killed journalctl go on doing.
JournalStep ==
    \/ LogsFails \/ Receive \/ DropCancels \/ DropJoins
    \/ Scan \/ ScanEnd \/ ScanPending \/ SendFails \/ StopWaits \/ WaitForChild
    \/ killed /\ JournalctlExits

JournalNext ==
    \/ JournalStep
    \/ Logs \/ NextEntry \/ DropReceiver \/ CancelLogs \/ ScanFails
    \/ JournalctlWrites \/ JournalctlCloses \/ JournalctlExits

\* Threads run and a killed process dies; each step of JournalStep leads on
\* to another or to a thread that has finished.
JournalFairness == WF_journalVars(JournalStep)

(***************************************************************************)
(* Properties.                                                             *)
(***************************************************************************)

\* The entries of a whole output, read off its line feeds: the lines up to
\* the first that is too long, whatever the sizes it was read in.
EntriesOf(bytes) ==
    LET next[i \in 1 .. Len(bytes) + 1] ==
            LET feeds == {j \in i .. Len(bytes) : bytes[j] = LF}
                end == IF feeds = {} THEN Len(bytes) + 1 ELSE Min(feeds)
                text == entry(Popped(SubSeq(bytes, i, end - 1)))
            IN CASE end - i >= MAX_SCAN_TOKEN_SIZE -> <<ReadError>>
                 [] end - i < MAX_SCAN_TOKEN_SIZE /\ feeds # {} -> <<text>> \o next[end + 1]
                 [] end - i < MAX_SCAN_TOKEN_SIZE /\ feeds = {} ->
                        IF end = i THEN <<>> ELSE <<text>>
    IN next[1]

BytesRead == SubSeq(output, 1, Len(output) - Len(stdout))

\* Once the stream has ended, has been dropped or has failed to start,
\* journalctl has exited and has been waited for; a child that the lock still
\* holds has not been.
JournalctlIsReaped ==
    /\ ended \/ stream \in {"dropped", "failed"} => process \in {"none", "reaped"}
    /\ child => process \in {"running", "closed", "exited"}

\* When next() has returned None the entries are the lines of what journalctl
\* wrote, each once and in order, however the pipe cut them, ending at the
\* first read error or at a line that is too long; and journalctl is reaped.
JournalIsRead ==
    /\ ended => entries = IF read_failed THEN Append(EntriesOf(BytesRead), ReadError)
                          ELSE EntriesOf(output)
    /\ JournalctlIsReaped

\* Dropping the stream, and a start that fails, always come to their end,
\* even when journalctl follows for ever; and once a cancellation or the drop
\* has reached journalctl no call of next() waits for ever.
\* (True again and again in every fair behaviour.)
JournalIsOver ==
    /\ stream \notin {"cancelling", "joining", "stopping"}
    /\ killed => stream # "receiving"
=============================================================================
