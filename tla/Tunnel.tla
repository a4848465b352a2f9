-------------------------------- MODULE Tunnel --------------------------------
(***************************************************************************)
(* The userspace tunnel of crates/ployz-internal-machine-network-tunnel:    *)
(* one driver thread, the TCP streams it carries, the tasks that poll them, *)
(* and the thread that closes the tunnel.                                   *)
(*                                                                          *)
(* A stream has a record in the driver (rec), a socket of the TCP stack     *)
(* (sock, external) and a Signal shared with its owner (sig).  Buffers hold *)
(* one unit: empty or full is all that the code tells apart.                *)
(***************************************************************************)
EXTENDS Naturals, Sequences, FiniteSets

CONSTANTS
    Streams,     \* names of streams; a name is used again after its record is gone
    MaxStreams,  \* MAX_STREAMS
    MaxCommands, \* MAX_COMMANDS
    Readers,     \* streams that carry data to a task that reads
    Writers      \* streams that carry data from a task that writes

ASSUME TunnelAssumption ==
    /\ IsFiniteSet(Streams)
    /\ MaxStreams \in Nat \ {0}
    /\ MaxCommands \in Nat \ {0}
    /\ Readers \subseteq Streams
    /\ Writers \subseteq Streams

VARIABLES
    closed, failure,    \* Health
    phase,              \* where Driver::run is
    taken,              \* commands taken from the channel in this turn
    todo,               \* streams a loop of the driver has still to visit
    notes,              \* wake-ups sync_streams has collected for each stream
    commands,           \* the command channel
    closer,             \* Tunnel::close: "open", "joining" or "closed"
    rec, connected, expired,  \* StreamRecord: lifecycle, connected, deadline passed
    sock, rx, txfull,   \* socket state, received data waiting, send buffer full
    sig,                \* SignalState
    owner,              \* the client: "none", "opening", "dialing", "open", "gone"
    poll,               \* where the polling task of each half is
    woken               \* halves whose task was woken and not polled since

health == <<closed, failure>>
driver == <<phase, taken, todo, notes>>
stack == <<sock, rx, txfull>>
records == <<rec, connected, expired>>
tasks == <<poll, woken>>
vars == <<health, driver, commands, closer, records, stack, sig, owner, tasks>>

Sides == {"read", "write"}
Capacity == 1
Signals == [incoming : 0..Capacity, outgoing : 0..Capacity,
            connected : BOOLEAN, read_closed : BOOLEAN, write_closed : BOOLEAN,
            write_shutdown : BOOLEAN, abort_requested : BOOLEAN,
            dropped : BOOLEAN, wakers : SUBSET Sides]
NewSignal == [incoming |-> 0, outgoing |-> 0, connected |-> FALSE,
              read_closed |-> FALSE, write_closed |-> FALSE, write_shutdown |-> FALSE,
              abort_requested |-> FALSE, dropped |-> FALSE, wakers |-> {}]
Lifecycles == {"none", "Attached", "Closing", "Aborting1", "Aborting0"}
Sockets == {"none", "syn", "established", "close_wait", "fin_wait", "last_ack", "closed"}

Init ==
    /\ closed = FALSE /\ failure = FALSE
    /\ phase = "commands" /\ taken = 0 /\ todo = {} /\ notes = [s \in Streams |-> {}]
    /\ commands = <<>>
    /\ closer = "open"
    /\ rec = [s \in Streams |-> "none"]
    /\ connected = [s \in Streams |-> FALSE]
    /\ expired = [s \in Streams |-> FALSE]
    /\ sock = [s \in Streams |-> "none"]
    /\ rx = [s \in Streams |-> FALSE]
    /\ txfull = [s \in Streams |-> FALSE]
    /\ sig = [s \in Streams |-> NewSignal]
    /\ owner = [s \in Streams |-> "none"]
    /\ poll = [s \in Streams |-> [side \in Sides |-> "idle"]]
    /\ woken = [s \in Streams |-> {}]

\* Mutant: only a failure counts.
HealthyUnlessFailed == ~failure
Healthy == ~closed /\ ~failure
Carried == {s \in Streams : rec[s] # "none"}

\* The socket predicates of the TCP stack that the driver asks for (external).
MaySend(state) == state \in {"established", "close_wait"}
MayRecv(state) == state \in {"established", "fin_wait"}
IsOpen(state) == state \notin {"none", "closed"}
AfterClose(state) == IF state = "established" THEN "fin_wait" ELSE "last_ack"

\* What Signal::try_read and Signal::try_write answer instead of WouldBlock.
CanRead(g) == g.incoming > 0 \/ g.read_closed
\* Mutant: the buffer is checked one unit late.
CanWriteLate(g) == g.write_shutdown \/ g.write_closed \/ g.outgoing <= Capacity
CanWrite(g) == g.write_shutdown \/ g.write_closed \/ g.outgoing < Capacity
CanProceed(g, side) == IF side = "read" THEN CanRead(g) ELSE CanWrite(g)

\* Signal::notify_all, notify_read, notify_write: take the wakers and wake them.
Notified(g, sides) == [g EXCEPT !.wakers = @ \ sides]
Wake(s, g, sides) == woken' = [woken EXCEPT ![s] = @ \cup (g.wakers \cap sides)]

Aborted(g) ==
    [g EXCEPT !.abort_requested = TRUE, !.read_closed = TRUE, !.write_closed = TRUE,
              !.incoming = 0, !.outgoing = 0]
Dropped(g) == [g EXCEPT !.dropped = TRUE, !.write_shutdown = TRUE]

-----------------------------------------------------------------------------
(* Tunnel::dial_context *)

Dial(s) ==
    /\ owner[s] = "none"
    /\ rec[s] = "none"
    /\ Healthy
    /\ phase # "done"
    /\ commands' = Append(commands, <<"open", s>>)
    /\ owner' = [owner EXCEPT ![s] = "opening"]
    /\ UNCHANGED <<health, driver, closer, records, stack, sig, tasks>>

\* receive_driver looks at the health on every tick, and sees the channel close.
DialUnanswered(s) ==
    /\ owner[s] = "opening"
    /\ ~Healthy \/ phase = "done"
    /\ owner' = [owner EXCEPT ![s] = "none"]
    /\ UNCHANGED <<health, driver, commands, closer, records, stack, sig, tasks>>

Status(g) ==
    IF g.connected /\ ~(g.read_closed /\ g.write_closed) THEN "Connected"
    ELSE IF g.read_closed \/ g.write_closed THEN "Closed"
    ELSE "Connecting"

DialConnected(s) ==
    /\ owner[s] = "dialing"
    /\ Healthy
    /\ Status(sig[s]) = "Connected"
    /\ owner' = [owner EXCEPT ![s] = "open"]
    /\ UNCHANGED <<health, driver, commands, closer, records, stack, sig, tasks>>

\* TcpStream::drop, after an abort or not.
DropStream(s, g) ==
    /\ owner' = [owner EXCEPT ![s] = "gone"]
    /\ sig' = [sig EXCEPT ![s] = Notified(Dropped(g), Sides)]
    /\ poll' = [poll EXCEPT ![s] = [side \in Sides |-> "idle"]]
    /\ woken' = [woken EXCEPT ![s] = {}]

DialFails(s) ==
    /\ owner[s] = "dialing"
    /\ ~Healthy \/ Status(sig[s]) = "Closed"
    /\ DropStream(s, sig[s])
    /\ UNCHANGED <<health, driver, commands, closer, records, stack>>

\* The context is cancelled or past its deadline: before the wait, or after it,
\* whatever has become of the stream meanwhile.
DialTimesOut(s) ==
    /\ owner[s] = "dialing"
    /\ \/ Healthy /\ Status(sig[s]) = "Connecting" /\ DropStream(s, sig[s])
       \/ DropStream(s, Aborted(sig[s]))
    /\ UNCHANGED <<health, driver, commands, closer, records, stack>>

-----------------------------------------------------------------------------
(* The owner of a stream *)

\* The owner drops the stream, and with it the tasks that poll it.
Drop(s) ==
    /\ owner[s] = "open"
    /\ \A side \in Sides : poll[s][side] \in {"idle", "parked"}
    /\ DropStream(s, sig[s])
    /\ UNCHANGED <<health, driver, commands, closer, records, stack>>

ShutdownStream(s, how) ==
    /\ owner[s] = "open"
    /\ Healthy
    /\ phase # "done"
    /\ \A i \in 1..Len(commands) : commands[i][2] # s
    /\ commands' = Append(commands, <<how, s>>)
    /\ UNCHANGED <<health, driver, closer, records, stack, sig, owner, tasks>>

PollAt(s, side, label) == poll' = [poll EXCEPT ![s][side] = label]

\* Signal::try_read or try_write: the data moves, or the call would block.  An
\* unhealthy tunnel is an error before that.
Try(s, side, blocked) ==
    /\ IF Healthy /\ ~CanProceed(sig[s], side)
       THEN PollAt(s, side, blocked) /\ UNCHANGED sig
       ELSE /\ PollAt(s, side, "idle")
            /\ sig' = [sig EXCEPT ![s] =
                 IF ~Healthy THEN @
                 ELSE IF side = "read" THEN [@ EXCEPT !.incoming = 0]
                 ELSE IF @.write_shutdown \/ @.write_closed THEN @
                 ELSE [@ EXCEPT !.outgoing = sig[s].outgoing + 1]]
    /\ UNCHANGED <<health, driver, commands, closer, records, stack, owner>>

\* The task calls poll_read or poll_write, on its own or woken.
PollStart(s, side) ==
    /\ owner[s] = "open"
    /\ s \in IF side = "read" THEN Readers ELSE Writers
    /\ poll[s][side] = "idle" \/ (poll[s][side] = "parked" /\ side \in woken[s])
    /\ woken' = [woken EXCEPT ![s] = @ \ {side}]
    /\ Try(s, side, "register")

\* register_read or register_write.
Register(s, side) ==
    /\ poll[s][side] = "register"
    /\ sig' = [sig EXCEPT ![s].wakers = @ \cup {side}]
    /\ PollAt(s, side, "registered")
    /\ UNCHANGED <<health, driver, commands, closer, records, stack, owner, woken>>

\* Mutant: Pending is returned without trying again after the registration.
ParkAtOnce(s, side) ==
    /\ poll[s][side] = "registered"
    /\ PollAt(s, side, "parked")
    /\ UNCHANGED <<health, driver, commands, closer, records, stack, sig, owner, woken>>

\* The second check and attempt, which decide between Ready and Pending.
TryAgain(s, side) ==
    /\ poll[s][side] = "registered"
    /\ UNCHANGED woken
    /\ Try(s, side, "parked")

-----------------------------------------------------------------------------
(* Tunnel::close *)

Close ==
    /\ closer = "open"
    /\ closer' = "joining"
    /\ commands' = IF phase = "done" THEN commands ELSE Append(commands, <<"stop", "driver">>)
    /\ UNCHANGED <<health, driver, records, stack, sig, owner, tasks>>

Joined ==
    /\ closer = "joining"
    /\ phase = "done"
    /\ closer' = "closed"
    /\ closed' = TRUE
    /\ UNCHANGED <<failure, driver, commands, records, stack, sig, owner, tasks>>

-----------------------------------------------------------------------------
(* Driver::run *)

\* What follows each of the driver's loops over its streams.
After == [sync |-> "notify", notify |-> "poll", sync2 |-> "notify2",
          notify2 |-> "send", cleanup |-> "commands"]

Goto(label) == phase' = label /\ taken' = 0 /\ todo' = Carried

\* One turn of a loop over the streams; the last one goes on to the next step.
Visit(s, label) ==
    /\ phase = label
    /\ s \in todo
    /\ UNCHANGED taken
    /\ phase' = IF todo = {s} THEN After[label] ELSE label
    /\ todo' = IF todo = {s} /\ label # "cleanup" THEN Carried ELSE todo \ {s}

Take(name) ==
    /\ phase = "commands"
    /\ taken < MaxCommands
    /\ commands # <<>>
    /\ Head(commands)[1] = name
    /\ commands' = Tail(commands)

\* Refused at the limit, but also for the address or the want of a port.
OpenCommand ==
    /\ Take("open")
    /\ taken' = taken + 1
    /\ LET s == Head(commands)[2]
       IN \/ /\ owner' = [owner EXCEPT ![s] = "none"]
             /\ UNCHANGED <<rec, sock>>
          \/ /\ Cardinality(Carried) < MaxStreams
             /\ owner' = [owner EXCEPT ![s] = "dialing"]
             /\ rec' = [rec EXCEPT ![s] = "Attached"]
             /\ sock' = [sock EXCEPT ![s] = "syn"]
    /\ UNCHANGED <<health, phase, todo, notes, closer, connected, expired, rx, txfull, sig, tasks>>

\* A command for a stream whose record is gone is answered with an error.
ShutdownCommand(how) ==
    /\ Take(how)
    /\ taken' = taken + 1
    /\ LET s == Head(commands)[2]
           g == IF how = "both" THEN Aborted(sig[s]) ELSE [sig[s] EXCEPT !.write_shutdown = TRUE]
       IN IF rec[s] = "none" THEN UNCHANGED <<sig, woken>>
          ELSE /\ sig' = [sig EXCEPT ![s] = Notified(g, Sides)]
               /\ Wake(s, g, Sides)
    /\ UNCHANGED <<health, phase, todo, notes, closer, records, stack, owner, poll>>

StopCommand ==
    /\ Take("stop")
    /\ Goto("ending")
    /\ UNCHANGED <<health, notes, closer, records, stack, sig, owner, tasks>>

CommandsDone == phase = "commands" /\ (commands = <<>> \/ taken = MaxCommands)

\* The driver's I/O with the endpoint.  A turn without streams ends here.
Transfer ==
    /\ \/ CommandsDone /\ Goto(IF Carried = {} THEN "commands" ELSE "sync")
       \/ phase = "send" /\ Goto("cleanup")
    /\ UNCHANGED <<health, notes, commands, closer, records, stack, sig, owner, tasks>>

\* An error of the I/O: health.fail, and the loop ends.
TransferFails ==
    /\ CommandsDone \/ phase = "send"
    /\ failure' = TRUE
    /\ Goto("ending")
    /\ UNCHANGED <<closed, notes, commands, closer, records, stack, sig, owner, tasks>>

\* The end of poll_stack.
PollDone ==
    /\ phase = "poll"
    /\ Goto("sync2")
    /\ UNCHANGED <<health, notes, commands, closer, records, stack, sig, owner, tasks>>

\* Mutant: a stream detaches while its owner still has it.
DetachableAny(s) == rec[s] = "Attached"
Detachable(s) == sig[s].dropped /\ rec[s] = "Attached"

\* sync_streams for one stream whose owner asked for an abort.
SyncAborted(s) ==
    /\ sig' = [sig EXCEPT ![s].read_closed = TRUE, ![s].write_closed = TRUE]
    /\ sock' = [sock EXCEPT ![s] = "closed"]
    /\ rec' = [rec EXCEPT ![s] = IF Detachable(s) THEN "Aborting1" ELSE @]
    /\ UNCHANGED <<connected, rx, txfull>>

\* Mutant: the write half is closed with data still buffered.
ClosesEarly(g, outgoing, state) == g.write_shutdown /\ MaySend(state)
Closes(g, outgoing, state) == g.write_shutdown /\ outgoing = 0 /\ MaySend(state)

\* sync_streams for any other stream: send, close, receive, and see what the
\* socket still allows.
SyncOpen(s) ==
    LET g == sig[s]
        sends == MaySend(sock[s]) /\ ~txfull[s] /\ g.outgoing > 0
        outgoing == IF sends THEN 0 ELSE g.outgoing
        closes == Closes(g, outgoing, sock[s])
        aborts == ~closes /\ ~connected[s] /\ Detachable(s)
        state == IF closes THEN AfterClose(sock[s]) ELSE IF aborts THEN "closed" ELSE sock[s]
        detached == Detachable(s) /\ (closes \/ (connected[s] /\ ~MaySend(state)))
        received == rx[s] /\ g.incoming < Capacity
        incoming == IF received THEN 1 ELSE g.incoming
        left == rx[s] /\ ~received
        conn == connected[s] \/ MaySend(state)
        refused == ~conn /\ ~IsOpen(state)
    IN /\ sig' = [sig EXCEPT ![s] =
            [g EXCEPT !.outgoing = outgoing, !.incoming = incoming, !.connected = conn,
                      !.read_closed = @ \/ aborts \/ refused
                           \/ (conn /\ ~MayRecv(state) /\ ~left /\ incoming = 0),
                      !.write_closed = @ \/ closes \/ aborts \/ refused
                           \/ (conn /\ ~MaySend(state))]]
       /\ sock' = [sock EXCEPT ![s] = state]
       /\ rx' = [rx EXCEPT ![s] = left]
       /\ txfull' = [txfull EXCEPT ![s] = @ \/ sends]
       /\ connected' = [connected EXCEPT ![s] = conn]
       /\ rec' = [rec EXCEPT ![s] =
            IF aborts THEN "Aborting1" ELSE IF detached THEN "Closing" ELSE @]

\* Ready as sync_streams computes it, before and after.
Ready(g, side) ==
    IF side = "read" THEN g.incoming > 0 \/ g.read_closed
    ELSE g.outgoing < Capacity \/ g.write_closed

Sync(s) ==
    /\ Visit(s, "sync") \/ Visit(s, "sync2")
    /\ IF sig[s].abort_requested THEN SyncAborted(s) ELSE SyncOpen(s)
    /\ notes' = [notes EXCEPT ![s] =
         {side \in Sides : ~Ready(sig[s], side) /\ Ready(sig'[s], side)}]
    /\ UNCHANGED <<health, commands, closer, expired, owner, tasks>>

\* The wake-ups collected by sync_streams.
Notify(s) ==
    /\ Visit(s, "notify") \/ Visit(s, "notify2")
    /\ notes' = [notes EXCEPT ![s] = {}]
    /\ sig' = [sig EXCEPT ![s] = Notified(@, notes[s])]
    /\ Wake(s, sig[s], notes[s])
    /\ UNCHANGED <<health, commands, closer, records, stack, owner, poll>>

\* The record, the socket, the port and the driver's share of the Signal go.
Remove(s) ==
    /\ rec' = [rec EXCEPT ![s] = "none"]
    /\ connected' = [connected EXCEPT ![s] = FALSE]
    /\ expired' = [expired EXCEPT ![s] = FALSE]
    /\ sock' = [sock EXCEPT ![s] = "none"]
    /\ rx' = [rx EXCEPT ![s] = FALSE]
    /\ txfull' = [txfull EXCEPT ![s] = FALSE]
    /\ Wake(s, sig[s], Sides)
    /\ sig' = [sig EXCEPT ![s] = NewSignal]
    /\ owner' = [owner EXCEPT ![s] = "none"]

\* Mutant: the deadline is not looked at.
OverdueNever(s) == FALSE
Overdue(s) == sock[s] # "closed" /\ expired[s]

Cleanup(s) ==
    /\ Visit(s, "cleanup")
    /\ \/ /\ \/ rec[s] = "Closing" /\ sock[s] = "closed"
             \/ rec[s] = "Aborting0"
          /\ Remove(s)
       \/ /\ rec[s] = "Closing" /\ Overdue(s)
          /\ rec' = [rec EXCEPT ![s] = "Aborting1"]
          /\ sock' = [sock EXCEPT ![s] = "closed"]
          /\ UNCHANGED <<connected, expired, rx, txfull, sig, woken, owner>>
       \/ /\ rec[s] = "Aborting1"
          /\ rec' = [rec EXCEPT ![s] = "Aborting0"]
          /\ UNCHANGED <<connected, expired, stack, sig, woken, owner>>
       \/ /\ rec[s] = "Attached" \/ (rec[s] = "Closing" /\ sock[s] # "closed" /\ ~Overdue(s))
          /\ UNCHANGED <<records, stack, sig, woken, owner>>
    /\ UNCHANGED <<health, notes, commands, closer, poll>>

\* notify_all for one stream when the loop has ended.
NotifyEnd(s) ==
    /\ phase = "ending"
    /\ s \in todo
    /\ todo' = todo \ {s}
    /\ sig' = [sig EXCEPT ![s] = Notified(@, Sides)]
    /\ Wake(s, sig[s], Sides)
    /\ UNCHANGED <<health, phase, taken, notes, commands, closer, records, stack, owner, poll>>

\* health.close(), the reply to Stop, and the end of the thread.
End ==
    /\ phase = "ending"
    /\ todo = {}
    /\ closed' = TRUE
    /\ phase' = "done"
    /\ commands' = <<>>
    /\ UNCHANGED <<failure, taken, todo, notes, closer, records, stack, sig, owner, tasks>>

-----------------------------------------------------------------------------
(* The TCP stack and its peer, while the driver is in poll_stack (external) *)

Net(s, from, to) ==
    /\ phase = "poll"
    /\ sock[s] \in from
    /\ sock' = [sock EXCEPT ![s] = to]
    /\ UNCHANGED <<health, driver, commands, closer, records, rx, txfull, sig, owner, tasks>>

Establish(s) == Net(s, {"syn"}, "established")
PeerCloses(s) == Net(s, {"established"}, "close_wait")
CloseAnswered(s) == Net(s, {"fin_wait", "last_ack"}, "closed")
Reset(s) == Net(s, {"syn", "established", "close_wait"}, "closed")

Receive(s) ==
    /\ phase = "poll"
    /\ s \in Readers
    /\ MayRecv(sock[s])
    /\ ~rx[s]
    /\ rx' = [rx EXCEPT ![s] = TRUE]
    /\ UNCHANGED <<health, driver, commands, closer, records, sock, txfull, sig, owner, tasks>>

Acknowledge(s) ==
    /\ phase = "poll"
    /\ txfull[s]
    /\ txfull' = [txfull EXCEPT ![s] = FALSE]
    /\ UNCHANGED <<health, driver, commands, closer, records, sock, rx, sig, owner, tasks>>

\* CLOSE_TIMEOUT.
DeadlinePasses(s) ==
    /\ rec[s] = "Closing"
    /\ ~expired[s]
    /\ expired' = [expired EXCEPT ![s] = TRUE]
    /\ UNCHANGED <<health, driver, commands, closer, rec, connected, stack, sig, owner, tasks>>

-----------------------------------------------------------------------------
PollStep(s, side) ==
    \/ Register(s, side)
    \/ TryAgain(s, side)

DriverStep ==
    \/ OpenCommand \/ (\E how \in {"write", "both"} : ShutdownCommand(how)) \/ StopCommand
    \/ Transfer \/ PollDone \/ TransferFails \/ End
    \/ \E s \in Streams : Sync(s) \/ Notify(s) \/ Cleanup(s) \/ NotifyEnd(s)

Next ==
    \/ DriverStep
    \/ Close \/ Joined
    \/ \E s \in Streams :
         \/ Dial(s) \/ DialUnanswered(s) \/ DialConnected(s) \/ DialFails(s)
         \/ DialTimesOut(s) \/ Drop(s)
         \/ \E how \in {"write", "both"} : ShutdownStream(s, how)
         \/ \E side \in Sides : PollStart(s, side) \/ PollStep(s, side)
         \/ Establish(s) \/ PeerCloses(s) \/ CloseAnswered(s) \/ Reset(s)
         \/ Receive(s) \/ Acknowledge(s) \/ DeadlinePasses(s)

Spec == Init /\ [][Next]_vars

\* The driver thread runs, callers go on, woken tasks are polled, timers expire,
\* and the peer acknowledges what it is sent.
Fairness ==
    /\ WF_vars(DriverStep)
    /\ WF_vars(Joined)
    /\ \A s \in Streams :
         /\ WF_vars(DialUnanswered(s) \/ DialConnected(s) \/ DialFails(s))
         /\ WF_vars(DeadlinePasses(s))
         /\ SF_vars(Acknowledge(s))
         /\ \A side \in Sides :
              WF_vars(PollStep(s, side) \/ (poll[s][side] = "parked" /\ PollStart(s, side)))

FairSpec == Spec /\ Fairness

-----------------------------------------------------------------------------
TypeOK ==
    /\ closed \in BOOLEAN /\ failure \in BOOLEAN
    /\ todo \subseteq Streams
    /\ notes \in [Streams -> SUBSET Sides]
    /\ rec \in [Streams -> Lifecycles]
    /\ sock \in [Streams -> Sockets]
    /\ sig \in [Streams -> Signals]
    /\ woken \in [Streams -> SUBSET Sides]
    /\ Cardinality(Carried) <= MaxStreams

\* A task that waits for a stream is registered, and when it could proceed (data,
\* room, a closed half, a failed tunnel) the driver is about to wake it: the check
\* after the registration leaves no gap for a wake-up to fall into.
ParkedIsAttended ==
    \A s \in Streams, side \in Sides :
        (poll[s][side] = "parked" /\ side \notin woken[s]) =>
            /\ side \in sig[s].wakers
            /\ (CanProceed(sig[s], side) \/ failure) =>
                  side \in notes[s] \/ (phase = "ending" /\ s \in todo)

\* The driver never drops a stream under its owner: a record leaves Attached only
\* after the owner is gone.
OwnedIsCarried ==
    \A s \in Streams :
        /\ owner[s] \in {"dialing", "open"} => rec[s] = "Attached"
        /\ rec[s] \in {"Closing", "Aborting1", "Aborting0"} => owner[s] = "gone"

\* What a writer was told is written goes out before the connection is closed: no
\* data is left in a stream whose socket has sent its FIN, unless it was aborted.
FinIsLast ==
    \A s \in Streams : sock[s] \in {"fin_wait", "last_ack"} => sig[s].outgoing = 0

\* While a stream has an owner it keeps its record, its slot and its data.
StreamsAreKept == TypeOK /\ OwnedIsCarried /\ FinIsLast

\* A stream that its owner dropped gives its record and its port back, whatever
\* the peer does with the close, as long as it acknowledges data.
DroppedIsReleased ==
    \A s \in Streams : []<>(owner[s] = "gone" => phase = "done")

\* A dial that is under way when the tunnel stops or fails returns.
DialEndsWithTunnel ==
    \A s \in Streams : []<>(phase = "done" => owner[s] \notin {"opening", "dialing"})

\* Every stream is given back in the end, by its owner or with the tunnel.
StreamsEnd == DroppedIsReleased /\ DialEndsWithTunnel

\* Closing the tunnel closes its streams: a task waiting for one is woken.
CloseWakesTasks ==
    \A s \in Streams, side \in Sides :
        []<>(closer = "closed" => poll[s][side] # "parked")
=============================================================================
