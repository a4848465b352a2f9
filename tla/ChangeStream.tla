----------------------------- MODULE ChangeStream -----------------------------
(***************************************************************************)
(* A subscription to a store query, from the Corrosion server to the        *)
(* consumer of the notifications:                                           *)
(*   server    the changes of the query, numbered 1, 2, ... (external)      *)
(*   stream    ChangeStream of ployz-internal-corrosion/src/query.rs        *)
(*   worker    run_change_worker of ployz-internal-machine-store/src/lib.rs *)
(*   consumer  the holder of ChangeNotifications, which lists the table     *)
(*             again on every notification                                  *)
(***************************************************************************)
EXTENDS Naturals, Sequences

CONSTANTS
    Snapshot,    \* change ID of the end-of-query event
    MaxChanges,  \* bound on the change IDs of the server
    MaxFaults    \* bound on faults of the server and the network

ASSUME StreamAssumption ==
    /\ Snapshot \in Nat
    /\ MaxChanges \in Nat
    /\ MaxFaults \in Nat
    /\ Snapshot <= MaxChanges

VARIABLES
    head,               \* the last change the server made
    known,              \* the server still has the subscription
    connected,          \* the response body is open at the server
    position,           \* the next change the server sends on it
    wire,               \* change IDs sent and not yet decoded
    last_change_id, needs_resubscribe, finished,
    resubscribe,        \* ApiClient::with_resubscribe, fixed for the client's life
    worker,             \* "next", "send" (has an event) or "done"
    event,              \* the event in the worker's hand
    channel,            \* the mpsc channel of capacity 1
    consumer,           \* "open", "closed" (recv returned None) or "dropped"
    seen,               \* the server's head when the consumer last looked
    delivered,          \* history: change IDs the stream returned
    faults

server == <<head, known, connected, position, wire>>
stream == <<last_change_id, needs_resubscribe, finished, resubscribe, delivered>>
notifications == <<worker, event, channel, consumer, seen>>
vars == <<server, stream, notifications, faults>>

ChannelCapacity == 1
Events == {"change", "error"}

\* Subscription::into_changes after the rows were read.
Init ==
    /\ head = Snapshot
    /\ known = TRUE
    /\ connected = TRUE
    /\ position = Snapshot + 1
    /\ wire = <<>>
    /\ last_change_id = Snapshot
    /\ needs_resubscribe = FALSE
    /\ finished = FALSE
    /\ resubscribe \in BOOLEAN
    /\ worker = "next"
    /\ event = "change"
    /\ channel = <<>>
    /\ consumer = "open"
    /\ seen = Snapshot
    /\ delivered = {}
    /\ faults = 0

Fault == faults < MaxFaults /\ faults' = faults + 1

-----------------------------------------------------------------------------
(* The server and the network *)

Change ==
    /\ head < MaxChanges
    /\ head' = head + 1
    /\ UNCHANGED <<known, connected, position, wire, stream, notifications, faults>>

Send ==
    /\ connected
    /\ position <= head
    /\ wire' = Append(wire, position)
    /\ position' = position + 1
    /\ UNCHANGED <<head, known, connected, stream, notifications, faults>>

\* A subscriber that lags behind misses a change and gets a later one.
Skip ==
    /\ connected
    /\ position < head
    /\ Fault
    /\ position' = position + 1
    /\ UNCHANGED <<head, known, connected, wire, stream, notifications>>

\* The connection breaks; what was sent last may be lost.
Disconnect ==
    /\ connected
    /\ Fault
    /\ connected' = FALSE
    /\ \E n \in 0..Len(wire) : wire' = SubSeq(wire, 1, n)
    /\ UNCHANGED <<head, known, position, stream, notifications>>

\* The server drops a subscription nobody is connected to.
Forget ==
    /\ known
    /\ ~connected
    /\ Fault
    /\ known' = FALSE
    /\ UNCHANGED <<head, connected, position, wire, stream, notifications>>

-----------------------------------------------------------------------------
(* ChangeStream::next, called by the worker *)

Reading == worker = "next" /\ ~finished /\ ~needs_resubscribe

\* What a failed read leads to: a new subscription, or the end of the stream.
ReadFailed ==
    /\ connected' = FALSE
    /\ wire' = <<>>
    /\ IF resubscribe
       THEN /\ needs_resubscribe' = TRUE
            /\ UNCHANGED <<finished, worker, event>>
       ELSE /\ finished' = TRUE
            /\ worker' = "send"
            /\ event' = "error"
            /\ UNCHANGED needs_resubscribe
    /\ UNCHANGED <<last_change_id, resubscribe, delivered>>

\* expected_change_id accepts anything after change 0.
Expected(id) == last_change_id # 0 => id = last_change_id + 1

Accept(id) ==
    /\ last_change_id' = id
    /\ delivered' = delivered \cup {id}
    /\ worker' = "send"
    /\ event' = "change"
    /\ wire' = Tail(wire)
    /\ UNCHANGED <<connected, needs_resubscribe, finished, resubscribe>>

\* Mutant: the change ID is not compared with the one before it.
NextEventUnchecked ==
    /\ Reading
    /\ wire # <<>>
    /\ Accept(Head(wire))
    /\ UNCHANGED <<head, known, position, channel, consumer, seen, faults>>

NextEvent ==
    /\ Reading
    /\ wire # <<>>
    /\ IF Expected(Head(wire)) THEN Accept(Head(wire)) ELSE ReadFailed
    /\ UNCHANGED <<head, known, position, channel, consumer, seen, faults>>

EndOfFile ==
    /\ Reading
    /\ wire = <<>>
    /\ ~connected
    /\ ReadFailed
    /\ UNCHANGED <<head, known, position, channel, consumer, seen, faults>>

Resubscribing == worker = "next" /\ ~finished /\ needs_resubscribe

\* Mutant: the changes missed in between are not asked for.
ResubscribeFromHead ==
    /\ Resubscribing
    /\ known
    /\ connected' = TRUE
    /\ wire' = <<>>
    /\ position' = head + 1
    /\ needs_resubscribe' = FALSE
    /\ UNCHANGED <<head, known, last_change_id, finished, resubscribe, delivered,
                   notifications, faults>>

\* From change 0 the server replays the rows, and resubscribe_once discards them.
Resubscribe ==
    /\ Resubscribing
    /\ known
    /\ connected' = TRUE
    /\ wire' = <<>>
    /\ position' = IF last_change_id = 0 THEN head + 1 ELSE last_change_id + 1
    /\ needs_resubscribe' = FALSE
    /\ UNCHANGED <<head, known, last_change_id, finished, resubscribe, delivered,
                   notifications, faults>>

\* Mutant: the stream ends without telling anyone.
ResubscribeEndsSilently ==
    /\ Resubscribing
    /\ \/ ~known /\ UNCHANGED faults
       \/ Fault
    /\ finished' = TRUE
    /\ UNCHANGED <<server, last_change_id, needs_resubscribe, resubscribe, delivered,
                   notifications>>

\* The subscription is not found, or the backoff's time is over.
ResubscribeFails ==
    /\ Resubscribing
    /\ \/ ~known /\ UNCHANGED faults
       \/ Fault
    /\ finished' = TRUE
    /\ worker' = "send"
    /\ event' = "error"
    /\ UNCHANGED <<server, last_change_id, needs_resubscribe, resubscribe, delivered,
                   channel, consumer, seen>>

-----------------------------------------------------------------------------
(* The worker's channel, and the consumer *)

\* Mutant: the worker does not wait for room in the channel.
SendEventAtOnce ==
    /\ worker = "send"
    /\ consumer = "open"
    /\ channel' = Append(channel, event)
    /\ worker' = IF event = "error" THEN "done" ELSE "next"
    /\ UNCHANGED <<server, stream, event, consumer, seen, faults>>

\* Mutant: a notification that finds the channel full is dropped.
SendEventOrDrop ==
    /\ worker = "send"
    /\ consumer = "open"
    /\ channel' = IF channel = <<>> THEN <<event>> ELSE channel
    /\ worker' = IF event = "error" THEN "done" ELSE "next"
    /\ UNCHANGED <<server, stream, event, consumer, seen, faults>>

SendEvent ==
    /\ worker = "send"
    /\ consumer = "open"
    /\ Len(channel) < ChannelCapacity
    /\ channel' = Append(channel, event)
    /\ worker' = IF event = "error" THEN "done" ELSE "next"
    /\ UNCHANGED <<server, stream, event, consumer, seen, faults>>

\* The biased selects see the cancellation first.
Cancelled ==
    /\ worker # "done"
    /\ consumer # "open"
    /\ worker' = "done"
    /\ UNCHANGED <<server, stream, event, channel, consumer, seen, faults>>

Recv ==
    /\ consumer = "open"
    /\ channel # <<>>
    /\ channel' = Tail(channel)
    /\ IF Head(channel) = "change"
       THEN seen' = head /\ UNCHANGED consumer
       ELSE consumer' = "closed" /\ UNCHANGED seen
    /\ UNCHANGED <<server, stream, worker, event, faults>>

\* Drop for ChangeNotifications.
Drop ==
    /\ consumer = "open"
    /\ consumer' = "dropped"
    /\ channel' = <<>>
    /\ UNCHANGED <<server, stream, worker, event, seen, faults>>

Next ==
    \/ Change \/ Send \/ Skip \/ Disconnect \/ Forget
    \/ NextEvent \/ EndOfFile \/ Resubscribe \/ ResubscribeFails
    \/ SendEvent \/ Cancelled \/ Recv \/ Drop

Spec == Init /\ [][Next]_vars

\* A connected server sends what it has, the worker's thread runs, a retried
\* request ends, and the consumer keeps calling recv.
Fairness ==
    /\ WF_vars(Send)
    /\ WF_vars(NextEvent \/ EndOfFile)
    /\ WF_vars(Resubscribe \/ ResubscribeFails)
    /\ WF_vars(SendEvent)
    /\ WF_vars(Cancelled)
    /\ WF_vars(Recv)

FairSpec == Spec /\ Fairness

-----------------------------------------------------------------------------
TypeOK ==
    /\ head \in Nat
    /\ known \in BOOLEAN
    /\ connected \in BOOLEAN
    /\ position \in Nat
    /\ wire \in Seq(Nat)
    /\ last_change_id \in Nat
    /\ needs_resubscribe \in BOOLEAN
    /\ finished \in BOOLEAN
    /\ resubscribe \in BOOLEAN
    /\ worker \in {"next", "send", "done"}
    /\ event \in Events
    /\ channel \in Seq(Events)
    /\ Len(channel) <= ChannelCapacity
    /\ consumer \in {"open", "closed", "dropped"}
    /\ seen \in Nat
    /\ delivered \subseteq Nat
    /\ faults \in Nat

\* After a snapshot with a change ID the stream returns every later change once
\* and in order, whatever the server skips and wherever connections break: the
\* changes returned are those from the snapshot to the last one.
NoMissedChange ==
    Snapshot # 0 => delivered = (Snapshot + 1)..last_change_id

\* A consumer whose list is out of date has a notification coming: in the
\* channel, in the worker's hand, or still to be read or fetched by the stream.
StaleIsPending ==
    (consumer = "open" /\ seen < head /\ Snapshot # 0) =>
        \/ channel # <<>>
        \/ worker = "send"
        \/ worker = "next" /\ ~finished /\ last_change_id < head

\* A consumer that keeps receiving sees every change of the table in the end,
\* or is told that the subscription is over.
EventuallySeen == []<>(consumer = "open" => seen = head)

\* A stream that has ended is reported: recv returns None, and the worker ends.
\* (True again and again in every fair behaviour.)
EndIsReported == finished => consumer # "open" /\ worker = "done"
=============================================================================
