------------------------------ MODULE Forward -------------------------------
(***************************************************************************)
(* A call the API proxy passes to one machine (one_to_one): a pump copies  *)
(* the frontend's messages to the backend, a forwarding task copies the    *)
(* backend's to the frontend through a bounded channel, and DeadlineStream *)
(* lets the frontend read that channel until the deadline.                 *)
(***************************************************************************)
EXTENDS Integers, Sequences

CONSTANTS
    FORWARD_BUFFER,  \* capacity of the response channel (RESPONSE_BUFFER)
    MaxUpstream,     \* bound on the messages of the backend
    MaxFrontend      \* bound on the messages of the frontend

VARIABLES
    phase,     \* "none", "connect", "first", "forward", "over", "failed"
    timer,     \* "no deadline", "before", "after"
    copier,    \* the request pump: "reading", "sending", "ended", "failed", "aborted"
    inflight,  \* is a request message in the channel to the backend?
    toSend,    \* messages the frontend has yet to send
    made,      \* messages the backend has sent
    ending,    \* how the backend ended its answer: "open", "ok", "error"
    taken,     \* messages the proxy has taken from the backend
    holding,   \* the item the forwarding task waits to send, if any
    channel,   \* the response channel
    frontend,  \* "reading", "gone", or how it saw the call end
    received   \* messages the frontend has read

fwVars == <<phase, timer, copier, inflight, toSend, made, ending, taken,
            holding, channel, frontend, received>>

\* An item is the number of a message; 0 is no item and -1 a status.
NoMessage == 0
Status == -1

ForwardTypeOK ==
    /\ phase \in {"none", "connect", "first", "forward", "over", "failed"}
    /\ timer \in {"no deadline", "before", "after"}
    /\ copier \in {"reading", "sending", "ended", "failed", "aborted"}
    /\ inflight \in BOOLEAN /\ toSend \in 0..MaxFrontend
    /\ made \in 0..MaxUpstream /\ taken \in 0..made
    /\ ending \in {"open", "ok", "error"}
    /\ holding \in {NoMessage, Status} \cup 1..MaxUpstream
    /\ Len(channel) <= FORWARD_BUFFER
    /\ frontend \in {"reading", "gone", "clean", "error"}

ForwardInit ==
    /\ phase = "none" /\ timer \in {"no deadline", "before"}
    /\ copier = "reading" /\ inflight = FALSE /\ toSend = MaxFrontend
    /\ made = 0 /\ ending = "open" /\ taken = 0
    /\ holding = NoMessage /\ channel = <<>>
    /\ frontend = "reading" /\ received = <<>>

Carrying == phase \in {"connect", "first", "forward"}

StartForward ==
    /\ phase = "none" /\ phase' = "connect"
    /\ UNCHANGED <<timer, copier, inflight, toSend, made, ending, taken, holding, channel, frontend, received>>

PassTime ==
    /\ timer = "before" /\ phase # "none" /\ frontend = "reading" /\ timer' = "after"
    /\ UNCHANGED <<phase, copier, inflight, toSend, made, ending, taken, holding, channel, frontend, received>>

(***************************************************************************)
(* The backend, and the pump that feeds it.                                *)
(***************************************************************************)
\* The backend holds its end of the request until it ends or is dropped.
Listening == Carrying /\ ending = "open"

PumpStep ==
    /\ Carrying
    /\ \/ /\ copier = "reading" /\ toSend > 0 /\ frontend = "reading"
          /\ copier' = "sending" /\ toSend' = toSend - 1 /\ UNCHANGED inflight
       \/ /\ copier = "reading" /\ copier' \in {"ended", "failed"} /\ UNCHANGED <<toSend, inflight>>
       \/ /\ copier = "sending" /\ Listening /\ ~inflight
          /\ copier' = "reading" /\ inflight' = TRUE /\ UNCHANGED toSend
       \/ /\ copier = "sending" /\ ~Listening
          /\ copier' = "failed" /\ UNCHANGED <<toSend, inflight>>
    /\ UNCHANGED <<phase, timer, made, ending, taken, holding, channel, frontend, received>>

Upstream ==
    /\ phase \in {"first", "forward"} /\ ending = "open"
    /\ \/ inflight' = FALSE /\ inflight /\ UNCHANGED <<made, ending>>
       \/ made < MaxUpstream /\ made' = made + 1 /\ UNCHANGED <<inflight, ending>>
       \/ ending' \in {"ok", "error"} /\ UNCHANGED <<inflight, made>>
    /\ UNCHANGED <<phase, timer, copier, toSend, taken, holding, channel, frontend, received>>

(***************************************************************************)
(* The call up to the first message, and the forwarding task after it.     *)
(***************************************************************************)
\* The call or the forwarding task ends: the pump is aborted by its guard, the
\* request to the backend is dropped.
EndForward(how) ==
    /\ phase' = how
    /\ copier' = IF copier \in {"ended", "failed"} THEN copier ELSE "aborted"
    /\ inflight' = FALSE /\ holding' = NoMessage
    /\ UNCHANGED <<timer, toSend, made, ending, taken, channel, received>>

\* An early return hands the frontend a status.
FailForward == EndForward("failed") /\ frontend' = IF frontend = "gone" THEN "gone" ELSE "error"

\* channel(), ready() and streaming(), each raced with the deadline and with an
\* error of the pump.
Connect ==
    /\ phase = "connect"
    /\ \/ /\ copier # "failed" /\ phase' = "first"
          /\ UNCHANGED <<timer, copier, inflight, toSend, made, ending, taken, holding, channel, frontend, received>>
       \/ FailForward

\* What the backend's stream has next: a message, its end, or nothing yet.
HasMessage == taken < made
AtEnd == taken = made /\ ending # "open"

First1 ==
    /\ phase = "first"
    /\ \/ /\ copier # "failed" /\ HasMessage
          /\ taken' = taken + 1 /\ holding' = taken + 1 /\ phase' = "forward"
          /\ UNCHANGED <<timer, copier, inflight, toSend, made, ending, channel, frontend, received>>
       \/ copier # "failed" /\ AtEnd /\ ending = "ok" /\ EndForward("over") /\ UNCHANGED frontend
       \/ (copier = "failed" \/ timer = "after" \/ (AtEnd /\ ending = "error")) /\ FailForward

\* Mutant: the task does not notice that the frontend has gone.
ForwardNextUnaware ==
    /\ phase = "forward" /\ holding = NoMessage
    /\ \/ /\ copier # "failed" /\ HasMessage
          /\ taken' = taken + 1 /\ holding' = taken + 1
          /\ UNCHANGED <<phase, timer, copier, inflight, toSend, made, ending, channel, frontend, received>>
       \/ copier # "failed" /\ AtEnd /\ ending = "ok" /\ EndForward("over") /\ UNCHANGED frontend
       \/ /\ copier = "failed" \/ timer = "after" \/ (AtEnd /\ ending = "error")
          /\ holding' = Status
          /\ UNCHANGED <<phase, timer, copier, inflight, toSend, made, ending, taken, channel, frontend, received>>

\* The forwarding task looks, in this order, for an error of the pump, for a
\* frontend that has gone, for the next message and for the deadline.
ForwardNext ==
    /\ phase = "forward" /\ holding = NoMessage
    /\ \/ copier # "failed" /\ frontend = "gone" /\ EndForward("over") /\ UNCHANGED frontend
       \/ /\ copier # "failed" /\ frontend # "gone" /\ HasMessage
          /\ taken' = taken + 1 /\ holding' = taken + 1
          /\ UNCHANGED <<phase, timer, copier, inflight, toSend, made, ending, channel, frontend, received>>
       \/ copier # "failed" /\ frontend # "gone" /\ AtEnd /\ ending = "ok" /\ EndForward("over") /\ UNCHANGED frontend
       \/ /\ copier = "failed" \/ timer = "after" \/ (AtEnd /\ ending = "error")
          /\ holding' = Status
          /\ UNCHANGED <<phase, timer, copier, inflight, toSend, made, ending, taken, channel, frontend, received>>

\* send_before_deadline: the item is sent, or the frontend has gone or the
\* deadline has passed and the task gives up. A status is the last item.
ForwardSend ==
    /\ phase = "forward" /\ holding # NoMessage
    /\ \/ /\ Len(channel) < FORWARD_BUFFER /\ frontend = "reading"
          /\ IF holding = Status
             THEN /\ phase' = "over" /\ inflight' = FALSE
                  /\ copier' = IF copier \in {"ended", "failed"} THEN copier ELSE "aborted"
             ELSE UNCHANGED <<phase, inflight, copier>>
          /\ channel' = Append(channel, holding) /\ holding' = NoMessage
          /\ UNCHANGED <<timer, toSend, made, ending, taken, frontend, received>>
       \/ (frontend # "reading" \/ timer = "after") /\ EndForward("over") /\ UNCHANGED frontend

\* Mutant: only the tasks keep the deadline, the stream does not.
ReadAnyTime ==
    /\ frontend = "reading" /\ phase \in {"forward", "over"}
    /\ \/ /\ channel # <<>>
          /\ channel' = Tail(channel)
          /\ IF Head(channel) = Status THEN frontend' = "error" /\ UNCHANGED received
             ELSE received' = Append(received, Head(channel)) /\ UNCHANGED frontend
       \/ /\ channel = <<>> /\ phase = "over"
          /\ frontend' = "clean" /\ UNCHANGED <<channel, received>>
    /\ UNCHANGED <<phase, timer, copier, inflight, toSend, made, ending, taken, holding>>

(***************************************************************************)
(* The frontend.                                                           *)
(***************************************************************************)
\* A read of DeadlineStream: the deadline first, then the channel; the stream
\* ends when the channel is empty and nobody can send any more.
Read ==
    /\ frontend = "reading" /\ phase \in {"forward", "over"}
    /\ \/ /\ timer = "after" /\ frontend' = "error" /\ UNCHANGED <<channel, received>>
       \/ /\ timer # "after" /\ channel # <<>>
          /\ channel' = Tail(channel)
          /\ IF Head(channel) = Status THEN frontend' = "error" /\ UNCHANGED received
             ELSE received' = Append(received, Head(channel)) /\ UNCHANGED frontend
       \/ /\ timer # "after" /\ channel = <<>> /\ phase = "over"
          /\ frontend' = "clean" /\ UNCHANGED <<channel, received>>
    /\ UNCHANGED <<phase, timer, copier, inflight, toSend, made, ending, taken, holding>>

\* The frontend goes away: before the first message the future of the call is
\* dropped, after it the receiver of the response channel is.
Leave ==
    /\ frontend = "reading" /\ Carrying
    /\ frontend' = "gone"
    /\ IF phase = "forward" THEN UNCHANGED <<phase, timer, copier, inflight, toSend, made, ending, taken, holding, channel, received>>
       ELSE EndForward("over")

ForwardTask == Connect \/ First1 \/ ForwardNext \/ ForwardSend
ForwardNextStep == StartForward \/ PassTime \/ PumpStep \/ Upstream \/ ForwardTask \/ Read \/ Leave

\* Nothing is asked of the frontend or of the backend.
ForwardFairness == WF_fwVars(ForwardTask)

-----------------------------------------------------------------------------
\* A frontend that sees its stream end without an error has received every
\* message of the backend, in order, and the backend ended well: neither the
\* deadline, nor a broken request, nor a task that gave up looks like an end.
CleanEndIsWhole ==
    frontend = "clean" =>
        /\ ending = "ok"
        /\ received = [i \in 1..made |-> i]

\* The proxy lets go of a call whose frontend has gone, or whose deadline has
\* passed: its tasks end and the request to the backend is dropped, although
\* neither side says another word.
\* (True again and again in every fair behaviour.)
CallIsReleased == frontend = "gone" \/ timer = "after" => ~Carrying
=============================================================================
