----------------------------- MODULE Broadcast ------------------------------
(***************************************************************************)
(* A call the API proxy fans out to several machines (one_to_many of       *)
(* ployz-internal-machine-api-proxy). A task per backend asks it and       *)
(* reports events on a bounded channel, a pump copies the frontend's       *)
(* request messages into one bounded channel per backend, and the call     *)
(* merges the events until every task has finished. Returning, with        *)
(* whatever answer, aborts every task that still runs. Metadata and        *)
(* trailers, which change no decision, are left out.                       *)
(***************************************************************************)
EXTENDS Forward, FiniteSets, Functions

CONSTANTS
    Targets,          \* the machines the call is for
    REQUEST_BUFFER,   \* capacity of a backend's request channel
    RESPONSE_BUFFER,  \* least capacity of the event channel
    MaxRequests,      \* bound on the frontend's messages
    MaxPayloads,      \* bound on the messages of one backend
    Waiting,          \* targets that answer only once the request has ended
    Silent            \* targets that may never answer

ASSUME BroadcastAssumption == IsFiniteSet(Targets)

VARIABLES
    answer,     \* "none" until the call starts, "open" while it collects, then its result
    timed,      \* "no deadline", "before" the deadline or "after" it
    pump,       \* the request pump: "reading", "sending", "ok", "err", "aborted"
    copies,     \* targets the pump has yet to give the message to, in order
    takers,     \* targets whose request channel the pump still holds
    queued,   \* messages waiting in each request channel
    remaining,  \* messages the frontend has yet to send
    backend,    \* each backend task: "connect", "stream", "ending", "done", "aborted"
    outbox,     \* events a task is about to send
    events,     \* the event channel, as the queue of each sender's events
    told,       \* ghost: what each backend came to, in order
    merged,     \* the entries of each machine in the merged payload
    failures,   \* fatal failures collected
    completed,   \* number of tasks that have reported Finished
    shown        \* what the frontend was given: "none" until it reads

bcVars == <<answer, timed, pump, copies, takers, queued, remaining, backend,
            outbox, events, told, merged, failures, completed, shown>>
callVars == <<answer, merged, failures, completed, shown>>
pumpVars == <<pump, copies, takers, queued, remaining>>
taskVars == <<backend, outbox, told>>

BroadcastTypeOK ==
    /\ answer \in {"none", "open", "merged", "unknown", "request", "deadline", "dropped"}
    /\ timed \in {"no deadline", "before", "after"}
    /\ pump \in {"reading", "sending", "ok", "err", "aborted"}
    /\ Range(copies) \subseteq Targets /\ Range(takers) \subseteq Targets
    /\ queued \in [Targets -> 0..REQUEST_BUFFER]
    /\ backend \in [Targets -> {"connect", "stream", "ending", "done", "aborted"}]
    /\ completed \in 0..Cardinality(Targets)

BroadcastInit ==
    /\ answer = "none"
    /\ timed \in {"no deadline", "before"}
    /\ pump = "reading" /\ copies = <<>>
    /\ takers = CHOOSE order \in [1..Cardinality(Targets) -> Targets] : IsInjective(order)
    /\ queued = [t \in Targets |-> 0]
    /\ remaining = MaxRequests
    /\ backend = [t \in Targets |-> "connect"]
    /\ outbox = [t \in Targets |-> <<>>]
    /\ events = [t \in Targets |-> <<>>]
    /\ told = [t \in Targets |-> <<>>]
    /\ merged = [t \in Targets |-> <<>>]
    /\ failures = 0 /\ completed = 0
    /\ shown = "none"

EventCapacity ==
    IF RESPONSE_BUFFER > 2 * Cardinality(Targets) THEN RESPONSE_BUFFER ELSE 2 * Cardinality(Targets)
Room == SumFunction([t \in Targets |-> Len(events[t])]) < EventCapacity

\* The call spawns the pump and the tasks.
StartBroadcast ==
    /\ answer = "none"
    /\ answer' = "open"
    /\ UNCHANGED <<timed, pumpVars, taskVars, events, merged, failures, completed, shown>>

PassDeadline ==
    /\ answer \in {"open", "merged", "unknown"} /\ timed = "before" /\ shown = "none"
    /\ timed' = "after"
    /\ UNCHANGED <<callVars, pumpVars, taskVars, events>>

Active == answer = "open"

(***************************************************************************)
(* The request pump.                                                       *)
(***************************************************************************)
\* A request channel is open while its task still holds the outgoing request.
Open(t) == backend[t] \in {"connect", "stream"}

PumpRead ==
    /\ Active /\ pump = "reading" /\ remaining > 0
    /\ remaining' = remaining - 1
    /\ pump' = "sending" /\ copies' = takers
    /\ UNCHANGED <<callVars, timed, takers, queued, taskVars, events>>

\* The frontend ends its stream, or its stream breaks.
PumpEnd ==
    /\ Active /\ pump = "reading"
    /\ pump' \in {"ok", "err"}
    /\ UNCHANGED <<callVars, timed, copies, takers, queued, remaining, taskVars, events>>

\* Mutant: a closed channel blocks the pump instead of leaving the list.
PumpSendToAll ==
    /\ Active /\ pump = "sending" /\ Open(Head(copies))
    /\ queued[Head(copies)] < REQUEST_BUFFER
    /\ queued' = [queued EXCEPT ![Head(copies)] = @ + 1]
    /\ copies' = Tail(copies)
    /\ pump' = IF copies' # <<>> THEN "sending" ELSE "reading"
    /\ UNCHANGED <<callVars, timed, takers, remaining, taskVars, events>>

\* send() waits for room in an open channel; a closed one leaves the list. A
\* pump that no backend listens to any more ends well.
PumpSend ==
    /\ Active /\ pump = "sending"
    /\ LET t == Head(copies) IN
          IF Open(t)
          THEN /\ queued[t] < REQUEST_BUFFER
               /\ queued' = [queued EXCEPT ![t] = @ + 1]
               /\ UNCHANGED takers
          ELSE takers' = SelectSeq(takers, LAMBDA s : s # t) /\ UNCHANGED queued
    /\ copies' = Tail(copies)
    /\ pump' = CASE copies' # <<>> -> "sending"
                 [] copies' = <<>> /\ takers' = <<>> -> "ok"
                 [] OTHER -> "reading"
    /\ UNCHANGED <<callVars, timed, remaining, taskVars, events>>

(***************************************************************************)
(* The task of one backend.                                                *)
(***************************************************************************)
Runs(t) == Active /\ outbox[t] = <<>> /\ backend[t] \in {"connect", "stream"}

Connected(t) ==
    /\ Runs(t) /\ backend[t] = "connect"
    /\ backend' = [backend EXCEPT ![t] = "stream"]
    /\ UNCHANGED <<callVars, timed, pumpVars, outbox, events, told>>

\* The backend takes a message of the request.
TakeRequest(t) ==
    /\ Active /\ backend[t] = "stream" /\ queued[t] > 0
    /\ queued' = [queued EXCEPT ![t] = @ - 1]
    /\ UNCHANGED <<callVars, timed, pump, copies, takers, remaining, taskVars, events>>

\* May the backend answer now? One that waits wants the end of the request.
TargetAnswers(t) == t \in Waiting => queued[t] = 0 /\ pump \in {"ok", "err"}

\* A payload the proxy can read gets the machine's name and is passed on; one
\* it cannot read ends the task with a fatal failure.
GetPayload(t) ==
    /\ Runs(t) /\ backend[t] = "stream" /\ TargetAnswers(t) /\ Len(told[t]) < MaxPayloads
    /\ \E kind \in {"payload", "fatal"} :
          /\ told' = [told EXCEPT ![t] = Append(@, kind)]
          /\ outbox' = [outbox EXCEPT ![t] = <<kind>>]
          /\ backend' = [backend EXCEPT ![t] = IF kind = "fatal" THEN "ending" ELSE @]
    /\ UNCHANGED <<callVars, timed, pumpVars, events>>

\* The backend ends its answer.
GetEnd(t) ==
    /\ Runs(t) /\ backend[t] = "stream" /\ TargetAnswers(t)
    /\ told' = [told EXCEPT ![t] = Append(@, "end")]
    /\ backend' = [backend EXCEPT ![t] = "ending"]
    /\ UNCHANGED <<callVars, timed, pumpVars, outbox, events>>

\* Mutant: the task of a failed backend just finishes.
FailureEventsNone(t, why) == <<>>

\* What a failure of a backend is reported as: an entry of the merged answer, or
\* a fatal failure when the entry cannot be built.
FailureEvents(t, why) == <<why>>

\* No connection, or the answer breaks off; after the deadline, that is why.
GetFailure(t) ==
    /\ Runs(t)
    /\ \E why \in {"error", "fatal"} \cup (IF timed = "after" THEN {"late"} ELSE {}) :
          /\ told' = [told EXCEPT ![t] = Append(@, why)]
          /\ outbox' = [outbox EXCEPT ![t] = FailureEvents(t, why)]
    /\ backend' = [backend EXCEPT ![t] = "ending"]
    /\ UNCHANGED <<callVars, timed, pumpVars, events>>

SendEvents(t) ==
    /\ Active /\ outbox[t] # <<>> /\ Room
    /\ events' = [events EXCEPT ![t] = Append(@, Head(outbox[t]))]
    /\ outbox' = [outbox EXCEPT ![t] = Tail(@)]
    /\ UNCHANGED <<callVars, timed, pumpVars, backend, told>>

\* Finished is the last event of every task.
SendFinished(t) ==
    /\ Active /\ backend[t] = "ending" /\ outbox[t] = <<>> /\ Room
    /\ events' = [events EXCEPT ![t] = Append(@, "finished")]
    /\ backend' = [backend EXCEPT ![t] = "done"]
    /\ UNCHANGED <<callVars, timed, pumpVars, outbox, told>>

(***************************************************************************)
(* The call. The result of the pump is looked at before the next event.    *)
(***************************************************************************)
Nothing == [t \in Targets |-> <<>>]

\* Every return drops the guards of the tasks, which are aborted, and with them
\* the channels and, unless it is the answer, what has been merged.
ReturnAs(result) ==
    /\ answer' = result
    /\ backend' = [t \in Targets |-> IF backend[t] = "done" THEN "done" ELSE "aborted"]
    /\ outbox' = Nothing /\ events' = Nothing
    /\ pump' = IF pump \in {"ok", "err"} THEN pump ELSE "aborted"
    /\ queued' = [t \in Targets |-> 0] /\ copies' = <<>> /\ takers' = <<>>
    /\ remaining' = 0 /\ completed' = 0 /\ failures' = 0
    /\ IF result = "merged" THEN UNCHANGED <<merged, told>> ELSE merged' = Nothing /\ told' = Nothing
    /\ UNCHANGED <<timed, shown>>

CollectEvent(t) ==
    /\ Active /\ events[t] # <<>> /\ pump # "err"
    /\ LET event == Head(events[t]) IN
          /\ events' = [events EXCEPT ![t] = Tail(@)]
          /\ merged' = [merged EXCEPT ![t] = IF event \in {"payload", "error", "late"} THEN Append(@, event) ELSE @]
          /\ failures' = IF event = "fatal" THEN failures + 1 ELSE failures
          /\ completed' = IF event = "finished" THEN completed + 1 ELSE completed
    /\ UNCHANGED <<answer, shown, timed, pumpVars, taskVars>>

\* Mutant: the first Finished is taken for the last.
CollectedFirst == completed > 0

\* Has every task reported?
Collected == completed = Cardinality(Targets)

FailRequest == Active /\ pump = "err" /\ ReturnAs("request")
FailDeadline == Active /\ timed = "after" /\ ~Collected /\ ReturnAs("deadline")
FinishBroadcast ==
    /\ Active /\ Collected /\ pump # "err"
    /\ ReturnAs(IF failures > 0 THEN "unknown" ELSE "merged")

\* The frontend goes away and the future of the call is dropped.
DropBroadcast == Active /\ ReturnAs("dropped")

\* Mutant: the response stream has no deadline of its own.
ReadAnswerAnyTime ==
    /\ answer \in {"merged", "unknown", "request", "deadline"} /\ shown = "none"
    /\ shown' = answer
    /\ UNCHANGED <<answer, merged, failures, completed, timed, pumpVars, taskVars, events>>

\* DeadlineStream: after the deadline the frontend gets that error and then the
\* end, whatever the channel still holds. A status that has no metadata to go
\* with it is returned without such a stream.
ReadAnswer ==
    /\ answer \in {"merged", "unknown", "request", "deadline"} /\ shown = "none"
    /\ \/ timed = "after" /\ shown' = "deadline"
       \/ (timed # "after" \/ answer # "merged") /\ shown' = answer
    /\ UNCHANGED <<answer, merged, failures, completed, timed, pumpVars, taskVars, events>>

BroadcastCallStep ==
    \/ \E t \in Targets : CollectEvent(t)
    \/ FailRequest \/ FailDeadline \/ FinishBroadcast
BroadcastTaskStep(t) == SendEvents(t) \/ SendFinished(t)
BroadcastUpstream(t) == Connected(t) \/ GetEnd(t)

BroadcastNext ==
    \/ StartBroadcast \/ PassDeadline \/ DropBroadcast \/ ReadAnswer
    \/ PumpRead \/ PumpSend \/ PumpEnd \/ BroadcastCallStep
    \/ \E t \in Targets : \/ TakeRequest(t) \/ GetPayload(t) \/ GetFailure(t)
                          \/ BroadcastTaskStep(t) \/ BroadcastUpstream(t)

\* Nothing is asked of the frontend: it may neither send nor end its stream. A
\* target that is not silent connects or fails, reads the request, and answers.
BroadcastFairness ==
    /\ WF_bcVars(BroadcastCallStep) /\ WF_bcVars(PassDeadline) /\ WF_bcVars(PumpSend)
    /\ WF_bcVars(\E t \in Targets : BroadcastTaskStep(t))
    /\ WF_bcVars(\E t \in Targets \ Silent : TakeRequest(t) \/ BroadcastUpstream(t))

-----------------------------------------------------------------------------
\* The merged answer speaks for every machine: if the frontend is given one,
\* each backend has come to an end, its entries are all there and in order, and
\* none of them is an error the proxy made up because its own time was over.
MergedSpeaksForAll ==
    shown = "merged" =>
        \A t \in Targets :
            \/ told[t] = Append(merged[t], "end")
            \/ told[t] = merged[t] /\ told[t] # <<>> /\ told[t][Len(told[t])] = "error"

\* A broadcast ends, although its channels are bounded and backends finish or
\* fail before they have read the request. It may stay open for ever only for
\* want of a deadline and of a machine that answers, or of a frontend that ends
\* the request the machines wait for.
HeldUp ==
    /\ timed = "no deadline"
    /\ \E t \in Targets :
          /\ backend[t] \in {"connect", "stream"}
          /\ t \in Silent \/ (t \in Waiting /\ pump = "reading")
\* (True again and again in every fair behaviour.)
BroadcastIsOver == answer = "open" => HeldUp

\* A frontend takes for whole only what was forwarded to its end, and the merged
\* answer of a broadcast has a word for every machine.
AnswersAreWhole == CleanEndIsWhole /\ MergedSpeaksForAll
=============================================================================
