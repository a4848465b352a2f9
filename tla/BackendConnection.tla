-------------------------- MODULE BackendConnection --------------------------
(***************************************************************************)
(* The owner-managed life cycle of one remote gRPC backend of the machine   *)
(* API proxy: crates/ployz-internal-machine-api-proxy/src/backend.rs.       *)
(*                                                                          *)
(* Callers run Backend::channel() concurrently.  The first one dials; the   *)
(* others wait on a tokio Notify.  A failed dial or a lost transport puts   *)
(* the backend into backoff and hands it to one background reconnect task.  *)
(* Director::flush_remote_backends may close the backend at any moment.     *)
(*                                                                          *)
(* Every critical section of the connection mutex is one action, and so is  *)
(* what the code does between two of them.                                  *)
(***************************************************************************)
EXTENDS Naturals, FiniteSets

CONSTANTS
    Callers,    \* the concurrent users of channel()
    Tasks,      \* identities of spawned reconnect tasks
    NoTask,     \* reconnect_task = None
    MaxFaults   \* bound on failed dials, lost transports and cancelled calls

ASSUME ConstantsAssumption ==
    /\ MaxFaults \in Nat
    /\ NoTask \notin Tasks
    /\ Callers \cap Tasks = {}

VARIABLES
    channel,         \* the generation whose channel is installed; 0 is None
    phase,           \* ConnectionPhase
    reconnect_task,  \* handle of the stored reconnect task
    closed,
    generation,      \* starts at 0, so that 0 is never the one of an attempt
    waiting,         \* callers whose Notified future has not been woken
    pc,              \* control state of each caller and task
    gen,             \* generation of the attempt each caller or task makes
    tcp,             \* generations whose TrackedTcp is owned by a live HTTP/2 connection
    jobs,            \* what a thread still has to do after it left the mutex
    aborted,         \* tasks on which abort() was called
    faults

state == <<channel, phase, reconnect_task, closed, generation>>
vars == <<channel, phase, reconnect_task, closed, generation, waiting, pc,
          gen, tcp, jobs, aborted, faults>>

Procs == Callers \cup Tasks
NoChannel == 0
Phases == {"Idle", "InitialConnect", "Backoff"}
CallerPCs == {"idle", "enter", "check", "await", "guard"}
TaskPCs == {"idle", "gate", "sleep"}
ConnectPCs == {"connector", "dialing", "shaking", "ok", "err"}

\* A job is [src, gen, stage, reconnect]: the code of "src" still has to call
\* notify_waiters and then, if reconnect, start_reconnecting.
Jobs == [src : {"drop", "err", "guard"}, gen : Nat,
         stage : {"notify", "start"}, reconnect : BOOLEAN]

Job(src, g, reconnect) ==
    [src |-> src, gen |-> g, stage |-> "notify", reconnect |-> reconnect]

\* The thread of p has finished what it runs synchronously.
JobsDone(p) == \A j \in jobs : j.gen # gen[p]

Init ==
    /\ channel = NoChannel
    /\ phase = "Idle"
    /\ reconnect_task = NoTask
    /\ closed = FALSE
    /\ generation = 0
    /\ waiting = {}
    /\ pc = [p \in Procs |-> "idle"]
    /\ gen = [p \in Procs |-> 0]
    /\ tcp = {}
    /\ jobs = {}
    /\ aborted = {}
    /\ faults = 0

Goto(p, label) == pc' = [pc EXCEPT ![p] = label]
Fault == faults < MaxFaults /\ faults' = faults + 1

-----------------------------------------------------------------------------
(* Backend::channel(), up to the first connection attempt. *)

Call(c) ==
    /\ pc[c] = "idle"
    /\ JobsDone(c)
    /\ Goto(c, "enter")
    /\ UNCHANGED <<state, waiting, gen, tcp, jobs, aborted, faults>>

\* let changed = connection_changed.notified(), before the mutex is taken: a
\* notify_waiters from now on wakes this future even if it is not yet polled.
CreateNotified(c) ==
    /\ pc[c] = "enter"
    /\ waiting' = waiting \cup {c}
    /\ Goto(c, "check")
    /\ UNCHANGED <<state, gen, tcp, jobs, aborted, faults>>

CheckReturns == channel # NoChannel \/ closed \/ phase = "Backoff"

\* An installed channel, a closed backend and a backoff all return at once.
CheckAndReturn(c) ==
    /\ pc[c] = "check"
    /\ CheckReturns
    /\ Goto(c, "idle")
    /\ waiting' = waiting \ {c}
    /\ UNCHANGED <<state, gen, tcp, jobs, aborted, faults>>

CheckAndConnect(c) ==
    /\ pc[c] = "check"
    /\ ~CheckReturns
    /\ phase = "Idle"
    /\ phase' = "InitialConnect"
    /\ generation' = generation + 1
    /\ gen' = [gen EXCEPT ![c] = generation + 1]
    /\ waiting' = waiting \ {c}
    /\ Goto(c, "connector")
    /\ UNCHANGED <<channel, reconnect_task, closed, tcp, jobs, aborted, faults>>

CheckAndWait(c) ==
    /\ pc[c] = "check"
    /\ ~CheckReturns
    /\ phase = "InitialConnect"
    /\ Goto(c, "await")
    /\ UNCHANGED <<state, waiting, gen, tcp, jobs, aborted, faults>>

\* changed.await is over: the loop starts again.
WakeUp(c) ==
    /\ pc[c] = "await"
    /\ c \notin waiting
    /\ Goto(c, "enter")
    /\ UNCHANGED <<state, waiting, gen, tcp, jobs, aborted, faults>>

-----------------------------------------------------------------------------
(* BackendInner::connect, run by a caller or by the reconnect task. *)

ConnectAllowed(p) == generation = gen[p] /\ channel = NoChannel /\ ~closed

\* The connector looks at the state again before it dials.
Connector(p) ==
    /\ pc[p] = "connector"
    /\ Goto(p, IF ConnectAllowed(p) THEN "dialing" ELSE "err")
    /\ UNCHANGED <<state, waiting, gen, tcp, jobs, aborted, faults>>

\* TcpStream::connect succeeded: a TrackedTcp of this generation exists.
TcpConnected(p) ==
    /\ pc[p] = "dialing"
    /\ Goto(p, "shaking")
    /\ UNCHANGED <<state, waiting, gen, tcp, jobs, aborted, faults>>

\* TcpStream::connect failed or ran into REMOTE_CONNECT_TIMEOUT.
TcpFailed(p) ==
    /\ pc[p] = "dialing"
    /\ Fault
    /\ Goto(p, "err")
    /\ UNCHANGED <<state, waiting, gen, tcp, jobs, aborted>>

\* The HTTP/2 handshake moves the transport into a connection task of its own.
HandshakeDone(p) ==
    /\ pc[p] = "shaking"
    /\ tcp' = tcp \cup {gen[p]}
    /\ Goto(p, "ok")
    /\ UNCHANGED <<state, waiting, gen, jobs, aborted, faults>>

\* Mutant: the lost transport leaves the phase Idle.
TrackedTcpDropToIdle(g) ==
    IF closed \/ generation # g
    THEN UNCHANGED <<state, jobs>>
    ELSE /\ generation' = generation + 1
         /\ phase' = "Idle"
         /\ channel' = NoChannel
         /\ jobs' = jobs \cup {Job("drop", g, reconnect_task = NoTask)}
         /\ UNCHANGED <<reconnect_task, closed>>

\* Drop for TrackedTcp, its critical section.
TrackedTcpDrop(g) ==
    IF closed \/ generation # g
    THEN UNCHANGED <<state, jobs>>
    ELSE /\ generation' = generation + 1
         /\ phase' = "Backoff"
         /\ channel' = NoChannel
         /\ jobs' = jobs \cup {Job("drop", g, reconnect_task = NoTask)}
         /\ UNCHANGED <<reconnect_task, closed>>

\* A failed handshake drops the transport before connect returns the error.
HandshakeFailed(p) ==
    /\ pc[p] = "shaking"
    /\ Fault
    /\ TrackedTcpDrop(gen[p])
    /\ Goto(p, "err")
    /\ UNCHANGED <<waiting, gen, tcp, aborted>>

\* The connection task ends: the peer went away, or the last clone of a channel
\* that was never installed or has been replaced was dropped.
TransportEnds(g) ==
    /\ g \in tcp
    /\ tcp' = tcp \ {g}
    /\ IF closed \/ generation # g THEN UNCHANGED faults ELSE Fault
    /\ TrackedTcpDrop(g)
    /\ UNCHANGED <<waiting, pc, gen, aborted>>

-----------------------------------------------------------------------------
(* Backend::channel(), after the connection attempt. *)

ConnectSuperseded(c) ==
    closed \/ generation # gen[c] \/ phase # "InitialConnect"

\* Mutant: notify_waiters is missing.
InstallChannelSilently(c) ==
    /\ pc[c] = "ok"
    /\ ~ConnectSuperseded(c)
    /\ phase' = "Idle"
    /\ channel' = gen[c]
    /\ Goto(c, "idle")
    /\ UNCHANGED <<reconnect_task, closed, generation, waiting, gen, tcp, jobs, aborted, faults>>

InstallChannel(c) ==
    /\ pc[c] = "ok"
    /\ ~ConnectSuperseded(c)
    /\ phase' = "Idle"
    /\ channel' = gen[c]
    /\ waiting' = {}
    /\ Goto(c, "idle")
    /\ UNCHANGED <<reconnect_task, closed, generation, gen, tcp, jobs, aborted, faults>>

\* The channel is dropped; the guard is still armed when the call returns.
DiscardChannel(c) ==
    /\ pc[c] = "ok"
    /\ ConnectSuperseded(c)
    /\ Goto(c, "guard")
    /\ UNCHANGED <<state, waiting, gen, tcp, jobs, aborted, faults>>

\* Mutant: the failed caller never calls start_reconnecting.
ConnectErrorWithoutTask(c) ==
    /\ pc[c] = "err"
    /\ JobsDone(c)
    /\ IF ConnectSuperseded(c)
       THEN UNCHANGED <<phase, jobs>>
       ELSE /\ phase' = "Backoff"
            /\ jobs' = jobs \cup {Job("err", gen[c], FALSE)}
    /\ Goto(c, "idle")
    /\ UNCHANGED <<channel, reconnect_task, closed, generation, waiting, gen, tcp,
                   aborted, faults>>

ConnectError(c) ==
    /\ pc[c] = "err"
    /\ JobsDone(c)
    /\ IF ConnectSuperseded(c)
       THEN UNCHANGED <<phase, jobs>>
       ELSE /\ phase' = "Backoff"
            /\ jobs' = jobs \cup {Job("err", gen[c], TRUE)}
    /\ Goto(c, "idle")
    /\ UNCHANGED <<channel, reconnect_task, closed, generation, waiting, gen, tcp,
                   aborted, faults>>

\* The caller's future is dropped at one of its await points.
CancelWait(c) ==
    /\ pc[c] = "await"
    /\ Fault
    /\ waiting' = waiting \ {c}
    /\ Goto(c, "idle")
    /\ UNCHANGED <<state, gen, tcp, jobs, aborted>>

\* Mutant: no guard restores the phase of a cancelled call.
CancelConnectUnguarded(c) ==
    /\ pc[c] \in {"dialing", "shaking"}
    /\ Fault
    /\ IF pc[c] = "shaking" THEN TrackedTcpDrop(gen[c]) ELSE UNCHANGED <<state, jobs>>
    /\ Goto(c, "idle")
    /\ UNCHANGED <<waiting, gen, tcp, aborted>>

\* The connect future is dropped before the guard, and with it the transport of
\* an unfinished handshake.
CancelConnect(c) ==
    /\ pc[c] \in {"dialing", "shaking"}
    /\ Fault
    /\ IF pc[c] = "shaking" THEN TrackedTcpDrop(gen[c]) ELSE UNCHANGED <<state, jobs>>
    /\ Goto(c, "guard")
    /\ UNCHANGED <<waiting, gen, tcp, aborted>>

\* Drop for InitialConnectGuard while it is armed.
GuardDrop(c) ==
    /\ pc[c] = "guard"
    /\ JobsDone(c)
    /\ IF phase = "InitialConnect"
       THEN /\ phase' = "Idle"
            /\ jobs' = jobs \cup {Job("guard", gen[c], FALSE)}
       ELSE UNCHANGED <<phase, jobs>>
    /\ Goto(c, "idle")
    /\ UNCHANGED <<channel, reconnect_task, closed, generation, waiting, gen, tcp,
                   aborted, faults>>

-----------------------------------------------------------------------------
(* What a thread does after its critical section: notify, start_reconnecting. *)

\* connection_changed.notify_waiters() outside the mutex.
NotifyWaiters(j) ==
    /\ j.stage = "notify"
    /\ waiting' = {}
    /\ jobs' = (jobs \ {j}) \cup
               (IF j.reconnect THEN {[j EXCEPT !.stage = "start"]} ELSE {})
    /\ UNCHANGED <<state, pc, gen, tcp, aborted, faults>>

\* start_reconnecting spawns t behind the start gate and stores its handle.
\* A task that is not stored is aborted before the gate opens: it does nothing.
StartReconnecting(j, t) ==
    /\ j.stage = "start"
    /\ pc[t] = "idle"
    /\ jobs' = jobs \ {j}
    /\ IF closed
       THEN /\ phase' = "Idle"
            /\ UNCHANGED <<reconnect_task, pc>>
       ELSE /\ UNCHANGED phase
            /\ IF reconnect_task = NoTask
               THEN /\ reconnect_task' = t
                    /\ Goto(t, "gate")
               ELSE UNCHANGED <<reconnect_task, pc>>
    /\ UNCHANGED <<channel, closed, generation, waiting, gen, tcp, aborted, faults>>

\* start_tx.send(()), after the mutex is released.
OpenGate(t) ==
    /\ pc[t] = "gate"
    /\ Goto(t, "sleep")
    /\ UNCHANGED <<state, waiting, gen, tcp, jobs, aborted, faults>>

-----------------------------------------------------------------------------
(* The reconnect task. *)

\* The backoff has elapsed.
NextAttempt(t) ==
    /\ pc[t] = "sleep"
    /\ IF closed
       THEN /\ Goto(t, "idle")
            /\ UNCHANGED <<generation, gen>>
       ELSE /\ generation' = generation + 1
            /\ gen' = [gen EXCEPT ![t] = generation + 1]
            /\ Goto(t, "connector")
    /\ UNCHANGED <<channel, phase, reconnect_task, closed, waiting, tcp, jobs,
                   aborted, faults>>

\* Mutant: the task gives up after its first failure.
AttemptFailedForGood(t) ==
    /\ pc[t] = "err"
    /\ JobsDone(t)
    /\ Goto(t, "idle")
    /\ UNCHANGED <<state, waiting, gen, tcp, jobs, aborted, faults>>

AttemptFailed(t) ==
    /\ pc[t] = "err"
    /\ JobsDone(t)
    /\ Goto(t, "sleep")
    /\ UNCHANGED <<state, waiting, gen, tcp, jobs, aborted, faults>>

\* Mutant: the generation is not compared before the channel is installed.
AttemptInstallsUnchecked(t) ==
    /\ pc[t] = "ok"
    /\ ~closed
    /\ channel' = gen[t]
    /\ phase' = "Idle"
    /\ reconnect_task' = NoTask
    /\ waiting' = {}
    /\ Goto(t, "idle")
    /\ UNCHANGED <<closed, generation, gen, tcp, jobs, aborted, faults>>

AttemptInstalls(t) ==
    /\ pc[t] = "ok"
    /\ ~closed
    /\ generation = gen[t]
    /\ channel' = gen[t]
    /\ phase' = "Idle"
    /\ reconnect_task' = NoTask
    /\ waiting' = {}
    /\ Goto(t, "idle")
    /\ UNCHANGED <<closed, generation, gen, tcp, jobs, aborted, faults>>

\* Mutant: a superseded attempt forgets the handle, and the task goes on.
AttemptDiscardedForgets(t) ==
    /\ pc[t] = "ok"
    /\ closed \/ generation # gen[t]
    /\ reconnect_task' = NoTask
    /\ Goto(t, "sleep")
    /\ UNCHANGED <<channel, phase, closed, generation, waiting, gen, tcp, jobs,
                   aborted, faults>>

\* The backend was closed, or the fresh transport is already lost.
AttemptDiscarded(t) ==
    /\ pc[t] = "ok"
    /\ closed \/ generation # gen[t]
    /\ reconnect_task' = IF closed THEN NoTask ELSE reconnect_task
    /\ Goto(t, "sleep")
    /\ UNCHANGED <<channel, phase, closed, generation, waiting, gen, tcp, jobs,
                   aborted, faults>>

\* An aborted task ends at its next await point.  The backend is closed by
\* then, so dropping the transport of a handshake changes nothing.
AbortTask(t) ==
    /\ t \in aborted
    /\ pc[t] \in {"gate", "sleep", "dialing", "shaking"}
    /\ Goto(t, "idle")
    /\ UNCHANGED <<state, waiting, gen, tcp, jobs, aborted, faults>>

\* Mutant: abort() is called whether a handle is stored or not.
CloseAbortsNothing ==
    /\ closed' = TRUE
    /\ channel' = NoChannel
    /\ phase' = "Idle"
    /\ reconnect_task' = NoTask
    /\ aborted' = aborted \cup {reconnect_task}
    /\ waiting' = {}
    /\ UNCHANGED <<generation, pc, gen, tcp, jobs, faults>>

\* BackendInner::close.
Close ==
    /\ closed' = TRUE
    /\ channel' = NoChannel
    /\ phase' = "Idle"
    /\ reconnect_task' = NoTask
    /\ aborted' = aborted \cup ({reconnect_task} \ {NoTask})
    /\ waiting' = {}
    /\ UNCHANGED <<generation, pc, gen, tcp, jobs, faults>>

-----------------------------------------------------------------------------

Connect(p) ==
    \/ Connector(p)
    \/ TcpConnected(p)
    \/ TcpFailed(p)
    \/ HandshakeDone(p)
    \/ HandshakeFailed(p)

CallerStep(c) ==
    \/ CreateNotified(c)
    \/ CheckAndReturn(c)
    \/ CheckAndConnect(c)
    \/ CheckAndWait(c)
    \/ WakeUp(c)
    \/ InstallChannel(c)
    \/ DiscardChannel(c)
    \/ ConnectError(c)
    \/ GuardDrop(c)

TaskStep(t) ==
    \/ OpenGate(t)
    \/ NextAttempt(t)
    \/ AttemptFailed(t)
    \/ AttemptInstalls(t)
    \/ AttemptDiscarded(t)
    \/ AbortTask(t)

JobStep ==
    \/ \E j \in jobs : NotifyWaiters(j)
    \/ \E j \in jobs, t \in Tasks : StartReconnecting(j, t)

Environment ==
    \/ \E c \in Callers : Call(c) \/ CancelWait(c) \/ CancelConnect(c)
    \/ \E g \in tcp : TransportEnds(g)
    \/ Close

Next ==
    \/ \E p \in Procs : Connect(p)
    \/ \E c \in Callers : CallerStep(c)
    \/ \E t \in Tasks : TaskStep(t)
    \/ JobStep
    \/ Environment

Spec == Init /\ [][Next]_vars

\* The runtime polls every ready task, every mutex is released, and a dial ends
\* at REMOTE_CONNECT_TIMEOUT.  Nothing obliges callers, the network or close().
Fairness ==
    /\ \A p \in Procs : WF_vars(Connect(p))
    /\ \A c \in Callers : WF_vars(CallerStep(c))
    /\ \A t \in Tasks : WF_vars(TaskStep(t))
    /\ WF_vars(JobStep)

FairSpec == Spec /\ Fairness
-----------------------------------------------------------------------------
(* Properties. *)

TypeOK ==
    /\ channel \in Nat
    /\ phase \in Phases
    /\ reconnect_task \in Tasks \cup {NoTask}
    /\ closed \in BOOLEAN
    /\ generation \in Nat
    /\ waiting \subseteq Callers
    /\ pc \in [Procs -> CallerPCs \cup TaskPCs \cup ConnectPCs]
    /\ \A c \in Callers : pc[c] \in CallerPCs \cup ConnectPCs
    /\ \A t \in Tasks : pc[t] \in TaskPCs \cup ConnectPCs
    /\ gen \in [Procs -> Nat]
    /\ tcp \subseteq Nat
    /\ jobs \subseteq Jobs
    /\ aborted \subseteq Tasks
    /\ faults \in 0..MaxFaults

\* While the backend is open, a running reconnect task is the one whose handle
\* is stored: starters that race (a failed dial, a lost transport) never leave
\* two tasks bumping each other's generation.
OneReconnectTask ==
    ~closed => \A t \in Tasks : pc[t] # "idle" => reconnect_task = t

\* channel() only hands out a channel of the current generation whose transport
\* is alive: no interleaving of a slow dial, a lost transport and close()
\* installs a channel that nobody will ever replace.
InstalledChannelIsLive ==
    channel # NoChannel =>
        /\ ~closed
        /\ phase = "Idle"
        /\ channel = generation
        /\ channel \in tcp

\* An open backend in backoff, which makes every call fail at once, always has
\* a reconnect task or a thread that is about to start one.
BackoffIsAttended ==
    phase = "Backoff" /\ ~closed =>
        \/ \E t \in Tasks : reconnect_task = t /\ pc[t] # "idle"
        \/ \E j \in jobs : j.reconnect

\* The InitialConnect phase, which makes every other call wait, belongs to a
\* caller that is still going to leave it.
InitialConnectIsOwned ==
    phase = "InitialConnect" =>
        \E c \in Callers : /\ gen[c] = generation
                           /\ pc[c] \in ConnectPCs \cup {"guard"}

\* No call meets a phase of the connection that nobody is going to end.
PhaseIsAttended == BackoffIsAttended /\ InitialConnectIsOwned

\* InitialConnectGuard compares no generation; still, it only ever resets the
\* phase that its own call set, never the attempt of a later caller.
GuardResetsOwnAttempt ==
    [][\A c \in Callers : GuardDrop(c) /\ phase' # phase => gen[c] = generation]_vars

\* The life cycle that users of the backend see.
status ==
    IF closed THEN "closed"
    ELSE IF channel # NoChannel THEN "up"
    ELSE CASE phase = "Idle" -> "down"
           [] phase = "InitialConnect" -> "connecting"
           [] phase = "Backoff" -> "retrying"

Lifecycle == INSTANCE BackendLifecycle WITH status <- status

\* The mutex-protected state moves through the phases of BackendLifecycle only.
ImplementsLifecycle == Lifecycle!Spec

\* An attempt ends and a lost backend comes back once the network stops failing.
ImplementsFairLifecycle == Lifecycle!FairSpec

\* No lost wakeup: every call of channel() returns.
CallReturns == \A c \in Callers : []<>(pc[c] = "idle")
=============================================================================
