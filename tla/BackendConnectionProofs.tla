----------------------- MODULE BackendConnectionProofs -----------------------
(***************************************************************************)
(* Proofs about BackendConnection, for any number of callers, tasks and     *)
(* faults.                                                                  *)
(***************************************************************************)
EXTENDS BackendConnection, TLAPS

\* p runs BackendInner::connect, holds what it returned, or is about to drop an
\* armed InitialConnectGuard.
Attempting(p) == pc[p] \in ConnectPCs \cup {"guard"}

\* Generations only grow, and every attempt gets one of its own.
GenerationsOrdered ==
    /\ \A p \in Procs : gen[p] <= generation
    /\ \A g \in tcp : g <= generation
    /\ \A p \in Procs : Attempting(p) => gen[p] # 0
    /\ \A p, q \in Procs : Attempting(p) /\ Attempting(q) /\ gen[p] = gen[q] => p = q

\* The transport of an attempt belongs to a connection task exactly from the
\* handshake to its loss.
TransportsTracked ==
    /\ \A p \in Procs : pc[p] \in {"connector", "dialing", "shaking", "err"} => gen[p] \notin tcp
    /\ \A p \in Procs : pc[p] = "ok" /\ gen[p] = generation /\ ~closed => gen[p] \in tcp
    /\ \A p \in Procs : pc[p] = "guard" /\ gen[p] = generation /\ ~closed => gen[p] \notin tcp

\* Before the first failure there is at most one caller at work on a connection,
\* and its generation is the current one.
InitialPhase ==
    /\ phase = "InitialConnect" =>
         \E c \in Callers : /\ Attempting(c)
                            /\ gen[c] = generation
                            /\ \A d \in Callers : Attempting(d) => d = c
    /\ phase = "Idle" /\ channel = NoChannel /\ ~closed =>
         /\ generation \notin tcp
         /\ \A c \in Callers : ~Attempting(c)
    /\ \A c \in Callers :
         Attempting(c) /\ gen[c] = generation /\ ~closed => phase = "InitialConnect"

\* A stored handle means backoff and a live task; a thread about to start one
\* means backoff without a task, and there is one such thread only.
ReconnectOwned ==
    ~closed =>
      /\ reconnect_task # NoTask => phase = "Backoff" /\ pc[reconnect_task] # "idle"
      /\ \A j \in jobs : j.reconnect =>
           /\ phase = "Backoff"
           /\ reconnect_task = NoTask
           /\ generation \notin tcp
           /\ \A p \in Procs : Attempting(p) => gen[p] # generation
      /\ \A i, j \in jobs : i.reconnect /\ j.reconnect => i = j
      /\ \A j \in jobs : j.stage = "start" => j.reconnect

\* close() is final.
ClosedIsFinal ==
    /\ closed => channel = NoChannel /\ phase = "Idle" /\ reconnect_task = NoTask
    /\ aborted # {} => closed

NoChannelInBackoff == phase # "Idle" => channel = NoChannel

\* The inductive strengthening of the safety properties, beside TypeOK.
Safe ==
    /\ GenerationsOrdered
    /\ TransportsTracked
    /\ InitialPhase
    /\ ReconnectOwned
    /\ ClosedIsFinal
    /\ NoChannelInBackoff
    /\ OneReconnectTask
    /\ InstalledChannelIsLive
    /\ BackoffIsAttended

\* What the entries of jobs look like.
LEMMA JobType ==
    ASSUME NEW src \in {"drop", "err", "guard"}, NEW g \in Nat, NEW r \in BOOLEAN
    PROVE  /\ Job(src, g, r) \in Jobs
           /\ Job(src, g, r).reconnect = r
           /\ Job(src, g, r).stage = "notify"
BY DEF Job, Jobs

\* Dropping a TrackedTcp keeps the connection state well typed.
LEMMA DropType ==
    ASSUME TypeOK, NEW g \in Nat, TrackedTcpDrop(g)
    PROVE  /\ generation' \in Nat
           /\ phase' \in Phases
           /\ channel' \in Nat
           /\ jobs' \subseteq Jobs
           /\ UNCHANGED <<reconnect_task, closed>>
<1>1. Job("drop", g, reconnect_task = NoTask) \in Jobs
  <2>1. (reconnect_task = NoTask) \in BOOLEAN
    OBVIOUS
  <2> QED
    BY <2>1, JobType, Zenon
<1> QED
  BY <1>1 DEF TrackedTcpDrop, TypeOK, state, Phases, NoChannel

\* A fresh BackendInner is well typed.
LEMMA TypeInit == Init => TypeOK
<1> SUFFICES ASSUME Init PROVE TypeOK
  OBVIOUS
<1> USE ConstantsAssumption DEF Init, Procs, NoChannel, Phases, CallerPCs, TaskPCs, ConnectPCs
<1>1. pc \in [Procs -> CallerPCs \cup TaskPCs \cup ConnectPCs] /\ gen \in [Procs -> Nat]
  OBVIOUS
<1>2. \A p \in Procs : pc[p] = "idle"
  OBVIOUS
<1>3. closed \in BOOLEAN
  BY Zenon
<1>4. faults \in 0..MaxFaults
  OBVIOUS
<1> QED
  BY <1>1, <1>2, <1>3, <1>4 DEF TypeOK

\* Every critical section and every step between them keeps the types.
LEMMA TypeStep ==
    ASSUME TypeOK, [Next]_vars
    PROVE  TypeOK'
<1> USE ConstantsAssumption DEF Goto, Fault, state, Procs, NoChannel, Phases, CallerPCs, TaskPCs, ConnectPCs
<1>1. ASSUME NEW c \in Callers, Call(c)
      PROVE  TypeOK'
  BY <1>1 DEF Call, TypeOK
<1>2. ASSUME NEW c \in Callers, CreateNotified(c)
      PROVE  TypeOK'
  BY <1>2 DEF CreateNotified, TypeOK
<1>3. ASSUME NEW c \in Callers, CheckAndReturn(c)
      PROVE  TypeOK'
  BY <1>3 DEF CheckAndReturn, CheckReturns, TypeOK
<1>4. ASSUME NEW c \in Callers, CheckAndConnect(c)
      PROVE  TypeOK'
  BY <1>4 DEF CheckAndConnect, CheckReturns, TypeOK
<1>5. ASSUME NEW c \in Callers, CheckAndWait(c)
      PROVE  TypeOK'
  BY <1>5 DEF CheckAndWait, CheckReturns, TypeOK
<1>6. ASSUME NEW c \in Callers, WakeUp(c)
      PROVE  TypeOK'
  BY <1>6 DEF WakeUp, TypeOK
<1>7. ASSUME NEW c \in Callers, InstallChannel(c)
      PROVE  TypeOK'
  BY <1>7 DEF InstallChannel, ConnectSuperseded, TypeOK
<1>8. ASSUME NEW c \in Callers, DiscardChannel(c)
      PROVE  TypeOK'
  BY <1>8 DEF DiscardChannel, ConnectSuperseded, TypeOK
<1>9. ASSUME NEW c \in Callers, ConnectError(c)
      PROVE  TypeOK'
  <2>1. gen[c] \in Nat
    BY DEF TypeOK
  <2>2. Job("err", gen[c], TRUE) \in Jobs
    BY <2>1, JobType, Zenon
  <2> QED
    BY <1>9, <2>2, Zenon DEF ConnectError, ConnectSuperseded, TypeOK
<1>10. ASSUME NEW c \in Callers, GuardDrop(c)
      PROVE  TypeOK'
  <2>1. gen[c] \in Nat
    BY DEF TypeOK
  <2>2. Job("guard", gen[c], FALSE) \in Jobs
    BY <2>1, JobType, Zenon
  <2> QED
    BY <1>10, <2>2, Zenon DEF GuardDrop, TypeOK
<1>11. ASSUME NEW c \in Callers, CancelWait(c)
      PROVE  TypeOK'
  BY <1>11 DEF CancelWait, TypeOK
<1>12. ASSUME NEW c \in Callers, CancelConnect(c)
      PROVE  TypeOK'
  <2>1. gen[c] \in Nat
    BY DEF TypeOK
  <2>2. CASE TrackedTcpDrop(gen[c])
    BY <1>12, <2>1, <2>2, DropType DEF CancelConnect, TypeOK
  <2>3. CASE UNCHANGED <<state, jobs>>
    BY <1>12, <2>3 DEF CancelConnect, TypeOK
  <2> QED
    BY <1>12, <2>2, <2>3 DEF CancelConnect
<1>13. ASSUME NEW p \in Procs, Connector(p)
      PROVE  TypeOK'
  <2>1. \/ pc' = [pc EXCEPT ![p] = "dialing"]
        \/ pc' = [pc EXCEPT ![p] = "err"]
    BY <1>13, Zenon DEF Connector
  <2> QED
    BY <1>13, <2>1 DEF Connector, TypeOK
<1>14. ASSUME NEW p \in Procs, TcpConnected(p)
      PROVE  TypeOK'
  BY <1>14 DEF TcpConnected, TypeOK
<1>15. ASSUME NEW p \in Procs, TcpFailed(p)
      PROVE  TypeOK'
  BY <1>15 DEF TcpFailed, TypeOK
<1>16. ASSUME NEW p \in Procs, HandshakeDone(p)
      PROVE  TypeOK'
  BY <1>16, Zenon DEF HandshakeDone, TypeOK
<1>17. ASSUME NEW p \in Procs, HandshakeFailed(p)
      PROVE  TypeOK'
  <2>1. gen[p] \in Nat
    BY DEF TypeOK
  <2> QED
    BY <1>17, <2>1, DropType DEF HandshakeFailed, TypeOK
<1>18. ASSUME NEW t \in Tasks, OpenGate(t)
      PROVE  TypeOK'
  BY <1>18 DEF OpenGate, TypeOK
<1>19. ASSUME NEW t \in Tasks, NextAttempt(t)
      PROVE  TypeOK'
  BY <1>19 DEF NextAttempt, TypeOK
<1>20. ASSUME NEW t \in Tasks, AttemptFailed(t)
      PROVE  TypeOK'
  BY <1>20 DEF AttemptFailed, TypeOK
<1>21. ASSUME NEW t \in Tasks, AttemptInstalls(t)
      PROVE  TypeOK'
  BY <1>21 DEF AttemptInstalls, TypeOK
<1>22. ASSUME NEW t \in Tasks, AttemptDiscarded(t)
      PROVE  TypeOK'
  BY <1>22 DEF AttemptDiscarded, TypeOK
<1>23. ASSUME NEW t \in Tasks, AbortTask(t)
      PROVE  TypeOK'
  BY <1>23 DEF AbortTask, TypeOK
<1>24. ASSUME NEW g \in tcp, TransportEnds(g)
      PROVE  TypeOK'
  <2>1. g \in Nat
    BY DEF TypeOK
  <2> QED
    BY <1>24, <2>1, DropType DEF TransportEnds, TypeOK
<1>25. ASSUME Close
      PROVE  TypeOK'
  BY <1>25 DEF Close, TypeOK
<1>26. ASSUME NEW j \in jobs, NotifyWaiters(j)
      PROVE  TypeOK'
  BY <1>26 DEF NotifyWaiters, TypeOK, Jobs
<1>27. ASSUME NEW j \in jobs, NEW t \in Tasks, StartReconnecting(j, t)
      PROVE  TypeOK'
  BY <1>27 DEF StartReconnecting, TypeOK, Jobs
<1>28. CASE UNCHANGED vars
  BY <1>28 DEF vars, TypeOK
<1> QED
  BY <1>1, <1>2, <1>3, <1>4, <1>5, <1>6, <1>7, <1>8, <1>9, <1>10, <1>11, <1>12, <1>13, <1>14, <1>15, <1>16, <1>17, <1>18, <1>19, <1>20, <1>21, <1>22, <1>23, <1>24, <1>25, <1>26, <1>27, <1>28 DEF Next, Connect, CallerStep, TaskStep, JobStep, Environment

\* A fresh BackendInner satisfies the strengthening.
LEMMA SafeInit == Init => Safe
BY ConstantsAssumption DEF Init, Safe, GenerationsOrdered, TransportsTracked, InitialPhase, ReconnectOwned, ClosedIsFinal, NoChannelInBackoff, OneReconnectTask, InstalledChannelIsLive, BackoffIsAttended, Attempting, Goto, Fault, state, Procs, NoChannel, Phases, CallerPCs, TaskPCs, ConnectPCs

\* The loss of the current transport: the attempt or the connection task that
\* drops it owns the generation, so no other thread is about to reconnect.
LEMMA LossKeeps ==
    ASSUME TypeOK, TypeOK', Safe, ~closed, TrackedTcpDrop(generation),
           generation \in tcp \/ \E p \in Procs : Attempting(p) /\ gen[p] = generation,
           \A p \in Procs : \/ pc'[p] = pc[p]
                            \/ pc[p] = "shaking" /\ pc'[p] \in {"err", "guard"},
           tcp' \subseteq tcp, UNCHANGED <<gen, aborted>>
    PROVE  Safe'
<1> USE DEF Procs, NoChannel, Attempting, ConnectPCs
<1> DEFINE J == Job("drop", generation, reconnect_task = NoTask)
<1>1. /\ generation' = generation + 1 /\ phase' = "Backoff" /\ channel' = NoChannel
      /\ jobs' = jobs \cup {J} /\ UNCHANGED <<reconnect_task, closed>>
  BY DEF TrackedTcpDrop
<1>2. J.reconnect = (reconnect_task = NoTask) /\ J.stage = "notify"
  BY DEF Job
<1> HIDE DEF J
<1>3. generation \in Nat /\ gen \in [Procs -> Nat] /\ tcp \subseteq Nat
  BY DEF TypeOK
<1>4. /\ \A p \in Procs : gen[p] <= generation /\ gen[p] # generation'
      /\ \A g \in tcp : g <= generation /\ g # generation'
  <2>1. (\A p \in Procs : gen[p] <= generation) /\ (\A g \in tcp : g <= generation)
    BY DEF Safe, GenerationsOrdered
  <2>2. \A n \in Nat : n <= generation => n # generation'
    BY <1>1, <1>3
  <2> QED
    BY <1>3, <2>1, <2>2, Zenon
<1>5. \A p \in Procs : Attempting(p)' <=> Attempting(p)
  OBVIOUS
<1>6. \A j \in jobs : ~j.reconnect
  BY DEF Safe, ReconnectOwned
<1>7. GenerationsOrdered'
  <2>1. \A p \in Procs : gen'[p] <= generation'
    BY <1>1, <1>3, <1>4
  <2>2. \A g \in tcp' : g <= generation'
    BY <1>1, <1>3, <1>4
  <2> QED
    BY <1>5, <2>1, <2>2 DEF Safe, GenerationsOrdered
<1>8. TransportsTracked'
  BY <1>4 DEF Safe, TransportsTracked
<1>9. InitialPhase'
  BY <1>1, <1>4 DEF InitialPhase
<1>10. ReconnectOwned'
  <2>1. reconnect_task # NoTask => pc[reconnect_task] # "idle" /\ pc'[reconnect_task] # "idle"
    BY Zenon DEF Safe, ReconnectOwned, TypeOK
  <2>2. \A j \in jobs' : j.reconnect => j = J /\ reconnect_task = NoTask
    BY <1>1, <1>2, <1>6
  <2>3. \A j \in jobs' : j.stage # "start"
    BY <1>1, <1>2, <1>6 DEF Safe, ReconnectOwned
  <2> QED
    BY <1>1, <1>4, <2>1, <2>2, <2>3 DEF ReconnectOwned
<1>11. ClosedIsFinal' /\ NoChannelInBackoff' /\ InstalledChannelIsLive'
  BY <1>1 DEF Safe, ClosedIsFinal, NoChannelInBackoff, InstalledChannelIsLive
<1>12. OneReconnectTask' /\ BackoffIsAttended'
  BY <1>1, <1>2, Zenon DEF Safe, OneReconnectTask, ReconnectOwned, BackoffIsAttended
<1> QED
  BY <1>7, <1>8, <1>9, <1>10, <1>11, <1>12 DEF Safe

\* Every step of backend.rs preserves the strengthening.
LEMMA SafeStep ==
    ASSUME TypeOK, TypeOK', Safe, [Next]_vars
    PROVE  Safe'
<1>a. /\ generation \in Nat /\ gen \in [Procs -> Nat] /\ tcp \subseteq Nat
      /\ pc \in [Procs -> CallerPCs \cup TaskPCs \cup ConnectPCs]
      /\ reconnect_task \in Tasks \cup {NoTask} /\ channel \in Nat /\ phase \in Phases
  BY DEF TypeOK
<1> USE ConstantsAssumption, <1>a
    DEF Safe, GenerationsOrdered, TransportsTracked, InitialPhase,
        ReconnectOwned, ClosedIsFinal, NoChannelInBackoff, OneReconnectTask, InstalledChannelIsLive, BackoffIsAttended,
        Goto, Fault, state, Procs, NoChannel, Phases, CallerPCs, TaskPCs,
        ConnectPCs, Attempting
<1>1. ASSUME NEW c \in Callers, Call(c)
      PROVE  Safe'
  BY <1>1 DEF Call
<1>2. ASSUME NEW c \in Callers, CreateNotified(c)
      PROVE  Safe'
  BY <1>2 DEF CreateNotified
<1>3. ASSUME NEW c \in Callers, CheckAndReturn(c)
      PROVE  Safe'
  BY <1>3 DEF CheckAndReturn, CheckReturns
<1>4. ASSUME NEW c \in Callers, CheckAndConnect(c)
      PROVE  Safe'
  BY <1>4 DEF CheckAndConnect, CheckReturns
<1>5. ASSUME NEW c \in Callers, CheckAndWait(c)
      PROVE  Safe'
  BY <1>5 DEF CheckAndWait, CheckReturns
<1>6. ASSUME NEW c \in Callers, WakeUp(c)
      PROVE  Safe'
  BY <1>6 DEF WakeUp
<1>7. ASSUME NEW c \in Callers, InstallChannel(c)
      PROVE  Safe'
  BY <1>7 DEF InstallChannel, ConnectSuperseded
<1>8. ASSUME NEW c \in Callers, DiscardChannel(c)
      PROVE  Safe'
  BY <1>8 DEF DiscardChannel, ConnectSuperseded
<1>9. ASSUME NEW c \in Callers, ConnectError(c)
      PROVE  Safe'
  <2> DEFINE J == Job("err", gen[c], TRUE)
  <2>1. gen[c] \in Nat
    BY DEF TypeOK
  <2>2. J.reconnect = TRUE /\ J.stage = "notify"
    BY <2>1, JobType, Zenon
  <2>3. CASE ConnectSuperseded(c)
    <3>1. /\ pc[c] = "err" /\ pc' = [pc EXCEPT ![c] = "idle"]
          /\ UNCHANGED <<state, jobs, waiting, gen, tcp, aborted, faults>>
      BY <1>9, <2>3 DEF ConnectError
    <3>2. closed \/ generation # gen[c] \/ phase # "InitialConnect"
      BY <2>3 DEF ConnectSuperseded
    <3> QED
      BY <3>1, <3>2 DEF TypeOK, Safe, GenerationsOrdered, TransportsTracked, InitialPhase, ReconnectOwned, ClosedIsFinal, NoChannelInBackoff, OneReconnectTask, InstalledChannelIsLive, BackoffIsAttended
  <2>4. CASE ~(ConnectSuperseded(c))
    <3>1. jobs' = jobs \cup {J}
      BY <1>9, <2>4, Zenon DEF ConnectError
    <3> HIDE DEF J
    <3>2. GenerationsOrdered'
      BY <1>9, <2>2, <2>4, <3>1 DEF ConnectError, ConnectSuperseded
    <3>3. TransportsTracked'
      BY <1>9, <2>2, <2>4, <3>1 DEF ConnectError, ConnectSuperseded
    <3>4. InitialPhase'
      BY <1>9, <2>2, <2>4, <3>1 DEF ConnectError, ConnectSuperseded
    <3>5. ReconnectOwned'
      BY <1>9, <2>2, <2>4, <3>1 DEF ConnectError, ConnectSuperseded
    <3>6. ClosedIsFinal'
      BY <1>9, <2>2, <2>4, <3>1 DEF ConnectError, ConnectSuperseded
    <3>7. NoChannelInBackoff'
      BY <1>9, <2>2, <2>4, <3>1 DEF ConnectError, ConnectSuperseded
    <3>8. OneReconnectTask'
      BY <1>9, <2>2, <2>4, <3>1 DEF ConnectError, ConnectSuperseded
    <3>9. InstalledChannelIsLive'
      BY <1>9, <2>2, <2>4, <3>1 DEF ConnectError, ConnectSuperseded
    <3>10. BackoffIsAttended'
      BY <1>9, <2>2, <2>4, <3>1 DEF ConnectError, ConnectSuperseded
    <3> QED
      BY <3>2, <3>3, <3>4, <3>5, <3>6, <3>7, <3>8, <3>9, <3>10 DEF Safe
  <2> QED
    BY <2>3, <2>4
<1>10. ASSUME NEW c \in Callers, GuardDrop(c)
      PROVE  Safe'
  <2> DEFINE J == Job("guard", gen[c], FALSE)
  <2>1. gen[c] \in Nat
    BY DEF TypeOK
  <2>2. J.reconnect = FALSE /\ J.stage = "notify"
    BY <2>1, JobType, Zenon
  <2>3. CASE phase # "InitialConnect"
    BY <1>10, <2>3 DEF GuardDrop
  <2>4. CASE ~(phase # "InitialConnect")
    <3>1. jobs' = jobs \cup {J}
      BY <1>10, <2>4, Zenon DEF GuardDrop
    <3> HIDE DEF J
    <3>2. GenerationsOrdered'
      BY <1>10, <2>2, <2>4, <3>1 DEF GuardDrop
    <3>3. TransportsTracked'
      BY <1>10, <2>2, <2>4, <3>1 DEF GuardDrop
    <3>4. InitialPhase'
      BY <1>10, <2>2, <2>4, <3>1 DEF GuardDrop
    <3>5. ReconnectOwned'
      BY <1>10, <2>2, <2>4, <3>1 DEF GuardDrop
    <3>6. ClosedIsFinal'
      BY <1>10, <2>2, <2>4, <3>1 DEF GuardDrop
    <3>7. NoChannelInBackoff'
      BY <1>10, <2>2, <2>4, <3>1 DEF GuardDrop
    <3>8. OneReconnectTask'
      BY <1>10, <2>2, <2>4, <3>1 DEF GuardDrop
    <3>9. InstalledChannelIsLive'
      BY <1>10, <2>2, <2>4, <3>1 DEF GuardDrop
    <3>10. BackoffIsAttended'
      BY <1>10, <2>2, <2>4, <3>1 DEF GuardDrop
    <3> QED
      BY <3>2, <3>3, <3>4, <3>5, <3>6, <3>7, <3>8, <3>9, <3>10 DEF Safe
  <2> QED
    BY <2>3, <2>4, Zenon
<1>11. ASSUME NEW c \in Callers, CancelWait(c)
      PROVE  Safe'
  BY <1>11 DEF CancelWait
<1>12. ASSUME NEW c \in Callers, CancelConnect(c)
      PROVE  Safe'
  <2>1. CASE pc[c] = "dialing" \/ closed \/ generation # gen[c]
    BY <1>12, <2>1 DEF CancelConnect, TrackedTcpDrop
  <2>2. CASE ~(pc[c] = "dialing" \/ closed \/ generation # gen[c])
    <3>1. /\ ~closed /\ TrackedTcpDrop(generation) /\ pc[c] = "shaking" /\ gen[c] = generation
          /\ pc' = [pc EXCEPT ![c] = "guard"] /\ UNCHANGED <<gen, tcp, aborted>>
      BY <1>12, <2>2 DEF CancelConnect
    <3> QED
      BY <3>1, LossKeeps, Zenon
  <2> QED
    BY <2>1, <2>2, Zenon
<1>13. ASSUME NEW p \in Procs, Connector(p)
      PROVE  Safe'
  BY <1>13 DEF Connector, ConnectAllowed
<1>14. ASSUME NEW p \in Procs, TcpConnected(p)
      PROVE  Safe'
  BY <1>14 DEF TcpConnected
<1>15. ASSUME NEW p \in Procs, TcpFailed(p)
      PROVE  Safe'
  BY <1>15 DEF TcpFailed
<1>16. ASSUME NEW p \in Procs, HandshakeDone(p)
      PROVE  Safe'
  BY <1>16 DEF HandshakeDone
<1>17. ASSUME NEW p \in Procs, HandshakeFailed(p)
      PROVE  Safe'
  <2>1. CASE closed \/ generation # gen[p]
    <3>1. GenerationsOrdered'
      BY <1>17, <2>1 DEF HandshakeFailed, TrackedTcpDrop
    <3>2. TransportsTracked'
      BY <1>17, <2>1 DEF HandshakeFailed, TrackedTcpDrop
    <3>3. InitialPhase'
      BY <1>17, <2>1 DEF HandshakeFailed, TrackedTcpDrop
    <3>4. ReconnectOwned'
      BY <1>17, <2>1 DEF HandshakeFailed, TrackedTcpDrop
    <3>5. OneReconnectTask'
      BY <1>17, <2>1 DEF HandshakeFailed, TrackedTcpDrop
    <3>6. ClosedIsFinal' /\ NoChannelInBackoff'
      BY <1>17, <2>1 DEF HandshakeFailed, TrackedTcpDrop
    <3>7. InstalledChannelIsLive' /\ BackoffIsAttended'
      BY <1>17, <2>1 DEF HandshakeFailed, TrackedTcpDrop
    <3> QED
      BY <3>1, <3>2, <3>3, <3>4, <3>5, <3>6, <3>7, Zenon DEF Safe
  <2>2. CASE ~(closed \/ generation # gen[p])
    <3>1. /\ ~closed /\ TrackedTcpDrop(generation) /\ pc[p] = "shaking" /\ gen[p] = generation
          /\ pc' = [pc EXCEPT ![p] = "err"] /\ UNCHANGED <<gen, tcp, aborted>>
      BY <1>17, <2>2 DEF HandshakeFailed
    <3> QED
      BY <3>1, LossKeeps, Zenon
  <2> QED
    BY <2>1, <2>2, Zenon
<1>18. ASSUME NEW t \in Tasks, OpenGate(t)
      PROVE  Safe'
  BY <1>18 DEF OpenGate
<1>19. ASSUME NEW t \in Tasks, NextAttempt(t)
      PROVE  Safe'
  BY <1>19 DEF NextAttempt
<1>20. ASSUME NEW t \in Tasks, AttemptFailed(t)
      PROVE  Safe'
  <2>1. GenerationsOrdered'
    BY <1>20 DEF AttemptFailed
  <2>2. TransportsTracked'
    BY <1>20 DEF AttemptFailed
  <2>3. InitialPhase'
    BY <1>20 DEF AttemptFailed
  <2>4. ReconnectOwned'
    BY <1>20 DEF AttemptFailed
  <2>5. OneReconnectTask'
    BY <1>20 DEF AttemptFailed
  <2>6. ClosedIsFinal' /\ NoChannelInBackoff'
    BY <1>20 DEF AttemptFailed
  <2>7. InstalledChannelIsLive' /\ BackoffIsAttended'
    BY <1>20 DEF AttemptFailed
  <2> QED
    BY <2>1, <2>2, <2>3, <2>4, <2>5, <2>6, <2>7, Zenon DEF Safe
<1>21. ASSUME NEW t \in Tasks, AttemptInstalls(t)
      PROVE  Safe'
  BY <1>21 DEF AttemptInstalls
<1>22. ASSUME NEW t \in Tasks, AttemptDiscarded(t)
      PROVE  Safe'
  BY <1>22 DEF AttemptDiscarded
<1>23. ASSUME NEW t \in Tasks, AbortTask(t)
      PROVE  Safe'
  BY <1>23 DEF AbortTask
<1>24. ASSUME NEW g \in tcp, TransportEnds(g)
      PROVE  Safe'
  <2>1. CASE closed \/ generation # g
    <3>1. GenerationsOrdered'
      BY <1>24, <2>1 DEF TransportEnds, TrackedTcpDrop
    <3>2. TransportsTracked'
      BY <1>24, <2>1 DEF TransportEnds, TrackedTcpDrop
    <3>3. InitialPhase'
      BY <1>24, <2>1 DEF TransportEnds, TrackedTcpDrop
    <3>4. ReconnectOwned'
      BY <1>24, <2>1 DEF TransportEnds, TrackedTcpDrop
    <3>5. OneReconnectTask'
      BY <1>24, <2>1 DEF TransportEnds, TrackedTcpDrop
    <3>6. ClosedIsFinal' /\ NoChannelInBackoff'
      BY <1>24, <2>1 DEF TransportEnds, TrackedTcpDrop
    <3>7. InstalledChannelIsLive' /\ BackoffIsAttended'
      BY <1>24, <2>1 DEF TransportEnds, TrackedTcpDrop
    <3> QED
      BY <3>1, <3>2, <3>3, <3>4, <3>5, <3>6, <3>7, Zenon DEF Safe
  <2>2. CASE ~(closed \/ generation # g)
    <3>1. /\ ~closed /\ TrackedTcpDrop(generation) /\ generation \in tcp
          /\ tcp' \subseteq tcp /\ UNCHANGED <<pc, gen, aborted>>
      BY <1>24, <2>2 DEF TransportEnds
    <3> QED
      BY <3>1, LossKeeps, Zenon
  <2> QED
    BY <2>1, <2>2, Zenon
<1>25. ASSUME Close
      PROVE  Safe'
  BY <1>25 DEF Close
<1>26. ASSUME NEW j \in jobs, NotifyWaiters(j)
      PROVE  Safe'
  <2>1. CASE ~j.reconnect
    BY <1>26, <2>1 DEF NotifyWaiters
  <2>2. CASE j.reconnect
    <3> DEFINE k == [j EXCEPT !.stage = "start"]
    <3>1. k.reconnect /\ k.stage = "start" /\ jobs' = (jobs \ {j}) \cup {k}
      BY <1>26, <2>2 DEF NotifyWaiters, TypeOK, Jobs
    <3> HIDE DEF k
    <3> QED
      BY <1>26, <2>2, <3>1 DEF NotifyWaiters
  <2> QED
    BY <2>1, <2>2, Zenon
<1>27. ASSUME NEW j \in jobs, NEW t \in Tasks, StartReconnecting(j, t)
      PROVE  Safe'
  <2>1. GenerationsOrdered'
    BY <1>27 DEF StartReconnecting
  <2>2. TransportsTracked'
    BY <1>27 DEF StartReconnecting
  <2>3. InitialPhase'
    BY <1>27 DEF StartReconnecting
  <2>4. ReconnectOwned'
    BY <1>27 DEF StartReconnecting
  <2>5. OneReconnectTask'
    BY <1>27 DEF StartReconnecting
  <2>6. ClosedIsFinal' /\ NoChannelInBackoff'
    BY <1>27 DEF StartReconnecting
  <2>7. InstalledChannelIsLive' /\ BackoffIsAttended'
    BY <1>27 DEF StartReconnecting
  <2> QED
    BY <2>1, <2>2, <2>3, <2>4, <2>5, <2>6, <2>7, Zenon DEF Safe
<1>28. CASE UNCHANGED vars
  BY <1>28 DEF vars
<1> HIDE DEF TypeOK, Safe
<1> QED
  BY <1>1, <1>2, <1>3, <1>4, <1>5, <1>6, <1>7, <1>8, <1>9, <1>10, <1>11, <1>12, <1>13, <1>14, <1>15, <1>16, <1>17, <1>18, <1>19, <1>20, <1>21, <1>22, <1>23, <1>24, <1>25, <1>26, <1>27, <1>28 DEF Next, Connect, CallerStep, TaskStep, JobStep, Environment

\* The types and the strengthening hold in every reachable state of backend.rs.
THEOREM InductiveInvariant == Spec => [](TypeOK /\ Safe)
<1>1. Init => TypeOK /\ Safe
  BY TypeInit, SafeInit
<1>2. TypeOK /\ Safe /\ [Next]_vars => (TypeOK /\ Safe)'
  BY TypeStep, SafeStep
<1> QED
  BY <1>1, <1>2, PTL DEF Spec

\* Every value stays in the range its Rust type and the code give it.
THEOREM TypeCorrect == Spec => []TypeOK
BY InductiveInvariant, PTL

\* However failed dials and lost transports race, an open backend never has two
\* reconnect tasks (start_reconnecting).
THEOREM AtMostOneReconnectTask == Spec => []OneReconnectTask
<1>1. TypeOK /\ Safe => OneReconnectTask
  BY DEF Safe
<1> QED
  BY <1>1, InductiveInvariant, PTL

\* channel() never returns a channel that is stale, closed or without transport.
THEOREM ChannelsAreLive == Spec => []InstalledChannelIsLive
<1>1. TypeOK /\ Safe => InstalledChannelIsLive
  BY DEF Safe
<1> QED
  BY <1>1, InductiveInvariant, PTL

\* An open backend in backoff is never left without somebody who reconnects it.
THEOREM BackoffNeverAbandoned == Spec => []BackoffIsAttended
<1>1. TypeOK /\ Safe => BackoffIsAttended
  BY DEF Safe
<1> QED
  BY <1>1, InductiveInvariant, PTL

\* The phase that makes callers wait always belongs to a caller still at work.
THEOREM InitialConnectHasOwner == Spec => []InitialConnectIsOwned
<1>1. TypeOK /\ Safe => InitialConnectIsOwned
  BY DEF Safe, InitialPhase, InitialConnectIsOwned, Attempting
<1> QED
  BY <1>1, InductiveInvariant, PTL

\* Both phases in which channel() does not hand out a channel come to an end by
\* somebody's doing.
THEOREM PhaseAlwaysAttended == Spec => []PhaseIsAttended
<1>1. BackoffIsAttended /\ InitialConnectIsOwned => PhaseIsAttended
  BY DEF PhaseIsAttended
<1> QED
  BY <1>1, BackoffNeverAbandoned, InitialConnectHasOwner, PTL

\* Drop for InitialConnectGuard needs no generation check.
THEOREM GuardIsOwn == Spec => GuardResetsOwnAttempt
<1>1. TypeOK /\ Safe =>
        \A c \in Callers : GuardDrop(c) /\ phase' # phase => gen[c] = generation
  BY Zenon DEF Safe, InitialPhase, Attempting, GuardDrop
<1> QED
  BY <1>1, InductiveInvariant, PTL DEF GuardResetsOwnAttempt

\* Every step of the backend is a step of its abstract life cycle or none.
THEOREM LifecycleRefinement == Spec => ImplementsLifecycle
<1>1. Init => Lifecycle!Init
  BY DEF Init, Lifecycle!Init, status, NoChannel
<1>2. ASSUME TypeOK, Safe, TypeOK', [Next]_vars
      PROVE  [Lifecycle!Next]_status
  <2> DEFINE Move ==
        \/ UNCHANGED <<closed, channel, phase>>
        \/ closed /\ closed'
        \/ ~closed /\ closed'
        \/ /\ ~closed /\ ~closed'
           /\ \/ /\ channel = 0 /\ phase = "Idle"
                 /\ channel' = 0 /\ phase' = "InitialConnect"
              \/ /\ channel = 0 /\ phase = "InitialConnect"
              \/ /\ channel # 0
                 /\ channel' = 0 /\ phase' = "Backoff"
              \/ /\ channel = 0 /\ phase = "Backoff"
                 /\ channel' = 0 => phase' = "Backoff"
  <2> USE <1>2, ConstantsAssumption
      DEF TypeOK, Safe, InitialPhase, ReconnectOwned, ClosedIsFinal, OneReconnectTask, NoChannelInBackoff,
          GenerationsOrdered, Attempting, Phases, state, ConnectPCs, Procs, NoChannel
  <2>1. ASSUME NEW c \in Callers, CheckAndConnect(c)
        PROVE  Move
    BY <2>1 DEF CheckAndConnect, CheckReturns
  <2>2. ASSUME NEW c \in Callers, InstallChannel(c)
        PROVE  Move
    BY <2>2 DEF InstallChannel, ConnectSuperseded
  <2>3. ASSUME NEW c \in Callers, ConnectError(c)
        PROVE  Move
    BY <2>3, Zenon DEF ConnectError, ConnectSuperseded
  <2>4. ASSUME NEW c \in Callers, GuardDrop(c)
        PROVE  Move
    BY <2>4, Zenon DEF GuardDrop
  <2>5. ASSUME NEW g \in Nat, TrackedTcpDrop(g),
               phase = "Idle" /\ channel = 0 /\ ~closed => g # generation
        PROVE  Move
    BY <2>5 DEF TrackedTcpDrop
  <2>6. ASSUME NEW t \in Tasks, AttemptInstalls(t)
        PROVE  Move
    BY <2>6 DEF AttemptInstalls
  <2>7. ASSUME NEW j \in jobs, NEW t \in Tasks, StartReconnecting(j, t)
        PROVE  Move
    BY <2>7 DEF StartReconnecting
  <2>8. ASSUME Close
        PROVE  Move
    BY <2>8, Zenon DEF Close
  <2>9. ASSUME UNCHANGED <<channel, phase, closed>>
        PROVE  Move
    BY <2>9
  <2> HIDE DEF Move
  <2>a. ASSUME NEW p \in Procs, HandshakeFailed(p)
        PROVE  Move
    BY <2>5, <2>a DEF HandshakeFailed
  <2>b. ASSUME NEW c \in Callers, CancelConnect(c)
        PROVE  Move
    BY <2>5, <2>9, <2>b DEF CancelConnect
  <2>c. ASSUME NEW g \in tcp, TransportEnds(g)
        PROVE  Move
    BY <2>5, <2>c DEF TransportEnds
  <2> HIDE DEF TypeOK, Safe
  <2>10. ASSUME NEW p \in Procs, Connect(p)
         PROVE  Move
    BY <2>9, <2>10, <2>a DEF Connect, Connector, TcpConnected, TcpFailed, HandshakeDone
  <2>11. ASSUME NEW c \in Callers, CallerStep(c)
         PROVE  Move
    BY <2>1, <2>2, <2>3, <2>4, <2>9, <2>11 DEF CallerStep, CreateNotified, CheckAndReturn,
       CheckAndWait, WakeUp, DiscardChannel
  <2>12. ASSUME NEW t \in Tasks, TaskStep(t)
         PROVE  Move
    BY <2>6, <2>9, <2>12 DEF TaskStep, OpenGate, NextAttempt, AttemptFailed,
       AttemptDiscarded, AbortTask
  <2>13. ASSUME JobStep
         PROVE  Move
    BY <2>7, <2>9, <2>13 DEF JobStep, NotifyWaiters
  <2>14. ASSUME Environment
         PROVE  Move
    BY <2>8, <2>9, <2>14, <2>b, <2>c DEF Environment, Call, CancelWait
  <2>15. Move
    BY <1>2, <2>9, <2>10, <2>11, <2>12, <2>13, <2>14 DEF Next, vars
  <2> QED
    BY <2>15 DEF TypeOK, Safe, Move, status, Lifecycle!Next, Lifecycle!FirstConnect,
       Lifecycle!FirstConnectEnds, Lifecycle!TransportLost, Lifecycle!Reconnected,
       Lifecycle!Close
<1> QED
  BY <1>1, <1>2, InductiveInvariant, PTL DEF Spec, ImplementsLifecycle, Lifecycle!Spec
=============================================================================
