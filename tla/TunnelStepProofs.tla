--------------------------- MODULE TunnelStepProofs ---------------------------
(***************************************************************************)
(* The inductive invariant of the tunnel, and the steps that preserve it   *)
(* outside the driver's loops over its streams: the owners of the streams,  *)
(* their tasks, the closing thread and the commands that the driver takes.  *)
(* TunnelProofs has the loops, the network and the theorems.                *)
(*                                                                         *)
(* ParkedIsAttended and StreamsAreKept are not inductive.  That no wake-up   *)
(* is lost needs that a task which has registered is in the Signal's wakers  *)
(* until it is woken, and that sync_streams finds no note of an earlier pass *)
(* when it visits a stream.  That an owner keeps its record needs that       *)
(* commands are taken only while the tunnel is healthy, so that an Open      *)
(* command still has its caller.                                            *)
(***************************************************************************)
EXTENDS Tunnel, FiniteSetTheorems, TLAPS

Phases == {"commands", "sync", "notify", "poll", "sync2", "notify2", "send",
           "cleanup", "ending", "done"}
Over == phase \in {"ending", "done"}
Commands == ({"open", "write", "both"} \X Streams) \cup {<<"stop", "driver">>}
Opens(i) == i \in 1..Len(commands) /\ commands[i][1] = "open"

MoreTypes ==
    /\ phase \in Phases
    /\ commands \in Seq(Commands)
    /\ connected \in [Streams -> BOOLEAN] /\ expired \in [Streams -> BOOLEAN]
    /\ rx \in [Streams -> BOOLEAN] /\ txfull \in [Streams -> BOOLEAN]
    /\ owner \in [Streams -> {"none", "opening", "dialing", "open", "gone"}]
    /\ poll \in [Streams -> [Sides -> {"idle", "register", "registered", "parked"}]]

\* The tunnel is healthy until the driver leaves its loop.
HealthyUntilOver ==
    /\ closed => phase = "done"
    /\ failure => Over

\* Each Open command in the channel has a caller of its own who waits for it.
OpensAreWaitedFor ==
    ~Over =>
        /\ \A i \in 1..Len(commands) : Opens(i) => owner[commands[i][2]] = "opening"
        /\ \A i, j \in 1..Len(commands) :
              i # j /\ Opens(i) /\ Opens(j) => commands[i][2] # commands[j][2]

\* The owner of a stream and the record of the driver.
OwnersMatch ==
    \A s \in Streams :
        /\ owner[s] \in {"none", "opening"} => rec[s] = "none"
        /\ owner[s] \in {"dialing", "open"} => rec[s] = "Attached"
        /\ sig[s].dropped => owner[s] = "gone"
        /\ rec[s] \in {"Closing", "Aborting1", "Aborting0"} => sig[s].dropped
        /\ \A side \in Sides : poll[s][side] # "idle" => owner[s] = "open"

\* A socket that has sent its FIN has closed the write half of the Signal.
FinIsShut ==
    \A s \in Streams : sock[s] \in {"fin_wait", "last_ack"} =>
        sig[s].write_closed /\ sig[s].outgoing = 0

\* The driver's loops visit streams it has, and the notes of a pass are gone
\* before the next pass looks at the stream.
LoopsAreOrdered ==
    /\ todo \subseteq Carried
    /\ \A s \in Streams : notes[s] # {} =>
          /\ rec[s] # "none"
          /\ \/ phase \in {"sync", "sync2"} /\ s \notin todo
             \/ phase \in {"notify", "notify2"} /\ s \in todo

\* A task that has registered is among the wakers until it is woken.
WaitersAreRegistered ==
    \A s \in Streams, side \in Sides :
        (poll[s][side] \in {"registered", "parked"} /\ side \notin woken[s]) =>
            side \in sig[s].wakers

TunnelInv ==
    /\ TypeOK /\ MoreTypes
    /\ HealthyUntilOver /\ OpensAreWaitedFor /\ OwnersMatch /\ FinIsShut
    /\ LoopsAreOrdered /\ WaitersAreRegistered /\ ParkedIsAttended

-----------------------------------------------------------------------------
(* The Signal *)

\* Aborting closes both halves and empties the buffers.
LEMMA AbortedSignal ==
    ASSUME NEW g \in Signals
    PROVE  /\ Aborted(g) \in Signals
           /\ Aborted(g).read_closed /\ Aborted(g).write_closed /\ Aborted(g).outgoing = 0
           /\ Aborted(g).wakers = g.wakers /\ Aborted(g).dropped = g.dropped
<1> DEFINE a == [g EXCEPT !.abort_requested = TRUE]
           b == [a EXCEPT !.read_closed = TRUE, !.write_closed = TRUE]
<1>1. Aborted(g) = [b EXCEPT !.incoming = 0, !.outgoing = 0]
  BY DEF Aborted, Signals
<1>2. a \in Signals
  BY Zenon DEF Signals
<1>3. b \in Signals
  BY <1>2, Zenon DEF Signals
<1>4. Aborted(g) \in Signals
  <2> HIDE DEF b
  <2>1. 0 \in 0..Capacity
    BY DEF Capacity
  <2> QED
    BY <1>1, <1>3, <2>1, Zenon DEF Signals
<1>5. /\ Aborted(g).read_closed /\ Aborted(g).write_closed /\ Aborted(g).outgoing = 0
      /\ Aborted(g).wakers = g.wakers /\ Aborted(g).dropped = g.dropped
  BY DEF Aborted, Signals
<1> QED
  BY <1>4, <1>5

\* Dropping shuts the write half down and leaves the buffers.
LEMMA DroppedSignal ==
    ASSUME NEW g \in Signals
    PROVE  /\ Dropped(g) \in Signals /\ Dropped(g).dropped
           /\ Dropped(g).write_closed = g.write_closed
           /\ Dropped(g).outgoing = g.outgoing
BY Zenon DEF Dropped, Signals

\* Notifying takes the wakers and nothing else.
LEMMA NotifiedSignal ==
    ASSUME NEW g \in Signals, NEW sides
    PROVE  /\ Notified(g, sides) \in Signals
           /\ Notified(g, sides).wakers = g.wakers \ sides
           /\ Notified(g, sides).dropped = g.dropped
           /\ Notified(g, sides).write_closed = g.write_closed
           /\ Notified(g, sides).outgoing = g.outgoing
           /\ \A side \in Sides : CanProceed(Notified(g, sides), side) = CanProceed(g, side)
<1>1. Notified(g, sides) = [g EXCEPT !.wakers = g.wakers \ sides]
  BY DEF Notified, Signals
<1>2. g.wakers \ sides \in SUBSET Sides
  BY DEF Signals
<1> QED
  BY <1>1, <1>2 DEF Signals, CanProceed, CanRead, CanWrite

\* A new Signal has been told nothing.
LEMMA NewSignalFacts == NewSignal \in Signals /\ ~NewSignal.dropped
<1>1. NewSignal \in Signals
  BY DEF NewSignal, Signals, Capacity
<1>2. NewSignal.dropped = FALSE
  BY DEF NewSignal
<1> QED
  BY <1>1, <1>2

LEMMA TunnelInit == Init => TunnelInv
<1> SUFFICES ASSUME Init PROVE TunnelInv
  OBVIOUS
<1> USE DEF Init
<1>1. NewSignal \in Signals
  BY NewSignalFacts
<1>2. Carried = {}
  BY DEF Carried
<1>3. TypeOK
  <2>1. closed \in BOOLEAN /\ failure \in BOOLEAN
    BY Zenon
  <2>2. Cardinality(Carried) <= MaxStreams
    BY <1>2, FS_EmptySet, TunnelAssumption
  <2> QED
    BY <1>1, <2>1, <2>2 DEF TypeOK, Lifecycles, Sockets
<1>4. MoreTypes
  BY DEF MoreTypes, Phases
<1>5. HealthyUntilOver /\ OpensAreWaitedFor
  BY DEF HealthyUntilOver, OpensAreWaitedFor
<1>6. OwnersMatch /\ FinIsShut
  BY DEF OwnersMatch, FinIsShut, NewSignal
<1>7. LoopsAreOrdered /\ WaitersAreRegistered /\ ParkedIsAttended
  BY DEF LoopsAreOrdered, WaitersAreRegistered, ParkedIsAttended
<1> QED
  BY <1>3, <1>4, <1>5, <1>6, <1>7 DEF TunnelInv

\* The channel and the owners are as they were, and the driver goes on.
LEMMA OpensFrame ==
    ASSUME OpensAreWaitedFor, Over => Over', UNCHANGED <<commands, owner>>
    PROVE  OpensAreWaitedFor'
<1>1. \A i : Opens(i)' = Opens(i)
  BY DEF Opens
<1> QED
  BY <1>1 DEF OpensAreWaitedFor

\* Nothing that the tasks wait for has changed.
LEMMA OwnersFrame ==
    ASSUME OwnersMatch, UNCHANGED <<owner, rec, sig, poll>>
    PROVE  OwnersMatch'
BY DEF OwnersMatch

\* Sockets only leave the states after a FIN.
LEMMA FinFrame ==
    ASSUME FinIsShut, UNCHANGED sig,
           \A s \in Streams : sock'[s] = sock[s] \/ sock'[s] \notin {"fin_wait", "last_ack"}
    PROVE  FinIsShut'
BY DEF FinIsShut

-----------------------------------------------------------------------------
(* The owner and the closing thread *)

LEMMA DialKeeps ==
    ASSUME TunnelInv, NEW s \in Streams, Dial(s)
    PROVE  TunnelInv'
<1> USE DEF TunnelInv, Dial, health, driver, records, stack, tasks
<1>1. commands' \in Seq(Commands) /\ Len(commands') = Len(commands) + 1
      /\ (\A i \in 1..Len(commands) : commands'[i] = commands[i])
      /\ commands'[Len(commands) + 1] = <<"open", s>>
  BY DEF MoreTypes, Commands
<1>2. TypeOK' /\ HealthyUntilOver'
  BY DEF TypeOK, HealthyUntilOver, Over, Carried
<1>3. MoreTypes'
  BY <1>1 DEF MoreTypes
<1>4. OpensAreWaitedFor'
  BY <1>1 DEF OpensAreWaitedFor, Over, Opens, MoreTypes, Commands
<1>5. OwnersMatch' /\ FinIsShut'
  BY DEF OwnersMatch, FinIsShut, MoreTypes
<1>6. LoopsAreOrdered' /\ WaitersAreRegistered' /\ ParkedIsAttended'
  BY DEF LoopsAreOrdered, WaitersAreRegistered, ParkedIsAttended, Carried
<1> QED
  BY <1>2, <1>3, <1>4, <1>5, <1>6

\* A caller of dial_context sees how its dial went.
LEMMA DialEndsKeeps ==
    ASSUME TunnelInv, NEW s \in Streams, DialUnanswered(s) \/ DialConnected(s)
    PROVE  TunnelInv'
<1> USE DEF TunnelInv, DialUnanswered, DialConnected, health, driver, records, stack, tasks
<1>0. UNCHANGED <<health, driver, commands, closer, records, stack, sig, tasks>>
  OBVIOUS
<1>1. TypeOK' /\ HealthyUntilOver'
  BY <1>0 DEF TypeOK, HealthyUntilOver, Over, Carried
<1>2. MoreTypes'
  BY DEF MoreTypes
<1>3. OpensAreWaitedFor'
  BY DEF OpensAreWaitedFor, Over, Opens, MoreTypes, Commands, HealthyUntilOver, Healthy
<1>4. OwnersMatch' /\ FinIsShut'
  BY DEF OwnersMatch, FinIsShut, MoreTypes
<1>5. LoopsAreOrdered' /\ WaitersAreRegistered' /\ ParkedIsAttended'
  BY DEF LoopsAreOrdered, WaitersAreRegistered, ParkedIsAttended, Carried
<1> QED
  BY <1>1, <1>2, <1>3, <1>4, <1>5

\* The tasks that poll a stream go with it.
LEMMA DropStreamKeeps ==
    ASSUME TunnelInv, NEW s \in Streams, NEW g \in {sig[s], Aborted(sig[s])},
           owner[s] \in {"dialing", "open"}, DropStream(s, g),
           UNCHANGED <<health, driver, commands, closer, records, stack>>
    PROVE  TunnelInv'
<1> USE DEF TunnelInv, DropStream, health, driver, records, stack
<1> DEFINE h == Notified(Dropped(g), Sides)
<1>1. sig[s] \in Signals
  BY DEF TypeOK
<1>2. /\ h \in Signals /\ h.wakers = {} /\ h.dropped
      /\ sig[s].write_closed => h.write_closed
      /\ sig[s].outgoing = 0 => h.outgoing = 0
  <2>1. /\ g \in Signals
        /\ sig[s].write_closed => g.write_closed
        /\ sig[s].outgoing = 0 => g.outgoing = 0
    BY <1>1, AbortedSignal
  <2>2. Dropped(g).wakers \subseteq Sides
    BY <2>1, DroppedSignal DEF Signals
  <2> QED
    BY <2>1, <2>2, DroppedSignal, NotifiedSignal
<1>3. sig' = [sig EXCEPT ![s] = h]
  OBVIOUS
<1> HIDE DEF h
<1>4. TypeOK' /\ HealthyUntilOver'
  BY <1>2, <1>3 DEF TypeOK, HealthyUntilOver, Over, Carried
<1>5. MoreTypes'
  BY DEF MoreTypes
<1>6. OpensAreWaitedFor'
  BY DEF OpensAreWaitedFor, Over, Opens, MoreTypes, Commands
<1>7. OwnersMatch'
  BY <1>2, <1>3 DEF OwnersMatch, MoreTypes, TypeOK, Lifecycles
<1>8. FinIsShut'
  BY <1>2, <1>3 DEF FinIsShut, TypeOK
<1>9. LoopsAreOrdered'
  BY DEF LoopsAreOrdered, Carried
<1>10. WaitersAreRegistered' /\ ParkedIsAttended'
  BY <1>3 DEF WaitersAreRegistered, ParkedIsAttended, TypeOK, MoreTypes
<1> QED
  BY <1>4, <1>5, <1>6, <1>7, <1>8, <1>9, <1>10

LEMMA DropsKeep ==
    ASSUME TunnelInv, NEW s \in Streams, DialFails(s) \/ DialTimesOut(s) \/ Drop(s)
    PROVE  TunnelInv'
BY DropStreamKeeps DEF DialFails, DialTimesOut, Drop

LEMMA ShutdownStreamKeeps ==
    ASSUME TunnelInv, NEW s \in Streams, NEW how \in {"write", "both"}, ShutdownStream(s, how)
    PROVE  TunnelInv'
<1> USE DEF TunnelInv, ShutdownStream, health, driver, records, stack, tasks
<1>1. commands' \in Seq(Commands) /\ Len(commands') = Len(commands) + 1
      /\ (\A i \in 1..Len(commands) : commands'[i] = commands[i])
      /\ commands'[Len(commands) + 1] = <<how, s>>
  BY DEF MoreTypes, Commands
<1>2. TypeOK' /\ HealthyUntilOver'
  BY DEF TypeOK, HealthyUntilOver, Over, Carried
<1>3. MoreTypes'
  BY <1>1 DEF MoreTypes
<1>4. OpensAreWaitedFor'
  BY <1>1 DEF OpensAreWaitedFor, Over, Opens, MoreTypes, Commands
<1>5. OwnersMatch' /\ FinIsShut'
  BY DEF OwnersMatch, FinIsShut, MoreTypes
<1>6. LoopsAreOrdered' /\ WaitersAreRegistered' /\ ParkedIsAttended'
  BY DEF LoopsAreOrdered, WaitersAreRegistered, ParkedIsAttended, Carried
<1> QED
  BY <1>2, <1>3, <1>4, <1>5, <1>6

\* Tunnel::close sends Stop and waits for the thread.
LEMMA CloseKeeps == TunnelInv /\ (Close \/ Joined) => TunnelInv'
<1> SUFFICES ASSUME TunnelInv, Close \/ Joined PROVE TunnelInv'
  OBVIOUS
<1> USE DEF TunnelInv, Close, Joined, health, driver, records, stack, tasks
<1>1. \/ commands' = commands
      \/ /\ commands' \in Seq(Commands) /\ Len(commands') = Len(commands) + 1
         /\ \A i \in 1..Len(commands) : commands'[i] = commands[i]
         /\ commands'[Len(commands) + 1] = <<"stop", "driver">>
  <2>1. <<"stop", "driver">> \in Commands
    BY DEF Commands
  <2>2. CASE commands' = Append(commands, <<"stop", "driver">>)
    BY <2>1, <2>2 DEF MoreTypes
  <2> QED
    BY <2>2
<1>2. UNCHANGED <<failure, driver, records, stack, sig, owner, tasks>>
  OBVIOUS
<1>3. TypeOK'
  <2>1. closed' \in BOOLEAN
    BY Zenon DEF TypeOK
  <2> QED
    BY <1>2, <2>1 DEF TypeOK, Carried
<1>4. MoreTypes'
  BY <1>1, <1>2 DEF MoreTypes
<1>5. HealthyUntilOver'
  BY DEF HealthyUntilOver, Over
<1>6. OpensAreWaitedFor'
  <2>1. CASE commands' = commands
    BY <1>2, <2>1 DEF OpensAreWaitedFor, Over, Opens
  <2>2. CASE /\ commands' \in Seq(Commands) /\ Len(commands') = Len(commands) + 1
             /\ \A i \in 1..Len(commands) : commands'[i] = commands[i]
             /\ commands'[Len(commands) + 1] = <<"stop", "driver">>
    <3>1. \A i \in 1..Len(commands') : Opens(i)' =>
             i \in 1..Len(commands) /\ Opens(i) /\ commands'[i] = commands[i]
      BY <2>2 DEF Opens, MoreTypes
    <3> QED
      BY <1>2, <3>1 DEF OpensAreWaitedFor, Over
  <2> QED
    BY <1>1, <2>1, <2>2
<1>7. OwnersMatch' /\ FinIsShut'
  BY <1>2 DEF OwnersMatch, FinIsShut, MoreTypes
<1>8. LoopsAreOrdered' /\ WaitersAreRegistered' /\ ParkedIsAttended'
  BY <1>2 DEF LoopsAreOrdered, WaitersAreRegistered, ParkedIsAttended, Carried
<1> QED
  BY <1>3, <1>4, <1>5, <1>6, <1>7, <1>8

-----------------------------------------------------------------------------
(* The tasks that poll a stream *)

\* What a poll leaves of the Signal: it takes no waker, and no half that could
\* not proceed before can proceed after it.
Polled(g, h) ==
    /\ g \in Signals
    /\ h.wakers \subseteq g.wakers
    /\ g.dropped = h.dropped /\ g.write_closed = h.write_closed
    /\ h.write_closed => g.outgoing = h.outgoing
    /\ \A side \in Sides : CanProceed(g, side) => CanProceed(h, side)

LEMMA PollKeeps ==
    ASSUME TunnelInv, NEW s \in Streams, NEW side \in Sides, owner[s] = "open",
           NEW g, Polled(g, sig[s]), sig' = [sig EXCEPT ![s] = g],
           NEW w \in SUBSET Sides, woken[s] \ {side} \subseteq w,
           woken' = [woken EXCEPT ![s] = w],
           NEW label \in {"idle", "register", "registered", "parked"}, PollAt(s, side, label),
           label \in {"registered", "parked"} => side \in w \/ side \in g.wakers,
           label = "parked" => ~CanProceed(g, side) /\ ~failure,
           UNCHANGED <<health, driver, commands, closer, records, stack, owner>>
    PROVE  TunnelInv'
<1> USE DEF TunnelInv, health, driver, records, stack
<1>1. TypeOK' /\ HealthyUntilOver'
  BY DEF TypeOK, HealthyUntilOver, Over, Carried, Polled
<1>2. MoreTypes'
  BY DEF MoreTypes, PollAt
<1>3. OpensAreWaitedFor'
  BY OpensFrame DEF Over
<1>4. OwnersMatch'
  <2>1. \A t \in Streams : t # s => sig'[t] = sig[t] /\ poll'[t] = poll[t]
    BY DEF TypeOK, MoreTypes, PollAt
  <2>2. sig'[s].dropped = sig[s].dropped
    BY DEF TypeOK, Polled
  <2> QED
    BY <2>1, <2>2 DEF OwnersMatch
<1>5. FinIsShut'
  BY DEF FinIsShut, TypeOK, Polled
<1>6. LoopsAreOrdered'
  BY DEF LoopsAreOrdered, Carried
<1>7. \A t \in Streams, x \in Sides :
         IF t = s THEN /\ poll'[t][x] = (IF x = side THEN label ELSE poll[t][x])
                       /\ sig'[t] = g /\ woken'[t] = w
         ELSE poll'[t] = poll[t] /\ sig'[t] = sig[t] /\ woken'[t] = woken[t]
  BY DEF PollAt, MoreTypes, TypeOK
<1>8. WaitersAreRegistered'
  BY <1>7 DEF WaitersAreRegistered, Polled
<1>9. ParkedIsAttended'
  <2> SUFFICES ASSUME NEW t \in Streams, NEW x \in Sides,
                      poll'[t][x] = "parked", x \notin woken'[t]
               PROVE  /\ x \in sig'[t].wakers
                      /\ (CanProceed(sig'[t], x) \/ failure) =>
                            x \in notes[t] \/ (phase = "ending" /\ t \in todo)
    BY DEF ParkedIsAttended
  <2>1. CASE t = s /\ x = side
    BY <1>7, <2>1
  <2>2. CASE t = s /\ x # side
    BY <1>7, <2>2 DEF ParkedIsAttended, Polled
  <2>3. CASE t # s
    BY <1>7, <2>3 DEF ParkedIsAttended
  <2> QED
    BY <2>1, <2>2, <2>3
<1> QED
  BY <1>1, <1>2, <1>3, <1>4, <1>5, <1>6, <1>8, <1>9

\* try_read and try_write empty or fill a buffer, or leave the Signal alone.
LEMMA TrySignal ==
    ASSUME TunnelInv, NEW s \in Streams, NEW side \in Sides, NEW blocked, Try(s, side, blocked)
    PROVE  \E g, label :
              /\ Polled(g, sig[s]) /\ sig' = [sig EXCEPT ![s] = g] /\ PollAt(s, side, label)
              /\ g.wakers = sig[s].wakers
              /\ \/ label = "idle"
                 \/ label = blocked /\ ~CanProceed(g, side) /\ ~failure
<1>1. sig[s] \in Signals /\ sig = [sig EXCEPT ![s] = sig[s]]
  BY DEF TunnelInv, TypeOK
<1>2. Polled(sig[s], sig[s])
  BY <1>1 DEF Polled
<1>3. CASE Healthy /\ ~CanProceed(sig[s], side)
  BY <1>1, <1>2, <1>3 DEF Try, Healthy
<1> DEFINE r == [sig[s] EXCEPT !.incoming = 0]
           v == [sig[s] EXCEPT !.outgoing = sig[s].outgoing + 1]
<1>4. Polled(r, sig[s]) /\ r.wakers = sig[s].wakers
  BY <1>1 DEF Polled, Signals, Capacity, CanProceed, CanRead, CanWrite
<1>5. side # "read" /\ CanProceed(sig[s], side) /\ ~(sig[s].write_shutdown \/ sig[s].write_closed)
        => Polled(v, sig[s]) /\ v.wakers = sig[s].wakers
  BY <1>1 DEF Polled, Signals, Capacity, CanProceed, CanRead, CanWrite
<1>6. CASE ~(Healthy /\ ~CanProceed(sig[s], side))
  <2>1. PollAt(s, side, "idle")
    BY <1>6 DEF Try
  <2>2. \/ sig' = [sig EXCEPT ![s] = sig[s]]
        \/ sig' = [sig EXCEPT ![s] = r]
        \/ /\ sig' = [sig EXCEPT ![s] = v] /\ side # "read" /\ CanProceed(sig[s], side)
           /\ ~(sig[s].write_shutdown \/ sig[s].write_closed)
    <3>1. CASE ~Healthy
      BY <1>6, <3>1 DEF Try
    <3>2. CASE Healthy /\ side = "read"
      BY <1>6, <3>2 DEF Try
    <3>3. CASE Healthy /\ side # "read" /\ (sig[s].write_shutdown \/ sig[s].write_closed)
      BY <1>6, <3>3 DEF Try
    <3>4. CASE Healthy /\ side # "read" /\ ~(sig[s].write_shutdown \/ sig[s].write_closed)
      BY <1>6, <3>4 DEF Try
    <3> QED
      BY <3>1, <3>2, <3>3, <3>4
  <2> HIDE DEF r, v
  <2> QED
    BY <1>1, <1>2, <1>4, <1>5, <2>1, <2>2
<1> QED
  BY <1>3, <1>6

LEMMA PollsKeep ==
    ASSUME TunnelInv, NEW s \in Streams, NEW side \in Sides,
           PollStart(s, side) \/ Register(s, side) \/ TryAgain(s, side)
    PROVE  TunnelInv'
<1>1. CASE PollStart(s, side)
  <2>1. PICK g, label :
              /\ Polled(g, sig[s]) /\ sig' = [sig EXCEPT ![s] = g] /\ PollAt(s, side, label)
              /\ label \in {"idle", "register"}
    <3>1. Try(s, side, "register")
      BY <1>1 DEF PollStart
    <3> QED
      BY <3>1, TrySignal
  <2>2. woken' = [woken EXCEPT ![s] = woken[s] \ {side}] /\ woken[s] \ {side} \in SUBSET Sides
    BY <1>1 DEF PollStart, TunnelInv, TypeOK
  <2>3. owner[s] = "open"
        /\ UNCHANGED <<health, driver, commands, closer, records, stack, owner>>
    BY <1>1 DEF PollStart, Try
  <2> QED
    BY <2>1, <2>2, <2>3, PollKeeps, Zenon
<1>2. CASE TryAgain(s, side)
  <2>1. PICK g, label :
              /\ Polled(g, sig[s]) /\ sig' = [sig EXCEPT ![s] = g] /\ PollAt(s, side, label)
              /\ g.wakers = sig[s].wakers
              /\ label = "idle" \/ (label = "parked" /\ ~CanProceed(g, side) /\ ~failure)
    <3>1. Try(s, side, "parked")
      BY <1>2 DEF TryAgain
    <3> QED
      BY <3>1, TrySignal
  <2>2. woken' = [woken EXCEPT ![s] = woken[s]] /\ woken[s] \in SUBSET Sides
    BY <1>2 DEF TryAgain, TunnelInv, TypeOK
  <2>3. owner[s] = "open" /\ (side \in woken[s] \/ side \in sig[s].wakers)
    BY <1>2 DEF TryAgain, TunnelInv, OwnersMatch, WaitersAreRegistered
  <2>4. UNCHANGED <<health, driver, commands, closer, records, stack, owner>>
    BY <1>2 DEF TryAgain, Try
  <2> QED
    BY <2>1, <2>2, <2>3, <2>4, PollKeeps, Zenon
<1>3. CASE Register(s, side)
  <2> DEFINE g == [sig[s] EXCEPT !.wakers = @ \cup {side}]
  <2>1. sig[s] \in Signals /\ sig' = [sig EXCEPT ![s] = g]
    BY <1>3 DEF Register, TunnelInv, TypeOK
  <2>2. Polled(g, sig[s]) /\ side \in g.wakers
    <3>1. g \in Signals /\ g.wakers = sig[s].wakers \cup {side}
      BY <2>1, Zenon DEF Signals
    <3>2. /\ g.dropped = sig[s].dropped /\ g.write_closed = sig[s].write_closed
          /\ g.outgoing = sig[s].outgoing
          /\ \A half \in Sides : CanProceed(g, half) = CanProceed(sig[s], half)
      BY <2>1 DEF Signals, CanProceed, CanRead, CanWrite
    <3> QED
      BY <3>1, <3>2, Zenon DEF Polled
  <2>3. woken' = [woken EXCEPT ![s] = woken[s]] /\ woken[s] \in SUBSET Sides
    BY <1>3 DEF Register, TunnelInv, TypeOK
  <2>4. owner[s] = "open"
    BY <1>3 DEF Register, TunnelInv, OwnersMatch
  <2>5. PollAt(s, side, "registered")
        /\ UNCHANGED <<health, driver, commands, closer, records, stack, owner>>
    BY <1>3 DEF Register
  <2> HIDE DEF g
  <2> QED
    BY <2>1, <2>2, <2>3, <2>4, <2>5, PollKeeps, Zenon
<1> QED
  BY <1>1, <1>2, <1>3

-----------------------------------------------------------------------------
(* The driver between its loops *)

\* Notes exist only while sync_streams and the wake-ups after it are under way.
LEMMA NoNotes ==
    ASSUME TunnelInv, phase \notin {"sync", "notify", "sync2", "notify2"}
    PROVE  \A s \in Streams : notes[s] = {}
BY DEF TunnelInv, LoopsAreOrdered

\* A command is taken from the front of the channel.
LEMMA TakeFacts ==
    ASSUME TunnelInv, NEW name, Take(name)
    PROVE  /\ phase = "commands" /\ 1 \in 1..Len(commands)
           /\ Head(commands) = commands[1] /\ commands[1] \in Commands /\ commands[1][1] = name
           /\ commands' \in Seq(Commands)
           /\ \A i \in 1..Len(commands') :
                 i + 1 \in 1..Len(commands) /\ i + 1 # 1 /\ commands'[i] = commands[i + 1]
BY DEF TunnelInv, MoreTypes, Take

LEMMA OpenKeeps == TunnelInv /\ OpenCommand => TunnelInv'
<1> SUFFICES ASSUME TunnelInv, OpenCommand PROVE TunnelInv'
  OBVIOUS
<1> USE DEF TunnelInv, health, tasks
<1> DEFINE s == Head(commands)[2]
<1>0. Take("open")
  BY DEF OpenCommand
<1>1. s \in Streams /\ phase = "commands" /\ phase' = "commands"
  BY <1>0, TakeFacts DEF OpenCommand, Commands
<1>2. owner[s] = "opening" /\ rec[s] = "none"
  BY <1>0, <1>1, TakeFacts DEF OpensAreWaitedFor, Opens, Over, OwnersMatch
<1>3. \A i \in 1..Len(commands') : Opens(i)' =>
         Opens(i + 1) /\ commands'[i] = commands[i + 1] /\ commands'[i][2] # s
  BY <1>0, <1>1, TakeFacts DEF OpensAreWaitedFor, Opens, Over
<1>4. UNCHANGED <<health, phase, todo, notes, closer, connected, expired, rx, txfull, sig, tasks>>
  BY DEF OpenCommand
<1>5. \/ /\ owner' = [owner EXCEPT ![s] = "none"]
         /\ UNCHANGED <<rec, sock>>
      \/ /\ Cardinality(Carried) < MaxStreams
         /\ owner' = [owner EXCEPT ![s] = "dialing"]
         /\ rec' = [rec EXCEPT ![s] = "Attached"]
         /\ sock' = [sock EXCEPT ![s] = "syn"]
  BY DEF OpenCommand
<1> HIDE DEF s
<1>6. TypeOK'
  <2>1. Cardinality(Carried') <= MaxStreams
    <3>1. CASE rec' = rec
      BY <3>1 DEF TypeOK, Carried
    <3>2. CASE Cardinality(Carried) < MaxStreams /\ rec' = [rec EXCEPT ![s] = "Attached"]
      <4>1. Carried' = Carried \cup {s} /\ s \notin Carried
        BY <1>1, <1>2, <3>2 DEF Carried, TypeOK
      <4>2. IsFiniteSet(Carried)
        BY TunnelAssumption, FS_Subset DEF Carried
      <4>3. Cardinality(Carried') = Cardinality(Carried) + 1 /\ Cardinality(Carried) \in Nat
        BY <4>1, <4>2, FS_AddElement, FS_CardinalityType
      <4> QED
        BY <3>2, <4>3, TunnelAssumption
    <3> QED
      BY <1>5, <3>1, <3>2
  <2>2. rec' \in [Streams -> Lifecycles] /\ sock' \in [Streams -> Sockets]
    BY <1>1, <1>5 DEF TypeOK, Lifecycles, Sockets
  <2> QED
    BY <1>4, <2>1, <2>2 DEF TypeOK
<1>7. MoreTypes'
  <2>1. commands' \in Seq(Commands)
    BY <1>0, TakeFacts
  <2>2. owner' \in [Streams -> {"none", "opening", "dialing", "open", "gone"}]
    BY <1>1, <1>5 DEF MoreTypes
  <2> QED
    BY <1>1, <1>4, <2>1, <2>2 DEF MoreTypes
<1>8. HealthyUntilOver'
  BY <1>4 DEF HealthyUntilOver, Over
<1>9. OpensAreWaitedFor'
  <2>1. \A i \in 1..Len(commands') : Opens(i)' => owner'[commands'[i][2]] = "opening"
    <3>1. \A t \in Streams : t # s => owner'[t] = owner[t]
      BY <1>1, <1>5 DEF MoreTypes
    <3>2. \A i \in 1..Len(commands') : Opens(i)' => commands'[i][2] \in Streams
      BY <1>0, TakeFacts DEF Opens, Commands
    <3>3. \A i \in 1..Len(commands') : Opens(i)' => owner[commands'[i][2]] = "opening"
      BY <1>1, <1>3 DEF OpensAreWaitedFor, Opens, Over
    <3> QED
      BY <1>3, <3>1, <3>2, <3>3
  <2>2. \A i, j \in 1..Len(commands') :
           i # j /\ Opens(i)' /\ Opens(j)' => commands'[i][2] # commands'[j][2]
    BY <1>1, <1>3 DEF OpensAreWaitedFor, Opens, Over
  <2> QED
    BY <2>1, <2>2 DEF OpensAreWaitedFor
<1>p. \A t \in Streams : t # s => owner'[t] = owner[t] /\ rec'[t] = rec[t] /\ sock'[t] = sock[t]
  BY <1>5 DEF MoreTypes, TypeOK
<1>q. \/ owner'[s] = "none" /\ rec'[s] = rec[s] /\ sock'[s] = sock[s]
      \/ owner'[s] = "dialing" /\ rec'[s] = "Attached" /\ sock'[s] = "syn"
  BY <1>1, <1>5 DEF MoreTypes, TypeOK
<1>10. OwnersMatch' /\ FinIsShut'
  <2>1. OwnersMatch'
    BY <1>2, <1>4, <1>p, <1>q DEF OwnersMatch
  <2>2. FinIsShut'
    BY <1>4, <1>p, <1>q, FinFrame
  <2> QED
    BY <2>1, <2>2
<1>11. LoopsAreOrdered'
  BY <1>1, <1>2, <1>4, <1>5 DEF LoopsAreOrdered, Carried, TypeOK
<1>12. WaitersAreRegistered' /\ ParkedIsAttended'
  BY <1>4 DEF WaitersAreRegistered, ParkedIsAttended
<1> QED
  BY <1>6, <1>7, <1>8, <1>9, <1>10, <1>11, <1>12

\* Commands that open nothing leave the Opens that are still waiting.
LEMMA TakeOther ==
    ASSUME TunnelInv, NEW name, Take(name), UNCHANGED owner
    PROVE  /\ \A i \in 1..Len(commands') : Opens(i)' => owner'[commands'[i][2]] = "opening"
           /\ \A i, j \in 1..Len(commands') :
                i # j /\ Opens(i)' /\ Opens(j)' => commands'[i][2] # commands'[j][2]
<1>1. \A i \in 1..Len(commands') : Opens(i)' => Opens(i + 1) /\ commands'[i] = commands[i + 1]
  BY TakeFacts DEF Opens
<1>2. ~Over
  BY TakeFacts DEF Over
<1>3. /\ \A i \in 1..Len(commands) : Opens(i) => owner[commands[i][2]] = "opening"
      /\ \A i, j \in 1..Len(commands) :
            i # j /\ Opens(i) /\ Opens(j) => commands[i][2] # commands[j][2]
  BY <1>2 DEF TunnelInv, OpensAreWaitedFor
<1>4. \A i \in 1..Len(commands') : i \in Int /\ i + 1 \in 1..Len(commands)
  BY TakeFacts
<1>5. \A i \in 1..Len(commands') : Opens(i)' => owner'[commands'[i][2]] = "opening"
  BY <1>1, <1>3, <1>4
<1>6. \A i, j \in 1..Len(commands') :
         i # j /\ Opens(i)' /\ Opens(j)' => commands'[i][2] # commands'[j][2]
  <2> SUFFICES ASSUME NEW i \in 1..Len(commands'), NEW j \in 1..Len(commands'),
                      i # j, Opens(i)', Opens(j)'
               PROVE  commands'[i][2] # commands'[j][2]
    OBVIOUS
  <2>1. i + 1 # j + 1 /\ i + 1 \in 1..Len(commands) /\ j + 1 \in 1..Len(commands)
    BY <1>4
  <2>2. Opens(i + 1) /\ Opens(j + 1)
    BY <1>1
  <2>3. commands[i + 1][2] # commands[j + 1][2]
    BY <1>3, <2>1, <2>2
  <2> QED
    BY <1>1, <2>3
<1> QED
  BY <1>5, <1>6

\* A shutdown closes a half or both and wakes every task that waits.
LEMMA ShutdownKeeps ==
    ASSUME TunnelInv, NEW how \in {"write", "both"}, ShutdownCommand(how)
    PROVE  TunnelInv'
<1> USE DEF TunnelInv, health, records, stack
<1> DEFINE s == Head(commands)[2]
           g == IF how = "both" THEN Aborted(sig[s]) ELSE [sig[s] EXCEPT !.write_shutdown = TRUE]
<1>0. Take(how)
  BY DEF ShutdownCommand
<1>1. s \in Streams /\ phase = "commands"
  BY <1>0, TakeFacts DEF Commands
<1>2. sig[s] \in Signals
  BY <1>1 DEF TypeOK
<1>3. /\ g \in Signals /\ g.wakers = sig[s].wakers /\ g.dropped = sig[s].dropped
      /\ sig[s].write_closed => g.write_closed
      /\ sig[s].outgoing = 0 => g.outgoing = 0
  <2>1. CASE how = "both"
    BY <1>2, <2>1, AbortedSignal
  <2>2. CASE how # "both"
    BY <1>2, <2>2, Zenon DEF Signals
  <2> QED
    BY <2>1, <2>2, Zenon
<1>4. /\ UNCHANGED <<health, phase, todo, notes, closer, records, stack, owner, poll>>
      /\ \/ UNCHANGED <<sig, woken>>
         \/ sig' = [sig EXCEPT ![s] = Notified(g, Sides)] /\ Wake(s, g, Sides)
  BY DEF ShutdownCommand
<1> HIDE DEF s, g
<1>5. PICK h \in Signals, w \in SUBSET Sides :
            /\ sig' = [sig EXCEPT ![s] = h] /\ woken' = [woken EXCEPT ![s] = w]
            /\ h.dropped = sig[s].dropped /\ woken[s] \subseteq w
            /\ sig[s].write_closed => h.write_closed
            /\ sig[s].outgoing = 0 => h.outgoing = 0
            /\ h = sig[s] \/ sig[s].wakers \subseteq w
  <2>1. sig[s].wakers \cap Sides = sig[s].wakers /\ sig[s].wakers \in SUBSET Sides
    BY <1>2 DEF Signals
  <2>2. woken[s] \in SUBSET Sides
    BY <1>1 DEF TypeOK
  <2>3. CASE UNCHANGED <<sig, woken>>
    <3>1. sig = [sig EXCEPT ![s] = sig[s]] /\ woken = [woken EXCEPT ![s] = woken[s]]
      BY <1>1 DEF TypeOK
    <3> QED
      BY <1>2, <2>2, <2>3, <3>1
  <2>4. CASE sig' = [sig EXCEPT ![s] = Notified(g, Sides)] /\ Wake(s, g, Sides)
    <3> DEFINE h == Notified(g, Sides)
               w == woken[s] \cup sig[s].wakers
    <3>1. /\ h \in Signals /\ h.dropped = sig[s].dropped
          /\ sig[s].write_closed => h.write_closed
          /\ sig[s].outgoing = 0 => h.outgoing = 0
      BY <1>3, NotifiedSignal
    <3>2. woken' = [woken EXCEPT ![s] = w]
      <4>1. g.wakers \cap Sides = sig[s].wakers
        BY <1>3, <2>1
      <4> QED
        BY <2>4, <4>1, Zenon DEF Wake
    <3>3. w \in SUBSET Sides
      BY <2>1, <2>2
    <3> HIDE DEF h, w
    <3>4. woken[s] \subseteq w /\ sig[s].wakers \subseteq w
      BY DEF w
    <3>5. sig' = [sig EXCEPT ![s] = h]
      BY <2>4 DEF h
    <3> QED
      BY <3>1, <3>2, <3>3, <3>4, <3>5, Zenon
  <2> QED
    BY <1>4, <2>3, <2>4
<1>p. /\ sig'[s] = h /\ woken'[s] = w
      /\ \A t \in Streams : t # s => sig'[t] = sig[t] /\ woken'[t] = woken[t]
  BY <1>1, <1>5 DEF TypeOK
<1>6. TypeOK'
  <2>1. sig' \in [Streams -> Signals] /\ woken' \in [Streams -> SUBSET Sides]
    BY <1>1, <1>5 DEF TypeOK
  <2> QED
    BY <1>4, <2>1 DEF TypeOK, Carried
<1>7. MoreTypes'
  BY <1>0, <1>4, TakeFacts DEF MoreTypes
<1>8. HealthyUntilOver'
  BY <1>4 DEF HealthyUntilOver, Over
<1>9. OpensAreWaitedFor'
  BY <1>0, <1>4, TakeOther DEF OpensAreWaitedFor
<1>10. OwnersMatch'
  BY <1>4, <1>5, <1>p DEF OwnersMatch
<1>11. FinIsShut'
  BY <1>4, <1>5, <1>p DEF FinIsShut
<1>12. LoopsAreOrdered'
  BY <1>4 DEF LoopsAreOrdered, Carried
<1>q. \A t \in Streams, side \in Sides : side \notin woken'[t] =>
         /\ side \notin woken[t]
         /\ sig'[t] = sig[t] \/ side \notin sig[t].wakers
  BY <1>5, <1>p
<1>13. WaitersAreRegistered'
  BY <1>4, <1>q DEF WaitersAreRegistered
<1>14. ParkedIsAttended'
  BY <1>4, <1>q DEF ParkedIsAttended
<1> QED
  BY <1>6, <1>7, <1>8, <1>9, <1>10, <1>11, <1>12, <1>13, <1>14

\* The driver goes on to a loop, or to its end, with no wake-up outstanding.  A
\* failure finds every stream that has a waiting task among those to notify.
LEMMA GotoKeeps ==
    ASSUME TunnelInv, phase \in {"commands", "poll", "send"},
           NEW label \in Phases \ {"done"}, Goto(label),
           failure' \in BOOLEAN, failure' => label = "ending",
           commands' = commands \/ (\E name : Take(name)),
           UNCHANGED <<closed, notes, closer, records, stack, sig, owner, tasks>>
    PROVE  TunnelInv'
<1> USE DEF TunnelInv, records, stack, tasks
<1>1. ~Over /\ phase' = label /\ todo' = Carried /\ \A s \in Streams : notes[s] = {}
  BY NoNotes DEF Goto, Over
<1>2. TypeOK'
  BY <1>1 DEF TypeOK, Carried
<1>3. MoreTypes'
  BY <1>1, TakeFacts DEF MoreTypes
<1>4. HealthyUntilOver'
  BY <1>1 DEF HealthyUntilOver, Over
<1>5. OpensAreWaitedFor'
  <2>1. CASE commands' = commands
    BY <1>1, <2>1 DEF OpensAreWaitedFor, Opens
  <2>2. CASE \E name : Take(name)
    BY <2>2, TakeOther DEF OpensAreWaitedFor
  <2> QED
    BY <2>1, <2>2
<1>6. OwnersMatch' /\ FinIsShut'
  BY DEF OwnersMatch, FinIsShut
<1>7. LoopsAreOrdered'
  BY <1>1 DEF LoopsAreOrdered, Carried
<1>8. WaitersAreRegistered'
  BY DEF WaitersAreRegistered
<1>9. ParkedIsAttended'
  <2> SUFFICES ASSUME NEW s \in Streams, NEW side \in Sides,
                      poll[s][side] = "parked", side \notin woken[s]
               PROVE  /\ side \in sig[s].wakers
                      /\ (CanProceed(sig[s], side) \/ failure') => phase' = "ending" /\ s \in todo'
    BY DEF ParkedIsAttended
  <2>1. side \in sig[s].wakers /\ ~CanProceed(sig[s], side)
    BY <1>1 DEF ParkedIsAttended, Over
  <2>2. s \in Carried
    BY DEF OwnersMatch, Carried
  <2> QED
    BY <1>1, <2>1, <2>2
<1> QED
  BY <1>2, <1>3, <1>4, <1>5, <1>6, <1>7, <1>8, <1>9

LEMMA TurnsKeep ==
    ASSUME TunnelInv, StopCommand \/ Transfer \/ TransferFails \/ PollDone
    PROVE  TunnelInv'
<1>1. CASE StopCommand
  <2>1. Take("stop") /\ phase = "commands" /\ failure' = failure /\ closed' = closed
    BY <1>1, TakeFacts DEF StopCommand, health
  <2> QED
    BY <1>1, <2>1, GotoKeeps DEF StopCommand, Phases, TunnelInv, TypeOK
<1>2. CASE Transfer
  <2>1. phase \in {"commands", "send"} /\ failure' = failure /\ closed' = closed /\ ~failure
    BY <1>2 DEF Transfer, CommandsDone, health, TunnelInv, HealthyUntilOver, Over
  <2>2. PICK label \in {"commands", "sync", "cleanup"} : Goto(label)
    BY <1>2 DEF Transfer
  <2> QED
    BY <1>2, <2>1, <2>2, GotoKeeps DEF Transfer, Phases, TunnelInv, TypeOK
<1>3. CASE TransferFails
  <2>1. failure' \in BOOLEAN
    BY <1>3, Zenon DEF TransferFails
  <2> QED
    BY <1>3, <2>1, GotoKeeps DEF TransferFails, CommandsDone, Phases
<1>4. CASE PollDone
  <2>1. failure' = failure /\ closed' = closed /\ ~failure
    BY <1>4 DEF PollDone, health, TunnelInv, HealthyUntilOver, Over
  <2> QED
    BY <1>4, <2>1, GotoKeeps DEF PollDone, Phases, TunnelInv, TypeOK
<1> QED
  BY <1>1, <1>2, <1>3, <1>4

\* The thread ends when every stream has been notified.
LEMMA EndKeeps == TunnelInv /\ End => TunnelInv'
<1> SUFFICES ASSUME TunnelInv, End PROVE TunnelInv'
  OBVIOUS
<1> USE DEF TunnelInv, End, records, stack, tasks
<1>1. TypeOK'
  <2>1. closed' \in BOOLEAN
    BY Zenon
  <2> QED
    BY <2>1 DEF TypeOK, Carried
<1>2. MoreTypes'
  BY DEF MoreTypes, Phases
<1>3. HealthyUntilOver' /\ OpensAreWaitedFor'
  BY DEF HealthyUntilOver, OpensAreWaitedFor, Over
<1>4. OwnersMatch' /\ FinIsShut'
  BY DEF OwnersMatch, FinIsShut
<1>5. LoopsAreOrdered' /\ WaitersAreRegistered' /\ ParkedIsAttended'
  BY DEF LoopsAreOrdered, WaitersAreRegistered, ParkedIsAttended, Carried
<1> QED
  BY <1>1, <1>2, <1>3, <1>4, <1>5
===============================================================================
