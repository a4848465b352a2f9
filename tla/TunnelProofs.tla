----------------------------- MODULE TunnelProofs -----------------------------
(***************************************************************************)
(* ParkedIsAttended and StreamsAreKept for any number of streams and any   *)
(* bound on streams and commands.  The invariant and the steps outside the  *)
(* driver's loops are in TunnelStepProofs.                                  *)
(***************************************************************************)
EXTENDS TunnelStepProofs

-----------------------------------------------------------------------------
(* The driver's loops over its streams *)

LEMMA VisitFacts ==
    ASSUME TunnelInv, NEW s \in Streams, NEW label \in {"sync", "notify", "sync2", "notify2", "cleanup"},
           Visit(s, label)
    PROVE  /\ phase = label /\ s \in todo /\ s \in Carried
           /\ \/ phase' = label /\ todo' = todo \ {s}
              \/ todo = {s} /\ phase' = After[label] /\ todo' = IF label = "cleanup" THEN {} ELSE Carried
           /\ phase' \in Phases \ {"ending", "done"} /\ todo' \subseteq Carried
BY DEF Visit, TunnelInv, LoopsAreOrdered, After, Phases

\* What sync_streams makes of one stream.
Synced(s, g, life, state) ==
    /\ g \in Signals /\ g.wakers = sig[s].wakers /\ g.dropped = sig[s].dropped
    /\ g.write_shutdown = sig[s].write_shutdown
    /\ life \in Lifecycles /\ state \in Sockets
    /\ life # rec[s] => Detachable(s) /\ life \in {"Closing", "Aborting1"}
    /\ state \in {"fin_wait", "last_ack"} => g.write_closed /\ g.outgoing = 0

LEMMA SyncAbortedFacts ==
    ASSUME TunnelInv, NEW s \in Streams, SyncAborted(s)
    PROVE  \E g, life, state :
              /\ Synced(s, g, life, state)
              /\ sig' = [sig EXCEPT ![s] = g] /\ rec' = [rec EXCEPT ![s] = life]
              /\ sock' = [sock EXCEPT ![s] = state]
<1>1. sig[s] \in Signals /\ rec[s] \in Lifecycles
  BY DEF TunnelInv, TypeOK
<1> DEFINE g == [sig[s] EXCEPT !.read_closed = TRUE, !.write_closed = TRUE]
           life == IF Detachable(s) THEN "Aborting1" ELSE rec[s]
<1>2. sig' = [sig EXCEPT ![s] = g]
  BY Zenon DEF SyncAborted, TunnelInv, TypeOK
<1>3. g \in Signals /\ g.wakers = sig[s].wakers /\ g.dropped = sig[s].dropped
      /\ g.write_shutdown = sig[s].write_shutdown
  BY <1>1, Zenon DEF Signals
<1>4. rec' = [rec EXCEPT ![s] = life]
  BY DEF SyncAborted
<1>5. Synced(s, g, life, "closed")
  BY <1>1, <1>3 DEF Synced, Lifecycles, Sockets
<1>6. sock' = [sock EXCEPT ![s] = "closed"]
  BY DEF SyncAborted
<1> HIDE DEF g, life
<1> QED
  BY <1>2, <1>4, <1>5, <1>6, Zenon

LEMMA SyncOpenFacts ==
    ASSUME TunnelInv, NEW s \in Streams, SyncOpen(s)
    PROVE  /\ \E g, life, state :
                /\ Synced(s, g, life, state)
                /\ sig' = [sig EXCEPT ![s] = g] /\ rec' = [rec EXCEPT ![s] = life]
                /\ sock' = [sock EXCEPT ![s] = state]
           /\ connected' \in [Streams -> BOOLEAN]
           /\ rx' \in [Streams -> BOOLEAN] /\ txfull' \in [Streams -> BOOLEAN]
<1> DEFINE g == sig[s]
           sends == MaySend(sock[s]) /\ ~txfull[s] /\ g.outgoing > 0
           outgoing == IF sends THEN 0 ELSE g.outgoing
           closes == Closes(g, outgoing, sock[s])
           aborts == ~closes /\ ~connected[s] /\ Detachable(s)
           state == IF closes THEN AfterClose(sock[s]) ELSE IF aborts THEN "closed" ELSE sock[s]
           detached == Detachable(s) /\ (closes \/ (connected[s] /\ ~MaySend(state)))
           received == rx[s] /\ g.incoming < Capacity
           incoming == IF received THEN 1 ELSE g.incoming
           left == rx[s] /\ ~received
           conn == connected[s] \/ MaySend(state)
           refused == ~conn /\ ~IsOpen(state)
           rclosed == g.read_closed \/ aborts \/ refused
                           \/ (conn /\ ~MayRecv(state) /\ ~left /\ incoming = 0)
           wclosed == g.write_closed \/ closes \/ aborts \/ refused \/ (conn /\ ~MaySend(state))
           h == [g EXCEPT !.outgoing = outgoing, !.incoming = incoming, !.connected = conn,
                          !.read_closed = rclosed, !.write_closed = wclosed]
           life == IF aborts THEN "Aborting1" ELSE IF detached THEN "Closing" ELSE rec[s]
<1>1. /\ sig' = [sig EXCEPT ![s] = h]
      /\ sock' = [sock EXCEPT ![s] = state]
      /\ rx' = [rx EXCEPT ![s] = left]
      /\ txfull' = [txfull EXCEPT ![s] = @ \/ sends]
      /\ connected' = [connected EXCEPT ![s] = conn]
      /\ rec' = [rec EXCEPT ![s] = life]
  BY DEF SyncOpen
<1>2. g \in Signals /\ g.outgoing \in 0..Capacity /\ g.incoming \in 0..Capacity
      /\ g.read_closed \in BOOLEAN /\ g.write_closed \in BOOLEAN
      /\ rec[s] \in Lifecycles /\ sock[s] \in Sockets
  <2>1. g \in Signals /\ rec[s] \in Lifecycles /\ sock[s] \in Sockets
    BY DEF TunnelInv, TypeOK
  <2> HIDE DEF g
  <2> QED
    BY <2>1, Zenon DEF Signals
<1>3. connected[s] \in BOOLEAN /\ rx[s] \in BOOLEAN /\ txfull[s] \in BOOLEAN
  BY DEF TunnelInv, MoreTypes
<1>4. outgoing \in 0..Capacity /\ incoming \in 0..Capacity
  <2>1. 0 \in 0..Capacity /\ 1 \in 0..Capacity
    BY DEF Capacity
  <2>2. outgoing = 0 \/ outgoing = g.outgoing
    <3> HIDE DEF sends, g
    <3> QED
      OBVIOUS
  <2>3. incoming = 1 \/ incoming = g.incoming
    <3> HIDE DEF received, g
    <3> QED
      OBVIOUS
  <2> HIDE DEF outgoing, incoming, g
  <2> QED
    BY <1>2, <2>1, <2>2, <2>3
<1>5. conn \in BOOLEAN /\ rclosed \in BOOLEAN /\ wclosed \in BOOLEAN /\ left \in BOOLEAN
      /\ (txfull[s] \/ sends) \in BOOLEAN
  BY <1>2, <1>3, Zenon
<1>6. state \in Sockets /\ (state \in {"fin_wait", "last_ack"} => wclosed /\ outgoing = 0)
  <2>1. CASE closes
    BY <2>1 DEF Closes, AfterClose, Sockets
  <2>2. CASE ~closes /\ sock[s] \in {"fin_wait", "last_ack"}
    <3>1. g.write_closed /\ g.outgoing = 0
      BY <2>2 DEF TunnelInv, FinIsShut
    <3> QED
      BY <1>2, <2>2, <3>1 DEF Sockets
  <2>3. CASE ~closes /\ sock[s] \notin {"fin_wait", "last_ack"}
    <3>1. state = sock[s] \/ state = "closed"
      BY <2>3, Zenon
    <3> HIDE DEF state
    <3> QED
      BY <1>2, <2>3, <3>1 DEF Sockets
  <2> QED
    BY <2>1, <2>2, <2>3, Zenon
<1>7. life \in Lifecycles /\ (life # rec[s] => Detachable(s) /\ life \in {"Closing", "Aborting1"})
  <2>1. life = rec[s] \/ (Detachable(s) /\ life \in {"Closing", "Aborting1"})
    BY Zenon
  <2> HIDE DEF life
  <2> QED
    BY <1>2, <2>1 DEF Lifecycles
<1>8. connected' \in [Streams -> BOOLEAN] /\ rx' \in [Streams -> BOOLEAN]
      /\ txfull' \in [Streams -> BOOLEAN]
  <2> HIDE DEF conn, left, sends, h, state, life
  <2>1. connected \in [Streams -> BOOLEAN] /\ rx \in [Streams -> BOOLEAN]
        /\ txfull \in [Streams -> BOOLEAN]
    BY DEF TunnelInv, MoreTypes
  <2> QED
    BY <1>1, <1>5, <2>1, Zenon
<1>9. Synced(s, h, life, state)
  <2> HIDE DEF outgoing, incoming, conn, rclosed, wclosed, life, state
  <2>0. h = [g EXCEPT !.outgoing = outgoing, !.incoming = incoming, !.connected = conn,
                      !.read_closed = rclosed, !.write_closed = wclosed]
    OBVIOUS
  <2> HIDE DEF h, g
  <2>1. /\ h \in Signals /\ h.wakers = g.wakers /\ h.dropped = g.dropped
        /\ h.write_shutdown = g.write_shutdown /\ h.write_closed = wclosed /\ h.outgoing = outgoing
    BY <1>2, <1>4, <1>5, <2>0, Zenon DEF Signals
  <2> QED
    BY <1>6, <1>7, <2>1 DEF Synced, g
<1> HIDE DEF h, life, state, left, conn, sends
<1> QED
  BY <1>1, <1>8, <1>9, Zenon

\* sync_streams notes every half that becomes ready, so that a task which waits
\* for it is attended until the wake-ups that follow.
LEMMA SyncKeeps ==
    ASSUME TunnelInv, NEW s \in Streams, Sync(s)
    PROVE  TunnelInv'
<1> USE DEF TunnelInv, health, tasks
<1>1. PICK label \in {"sync", "sync2"} : Visit(s, label)
  BY DEF Sync
<1>2. /\ phase = label /\ s \in todo /\ s \in Carried
      /\ \/ phase' = label /\ todo' = todo \ {s}
         \/ todo = {s} /\ phase' \in {"notify", "notify2"} /\ todo' = Carried
      /\ phase' \in Phases \ {"ending", "done"} /\ todo' \subseteq Carried
  BY <1>1, VisitFacts DEF After
<1>3. PICK g, life, state :
              /\ Synced(s, g, life, state)
              /\ sig' = [sig EXCEPT ![s] = g] /\ rec' = [rec EXCEPT ![s] = life]
              /\ sock' = [sock EXCEPT ![s] = state]
  BY SyncAbortedFacts, SyncOpenFacts DEF Sync
<1>4. connected' \in [Streams -> BOOLEAN] /\ rx' \in [Streams -> BOOLEAN]
      /\ txfull' \in [Streams -> BOOLEAN]
  BY SyncOpenFacts DEF Sync, SyncAborted, MoreTypes
<1>5. UNCHANGED <<closed, failure, commands, closer, expired, owner, poll, woken>>
  BY DEF Sync
<1>6. /\ notes' = [notes EXCEPT ![s] = notes'[s]] /\ notes'[s] \in SUBSET Sides
      /\ \A side \in Sides : side \in notes'[s] <=> ~Ready(sig[s], side) /\ Ready(g, side)
  BY <1>3 DEF Sync, TypeOK
<1>7. notes[s] = {} /\ ~failure
  BY <1>2 DEF LoopsAreOrdered, HealthyUntilOver, Over
<1>8. Carried' = Carried
  BY <1>2, <1>3 DEF Carried, Synced, TypeOK, Detachable
<1>9. TypeOK'
  <2>1. g \in Signals /\ life \in Lifecycles /\ state \in Sockets
    BY <1>3 DEF Synced
  <2>2. /\ sig' \in [Streams -> Signals] /\ rec' \in [Streams -> Lifecycles]
        /\ sock' \in [Streams -> Sockets]
    BY <1>3, <2>1 DEF TypeOK
  <2>3. notes' \in [Streams -> SUBSET Sides] /\ todo' \subseteq Streams
    BY <1>2, <1>6 DEF TypeOK, Carried
  <2> QED
    BY <1>5, <1>8, <2>2, <2>3 DEF TypeOK
<1>10. MoreTypes'
  BY <1>2, <1>4, <1>5 DEF MoreTypes
<1>11. HealthyUntilOver'
  BY <1>2, <1>5 DEF HealthyUntilOver, Over
<1>12. OpensAreWaitedFor'
  BY <1>2, <1>5, OpensFrame DEF Over
<1>13. OwnersMatch' /\ FinIsShut'
  <2>1. \A t \in Streams : t # s => rec'[t] = rec[t] /\ sig'[t] = sig[t] /\ sock'[t] = sock[t]
    BY <1>3 DEF TypeOK
  <2>2. rec'[s] = life /\ sig'[s] = g /\ sock'[s] = state
    BY <1>3 DEF TypeOK
  <2>3. g.dropped = sig[s].dropped /\ (life # rec[s] => g.dropped /\ life \in {"Closing", "Aborting1"})
        /\ rec[s] # "none" /\ (life # rec[s] => owner[s] = "gone")
    BY <1>2, <1>3 DEF Synced, Detachable, Carried, OwnersMatch
  <2>4. state \in {"fin_wait", "last_ack"} => g.write_closed /\ g.outgoing = 0
    BY <1>3 DEF Synced
  <2>5. OwnersMatch'
    BY <1>5, <2>1, <2>2, <2>3 DEF OwnersMatch
  <2>6. FinIsShut'
    BY <2>1, <2>2, <2>4 DEF FinIsShut
  <2> QED
    BY <2>5, <2>6
<1>14. LoopsAreOrdered'
  <2>1. \A t \in Streams : t # s => notes'[t] = notes[t] /\ rec'[t] = rec[t]
    BY <1>3, <1>6 DEF TypeOK
  <2>2. rec'[s] # "none"
    BY <1>2, <1>8 DEF Carried
  <2> QED
    BY <1>2, <1>8, <2>1, <2>2 DEF LoopsAreOrdered, Carried
<1>15. WaitersAreRegistered'
  BY <1>3, <1>5 DEF WaitersAreRegistered, Synced, TypeOK
<1>16. ParkedIsAttended'
  <2> SUFFICES ASSUME NEW t \in Streams, NEW side \in Sides,
                      poll[t][side] = "parked", side \notin woken[t]
               PROVE  /\ side \in sig'[t].wakers
                      /\ CanProceed(sig'[t], side) => side \in notes'[t]
    BY <1>5, <1>7 DEF ParkedIsAttended
  <2>1. side \in sig[t].wakers /\ (CanProceed(sig[t], side) => side \in notes[t])
    BY <1>2 DEF ParkedIsAttended
  <2>2. CASE t # s
    BY <1>3, <1>6, <2>1, <2>2 DEF TypeOK
  <2>3. CASE t = s
    <3>1. sig'[s] = g /\ g.wakers = sig[s].wakers /\ g.write_shutdown = sig[s].write_shutdown
      BY <1>3 DEF Synced, TypeOK
    <3>2. ~CanProceed(sig[s], side)
      BY <1>7, <2>1, <2>3
    <3>3. ~Ready(sig[s], side) /\ (CanProceed(g, side) => Ready(g, side))
      BY <3>1, <3>2 DEF CanProceed, CanRead, CanWrite, Ready, Sides
    <3> QED
      BY <1>6, <2>1, <2>3, <3>1, <3>3
  <2> QED
    BY <2>2, <2>3
<1> QED
  BY <1>9, <1>10, <1>11, <1>12, <1>13, <1>14, <1>15, <1>16

\* Wakers are taken only to be woken.
LEMMA NotifyTakes ==
    ASSUME TunnelInv, NEW s \in Streams, NEW sides,
           sig' = [sig EXCEPT ![s] = Notified(sig[s], sides)], Wake(s, sig[s], sides),
           UNCHANGED <<owner, rec, sock, poll>>
    PROVE  /\ sig' \in [Streams -> Signals] /\ woken' \in [Streams -> SUBSET Sides]
           /\ OwnersMatch' /\ FinIsShut' /\ WaitersAreRegistered'
           /\ \A t \in Streams, side \in Sides :
                 /\ side \notin woken'[t] => side \notin woken[t]
                 /\ CanProceed(sig'[t], side) => CanProceed(sig[t], side)
           /\ \A side \in sides : side \in woken'[s] \/ side \notin sig[s].wakers
<1> USE DEF TunnelInv, Wake
<1> DEFINE h == Notified(sig[s], sides)
<1>1. sig[s] \in Signals
  BY DEF TypeOK
<1>2. /\ h \in Signals /\ h.wakers = sig[s].wakers \ sides /\ h.dropped = sig[s].dropped
      /\ h.write_closed = sig[s].write_closed /\ h.outgoing = sig[s].outgoing
      /\ \A side \in Sides : CanProceed(h, side) = CanProceed(sig[s], side)
  BY <1>1, NotifiedSignal
<1>3. sig' = [sig EXCEPT ![s] = h] /\ sig \in [Streams -> Signals]
  BY DEF TypeOK
<1> HIDE DEF h
<1>4. woken' \in [Streams -> SUBSET Sides]
  BY <1>1 DEF TypeOK, Signals
<1>5. \A t \in Streams : IF t = s THEN sig'[t] = h /\ woken'[t] = woken[t] \cup (sig[t].wakers \cap sides)
                         ELSE sig'[t] = sig[t] /\ woken'[t] = woken[t]
  BY <1>3 DEF TypeOK
<1>6. \A t \in Streams : sig'[t].dropped = sig[t].dropped /\ sig'[t].outgoing = sig[t].outgoing
                         /\ sig'[t].write_closed = sig[t].write_closed
  BY <1>2, <1>5
<1>7. OwnersMatch'
  BY <1>6 DEF OwnersMatch
<1>8. FinIsShut'
  BY <1>6 DEF FinIsShut
<1>9. WaitersAreRegistered'
  BY <1>2, <1>5 DEF WaitersAreRegistered
<1> QED
  BY <1>2, <1>3, <1>4, <1>5, <1>7, <1>8, <1>9

\* The wake-ups after sync_streams, which clear its notes.
LEMMA NotifyKeeps ==
    ASSUME TunnelInv, NEW s \in Streams, Notify(s)
    PROVE  TunnelInv'
<1> USE DEF TunnelInv, health, records, stack
<1>1. PICK label \in {"notify", "notify2"} : Visit(s, label)
  BY DEF Notify
<1>2. /\ phase = label /\ s \in todo /\ s \in Carried
      /\ \/ phase' = label /\ todo' = todo \ {s}
         \/ todo = {s} /\ phase' \in {"poll", "send"} /\ todo' = Carried
      /\ phase' \in Phases \ {"ending", "done"} /\ todo' \subseteq Carried
  BY <1>1, VisitFacts DEF After
<1>3. /\ notes' = [notes EXCEPT ![s] = {}]
      /\ sig' = [sig EXCEPT ![s] = Notified(sig[s], notes[s])] /\ Wake(s, sig[s], notes[s])
      /\ UNCHANGED <<health, commands, closer, records, stack, owner, poll>>
  BY DEF Notify
<1>4. /\ sig' \in [Streams -> Signals] /\ woken' \in [Streams -> SUBSET Sides]
      /\ OwnersMatch' /\ FinIsShut' /\ WaitersAreRegistered'
  BY <1>3, NotifyTakes, Zenon
<1>5. /\ \A t \in Streams, side \in Sides :
            /\ side \notin woken'[t] => side \notin woken[t]
            /\ CanProceed(sig'[t], side) => CanProceed(sig[t], side)
      /\ \A side \in notes[s] : side \in woken'[s] \/ side \notin sig[s].wakers
  BY <1>3, NotifyTakes, Zenon
<1>6. TypeOK' /\ MoreTypes'
  <2>1. Carried' = Carried /\ todo' \subseteq Streams
    BY <1>2, <1>3 DEF Carried
  <2>2. notes' \in [Streams -> SUBSET Sides]
    BY <1>3 DEF TypeOK
  <2>3. TypeOK'
    BY <1>3, <1>4, <2>1, <2>2 DEF TypeOK
  <2>4. MoreTypes'
    BY <1>2, <1>3 DEF MoreTypes
  <2> QED
    BY <2>3, <2>4
<1>7. HealthyUntilOver' /\ OpensAreWaitedFor'
  <2>1. HealthyUntilOver'
    BY <1>2, <1>3 DEF HealthyUntilOver, Over
  <2>2. OpensAreWaitedFor'
    BY <1>2, <1>3, OpensFrame DEF Over
  <2> QED
    BY <2>1, <2>2
<1>8. LoopsAreOrdered'
  BY <1>2, <1>3 DEF LoopsAreOrdered, Carried, TypeOK
<1>9. ParkedIsAttended'
  <2> SUFFICES ASSUME NEW t \in Streams, NEW side \in Sides,
                      poll[t][side] = "parked", side \notin woken'[t]
               PROVE  /\ side \in sig'[t].wakers
                      /\ ~failure
                      /\ CanProceed(sig'[t], side) => side \in notes'[t]
    BY <1>3 DEF ParkedIsAttended
  <2>1. side \in sig'[t].wakers
    BY <1>3, <1>4 DEF WaitersAreRegistered
  <2>2. ~failure
    BY <1>2 DEF HealthyUntilOver, Over
  <2>3. side \in sig[t].wakers /\ (CanProceed(sig[t], side) => side \in notes[t])
    BY <1>2, <1>5 DEF ParkedIsAttended
  <2> QED
    BY <1>3, <1>5, <2>1, <2>2, <2>3 DEF TypeOK
<1> QED
  BY <1>4, <1>6, <1>7, <1>8, <1>9

\* notify_all at the end of the loop: every waker of the stream is taken.
LEMMA NotifyEndKeeps ==
    ASSUME TunnelInv, NEW s \in Streams, NotifyEnd(s)
    PROVE  TunnelInv'
<1> USE DEF TunnelInv, health, records, stack
<1>1. /\ phase = "ending" /\ s \in todo /\ todo' = todo \ {s}
      /\ sig' = [sig EXCEPT ![s] = Notified(sig[s], Sides)] /\ Wake(s, sig[s], Sides)
      /\ UNCHANGED <<health, phase, notes, commands, closer, records, stack, owner, poll>>
  BY DEF NotifyEnd
<1>2. /\ sig' \in [Streams -> Signals] /\ woken' \in [Streams -> SUBSET Sides]
      /\ OwnersMatch' /\ FinIsShut' /\ WaitersAreRegistered'
  BY <1>1, NotifyTakes, Zenon
<1>3. /\ \A t \in Streams, side \in Sides :
            /\ side \notin woken'[t] => side \notin woken[t]
            /\ CanProceed(sig'[t], side) => CanProceed(sig[t], side)
      /\ \A side \in Sides : side \in woken'[s] \/ side \notin sig[s].wakers
  BY <1>1, NotifyTakes, Zenon
<1>4. TypeOK' /\ MoreTypes'
  <2>1. Carried' = Carried /\ todo' \subseteq Streams
    BY <1>1 DEF Carried, TypeOK
  <2>2. TypeOK'
    BY <1>1, <1>2, <2>1 DEF TypeOK
  <2>3. MoreTypes'
    BY <1>1 DEF MoreTypes
  <2> QED
    BY <2>2, <2>3
<1>5. HealthyUntilOver' /\ OpensAreWaitedFor' /\ LoopsAreOrdered'
  <2>1. HealthyUntilOver'
    BY <1>1 DEF HealthyUntilOver, Over
  <2>2. OpensAreWaitedFor'
    BY <1>1, OpensFrame DEF Over
  <2>3. LoopsAreOrdered'
    BY <1>1 DEF LoopsAreOrdered, Carried
  <2> QED
    BY <2>1, <2>2, <2>3
<1>6. ParkedIsAttended'
  <2> SUFFICES ASSUME NEW t \in Streams, NEW side \in Sides,
                      poll[t][side] = "parked", side \notin woken'[t]
               PROVE  /\ side \in sig'[t].wakers
                      /\ CanProceed(sig'[t], side) \/ failure =>
                            side \in notes[t] \/ (phase = "ending" /\ t \in todo')
    BY <1>1 DEF ParkedIsAttended
  <2>1. side \in sig'[t].wakers
    BY <1>1, <1>2 DEF WaitersAreRegistered
  <2>2. side \in sig[t].wakers /\ (CanProceed(sig[t], side) \/ failure =>
                            side \in notes[t] \/ (phase = "ending" /\ t \in todo))
    BY <1>3 DEF ParkedIsAttended
  <2> QED
    BY <1>1, <1>3, <2>1, <2>2
<1> QED
  BY <1>2, <1>4, <1>5, <1>6

\* A stream is removed when its owner is gone, and with the owner its tasks.
LEMMA RemoveKeeps ==
    ASSUME TunnelInv, NEW s \in Streams, Visit(s, "cleanup"),
           rec[s] \in {"Closing", "Aborting0"}, Remove(s),
           UNCHANGED <<health, notes, commands, closer, poll>>
    PROVE  TunnelInv'
<1> USE DEF TunnelInv, health, Remove
<1>1. /\ phase = "cleanup" /\ phase' \in {"cleanup", "commands"} /\ todo' \subseteq todo \ {s}
      /\ s \in todo
  BY VisitFacts DEF After
<1>2. owner[s] = "gone" /\ (\A side \in Sides : poll[s][side] = "idle")
  BY DEF OwnersMatch
<1>3. Carried' = Carried \ {s}
  BY DEF Carried, TypeOK
<1>4. NewSignal \in Signals /\ ~NewSignal.dropped
  BY NewSignalFacts
<1>5. sig' = [sig EXCEPT ![s] = NewSignal] /\ sig \in [Streams -> Signals]
  BY DEF TypeOK
<1>6. TypeOK'
  <2>1. Cardinality(Carried') <= MaxStreams
    <3>1. IsFiniteSet(Carried)
      BY TunnelAssumption, FS_Subset DEF Carried
    <3>2. Cardinality(Carried') <= Cardinality(Carried) /\ IsFiniteSet(Carried')
      BY <1>3, <3>1, FS_Subset
    <3> QED
      BY <3>1, <3>2, FS_CardinalityType, TunnelAssumption DEF TypeOK
  <2>2. woken' \in [Streams -> SUBSET Sides]
    BY DEF TypeOK, Wake
  <2>3. /\ rec' \in [Streams -> Lifecycles] /\ sock' \in [Streams -> Sockets]
        /\ sig' \in [Streams -> Signals]
    BY <1>4, <1>5 DEF TypeOK, Lifecycles, Sockets
  <2> QED
    BY <1>1, <2>1, <2>2, <2>3 DEF TypeOK
<1>7. MoreTypes'
  <2>1. connected' \in [Streams -> BOOLEAN] /\ expired' \in [Streams -> BOOLEAN]
        /\ rx' \in [Streams -> BOOLEAN] /\ txfull' \in [Streams -> BOOLEAN]
    BY DEF MoreTypes
  <2> QED
    BY <1>1, <2>1 DEF MoreTypes, Phases
<1>8. HealthyUntilOver'
  BY <1>1 DEF HealthyUntilOver, Over
<1>9. OpensAreWaitedFor'
  <2>1. \A i \in 1..Len(commands) : Opens(i) =>
           commands[i][2] \in Streams /\ owner[commands[i][2]] = "opening"
    <3>1. \A i \in 1..Len(commands) : commands[i] \in Commands
      BY DEF MoreTypes
    <3>2. \A i \in 1..Len(commands) : Opens(i) => commands[i][2] \in Streams
      BY <3>1 DEF Opens, Commands
    <3> QED
      BY <1>1, <3>2 DEF OpensAreWaitedFor, Over
  <2>2. \A t \in Streams : owner[t] = "opening" => owner'[t] = "opening"
    BY <1>2 DEF MoreTypes
  <2>3. \A i \in 1..Len(commands) : Opens(i) => owner'[commands[i][2]] = "opening"
    BY <2>1, <2>2
  <2>4. commands' = commands /\ ~Over /\ \A i : Opens(i)' = Opens(i)
    BY <1>1 DEF Opens, Over
  <2> QED
    BY <2>3, <2>4 DEF OpensAreWaitedFor
<1>10. OwnersMatch'
  <2>1. \A t \in Streams : t # s => owner'[t] = owner[t] /\ rec'[t] = rec[t] /\ sig'[t] = sig[t]
    BY <1>5 DEF MoreTypes, TypeOK
  <2>2. owner'[s] \in {"none", "gone"} /\ rec'[s] = "none" /\ ~sig'[s].dropped
    BY <1>2, <1>4, <1>5 DEF MoreTypes, TypeOK
  <2>3. poll' = poll
    OBVIOUS
  <2> QED
    BY <1>2, <2>1, <2>2, <2>3 DEF OwnersMatch
<1>11. FinIsShut'
  BY <1>5 DEF FinIsShut, TypeOK
<1>12. LoopsAreOrdered'
  <2>1. \A t \in Streams : notes[t] = {}
    BY <1>1, NoNotes
  <2> QED
    BY <1>1, <1>3, <2>1 DEF LoopsAreOrdered
<1>13. \A t \in Streams : t # s => sig'[t] = sig[t] /\ woken'[t] = woken[t]
  BY <1>5 DEF Wake, TypeOK
<1>14. WaitersAreRegistered'
  BY <1>2, <1>13 DEF WaitersAreRegistered
<1>15. ParkedIsAttended'
  BY <1>1, <1>2, <1>13 DEF ParkedIsAttended
<1> QED
  BY <1>6, <1>7, <1>8, <1>9, <1>10, <1>11, <1>12, <1>14, <1>15

\* The other branches of the cleanup move a closing stream on.
LEMMA CleanupKeeps ==
    ASSUME TunnelInv, NEW s \in Streams, Cleanup(s)
    PROVE  TunnelInv'
<1>1. CASE rec[s] \in {"Closing", "Aborting0"} /\ Remove(s)
  BY <1>1, RemoveKeeps DEF Cleanup
<1>2. CASE ~(rec[s] \in {"Closing", "Aborting0"} /\ Remove(s))
  <2> USE DEF TunnelInv, health, stack, records
  <2>1. Visit(s, "cleanup")
    BY DEF Cleanup
  <2>2. /\ phase = "cleanup" /\ phase' \in {"cleanup", "commands"} /\ todo' \subseteq todo
    BY <2>1, VisitFacts DEF After
  <2>3. UNCHANGED <<closed, failure, notes, commands, closer, poll, connected, expired, rx, txfull,
                    sig, woken, owner>>
    BY <1>2 DEF Cleanup
  <2>4. PICK life, state :
           /\ rec' = [rec EXCEPT ![s] = life] /\ sock' = [sock EXCEPT ![s] = state]
           /\ life = rec[s] \/ (rec[s] \in {"Closing", "Aborting1"} /\ life \in {"Aborting1", "Aborting0"})
           /\ state = sock[s] \/ state = "closed"
    <3>1. rec = [rec EXCEPT ![s] = rec[s]] /\ sock = [sock EXCEPT ![s] = sock[s]]
      BY DEF TypeOK
    <3> QED
      BY <1>2, <3>1 DEF Cleanup
  <2>5. Carried' = Carried
    BY <2>4 DEF Carried, TypeOK
  <2>6. TypeOK'
    BY <2>2, <2>3, <2>4, <2>5 DEF TypeOK, Lifecycles, Sockets
  <2>7. MoreTypes'
    BY <2>2, <2>3 DEF MoreTypes, Phases
  <2>8. HealthyUntilOver' /\ OpensAreWaitedFor'
    <3>1. HealthyUntilOver'
      BY <2>2, <2>3 DEF HealthyUntilOver, Over
    <3>2. OpensAreWaitedFor'
      BY <2>2, <2>3, OpensFrame DEF Over
    <3> QED
      BY <3>1, <3>2
  <2>9. OwnersMatch' /\ FinIsShut'
    <3>1. \A t \in Streams : t # s => rec'[t] = rec[t] /\ sock'[t] = sock[t]
      BY <2>4 DEF TypeOK
    <3>2. rec'[s] = life /\ sock'[s] = state
      BY <2>4 DEF TypeOK
    <3>3. OwnersMatch'
      BY <2>3, <2>4, <3>1, <3>2 DEF OwnersMatch
    <3>4. FinIsShut'
      BY <2>3, <2>4, <3>1, <3>2, FinFrame
    <3> QED
      BY <3>3, <3>4
  <2>10. LoopsAreOrdered'
    BY <2>2, <2>3, <2>5, NoNotes DEF LoopsAreOrdered
  <2>11. WaitersAreRegistered' /\ ParkedIsAttended'
    BY <2>2, <2>3 DEF WaitersAreRegistered, ParkedIsAttended
  <2> QED
    BY <2>6, <2>7, <2>8, <2>9, <2>10, <2>11
<1> QED
  BY <1>1, <1>2 DEF Cleanup

-----------------------------------------------------------------------------
(* The network and the clock *)

LEMMA NetKeeps ==
    ASSUME TunnelInv, NEW s \in Streams,
           \/ Establish(s) \/ PeerCloses(s) \/ CloseAnswered(s) \/ Reset(s)
           \/ Receive(s) \/ Acknowledge(s) \/ DeadlinePasses(s)
    PROVE  TunnelInv'
<1> DEFINE Rest == UNCHANGED <<closed, failure, phase, todo, notes, commands, closer, rec, connected,
                               sig, owner, poll, woken>>
           Socket == sock' = sock \/ \E state \in {"established", "close_wait", "closed"} :
                                        sock' = [sock EXCEPT ![s] = state]
           Flags == /\ rx' \in [Streams -> BOOLEAN] /\ txfull' \in [Streams -> BOOLEAN]
                    /\ expired' \in [Streams -> BOOLEAN]
<1>1. rx \in [Streams -> BOOLEAN] /\ txfull \in [Streams -> BOOLEAN] /\ expired \in [Streams -> BOOLEAN]
  BY DEF TunnelInv, MoreTypes
<1>2. Rest /\ Socket /\ Flags
  <2> USE DEF health, driver, records, stack, tasks
  <2>1. ASSUME NEW from, NEW to \in {"established", "close_wait", "closed"}, Net(s, from, to)
        PROVE  Rest /\ Socket /\ Flags
    <3>1. Rest
      BY <2>1 DEF Net
    <3>2. Socket /\ UNCHANGED <<rx, txfull, expired>>
      BY <2>1, Zenon DEF Net
    <3> QED
      BY <1>1, <3>1, <3>2
  <2>2. CASE Establish(s) \/ PeerCloses(s) \/ CloseAnswered(s) \/ Reset(s)
    <3> HIDE DEF Rest, Socket, Flags
    <3> QED
      BY <2>1, <2>2 DEF Establish, PeerCloses, CloseAnswered, Reset
  <2>3. CASE Receive(s)
    BY <1>1, <2>3 DEF Receive
  <2>4. CASE Acknowledge(s)
    BY <1>1, <2>4 DEF Acknowledge
  <2>5. CASE DeadlinePasses(s)
    BY <1>1, <2>5 DEF DeadlinePasses
  <2> QED
    BY <2>2, <2>3, <2>4, <2>5
<1>3. Flags
  BY <1>2
<1> USE DEF TunnelInv
<1>4. TypeOK'
  <2>1. sock' \in [Streams -> Sockets]
    BY <1>2 DEF TypeOK, Sockets
  <2> QED
    BY <1>2, <2>1 DEF TypeOK, Carried
<1>5. MoreTypes'
  BY <1>2, <1>3 DEF MoreTypes
<1>6. HealthyUntilOver' /\ OpensAreWaitedFor' /\ OwnersMatch'
  <2>1. HealthyUntilOver'
    BY <1>2 DEF HealthyUntilOver, Over
  <2>2. OpensAreWaitedFor'
    BY <1>2, OpensFrame DEF Over
  <2>3. OwnersMatch'
    BY <1>2, OwnersFrame
  <2> QED
    BY <2>1, <2>2, <2>3
<1>7. FinIsShut'
  <2>1. \A t \in Streams : sock'[t] = sock[t] \/ sock'[t] \notin {"fin_wait", "last_ack"}
    BY <1>2 DEF TypeOK
  <2> QED
    BY <1>2, <2>1, FinFrame
<1>8. LoopsAreOrdered' /\ WaitersAreRegistered' /\ ParkedIsAttended'
  BY <1>2 DEF LoopsAreOrdered, WaitersAreRegistered, ParkedIsAttended, Carried
<1> QED
  BY <1>4, <1>5, <1>6, <1>7, <1>8

LEMMA StutterKeeps == TunnelInv /\ UNCHANGED vars => TunnelInv'
<1> SUFFICES ASSUME TunnelInv, UNCHANGED vars PROVE TunnelInv'
  OBVIOUS
<1> USE DEF TunnelInv, vars, health, driver, records, stack, tasks
<1>1. TypeOK' /\ MoreTypes'
  BY DEF TypeOK, MoreTypes, Carried
<1>2. HealthyUntilOver' /\ OpensAreWaitedFor' /\ OwnersMatch' /\ FinIsShut'
  <2>1. HealthyUntilOver'
    BY DEF HealthyUntilOver, Over
  <2>2. OpensAreWaitedFor'
    BY OpensFrame DEF Over
  <2>3. OwnersMatch' /\ FinIsShut'
    BY OwnersFrame, FinFrame
  <2> QED
    BY <2>1, <2>2, <2>3
<1>3. LoopsAreOrdered' /\ WaitersAreRegistered' /\ ParkedIsAttended'
  BY DEF LoopsAreOrdered, WaitersAreRegistered, ParkedIsAttended, Carried
<1> QED
  BY <1>1, <1>2, <1>3

LEMMA DriverKeeps == TunnelInv /\ DriverStep => TunnelInv'
<1> SUFFICES ASSUME TunnelInv, DriverStep PROVE TunnelInv'
  OBVIOUS
<1>1. CASE OpenCommand \/ End
  BY <1>1, OpenKeeps, EndKeeps
<1>2. CASE \E how \in {"write", "both"} : ShutdownCommand(how)
  BY <1>2, ShutdownKeeps
<1>3. CASE StopCommand \/ Transfer \/ TransferFails \/ PollDone
  BY <1>3, TurnsKeep
<1>4. ASSUME NEW s \in Streams, Sync(s) \/ Notify(s) \/ Cleanup(s) \/ NotifyEnd(s)
      PROVE  TunnelInv'
  BY <1>4, SyncKeeps, NotifyKeeps, CleanupKeeps, NotifyEndKeeps
<1> QED
  BY <1>1, <1>2, <1>3, <1>4 DEF DriverStep

LEMMA TunnelStep == TunnelInv /\ [Next]_vars => TunnelInv'
<1> SUFFICES ASSUME TunnelInv, [Next]_vars PROVE TunnelInv'
  OBVIOUS
<1>1. CASE DriverStep
  BY <1>1, DriverKeeps
<1>2. CASE Close \/ Joined
  BY <1>2, CloseKeeps
<1>3. ASSUME NEW s \in Streams,
             \/ Dial(s) \/ DialUnanswered(s) \/ DialConnected(s) \/ DialFails(s)
             \/ DialTimesOut(s) \/ Drop(s)
      PROVE  TunnelInv'
  BY <1>3, DialKeeps, DialEndsKeeps, DropsKeep
<1>4. ASSUME NEW s \in Streams, \E how \in {"write", "both"} : ShutdownStream(s, how)
      PROVE  TunnelInv'
  BY <1>4, ShutdownStreamKeeps
<1>5. ASSUME NEW s \in Streams, NEW side \in Sides, PollStart(s, side) \/ PollStep(s, side)
      PROVE  TunnelInv'
  BY <1>5, PollsKeep DEF PollStep
<1>6. ASSUME NEW s \in Streams,
             \/ Establish(s) \/ PeerCloses(s) \/ CloseAnswered(s) \/ Reset(s)
             \/ Receive(s) \/ Acknowledge(s) \/ DeadlinePasses(s)
      PROVE  TunnelInv'
  BY <1>6, NetKeeps
<1>7. CASE UNCHANGED vars
  BY <1>7, StutterKeeps
<1> QED
  BY <1>1, <1>2, <1>3, <1>4, <1>5, <1>6, <1>7 DEF Next

\* The strengthening of both properties is an invariant.
THEOREM TunnelInvariant == Spec => []TunnelInv
BY TunnelInit, TunnelStep, PTL DEF Spec

\* No wake-up is lost, with any number of streams: a task that waits for a half
\* of a stream is registered with its Signal, and when it could proceed, or the
\* driver has failed, the driver's next wake-ups include it (lib.rs, poll_read,
\* poll_write, sync_streams and the end of Driver::run).
THEOREM ParkedAlwaysAttended == Spec => []ParkedIsAttended
<1>1. TunnelInv => ParkedIsAttended
  BY DEF TunnelInv
<1> QED
  BY <1>1, TunnelInvariant, PTL

\* The driver keeps a stream's record while it has an owner, never carries more
\* than MAX_STREAMS, and sends a FIN only when the data is out (lib.rs,
\* open_stream, sync_streams and cleanup).
THEOREM StreamsAlwaysKept == Spec => []StreamsAreKept
<1>1. TunnelInv => StreamsAreKept
  BY DEF TunnelInv, StreamsAreKept, OwnedIsCarried, OwnersMatch, FinIsLast, FinIsShut
<1> QED
  BY <1>1, TunnelInvariant, PTL
=============================================================================
