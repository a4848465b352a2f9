---------------------------- MODULE SessionProofs ----------------------------
(***************************************************************************)
(* Commands on other machines, and subscriptions, for every value of their  *)
(* constants.                                                              *)
(*                                                                         *)
(* Remote, SshCli and SshClient: what a result says is kept, step by step, *)
(* as what the messages, the pipes and the transports have shown so far.   *)
(*                                                                         *)
(* ChangeStream: StaleIsPending is not inductive alone. A change the server*)
(* makes must be ahead of what the stream returned, so that the IDs in     *)
(* flight never pass the server's head, and a worker that has stopped must *)
(* have left its error in the channel.                                     *)
(***************************************************************************)
EXTENDS Remote, ChangeStream, FiniteSetTheorems, TLAPS

\* No ID in flight or returned is beyond what the server has made.
NothingInvented ==
    /\ position <= head + 1
    /\ \A i \in 1..Len(wire) : wire[i] <= head
    /\ last_change_id <= head
    /\ seen <= head

\* The worker ends on its own only after the error went into the channel, and
\* the stream ends only with the error in the worker's hand.
EndInOrder ==
    /\ (worker = "done" /\ consumer = "open") => (channel # <<>> /\ Head(channel) = "error")
    /\ finished => worker = "done" \/ event = "error"
    /\ finished => worker # "next"

\* What holds of the stream and its worker in every state.
StreamInv ==
    /\ TypeOK
    /\ NothingInvented
    /\ EndInOrder
    /\ Snapshot <= last_change_id
    /\ NoMissedChange
    /\ StaleIsPending

\* What one more change adds to an interval of change IDs.
LEMMA ExtendInterval ==
    ASSUME NEW m \in Nat, NEW n \in Nat, m <= n
    PROVE  ((m + 1)..n) \cup {n + 1} = (m + 1)..(n + 1)
  OBVIOUS

\* Every step of the server, the stream, its worker and the consumer keeps the types.
LEMMA StreamTypeStep == TypeOK /\ [Next]_vars => TypeOK'
<1> SUFFICES ASSUME TypeOK, [Next]_vars PROVE TypeOK'
  OBVIOUS
<1> USE StreamAssumption DEF TypeOK, Events, ChannelCapacity
<1>1. CASE Change
  BY <1>1 DEF Change, stream, notifications
<1>2. CASE Send
  BY <1>2 DEF Send, stream, notifications
<1>3. CASE Skip
  BY <1>3 DEF Skip, Fault, stream, notifications
<1>4. CASE Disconnect
  <2>1. wire' \in Seq(Nat)
    BY <1>4 DEF Disconnect
  <2>2. /\ known' \in BOOLEAN /\ connected' \in BOOLEAN /\ needs_resubscribe' \in BOOLEAN
        /\ finished' \in BOOLEAN /\ resubscribe' \in BOOLEAN
    BY <1>4, Zenon DEF Disconnect, stream, notifications
  <2> QED BY <1>4, <2>1, <2>2 DEF Disconnect, Fault, stream, notifications
<1>5. CASE Forget
  <2>1. /\ known' \in BOOLEAN /\ connected' \in BOOLEAN /\ needs_resubscribe' \in BOOLEAN
      /\ finished' \in BOOLEAN /\ resubscribe' \in BOOLEAN
    BY <1>5, Zenon DEF Forget, stream, notifications
  <2> QED BY <1>5, <2>1 DEF Forget, Fault, stream, notifications
<1>6. CASE NextEvent
  <2>1. wire # <<>> => Head(wire) \in Nat /\ Tail(wire) \in Seq(Nat)
    OBVIOUS
  <2>2. CASE Expected(Head(wire))
    BY <1>6, <2>1, <2>2, Zenon DEF NextEvent, Accept
  <2>3. CASE ~Expected(Head(wire))
    <3>1. /\ known' \in BOOLEAN /\ connected' \in BOOLEAN /\ needs_resubscribe' \in BOOLEAN
          /\ finished' \in BOOLEAN /\ resubscribe' \in BOOLEAN
      BY <1>6, <2>3, Zenon DEF NextEvent, ReadFailed
    <3>2. worker' \in {"next", "send", "done"} /\ event' \in Events
      BY <1>6, <2>3, Zenon DEF NextEvent, ReadFailed
    <3>3. wire' \in Seq(Nat)
      BY <1>6, <2>3 DEF NextEvent, ReadFailed
    <3>4. UNCHANGED <<head, position, last_change_id, delivered, channel, consumer, seen, faults>>
      BY <1>6, <2>3 DEF NextEvent, ReadFailed
    <3> QED BY <3>1, <3>2, <3>3, <3>4
  <2> QED BY <2>2, <2>3
<1>7. CASE EndOfFile
  BY <1>7, Zenon DEF EndOfFile, ReadFailed
<1>8. CASE Resubscribe
  <2>1. /\ known' \in BOOLEAN /\ connected' \in BOOLEAN /\ needs_resubscribe' \in BOOLEAN
        /\ finished' \in BOOLEAN /\ resubscribe' \in BOOLEAN
    BY <1>8, Zenon DEF Resubscribe, notifications
  <2> QED BY <1>8, <2>1 DEF Resubscribe, notifications
<1>9. CASE ResubscribeFails
  BY <1>9 DEF ResubscribeFails, Fault, server
<1>10. CASE SendEvent
  BY <1>10 DEF SendEvent, server, stream
<1>11. CASE Cancelled
  BY <1>11 DEF Cancelled, server, stream
<1>12. CASE Recv
  BY <1>12 DEF Recv, server, stream
<1>13. CASE Drop
  BY <1>13 DEF Drop, server, stream
<1>14. CASE UNCHANGED vars
  BY <1>14 DEF vars, server, stream, notifications
<1> QED
  BY Zenon, <1>1, <1>2, <1>3, <1>4, <1>5, <1>6, <1>7, <1>8, <1>9, <1>10, <1>11, <1>12,
     <1>13, <1>14 DEF Next

\* A stream that has just been opened.
LEMMA StreamInvInit == Init => StreamInv
<1> SUFFICES ASSUME Init PROVE StreamInv
  OBVIOUS
<1> USE StreamAssumption DEF Init
<1>1. TypeOK
  <2>1. <<>> \in Seq(Nat) /\ <<>> \in Seq(Events) /\ Len(<<>>) <= ChannelCapacity
    BY DEF ChannelCapacity
  <2>2. event \in Events
    BY DEF Events
  <2>3. /\ known \in BOOLEAN /\ connected \in BOOLEAN /\ needs_resubscribe \in BOOLEAN
        /\ finished \in BOOLEAN /\ resubscribe \in BOOLEAN
    BY Zenon
  <2> QED BY <2>1, <2>2, <2>3 DEF TypeOK
<1>2. NothingInvented
  BY DEF NothingInvented
<1>3. NoMissedChange
  BY DEF NoMissedChange
<1> QED BY <1>1, <1>2, <1>3 DEF StreamInv, EndInOrder, StaleIsPending

\* Every step keeps the invariant: one case for each action.
LEMMA StreamInvStep == StreamInv /\ [Next]_vars => StreamInv'
<1> SUFFICES ASSUME StreamInv, [Next]_vars PROVE StreamInv'
  OBVIOUS
<1>0. TypeOK /\ TypeOK'
  BY StreamTypeStep DEF StreamInv
<1> USE StreamAssumption, <1>0 DEF StreamInv, NothingInvented, EndInOrder, NoMissedChange,
    StaleIsPending
<1>1. CASE Change
  <2>1. \A i \in 1..Len(wire') : wire'[i] <= head'
    BY <1>1 DEF Change, TypeOK
  <2>2. StaleIsPending'
    BY <1>1 DEF Change, stream, notifications, TypeOK
  <2> QED BY <1>1, <2>1, <2>2 DEF Change, stream, notifications, TypeOK
<1>2. CASE Send
  <2>1. \A i \in 1..Len(wire') : wire'[i] <= head'
    <3>1. wire \in Seq(Nat) /\ position \in Nat /\ wire' = Append(wire, position)
          /\ position <= head /\ head' = head
      BY <1>2 DEF Send, TypeOK
    <3>2. Len(wire') = Len(wire) + 1
      BY <3>1
    <3>3. \A i \in 1..Len(wire) + 1 : wire'[i] = IF i <= Len(wire) THEN wire[i] ELSE position
      BY <3>1
    <3> QED
      BY <3>1, <3>2, <3>3
  <2> QED BY <1>2, <2>1 DEF Send, stream, notifications, TypeOK
<1>3. CASE Skip
  BY <1>3 DEF Skip, Fault, stream, notifications, TypeOK
<1>4. CASE Disconnect
  <2>1. \A i \in 1..Len(wire') : wire'[i] <= head'
    BY <1>4 DEF Disconnect, TypeOK
  <2> QED BY <1>4, <2>1 DEF Disconnect, Fault, stream, notifications, TypeOK
<1>5. CASE Forget
  BY <1>5 DEF Forget, Fault, stream, notifications, TypeOK
<1>6. CASE NextEvent
  <2>1. wire # <<>> => Head(wire) = wire[1] /\ Head(wire) <= head
    BY DEF TypeOK
  <2>2. CASE Expected(Head(wire))
    <3>1. \A i \in 1..Len(wire') : wire'[i] <= head'
      <4>1. wire' = Tail(wire) /\ wire # <<>> /\ head' = head
        BY <1>6, <2>2 DEF NextEvent, Accept
      <4>2. Len(wire') = Len(wire) - 1 /\ \A i \in 1..Len(wire') : wire'[i] = wire[i + 1]
        BY <4>1 DEF TypeOK
      <4> QED BY <4>1, <4>2 DEF TypeOK
    <3>2. NoMissedChange' /\ Snapshot <= last_change_id'
      <4>1. last_change_id' = Head(wire) /\ delivered' = delivered \cup {Head(wire)}
        BY <1>6, <2>2 DEF NextEvent, Accept
      <4>2. CASE Snapshot = 0
        BY <4>1, <4>2 DEF TypeOK
      <4>3. CASE Snapshot # 0
        <5>1. Head(wire) = last_change_id + 1
          BY <2>2, <4>3 DEF Expected, TypeOK
        <5> last_change_id \in Nat /\ Snapshot \in Nat /\ Snapshot <= last_change_id
          BY DEF TypeOK
        <5> delivered = (Snapshot + 1)..last_change_id
          BY <4>3
        <5>2. delivered' = (Snapshot + 1)..(last_change_id + 1)
          <6> HIDE DEF StreamInv, NothingInvented, EndInOrder, NoMissedChange, StaleIsPending
          <6> QED BY <4>1, <5>1, ExtendInterval
        <5>3. last_change_id' = last_change_id + 1
          BY <4>1, <5>1
        <5>4. NoMissedChange'
          BY <5>2, <5>3
        <5>5. Snapshot <= last_change_id'
          BY <5>3 DEF TypeOK
        <5> QED BY <5>4, <5>5
      <4> QED BY <4>2, <4>3
    <3> QED BY <1>6, <2>1, <2>2, <3>1, <3>2 DEF NextEvent, Accept, Reading, TypeOK
  <2>3. CASE ~Expected(Head(wire))
    BY <1>6, <2>3 DEF NextEvent, ReadFailed, Reading, TypeOK
  <2> QED BY <2>2, <2>3
<1>7. CASE EndOfFile
  BY <1>7 DEF EndOfFile, ReadFailed, Reading, TypeOK
<1>8. CASE Resubscribe
  BY <1>8 DEF Resubscribe, Resubscribing, notifications, TypeOK
<1>9. CASE ResubscribeFails
  BY <1>9 DEF ResubscribeFails, Resubscribing, Fault, server, TypeOK
<1>10. CASE SendEvent
  <2>1. Len(channel) = 0 /\ channel' = Append(channel, event)
    BY <1>10 DEF SendEvent, ChannelCapacity, TypeOK
  <2>2. channel' # <<>> /\ Head(channel') = event
    BY <2>1 DEF TypeOK
  <2>3. StaleIsPending'
    BY <2>2
  <2>4. finished' = finished
    BY <1>10 DEF SendEvent, stream
  <2>5. worker' = "done" => Head(channel') = "error"
    BY <1>10, <2>2 DEF SendEvent
  <2>6. worker = "send" /\ event = "change" => ~finished
    OBVIOUS
  <2> QED BY <1>10, <2>2, <2>3, <2>4, <2>5, <2>6 DEF SendEvent, server, stream, TypeOK
<1>11. CASE Cancelled
  BY <1>11 DEF Cancelled, server, stream, TypeOK
<1>12. CASE Recv
  <2>1. CASE Head(channel) = "change"
    <3>1. worker # "done"
      BY <1>12, <2>1 DEF Recv
    <3> QED BY <1>12, <2>1, <3>1 DEF Recv, server, stream, TypeOK
  <2>2. CASE Head(channel) # "change"
    BY <1>12, <2>2 DEF Recv, server, stream, TypeOK
  <2> QED BY <2>1, <2>2
<1>13. CASE Drop
  BY <1>13 DEF Drop, server, stream, TypeOK
<1>14. CASE UNCHANGED vars
  BY <1>14 DEF vars, server, stream, notifications, TypeOK
<1> QED
  BY Zenon, <1>1, <1>2, <1>3, <1>4, <1>5, <1>6, <1>7, <1>8, <1>9, <1>10, <1>11, <1>12,
     <1>13, <1>14 DEF Next

\* The conjunction above is an invariant of the subscription.
THEOREM StreamInvariant == Spec => []StreamInv
  BY StreamInvInit, StreamInvStep, PTL DEF Spec

\* The state of the stream, the worker and the consumer is well formed, and the
\* channel never holds more than its capacity.
THEOREM StreamTypeCorrect == Spec => []TypeOK
<1>1. StreamInv => TypeOK
  BY DEF StreamInv
<1> QED BY <1>1, StreamInvariant, PTL

\* With a snapshot that has a change ID, ChangeStream::next returns every change
\* after it, once and in order, across skipped changes and broken connections.
THEOREM EveryChangeReturned == Spec => []NoMissedChange
<1>1. StreamInv => NoMissedChange
  BY DEF StreamInv
<1> QED BY <1>1, StreamInvariant, PTL

\* A consumer with an outdated list always has a notification, or the stream's
\* end, still to come from the channel, the worker or the stream.
THEOREM StaleConsumerIsNotified == Spec => []StaleIsPending
<1>1. StreamInv => StaleIsPending
  BY Zenon DEF StreamInv
<1> QED BY <1>1, StreamInvariant, PTL

-----------------------------------------------------------------------------
\* The messages that are data; a zero status with no other after it; a message that
\* did not come.
Data(m) == {i \in 1..Len(m) : m[i] = "data"}
LastIsZero(m) == \E i \in 1..Len(m) : m[i] = "zero" /\ \A j \in i + 1..Len(m) : m[j] # "other"
Lacks(m, x) == \A i \in 1..Len(m) : m[i] # x

\* The fields that decide the result follow from the messages taken so far. A chunk
\* that is being written has been taken and not yet passed on.
RemoteInv ==
    /\ mail \in Seq({"data", "zero", "other", "signal", "failure", "close"})
    /\ exit_status = "zero" => LastIsZero(mail)
    /\ exit_signal \/ Lacks(mail, "signal")
    /\ rc \notin {"interrupting", "draining", "returned"} =>
          /\ Lacks(mail, "failure")
          /\ passedOn = Cardinality(Data(mail)) - (IF rc = "writing" THEN 1 ELSE 0)
    /\ rverdict = "ok" =>
          /\ rc = "returned" /\ LastIsZero(mail) /\ Lacks(mail, "signal") /\ Lacks(mail, "failure")
          /\ passedOn = Cardinality(Data(mail))

\* One more message adds its chunk, when it is one.
LEMMA DataCount ==
    ASSUME NEW S, NEW m \in Seq(S), NEW x \in S
    PROVE  /\ Cardinality(Data(m)) \in Nat
           /\ Cardinality(Data(Append(m, x))) = Cardinality(Data(m)) + (IF x = "data" THEN 1 ELSE 0)
<1>1. Len(m) \in Nat /\ Len(Append(m, x)) = Len(m) + 1 /\ Append(m, x)[Len(m) + 1] = x
      /\ \A i \in 1..Len(m) : Append(m, x)[i] = m[i]
  OBVIOUS
<1>2. IsFiniteSet(Data(m)) /\ Cardinality(Data(m)) \in Nat
  <2>1. IsFiniteSet(1..Len(m))
    BY <1>1, FS_Interval
  <2> QED
    BY <2>1, FS_Subset, FS_CardinalityType, Zenon DEF Data
<1>3. Len(m) + 1 \notin Data(m)
  BY <1>1 DEF Data
<1>4. CASE x = "data"
  <2>1. Data(Append(m, x)) = Data(m) \cup {Len(m) + 1}
    BY <1>1, <1>4 DEF Data
  <2> QED
    BY <1>2, <1>3, <1>4, <2>1, FS_AddElement, Zenon
<1>5. CASE x # "data"
  <2>1. Data(Append(m, x)) = Data(m)
    BY <1>1, <1>5 DEF Data
  <2> QED
    BY <1>2, <1>5, <2>1
<1> QED
  BY <1>2, <1>4, <1>5, Zenon

\* One more message leaves the last status alone unless it is a status.
LEMMA OneMoreMessage ==
    ASSUME NEW S, NEW m \in Seq(S), NEW x \in S
    PROVE  /\ x = "zero" \/ (x # "other" /\ LastIsZero(m)) => LastIsZero(Append(m, x))
           /\ \A y : Lacks(m, y) /\ x # y => Lacks(Append(m, x), y)
<1>1. Len(m) \in Nat /\ Len(Append(m, x)) = Len(m) + 1 /\ Append(m, x)[Len(m) + 1] = x
      /\ \A i \in 1..Len(m) : Append(m, x)[i] = m[i]
  OBVIOUS
<1> DEFINE n == Append(m, x)
<1> HIDE DEF n
<1>2. Len(n) = Len(m) + 1 /\ n[Len(m) + 1] = x /\ \A i \in 1..Len(m) : n[i] = m[i]
  BY <1>1, Zenon DEF n
<1>3. ASSUME x = "zero" PROVE LastIsZero(n)
  <2>1. Len(n) \in 1..Len(n) /\ \A j \in Len(n) + 1..Len(n) : FALSE
    BY <1>1, <1>2
  <2>2. n[Len(n)] = "zero"
    BY <1>2, <1>3, Zenon
  <2> QED
    BY <2>1, <2>2, Zenon DEF LastIsZero
<1>4. ASSUME x # "other", LastIsZero(m) PROVE LastIsZero(n)
  <2>1. PICK i \in 1..Len(m) : m[i] = "zero" /\ \A j \in i + 1..Len(m) : m[j] # "other"
    BY <1>4, Zenon DEF LastIsZero
  <2>2. i \in 1..Len(n) /\ n[i] = "zero"
    BY <1>1, <1>2, <2>1
  <2>3. ASSUME NEW j \in i + 1..Len(n) PROVE n[j] # "other"
    <3>1. j \in i + 1..Len(m) \/ j = Len(m) + 1
      BY <1>1, <1>2
    <3>2. \A k \in i + 1..Len(m) : k \in 1..Len(m)
      BY <1>1
    <3> QED
      BY <1>2, <1>4, <2>1, <3>1, <3>2, Zenon
  <2> QED
    BY <2>2, <2>3, Zenon DEF LastIsZero
<1>5. ASSUME NEW y, Lacks(m, y), x # y PROVE Lacks(n, y)
  <2>1. ASSUME NEW i \in 1..Len(n) PROVE n[i] # y
    <3>1. i \in 1..Len(m) \/ i = Len(m) + 1
      BY <1>1, <1>2
    <3> QED
      BY <1>2, <1>5, <3>1, Zenon DEF Lacks
  <2> QED
    BY <2>1, Zenon DEF Lacks
<1> QED
  BY <1>3, <1>4, <1>5, Zenon DEF n

\* Before a command.
LEMMA RemoteInitInv == RemoteInit => RemoteInv
<1> SUFFICES ASSUME RemoteInit PROVE RemoteInv
  OBVIOUS
<1>1. mail = <<>> /\ Len(mail) = 0 /\ Data(mail) = {} /\ \A x : Lacks(mail, x)
  BY DEF RemoteInit, Data, Lacks
<1>2. mail \in Seq({"data", "zero", "other", "signal", "failure", "close"})
  BY <1>1
<1>3. Cardinality(Data(mail)) = 0
  BY <1>1, FS_EmptySet, Zenon
<1> QED
  BY <1>1, <1>2, <1>3 DEF RemoteInit, RemoteInv

\* The command takes a message of its channel.
LEMMA TakeMessageKeeps == RemoteInv /\ TakeMessage => RemoteInv'
<1> SUFFICES ASSUME RemoteInv, TakeMessage PROVE RemoteInv'
  OBVIOUS
<1> DEFINE Msgs == {"data", "zero", "other", "signal", "failure", "close"}
<1>1. PICK msg \in Msgs :
          /\ mail' = Append(mail, msg)
          /\ passedOn' = IF msg = "data" /\ ~rstream THEN passedOn + 1 ELSE passedOn
          /\ exit_status' = IF msg \in {"zero", "other"} THEN msg ELSE exit_status
          /\ exit_signal' = (exit_signal \/ msg = "signal")
          /\ CASE msg = "data" /\ rstream -> rc' = "writing" /\ UNCHANGED rverdict
               [] msg = "failure" -> CleanUp("rejected")
               [] msg = "close" -> ReturnResult(IF Succeeded THEN "ok" ELSE "command")
               [] OTHER -> UNCHANGED <<rc, rverdict>>
  BY Zenon DEF TakeMessage
<1>2. /\ rc = "reading" /\ rverdict # "ok" /\ mail \in Seq(Msgs) /\ Lacks(mail, "failure")
      /\ passedOn = Cardinality(Data(mail))
  <2>1. rc = "reading"
    BY Zenon DEF TakeMessage
  <2>2. Cardinality(Data(mail)) \in Nat
    BY DataCount, Zenon DEF RemoteInv
  <2> QED
    BY <2>1, <2>2 DEF RemoteInv
<1>3. mail' \in Seq(Msgs)
  BY <1>1, <1>2
<1> HIDE DEF Msgs
<1>4. /\ msg = "zero" \/ (msg # "other" /\ LastIsZero(mail)) => LastIsZero(mail')
      /\ \A y : Lacks(mail, y) /\ msg # y => Lacks(mail', y)
  BY <1>1, <1>2, OneMoreMessage, Zenon
<1>5. /\ Cardinality(Data(mail)) \in Nat
      /\ Cardinality(Data(mail')) = Cardinality(Data(mail)) + (IF msg = "data" THEN 1 ELSE 0)
  BY <1>1, <1>2, DataCount, Zenon
<1>6. exit_status' = "zero" => LastIsZero(mail')
  BY <1>1, <1>4, Zenon DEF RemoteInv
<1>7. exit_signal' \/ Lacks(mail', "signal")
  BY <1>1, <1>4, Zenon DEF RemoteInv
<1>8. CASE msg = "data" /\ rstream
  <2>1. rc' = "writing" /\ rverdict' # "ok" /\ passedOn' = passedOn /\ Lacks(mail', "failure")
    BY <1>1, <1>2, <1>4, <1>8
  <2>2. passedOn' = Cardinality(Data(mail')) - 1
    BY <1>2, <1>5, <1>8, <2>1
  <2> QED
    BY <1>3, <1>6, <1>7, <2>1, <2>2, Zenon DEF RemoteInv, Msgs
<1>9. CASE msg = "failure"
  <2>1. rc' = "draining" /\ rverdict' # "ok"
    BY <1>1, <1>9, Zenon DEF CleanUp
  <2> QED
    BY <1>3, <1>6, <1>7, <2>1, Zenon DEF RemoteInv, Msgs
<1>10. CASE msg = "close"
  <2>1. /\ rc' = "returned" /\ rverdict' = (IF Succeeded THEN "ok" ELSE "command")
        /\ passedOn' = passedOn /\ Lacks(mail', "failure") /\ UNCHANGED <<exit_status>> /\ (exit_signal' <=> exit_signal)
    BY <1>1, <1>2, <1>4, <1>10, Zenon DEF ReturnResult
  <2>2. passedOn' = Cardinality(Data(mail'))
    BY <1>2, <1>5, <1>10, <2>1
  <2>3. rverdict' = "ok" => LastIsZero(mail') /\ Lacks(mail', "signal")
    BY <1>6, <1>7, <2>1, Zenon DEF Succeeded
  <2> QED
    BY <1>3, <1>6, <1>7, <2>1, <2>2, <2>3, Zenon DEF RemoteInv, Msgs
<1>11. CASE msg \notin {"failure", "close"} /\ ~(msg = "data" /\ rstream)
  <2>1. rc' = "reading" /\ rverdict' # "ok" /\ Lacks(mail', "failure")
    BY <1>1, <1>2, <1>4, <1>11, Zenon
  <2>2. passedOn' = IF msg = "data" THEN passedOn + 1 ELSE passedOn
    BY <1>1, <1>11, Zenon
  <2>3. passedOn' = Cardinality(Data(mail'))
    BY <1>2, <1>5, <2>2
  <2>4. Cardinality(Data(mail')) \in Nat
    BY <1>5
  <2> QED
    BY <1>3, <1>6, <1>7, <2>1, <2>3, <2>4 DEF RemoteInv, Msgs
<1> QED
  BY <1>8, <1>9, <1>10, <1>11, Zenon

\* Every step of the command, its writer and its caller keeps the invariant.
LEMMA RemoteKeeps == RemoteInv /\ [RemoteNext]_remoteVars => RemoteInv'
<1> SUFFICES ASSUME RemoteInv, [RemoteNext]_remoteVars PROVE RemoteInv'
  OBVIOUS
<1>1. CASE TakeMessage
  BY <1>1, TakeMessageKeeps, Zenon
<1>2. CASE WriteChunk
  <2>1. /\ rc = "writing" /\ UNCHANGED <<mail, exit_status, exit_signal>>
        /\ \/ rc' = "reading" /\ passedOn' = passedOn + 1 /\ UNCHANGED rverdict
           \/ rc' = "draining" /\ rverdict' = "write"
    BY <1>2, Zenon DEF WriteChunk, CleanUp
  <2>2. Cardinality(Data(mail)) \in Nat
    BY DataCount, Zenon DEF RemoteInv
  <2>3. rverdict # "ok" /\ Lacks(mail, "failure") /\ passedOn = Cardinality(Data(mail)) - 1
    BY <2>1, Zenon DEF RemoteInv
  <2> QED
    BY <2>1, <2>2, <2>3 DEF RemoteInv
<1>3. CASE StartCommand \/ CancelRemote \/ OpenSession \/ Exec \/ NoticeCancel \/ SendSignal \/ Drain
           \/ UNCHANGED remoteVars
  <2>1. UNCHANGED resultVars
    BY <1>3, Zenon DEF StartCommand, CancelRemote, OpenSession, Exec, NoticeCancel, SendSignal, Drain, remoteVars, resultVars
  <2>2. \/ UNCHANGED <<rc, rverdict>>
        \/ rc \in {"idle", "opening", "starting"} /\ rc' \in {"opening", "starting", "reading"} /\ UNCHANGED rverdict
        \/ rc' \in {"interrupting", "draining", "returned"} /\ rc # "returned" /\ (rverdict' # "ok" \/ UNCHANGED rverdict)
    BY <1>3, Zenon DEF StartCommand, CancelRemote, OpenSession, Exec, NoticeCancel, SendSignal, Drain, remoteVars,
                ReturnResult, CleanUp, Interrupt
  <2> QED
    BY <2>1, <2>2, Zenon DEF RemoteInv, resultVars
<1> QED
  BY <1>1, <1>2, <1>3, Zenon DEF RemoteNext

\* For any number of messages: a command that returns Ok had exit status zero as its
\* last status, no signal and no refusal, and the caller has every chunk
\* (Remote::run_bytes and Remote::stream).
THEOREM OkAlwaysSuccess == RemoteInit /\ [][RemoteNext]_remoteVars => []OkMeansSuccess
<1>1. RemoteInv => OkMeansSuccess
  BY Zenon DEF RemoteInv, OkMeansSuccess, LastIsZero, Lacks, Data
<1> QED
  BY <1>1, RemoteInitInv, RemoteKeeps, PTL

\* A session is opened once, and has been closed or given up when the call returns.
SessionInv == (rc \in {"idle", "opening"} => session = "none") /\ SessionIsClosed

\* For any number of messages: a command that has returned left no session open,
\* unless a time limit of its clean up passed (interrupt_and_cleanup, close_and_drain).
THEOREM SessionAlwaysClosed == RemoteInit /\ [][RemoteNext]_remoteVars => []SessionIsClosed
<1>1. RemoteInit => SessionInv
  BY Zenon DEF RemoteInit, SessionInv, SessionIsClosed
<1>2. SessionInv /\ [RemoteNext]_remoteVars => SessionInv'
  <2> SUFFICES ASSUME SessionInv, [RemoteNext]_remoteVars PROVE SessionInv'
    OBVIOUS
  <2>1. CASE TakeMessage
    BY <2>1, Zenon DEF TakeMessage, ReturnResult, CleanUp, SessionInv, SessionIsClosed
  <2>2. CASE StartCommand \/ CancelRemote \/ OpenSession \/ UNCHANGED remoteVars
    BY <2>2, Zenon DEF StartCommand, CancelRemote, OpenSession, ReturnResult, remoteVars, SessionInv, SessionIsClosed
  <2>3. CASE Exec \/ WriteChunk \/ NoticeCancel
    BY <2>3, Zenon DEF Exec, WriteChunk, NoticeCancel, CleanUp, Interrupt, SessionInv, SessionIsClosed
  <2>4. CASE SendSignal \/ Drain
    BY <2>4, Zenon DEF SendSignal, Drain, ReturnResult, CleanUp, SessionInv, SessionIsClosed
  <2> QED
    BY <2>1, <2>2, <2>3, <2>4, Zenon DEF RemoteNext
<1>3. SessionInv => SessionIsClosed
  BY Zenon DEF SessionInv
<1> QED
  BY <1>1, <1>2, <1>3, PTL

-----------------------------------------------------------------------------
\* There is a transport exactly where connect has one or the client is up; the owner
\* owes the server's answer to at most one open, and to none when it is idle or has
\* ended.
SshInv ==
    /\ transports = IF login \in {"agentAuth", "keyAuth", "retire", "up"} THEN 1 ELSE 0
    /\ login = "retire" => after \in {"key"} \cup ConnectErrors
    /\ unanswered \in 0..1
    /\ owner \in {"idle", "ended"} => unanswered = 0
    /\ owner \in {"opening", "grace"} => unanswered = 1

\* Before connect.
LEMMA SshInitInv == SshInit => SshInv
  BY DEF SshInit, SshInv

\* The steps of connect open and retire transports one at a time.
LEMMA ConnectKeeps == SshInv /\ ConnectStep => SshInv'
<1> SUFFICES ASSUME SshInv, ConnectStep PROVE SshInv'
  OBVIOUS
<1>1. UNCHANGED <<owner, unanswered>>
  BY Zenon DEF ConnectStep, ConnectAgent, NoAgent, DialTransport, AgentAuth, LoadKey, KeyAuth, KeyDialFails, Retired,
         Connecting, RetireTransport, clientVars
<1>2. (/\ transports = IF login \in {"agentAuth", "keyAuth", "retire", "up"} THEN 1 ELSE 0
       /\ login = "retire" => after \in {"key"} \cup ConnectErrors)'
  <2>1. CASE ConnectAgent \/ NoAgent \/ LoadKey \/ KeyDialFails
    BY <2>1, Zenon DEF SshInv, ConnectAgent, NoAgent, LoadKey, KeyDialFails, Connecting
  <2>2. CASE DialTransport
    BY <2>2 DEF SshInv, DialTransport, Connecting
  <2>3. CASE AgentAuth
    BY <2>3, Zenon DEF SshInv, AgentAuth, Connecting, RetireTransport, ConnectErrors
  <2>4. CASE KeyAuth
    BY <2>4, Zenon DEF SshInv, KeyAuth, Connecting, RetireTransport, ConnectErrors
  <2>5. CASE Retired
    BY <2>5 DEF SshInv, Retired, ConnectErrors
  <2> QED
    BY <2>1, <2>2, <2>3, <2>4, <2>5, Zenon DEF ConnectStep
<1> QED
  BY <1>1, <1>2, Zenon DEF SshInv

\* Every step of connect, the owner, its callers and the server keeps the invariant.
LEMMA SshKeeps == SshInv /\ [SshNext]_sshVars => SshInv'
<1> SUFFICES ASSUME SshInv, [SshNext]_sshVars PROVE SshInv'
  OBVIOUS
<1>1. CASE ConnectStep
  BY <1>1, ConnectKeeps, Zenon
<1>2. CASE OwnerIdle
  <2>1. owner = "idle" /\ UNCHANGED <<login, after, transports>>
    BY <1>2, Zenon DEF OwnerIdle, EndOwner, loginVars
  <2>2. \/ owner' \in {"ended", "shutdown"} /\ unanswered' \in {0, unanswered}
        \/ UNCHANGED <<owner, unanswered>>
        \/ owner' = "opening" /\ unanswered' = unanswered + 1
    BY <1>2, Zenon DEF OwnerIdle, EndOwner
  <2> QED
    BY <2>1, <2>2 DEF SshInv
<1>3. CASE OpenCancelled \/ OpenShut \/ GraceOver1
  <2>1. UNCHANGED <<login, after, transports, unanswered>>
    BY <1>3, Zenon DEF OpenCancelled, OpenShut, GraceOver1, loginVars
  <2>2. owner \in {"opening", "grace"} /\ owner' \in {"grace", "shutdown", "retire"}
    BY <1>3, Zenon DEF OpenCancelled, OpenShut, GraceOver1
  <2> QED
    BY <2>1, <2>2, Zenon DEF SshInv
<1>4. CASE Retire \/ Shutdown
  BY <1>4 DEF SshInv, Retire, Shutdown, EndOwner, loginVars
<1>5. CASE OpenAnswered
  BY <1>5 DEF SshInv, OpenAnswered, Settle, loginVars
<1>6. CASE CloseReturns
  <2>1. UNCHANGED <<login, after, transports>>
    BY <1>6, Zenon DEF CloseReturns, loginVars
  <2>2. \/ owner' = owner /\ unanswered' = unanswered
        \/ owner' = "ended" /\ unanswered' = 0
    BY <1>6, Zenon DEF CloseReturns
  <2> QED
    BY <2>1, <2>2 DEF SshInv
<1>7. CASE LoseConnection \/ CloseClient \/ UNCHANGED sshVars
  BY <1>7, Zenon DEF SshInv, LoseConnection, CloseClient, sshVars, loginVars, ownerVars
<1>8. ASSUME NEW c \in Callers, Ask(c) \/ GiveUp(c) \/ CallerStep(c) \/ CloseChannel(c) PROVE SshInv'
  BY <1>8, Zenon DEF SshInv, Ask, GiveUp, CallerStep, CloseChannel, SendRequest, TakeLetter, Returns, loginVars, ownerVars
<1> QED
  BY <1>1, <1>2, <1>3, <1>4, <1>5, <1>6, <1>7, <1>8, Zenon DEF SshNext, OwnerStep

\* No element comes twice.
Distinct(s) == \A i, j \in 1..Len(s) : s[i] = s[j] => i = j

\* Taking the first request of the mailbox.
LEMMA TailOf ==
    ASSUME NEW S, NEW s \in Seq(S), s # <<>>, Distinct(s)
    PROVE  /\ Tail(s) \in Seq(S) /\ Head(s) \in S /\ Head(s) \in Range(s)
           /\ Head(s) \notin Range(Tail(s)) /\ Range(Tail(s)) \subseteq Range(s) /\ Distinct(Tail(s))
<1>1. /\ Len(s) \in Nat \ {0} /\ DOMAIN s = 1..Len(s) /\ Head(s) = s[1] /\ Tail(s) \in Seq(S)
      /\ Len(Tail(s)) = Len(s) - 1 /\ DOMAIN Tail(s) = 1..Len(s) - 1
      /\ \A i \in 1..Len(s) - 1 : Tail(s)[i] = s[i + 1] /\ i + 1 \in 1..Len(s)
  OBVIOUS
<1>2. Head(s) \in S /\ Head(s) \in Range(s)
  BY <1>1 DEF Range
<1>3. Head(s) \notin Range(Tail(s)) /\ Range(Tail(s)) \subseteq Range(s)
  BY <1>1 DEF Range, Distinct
<1>4. Distinct(Tail(s))
  BY <1>1 DEF Distinct
<1> QED
  BY <1>1, <1>2, <1>3, <1>4, Zenon

\* Adding a request to the mailbox.
LEMMA AppendOf ==
    ASSUME NEW S, NEW s \in Seq(S), NEW x \in S, x \notin Range(s), Distinct(s)
    PROVE  /\ Append(s, x) \in Seq(S) /\ Range(Append(s, x)) = Range(s) \cup {x} /\ Distinct(Append(s, x))
<1>1. /\ Len(s) \in Nat /\ DOMAIN s = 1..Len(s) /\ Append(s, x) \in Seq(S)
      /\ Len(Append(s, x)) = Len(s) + 1 /\ DOMAIN Append(s, x) = 1..Len(s) + 1
      /\ \A i \in 1..Len(s) : Append(s, x)[i] = s[i] /\ i \in 1..Len(s) + 1
      /\ Append(s, x)[Len(s) + 1] = x /\ \A i \in 1..Len(s) + 1 : i \in 1..Len(s) \/ i = Len(s) + 1
  OBVIOUS
<1>2. \A i \in 1..Len(s) : s[i] # x
  BY <1>1, Zenon DEF Range
<1>3. Range(Append(s, x)) = Range(s) \cup {x}
  <2>1. \A y \in Range(Append(s, x)) : y \in Range(s) \cup {x}
    BY <1>1, Zenon DEF Range
  <2>2. \A y \in Range(s) \cup {x} : y \in Range(Append(s, x))
    BY <1>1 DEF Range
  <2> QED
    BY <2>1, <2>2, Zenon
<1>4. Distinct(Append(s, x))
  BY <1>1, <1>2, Zenon DEF Distinct
<1> QED
  BY <1>1, <1>3, <1>4, Zenon

\* Nothing is in an emptied mailbox.
LEMMA EmptyMailbox ==
    ASSUME mailbox' = <<>>
    PROVE  (Range(mailbox) = {} /\ Distinct(mailbox) /\ mailbox \in Seq(Callers))'
  BY DEF Range, Distinct

\* The caller whose open is under way.
Served == IF owner \in {"opening", "grace"} THEN {serving1} ELSE {}

\* The mailbox, the caller served and the callers with a channel are callers, each
\* request is there once.
QueueShape ==
    /\ mailbox \in Seq(Callers) /\ Distinct(mailbox)
    /\ Served \subseteq Callers /\ Served \cap Range(mailbox) = {}
    /\ channels \subseteq Callers
    /\ DOMAIN letter = Callers /\ DOMAIN dial = Callers /\ DOMAIN got = Callers

\* A request that waits or is served has no answer yet.
QueuedUnanswered ==
    \A c \in Range(mailbox) \cup Served :
        dial[c] \notin {"idle", "sending"} /\ letter[c] = "none" /\ (got[c] = "none" \/ c \in gaveUp \/ shut)

\* Nothing has been sent for a caller that has not asked.
UnaskedUnanswered ==
    \A c \in Callers : dial[c] \in {"idle", "sending"} =>
        (letter[c] = "none" \/ owner = "ended") /\ got[c] = "none" /\ c \notin channels

\* An open channel is in the letter of its caller.
OpenIsAnswered ==
    \A c \in channels :
        letter[c] = "channel" /\ (got[c] \in {"none", "channel"} \/ c \in gaveUp \/ shut)

\* Each caller is in one place: it has not asked yet, its request waits or is served
\* and has no answer, or the answer is in its letter. So a channel that was sent is
\* never answered a second time.
QueueInv == QueueShape /\ QueuedUnanswered /\ UnaskedUnanswered /\ OpenIsAnswered

\* Before connect.
LEMMA QueueInitInv == SshInit => QueueInv
<1> SUFFICES ASSUME SshInit PROVE QueueInv
  OBVIOUS
<1>1. mailbox = <<>> /\ Range(mailbox) = {} /\ Distinct(mailbox) /\ mailbox \in Seq(Callers)
  BY DEF SshInit, Range, Distinct
<1> QED
  BY <1>1, Zenon DEF SshInit, QueueInv, QueueShape, QueuedUnanswered, UnaskedUnanswered, OpenIsAnswered, Served

\* The owner and the connection have ended: nothing is open or waits.
LEMMA EndKeeps ==
    ASSUME QueueInv, owner' = "ended", mailbox' = <<>>, channels' = {}, UNCHANGED <<dial, got>>,
           DOMAIN letter' = Callers
    PROVE  QueueInv'
<1>1. (Range(mailbox) = {} /\ Distinct(mailbox) /\ mailbox \in Seq(Callers))'
  BY EmptyMailbox, Zenon
<1>2. Served' = {}
  BY Zenon DEF Served
<1>3. QueueShape'
  BY <1>1, <1>2, Zenon DEF QueueInv, QueueShape
<1>4. QueuedUnanswered'
  BY <1>1, <1>2, Zenon DEF QueueInv, QueueShape, QueuedUnanswered
<1>5. UnaskedUnanswered'
  BY <1>1, <1>2, Zenon DEF QueueInv, QueueShape, UnaskedUnanswered
<1>6. OpenIsAnswered'
  BY <1>1, <1>2, Zenon DEF QueueInv, QueueShape, OpenIsAnswered
<1> QED
  BY <1>3, <1>4, <1>5, <1>6, Zenon DEF QueueInv

\* Only callers send requests.
LEMMA MailOfCallers == QueueShape => Range(mailbox) \subseteq Callers
  BY DEF QueueShape, Range

\* A caller that has not asked is not in the mailbox, nor is it served.
LEMMA OutsideQueue ==
    ASSUME QueueInv, NEW c \in Callers, dial[c] \in {"idle", "sending"}
    PROVE  c \notin Range(mailbox) /\ c \notin Served
  BY Zenon DEF QueueInv, QueuedUnanswered

\* A caller's own steps.
LEMMA CallerKeeps ==
    ASSUME QueueInv, NEW c \in Callers, Ask(c) \/ GiveUp(c) \/ CallerStep(c) \/ CloseChannel(c)
    PROVE  QueueInv'
<1>1. CASE Ask(c)
  <2>1. /\ dial[c] = "idle" /\ dial' = [dial EXCEPT ![c] = "sending"]
        /\ UNCHANGED <<got, mailbox, owner, serving1, letter, channels, gaveUp, shut>>
    BY <1>1, Zenon DEF Ask, ownerVars
  <2>2. c \notin Range(mailbox) /\ c \notin Served
    BY <2>1, OutsideQueue, Zenon
  <2>3. UNCHANGED <<Served, Range(mailbox)>>
    BY <2>1, Zenon DEF Served
  <2>4. QueueShape'
    BY <2>1, <2>2, <2>3, Zenon DEF QueueInv, QueueShape
  <2>5. QueuedUnanswered'
    BY <2>1, <2>2, <2>3 DEF QueueInv, QueueShape, QueuedUnanswered
  <2>6. UnaskedUnanswered'
    BY <2>1, <2>2, <2>3, Zenon DEF QueueInv, QueueShape, UnaskedUnanswered
  <2>7. OpenIsAnswered'
    BY <2>1, <2>2, <2>3, Zenon DEF QueueInv, QueueShape, OpenIsAnswered
  <2> QED
    BY <2>4, <2>5, <2>6, <2>7, Zenon DEF QueueInv
<1>2. CASE GiveUp(c) \/ CloseChannel(c)
  <2>1. /\ UNCHANGED <<dial, got, mailbox, owner, serving1, letter, shut>>
        /\ channels' \subseteq channels /\ gaveUp \subseteq gaveUp'
    BY <1>2, Zenon DEF GiveUp, CloseChannel, ownerVars, callerVars
  <2>2. UNCHANGED <<Served, Range(mailbox)>>
    BY <2>1, Zenon DEF Served
  <2>3. QueueShape'
    BY <2>1, <2>2, Zenon DEF QueueInv, QueueShape
  <2>4. QueuedUnanswered'
    BY <2>1, <2>2, Zenon DEF QueueInv, QueueShape, QueuedUnanswered
  <2>5. UnaskedUnanswered'
    BY <2>1, <2>2, Zenon DEF QueueInv, QueueShape, UnaskedUnanswered
  <2>6. OpenIsAnswered'
    BY <2>1, <2>2, Zenon DEF QueueInv, QueueShape, OpenIsAnswered
  <2> QED
    BY <2>3, <2>4, <2>5, <2>6, Zenon DEF QueueInv
<1>3. ASSUME NEW result, Returns(c, result), dial[c] = "sending" \/
             (dial[c] = "waiting" /\ (result = letter[c] \/ letter[c] = "dropped" \/ c \in gaveUp \/ shut)),
             result # "none" \/ dial[c] = "sending"
      PROVE  QueueInv'
  <2>1. /\ dial' = [dial EXCEPT ![c] = "returned"] /\ got' = [got EXCEPT ![c] = result]
        /\ UNCHANGED <<mailbox, owner, serving1, letter, channels, gaveUp, shut>>
    BY <1>3, Zenon DEF Returns, ownerVars
  <2>2. UNCHANGED <<Served, Range(mailbox)>>
    BY <2>1, Zenon DEF Served
  <2>3. dial[c] = "sending" => c \notin Range(mailbox) /\ c \notin Served
    BY OutsideQueue, Zenon
  <2>4. QueueShape'
    BY <1>3, <2>1, <2>2, <2>3, Zenon DEF QueueInv, QueueShape
  <2>5. QueuedUnanswered'
    BY <1>3, <2>1, <2>2, <2>3 DEF QueueInv, QueueShape, QueuedUnanswered
  <2>6. UnaskedUnanswered'
    BY <1>3, <2>1, <2>2, <2>3, Zenon DEF QueueInv, QueueShape, UnaskedUnanswered
  <2>7. OpenIsAnswered'
    BY <1>3, <2>1, <2>2, <2>3, Zenon DEF QueueInv, QueueShape, UnaskedUnanswered, OpenIsAnswered
  <2> QED
    BY <2>4, <2>5, <2>6, <2>7, Zenon DEF QueueInv
<1>4. CASE SendRequest(c)
  <2>1. dial[c] = "sending"
    BY <1>4, Zenon DEF SendRequest
  <2>2. CASE \/ (owner = "ended" \/ shut) /\ Returns(c, "closed")
             \/ c \in gaveUp /\ Returns(c, "cancelled")
    BY <1>3, <2>1, <2>2, Zenon
  <2>3. CASE /\ owner # "ended"
             /\ mailbox' = Append(mailbox, c) /\ dial' = [dial EXCEPT ![c] = "waiting"]
             /\ UNCHANGED <<loginVars, got, ownerVars, gaveUp, shut, closing>>
    <3>1. c \notin Range(mailbox) /\ c \notin Served
      BY <2>1, OutsideQueue, Zenon
    <3>2. mailbox' \in Seq(Callers) /\ Range(mailbox') = Range(mailbox) \cup {c} /\ Distinct(mailbox')
      BY <2>3, <3>1, AppendOf, Zenon DEF QueueInv, QueueShape
    <3>3. UNCHANGED <<owner, Served, letter, channels, got, gaveUp, shut>>
      BY <2>3, Zenon DEF Served, ownerVars
    <3>4. letter[c] = "none" /\ got[c] = "none" /\ c \notin channels /\ dial'[c] = "waiting"
          /\ \A d \in Callers \ {c} : dial'[d] = dial[d]
      BY <2>1, <2>3, Zenon DEF QueueInv, QueueShape, UnaskedUnanswered
    <3>5. DOMAIN dial' = Callers
      BY <2>3, Zenon DEF QueueInv, QueueShape
    <3>6. Range(mailbox) \subseteq Callers
      BY MailOfCallers, Zenon DEF QueueInv
    <3>7. QueueShape'
      BY <3>1, <3>2, <3>3, <3>4, <3>5, <3>6, Zenon DEF QueueInv, QueueShape
    <3>8. QueuedUnanswered'
      BY <3>1, <3>2, <3>3, <3>4, <3>5, <3>6, Zenon DEF QueueInv, QueueShape, QueuedUnanswered
    <3>9. UnaskedUnanswered'
      BY <3>1, <3>2, <3>3, <3>4, <3>5, <3>6, Zenon DEF QueueInv, QueueShape, UnaskedUnanswered
    <3>10. OpenIsAnswered'
      BY <3>1, <3>2, <3>3, <3>4, <3>5, <3>6, Zenon DEF QueueInv, QueueShape, OpenIsAnswered
    <3> QED
      BY <3>7, <3>8, <3>9, <3>10, Zenon DEF QueueInv
  <2> QED
    BY <1>4, <2>2, <2>3, Zenon DEF SendRequest
<1>5. CASE TakeLetter(c)
  <2>1. dial[c] = "waiting" 
    BY <1>5, Zenon DEF TakeLetter
  <2>2. CASE letter[c] \notin {"none", "dropped"} /\ Returns(c, letter[c])
    BY <1>3, <2>1, <2>2, Zenon
  <2>3. CASE (letter[c] = "dropped" \/ shut) /\ Returns(c, "closed")
    BY <1>3, <2>1, <2>3, Zenon
  <2>4. CASE c \in gaveUp /\ Returns(c, "cancelled")
    BY <1>3, <2>1, <2>4, Zenon
  <2> QED
    BY <1>5, <2>2, <2>3, <2>4, Zenon DEF TakeLetter
<1> QED
  BY <1>1, <1>2, <1>4, <1>5, Zenon DEF CallerStep

\* An open that ends with an answer in its letter.
LEMMA AnswerKeeps ==
    ASSUME QueueInv, NEW c \in Served, NEW result, letter' = [letter EXCEPT ![c] = result],
           Served' = {}, UNCHANGED <<dial, got, mailbox, gaveUp, shut>>,
           channels' = channels \/ (channels' = channels \cup {c} /\ result = "channel")
    PROVE  QueueInv'
<1>1. UNCHANGED Range(mailbox)
  OBVIOUS
<1>2. c \in Callers /\ c \notin Range(mailbox) /\ c \notin channels /\ dial[c] \notin {"idle", "sending"}
      /\ (got[c] = "none" \/ c \in gaveUp \/ shut) /\ owner # "ended"
  BY Zenon DEF QueueInv, QueueShape, QueuedUnanswered, UnaskedUnanswered, OpenIsAnswered, Served
<1>3. letter'[c] = result /\ DOMAIN letter' = Callers /\ \A d \in Callers \ {c} : letter'[d] = letter[d]
  BY <1>2, Zenon DEF QueueInv, QueueShape
<1>4. QueueShape'
  BY <1>1, <1>2, <1>3, Zenon DEF QueueInv, QueueShape
<1>5. QueuedUnanswered'
  BY <1>1, <1>2, <1>3 DEF QueueInv, QueueShape, QueuedUnanswered
<1>6. UnaskedUnanswered'
  BY <1>1, <1>2, <1>3 DEF QueueInv, QueueShape, UnaskedUnanswered
<1>7. OpenIsAnswered'
  BY <1>1, <1>2, <1>3 DEF QueueInv, QueueShape, OpenIsAnswered
<1> QED
  BY <1>4, <1>5, <1>6, <1>7, Zenon DEF QueueInv

\* The steps of the owner, and of the server that answers it.
LEMMA OwnerKeeps == QueueInv /\ (OwnerStep \/ OpenAnswered) => QueueInv'
<1> SUFFICES ASSUME QueueInv, OwnerStep \/ OpenAnswered PROVE QueueInv'
  OBVIOUS
<1>1. ASSUME NEW reason, EndOwner(reason) PROVE QueueInv'
  <2>2. letter' = [c \in Callers |-> IF c \in Range(mailbox) THEN reason ELSE letter[c]]
    BY <1>1, Zenon DEF EndOwner
  <2>3. DOMAIN letter' = Callers
    BY <2>2, Zenon DEF QueueInv, QueueShape
  <2>4. owner' = "ended" /\ mailbox' = <<>> /\ channels' = {} /\ UNCHANGED <<dial, got>>
    BY <1>1, Zenon DEF EndOwner, callerVars
  <2> QED
    BY <2>3, <2>4, EndKeeps, Zenon
<1>2. CASE Retire \/ Shutdown
  BY <1>1, <1>2, Zenon DEF Retire, Shutdown
<1>3. CASE OwnerIdle
  <2>0. owner = "idle" /\ Served = {}
    BY <1>3, Zenon DEF OwnerIdle, Served
  <2>1. CASE EndOwner("closed")
    BY <1>1, <2>1, Zenon
  <2>2. CASE /\ owner' = "shutdown" /\ mailbox' = <<>>
             /\ letter' = [c \in Callers |-> IF c \in Range(mailbox) THEN "closed" ELSE letter[c]]
             /\ UNCHANGED <<loginVars, callerVars, serving1, alive, unanswered, channels, gaveUp, shut, closing>>
    <3>0. mailbox' = <<>>
      BY <2>2, Zenon
    <3>1. (Range(mailbox) = {} /\ Distinct(mailbox) /\ mailbox \in Seq(Callers))'
      BY <3>0, EmptyMailbox, Zenon
    <3>2. Served' = {} /\ UNCHANGED <<dial, got, channels, gaveUp, shut>>
      BY <2>2, Zenon DEF Served, callerVars
    <3>3. \A c \in channels : c \notin Range(mailbox) /\ c \in Callers
      BY Zenon DEF QueueInv, QueueShape, QueuedUnanswered, OpenIsAnswered
    <3>4. \A c \in Callers : dial[c] \in {"idle", "sending"} => c \notin Range(mailbox)
      BY OutsideQueue, Zenon
    <3>5. DOMAIN letter' = Callers /\ \A c \in Callers \ Range(mailbox) : letter'[c] = letter[c]
      BY <2>2, Zenon DEF QueueInv, QueueShape
    <3>6. QueueShape'
      BY <2>0, <3>1, <3>2, <3>3, <3>4, <3>5, Zenon DEF QueueInv, QueueShape
    <3>7. QueuedUnanswered'
      BY <2>0, <3>1, <3>2, <3>3, <3>4, <3>5, Zenon DEF QueueInv, QueueShape, QueuedUnanswered
    <3>8. UnaskedUnanswered'
      BY <2>0, <3>1, <3>2, <3>3, <3>4, <3>5, Zenon DEF QueueInv, QueueShape, UnaskedUnanswered
    <3>9. OpenIsAnswered'
      BY <2>0, <3>1, <3>2, <3>3, <3>4, <3>5, Zenon DEF QueueInv, QueueShape, OpenIsAnswered
    <3> QED
      BY <3>6, <3>7, <3>8, <3>9, Zenon DEF QueueInv
  <2>3. CASE /\ mailbox # <<>> /\ mailbox' = Tail(mailbox)
             /\ IF Head(mailbox) \in gaveUp
                THEN Respond(Head(mailbox), "cancelled") /\ UNCHANGED <<owner, serving1, unanswered>>
                ELSE /\ owner' = "opening" /\ serving1' = Head(mailbox)
                     /\ unanswered' = unanswered + 1 /\ UNCHANGED letter
             /\ UNCHANGED <<loginVars, callerVars, alive, channels, gaveUp, shut, closing>>
    <3> DEFINE c == Head(mailbox)
    <3>1. /\ mailbox' \in Seq(Callers) /\ c \in Callers /\ c \in Range(mailbox) /\ c \notin Range(mailbox')
          /\ Range(mailbox') \subseteq Range(mailbox) /\ Distinct(mailbox')
      BY <2>3, TailOf, Zenon DEF QueueInv, QueueShape
    <3>2. UNCHANGED <<dial, got, channels, gaveUp, shut>>
      BY <2>3, Zenon DEF callerVars
    <3>3. dial[c] \notin {"idle", "sending"} /\ letter[c] = "none" /\ c \notin channels
      BY <3>1, Zenon DEF QueueInv, QueueShape, QueuedUnanswered, OpenIsAnswered
    <3>4. CASE c \in gaveUp
      <4>1. Served' = {} /\ letter' = [letter EXCEPT ![c] = "cancelled"]
        BY <2>0, <2>3, <3>4, Zenon DEF Served, Respond
      <4>2. DOMAIN letter' = Callers /\ \A d \in Callers \ {c} : letter'[d] = letter[d]
        BY <4>1, Zenon DEF QueueInv, QueueShape
      <4>3. Range(mailbox') \subseteq Callers \ {c} /\ channels \subseteq Callers \ {c}
        BY <3>1, <3>3, MailOfCallers, Zenon DEF QueueInv, QueueShape
      <4> HIDE DEF c
      <4>4. QueueShape'
        BY <2>0, <3>1, <3>2, <3>3, <4>1, <4>2, <4>3, Zenon DEF QueueInv, QueueShape
      <4>5. QueuedUnanswered'
        BY <2>0, <3>1, <3>2, <3>3, <4>1, <4>2, <4>3, Zenon DEF QueueInv, QueueShape, QueuedUnanswered
      <4>6. UnaskedUnanswered'
        BY <2>0, <3>1, <3>2, <3>3, <4>1, <4>2, <4>3, Zenon DEF QueueInv, QueueShape, UnaskedUnanswered
      <4>7. OpenIsAnswered'
        BY <2>0, <3>1, <3>2, <3>3, <4>1, <4>2, <4>3, Zenon DEF QueueInv, QueueShape, OpenIsAnswered
      <4> QED
        BY <4>4, <4>5, <4>6, <4>7, Zenon DEF QueueInv
    <3>5. CASE c \notin gaveUp
      <4>1. Served' = {c} /\ letter' = letter
        BY <2>3, <3>5, Zenon DEF Served
      <4> HIDE DEF c
      <4>2. QueueShape'
        BY <2>0, <3>1, <3>2, <4>1, Zenon DEF QueueInv, QueueShape
      <4>3. QueuedUnanswered'
        BY <2>0, <3>1, <3>2, <4>1, Zenon DEF QueueInv, QueueShape, QueuedUnanswered
      <4>4. UnaskedUnanswered'
        BY <2>0, <3>1, <3>2, <4>1, Zenon DEF QueueInv, QueueShape, UnaskedUnanswered
      <4>5. OpenIsAnswered'
        BY <2>0, <3>1, <3>2, <4>1, Zenon DEF QueueInv, QueueShape, OpenIsAnswered
      <4> QED
        BY <4>2, <4>3, <4>4, <4>5, Zenon DEF QueueInv
    <3> QED
      BY <3>4, <3>5, Zenon
  <2> QED
    BY <1>3, <2>1, <2>2, <2>3, Zenon DEF OwnerIdle
<1>4. CASE OpenCancelled
  <2>1. /\ owner = "opening" /\ owner' = "grace"
        /\ UNCHANGED <<dial, got, mailbox, serving1, letter, channels, gaveUp, shut>>
    BY <1>4, Zenon DEF OpenCancelled, callerVars
  <2>2. UNCHANGED <<Served, Range(mailbox)>>
    BY <2>1, Zenon DEF Served
  <2>3. QueueShape'
    BY <2>1, <2>2, Zenon DEF QueueInv, QueueShape
  <2>4. QueuedUnanswered'
    BY <2>1, <2>2, Zenon DEF QueueInv, QueueShape, QueuedUnanswered
  <2>5. UnaskedUnanswered'
    BY <2>1, <2>2, Zenon DEF QueueInv, QueueShape, UnaskedUnanswered
  <2>6. OpenIsAnswered'
    BY <2>1, <2>2, Zenon DEF QueueInv, QueueShape, OpenIsAnswered
  <2> QED
    BY <2>3, <2>4, <2>5, <2>6, Zenon DEF QueueInv
<1>5. CASE GraceOver1
  <2>1. /\ serving1 \in Served /\ Served' = {} /\ letter' = [letter EXCEPT ![serving1] = "cancelled"]
        /\ UNCHANGED <<dial, got, mailbox, channels, gaveUp, shut>>
    BY <1>5, Zenon DEF GraceOver1, Respond, Served, callerVars
  <2> QED
    BY <2>1, AnswerKeeps, Zenon
<1>6. CASE OpenAnswered
  <2>1. PICK result \in {"channel", "error"} :
            /\ Settle(serving1, IF owner = "grace" THEN "cancelled" ELSE result)
            /\ channels' = channels \cup LeftOpen(result)
    BY <1>6, Zenon DEF OpenAnswered
  <2>2. /\ serving1 \in Served /\ Served' = {} /\ UNCHANGED <<dial, got, mailbox, gaveUp, shut>>
        /\ letter' = [letter EXCEPT ![serving1] = IF owner = "grace" THEN "cancelled" ELSE result]
    BY <1>6, <2>1, Zenon DEF OpenAnswered, Settle, Respond, Served, callerVars
  <2>3. channels' = channels \/ (channels' = channels \cup {serving1} /\ result = "channel" /\ owner = "opening")
    BY <2>1, Zenon DEF LeftOpen
  <2> QED
    BY <2>2, <2>3, AnswerKeeps, Zenon
<1>7. CASE OpenShut
  <2>1. owner = "opening" /\ serving1 \in Served /\ Served' = {} /\ UNCHANGED <<dial, got, channels, gaveUp, shut>>
    BY <1>7, Zenon DEF OpenShut, Served, callerVars
  <2>2. CASE serving1 \notin Sessions
    BY <1>7, <2>1, <2>2, AnswerKeeps, Zenon DEF OpenShut, Respond
  <2>3. CASE serving1 \in Sessions
    <3>1. mailbox' = <<>> /\ letter' = [[c \in Callers |-> IF c \in Range(mailbox) THEN "closed" ELSE letter[c]]
                                           EXCEPT ![serving1] = "closed"]
      BY <1>7, <2>3, Zenon DEF OpenShut
    <3>0. mailbox' = <<>>
      BY <3>1, Zenon
    <3>2. (Range(mailbox) = {} /\ Distinct(mailbox) /\ mailbox \in Seq(Callers))'
      BY <3>0, EmptyMailbox, Zenon
    <3>3. \A c \in channels : c \notin Range(mailbox) /\ c \in Callers /\ c # serving1
      BY <2>1, Zenon DEF QueueInv, QueueShape, QueuedUnanswered, OpenIsAnswered
    <3>4. \A c \in Callers : dial[c] \in {"idle", "sending"} => c \notin Range(mailbox) /\ c # serving1
      BY <2>1, OutsideQueue, Zenon
    <3>5. DOMAIN letter' = Callers /\ \A c \in Callers \ Range(mailbox) : c # serving1 => letter'[c] = letter[c]
      BY <3>1, Zenon DEF QueueInv, QueueShape
    <3>6. QueueShape'
      BY <2>1, <3>2, <3>3, <3>4, <3>5, Zenon DEF QueueInv, QueueShape
    <3>7. QueuedUnanswered'
      BY <2>1, <3>2, <3>3, <3>4, <3>5, Zenon DEF QueueInv, QueueShape, QueuedUnanswered
    <3>8. UnaskedUnanswered'
      BY <2>1, <3>2, <3>3, <3>4, <3>5, Zenon DEF QueueInv, QueueShape, UnaskedUnanswered
    <3>9. OpenIsAnswered'
      BY <2>1, <3>2, <3>3, <3>4, <3>5, Zenon DEF QueueInv, QueueShape, OpenIsAnswered
    <3> QED
      BY <3>6, <3>7, <3>8, <3>9, Zenon DEF QueueInv
  <2> QED
    BY <2>2, <2>3, Zenon
<1> QED
  BY <1>2, <1>3, <1>4, <1>5, <1>6, <1>7, Zenon DEF OwnerStep

\* Every step keeps each caller in its place.
LEMMA QueueKeeps == QueueInv /\ [SshNext]_sshVars => QueueInv'
<1> SUFFICES ASSUME QueueInv, [SshNext]_sshVars PROVE QueueInv'
  OBVIOUS
<1>1. CASE ConnectStep \/ LoseConnection \/ CloseClient \/ UNCHANGED sshVars
  <2>1. /\ UNCHANGED <<dial, got, mailbox, owner, serving1, letter, gaveUp>>
        /\ channels' \subseteq channels /\ (shut => shut')
    <3>1. CASE ConnectStep
      <4>1. UNCHANGED clientVars
        BY <3>1, Zenon DEF ConnectStep, ConnectAgent, NoAgent, DialTransport, AgentAuth, LoadKey, KeyAuth, KeyDialFails,
               Retired, Connecting, RetireTransport
      <4> QED
        BY <4>1, Zenon DEF clientVars
    <3>2. CASE LoseConnection \/ CloseClient \/ UNCHANGED sshVars
      BY <3>2 DEF LoseConnection, CloseClient, sshVars, callerVars, ownerVars
    <3> QED
      BY <1>1, <3>1, <3>2, Zenon
  <2>2. UNCHANGED <<Served, Range(mailbox)>>
    BY <2>1, Zenon DEF Served
  <2>3. QueueShape'
    BY <2>1, <2>2, Zenon DEF QueueInv, QueueShape
  <2>4. QueuedUnanswered'
    BY <2>1, <2>2, Zenon DEF QueueInv, QueueShape, QueuedUnanswered
  <2>5. UnaskedUnanswered'
    BY <2>1, <2>2, Zenon DEF QueueInv, QueueShape, UnaskedUnanswered
  <2>6. OpenIsAnswered'
    BY <2>1, <2>2, Zenon DEF QueueInv, QueueShape, OpenIsAnswered
  <2> QED
    BY <2>3, <2>4, <2>5, <2>6, Zenon DEF QueueInv
<1>2. CASE CloseReturns
  <2>0. UNCHANGED <<dial, got, gaveUp, shut>>
    BY <1>2, Zenon DEF CloseReturns, callerVars
  <2>1. CASE owner = "ended"
    <3>1. UNCHANGED <<owner, letter, mailbox, serving1, channels>>
      BY <1>2, <2>1, Zenon DEF CloseReturns
    <3>2. UNCHANGED <<Served, Range(mailbox)>>
      BY <3>1, Zenon DEF Served
    <3>3. QueueShape'
      BY <2>0, <3>1, <3>2, Zenon DEF QueueInv, QueueShape
    <3>4. QueuedUnanswered'
      BY <2>0, <3>1, <3>2, Zenon DEF QueueInv, QueueShape, QueuedUnanswered
    <3>5. UnaskedUnanswered'
      BY <2>0, <3>1, <3>2, Zenon DEF QueueInv, QueueShape, UnaskedUnanswered
    <3>6. OpenIsAnswered'
      BY <2>0, <3>1, <3>2, Zenon DEF QueueInv, QueueShape, OpenIsAnswered
    <3> QED
      BY <3>3, <3>4, <3>5, <3>6, Zenon DEF QueueInv
  <2>2. CASE owner # "ended"
    <3>1. /\ owner' = "ended" /\ mailbox' = <<>> /\ channels' = {}
          /\ letter' = [c \in Callers |-> IF c = serving1 /\ letter[c] = "none" THEN "dropped" ELSE DropMail[c]]
      BY <1>2, <2>2, Zenon DEF CloseReturns
    <3>2. DOMAIN letter' = Callers
      BY <3>1, Zenon DEF QueueInv, QueueShape, DropMail
    <3> QED
      BY <2>0, <3>1, <3>2, EndKeeps, Zenon
  <2> QED
    BY <2>1, <2>2, Zenon
<1> QED
  BY <1>1, <1>2, CallerKeeps, OwnerKeeps, Zenon DEF SshNext

\* For any callers and identities: connect has one transport open at a time and
\* leaves none behind when it fails, the connection never carries two opens, and a
\* channel that is open was offered to its caller, whoever cancels and whenever the
\* server answers (connect and connection_owner).
THEOREM ConnectionAlwaysTidy == SshInit /\ [][SshNext]_sshVars => []ConnectionIsTidy
<1>1. SshInv /\ QueueInv => ConnectionIsTidy
  BY DEF SshInv, QueueInv, OpenIsAnswered, ConnectionIsTidy
<1> QED
  BY <1>1, SshInitInv, SshKeeps, QueueInitInv, QueueKeeps, PTL

\* The invariant of the supervision: a pipe the loop has closed was read to
\* its end, which cannot move any more; a writer that has ended took all.
CliInv ==
    /\ wrote \in [Streams -> Int] /\ read \in [Streams -> Int] /\ written \in [Streams -> Int]
    /\ writer \in [Streams -> {"copying", "ok", "failed"}]
    /\ \A s \in Streams \ opened : s \notin ends /\ read[s] = wrote[s]
    /\ \A s \in Streams : writer[s] = "ok" => written[s] = read[s] /\ cli \in {"finish", "returned"}
    /\ cli = "finish" => opened = {} /\ writers
    /\ verdict \in {"ok", "exit"} =>
          /\ cli = "returned" /\ opened = {}
          /\ writers => \A s \in Streams : writer[s] = "ok"
    /\ cli # "returned" => verdict = "none"

\* Before the process is spawned.
LEMMA CliInitInv == CliInit => CliInv
  BY DEF CliInit, CliInv

\* What is left, added to what was read, is all.
LEMMA RestIsAll == ASSUME NEW a \in Int, NEW b \in Int PROVE a + (b - a) = b
  OBVIOUS

\* A round of the loop reads each pipe up to the limit, and closes it at its end.
LEMMA PollKeeps == CliInv /\ PollPipes => CliInv'
<1> SUFFICES ASSUME CliInv, PollPipes PROVE CliInv'
  OBVIOUS
<1>1. /\ cli = "poll" /\ UNCHANGED <<writers, process, ends, wrote, writer, written, stop, exitSeen>>
      /\ \A s \in Streams : writer[s] # "ok"
      /\ verdict = "none" /\ verdict' \in {"none", "write", "interrupt"}
      /\ cli' \in {"wait", "returned"} /\ (cli' # "returned" => verdict' = "none")
  BY Zenon DEF CliInv, PollPipes, Give, worldVars, loopVars
<1>2. read' \in [Streams -> Int] /\ \A s \in Streams \ opened' : s \notin ends' /\ read'[s] = wrote'[s]
  <2>1. CASE UNCHANGED <<read, opened>>
    BY <1>1, <2>1, Zenon DEF CliInv
  <2>2. CASE read' = [s \in Streams |-> read[s] + Take(s)] /\ opened' = {s \in opened : ~PipeAtEof(s)}
    <3>1. ASSUME NEW s \in Streams
          PROVE  read'[s] = read[s] + Take(s) /\ Take(s) \in Int /\ read[s] \in Int /\ wrote[s] \in Int
      <4>1. read[s] \in Int /\ wrote[s] \in Int
        BY Zenon DEF CliInv
      <4>2. Take(s) \in Int
        BY <4>1, CliAssumption DEF Take, Unread
      <4> QED
        BY <2>2, <4>1, <4>2, Zenon
    <3>2. read' \in [Streams -> Int]
      BY <2>2, <3>1
    <3>3. ASSUME NEW s \in Streams \ opened' PROVE s \notin ends /\ read'[s] = wrote[s]
      <4>0. read'[s] = read[s] + Take(s) /\ read[s] \in Int /\ wrote[s] \in Int
        BY <3>1, Zenon
      <4>1. CASE s \notin opened
        <5>1. Take(s) = 0 /\ s \notin ends /\ read[s] = wrote[s]
          BY <4>1, Zenon DEF Take, CliInv
        <5> QED
          BY <4>0, <5>1
      <4>2. CASE s \in opened
        <5>1. PipeAtEof(s)
          BY <2>2, <4>2, Zenon
        <5>2. s \notin ends /\ Take(s) = wrote[s] - read[s]
          BY <4>2, <5>1, Zenon DEF PipeAtEof, Take, Unread
        <5>3. read[s] + (wrote[s] - read[s]) = wrote[s]
          BY <4>0, RestIsAll, Zenon
        <5> QED
          BY <4>0, <5>2, <5>3, Zenon
      <4> QED
        BY <4>1, <4>2, Zenon
    <3> QED
      BY <1>1, <3>2, <3>3, Zenon
  <2> QED
    BY <2>1, <2>2, Zenon DEF PollPipes, loopVars
<1> QED
  BY <1>1, <1>2, Zenon DEF CliInv

\* The loop looks at the process, its deadlines and its pipes.
LEMMA WaitKeeps == CliInv /\ WaitChild => CliInv'
<1> SUFFICES ASSUME CliInv, WaitChild PROVE CliInv'
  OBVIOUS
<1>1. /\ cli = "wait" /\ UNCHANGED <<writers, ends, wrote, read, opened, writer, written, stop>>
      /\ \A s \in Streams : writer[s] # "ok"
      /\ verdict = "none"
  BY Zenon DEF CliInv, WaitChild
<1>2. \/ cli' = "finish" /\ opened = {} /\ writers /\ UNCHANGED verdict
      \/ cli' = "returned" /\ opened = {} /\ ~writers /\ verdict' \in {"ok", "exit"}
      \/ cli' = "returned" /\ verdict' \in {"cancelled", "pipes"}
      \/ cli' = "poll" /\ UNCHANGED verdict
  BY Zenon DEF WaitChild, Give
<1> QED
  BY <1>1, <1>2, Zenon DEF CliInv

\* A writer thread copies a chunk, or ends.
LEMMA WriterKeeps ==
    ASSUME CliInv, NEW s \in Streams, WriterStep(s)
    PROVE  CliInv'
<1>1. /\ writers /\ cli # "idle" /\ writer[s] = "copying"
      /\ UNCHANGED <<cli, verdict, writers, ends, wrote, read, opened>>
      /\ written[s] \in Int
  BY Zenon DEF WriterStep, worldVars, loopVars, CliInv
<1>2. CASE UNCHANGED written
  <2>0. written' # [written EXCEPT ![s] = @ + 1]
    BY <1>1, <1>2 DEF CliInv
  <2>1. \/ writer' = [writer EXCEPT ![s] = "failed"]
        \/ writer' = [writer EXCEPT ![s] = "ok"] /\ written[s] = read[s] /\ cli \in {"finish", "returned"}
    BY <2>0, Zenon DEF WriterStep
  <2> QED
    BY <1>1, <1>2, <2>1, Zenon DEF CliInv
<1>3. CASE written' = [written EXCEPT ![s] = @ + 1] /\ UNCHANGED writer
  <2>1. written' \in [Streams -> Int] /\ \A t \in Streams \ {s} : written'[t] = written[t]
    BY <1>3 DEF CliInv
  <2> QED
    BY <1>1, <1>3, <2>1, Zenon DEF CliInv
<1> QED
  BY <1>2, <1>3, Zenon DEF WriterStep

\* Every step of the loop, its writers and the process keeps the invariant.
LEMMA CliKeeps == CliInv /\ [CliNext]_cliVars => CliInv'
<1> SUFFICES ASSUME CliInv, [CliNext]_cliVars PROVE CliInv'
  OBVIOUS
<1>1. CASE Spawn
  BY <1>1, Zenon DEF CliInv, Spawn, loopVars
<1>2. CASE Exit \/ CancelCommand \/ DropChild \/ ThreadWaits \/ UNCHANGED cliVars
  <2>1. ends' \subseteq ends /\ UNCHANGED <<cli, verdict, writers, wrote, read, opened, writer, written>>
    BY <1>2, Zenon DEF Exit, CancelCommand, DropChild, ThreadWaits, cliVars, worldVars, loopVars
  <2> QED
    BY <2>1, Zenon DEF CliInv
<1>3. CASE CliIoError
  BY <1>3, Zenon DEF CliInv, CliIoError, Give, worldVars, loopVars
<1>4. CASE FinishWriters
  <2>1. cli = "finish" /\ cli' = "returned" /\ UNCHANGED <<writers, ends, wrote, read, opened, writer, written>>
    BY <1>4, Zenon DEF FinishWriters, Give, worldVars, loopVars
  <2>2. verdict' = "write" \/ \A s \in Streams : writer[s] = "ok"
    BY <1>4, Zenon DEF FinishWriters, Give
  <2> QED
    BY <2>1, <2>2, Zenon DEF CliInv
<1>5. ASSUME NEW s \in Streams, Output(s) PROVE CliInv'
  <2>1. /\ s \in ends /\ wrote' = [wrote EXCEPT ![s] = @ + 1]
        /\ UNCHANGED <<cli, verdict, writers, ends, read, opened, writer, written>>
    BY <1>5, Zenon DEF Output, loopVars
  <2>2. wrote' \in [Streams -> Int] /\ \A t \in Streams \ {s} : wrote'[t] = wrote[t]
    BY <2>1 DEF CliInv
  <2> QED
    BY <2>1, <2>2, Zenon DEF CliInv
<1>6. ASSUME NEW s \in Streams, ClosePipe(s) PROVE CliInv'
  BY <1>6, Zenon DEF CliInv, ClosePipe, loopVars
<1>7. ASSUME NEW g \in DOMAIN NoGrace, GraceOver(g) PROVE CliInv'
  BY <1>7, Zenon DEF CliInv, GraceOver, worldVars
<1> QED
  BY <1>1, <1>2, <1>3, <1>4, <1>5, <1>6, <1>7, PollKeeps, WaitKeeps, WriterKeeps, Zenon DEF CliNext, CliStep

\* For any streams and any limit of reads in one round: a command that is reported
\* with its exit status had its pipes read to their ends, and its writers took all
\* that was read (SshCliRemote::stream and its supervision loop).
THEOREM OutputAlwaysWhole == CliInit /\ [][CliNext]_cliVars => []OutputIsWhole
<1>1. CliInv => OutputIsWhole
  BY Zenon DEF CliInv, OutputIsWhole
<1> QED
  BY <1>1, CliInitInv, CliKeeps, PTL

\* For every value of the constants, the three together: a command over ssh is only
\* reported as done when it succeeded and its output was passed on, it has closed its
\* session when it returns, and no transport, answer or late channel is left over,
\* however their steps interleave.
THEOREM CommandsAlwaysTrue ==
    /\ CliInit /\ [][CliNext]_cliVars
    /\ SshInit /\ [][SshNext]_sshVars
    /\ RemoteInit /\ [][RemoteNext]_remoteVars
    => []CommandsAreTrue
<1>1. OutputIsWhole /\ OkMeansSuccess /\ SessionIsClosed /\ ConnectionIsTidy => CommandsAreTrue
  BY Zenon DEF CommandsAreTrue
<1> QED
  BY <1>1, OutputAlwaysWhole, OkAlwaysSuccess, SessionAlwaysClosed, ConnectionAlwaysTidy, PTL
=============================================================================
