--------------------------- MODULE BroadcastProofs ---------------------------
(***************************************************************************)
(* AnswersAreWhole for any finite set of machines and any capacity of the  *)
(* channel. Broadcast: what a machine was told lies, without a gap, in the *)
(* merged entries, on the way and in its task's outbox; the call counts the*)
(* tasks whose last event it has collected, so that an answer given when   *)
(* all are counted misses nothing. Forward: what the backend sent lies, in *)
(* order, with the frontend, in the channel and in the hand of the task.   *)
(***************************************************************************)
EXTENDS Broadcast, FiniteSetTheorems, SequenceTheorems, TLAPS

\* What a machine can have in the merged answer, what a task can send, and what a
\* backend can have told it.
Entries == {"payload", "error", "late"}
Events == Entries \cup {"fatal", "finished"}
Told == Entries \cup {"fatal", "end"}

\* A task b with outbox o, events e on the way, history g and entries m.
TaskOK(b, o, e, g) ==
    /\ b \in {"connect", "stream", "ending", "done"}
    /\ Len(o) <= 1 /\ (b = "done" => Len(o) = 0)
    /\ \A i \in 1..Len(o) : o[i] # "finished"
    /\ \A i \in 1..Len(e) : e[i] = "finished" <=> (b = "done" /\ i = Len(e))
    /\ b \in {"connect", "stream"} => \A i \in 1..Len(g) : g[i] = "payload"
    /\ b \in {"ending", "done"} => Len(g) > 0 /\ g[Len(g)] \in Told \ {"payload"}

\* "finished" is on the way and is no entry; "end" is told and is no entry.
Finishing(b, e) == IF b = "done" /\ Len(e) > 0 THEN 1 ELSE 0
Ended(g) == IF Len(g) > 0 /\ g[Len(g)] = "end" THEN 1 ELSE 0

\* The entries, the events on the way and the outbox are together what was told.
FlowOK(b, o, e, g, m) ==
    /\ \A i \in 1..Len(m) : m[i] = g[i]
    /\ \A i \in 1..Len(e) : e[i] # "finished" => e[i] = g[Len(m) + i]
    /\ \A i \in 1..Len(o) : o[i] = g[Len(m) + Len(e) + i]
    /\ Len(m) + Len(e) + Len(o) - Finishing(b, e) = Len(g) - Ended(g)

\* The entries m have all that was told, to the end or to a failure.
Whole(g, m) ==
    \/ g = Append(m, "end")
    \/ g = m /\ Len(g) > 0 /\ g[Len(g)] \in {"error", "late"}

\* The task of a machine has sent "finished" and it has been collected.
Over(t) == backend[t] = "done" /\ Len(events[t]) = 0
Done == {t \in Targets : Over(t)}
Task(t) == TaskOK(backend[t], outbox[t], events[t], told[t])
Flow(t) == FlowOK(backend[t], outbox[t], events[t], told[t], merged[t])

\* While the call collects, completed counts the tasks that are over. A fatal event
\* is no entry, so that the flow is whole only while there were no failures.
Collecting ==
    /\ completed = Cardinality(Done)
    /\ \A t \in Targets : Task(t)
    /\ failures = 0 => \A t \in Targets : Flow(t)

\* What the variables of the tasks and of the call range over.
EventTypes ==
    /\ backend \in [Targets -> {"connect", "stream", "ending", "done", "aborted"}]
    /\ outbox \in [Targets -> Seq(Events)] /\ events \in [Targets -> Seq(Events)]
    /\ told \in [Targets -> Seq(Told)] /\ merged \in [Targets -> Seq(Entries)]
    /\ failures \in Nat

\* Only a call that is past its deadline was told so.
Late(g) == Len(g) > 0 /\ g[Len(g)] = "late"
LateIsLate == \A t \in Targets : Late(told[t]) => timed = "after"

\* Tasks send what they are told in order and "finished" last; an answer is merged
\* when all of it has been collected.
BroadcastInv ==
    /\ EventTypes /\ LateIsLate
    /\ answer \in {"none", "open"} => Collecting
    /\ answer = "merged" => \A t \in Targets : Whole(told[t], merged[t])
    /\ shown = "merged" => answer = "merged" /\ timed # "after"

\* What Append adds is the last element.
LEMMA AppendedLast ==
    ASSUME NEW S, NEW s \in Seq(S), NEW x
    PROVE  Append(s, x)[Len(Append(s, x))] = x
  OBVIOUS

\* A task that has not begun.
LEMMA EmptyTask == TaskOK("connect", <<>>, <<>>, <<>>) /\ FlowOK("connect", <<>>, <<>>, <<>>, <<>>)
<1>1. Len(<<>>) = 0
  BY EmptySeq
<1>2. \A i \in 1..Len(<<>>) : FALSE
  BY <1>1
<1> QED
  BY <1>1, <1>2 DEF TaskOK, FlowOK, Finishing, Ended

\* Before a call no task has begun.
LEMMA BroadcastInitInv == BroadcastInit => BroadcastInv
<1> SUFFICES ASSUME BroadcastInit PROVE BroadcastInv
  OBVIOUS
<1>1. \A t \in Targets : /\ backend[t] = "connect" /\ outbox[t] = <<>> /\ events[t] = <<>>
                         /\ told[t] = <<>> /\ merged[t] = <<>>
  BY Zenon DEF BroadcastInit
<1>2. Done = {} /\ Cardinality({}) = 0
  BY <1>1, FS_EmptySet DEF Done, Over
<1>3. EventTypes
  <2>1. <<>> \in Seq(Events) /\ <<>> \in Seq(Told) /\ <<>> \in Seq(Entries)
    BY EmptySeq
  <2> QED
    BY <2>1, Zenon DEF BroadcastInit, EventTypes
<1>4. Collecting
  BY <1>1, <1>2, EmptyTask, Zenon DEF Collecting, BroadcastInit, Task, Flow
<1>5. LateIsLate
  BY <1>1, EmptySeq DEF LateIsLate, Late
<1> QED
  BY <1>3, <1>4, <1>5, Zenon DEF BroadcastInv, BroadcastInit

\* The events of one task, one lemma per step: it is told a payload or a failure.
LEMMA TaskTold ==
    ASSUME NEW b \in {"connect", "stream"}, NEW e \in Seq(Events), NEW g \in Seq(Told), NEW m \in Seq(Entries),
           TaskOK(b, <<>>, e, g),
           NEW kind \in {"payload", "fatal", "error", "late"}, NEW b2 \in {"stream", "ending"},
           b2 = "stream" <=> kind = "payload"
    PROVE  /\ TaskOK(b2, <<kind>>, e, Append(g, kind))
           /\ FlowOK(b, <<>>, e, g, m) => FlowOK(b2, <<kind>>, e, Append(g, kind), m)
<1>1. /\ Len(e) \in Nat /\ Len(g) \in Nat /\ Len(m) \in Nat /\ kind \in Events /\ kind \in Told
      /\ \A i \in 1..Len(e) : e[i] # "finished"
      /\ \A i \in 1..Len(g) : g[i] = "payload"
  BY LenProperties DEF TaskOK, Events, Told, Entries
<1>2. <<kind>> \in Seq(Events) /\ Len(<<kind>>) = 1 /\ <<kind>>[1] = kind
  BY <1>1
<1>3. /\ Append(g, kind) \in Seq(Told) /\ Len(Append(g, kind)) = Len(g) + 1
      /\ \A i \in 1..Len(g) : Append(g, kind)[i] = g[i]
      /\ Append(g, kind)[Len(g) + 1] = kind
  BY <1>1, AppendProperties
<1> DEFINE h == Append(g, kind)
<1>4. b2 = "stream" => \A i \in 1..Len(h) : h[i] = "payload"
  BY <1>1, <1>3
<1>5. b2 = "ending" => Len(h) > 0 /\ h[Len(h)] \in Told \ {"payload"}
  BY <1>1, <1>3
<1>6. \A i \in 1..Len(<<kind>>) : <<kind>>[i] # "finished"
  BY <1>2
<1> HIDE DEF h
<1>7. TaskOK(b2, <<kind>>, e, h)
  BY <1>1, <1>2, <1>3, <1>4, <1>5, <1>6 DEF TaskOK, h
<1>8. ASSUME FlowOK(b, <<>>, e, g, m) PROVE FlowOK(b2, <<kind>>, e, h, m)
  <2>1. Len(m) + Len(e) = Len(g) /\ (\A i \in 1..Len(m) : m[i] = g[i])
        /\ \A i \in 1..Len(e) : e[i] = g[Len(m) + i]
    <3>1. Ended(g) = 0 /\ Finishing(b, e) = 0 /\ Len(<<>>) = 0
      BY <1>1, EmptySeq DEF Ended, Finishing
    <3> QED
      BY <1>1, <1>8, <3>1 DEF FlowOK
  <2>2. Len(h) = Len(g) + 1 /\ (\A i \in 1..Len(g) : h[i] = g[i]) /\ h[Len(g) + 1] = kind
    BY <1>3 DEF h
  <2>3. Ended(h) = 0 /\ Finishing(b2, e) = 0
    BY <1>1, <2>2 DEF Ended, Finishing
  <2>4. \A i \in 1..Len(m) : m[i] = h[i]
    BY <1>1, <2>1, <2>2
  <2>5. \A i \in 1..Len(e) : e[i] = h[Len(m) + i]
    <3>1. \A i \in 1..Len(e) : Len(m) + i \in 1..Len(g)
      BY <1>1, <2>1
    <3> QED
      BY <2>1, <2>2, <3>1
  <2>6. ASSUME NEW i \in 1..Len(<<kind>>) PROVE <<kind>>[i] = h[Len(m) + Len(e) + i]
    <3>1. i = 1 /\ Len(m) + Len(e) + i = Len(g) + 1
      BY <1>1, <1>2, <2>1
    <3> QED
      BY <1>2, <2>2, <3>1
  <2> QED
    BY <1>1, <1>2, <2>1, <2>2, <2>3, <2>4, <2>5, <2>6 DEF FlowOK
<1> QED
  BY <1>7, <1>8 DEF h

\* The backend ended its stream.
LEMMA TaskEnded ==
    ASSUME NEW e \in Seq(Events), NEW g \in Seq(Told), NEW m \in Seq(Entries), TaskOK("stream", <<>>, e, g)
    PROVE  /\ TaskOK("ending", <<>>, e, Append(g, "end"))
           /\ FlowOK("stream", <<>>, e, g, m) => FlowOK("ending", <<>>, e, Append(g, "end"), m)
<1>1. /\ Len(e) \in Nat /\ Len(g) \in Nat /\ Len(m) \in Nat /\ "end" \in Told /\ Len(<<>>) = 0
      /\ \A i \in 1..Len(e) : e[i] # "finished"
      /\ \A i \in 1..Len(g) : g[i] = "payload"
  BY LenProperties, EmptySeq DEF TaskOK, Told, Entries
<1> DEFINE h == Append(g, "end")
<1>2. /\ Len(h) = Len(g) + 1 /\ h[Len(g) + 1] = "end" /\ \A i \in 1..Len(g) : h[i] = g[i]
  BY <1>1, AppendProperties
<1> HIDE DEF h
<1>3. \A i \in 1..Len(<<>>) : FALSE
  BY <1>1
<1>4. TaskOK("ending", <<>>, e, h)
  BY <1>1, <1>2, <1>3 DEF TaskOK, Told
<1>5. ASSUME FlowOK("stream", <<>>, e, g, m) PROVE FlowOK("ending", <<>>, e, h, m)
  <2>1. Ended(g) = 0 /\ Ended(h) = 1 /\ Finishing("stream", e) = 0 /\ Finishing("ending", e) = 0
    BY <1>1, <1>2 DEF Ended, Finishing
  <2>2. /\ Len(m) + Len(e) = Len(g) /\ \A i \in 1..Len(m) : m[i] = g[i]
        /\ \A i \in 1..Len(e) : e[i] = g[Len(m) + i]
    BY <1>1, <1>5, <2>1 DEF FlowOK
  <2>3. \A i \in 1..Len(m) : m[i] = h[i]
    BY <1>1, <1>2, <2>2
  <2>4. \A i \in 1..Len(e) : e[i] = h[Len(m) + i]
    <3>1. \A i \in 1..Len(e) : Len(m) + i \in 1..Len(g)
      BY <1>1, <2>2
    <3> QED
      BY <1>2, <2>2, <3>1
  <2> QED
    BY <1>1, <1>2, <1>3, <2>1, <2>2, <2>3, <2>4 DEF FlowOK
<1> QED
  BY <1>4, <1>5 DEF h

\* The event in the outbox is sent.
LEMMA EventSent ==
    ASSUME NEW b, NEW o \in Seq(Events), NEW e \in Seq(Events), NEW g \in Seq(Told), NEW m \in Seq(Entries),
           TaskOK(b, o, e, g), o # <<>>
    PROVE  /\ TaskOK(b, Tail(o), Append(e, Head(o)), g) /\ b # "done"
           /\ FlowOK(b, o, e, g, m) => FlowOK(b, Tail(o), Append(e, Head(o)), g, m)
<1>1. /\ Len(e) \in Nat /\ Len(g) \in Nat /\ Len(m) \in Nat /\ Len(o) = 1 /\ b # "done"
      /\ Head(o) = o[1] /\ Head(o) \in Events /\ Head(o) # "finished" /\ Tail(o) \in Seq(Events) /\ Len(Tail(o)) = 0
      /\ \A i \in 1..Len(e) : e[i] # "finished"
  <2>1. Len(e) \in Nat /\ Len(g) \in Nat /\ Len(m) \in Nat /\ Len(o) \in Nat /\ Len(o) # 0
    BY LenProperties, EmptySeq
  <2>2. Len(o) = 1 /\ b # "done"
    <3>1. Len(o) <= 1 /\ (b = "done" => Len(o) = 0)
      BY DEF TaskOK
    <3>2. Len(o) = 1
      <4>1. \A k \in Nat : k # 0 /\ k <= 1 => k = 1
        OBVIOUS
      <4> QED
        BY <2>1, <3>1, <4>1, Zenon
    <3> QED
      BY <3>1, <3>2
  <2>3. Head(o) = o[1] /\ Head(o) \in Events /\ Tail(o) \in Seq(Events) /\ Len(Tail(o)) = 0
    BY <2>2, HeadTailProperties
  <2>4. Head(o) # "finished" /\ \A i \in 1..Len(e) : e[i] # "finished"
    BY <2>2, <2>3 DEF TaskOK
  <2> QED
    BY <2>1, <2>2, <2>3, <2>4
<1> DEFINE f == Append(e, Head(o))
           p == Tail(o)
<1>2. /\ Len(f) = Len(e) + 1 /\ f[Len(e) + 1] = Head(o) /\ \A i \in 1..Len(e) : f[i] = e[i]
  BY <1>1, AppendProperties
<1>p. Len(p) = 0
  BY <1>1
<1> HIDE DEF f, p
<1>3. ASSUME NEW i \in 1..Len(f) PROVE f[i] # "finished"
  <2>1. CASE i \in 1..Len(e)
    BY <1>1, <1>2, <2>1
  <2>2. CASE i = Len(e) + 1
    BY <1>1, <1>2, <2>2
  <2> QED
    BY <1>1, <1>2, <2>1, <2>2
<1>4. \A i \in 1..Len(p) : FALSE
  BY <1>p
<1>5. TaskOK(b, p, f, g)
  BY <1>1, <1>3, <1>4, <1>p DEF TaskOK
<1>6. ASSUME FlowOK(b, o, e, g, m) PROVE FlowOK(b, p, f, g, m)
  <2>1. Finishing(b, e) = 0 /\ Finishing(b, f) = 0
    BY <1>1 DEF Finishing
  <2>2. /\ Len(m) + Len(e) + 1 = Len(g) - Ended(g) /\ \A i \in 1..Len(m) : m[i] = g[i]
        /\ \A i \in 1..Len(e) : e[i] = g[Len(m) + i]
        /\ o[1] = g[Len(m) + Len(e) + 1]
    BY <1>1, <1>6, <2>1 DEF FlowOK
  <2>3. ASSUME NEW i \in 1..Len(f) PROVE f[i] = g[Len(m) + i]
    <3>1. CASE i \in 1..Len(e)
      BY <1>2, <2>2, <3>1
    <3>2. CASE i = Len(e) + 1
      <4>1. Len(m) + i = Len(m) + Len(e) + 1
        BY <1>1, <3>2
      <4> QED
        BY <1>1, <1>2, <2>2, <3>2, <4>1
    <3> QED
      BY <1>1, <1>2, <3>1, <3>2
  <2>4. Len(m) + Len(f) = Len(g) - Ended(g)
    <3>1. Ended(g) \in Int
      BY DEF Ended
    <3> QED
      BY <1>1, <1>2, <2>2, <3>1
  <2> QED
    BY <1>1, <1>2, <1>4, <1>p, <2>1, <2>2, <2>3, <2>4 DEF FlowOK
<1> QED
  BY <1>1, <1>5, <1>6 DEF f, p

\* The last thing a task sends.
LEMMA FinishedSent ==
    ASSUME NEW e \in Seq(Events), NEW g \in Seq(Told), NEW m \in Seq(Entries), TaskOK("ending", <<>>, e, g)
    PROVE  /\ TaskOK("done", <<>>, Append(e, "finished"), g)
           /\ FlowOK("ending", <<>>, e, g, m) => FlowOK("done", <<>>, Append(e, "finished"), g, m)
<1>1. /\ Len(e) \in Nat /\ Len(g) \in Nat /\ Len(m) \in Nat /\ Len(<<>>) = 0 /\ "finished" \in Events
      /\ \A i \in 1..Len(e) : e[i] # "finished"
      /\ Len(g) > 0 /\ g[Len(g)] \in Told \ {"payload"}
  BY LenProperties, EmptySeq DEF TaskOK, Events
<1> DEFINE f == Append(e, "finished")
<1>2. /\ Len(f) = Len(e) + 1 /\ f[Len(e) + 1] = "finished" /\ \A i \in 1..Len(e) : f[i] = e[i]
  BY <1>1, AppendProperties
<1> HIDE DEF f
<1>3. \A i \in 1..Len(f) : f[i] = "finished" <=> i = Len(f)
  BY <1>1, <1>2
<1>4. \A i \in 1..Len(<<>>) : FALSE
  BY <1>1
<1>5. TaskOK("done", <<>>, f, g)
  BY <1>1, <1>3, <1>4 DEF TaskOK
<1>6. ASSUME FlowOK("ending", <<>>, e, g, m) PROVE FlowOK("done", <<>>, f, g, m)
  <2>1. Finishing("ending", e) = 0 /\ Finishing("done", f) = 1 /\ Ended(g) \in Int
    BY <1>1, <1>2 DEF Finishing, Ended
  <2>2. /\ Len(m) + Len(e) = Len(g) - Ended(g) /\ \A i \in 1..Len(m) : m[i] = g[i]
        /\ \A i \in 1..Len(e) : e[i] = g[Len(m) + i]
    BY <1>1, <1>6, <2>1 DEF FlowOK
  <2>3. ASSUME NEW i \in 1..Len(f), f[i] # "finished" PROVE f[i] = g[Len(m) + i]
    <3>1. i \in 1..Len(e)
      BY <1>1, <1>2, <2>3
    <3> QED
      BY <1>2, <2>2, <3>1
  <2>4. Len(m) + Len(f) + Len(<<>>) - Finishing("done", f) = Len(g) - Ended(g)
    BY <1>1, <1>2, <2>1, <2>2
  <2> QED
    BY <1>4, <2>2, <2>3, <2>4 DEF FlowOK
<1> QED
  BY <1>5, <1>6 DEF f

\* The entries of a machine with those of an event.
More(m, event) == IF event \in Entries THEN Append(m, event) ELSE m

\* The first event on the way is collected.
LEMMA EventCollected ==
    ASSUME NEW b, NEW o \in Seq(Events), NEW e \in Seq(Events), NEW g \in Seq(Told), NEW m \in Seq(Entries),
           TaskOK(b, o, e, g), e # <<>>
    PROVE  /\ TaskOK(b, o, Tail(e), g) /\ Tail(e) \in Seq(Events) /\ More(m, Head(e)) \in Seq(Entries)
           /\ (b = "done" /\ Len(Tail(e)) = 0) <=> Head(e) = "finished"
           /\ FlowOK(b, o, e, g, m) /\ Head(e) # "fatal" => FlowOK(b, o, Tail(e), g, More(m, Head(e)))
<1>1. /\ Len(e) \in Nat /\ Len(g) \in Nat /\ Len(m) \in Nat /\ Len(o) \in Nat /\ Len(e) > 0
      /\ Head(e) = e[1] /\ Head(e) \in Events
      /\ Tail(e) \in Seq(Events) /\ Len(Tail(e)) = Len(e) - 1
      /\ \A i \in 1..Len(Tail(e)) : Tail(e)[i] = e[i + 1]
  BY LenProperties, EmptySeq, HeadTailProperties
<1> DEFINE f == Tail(e)
           n == More(m, Head(e))
<1>n. n = IF Head(e) \in Entries THEN Append(m, Head(e)) ELSE m
  BY DEF More
<1> HIDE DEF n
<1>2. /\ b \in {"connect", "stream", "ending", "done"}
      /\ b = "done" => Len(o) = 0
      /\ \A i \in 1..Len(e) : e[i] = "finished" <=> (b = "done" /\ i = Len(e))
  BY DEF TaskOK
<1>o. b = "done" => Len(o) = 0
  BY DEF TaskOK
<1>3. (b = "done" /\ Len(f) = 0) <=> e[1] = "finished"
  <2>1. 1 \in 1..Len(e) /\ (Len(f) = 0 <=> 1 = Len(e))
    BY <1>1
  <2> HIDE DEF f
  <2>2. e[1] = "finished" <=> (b = "done" /\ 1 = Len(e))
    BY <1>2, <2>1, Zenon
  <2> QED
    BY <2>1, <2>2
<1>4. ASSUME NEW i \in 1..Len(f) PROVE f[i] = "finished" <=> (b = "done" /\ i = Len(f))
  <2>1. f[i] = e[i + 1] /\ i + 1 \in 1..Len(e)
    BY <1>1
  <2>2. (i + 1 = Len(e)) <=> (i = Len(f))
    BY <1>1
  <2> QED
    BY <1>2, <2>1, <2>2
<1>f. /\ Len(f) = Len(e) - 1 /\ f \in Seq(Events)
      /\ \A i \in 1..Len(f) : f[i] = e[i + 1]
  BY <1>1
<1>l. Len(e) \in Nat /\ Len(f) = Len(e) - 1
  BY <1>1
<1> HIDE DEF f
<1>5. TaskOK(b, o, f, g)
  BY <1>4 DEF TaskOK
<1>6. n \in Seq(Entries) /\ Len(n) \in Nat
  <2>1. CASE Head(e) \in Entries
    BY <1>n, <2>1, AppendProperties, LenProperties
  <2>2. CASE Head(e) \notin Entries
    BY <1>1, <1>n, <2>2
  <2> QED
    BY <2>1, <2>2
<1>7. ASSUME FlowOK(b, o, e, g, m), Head(e) # "fatal" PROVE FlowOK(b, o, f, g, n)
  <2>1. /\ \A i \in 1..Len(m) : m[i] = g[i]
        /\ \A i \in 1..Len(e) : e[i] # "finished" => e[i] = g[Len(m) + i]
        /\ \A i \in 1..Len(o) : o[i] = g[Len(m) + Len(e) + i]
        /\ Len(m) + Len(e) + Len(o) - Finishing(b, e) = Len(g) - Ended(g)
        /\ Ended(g) \in Int /\ Finishing(b, e) \in Int /\ Finishing(b, f) \in Int
    BY <1>7 DEF FlowOK, Finishing, Ended
  <2>2. CASE e[1] = "finished"
    <3>1. Head(e) \notin Entries
      BY <1>1, <2>2 DEF Entries
    <3>2. n = m
      BY <1>n, <3>1
    <3>3. b = "done" /\ Len(f) = 0
      BY <1>3, <2>2
    <3>4. Len(e) = 1
      BY <1>l, <3>3
    <3>5. Len(o) = 0
      BY <1>o, <3>3
    <3>6. Finishing(b, e) = 1 /\ Finishing(b, f) = 0
      BY <3>3, <3>4 DEF Finishing
    <3>7. (\A i \in 1..Len(f) : FALSE) /\ (\A i \in 1..Len(o) : FALSE)
      BY <3>3, <3>5
    <3>8. Len(m) + Len(f) + Len(o) - Finishing(b, f) = Len(g) - Ended(g)
      BY <1>1, <2>1, <3>3, <3>4, <3>5, <3>6
    <3> QED
      BY <2>1, <3>2, <3>7, <3>8, Zenon DEF FlowOK
  <2>3. CASE e[1] # "finished"
    <3>1. /\ n = Append(m, e[1]) /\ e[1] \in Entries
      BY <1>1, <1>7, <1>n, <2>3 DEF Entries, Events
    <3>2. /\ Len(n) = Len(m) + 1 /\ n[Len(m) + 1] = e[1] /\ \A i \in 1..Len(m) : n[i] = m[i]
      BY <3>1, AppendProperties
    <3>3. e[1] = g[Len(m) + 1]
      BY <1>1, <2>1, <2>3
    <3>4. ASSUME NEW i \in 1..Len(n) PROVE n[i] = g[i]
      <4>1. CASE i \in 1..Len(m)
        BY <2>1, <3>2, <4>1
      <4>2. CASE i = Len(m) + 1
        BY <3>2, <3>3, <4>2
      <4>3. Len(m) \in Nat /\ Len(n) = Len(m) + 1
        BY <1>1, <3>2
      <4>4. i \in 1..Len(m) \/ i = Len(m) + 1
        BY <4>3
      <4> QED
        BY <4>1, <4>2, <4>4
    <3>5. ASSUME NEW i \in 1..Len(f), f[i] # "finished" PROVE f[i] = g[Len(n) + i]
      <4>1. f[i] = e[i + 1] /\ i + 1 \in 1..Len(e)
        BY <1>1, <1>f
      <4>2. Len(n) + i = Len(m) + (i + 1)
        BY <1>1, <3>2
      <4> QED
        BY <2>1, <3>5, <4>1, <4>2, Zenon
    <3>6. ASSUME NEW i \in 1..Len(o) PROVE o[i] = g[Len(n) + Len(f) + i]
      <4>1. Len(n) + Len(f) + i = Len(m) + Len(e) + i
        BY <1>1, <1>f, <3>2
      <4> QED
        BY <2>1, <4>1
    <3>7. Finishing(b, f) = Finishing(b, e)
      <4>1. b = "done" => Len(f) > 0
        BY <1>1, <1>3, <1>f, <2>3
      <4> QED
        BY <1>1, <4>1 DEF Finishing
    <3>8. Len(n) + Len(f) + Len(o) - Finishing(b, f) = Len(g) - Ended(g)
      BY <1>1, <1>f, <2>1, <3>2, <3>7
    <3> QED
      BY <3>4, <3>5, <3>6, <3>8 DEF FlowOK
  <2> QED
    BY <2>2, <2>3
<1> QED
  BY <1>1, <1>3, <1>5, <1>6, <1>7, <1>f DEF f, n

\* When every task is done and every event collected, nothing is missing.
LEMMA AllIsWhole ==
    ASSUME NEW e, NEW o, NEW g \in Seq(Told), NEW m \in Seq(Entries),
           TaskOK("done", o, e, g), FlowOK("done", o, e, g, m), Len(e) = 0
    PROVE  Whole(g, m)
<1>1. /\ Len(o) = 0 /\ Len(g) > 0 /\ g[Len(g)] \in Told \ {"payload"}
      /\ Len(m) = Len(g) - Ended(g) /\ \A i \in 1..Len(m) : m[i] = g[i]
      /\ Len(g) \in Nat /\ Len(m) \in Nat
  <2>1. Len(g) \in Nat /\ Len(m) \in Nat
    BY LenProperties
  <2>2. Finishing("done", e) = 0 /\ Ended(g) \in Int
    BY DEF Finishing, Ended
  <2>3. Len(o) = 0 /\ Len(g) > 0 /\ g[Len(g)] \in Told \ {"payload"}
    BY DEF TaskOK
  <2>4. Len(m) + Len(e) + Len(o) - Finishing("done", e) = Len(g) - Ended(g) /\ \A i \in 1..Len(m) : m[i] = g[i]
    BY DEF FlowOK
  <2> QED
    BY <2>1, <2>2, <2>3, <2>4
<1>2. CASE g[Len(g)] = "end"
  <2>1. Len(m) + 1 = Len(g)
    BY <1>1, <1>2 DEF Ended
  <2>2. m \in Seq(Told) /\ "end" \in Told
    BY SeqMonotonic DEF Told
  <2>3. /\ Append(m, "end") \in Seq(Told) /\ Len(Append(m, "end")) = Len(m) + 1
        /\ \A i \in 1..Len(m) : Append(m, "end")[i] = m[i]
        /\ Append(m, "end")[Len(m) + 1] = "end"
    BY <2>2, AppendProperties
  <2>4. ASSUME NEW i \in 1..Len(g) PROVE g[i] = Append(m, "end")[i]
    <3>1. CASE i \in 1..Len(m)
      BY <1>1, <2>3, <3>1
    <3>2. CASE i = Len(m) + 1
      BY <1>2, <2>1, <2>3, <3>2
    <3> QED
      BY <1>1, <2>1, <3>1, <3>2
  <2>5. g = Append(m, "end")
    BY <2>1, <2>3, <2>4, SeqEqual
  <2> QED
    BY <2>5 DEF Whole
<1>3. CASE g[Len(g)] # "end"
  <2>1. Len(m) = Len(g)
    BY <1>1, <1>3 DEF Ended
  <2>2. m \in Seq(Told)
    BY SeqMonotonic DEF Told
  <2>3. g = m
    BY <1>1, <2>1, <2>2, SeqEqual
  <2>4. g[Len(g)] \in Entries
    BY <1>1, <2>3, ElementOfSeq
  <2> QED
    BY <1>1, <2>3, <2>4 DEF Whole, Entries
<1> QED
  BY <1>2, <1>3

\* The others stay as they are.
Same(t) ==
    /\ backend'[t] = backend[t] /\ outbox'[t] = outbox[t] /\ events'[t] = events[t]
    /\ told'[t] = told[t] /\ merged'[t] = merged[t]

\* A step of one task, or of its events, keeps the invariant when it keeps what the
\* invariant says of that task and counts it when it is over.
LEMMA TaskMoves ==
    ASSUME BroadcastInv, answer = "open", UNCHANGED <<answer, timed, shown>>, EventTypes', NEW t \in Targets,
           \A s \in Targets \ {t} : Same(s),
           Task(t)', failures' = 0 => failures = 0, failures' = 0 /\ Flow(t) => Flow(t)',
           Late(told[t])' => timed = "after" \/ Late(told[t]),
           Over(t) => Over(t)', completed' = IF Over(t)' /\ ~Over(t) THEN completed + 1 ELSE completed
    PROVE  BroadcastInv'
<1>1. Collecting /\ LateIsLate /\ shown # "merged" /\ shown' # "merged" /\ answer' = "open"
  BY DEF BroadcastInv
<1>2. \A s \in Targets : s # t => (Task(s)' <=> Task(s)) /\ (Flow(s)' <=> Flow(s)) /\ (Over(s)' <=> Over(s)) /\ told'[s] = told[s]
  BY DEF Same, Task, Flow, Over
<1>3. \A s \in Targets : Task(s)'
  BY <1>1, <1>2, Zenon DEF Collecting
<1>4. failures' = 0 => \A s \in Targets : Flow(s)'
  BY <1>1, <1>2, Zenon DEF Collecting
<1>5. completed' = Cardinality(Done')
  <2>1. completed = Cardinality(Done) /\ IsFiniteSet(Done)
    BY <1>1, BroadcastAssumption, FS_Subset DEF Collecting, Done
  <2>2. CASE Over(t)' /\ ~Over(t)
    <3>1. Done' = Done \cup {t} /\ t \notin Done
      BY <1>2, <2>2 DEF Done
    <3>2. Cardinality(Done \cup {t}) = Cardinality(Done) + 1
      BY <2>1, <3>1, FS_AddElement
    <3> QED
      BY <2>1, <2>2, <3>1, <3>2
  <2>3. CASE ~(Over(t)' /\ ~Over(t))
    <3>1. Done' = Done
      BY <1>2, <2>3 DEF Done
    <3> QED
      BY <2>1, <2>3, <3>1
  <2> QED
    BY <2>2, <2>3
<1>6. LateIsLate'
  BY <1>1, <1>2 DEF LateIsLate
<1> QED
  BY <1>1, <1>3, <1>4, <1>5, <1>6 DEF BroadcastInv, Collecting

\* What is known of a task when it takes a step.
LEMMA TaskFacts ==
    ASSUME BroadcastInv, Active, NEW t \in Targets
    PROVE  /\ Task(t) /\ (failures = 0 => Flow(t)) /\ answer = "open" /\ EventTypes
           /\ outbox[t] \in Seq(Events) /\ events[t] \in Seq(Events)
           /\ told[t] \in Seq(Told) /\ merged[t] \in Seq(Entries)
  BY DEF BroadcastInv, Active, Collecting, EventTypes

\* A task has connected to its machine.
LEMMA ConnectedKeeps ==
    ASSUME BroadcastInv, NEW t \in Targets, Connected(t)
    PROVE  BroadcastInv'
<1>1. Active /\ backend[t] = "connect"
  BY DEF Connected, Runs
<1>2. /\ Task(t) /\ answer = "open" /\ EventTypes /\ UNCHANGED <<answer, timed, shown, completed, failures>>
      /\ backend'[t] = "stream" /\ \A s \in Targets \ {t} : Same(s)
      /\ outbox'[t] = outbox[t] /\ events'[t] = events[t] /\ told'[t] = told[t] /\ merged'[t] = merged[t]
  BY <1>1, TaskFacts DEF Connected, EventTypes, Same, callVars
<1>3. EventTypes'
  BY <1>2 DEF Connected, EventTypes, callVars
<1>4. Task(t)'
  BY <1>1, <1>2, Zenon DEF Task, TaskOK
<1>5. Flow(t) => Flow(t)'
  BY <1>1, <1>2, Zenon DEF Flow, FlowOK, Finishing
<1>6. ~Over(t) /\ ~Over(t)'
  BY <1>1, <1>2, Zenon DEF Over
<1> QED
  BY <1>2, <1>3, <1>4, <1>5, <1>6, TaskMoves DEF Late

\* GetPayload and GetFailure: the task puts one event into its outbox.
LEMMA ToldKeeps ==
    ASSUME BroadcastInv, NEW t \in Targets, Runs(t),
           NEW kind \in {"payload", "fatal", "error", "late"}, NEW b2 \in {"stream", "ending"},
           b2 = "stream" <=> kind = "payload", kind = "late" => timed = "after",
           told' = [told EXCEPT ![t] = Append(@, kind)],
           outbox' = [outbox EXCEPT ![t] = <<kind>>],
           backend' = [backend EXCEPT ![t] = b2],
           UNCHANGED <<callVars, timed, events>>
    PROVE  BroadcastInv'
<1>1. Active /\ backend[t] \in {"connect", "stream"} /\ outbox[t] = <<>>
  BY DEF Runs
<1>2. /\ Task(t) /\ answer = "open" /\ EventTypes /\ UNCHANGED <<answer, timed, shown, completed, failures>>
      /\ failures = 0 => Flow(t)
      /\ events[t] \in Seq(Events) /\ told[t] \in Seq(Told) /\ merged[t] \in Seq(Entries)
  BY <1>1, TaskFacts DEF callVars
<1>3. /\ backend'[t] = b2 /\ outbox'[t] = <<kind>> /\ events'[t] = events[t]
      /\ told'[t] = Append(told[t], kind) /\ merged'[t] = merged[t] /\ \A s \in Targets \ {t} : Same(s)
  BY <1>2 DEF EventTypes, Same, callVars
<1>4. <<kind>> \in Seq(Events) /\ Append(told[t], kind) \in Seq(Told)
  <2>1. kind \in Events /\ kind \in Told
    BY DEF Events, Told, Entries
  <2> QED
    BY <1>2, <2>1, AppendProperties
<1>5. EventTypes'
  BY <1>2, <1>4 DEF EventTypes, callVars
<1>6. TaskOK(backend[t], <<>>, events[t], told[t])
  BY <1>1, <1>2 DEF Task
<1>7. Task(t)' /\ (Flow(t) => Flow(t)')
  <2>1. /\ TaskOK(b2, <<kind>>, events[t], Append(told[t], kind))
        /\ FlowOK(backend[t], <<>>, events[t], told[t], merged[t])
              => FlowOK(b2, <<kind>>, events[t], Append(told[t], kind), merged[t])
    BY <1>1, <1>2, <1>6, TaskTold
  <2> QED
    BY <1>1, <1>3, <2>1 DEF Task, Flow
<1>8. Late(told[t])' => timed = "after"
  <2>1. Append(told[t], kind)[Len(Append(told[t], kind))] = kind
    BY <1>2, AppendedLast, Zenon
  <2>2. told'[t][Len(told'[t])] = kind
    BY <1>3, <2>1, Zenon
  <2> QED
    BY <2>2, Zenon DEF Late
<1>9. ~Over(t) /\ ~Over(t)'
  BY <1>1, <1>3 DEF Over
<1> QED
  BY <1>2, <1>3, <1>5, <1>7, <1>8, <1>9, TaskMoves, Zenon

\* A task is told the end of its stream.
LEMMA GetEndKeeps ==
    ASSUME BroadcastInv, NEW t \in Targets, GetEnd(t)
    PROVE  BroadcastInv'
<1>1. Active /\ backend[t] = "stream" /\ outbox[t] = <<>>
  BY DEF GetEnd, Runs
<1>2. /\ Task(t) /\ answer = "open" /\ EventTypes /\ UNCHANGED <<answer, timed, shown, completed, failures>>
      /\ events[t] \in Seq(Events) /\ told[t] \in Seq(Told) /\ merged[t] \in Seq(Entries)
  BY <1>1, TaskFacts DEF GetEnd, callVars
<1>3. /\ backend'[t] = "ending" /\ outbox'[t] = <<>> /\ events'[t] = events[t]
      /\ told'[t] = Append(told[t], "end") /\ merged'[t] = merged[t] /\ \A s \in Targets \ {t} : Same(s)
  BY <1>1, <1>2 DEF GetEnd, EventTypes, Same, callVars
<1>4. Append(told[t], "end") \in Seq(Told) /\ "end" \in Told
  BY <1>2, AppendProperties DEF Told
<1>5. EventTypes'
  BY <1>2, <1>4 DEF GetEnd, EventTypes, callVars
<1>6. TaskOK("stream", <<>>, events[t], told[t])
  BY <1>1, <1>2 DEF Task
<1>7. Task(t)' /\ (Flow(t) => Flow(t)')
  BY <1>1, <1>2, <1>3, <1>6, TaskEnded, Zenon DEF Task, Flow
<1>8. ~Late(told[t])'
  <2>1. Append(told[t], "end")[Len(Append(told[t], "end"))] = "end"
    BY <1>2, AppendedLast, Zenon
  <2>2. told'[t][Len(told'[t])] = "end"
    BY <1>3, <2>1, Zenon
  <2> QED
    BY <2>2, Zenon DEF Late
<1>9. ~Over(t) /\ ~Over(t)'
  BY <1>1, <1>3 DEF Over
<1> QED
  BY <1>2, <1>3, <1>5, <1>7, <1>8, <1>9, TaskMoves, Zenon

\* A task sends the event in its outbox.
LEMMA SendEventsKeeps ==
    ASSUME BroadcastInv, NEW t \in Targets, SendEvents(t)
    PROVE  BroadcastInv'
<1>1. Active /\ outbox[t] # <<>>
  BY DEF SendEvents
<1>2. /\ Task(t) /\ answer = "open" /\ EventTypes /\ UNCHANGED <<answer, timed, shown, completed, failures>>
      /\ outbox[t] \in Seq(Events) /\ events[t] \in Seq(Events)
      /\ told[t] \in Seq(Told) /\ merged[t] \in Seq(Entries)
  BY <1>1, TaskFacts DEF SendEvents, callVars
<1>3. /\ backend'[t] = backend[t] /\ outbox'[t] = Tail(outbox[t]) /\ events'[t] = Append(events[t], Head(outbox[t]))
      /\ told'[t] = told[t] /\ merged'[t] = merged[t] /\ \A s \in Targets \ {t} : Same(s)
  BY <1>1, <1>2 DEF SendEvents, EventTypes, Same, callVars
<1>4. Tail(outbox[t]) \in Seq(Events) /\ Append(events[t], Head(outbox[t])) \in Seq(Events)
  <2>1. Head(outbox[t]) \in Events /\ Tail(outbox[t]) \in Seq(Events)
    BY <1>1, <1>2, HeadTailProperties
  <2> QED
    BY <1>2, <2>1, AppendProperties
<1>5. EventTypes'
  BY <1>2, <1>4 DEF SendEvents, EventTypes, callVars
<1>6. TaskOK(backend[t], outbox[t], events[t], told[t])
  BY <1>2 DEF Task
<1>7. Task(t)' /\ backend[t] # "done" /\ (Flow(t) => Flow(t)')
  BY <1>1, <1>2, <1>3, <1>6, EventSent, Zenon DEF Task, Flow
<1>8. Late(told[t])' <=> Late(told[t])
  BY <1>3 DEF Late
<1>9. ~Over(t) /\ ~Over(t)'
  BY <1>3, <1>7 DEF Over
<1> QED
  BY <1>2, <1>3, <1>5, <1>7, <1>8, <1>9, TaskMoves, Zenon

\* A task that is at its end sends "finished".
LEMMA SendFinishedKeeps ==
    ASSUME BroadcastInv, NEW t \in Targets, SendFinished(t)
    PROVE  BroadcastInv'
<1>1. Active /\ backend[t] = "ending" /\ outbox[t] = <<>>
  BY DEF SendFinished
<1>2. /\ Task(t) /\ answer = "open" /\ EventTypes /\ UNCHANGED <<answer, timed, shown, completed, failures>>
      /\ events[t] \in Seq(Events) /\ told[t] \in Seq(Told) /\ merged[t] \in Seq(Entries)
  BY <1>1, TaskFacts, Zenon DEF SendFinished, callVars
<1>3. /\ backend'[t] = "done" /\ outbox'[t] = <<>> /\ events'[t] = Append(events[t], "finished")
      /\ told'[t] = told[t] /\ merged'[t] = merged[t] /\ \A s \in Targets \ {t} : Same(s)
  BY <1>1, <1>2 DEF SendFinished, EventTypes, Same, callVars
<1>4. Append(events[t], "finished") \in Seq(Events) /\ Len(Append(events[t], "finished")) # 0
  <2>1. "finished" \in Events /\ Len(events[t]) \in Nat
    BY <1>2, LenProperties DEF Events
  <2> QED
    BY <1>2, <2>1, AppendProperties
<1>5. EventTypes'
  BY <1>2, <1>4 DEF SendFinished, EventTypes, callVars
<1>6. TaskOK("ending", <<>>, events[t], told[t])
  BY <1>1, <1>2 DEF Task
<1>7. Task(t)' /\ (Flow(t) => Flow(t)')
  BY <1>1, <1>2, <1>3, <1>6, FinishedSent, Zenon DEF Task, Flow
<1>8. Late(told[t])' <=> Late(told[t])
  BY <1>3 DEF Late
<1>9. ~Over(t) /\ ~Over(t)'
  BY <1>1, <1>3, <1>4 DEF Over
<1> QED
  BY <1>2, <1>3, <1>5, <1>7, <1>8, <1>9, TaskMoves, Zenon

\* The call collects the next event of a machine.
LEMMA CollectEventKeeps ==
    ASSUME BroadcastInv, NEW t \in Targets, CollectEvent(t)
    PROVE  BroadcastInv'
<1> DEFINE event == Head(events[t])
           more == More(merged[t], event)
<1>1. Active /\ events[t] # <<>>
  BY DEF CollectEvent
<1>2. /\ Task(t) /\ answer = "open" /\ EventTypes /\ UNCHANGED <<answer, timed, shown>> /\ failures \in Nat
      /\ outbox[t] \in Seq(Events) /\ events[t] \in Seq(Events)
      /\ told[t] \in Seq(Told) /\ merged[t] \in Seq(Entries)
  BY <1>1, TaskFacts DEF CollectEvent, EventTypes
<1>3. /\ backend'[t] = backend[t] /\ outbox'[t] = outbox[t] /\ events'[t] = Tail(events[t])
      /\ told'[t] = told[t] /\ merged'[t] = more /\ \A s \in Targets \ {t} : Same(s)
      /\ failures' = IF event = "fatal" THEN failures + 1 ELSE failures
      /\ completed' = IF event = "finished" THEN completed + 1 ELSE completed
  BY <1>1, <1>2 DEF CollectEvent, EventTypes, Same, taskVars, Entries, More
<1>4. TaskOK(backend[t], outbox[t], events[t], told[t])
  BY <1>2 DEF Task
<1>5. /\ TaskOK(backend[t], outbox[t], Tail(events[t]), told[t])
      /\ Tail(events[t]) \in Seq(Events) /\ more \in Seq(Entries)
      /\ (backend[t] = "done" /\ Len(Tail(events[t])) = 0) <=> event = "finished"
      /\ FlowOK(backend[t], outbox[t], events[t], told[t], merged[t]) /\ event # "fatal"
            => FlowOK(backend[t], outbox[t], Tail(events[t]), told[t], more)
  BY <1>1, <1>2, <1>4, EventCollected, Zenon
<1>6. EventTypes'
  <2>1. events' \in [Targets -> Seq(Events)]
    BY <1>2, <1>5 DEF CollectEvent, EventTypes
  <2>2. merged' = [merged EXCEPT ![t] = more]
    BY <1>2 DEF CollectEvent, EventTypes, Entries, More
  <2>3. merged' \in [Targets -> Seq(Entries)]
    BY <1>2, <1>5, <2>2 DEF EventTypes
  <2>4. failures' \in Nat
    <3>1. failures' = failures + 1 \/ failures' = failures
      BY <1>3, Zenon
    <3> QED
      BY <1>2, <3>1
  <2> QED
    BY <1>2, <2>1, <2>3, <2>4 DEF CollectEvent, EventTypes, taskVars
<1> HIDE DEF event, more
<1>7. failures' = 0 => event # "fatal" /\ failures = 0
  <2>1. failures \in Nat
    BY <1>2
  <2>2. failures' = IF event = "fatal" THEN failures + 1 ELSE failures
    BY <1>3
  <2> QED
    BY <2>1, <2>2
<1>8. Task(t)' /\ (Over(t)' <=> event = "finished") /\ (failures' = 0 /\ Flow(t) => Flow(t)')
  BY <1>3, <1>5, <1>7, Zenon DEF Task, Over, Flow
<1>9. ~Over(t)
  BY <1>1, <1>2, EmptySeq DEF Over
<1>10. Late(told[t])' <=> Late(told[t])
  BY <1>3 DEF Late
<1> QED
  BY <1>2, <1>3, <1>6, <1>7, <1>8, <1>9, <1>10, TaskMoves, Zenon

\* Every return drops what was collected, unless it is the answer.
LEMMA CallReturnKeeps ==
    ASSUME BroadcastInv, Active, NEW result \in {"merged", "unknown", "request", "deadline", "dropped"},
           ReturnAs(result),
           result = "merged" => \A t \in Targets : Whole(told[t], merged[t])
    PROVE  BroadcastInv'
<1>1. EventTypes /\ LateIsLate /\ shown # "merged" /\ UNCHANGED <<timed, shown>> /\ answer' = result
  BY DEF BroadcastInv, Active, ReturnAs
<1>2. /\ Nothing \in [Targets -> Seq(Events)] /\ Nothing \in [Targets -> Seq(Told)]
      /\ Nothing \in [Targets -> Seq(Entries)] /\ \A t \in Targets : ~Late(Nothing[t])
  <2>1. \A S : <<>> \in Seq(S)
    OBVIOUS
  <2>2. \A t \in Targets : ~Late(Nothing[t])
    BY EmptySeq DEF Nothing, Late
  <2> QED
    BY <2>1, <2>2 DEF Nothing
<1>3. \/ result = "merged" /\ UNCHANGED <<merged, told>>
      \/ result # "merged" /\ merged' = Nothing /\ told' = Nothing
  BY DEF ReturnAs
<1>4. EventTypes'
  BY <1>1, <1>2, <1>3 DEF EventTypes, ReturnAs
<1>5. LateIsLate'
  BY <1>1, <1>2, <1>3 DEF LateIsLate
<1>6. answer' = "merged" => \A t \in Targets : Whole(told[t], merged[t])'
  BY <1>1, <1>3
<1> QED
  BY <1>1, <1>4, <1>5, <1>6 DEF BroadcastInv

\* The call finishes when every task is over.
LEMMA CallFinishKeeps ==
    ASSUME BroadcastInv, FinishBroadcast
    PROVE  BroadcastInv'
<1>1. Active /\ completed = Cardinality(Targets) /\ failures \in Nat /\ Collecting
  BY DEF FinishBroadcast, Collected, BroadcastInv, EventTypes, Active
<1>2. Done = Targets
  BY <1>1, BroadcastAssumption, FS_Subset, Zenon DEF Collecting, Done
<1>3. ASSUME failures = 0, NEW t \in Targets PROVE Whole(told[t], merged[t])
  <2>1. /\ TaskOK(backend[t], outbox[t], events[t], told[t])
        /\ FlowOK(backend[t], outbox[t], events[t], told[t], merged[t])
        /\ backend[t] = "done" /\ Len(events[t]) = 0
    BY <1>1, <1>2, <1>3, Zenon DEF Collecting, Done, Over, Task, Flow
  <2>2. told[t] \in Seq(Told) /\ merged[t] \in Seq(Entries)
    BY <1>1, TaskFacts
  <2> QED
    BY <2>1, <2>2, AllIsWhole
<1>4. CASE failures > 0
  BY <1>1, <1>4, CallReturnKeeps DEF FinishBroadcast
<1>5. CASE failures = 0
  BY <1>1, <1>3, <1>5, CallReturnKeeps DEF FinishBroadcast
<1> QED
  BY <1>1, <1>4, <1>5

\* Every step of the call, its tasks and its peers keeps the invariant.
LEMMA BroadcastKeeps == BroadcastInv /\ [BroadcastNext]_bcVars => BroadcastInv'
<1> SUFFICES ASSUME BroadcastInv, [BroadcastNext]_bcVars PROVE BroadcastInv'
  OBVIOUS
<1>1. ASSUME UNCHANGED <<taskVars, events, merged, failures, completed>>,
             \/ UNCHANGED <<answer, shown, timed>>
             \/ answer = "none" /\ answer' = "open" /\ UNCHANGED <<shown, timed>>
             \/ shown = "none" /\ timed' = "after" /\ UNCHANGED <<answer, shown>>
             \/ /\ shown' \in {answer, "deadline"} /\ (shown' = "merged" => timed # "after")
                /\ UNCHANGED <<answer, timed>>
      PROVE  BroadcastInv'
  <2>1. UNCHANGED <<backend, outbox, told>>
    BY <1>1 DEF taskVars
  <2>2. EventTypes' /\ (Collecting' <=> Collecting) /\ \A t \in Targets : Whole(told[t], merged[t])' <=> Whole(told[t], merged[t])
    BY <1>1, <2>1 DEF BroadcastInv, EventTypes, Collecting, Done, Over, Task, Flow
  <2>3. LateIsLate'
    BY <1>1, <2>1, Zenon DEF BroadcastInv, LateIsLate
  <2>4. (answer \in {"none", "open"} => Collecting)' /\ (answer' = "merged" => answer = "merged")
    BY <1>1, <2>2, Zenon DEF BroadcastInv
  <2>5. (shown = "merged" => answer = "merged" /\ timed # "after")'
    BY <1>1 DEF BroadcastInv
  <2> QED
    BY <2>2, <2>3, <2>4, <2>5 DEF BroadcastInv
<1>2. CASE StartBroadcast
  BY <1>1, <1>2 DEF StartBroadcast
<1>3. CASE PassDeadline
  BY <1>1, <1>3 DEF PassDeadline, callVars
<1>4. CASE ReadAnswer
  BY <1>1, <1>4 DEF ReadAnswer
<1>5. CASE PumpRead \/ PumpEnd \/ PumpSend \/ (\E t \in Targets : TakeRequest(t)) \/ UNCHANGED bcVars
  BY <1>1, <1>5 DEF PumpRead, PumpEnd, PumpSend, TakeRequest, bcVars, callVars, taskVars
<1>6. CASE DropBroadcast \/ FailRequest \/ FailDeadline
  BY <1>6, CallReturnKeeps DEF DropBroadcast, FailRequest, FailDeadline
<1>7. CASE FinishBroadcast
  BY <1>7, CallFinishKeeps
<1>8. ASSUME NEW t \in Targets, GetPayload(t) PROVE BroadcastInv'
  <2>1. PICK kind \in {"payload", "fatal"} :
          /\ told' = [told EXCEPT ![t] = Append(@, kind)]
          /\ outbox' = [outbox EXCEPT ![t] = <<kind>>]
          /\ backend' = [backend EXCEPT ![t] = IF kind = "fatal" THEN "ending" ELSE @]
    BY <1>8, Zenon DEF GetPayload
  <2>2. Runs(t) /\ backend[t] = "stream" /\ UNCHANGED <<callVars, timed, events>>
    BY <1>8 DEF GetPayload
  <2>3. CASE kind = "payload"
    BY <2>1, <2>2, <2>3, ToldKeeps, Zenon
  <2>4. CASE kind = "fatal"
    BY <2>1, <2>2, <2>4, ToldKeeps, Zenon
  <2> QED
    BY <2>3, <2>4
<1>9. ASSUME NEW t \in Targets, GetFailure(t) PROVE BroadcastInv'
  <2>1. PICK why \in {"error", "fatal"} \cup (IF timed = "after" THEN {"late"} ELSE {}) :
          /\ told' = [told EXCEPT ![t] = Append(@, why)]
          /\ outbox' = [outbox EXCEPT ![t] = <<why>>]
    BY <1>9, Zenon DEF GetFailure, FailureEvents
  <2>2. Runs(t) /\ backend' = [backend EXCEPT ![t] = "ending"] /\ UNCHANGED <<callVars, timed, events>>
    BY <1>9 DEF GetFailure
  <2> QED
    BY <2>1, <2>2, ToldKeeps, Zenon
<1>10. ASSUME NEW t \in Targets, CollectEvent(t) \/ Connected(t) \/ GetEnd(t) \/ SendEvents(t) \/ SendFinished(t)
       PROVE  BroadcastInv'
  BY <1>10, CollectEventKeeps, ConnectedKeeps, GetEndKeeps, SendEventsKeeps, SendFinishedKeeps
<1> QED
  BY <1>2, <1>3, <1>4, <1>5, <1>6, <1>7, <1>8, <1>9, <1>10
  DEF BroadcastNext, BroadcastCallStep, BroadcastTaskStep, BroadcastUpstream

\* A merged answer that is shown is whole.
LEMMA BroadcastInvWhole == BroadcastInv => MergedSpeaksForAll
<1> SUFFICES ASSUME BroadcastInv, shown = "merged", NEW t \in Targets
             PROVE  \/ told[t] = Append(merged[t], "end")
                    \/ told[t] = merged[t] /\ told[t] # <<>> /\ told[t][Len(told[t])] = "error"
  BY DEF MergedSpeaksForAll
<1>1. Whole(told[t], merged[t]) /\ ~Late(told[t]) /\ told[t] \in Seq(Told)
  BY DEF BroadcastInv, LateIsLate, EventTypes
<1> QED
  BY <1>1, EmptySeq DEF Whole, Late

\* For any finite set of machines: a broadcast that answers with a merged response
\* has every entry that every machine was told, to its end or to the error that
\* ended it, whatever the order in which the tasks' events were collected.
THEOREM MergedAlwaysSpeaksForAll == BroadcastInit /\ [][BroadcastNext]_bcVars => []MergedSpeaksForAll
<1>1. BroadcastInv /\ [BroadcastNext]_bcVars => BroadcastInv'
  BY BroadcastKeeps
<1> QED
  BY <1>1, BroadcastInitInv, BroadcastInvWhole, PTL

-----------------------------------------------------------------------------
\* The last thing in the channel is the status of a failed call.
StatusLast == channel # <<>> /\ channel[Len(channel)] = Status
\* The message that forward has taken from the backend and not yet sent.
Carried == IF holding \in {NoMessage, Status} THEN 0 ELSE 1
\* The phases before the first message is taken.
Early == {"none", "connect", "first"}

\* Messages are numbered as the backend made them: what the frontend has read,
\* what is in the channel and what the task holds follow one another without a
\* gap, up to the last one taken. A call that is over without a status, and not
\* past its deadline, has taken every message and the backend ended it with OK.
ForwardInv ==
    /\ received \in Seq(Int) /\ channel \in Seq(Int) /\ holding \in Int
    /\ made \in Nat /\ taken \in Nat /\ taken <= made
    /\ \A i \in 1..Len(received) : received[i] = i
    /\ \A i \in 1..Len(channel) :
          \/ channel[i] = Len(received) + i
          \/ i = Len(channel) /\ channel[i] = Status /\ phase = "over"
    /\ phase \in Early => taken = 0 /\ received = <<>> /\ channel = <<>> /\ holding = NoMessage /\ frontend = "reading"
    /\ phase = "forward" =>
          /\ holding \in {NoMessage, Status, taken}
          /\ Len(received) + Len(channel) + Carried = taken
    /\ phase = "over" /\ frontend = "reading" /\ timer # "after" /\ ~StatusLast =>
          ending = "ok" /\ taken = made /\ Len(received) + Len(channel) = made
    /\ frontend = "clean" => phase = "over" /\ ending = "ok" /\ Len(received) = made

\* Before a call there are no messages.
LEMMA ForwardInitInv == ForwardInit => ForwardInv
<1> SUFFICES ASSUME ForwardInit PROVE ForwardInv
  OBVIOUS
<1>1. received \in Seq(Int) /\ channel \in Seq(Int) /\ Len(received) = 0 /\ Len(channel) = 0
  BY EmptySeq, Zenon DEF ForwardInit
<1>2. /\ \A i \in 1..Len(received) : FALSE
      /\ \A i \in 1..Len(channel) : FALSE
  BY <1>1
<1>3. /\ received = <<>> /\ channel = <<>> /\ holding = 0 /\ made = 0 /\ taken = 0
      /\ phase = "none" /\ frontend = "reading"
  BY Zenon DEF ForwardInit, NoMessage
<1> QED
  BY <1>1, <1>2, <1>3 DEF ForwardInv, NoMessage, Early

\* forward sends what it holds, or gives up because nobody reads.
LEMMA SendKeeps == ForwardInv /\ ForwardSend => ForwardInv'
<1> SUFFICES ASSUME ForwardInv, ForwardSend PROVE ForwardInv'
  OBVIOUS
<1> USE DEF NoMessage, Status, Early
<1>1. /\ phase = "forward" /\ holding # NoMessage /\ frontend # "clean"
      /\ holding \in {NoMessage, Status, taken}
      /\ Len(received) + Len(channel) + Carried = taken
      /\ received \in Seq(Int) /\ channel \in Seq(Int) /\ holding \in Int
      /\ made \in Nat /\ taken \in Nat /\ taken <= made
      /\ \A i \in 1..Len(received) : received[i] = i
      /\ \A i \in 1..Len(channel) : channel[i] = Len(received) + i
  BY DEF ForwardSend, ForwardInv
<1>2. Len(received) \in Nat /\ Len(channel) \in Nat
  BY <1>1, LenProperties
<1>3. CASE EndForward("over") /\ UNCHANGED frontend /\ (frontend # "reading" \/ timer = "after")
  BY <1>1, <1>3 DEF EndForward, ForwardInv
<1>4. CASE /\ channel' = Append(channel, holding) /\ holding' = NoMessage
           /\ IF holding = Status THEN phase' = "over" ELSE phase' = phase
           /\ UNCHANGED <<timer, made, ending, taken, frontend, received>>
  <2>1. /\ channel' \in Seq(Int) /\ Len(channel') = Len(channel) + 1
        /\ \A i \in 1..Len(channel) : channel'[i] = channel[i]
        /\ channel'[Len(channel) + 1] = holding
    BY <1>1, <1>4, AppendProperties
  <2>2. holding # Status => holding = Len(received) + Len(channel) + 1
    BY <1>1, <1>2 DEF Carried
  <2>3. ASSUME NEW i \in 1..Len(channel')
        PROVE  \/ channel'[i] = Len(received) + i
               \/ i = Len(channel') /\ channel'[i] = Status /\ phase' = "over"
    <3>1. CASE i \in 1..Len(channel)
      BY <1>1, <2>1, <3>1
    <3>2. CASE i = Len(channel) + 1
      BY <1>2, <1>4, <2>1, <2>2, <3>2
    <3> QED
      BY <1>2, <2>1, <3>1, <3>2
  <2>4. phase' = "forward" => Len(received) + Len(channel') = taken
    BY <1>1, <1>2, <1>4, <2>1 DEF Carried
  <2>5. phase' = "over" => StatusLast'
    <3>1. phase' = "over" => channel'[Len(channel')] = Status
      BY <1>1, <1>4, <2>1
    <3> QED
      BY <1>2, <2>1, <3>1, EmptySeq DEF StatusLast
  <2>6. phase' \in {"forward", "over"}
    BY <1>1, <1>4
  <2>7. Carried' = 0
    BY <1>4 DEF Carried
  <2> QED
    BY <1>1, <1>2, <1>4, <2>1, <2>3, <2>4, <2>5, <2>6, <2>7 DEF ForwardInv
<1> QED
  BY <1>3, <1>4 DEF ForwardSend

\* The frontend reads a message, a status, the clean end or its own deadline.
LEMMA ReadKeeps == ForwardInv /\ Read => ForwardInv'
<1> SUFFICES ASSUME ForwardInv, Read PROVE ForwardInv'
  OBVIOUS
<1> USE DEF NoMessage, Status, Early
<1>1. /\ frontend = "reading" /\ phase \in {"forward", "over"}
      /\ UNCHANGED <<phase, timer, made, ending, taken, holding>>
  BY DEF Read
<1>2. /\ received \in Seq(Int) /\ channel \in Seq(Int) /\ holding \in Int
      /\ made \in Nat /\ taken \in Nat /\ taken <= made
      /\ Len(received) \in Nat /\ Len(channel) \in Nat
  BY LenProperties DEF ForwardInv
<1>3. /\ \A i \in 1..Len(received) : received[i] = i
      /\ \A i \in 1..Len(channel) :
            \/ channel[i] = Len(received) + i
            \/ i = Len(channel) /\ channel[i] = Status /\ phase = "over"
  BY DEF ForwardInv
<1>4. /\ phase = "forward" =>
            /\ holding \in {NoMessage, Status, taken}
            /\ Len(received) + Len(channel) + Carried = taken
      /\ phase = "over" /\ timer # "after" /\ ~StatusLast =>
            ending = "ok" /\ taken = made /\ Len(received) + Len(channel) = made
  BY <1>1 DEF ForwardInv
<1>5. CASE frontend' = "error" /\ UNCHANGED <<channel, received>>
  BY <1>1, <1>2, <1>3, <1>4, <1>5 DEF ForwardInv, Carried
<1>6. CASE /\ timer # "after" /\ channel = <<>> /\ phase = "over"
           /\ frontend' = "clean" /\ UNCHANGED <<channel, received>>
  <2>1. Len(channel) = 0 /\ ~StatusLast
    BY <1>6, EmptySeq DEF StatusLast
  <2> QED
    BY <1>1, <1>2, <1>3, <1>4, <1>6, <2>1 DEF ForwardInv
<1>7. CASE /\ channel # <<>> /\ channel' = Tail(channel)
           /\ IF Head(channel) = Status THEN frontend' = "error" /\ UNCHANGED received
              ELSE received' = Append(received, Head(channel)) /\ UNCHANGED frontend
  <2>1. /\ channel' \in Seq(Int) /\ Len(channel') = Len(channel) - 1 /\ Len(channel) > 0
        /\ Head(channel) \in Int /\ Head(channel) = channel[1]
        /\ \A i \in 1..Len(channel') : channel'[i] = channel[i + 1]
    BY <1>2, <1>7, HeadTailProperties, EmptySeq
  <2>2. CASE Head(channel) = Status
    <3>1. Len(channel) = 1 /\ phase = "over"
      BY <1>2, <1>3, <2>1, <2>2
    <3>2. received' = received /\ frontend' = "error" /\ \A i \in 1..Len(channel') : FALSE
      BY <1>7, <2>1, <2>2, <3>1
    <3> QED
      BY <1>1, <1>2, <1>3, <2>1, <3>1, <3>2 DEF ForwardInv
  <2>3. CASE Head(channel) # Status
    <3>1. received' = Append(received, Head(channel)) /\ frontend' = frontend
      BY <1>7, <2>3
    <3>2. /\ received' \in Seq(Int) /\ Len(received') = Len(received) + 1
          /\ \A i \in 1..Len(received) : received'[i] = received[i]
          /\ received'[Len(received) + 1] = Head(channel)
      BY <1>2, <2>1, <3>1, AppendProperties
    <3>3. Head(channel) = Len(received) + 1
      BY <1>2, <1>3, <2>1, <2>3
    <3>4. ASSUME NEW i \in 1..Len(received') PROVE received'[i] = i
      <4>1. CASE i \in 1..Len(received)
        BY <1>3, <3>2, <4>1
      <4>2. CASE i = Len(received) + 1
        BY <3>2, <3>3, <4>2
      <4> QED
        BY <1>2, <3>2, <4>1, <4>2
    <3>5. ASSUME NEW i \in 1..Len(channel')
          PROVE  \/ channel'[i] = Len(received') + i
                 \/ i = Len(channel') /\ channel'[i] = Status /\ phase = "over"
      <4>0. channel'[i] = channel[i + 1]
        BY <2>1
      <4>1. i + 1 \in 1..Len(channel)
        BY <1>2, <2>1
      <4>2. \/ channel[i + 1] = Len(received) + (i + 1)
            \/ i + 1 = Len(channel) /\ channel[i + 1] = Status /\ phase = "over"
        BY <1>3, <4>1
      <4>3. CASE channel[i + 1] = Len(received) + (i + 1)
        BY <1>2, <3>2, <4>0, <4>3
      <4>4. CASE i + 1 = Len(channel) /\ channel[i + 1] = Status /\ phase = "over"
        BY <1>2, <2>1, <4>0, <4>4
      <4> QED
        BY <4>2, <4>3, <4>4
    <3>6. Len(received') + Len(channel') = Len(received) + Len(channel)
      BY <1>2, <2>1, <3>2
    <3>7. StatusLast => StatusLast'
      <4>1. SUFFICES ASSUME StatusLast PROVE StatusLast'
        OBVIOUS
      <4>2. channel[Len(channel)] = Status
        BY <4>1 DEF StatusLast
      <4>3. Len(channel) # 1
        BY <2>1, <2>3, <4>2
      <4>4. Len(channel') \in 1..Len(channel') /\ Len(channel') + 1 = Len(channel)
        BY <1>2, <2>1, <4>3
      <4>5. channel'[Len(channel')] = Status /\ channel' # <<>>
        BY <2>1, <4>2, <4>4, EmptySeq
      <4> QED
        BY <4>5 DEF StatusLast
    <3>8. Carried' = Carried
      BY <1>1 DEF Carried
    <3> QED
      BY <1>1, <1>2, <1>4, <2>1, <3>1, <3>2, <3>4, <3>5, <3>6, <3>7, <3>8, Zenon DEF ForwardInv
  <2> QED
    BY <2>2, <2>3
<1> QED
  BY <1>5, <1>6, <1>7 DEF Read

\* forward asks the backend for the next message.
LEMMA NextKeeps == ForwardInv /\ ForwardNext => ForwardInv'
<1> SUFFICES ASSUME ForwardInv, ForwardNext PROVE ForwardInv'
  OBVIOUS
<1> USE DEF NoMessage, Status, Early
<1>1. /\ phase = "forward" /\ holding = NoMessage /\ frontend # "clean"
      /\ Len(received) + Len(channel) = taken
      /\ made \in Nat /\ taken \in Nat /\ taken <= made
      /\ UNCHANGED <<timer, made, ending, channel, frontend, received>>
  <2>1. phase = "forward" /\ holding = NoMessage /\ UNCHANGED <<timer, made, ending, channel, frontend, received>>
    BY DEF ForwardNext, EndForward
  <2>2. Len(received) \in Nat /\ Len(channel) \in Nat
    BY LenProperties DEF ForwardInv
  <2> QED
    BY <2>1, <2>2 DEF ForwardInv, Carried
<1>2. CASE frontend = "gone" /\ EndForward("over") /\ UNCHANGED frontend
  BY <1>1, <1>2 DEF EndForward, ForwardInv
<1>3. CASE HasMessage /\ taken' = taken + 1 /\ holding' = taken + 1 /\ UNCHANGED phase
  <2>1. taken' \in Nat /\ taken' <= made /\ Carried' = 1 /\ holding' \in Int
    BY <1>1, <1>3 DEF HasMessage, Carried
  <2> QED
    BY <1>1, <1>3, <2>1, Zenon DEF ForwardInv
<1>4. CASE AtEnd /\ ending = "ok" /\ EndForward("over") /\ UNCHANGED frontend
  BY <1>1, <1>4 DEF AtEnd, EndForward, ForwardInv
<1>5. CASE holding' = Status /\ UNCHANGED <<phase, taken>>
  <2>1. Carried' = 0 /\ holding' \in Int
    BY <1>5 DEF Carried
  <2> QED
    BY <1>1, <1>5, <2>1 DEF ForwardInv, StatusLast
<1> QED
  BY <1>2, <1>3, <1>4, <1>5 DEF ForwardNext

\* Every step of the call, its pump and its peers keeps the invariant.
LEMMA ForwardKeeps == ForwardInv /\ [ForwardNextStep]_fwVars => ForwardInv'
<1> SUFFICES ASSUME ForwardInv, [ForwardNextStep]_fwVars PROVE ForwardInv'
  OBVIOUS
<1> USE DEF ForwardInv, StatusLast, Carried, Early, NoMessage, Status
<1>1. CASE StartForward
  BY <1>1 DEF StartForward
<1>2. CASE PassTime
  BY <1>2 DEF PassTime
<1>3. CASE PumpStep
  BY <1>3 DEF PumpStep
<1>4. CASE Upstream
  BY <1>4 DEF Upstream
<1>5. CASE Connect
  BY <1>5, Zenon DEF Connect, FailForward, EndForward
<1>6. CASE First1
  <2>1. phase = "first" /\ taken = 0 /\ channel = <<>> /\ Len(received) = 0 /\ Len(channel) = 0
        /\ holding = NoMessage /\ frontend = "reading"
    BY <1>6, EmptySeq DEF First1
  <2>2. CASE /\ copier # "failed" /\ HasMessage
             /\ taken' = taken + 1 /\ holding' = taken + 1 /\ phase' = "forward"
             /\ UNCHANGED <<timer, copier, inflight, toSend, made, ending, channel, frontend, received>>
    BY <2>1, <2>2 DEF HasMessage
  <2>3. CASE AtEnd /\ ending = "ok" /\ EndForward("over") /\ UNCHANGED frontend
    BY <2>1, <2>3 DEF AtEnd, EndForward
  <2>4. CASE FailForward
    BY <2>1, <2>4 DEF FailForward, EndForward
  <2> QED
    BY <1>6, <2>2, <2>3, <2>4, Zenon DEF First1
<1>7. CASE Leave
  BY <1>7, Zenon DEF Leave, EndForward, Carrying
<1>8. CASE UNCHANGED fwVars
  BY <1>8 DEF fwVars
<1> HIDE DEF ForwardInv
<1> QED
  BY <1>1, <1>2, <1>3, <1>4, <1>5, <1>6, <1>7, <1>8, NextKeeps, SendKeeps, ReadKeeps DEF ForwardNextStep, ForwardTask

\* A clean end is the end of all messages.
LEMMA ForwardInvClean == ForwardInv => CleanEndIsWhole
<1> SUFFICES ASSUME ForwardInv, frontend = "clean" PROVE ending = "ok" /\ received = [i \in 1..made |-> i]
  BY DEF CleanEndIsWhole
<1>1. received \in Seq(Int) /\ Len(received) = made /\ \A i \in 1..made : received[i] = i
  BY DEF ForwardInv
<1> QED
  BY <1>1 DEF ForwardInv

\* A frontend that sees a call end cleanly has read every message that the backend
\* made, each once and in order, and the backend ended the call with OK, for any
\* capacity of the channel and any number of messages (forward of the proxy).
THEOREM CleanEndAlwaysWhole == ForwardInit /\ [][ForwardNextStep]_fwVars => []CleanEndIsWhole
BY ForwardInitInv, ForwardKeeps, ForwardInvClean, PTL

\* For any channel capacity and any finite set of targets: a clean end and a merged
\* answer are whole.
THEOREM AnswersAlwaysWhole ==
    /\ ForwardInit /\ [][ForwardNextStep]_fwVars
    /\ BroadcastInit /\ [][BroadcastNext]_bcVars
    => []AnswersAreWhole
<1>1. CleanEndIsWhole /\ MergedSpeaksForAll => AnswersAreWhole
  BY DEF AnswersAreWhole
<1> QED
  BY <1>1, CleanEndAlwaysWhole, MergedAlwaysSpeaksForAll, PTL
=============================================================================
