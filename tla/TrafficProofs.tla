---------------------------- MODULE TrafficProofs ----------------------------
(***************************************************************************)
(* The safety of what carries the traffic of a machine, its Caddy and the  *)
(* packets of its tunnel, for every value of the constants.                *)
(*                                                                         *)
(* CaddyController: the file that is being handled was generated from the  *)
(* list that is being handled, and only one that loads is written; a file  *)
(* that breaks off is one whose write has not ended.                       *)
(*                                                                         *)
(* TunnelPump: a packet is on the wire, queued, kept by Tunn or with the   *)
(* stack, and every packet further on is older. Without more a new packet  *)
(* could overtake those Tunn keeps once it has a session: send_plaintext   *)
(* encrypts only with room in the queue, and while anything is kept there  *)
(* is none, for the drain that comes before it ended only at a full queue. *)
(***************************************************************************)
EXTENDS CaddyController, TunnelPump, TLAPS

\* The file being handled was generated from the list being handled.
FileOfList == pc \in {"load", "write", "writing"} => caddyfile.of = listed.services

\* What is about to be written can be loaded; what is being written is not on disk yet.
WritesLoadable ==
    /\ pc \in {"write", "writing"} => Loads(caddyfile)
    /\ pc = "writing" => disk = Torn /\ unfinished

\* The invariant of the controller.
CaddyInv == TypeOK /\ FileOfList /\ WritesLoadable /\ DiskIsSound /\ CacheIsTrue

\* A file generated from a list is a file, and keeps the list's services.
LEMMA FileFacts ==
    ASSUME NEW list \in Lists, NEW kind \in Kinds
    PROVE  /\ File(list, kind) \in Files
           /\ File(list, kind).of = list.services
           /\ File(list, kind).kind = kind
BY DEF File, Files, Lists, Kinds

\* What the controller starts from: no services, and no file on disk.
LEMMA EmptyFacts == Empty \in Lists /\ NoFile \in Files /\ Torn \in Files /\ Loads(NoFile)
BY CaddyAssumption DEF Empty, Lists, NoFile, Torn, Files, Kinds, Loads

\* Before the first event.
LEMMA CaddyInitInv == Init => CaddyInv
<1> SUFFICES ASSUME Init PROVE CaddyInv
  OBVIOUS
<1>1. TypeOK
  <2>1. pending \in BOOLEAN /\ unreported \in BOOLEAN /\ available \in BOOLEAN
    BY Zenon DEF Init
  <2>2. restarted \in BOOLEAN /\ failed \in BOOLEAN /\ unfinished \in BOOLEAN
    BY Zenon DEF Init
  <2> QED
    BY <2>1, <2>2, EmptyFacts, CaddyAssumption DEF Init, TypeOK
<1>2. DiskIsSound
  BY EmptyFacts DEF Init, DiskIsSound
<1>3. CacheIsTrue /\ FileOfList /\ WritesLoadable
  BY DEF Init, CacheIsTrue, FileOfList, WritesLoadable
<1> QED
  BY <1>1, <1>2, <1>3 DEF CaddyInv

\* Every step keeps the types.
LEMMA TypeStep == TypeOK /\ [Next]_vars => TypeOK'
<1> SUFFICES ASSUME TypeOK, [Next]_vars PROVE TypeOK'
  OBVIOUS
<1> USE CaddyAssumption
<1>1. CASE Subscribe
  BY <1>1, Zenon DEF Subscribe, TypeOK, onDisk, container, cache, bounds
<1>2. CASE Recv
  BY <1>2, Zenon DEF Recv, TypeOK, onDisk, container, local, cache, bounds
<1>3. CASE ListContainers
  BY <1>3 DEF ListContainers, TypeOK, onDisk, store, container, cache, bounds
<1>4. CASE CheckAvailable
  <2>1. available' \in BOOLEAN /\ failed' \in BOOLEAN
    BY <1>4, Zenon DEF CheckAvailable, TypeOK
  <2> QED
    BY <1>4, <2>1 DEF CheckAvailable, TypeOK, onDisk, store, container, cache, bounds
<1>5. CASE Generate
  <2>1. caddyfile' \in Files
    BY <1>5, FileFacts DEF Generate, TypeOK, Kinds
  <2>2. pc' \in {"load", "write"}
    BY <1>5 DEF Generate
  <2>3. faults' \in 0..MaxFaults /\ UNCHANGED <<changes, stops>>
    BY <1>5 DEF Generate, TypeOK, bounds, Fault
  <2> QED
    BY <1>5, <2>1, <2>2, <2>3 DEF Generate, TypeOK, onDisk, store, container, cache
<1>6. CASE Load
  BY <1>6, Zenon DEF Load, TypeOK, onDisk, store, container, local, bounds
<1>7. CASE Unchanged
  BY <1>7 DEF Unchanged, TypeOK, onDisk, store, container, local, cache, bounds
<1>8. CASE OpenFile \/ Write
  <2>1. unfinished' \in BOOLEAN
    BY <1>8, Zenon DEF OpenFile, Write
  <2> QED
    BY <1>8, <2>1, EmptyFacts DEF OpenFile, Write, TypeOK, store, container, local, cache, bounds
<1>9. CASE ListFails
  BY <1>9 DEF ListFails, TypeOK, onDisk, Fault, store, container, local, cache
<1>10. CASE LoadFails
  <2>1. running' \in Files
    BY <1>10 DEF LoadFails, TypeOK
  <2>2. faults' \in 0..MaxFaults /\ UNCHANGED <<changes, stops>>
    BY <1>10 DEF LoadFails, TypeOK, bounds, Fault
  <2> QED
    BY <1>10, <2>1, <2>2, EmptyFacts DEF LoadFails, TypeOK, onDisk, store, container, local
<1>11. CASE WriteFails
  BY <1>11, EmptyFacts DEF WriteFails, TypeOK, Fault, store, container, local, cache
<1>12. CASE Restart
  <2>1. available' \in BOOLEAN /\ failed' \in BOOLEAN
    BY <1>12, Zenon DEF Restart
  <2> QED
    BY <1>12, <2>1, EmptyFacts DEF Restart, TypeOK, onDisk, Fault, store, container
<1>13. CASE ServicesChange
  <2>1. containers' \in Lists
    BY <1>13 DEF ServicesChange, TypeOK, Lists
  <2> QED
    BY <1>13, <2>1 DEF ServicesChange, TypeOK, onDisk, container, local, cache
<1>14. CASE CaddyStops
  BY <1>14, EmptyFacts DEF CaddyStops, TypeOK, onDisk, store, local, cache
<1>15. CASE CaddyStarts
  BY <1>15 DEF CaddyStarts, TypeOK, onDisk, store, local, cache, bounds
<1>16. CASE ReportCaddy
  <2>1. containers' \in Lists
    BY <1>16, Zenon DEF ReportCaddy, TypeOK, Lists
  <2> QED
    BY <1>16, <2>1, Zenon DEF ReportCaddy, TypeOK, onDisk, local, cache, bounds
<1>17. CASE CheckTimesOut
  <2>1. available' \in BOOLEAN /\ failed' \in BOOLEAN
    BY <1>17, Zenon DEF CheckTimesOut
  <2> QED
    BY <1>17, <2>1 DEF CheckTimesOut, TypeOK, Fault, onDisk, store, container, cache
<1>18. CASE UNCHANGED vars
  BY <1>18 DEF vars, TypeOK, onDisk, store, container, local, cache, bounds
<1> QED
  BY <1>1, <1>2, <1>3, <1>4, <1>5, <1>6, <1>7, <1>8, <1>9, <1>10, <1>11, <1>12, <1>13,
     <1>14, <1>15, <1>16, <1>17, <1>18 DEF Next, Step

\* Every step keeps the rest of the invariant.  Only generating, loading and
\* writing a file, and a start of Caddy, can disturb it.
LEMMA SafetyStep == CaddyInv /\ [Next]_vars => (FileOfList /\ WritesLoadable /\ DiskIsSound /\ CacheIsTrue)'
<1> SUFFICES ASSUME CaddyInv, [Next]_vars
             PROVE  (FileOfList /\ WritesLoadable /\ DiskIsSound /\ CacheIsTrue)'
  OBVIOUS
<1> USE DEF CaddyInv, FileOfList, WritesLoadable, DiskIsSound, CacheIsTrue
<1>1. CASE Subscribe \/ Recv \/ ListContainers \/ ListFails
  BY <1>1 DEF Subscribe, Recv, ListContainers, ListFails, onDisk, store, container, local, cache
<1>2. CASE CheckAvailable \/ CheckTimesOut \/ Unchanged
  BY <1>2 DEF CheckAvailable, CheckTimesOut, Unchanged, onDisk, store, container, local, cache
<1>3. CASE Generate
  <2>1. caddyfile'.of = listed'.services
    BY <1>3, FileFacts DEF Generate, TypeOK, Kinds
  <2>2. pc' = "write" => Loads(caddyfile')
    BY <1>3, FileFacts DEF Generate, TypeOK, Kinds, Loads
  <2> QED
    BY <1>3, <2>1, <2>2 DEF Generate, onDisk, store, container, cache
<1>4. CASE Load
  BY <1>4 DEF Load, onDisk, store, container, local
<1>5. CASE LoadFails
  BY <1>5 DEF LoadFails, onDisk, store, container, local
<1>6. CASE OpenFile \/ Write \/ WriteFails
  BY <1>6 DEF OpenFile, Write, WriteFails, store, container, local, cache
<1>7. CASE Restart
  BY <1>7 DEF Restart, onDisk, store, container
<1>8. CASE ServicesChange \/ ReportCaddy
  BY <1>8 DEF ServicesChange, ReportCaddy, onDisk, container, local, cache
<1>9. CASE CaddyStops \/ CaddyStarts
  BY <1>9 DEF CaddyStops, CaddyStarts, onDisk, store, local, cache
<1>10. CASE UNCHANGED vars
  BY <1>10 DEF vars, onDisk, store, container, local, cache
<1> QED
  BY <1>1, <1>2, <1>3, <1>4, <1>5, <1>6, <1>7, <1>8, <1>9, <1>10 DEF Next, Step

\* CaddyInv is an invariant of the controller.
THEOREM CaddyInvariant == Spec => []CaddyInv
<1>1. CaddyInv /\ [Next]_vars => CaddyInv'
  BY TypeStep, SafetyStep DEF CaddyInv
<1> QED
  BY CaddyInitInv, <1>1, PTL DEF Spec

\* The controller's state is well formed.
THEOREM CaddyTypeCorrect == Spec => []TypeOK
<1>1. CaddyInv => TypeOK
  BY DEF CaddyInv
<1> QED
  BY CaddyInvariant, <1>1, PTL

\* No failed call and no stop of the controller or of Caddy leaves a Caddyfile on
\* disk that Caddy cannot start from or that the controller does not remember, all but
\* a write of the file that was begun and did not end.
THEOREM DiskAlwaysSound == Spec => []DiskIsSound
<1>1. CaddyInv => DiskIsSound
  BY DEF CaddyInv
<1> QED
  BY CaddyInvariant, <1>1, PTL

\* A cached fingerprint is that of the file a Caddy not started since is running.
THEOREM CacheAlwaysTrue == Spec => []CacheIsTrue
<1>1. CaddyInv => CacheIsTrue
  BY DEF CaddyInv
<1> QED
  BY CaddyInvariant, <1>1, PTL

-----------------------------------------------------------------------------
\* A datagram in the queue, and the loops of the driver.
SealedPacket == [of : Nat, packet : Nat]
PumpLoops == {"flush", "receive", "decapsulate", "poll", "send", "timers", "flush again", "failed"}

\* Every packet of S is before every one of T.
Before(S, T) == \A p \in S : \A q \in T : p < q

\* Packets on the wire, queued, kept and with the stack.
Flow(W, Q, K, O) ==
    Before(W, Q) /\ Before(W, K) /\ Before(W, O) /\ Before(Q, K) /\ Before(Q, O) /\ Before(K, O)

\* The types of what the driver holds.
PumpTypes ==
    /\ pump \in PumpLoops /\ received \in Nat
    /\ sent \in Seq(Nat) /\ outgoing \in Seq(Nat) /\ pending_datagrams \in Seq(SealedPacket)
    /\ tunn \in [generation : Nat, session : BOOLEAN, kept : Seq(Nat)]
    /\ written \in Nat /\ incoming \in Nat /\ needs_decapsulate_drain \in BOOLEAN

\* Every packet is in one place, in order, or was lost with its session.
Carried ==
    /\ InOrder(sent) /\ SealedInOrder(pending_datagrams) /\ InOrder(tunn.kept) /\ InOrder(outgoing)
    /\ Flow(Range(sent), PacketsOf(pending_datagrams), Range(tunn.kept), Range(outgoing))

\* No packet is made up, and none is forgotten.
Everywhere == Range(sent) \cup PacketsOf(pending_datagrams) \cup Range(tunn.kept) \cup Range(outgoing) \cup lost
NoneForgotten ==
    /\ Everywhere \subseteq 1..written
    /\ pump # "failed" => 1..written \subseteq Everywhere \cup Elsewhere

\* What Tunn kept is asked for before anything newer is encrypted: until then the
\* queue is full.
DrainsFirst ==
    /\ pump = "decapsulate" => ~needs_decapsulate_drain
    /\ pump = "decapsulate" /\ datagram # "empty" => ~Full /\ ~(tunn.session /\ tunn.kept # <<>>)
    /\ pump \notin {"decapsulate", "failed"} /\ tunn.session /\ tunn.kept # <<>> => needs_decapsulate_drain
    /\ needs_decapsulate_drain /\ (pump \in {"poll", "send"} \/ (pump = "receive" /\ received > 0)) => Full

\* No queue outgrows its limit; no datagram is of an old session.
Limits ==
    /\ Len(pending_datagrams) <= MAX_PENDING_DATAGRAMS
    /\ Len(outgoing) <= MAX_PLAINTEXT_PACKETS /\ incoming <= MAX_PLAINTEXT_PACKETS
    /\ \A i \in DOMAIN pending_datagrams : pending_datagrams[i].of = tunn.generation

\* The invariant of the driver.
PumpInv == PumpTypes /\ Carried /\ NoneForgotten /\ DrainsFirst /\ Limits

-----------------------------------------------------------------------------
\* A packet after all others.
LEMMA AppendPacket ==
    ASSUME NEW s \in Seq(Nat), NEW x \in Nat
    PROVE  /\ Append(s, x) \in Seq(Nat) /\ Range(Append(s, x)) = Range(s) \cup {x}
           /\ InOrder(s) /\ Before(Range(s), {x}) => InOrder(Append(s, x))
           /\ Len(Append(s, x)) = Len(s) + 1
<1> DEFINE t == Append(s, x)
<1>1. /\ t \in Seq(Nat) /\ Len(t) = Len(s) + 1 /\ DOMAIN t = 1..(Len(s) + 1) /\ DOMAIN s = 1..Len(s)
      /\ Len(s) \in Nat /\ t[Len(s) + 1] = x /\ \A i \in 1..Len(s) : t[i] = s[i]
  OBVIOUS
<1> HIDE DEF t
<1>2. Range(t) = Range(s) \cup {x}
  <2>1. ASSUME NEW p \in Range(t) PROVE p \in Range(s) \cup {x}
    <3>1. PICK i \in DOMAIN t : p = t[i]
      BY DEF Range
    <3> QED
      BY <1>1, <3>1 DEF Range
  <2>2. ASSUME NEW i \in DOMAIN s PROVE s[i] \in Range(t)
    <3>1. i \in DOMAIN t /\ t[i] = s[i]
      BY <1>1
    <3> QED
      BY <3>1, Zenon DEF Range
  <2>3. x \in Range(t)
    <3>1. Len(s) + 1 \in DOMAIN t
      BY <1>1
    <3> QED
      BY <1>1, <3>1, Zenon DEF Range
  <2> QED
    BY <2>1, <2>2, <2>3, Zenon DEF Range
<1>3. ASSUME InOrder(s), Before(Range(s), {x}) PROVE InOrder(t)
  <2> SUFFICES ASSUME NEW i \in DOMAIN t, NEW j \in DOMAIN t, i < j PROVE t[i] < t[j]
    BY DEF InOrder
  <2>1. i \in DOMAIN s /\ t[i] = s[i] /\ s[i] \in Range(s)
    BY <1>1 DEF Range
  <2>2. CASE j \in DOMAIN s
    BY <1>1, <1>3, <2>1, <2>2 DEF InOrder
  <2>3. CASE j \notin DOMAIN s
    <3>1. j = Len(s) + 1
      BY <1>1, <2>3
    <3> QED
      BY <1>1, <1>3, <2>1, <3>1 DEF Before
  <2> QED
    BY <2>2, <2>3
<1> QED
  BY <1>1, <1>2, <1>3 DEF t

\* What Tail moves where.
LEMMA TailShift ==
    ASSUME NEW S, NEW s \in Seq(S), s # <<>>
    PROVE  /\ Head(s) \in S /\ Head(s) = s[1] /\ 1 \in DOMAIN s /\ Tail(s) \in Seq(S) /\ Len(Tail(s)) <= Len(s)
           /\ \A i \in DOMAIN Tail(s) : i \in Nat /\ i + 1 \in DOMAIN s /\ 1 < i + 1 /\ Tail(s)[i] = s[i + 1]
           /\ \A i \in DOMAIN s : i # 1 => i - 1 \in DOMAIN Tail(s) /\ Tail(s)[i - 1] = s[i]
<1> DEFINE t == Tail(s)
           n == Len(s)
<1>1. /\ t \in Seq(S) /\ n \in Nat /\ n > 0 /\ Len(t) = n - 1 /\ DOMAIN s = 1..n /\ DOMAIN t = 1..(n - 1)
      /\ Head(s) = s[1] /\ Head(s) \in S
  OBVIOUS
<1>2. \A i \in 1..(n - 1) : t[i] = s[i + 1]
  OBVIOUS
<1> HIDE DEF t, n
<1>3. ASSUME NEW i \in DOMAIN t PROVE i \in Nat /\ i + 1 \in DOMAIN s /\ 1 < i + 1 /\ t[i] = s[i + 1]
  BY <1>1, <1>2
<1>4. ASSUME NEW i \in DOMAIN s, i # 1 PROVE i - 1 \in DOMAIN t /\ t[i - 1] = s[i]
  <2>1. i - 1 \in 1..(n - 1) /\ (i - 1) + 1 = i
    BY <1>1, <1>4
  <2>2. t[i - 1] = s[(i - 1) + 1]
    BY <1>2, <2>1, Zenon
  <2> QED
    BY <1>1, <2>1, <2>2
<1>5. 1 \in DOMAIN s /\ Len(t) <= n
  BY <1>1
<1> QED
  BY <1>1, <1>3, <1>4, <1>5 DEF t, n

\* The first of the packets.
LEMMA FirstPacket ==
    ASSUME NEW s \in Seq(Nat), s # <<>>
    PROVE  /\ Head(s) \in Nat /\ Tail(s) \in Seq(Nat) /\ Range(s) = {Head(s)} \cup Range(Tail(s))
           /\ InOrder(s) => InOrder(Tail(s)) /\ Before({Head(s)}, Range(Tail(s)))
           /\ Len(Tail(s)) <= Len(s)
<1> DEFINE t == Tail(s)
           h == Head(s)
<1>1. h \in Nat /\ h = s[1] /\ 1 \in DOMAIN s /\ t \in Seq(Nat) /\ Len(t) <= Len(s)
  BY TailShift
<1>2. \A i \in DOMAIN t : i \in Nat /\ i + 1 \in DOMAIN s /\ 1 < i + 1 /\ t[i] = s[i + 1]
  BY TailShift
<1>3. \A i \in DOMAIN s : i # 1 => i - 1 \in DOMAIN t /\ t[i - 1] = s[i]
  BY TailShift
<1> HIDE DEF t, h
<1>4. Range(s) = {h} \cup Range(t)
  <2>1. ASSUME NEW i \in DOMAIN s PROVE s[i] \in {h} \cup Range(t)
    BY <1>1, <1>3, Zenon DEF Range
  <2>2. ASSUME NEW i \in DOMAIN t PROVE t[i] \in Range(s)
    BY <1>2, Zenon DEF Range
  <2>3. h \in Range(s)
    BY <1>1, Zenon DEF Range
  <2> QED
    BY <2>1, <2>2, <2>3, Zenon DEF Range
<1>5. ASSUME InOrder(s) PROVE InOrder(t) /\ Before({h}, Range(t))
  <2>1. ASSUME NEW i \in DOMAIN t, NEW j \in DOMAIN t, i < j PROVE t[i] < t[j]
    <3>1. i + 1 < j + 1
      BY <1>2, <2>1
    <3> QED
      BY <1>2, <1>5, <3>1, Zenon DEF InOrder
  <2>2. ASSUME NEW i \in DOMAIN t PROVE h < t[i]
    BY <1>1, <1>2, <1>5, Zenon DEF InOrder
  <2> QED
    BY <2>1, <2>2, Zenon DEF Before, Range, InOrder
<1> QED
  BY <1>1, <1>4, <1>5 DEF t, h

\* A queue that is not full has room for one.
LEMMA RoomForOne ==
    ASSUME NEW n \in Nat, NEW max \in Nat, ~(n >= max)
    PROVE  n + 1 <= max
OBVIOUS

\* What is left of a queue within its limit is within it.
LEMMA FewerFit ==
    ASSUME NEW s \in Seq(Nat), NEW t \in Seq(Nat), NEW max \in Nat, Len(t) <= Len(s), Len(s) <= max
    PROVE  Len(t) <= max
OBVIOUS

\* A datagram behind all others.
LEMMA AppendSealed ==
    ASSUME NEW s \in Seq(SealedPacket), NEW d \in SealedPacket
    PROVE  /\ Append(s, d) \in Seq(SealedPacket) /\ PacketsOf(Append(s, d)) = PacketsOf(s) \cup ({d.packet} \ {0})
           /\ SealedInOrder(s) /\ Before(PacketsOf(s), {d.packet} \ {0}) => SealedInOrder(Append(s, d))
           /\ Len(Append(s, d)) = Len(s) + 1
           /\ \A g : d.of = g /\ (\A i \in DOMAIN s : s[i].of = g)
                     => \A i \in DOMAIN Append(s, d) : Append(s, d)[i].of = g
<1> DEFINE t == Append(s, d)
<1>1. /\ t \in Seq(SealedPacket) /\ Len(t) = Len(s) + 1 /\ DOMAIN t = 1..(Len(s) + 1) /\ DOMAIN s = 1..Len(s)
      /\ Len(s) \in Nat /\ t[Len(s) + 1] = d /\ \A i \in 1..Len(s) : t[i] = s[i]
  OBVIOUS
<1> HIDE DEF t
<1>2. PacketsOf(t) = PacketsOf(s) \cup ({d.packet} \ {0})
  <2>1. ASSUME NEW i \in DOMAIN t, t[i].packet # 0 PROVE t[i].packet \in PacketsOf(s) \cup ({d.packet} \ {0})
    <3>1. i = Len(s) + 1 \/ i \in DOMAIN s
      BY <1>1
    <3> QED
      BY <1>1, <2>1, <3>1, Zenon DEF PacketsOf
  <2>2. ASSUME NEW i \in DOMAIN s, s[i].packet # 0 PROVE s[i].packet \in PacketsOf(t)
    <3>1. i \in DOMAIN t /\ t[i] = s[i]
      BY <1>1
    <3> QED
      BY <2>2, <3>1, Zenon DEF PacketsOf
  <2>3. d.packet # 0 => d.packet \in PacketsOf(t)
    <3>1. Len(s) + 1 \in DOMAIN t
      BY <1>1
    <3> QED
      BY <1>1, <3>1, Zenon DEF PacketsOf
  <2>4. PacketsOf(t) \subseteq PacketsOf(s) \cup ({d.packet} \ {0})
    <3>1. ASSUME NEW p \in PacketsOf(t) PROVE \E i \in DOMAIN t : t[i].packet # 0 /\ p = t[i].packet
      BY Zenon DEF PacketsOf
    <3> QED
      BY <2>1, <3>1, Zenon
  <2>5. PacketsOf(s) \subseteq PacketsOf(t)
    <3>1. ASSUME NEW p \in PacketsOf(s) PROVE \E i \in DOMAIN s : s[i].packet # 0 /\ p = s[i].packet
      BY Zenon DEF PacketsOf
    <3> QED
      BY <2>2, <3>1, Zenon
  <2> QED
    BY <2>3, <2>4, <2>5, Zenon
<1>3. ASSUME SealedInOrder(s), Before(PacketsOf(s), {d.packet} \ {0}) PROVE SealedInOrder(t)
  <2> SUFFICES ASSUME NEW i \in DOMAIN t, NEW j \in DOMAIN t, i < j, t[i].packet # 0, t[j].packet # 0
               PROVE  t[i].packet < t[j].packet
    BY DEF SealedInOrder
  <2>1. i \in DOMAIN s /\ t[i] = s[i]
    BY <1>1
  <2>2. CASE j \in DOMAIN s
    BY <1>1, <1>3, <2>1, <2>2 DEF SealedInOrder
  <2>3. CASE j \notin DOMAIN s
    <3>1. j = Len(s) + 1
      BY <1>1, <2>3
    <3>2. s[i].packet \in PacketsOf(s) /\ t[j].packet \in {d.packet} \ {0}
      BY <1>1, <2>1, <3>1, Zenon DEF PacketsOf
    <3> QED
      BY <1>3, <2>1, <3>2 DEF Before
  <2> QED
    BY <2>2, <2>3
<1>4. ASSUME NEW g, d.of = g, \A i \in DOMAIN s : s[i].of = g PROVE \A i \in DOMAIN t : t[i].of = g
  BY <1>1, <1>4
<1> QED
  BY <1>1, <1>2, <1>3, <1>4 DEF t

\* The first of the datagrams.
LEMMA FirstSealed ==
    ASSUME NEW s \in Seq(SealedPacket), s # <<>>
    PROVE  /\ Head(s) \in SealedPacket /\ Tail(s) \in Seq(SealedPacket)
           /\ PacketsOf(s) = ({Head(s).packet} \ {0}) \cup PacketsOf(Tail(s))
           /\ SealedInOrder(s) => SealedInOrder(Tail(s)) /\ Before({Head(s).packet} \ {0}, PacketsOf(Tail(s)))
           /\ Len(Tail(s)) <= Len(s)
           /\ \A g : (\A i \in DOMAIN s : s[i].of = g) => \A i \in DOMAIN Tail(s) : Tail(s)[i].of = g
<1> DEFINE t == Tail(s)
           h == Head(s)
<1>1. h \in SealedPacket /\ h = s[1] /\ 1 \in DOMAIN s /\ t \in Seq(SealedPacket) /\ Len(t) <= Len(s)
  BY TailShift
<1>2. \A i \in DOMAIN t : i \in Nat /\ i + 1 \in DOMAIN s /\ 1 < i + 1 /\ t[i] = s[i + 1]
  BY TailShift
<1>3. \A i \in DOMAIN s : i # 1 => i - 1 \in DOMAIN t /\ t[i - 1] = s[i]
  BY TailShift
<1> HIDE DEF t, h
<1>4. PacketsOf(s) = ({h.packet} \ {0}) \cup PacketsOf(t)
  <2>1. ASSUME NEW i \in DOMAIN s, s[i].packet # 0 PROVE s[i].packet \in ({h.packet} \ {0}) \cup PacketsOf(t)
    BY <1>1, <1>3, <2>1, Zenon DEF PacketsOf
  <2>2. ASSUME NEW i \in DOMAIN t, t[i].packet # 0 PROVE t[i].packet \in PacketsOf(s)
    BY <1>2, <2>2, Zenon DEF PacketsOf
  <2>3. h.packet # 0 => h.packet \in PacketsOf(s)
    BY <1>1, Zenon DEF PacketsOf
  <2> QED
    BY <2>1, <2>2, <2>3, Zenon DEF PacketsOf
<1>5. ASSUME SealedInOrder(s) PROVE SealedInOrder(t) /\ Before({h.packet} \ {0}, PacketsOf(t))
  <2>1. ASSUME NEW i \in DOMAIN t, NEW j \in DOMAIN t, i < j, t[i].packet # 0, t[j].packet # 0
        PROVE  t[i].packet < t[j].packet
    <3>1. i + 1 < j + 1
      BY <1>2, <2>1
    <3> QED
      BY <1>2, <1>5, <2>1, <3>1, Zenon DEF SealedInOrder
  <2>2. ASSUME NEW i \in DOMAIN t, t[i].packet # 0, h.packet # 0 PROVE h.packet < t[i].packet
    BY <1>1, <1>2, <1>5, <2>2, Zenon DEF SealedInOrder
  <2> QED
    BY <2>1, <2>2, Zenon DEF Before, PacketsOf, SealedInOrder
<1>6. ASSUME NEW g, \A i \in DOMAIN s : s[i].of = g PROVE \A i \in DOMAIN t : t[i].of = g
  BY <1>2, <1>6, Zenon
<1> QED
  BY <1>1, <1>4, <1>5, <1>6 DEF t, h

\* What udp.send takes goes behind what it took.
LEMMA WireKeeps ==
    ASSUME sent \in Seq(Nat), NEW d \in SealedPacket, OnWire(d), InOrder(sent), Before(Range(sent), {d.packet} \ {0})
    PROVE  sent' \in Seq(Nat) /\ Range(sent') = Range(sent) \cup ({d.packet} \ {0}) /\ InOrder(sent')
<1>1. d.packet \in Nat
  BY DEF SealedPacket
<1>2. CASE d.packet = 0
  BY <1>2 DEF OnWire
<1>3. CASE d.packet # 0
  <2>1. sent' = Append(sent, d.packet) /\ {d.packet} \ {0} = {d.packet}
    BY <1>3 DEF OnWire
  <2> QED
    BY <1>1, <2>1, AppendPacket, Zenon
<1> QED
  BY <1>2, <1>3

\* An empty queue has no packets.
LEMMA NoneQueued == PacketsOf(<<>>) = {} /\ SealedInOrder(<<>>) /\ Range(<<>>) = {} /\ InOrder(<<>>)
BY DEF PacketsOf, SealedInOrder, Range, InOrder

\* queue_datagram: a later packet goes behind the others, on the wire or in the
\* queue, or the driver ends.
LEMMA QueueKeeps ==
    ASSUME PumpAssumption, PumpTypes, Limits, ~Full, InOrder(sent), SealedInOrder(pending_datagrams),
           Before(Range(sent), PacketsOf(pending_datagrams)),
           NEW d \in SealedPacket, d.of = tunn.generation, NEW next, QueueDatagram(d, next),
           Before(Range(sent), {d.packet} \ {0}), Before(PacketsOf(pending_datagrams), {d.packet} \ {0})
    PROVE  /\ sent' \in Seq(Nat) /\ pending_datagrams' \in Seq(SealedPacket) /\ pump' \in {next, "failed"}
           /\ InOrder(sent') /\ SealedInOrder(pending_datagrams')
           /\ Before(Range(sent'), PacketsOf(pending_datagrams'))
           /\ Range(sent') \cup PacketsOf(pending_datagrams')
                  \subseteq Range(sent) \cup PacketsOf(pending_datagrams) \cup ({d.packet} \ {0})
           /\ pump' # "failed" => Range(sent) \cup PacketsOf(pending_datagrams) \cup ({d.packet} \ {0})
                                      \subseteq Range(sent') \cup PacketsOf(pending_datagrams')
           /\ Len(pending_datagrams') <= MAX_PENDING_DATAGRAMS
           /\ \A i \in DOMAIN pending_datagrams' : pending_datagrams'[i].of = tunn.generation
<1>0. sent \in Seq(Nat) /\ pending_datagrams \in Seq(SealedPacket)
  BY DEF PumpTypes
<1>1. CASE pending_datagrams = <<>> /\ OnWire(d) /\ pump' = next /\ UNCHANGED pending_datagrams
  <2>1. sent' \in Seq(Nat) /\ Range(sent') = Range(sent) \cup ({d.packet} \ {0}) /\ InOrder(sent')
    BY <1>0, <1>1, WireKeeps
  <2>2. PacketsOf(pending_datagrams) = {} /\ PacketsOf(pending_datagrams') = {}
    BY <1>1, NoneQueued
  <2> QED
    BY <1>0, <1>1, <2>1, <2>2 DEF Before, Limits
<1>2. CASE pump' = "failed" /\ UNCHANGED <<sent, pending_datagrams>>
  BY <1>0, <1>2 DEF Limits
<1>3. CASE pump' = next /\ pending_datagrams' = Append(pending_datagrams, d) /\ UNCHANGED sent
  <2>1. /\ pending_datagrams' \in Seq(SealedPacket) /\ SealedInOrder(pending_datagrams')
        /\ PacketsOf(pending_datagrams') = PacketsOf(pending_datagrams) \cup ({d.packet} \ {0})
        /\ Len(pending_datagrams') = Len(pending_datagrams) + 1
        /\ \A i \in DOMAIN pending_datagrams' : pending_datagrams'[i].of = tunn.generation
    BY <1>0, <1>3, AppendSealed DEF Limits
  <2>2. Len(pending_datagrams') <= MAX_PENDING_DATAGRAMS
    <3>1. Len(pending_datagrams) \in Nat
      BY <1>0
    <3>2. ~(Len(pending_datagrams) >= MAX_PENDING_DATAGRAMS) /\ MAX_PENDING_DATAGRAMS \in Nat
      BY Zenon DEF Full, PumpAssumption
    <3>3. Len(pending_datagrams') = Len(pending_datagrams) + 1
      BY <2>1, Zenon
    <3> QED
      BY <3>1, <3>2, <3>3, RoomForOne, Zenon
  <2>3. Before(Range(sent'), PacketsOf(pending_datagrams'))
    BY <1>3, <2>1 DEF Before
  <2> QED
    BY <1>0, <1>3, <2>1, <2>2, <2>3
<1> QED
  BY <1>1, <1>2, <1>3, Zenon DEF QueueDatagram

\* The order of what is on its way, once a packet D is queued.
LEMMA FlowQueued ==
    ASSUME NEW W, NEW Q, NEW K, NEW O, NEW D, NEW W1, NEW Q1, Flow(W, Q, K, O), Before(D, K), Before(D, O),
           Before(W1, Q1), W1 \cup Q1 \subseteq W \cup Q \cup D
    PROVE  Flow(W1, Q1, K, O)
<1>1. Before(W1, K) /\ Before(W1, O) /\ Before(Q1, K) /\ Before(Q1, O)
  BY DEF Flow, Before
<1> QED
  BY <1>1 DEF Flow

\* Every value the invariant reads.
LEMMA PumpStutters == PumpInv /\ UNCHANGED pumpVars => PumpInv'
BY DEF PumpInv, PumpTypes, Carried, NoneForgotten, Everywhere, DrainsFirst, Limits, Full, pumpVars

\* Steps that move no packet of the stack.
LEMMA NothingMoves ==
    ASSUME PumpInv, UNCHANGED <<sent, pending_datagrams, tunn, outgoing, written, lost>>, pump # "failed"
    PROVE  Carried' /\ NoneForgotten'
BY DEF PumpInv, Carried, NoneForgotten, Everywhere

\* flush_datagrams takes the oldest datagram, or stops at a socket that blocks.
LEMMA FlushKeeps ==
    ASSUME PumpAssumption, PumpInv, FlushDatagrams
    PROVE  PumpInv'
<1>1. CASE pending_datagrams # <<>> /\ OnWire(Head(pending_datagrams)) /\ pending_datagrams' = Tail(pending_datagrams) /\ UNCHANGED pump
  <2> DEFINE d == Head(pending_datagrams)
             D == {d.packet} \ {0}
  <2>0. sent \in Seq(Nat) /\ pending_datagrams \in Seq(SealedPacket)
    BY DEF PumpInv, PumpTypes
  <2>1. /\ d \in SealedPacket /\ pending_datagrams' \in Seq(SealedPacket) /\ SealedInOrder(pending_datagrams')
        /\ PacketsOf(pending_datagrams) = D \cup PacketsOf(pending_datagrams')
        /\ Before(D, PacketsOf(pending_datagrams')) /\ Len(pending_datagrams') <= Len(pending_datagrams)
        /\ \A i \in DOMAIN pending_datagrams' : pending_datagrams'[i].of = tunn.generation
    BY <1>1, <2>0, FirstSealed, Zenon DEF PumpInv, Carried, Limits
  <2>2. Before(Range(sent), D)
    BY <2>1, Zenon DEF PumpInv, Carried, Flow, Before
  <2>3. sent' \in Seq(Nat) /\ Range(sent') = Range(sent) \cup D /\ InOrder(sent')
    BY <1>1, <2>0, <2>1, <2>2, WireKeeps, Zenon DEF PumpInv, Carried
  <2> HIDE DEF d, D
  <2>4. UNCHANGED <<needs_decapsulate_drain, incoming, outgoing, tunn, written, lost, pump, datagram>> /\ received' = 0
    BY <1>1, Zenon DEF FlushDatagrams
  <2>5. PumpTypes'
    BY <2>1, <2>3, <2>4 DEF PumpInv, PumpTypes
  <2>6. Flow(Range(sent'), PacketsOf(pending_datagrams'), Range(tunn.kept), Range(outgoing))
    <3>1. Flow(Range(sent), PacketsOf(pending_datagrams), Range(tunn.kept), Range(outgoing))
      BY DEF PumpInv, Carried
    <3>2. Before(D, Range(tunn.kept)) /\ Before(D, Range(outgoing)) /\ Before(Range(sent'), PacketsOf(pending_datagrams'))
      BY <2>1, <2>3, <3>1 DEF Flow, Before
    <3>3. Range(sent') \cup PacketsOf(pending_datagrams') \subseteq Range(sent) \cup PacketsOf(pending_datagrams) \cup D
      BY <2>1, <2>3
    <3> QED
      BY <3>1, <3>2, <3>3, FlowQueued, Zenon
  <2>7. Carried'
    BY <2>1, <2>3, <2>4, <2>6, Zenon DEF PumpInv, Carried
  <2>8. Everywhere' = Everywhere
    BY <2>1, <2>3, <2>4 DEF Everywhere
  <2>9. NoneForgotten'
    BY <2>4, <2>8 DEF PumpInv, NoneForgotten
  <2>10. DrainsFirst'
    <3>1. pump \notin {"decapsulate", "failed", "poll", "send", "receive"}
      BY Zenon DEF FlushDatagrams
    <3>2. tunn.session /\ tunn.kept # <<>> => needs_decapsulate_drain
      BY <3>1, Zenon DEF PumpInv, DrainsFirst
    <3>3. pump' \notin {"decapsulate", "failed", "poll", "send", "receive"}
      BY <2>4, <3>1
    <3> QED
      BY <2>4, <3>2, <3>3, Zenon DEF DrainsFirst
  <2>11. Limits'
    BY <2>0, <2>1, <2>4, PumpAssumption DEF PumpInv, Limits, PumpAssumption
  <2> QED
    BY <2>5, <2>7, <2>9, <2>10, <2>11 DEF PumpInv
<1>2. CASE pump' \in {"receive", "flush", "failed"} /\ UNCHANGED <<sent, pending_datagrams>>
  <2>1. /\ UNCHANGED <<needs_decapsulate_drain, incoming, outgoing, tunn, written, lost, sent, pending_datagrams>>
        /\ received' = 0 /\ pump \in {"flush", "flush again"}
    BY <1>2, Zenon DEF FlushDatagrams
  <2>2. Carried' /\ NoneForgotten'
    BY <2>1, NothingMoves, Zenon
  <2>3. PumpTypes' /\ Limits'
    BY <1>2, <2>1, Zenon DEF PumpInv, PumpTypes, Limits, PumpLoops
  <2>4. DrainsFirst'
    <3>0. ~(0 > 0)
      OBVIOUS
    <3>1. pump' \notin {"decapsulate", "poll", "send"} /\ pump \notin {"decapsulate", "failed"}
      BY <1>2, <2>1, Zenon
    <3>2. tunn.session /\ tunn.kept # <<>> => needs_decapsulate_drain
      BY <3>1, Zenon DEF PumpInv, DrainsFirst
    <3> QED
      BY <2>1, <3>0, <3>1, <3>2, Zenon DEF DrainsFirst
  <2> QED
    BY <2>2, <2>3, <2>4 DEF PumpInv
<1> QED
  BY <1>1, <1>2, Zenon DEF FlushDatagrams

\* receive_datagrams goes on only with room in the queue and nothing left in Tunn.
LEMMA ReceiveKeeps ==
    ASSUME PumpAssumption, PumpInv, ReceiveDatagrams
    PROVE  PumpInv'
<1>1. UNCHANGED <<pending_datagrams, incoming, outgoing, tunn, written, sent, lost>> /\ pump = "receive" /\ received \in Nat
  BY Zenon DEF ReceiveDatagrams, PumpInv, PumpTypes
<1>2. Carried' /\ NoneForgotten'
  BY <1>1, NothingMoves
<1>3. pump' \in {"poll", "failed", "decapsulate"} /\ received' \in Nat /\ needs_decapsulate_drain' \in BOOLEAN
  <2>1. pump' \in {"poll", "failed", "decapsulate"}
    BY Zenon DEF ReceiveDatagrams
  <2>2. received' \in {received, received + 1}
    BY Zenon DEF ReceiveDatagrams
  <2>3. needs_decapsulate_drain' \in {needs_decapsulate_drain, FALSE} /\ needs_decapsulate_drain \in BOOLEAN
    BY Zenon DEF ReceiveDatagrams, PumpInv, PumpTypes
  <2>4. received' \in Nat
    BY <1>1, <2>2
  <2>5. needs_decapsulate_drain' \in BOOLEAN
    BY <2>3, Zenon
  <2> QED
    BY <2>1, <2>4, <2>5, Zenon
<1>4. PumpTypes' /\ Limits'
  BY <1>1, <1>3, Zenon DEF PumpInv, PumpTypes, Limits, PumpLoops
<1>5. MAX_DATAGRAMS_PER_TICK > 0
  BY DEF PumpAssumption
<1>6. UNCHANGED Full
  BY <1>1 DEF Full
<1>7. DrainsFirst'
  <2>0. /\ tunn.session /\ tunn.kept # <<>> => needs_decapsulate_drain
        /\ needs_decapsulate_drain /\ received > 0 => Full
    BY <1>1 DEF PumpInv, DrainsFirst
  <2>1. CASE Full
    BY <1>1, <1>6, <2>0, <2>1 DEF ReceiveDatagrams, DrainsFirst
  <2>2. CASE ~Full /\ received = MAX_DATAGRAMS_PER_TICK
    BY <1>1, <1>5, <1>6, <2>0, <2>2 DEF ReceiveDatagrams, DrainsFirst
  <2>3. CASE ~Full /\ received # MAX_DATAGRAMS_PER_TICK /\ received = 0 /\ needs_decapsulate_drain
    BY <1>1, <1>6, <2>3, Zenon DEF ReceiveDatagrams, DrainsFirst
  <2>4. CASE ~Full /\ received # MAX_DATAGRAMS_PER_TICK /\ ~(received = 0 /\ needs_decapsulate_drain)
    <3>0. received = 0 \/ received > 0
      BY <1>1
    <3>1. ~needs_decapsulate_drain /\ ~needs_decapsulate_drain' /\ ~(tunn.session /\ tunn.kept # <<>>)
      BY <1>1, <2>0, <2>4, <3>0, Zenon DEF ReceiveDatagrams
    <3> QED
      BY <1>1, <1>6, <2>4, <3>1 DEF DrainsFirst
  <2> QED
    BY <2>1, <2>2, <2>3, <2>4
<1> QED
  BY <1>2, <1>4, <1>7 DEF PumpInv

\* What is left in Tunn is remembered.
LEMMA DecapsulateFullKeeps ==
    ASSUME PumpAssumption, PumpInv, DecapsulateFull
    PROVE  PumpInv'
<1>1. Carried' /\ NoneForgotten'
  BY NothingMoves DEF DecapsulateFull
<1>2. PumpTypes' /\ Limits'
  BY DEF DecapsulateFull, PumpInv, PumpTypes, Limits, PumpLoops
<1>3. DrainsFirst'
  BY DEF DecapsulateFull, DrainsFirst, Full
<1> QED
  BY <1>1, <1>2, <1>3 DEF PumpInv

\* A packet for the stack leaves the others alone.
LEMMA DecapsulateToTunnelKeeps ==
    ASSUME PumpAssumption, PumpInv, DecapsulateToTunnel
    PROVE  PumpInv'
<1>1. Carried' /\ NoneForgotten'
  BY NothingMoves, Zenon DEF DecapsulateToTunnel
<1>2. incoming' \in Nat /\ incoming' <= MAX_PLAINTEXT_PACKETS
  <2>1. incoming \in Nat /\ incoming <= MAX_PLAINTEXT_PACKETS
    BY DEF PumpInv, PumpTypes, Limits
  <2>2. incoming' = incoming \/ (incoming < MAX_PLAINTEXT_PACKETS /\ incoming' = incoming + 1)
    BY Zenon DEF DecapsulateToTunnel
  <2> QED
    BY <2>1, <2>2 DEF PumpAssumption
<1>3. PumpTypes' /\ Limits'
  BY <1>2, Zenon DEF DecapsulateToTunnel, PumpInv, PumpTypes, Limits
<1>4. DrainsFirst'
  BY Zenon DEF DecapsulateToTunnel, PumpInv, DrainsFirst
<1> QED
  BY <1>1, <1>3, <1>4 DEF PumpInv

\* reset_tunnel: what was encrypted or kept is lost, the rest waits.
LEMMA ResetKeeps ==
    ASSUME PumpAssumption, PumpInv, ResetTunnel, UNCHANGED <<sent, outgoing, written, incoming, received>>,
           pump' \in PumpLoops \ {"decapsulate"}, pump # "failed"
    PROVE  PumpInv'
<1>0. /\ tunn.generation \in Nat /\ tunn' = NewTunn(tunn.generation + 1) /\ tunn'.kept = <<>> /\ ~tunn'.session
      /\ pending_datagrams' = <<>> /\ needs_decapsulate_drain' = FALSE
      /\ lost' = lost \cup PacketsOf(pending_datagrams) \cup Range(tunn.kept)
  BY DEF ResetTunnel, NewTunn, PumpInv, PumpTypes
<1>1. PacketsOf(pending_datagrams') = {} /\ Range(tunn'.kept) = {} /\ SealedInOrder(pending_datagrams') /\ InOrder(tunn'.kept)
  BY <1>0, NoneQueued
<1>2. PumpTypes'
  <2>1. pending_datagrams' \in Seq(SealedPacket)
    BY <1>0
  <2>2. tunn' \in [generation : Nat, session : BOOLEAN, kept : Seq(Nat)]
    <3>1. tunn.generation + 1 \in Nat /\ <<>> \in Seq(Nat)
      BY <1>0
    <3> QED
      BY <1>0, <3>1, Zenon DEF NewTunn
  <2> QED
    BY <1>0, <2>1, <2>2, Zenon DEF PumpInv, PumpTypes
<1>3. Carried'
  <2>1. Flow(Range(sent), {}, {}, Range(outgoing))
    BY DEF PumpInv, Carried, Flow, Before
  <2> QED
    BY <1>1, <2>1 DEF PumpInv, Carried
<1>4. Everywhere' = Everywhere
  BY <1>0, <1>1 DEF Everywhere
<1>5. NoneForgotten'
  BY <1>4 DEF PumpInv, NoneForgotten
<1>6. DrainsFirst' /\ Limits'
  BY <1>0 DEF PumpInv, DrainsFirst, Limits, PumpAssumption
<1> QED
  BY <1>2, <1>3, <1>5, <1>6 DEF PumpInv

\* The end of the loop: nothing is left in Tunn, or all of it is lost.
LEMMA DecapsulateDoneKeeps ==
    ASSUME PumpAssumption, PumpInv, DecapsulateDone
    PROVE  PumpInv'
<1>1. CASE datagram = "expired"
  <2>1. ResetTunnel /\ UNCHANGED <<sent, outgoing, written, incoming, received>> /\ pump' = "receive" /\ pump # "failed"
    BY <1>1 DEF DecapsulateDone
  <2> QED
    BY <2>1, ResetKeeps DEF PumpLoops
<1>2. CASE datagram # "expired"
  <2>1. /\ UNCHANGED <<tunn, pending_datagrams, needs_decapsulate_drain, lost, received, incoming, outgoing, written, sent>>
        /\ pump = "decapsulate" /\ pump' = "receive"
    BY <1>2, Zenon DEF DecapsulateDone
  <2>2. Carried' /\ NoneForgotten'
    BY <2>1, NothingMoves
  <2>3. PumpTypes' /\ Limits'
    BY <2>1 DEF PumpInv, PumpTypes, Limits, PumpLoops
  <2>4. ~(tunn.session /\ tunn.kept # <<>>) /\ ~needs_decapsulate_drain
    BY <1>2, <2>1, Zenon DEF DecapsulateDone, PumpInv, DrainsFirst
  <2>5. DrainsFirst'
    BY <2>1, <2>4 DEF DrainsFirst
  <2> QED
    BY <2>2, <2>3, <2>5 DEF PumpInv
<1> QED
  BY <1>1, <1>2

\* A datagram of Tunn's own is before and after every packet.
LEMMA OwnQueued ==
    ASSUME PumpAssumption, PumpInv, ~Full, NEW next, QueueDatagram(Sealed(0), next)
    PROVE  /\ sent' \in Seq(Nat) /\ pending_datagrams' \in Seq(SealedPacket) /\ pump' \in {next, "failed"}
           /\ InOrder(sent') /\ SealedInOrder(pending_datagrams')
           /\ Flow(Range(sent'), PacketsOf(pending_datagrams'), Range(tunn.kept), Range(outgoing))
           /\ Range(sent') \cup PacketsOf(pending_datagrams') \subseteq Range(sent) \cup PacketsOf(pending_datagrams)
           /\ pump' # "failed" => Range(sent) \cup PacketsOf(pending_datagrams) \subseteq Range(sent') \cup PacketsOf(pending_datagrams')
           /\ Len(pending_datagrams') <= MAX_PENDING_DATAGRAMS
           /\ \A i \in DOMAIN pending_datagrams' : pending_datagrams'[i].of = tunn.generation
<1> DEFINE d == Sealed(0)
           D == {d.packet} \ {0}
<1>1. d \in SealedPacket /\ d.of = tunn.generation /\ D = {}
  BY DEF Sealed, SealedPacket, PumpInv, PumpTypes
<1>2. Before(Range(sent), D) /\ Before(PacketsOf(pending_datagrams), D) /\ Before(D, Range(tunn.kept)) /\ Before(D, Range(outgoing))
  BY <1>1 DEF Before
<1>3. QueueDatagram(d, next)
  OBVIOUS
<1> HIDE DEF d
<1>4. /\ PumpTypes /\ Limits /\ InOrder(sent) /\ SealedInOrder(pending_datagrams)
      /\ Flow(Range(sent), PacketsOf(pending_datagrams), Range(tunn.kept), Range(outgoing))
      /\ Before(Range(sent), PacketsOf(pending_datagrams))
  BY DEF PumpInv, Carried, Flow
<1>5. /\ sent' \in Seq(Nat) /\ pending_datagrams' \in Seq(SealedPacket) /\ pump' \in {next, "failed"}
      /\ InOrder(sent') /\ SealedInOrder(pending_datagrams')
      /\ Before(Range(sent'), PacketsOf(pending_datagrams'))
      /\ Range(sent') \cup PacketsOf(pending_datagrams') \subseteq Range(sent) \cup PacketsOf(pending_datagrams) \cup D
      /\ pump' # "failed" => Range(sent) \cup PacketsOf(pending_datagrams) \cup D
                                 \subseteq Range(sent') \cup PacketsOf(pending_datagrams')
      /\ Len(pending_datagrams') <= MAX_PENDING_DATAGRAMS
      /\ \A i \in DOMAIN pending_datagrams' : pending_datagrams'[i].of = tunn.generation
  BY <1>1, <1>2, <1>3, <1>4, QueueKeeps, Zenon
<1> HIDE DEF D
<1>6. Flow(Range(sent'), PacketsOf(pending_datagrams'), Range(tunn.kept), Range(outgoing))
  BY <1>2, <1>4, <1>5, FlowQueued, Zenon
<1> QED
  BY <1>1, <1>5, <1>6, Zenon

\* What Tunn kept goes behind what is queued.
LEMMA DecapsulateToNetworkKeeps ==
    ASSUME PumpAssumption, PumpInv, DecapsulateToNetwork
    PROVE  PumpInv'
<1>0. /\ pump = "decapsulate" /\ ~Full /\ datagram' = "empty" /\ ~needs_decapsulate_drain
      /\ UNCHANGED <<received, needs_decapsulate_drain, incoming, outgoing, written, lost>>
      /\ tunn \in [generation : Nat, session : BOOLEAN, kept : Seq(Nat)]
  BY DEF DecapsulateToNetwork, PumpInv, DrainsFirst, PumpTypes
<1>1. CASE datagram = "response"
  <2>1. tunn' = [tunn EXCEPT !.session = TRUE] /\ QueueDatagram(Sealed(0), "decapsulate")
    BY <1>1 DEF DecapsulateToNetwork
  <2>2. tunn' \in [generation : Nat, session : BOOLEAN, kept : Seq(Nat)] /\ tunn'.kept = tunn.kept /\ tunn'.generation = tunn.generation
    BY <1>0, <2>1, Zenon
  <2>3. /\ sent' \in Seq(Nat) /\ pending_datagrams' \in Seq(SealedPacket) /\ pump' \in {"decapsulate", "failed"}
        /\ InOrder(sent') /\ SealedInOrder(pending_datagrams')
        /\ Flow(Range(sent'), PacketsOf(pending_datagrams'), Range(tunn.kept), Range(outgoing))
        /\ Range(sent') \cup PacketsOf(pending_datagrams') \subseteq Range(sent) \cup PacketsOf(pending_datagrams)
        /\ pump' # "failed" => Range(sent) \cup PacketsOf(pending_datagrams) \subseteq Range(sent') \cup PacketsOf(pending_datagrams')
        /\ Len(pending_datagrams') <= MAX_PENDING_DATAGRAMS
        /\ \A i \in DOMAIN pending_datagrams' : pending_datagrams'[i].of = tunn.generation
    BY <1>0, <2>1, OwnQueued, Zenon
  <2>4. PumpTypes' /\ Limits'
    BY <1>0, <2>2, <2>3, Zenon DEF PumpInv, PumpTypes, Limits, PumpLoops
  <2>5. Carried'
    BY <1>0, <2>2, <2>3, Zenon DEF PumpInv, Carried
  <2>6. Everywhere' \subseteq Everywhere /\ (pump' # "failed" => Everywhere \subseteq Everywhere')
    BY <1>0, <2>2, <2>3, Zenon DEF Everywhere
  <2>7. NoneForgotten'
    BY <1>0, <2>6 DEF PumpInv, NoneForgotten
  <2>8. DrainsFirst'
    BY <1>0, <2>3 DEF DrainsFirst
  <2> QED
    BY <2>4, <2>5, <2>7, <2>8 DEF PumpInv
<1>2. CASE datagram # "response"
  <2> DEFINE h == Head(tunn.kept)
             d == Sealed(h)
             D == {d.packet} \ {0}
  <2>1. /\ tunn' = [tunn EXCEPT !.kept = Tail(@)] /\ QueueDatagram(d, "decapsulate")
        /\ tunn.kept # <<>> /\ tunn.kept \in Seq(Nat)
    BY <1>0, <1>2 DEF DecapsulateToNetwork
  <2>2. /\ tunn' \in [generation : Nat, session : BOOLEAN, kept : Seq(Nat)]
        /\ tunn'.kept = Tail(tunn.kept) /\ tunn'.generation = tunn.generation
    BY <1>0, <2>1, FirstPacket, Zenon
  <2>3. h \in Nat /\ Range(tunn.kept) = {h} \cup Range(tunn'.kept) /\ InOrder(tunn'.kept) /\ Before({h}, Range(tunn'.kept))
    BY <2>1, <2>2, FirstPacket, Zenon DEF PumpInv, Carried
  <2>4. d \in SealedPacket /\ d.of = tunn.generation /\ d.packet = h
    BY <1>0, <2>3, Zenon DEF Sealed, SealedPacket
  <2> HIDE DEF d, h
  <2>5. D = {h}
    <3>1. h \in Range(tunn.kept) /\ written \in Nat
      BY <2>3 DEF PumpInv, PumpTypes
    <3>2. h \in 1..written
      BY <3>1 DEF PumpInv, NoneForgotten, Everywhere
    <3>3. h # 0
      BY <3>1, <3>2
    <3> QED
      BY <2>4, <3>3, Zenon
  <2> HIDE DEF D
  <2>6. /\ PumpTypes /\ Limits /\ InOrder(sent) /\ SealedInOrder(pending_datagrams)
        /\ Flow(Range(sent), PacketsOf(pending_datagrams), Range(tunn.kept), Range(outgoing))
        /\ Before(Range(sent), PacketsOf(pending_datagrams))
    BY DEF PumpInv, Carried, Flow
  <2>7. /\ Before(Range(sent), D) /\ Before(PacketsOf(pending_datagrams), D)
        /\ Before(D, Range(tunn'.kept)) /\ Before(D, Range(outgoing))
        /\ Flow(Range(sent), PacketsOf(pending_datagrams), Range(tunn'.kept), Range(outgoing))
    BY <2>3, <2>5, <2>6 DEF Flow, Before
  <2>8. /\ sent' \in Seq(Nat) /\ pending_datagrams' \in Seq(SealedPacket) /\ pump' \in {"decapsulate", "failed"}
        /\ InOrder(sent') /\ SealedInOrder(pending_datagrams')
        /\ Before(Range(sent'), PacketsOf(pending_datagrams'))
        /\ Range(sent') \cup PacketsOf(pending_datagrams') \subseteq Range(sent) \cup PacketsOf(pending_datagrams) \cup D
        /\ pump' # "failed" => Range(sent) \cup PacketsOf(pending_datagrams) \cup D
                                   \subseteq Range(sent') \cup PacketsOf(pending_datagrams')
        /\ Len(pending_datagrams') <= MAX_PENDING_DATAGRAMS
        /\ \A i \in DOMAIN pending_datagrams' : pending_datagrams'[i].of = tunn.generation
    BY <1>0, <2>1, <2>4, <2>6, <2>7, QueueKeeps, Zenon DEF D
  <2>9. Flow(Range(sent'), PacketsOf(pending_datagrams'), Range(tunn'.kept), Range(outgoing))
    BY <2>7, <2>8, FlowQueued, Zenon
  <2>10. PumpTypes' /\ Limits'
    BY <1>0, <2>2, <2>8, Zenon DEF PumpInv, PumpTypes, Limits, PumpLoops
  <2>11. Carried'
    BY <1>0, <2>3, <2>8, <2>9 DEF PumpInv, Carried
  <2>12. Everywhere' \subseteq Everywhere /\ (pump' # "failed" => Everywhere \subseteq Everywhere')
    BY <1>0, <2>3, <2>5, <2>8 DEF Everywhere
  <2>13. NoneForgotten'
    BY <1>0, <2>12 DEF PumpInv, NoneForgotten
  <2>14. DrainsFirst'
    BY <1>0, <2>8 DEF DrainsFirst
  <2> QED
    BY <2>10, <2>11, <2>13, <2>14 DEF PumpInv
<1> QED
  BY <1>1, <1>2

\* The stack's next packet is after all others.
LEMMA WritesKeep ==
    ASSUME PumpAssumption, PumpInv, StackWrites, pump = "poll", pump' = "poll",
           UNCHANGED <<received, datagram, pending_datagrams, needs_decapsulate_drain, tunn, sent, lost>>,
           incoming' \in Nat, incoming' <= MAX_PLAINTEXT_PACKETS
    PROVE  PumpInv'
<1> DEFINE n == written + 1
<1>1. /\ n \in Nat /\ written \in Nat /\ outgoing \in Seq(Nat) /\ outgoing' = Append(outgoing, n) /\ written' = n
      /\ Len(outgoing) < MAX_PLAINTEXT_PACKETS
  BY DEF PumpInv, PumpTypes, StackWrites
<1>2. \A p \in Everywhere : p < n
  BY <1>1 DEF PumpInv, NoneForgotten
<1>3. 1..n = 1..written \cup {n}
  BY <1>1
<1> HIDE DEF n
<1>4. Before(Range(outgoing), {n}) /\ Before(Range(sent), {n}) /\ Before(PacketsOf(pending_datagrams), {n}) /\ Before(Range(tunn.kept), {n})
  BY <1>2 DEF Before, Everywhere
<1>5. /\ outgoing' \in Seq(Nat) /\ Range(outgoing') = Range(outgoing) \cup {n} /\ InOrder(outgoing')
      /\ Len(outgoing') = Len(outgoing) + 1
  BY <1>1, <1>4, AppendPacket DEF PumpInv, Carried
<1>6. Len(outgoing') <= MAX_PLAINTEXT_PACKETS
  BY <1>1, <1>5 DEF PumpAssumption
<1>7. PumpTypes' /\ Limits'
  BY <1>1, <1>5, <1>6 DEF PumpInv, PumpTypes, Limits
<1>8. Flow(Range(sent), PacketsOf(pending_datagrams), Range(tunn.kept), Range(outgoing'))
  BY <1>4, <1>5 DEF PumpInv, Carried, Flow, Before
<1>9. Carried'
  BY <1>5, <1>8 DEF PumpInv, Carried
<1>10. Everywhere' = Everywhere \cup {n}
  BY <1>5 DEF Everywhere
<1>11. NoneForgotten'
  BY <1>1, <1>3, <1>10, Zenon DEF PumpInv, NoneForgotten
<1>12. DrainsFirst'
  BY Zenon DEF PumpInv, DrainsFirst, Full
<1> QED
  BY <1>7, <1>9, <1>11, <1>12 DEF PumpInv

\* The stack is polled: it takes packets, and writes new ones.
LEMMA PollKeeps ==
    ASSUME PumpAssumption, PumpInv, PollStack
    PROVE  PumpInv'
<1>0. /\ pump = "poll" /\ UNCHANGED <<datagram, received, pending_datagrams, needs_decapsulate_drain, tunn, sent, lost>>
      /\ incoming \in Nat /\ incoming <= MAX_PLAINTEXT_PACKETS
  BY DEF PollStack, PumpInv, PumpTypes, Limits
<1>1. incoming' \in Nat /\ incoming' <= MAX_PLAINTEXT_PACKETS
  BY <1>0 DEF PollStack, PumpAssumption
<1>2. CASE StackWrites /\ UNCHANGED pump
  BY <1>0, <1>1, <1>2, WritesKeep
<1>3. CASE pump' \in {"poll", "send"} /\ UNCHANGED <<outgoing, written>>
  <2>1. Carried' /\ NoneForgotten'
    BY <1>0, <1>3, NothingMoves
  <2>2. PumpTypes' /\ Limits'
    BY <1>0, <1>1, <1>3, Zenon DEF PumpInv, PumpTypes, Limits, PumpLoops
  <2>3. DrainsFirst'
    BY <1>0, <1>3 DEF PumpInv, DrainsFirst, Full
  <2> QED
    BY <2>1, <2>2, <2>3 DEF PumpInv
<1> QED
  BY <1>0, <1>2, <1>3 DEF PollStack

\* The first packet of the stack is taken.
LEMMA FirstOutgoing ==
    ASSUME PumpInv, outgoing # <<>>, outgoing' = Tail(outgoing)
    PROVE  /\ Head(outgoing) \in 1..written /\ outgoing' \in Seq(Nat) /\ InOrder(outgoing') /\ Len(outgoing') <= Len(outgoing)
           /\ Len(outgoing') \in Nat
           /\ Range(outgoing) = {Head(outgoing)} \cup Range(outgoing')
           /\ Flow(Range(sent), PacketsOf(pending_datagrams), Range(tunn.kept), Range(outgoing'))
           /\ Before(Range(sent), {Head(outgoing)}) /\ Before(PacketsOf(pending_datagrams), {Head(outgoing)})
           /\ Before(Range(tunn.kept), {Head(outgoing)}) /\ Before({Head(outgoing)}, Range(outgoing'))
<1>1. outgoing \in Seq(Nat) /\ InOrder(outgoing)
  BY DEF PumpInv, PumpTypes, Carried
<1>2. /\ outgoing' \in Seq(Nat) /\ InOrder(outgoing') /\ Len(outgoing') <= Len(outgoing)
      /\ Range(outgoing) = {Head(outgoing)} \cup Range(outgoing') /\ Before({Head(outgoing)}, Range(outgoing'))
  BY <1>1, FirstPacket, Zenon
<1>3. Head(outgoing) \in 1..written
  BY <1>2 DEF PumpInv, NoneForgotten, Everywhere
<1>4. /\ Flow(Range(sent), PacketsOf(pending_datagrams), Range(tunn.kept), Range(outgoing'))
      /\ Before(Range(sent), {Head(outgoing)}) /\ Before(PacketsOf(pending_datagrams), {Head(outgoing)})
      /\ Before(Range(tunn.kept), {Head(outgoing)})
  BY <1>2 DEF PumpInv, Carried, Flow, Before
<1> QED
  BY <1>2, <1>3, <1>4

\* send_plaintext drops the packet, for its destination or with the driver.
LEMMA DropKeeps ==
    ASSUME PumpAssumption, PumpInv, pump = "send", outgoing # <<>>, outgoing' = Tail(outgoing),
           pump' = "failed" \/ (pump' = "send" /\ Head(outgoing) \in Elsewhere),
           UNCHANGED <<tunn, pending_datagrams, needs_decapsulate_drain, sent, lost, datagram, received, incoming, written>>
    PROVE  PumpInv'
<1>1. /\ outgoing' \in Seq(Nat) /\ InOrder(outgoing') /\ Len(outgoing') <= Len(outgoing)
      /\ Range(outgoing) = {Head(outgoing)} \cup Range(outgoing')
      /\ Flow(Range(sent), PacketsOf(pending_datagrams), Range(tunn.kept), Range(outgoing'))
  BY FirstOutgoing, Zenon
<1>2. PumpTypes'
  BY <1>1, Zenon DEF PumpInv, PumpTypes, PumpLoops
<1>3. Limits'
  <2>1. /\ outgoing \in Seq(Nat) /\ outgoing' \in Seq(Nat) /\ Len(outgoing) <= MAX_PLAINTEXT_PACKETS
        /\ Len(outgoing') <= Len(outgoing) /\ MAX_PLAINTEXT_PACKETS \in Nat
    BY <1>1, Zenon DEF PumpInv, PumpTypes, Limits, PumpAssumption
  <2>2. Len(outgoing') <= MAX_PLAINTEXT_PACKETS
    BY <2>1, FewerFit, Zenon
  <2> QED
    BY <2>2, Zenon DEF PumpInv, Limits
<1>4. Carried'
  BY <1>1, Zenon DEF PumpInv, Carried
<1>5. Everywhere = {Head(outgoing)} \cup Everywhere'
  BY <1>1, Zenon DEF Everywhere
<1>6. NoneForgotten'
  BY <1>5 DEF PumpInv, NoneForgotten
<1>7. DrainsFirst'
  BY DEF PumpInv, DrainsFirst, Full
<1> QED
  BY <1>2, <1>3, <1>4, <1>6, <1>7 DEF PumpInv

\* With a session the packet is encrypted: Tunn keeps none that is older.
LEMMA SealKeeps ==
    ASSUME PumpAssumption, PumpInv, pump = "send", ~Full, outgoing # <<>>, outgoing' = Tail(outgoing), tunn.session,
           QueueDatagram(Sealed(Head(outgoing)), "send"),
           UNCHANGED <<tunn, needs_decapsulate_drain, lost, datagram, received, incoming, written>>
    PROVE  PumpInv'
<1> DEFINE h == Head(outgoing)
           d == Sealed(h)
           D == {d.packet} \ {0}
<1>1. /\ h \in 1..written /\ outgoing' \in Seq(Nat) /\ InOrder(outgoing') /\ Len(outgoing') <= Len(outgoing) /\ Len(outgoing') \in Nat
      /\ Range(outgoing) = {h} \cup Range(outgoing')
      /\ Flow(Range(sent), PacketsOf(pending_datagrams), Range(tunn.kept), Range(outgoing'))
      /\ Before(Range(sent), {h}) /\ Before(PacketsOf(pending_datagrams), {h}) /\ Before({h}, Range(outgoing'))
  BY FirstOutgoing, Zenon
<1>2. QueueDatagram(d, "send")
  OBVIOUS
<1> HIDE DEF h
<1>3. d \in SealedPacket /\ d.of = tunn.generation /\ D = {h}
  BY <1>1 DEF Sealed, SealedPacket, PumpInv, PumpTypes
<1>4. ~needs_decapsulate_drain /\ tunn.kept = <<>> /\ Range(tunn.kept) = {}
  BY NoneQueued DEF PumpInv, DrainsFirst
<1> HIDE DEF d
<1>5. /\ PumpTypes /\ Limits /\ InOrder(sent) /\ SealedInOrder(pending_datagrams)
      /\ Before(Range(sent), PacketsOf(pending_datagrams))
  BY DEF PumpInv, Carried, Flow
<1>6. /\ Before(Range(sent), D) /\ Before(PacketsOf(pending_datagrams), D)
      /\ Before(D, Range(tunn.kept)) /\ Before(D, Range(outgoing'))
  BY <1>1, <1>3, <1>4, Zenon DEF Before
<1>7. /\ sent' \in Seq(Nat) /\ pending_datagrams' \in Seq(SealedPacket) /\ pump' \in {"send", "failed"}
      /\ InOrder(sent') /\ SealedInOrder(pending_datagrams')
      /\ Before(Range(sent'), PacketsOf(pending_datagrams'))
      /\ Range(sent') \cup PacketsOf(pending_datagrams') \subseteq Range(sent) \cup PacketsOf(pending_datagrams) \cup D
      /\ pump' # "failed" => Range(sent) \cup PacketsOf(pending_datagrams) \cup D
                                 \subseteq Range(sent') \cup PacketsOf(pending_datagrams')
      /\ Len(pending_datagrams') <= MAX_PENDING_DATAGRAMS
      /\ \A i \in DOMAIN pending_datagrams' : pending_datagrams'[i].of = tunn.generation
  BY <1>2, <1>3, <1>5, <1>6, QueueKeeps, Zenon
<1> HIDE DEF D
<1>8. Flow(Range(sent'), PacketsOf(pending_datagrams'), Range(tunn.kept), Range(outgoing'))
  BY <1>1, <1>6, <1>7, FlowQueued, Zenon
<1>9. PumpTypes'
  BY <1>1, <1>7, Zenon DEF PumpInv, PumpTypes, PumpLoops
<1>10. Limits'
  <2>1. /\ outgoing \in Seq(Nat) /\ Len(outgoing) <= MAX_PLAINTEXT_PACKETS
        /\ MAX_PLAINTEXT_PACKETS \in Nat
    BY Zenon DEF PumpInv, PumpTypes, Limits, PumpAssumption
  <2>2. Len(outgoing') <= MAX_PLAINTEXT_PACKETS
    BY <1>1, <2>1, FewerFit, Zenon
  <2> QED
    BY <1>7, <2>2, Zenon DEF PumpInv, Limits
<1>11. Carried'
  BY <1>1, <1>7, <1>8, Zenon DEF PumpInv, Carried
<1>12. Everywhere' \subseteq Everywhere /\ (pump' # "failed" => Everywhere \subseteq Everywhere')
  BY <1>1, <1>3, <1>7, Zenon DEF Everywhere
<1>13. NoneForgotten'
  BY <1>12 DEF PumpInv, NoneForgotten
<1>14. DrainsFirst'
  BY <1>4, <1>7, Zenon DEF DrainsFirst
<1> QED
  BY <1>9, <1>10, <1>11, <1>13, <1>14 DEF PumpInv

\* Without one Tunn keeps the packet behind the others it has.
LEMMA KeptKeeps ==
    ASSUME PumpAssumption, PumpInv, pump = "send", ~Full, outgoing # <<>>, outgoing' = Tail(outgoing), ~tunn.session,
           tunn' = [tunn EXCEPT !.kept = Append(@, Head(outgoing))],
           QueueDatagram(Sealed(0), "send") \/ UNCHANGED <<pump, pending_datagrams, sent>>,
           UNCHANGED <<needs_decapsulate_drain, lost, datagram, received, incoming, written>>
    PROVE  PumpInv'
<1> DEFINE h == Head(outgoing)
<1>1. /\ h \in 1..written /\ outgoing' \in Seq(Nat) /\ InOrder(outgoing') /\ Len(outgoing') <= Len(outgoing) /\ Len(outgoing') \in Nat
      /\ Range(outgoing) = {h} \cup Range(outgoing')
      /\ Before(Range(sent), {h}) /\ Before(PacketsOf(pending_datagrams), {h})
      /\ Before(Range(tunn.kept), {h}) /\ Before({h}, Range(outgoing'))
  BY FirstOutgoing
<1>2. tunn' = [tunn EXCEPT !.kept = Append(@, h)]
  OBVIOUS
<1> HIDE DEF h
<1>3. h \in Nat /\ tunn \in [generation : Nat, session : BOOLEAN, kept : Seq(Nat)] /\ InOrder(tunn.kept)
  BY <1>1 DEF PumpInv, PumpTypes, Carried
<1>4. /\ Append(tunn.kept, h) \in Seq(Nat) /\ Range(Append(tunn.kept, h)) = Range(tunn.kept) \cup {h}
      /\ InOrder(Append(tunn.kept, h))
  BY <1>1, <1>3, AppendPacket, Zenon
<1>5. /\ tunn' \in [generation : Nat, session : BOOLEAN, kept : Seq(Nat)] /\ ~tunn'.session
      /\ tunn'.kept = Append(tunn.kept, h) /\ tunn'.generation = tunn.generation
  BY <1>2, <1>3, <1>4, Zenon
<1>6. /\ sent' \in Seq(Nat) /\ pending_datagrams' \in Seq(SealedPacket) /\ pump' \in {"send", "failed"}
      /\ InOrder(sent') /\ SealedInOrder(pending_datagrams')
      /\ Flow(Range(sent'), PacketsOf(pending_datagrams'), Range(tunn.kept), Range(outgoing))
      /\ Range(sent') \cup PacketsOf(pending_datagrams') \subseteq Range(sent) \cup PacketsOf(pending_datagrams)
      /\ pump' # "failed" => Range(sent) \cup PacketsOf(pending_datagrams) \subseteq Range(sent') \cup PacketsOf(pending_datagrams')
      /\ Len(pending_datagrams') <= MAX_PENDING_DATAGRAMS
      /\ \A i \in DOMAIN pending_datagrams' : pending_datagrams'[i].of = tunn.generation
  <2>1. CASE QueueDatagram(Sealed(0), "send")
    BY <2>1, OwnQueued, Zenon
  <2>2. CASE UNCHANGED <<pump, pending_datagrams, sent>>
    BY <2>2 DEF PumpInv, PumpTypes, Carried, Limits
  <2> QED
    BY <2>1, <2>2
<1>7. Flow(Range(sent'), PacketsOf(pending_datagrams'), Range(tunn'.kept), Range(outgoing'))
  <2>1. Range(tunn'.kept) = Range(tunn.kept) \cup {h}
    BY <1>4, <1>5
  <2>2. Before(Range(sent'), {h}) /\ Before(PacketsOf(pending_datagrams'), {h})
    BY <1>1, <1>6 DEF Flow, Before
  <2> QED
    BY <1>1, <1>6, <2>1, <2>2, Zenon DEF Flow, Before
<1>8. PumpTypes'
  BY <1>1, <1>5, <1>6, Zenon DEF PumpInv, PumpTypes, PumpLoops
<1>9. Limits'
  <2>1. Len(outgoing) \in Nat /\ Len(outgoing) <= MAX_PLAINTEXT_PACKETS /\ incoming' <= MAX_PLAINTEXT_PACKETS
    BY DEF PumpInv, PumpTypes, Limits
  <2>2. Len(outgoing') <= MAX_PLAINTEXT_PACKETS
    BY <1>1, <2>1 DEF PumpAssumption
  <2> QED
    BY <1>5, <1>6, <2>1, <2>2, Zenon DEF Limits
<1>10. Carried'
  BY <1>1, <1>4, <1>5, <1>6, <1>7, Zenon DEF Carried
<1>11. Everywhere' \subseteq Everywhere /\ (pump' # "failed" => Everywhere \subseteq Everywhere')
  BY <1>1, <1>4, <1>5, <1>6, Zenon DEF Everywhere
<1>12. NoneForgotten'
  BY <1>11 DEF PumpInv, NoneForgotten
<1>13. DrainsFirst'
  <2>1. ~needs_decapsulate_drain
    BY DEF PumpInv, DrainsFirst
  <2> QED
    BY <1>5, <1>6, <2>1 DEF DrainsFirst
<1> QED
  BY <1>8, <1>9, <1>10, <1>12, <1>13 DEF PumpInv

\* One turn of send_plaintext.
LEMMA SendKeeps ==
    ASSUME PumpAssumption, PumpInv, SendPlaintext
    PROVE  PumpInv'
<1>0. pump = "send" /\ UNCHANGED <<datagram, received, incoming, written>>
  BY DEF SendPlaintext
<1>1. CASE pump' = "timers" /\ UNCHANGED <<outgoing, tunn, pending_datagrams, needs_decapsulate_drain, sent, lost>>
  <2>1. Carried' /\ NoneForgotten'
    BY <1>0, <1>1, NothingMoves
  <2>2. PumpTypes' /\ Limits'
    BY <1>0, <1>1 DEF PumpInv, PumpTypes, Limits, PumpLoops
  <2>3. DrainsFirst'
    BY <1>0, <1>1 DEF PumpInv, DrainsFirst, Full
  <2> QED
    BY <2>1, <2>2, <2>3 DEF PumpInv
<1>2. CASE /\ outgoing # <<>> /\ outgoing' = Tail(outgoing)
           /\ pump' = "failed" \/ (UNCHANGED pump /\ Head(outgoing) \in Elsewhere)
           /\ UNCHANGED <<tunn, pending_datagrams, needs_decapsulate_drain, sent, lost>>
  BY <1>0, <1>2, DropKeeps
<1>3. CASE /\ ~Full /\ outgoing # <<>> /\ outgoing' = Tail(outgoing) /\ UNCHANGED <<needs_decapsulate_drain, lost>>
           /\ IF tunn.session THEN QueueDatagram(Sealed(Head(outgoing)), "send") /\ UNCHANGED tunn
              ELSE /\ tunn' = [tunn EXCEPT !.kept = Append(@, Head(outgoing))]
                   /\ QueueDatagram(Sealed(0), "send") \/ UNCHANGED <<pump, pending_datagrams, sent>>
  <2>1. CASE tunn.session
    BY <1>0, <1>3, <2>1, SealKeeps
  <2>2. CASE ~tunn.session
    BY <1>0, <1>3, <2>2, KeptKeeps
  <2> QED
    BY <2>1, <2>2
<1>4. CASE SendExpired
  <2>1. ResetTunnel /\ pump' = "timers" /\ UNCHANGED <<outgoing, sent>>
    BY <1>4 DEF SendExpired
  <2> QED
    BY <1>0, <2>1, ResetKeeps DEF PumpLoops
<1> QED
  BY <1>0, <1>1, <1>2, <1>3, <1>4 DEF SendPlaintext

\* update_timers sends nothing of the stack.
LEMMA TimersKeep ==
    ASSUME PumpAssumption, PumpInv, UpdateTimers
    PROVE  PumpInv'
<1>0. pump = "timers" /\ UNCHANGED <<datagram, received, incoming, outgoing, written>>
  BY Zenon DEF UpdateTimers
<1>1. CASE pump' \in {"failed", "flush again"} /\ UNCHANGED <<tunn, pending_datagrams, needs_decapsulate_drain, sent, lost>>
  <2>1. Carried' /\ NoneForgotten'
    BY <1>0, <1>1, NothingMoves, Zenon
  <2>2. PumpTypes' /\ Limits'
    BY <1>0, <1>1, Zenon DEF PumpInv, PumpTypes, Limits, PumpLoops
  <2>3. DrainsFirst'
    BY <1>0, <1>1, Zenon DEF PumpInv, DrainsFirst
  <2> QED
    BY <2>1, <2>2, <2>3 DEF PumpInv
<1>2. CASE ~Full /\ QueueDatagram(Sealed(0), "flush again") /\ UNCHANGED <<tunn, needs_decapsulate_drain, lost>>
  <2>1. /\ sent' \in Seq(Nat) /\ pending_datagrams' \in Seq(SealedPacket) /\ pump' \in {"flush again", "failed"}
        /\ InOrder(sent') /\ SealedInOrder(pending_datagrams')
        /\ Flow(Range(sent'), PacketsOf(pending_datagrams'), Range(tunn.kept), Range(outgoing))
        /\ Range(sent') \cup PacketsOf(pending_datagrams') \subseteq Range(sent) \cup PacketsOf(pending_datagrams)
        /\ pump' # "failed" => Range(sent) \cup PacketsOf(pending_datagrams) \subseteq Range(sent') \cup PacketsOf(pending_datagrams')
        /\ Len(pending_datagrams') <= MAX_PENDING_DATAGRAMS
        /\ \A i \in DOMAIN pending_datagrams' : pending_datagrams'[i].of = tunn.generation
    BY <1>2, OwnQueued, Zenon
  <2>2. PumpTypes' /\ Limits'
    BY <1>0, <1>2, <2>1, Zenon DEF PumpInv, PumpTypes, Limits, PumpLoops
  <2>3. Carried'
    BY <1>0, <1>2, <2>1, Zenon DEF PumpInv, Carried
  <2>4. Everywhere' \subseteq Everywhere /\ (pump' # "failed" => Everywhere \subseteq Everywhere')
    BY <1>0, <1>2, <2>1, Zenon DEF Everywhere
  <2>5. NoneForgotten'
    BY <1>0, <2>4 DEF PumpInv, NoneForgotten
  <2>6. DrainsFirst'
    BY <1>0, <1>2, <2>1, Zenon DEF PumpInv, DrainsFirst
  <2> QED
    BY <2>2, <2>3, <2>5, <2>6 DEF PumpInv
<1>3. CASE ResetTunnel /\ pump' = "flush again" /\ UNCHANGED sent
  BY <1>0, <1>3, ResetKeeps, Zenon DEF PumpLoops
<1> QED
  BY <1>1, <1>2, <1>3, Zenon DEF UpdateTimers

\* The invariant is the property, and says why it holds.
LEMMA PumpInvImplies == PumpInv => PacketsInOrder
<1> SUFFICES ASSUME PumpInv PROVE PacketsInOrder
  OBVIOUS
<1>1. (UNION Range(PacketStages)) = Range(sent) \cup PacketsOf(pending_datagrams) \cup Range(tunn.kept) \cup Range(outgoing)
  <2>1. Range(PacketStages) = {Range(sent), PacketsOf(pending_datagrams), Range(tunn.kept), Range(outgoing)}
    <3>1. DOMAIN PacketStages = {1, 2, 3, 4}
      BY DEF PacketStages
    <3>2. /\ PacketStages[1] = Range(sent) /\ PacketStages[2] = PacketsOf(pending_datagrams)
          /\ PacketStages[3] = Range(tunn.kept) /\ PacketStages[4] = Range(outgoing)
      BY DEF PacketStages
    <3>3. Range(PacketStages) = {PacketStages[i] : i \in {1, 2, 3, 4}}
      BY <3>1, Zenon DEF Range
    <3> QED
      BY <3>2, <3>3
  <2> QED
    BY <2>1
<1>2. ASSUME pump # "failed"
      PROVE  (UNION Range(PacketStages)) \cup lost \cup (Elsewhere \cap 1..written) = 1..written
  <2>1. (UNION Range(PacketStages)) \cup lost = Everywhere
    BY <1>1, Zenon DEF Everywhere
  <2>2. Everywhere \subseteq 1..written /\ 1..written \subseteq Everywhere \cup Elsewhere
    BY <1>2 DEF PumpInv, NoneForgotten
  <2>3. ASSUME NEW E, NEW N, NEW L, E \subseteq N, N \subseteq E \cup L PROVE E \cup (L \cap N) = N
    BY <2>3
  <2>4. Everywhere \cup (Elsewhere \cap 1..written) = 1..written
    BY <2>2, <2>3, Zenon
  <2> QED
    BY <2>1, <2>4, Zenon
<1>3. ASSUME NEW k \in 1..4, NEW l \in 1..4, k < l PROVE \A p \in PacketStages[k], q \in PacketStages[l] : p < q
  <2>1. /\ PacketStages[1] = Range(sent) /\ PacketStages[2] = PacketsOf(pending_datagrams)
        /\ PacketStages[3] = Range(tunn.kept) /\ PacketStages[4] = Range(outgoing)
    BY DEF PacketStages
  <2>2. <<k, l>> \in {<<1, 2>>, <<1, 3>>, <<1, 4>>, <<2, 3>>, <<2, 4>>, <<3, 4>>}
    BY <1>3
  <2> QED
    BY <2>1, <2>2, Zenon DEF PumpInv, Carried, Flow, Before
<1> QED
  BY <1>2, <1>3, Zenon DEF PumpInv, Carried, PumpTypes, PumpLoops, DrainsFirst, Limits, PacketsInOrder

\* Driver::run, and nothing else, changes these.
PumpSpec == PumpInit /\ [][PumpNext]_pumpVars

\* Whatever the socket, the peer and the clock do, the packets of the stack go to the
\* wire in the order they were written (Driver::run of machine-network-tunnel).
THEOREM PacketsAlwaysInOrder == PumpSpec => []PacketsInOrder
<1>1. PumpInit => PumpInv
  <2> SUFFICES ASSUME PumpInit PROVE PumpInv
    OBVIOUS
  <2>1. PumpTypes
    <3>1. tunn \in [generation : Nat, session : BOOLEAN, kept : Seq(Nat)]
      BY DEF PumpInit, NewTunn
    <3>2. sent \in Seq(Nat) /\ outgoing \in Seq(Nat) /\ pending_datagrams \in Seq(SealedPacket)
      BY DEF PumpInit
    <3> QED
      BY <3>1, <3>2, Zenon DEF PumpInit, PumpTypes, PumpLoops
  <2>2. /\ Range(sent) = {} /\ PacketsOf(pending_datagrams) = {} /\ Range(tunn.kept) = {} /\ Range(outgoing) = {}
        /\ InOrder(sent) /\ SealedInOrder(pending_datagrams) /\ InOrder(tunn.kept) /\ InOrder(outgoing)
    BY NoneQueued DEF PumpInit, NewTunn
  <2>3. Carried /\ NoneForgotten
    BY <2>2 DEF PumpInit, Carried, Flow, Before, NoneForgotten, Everywhere
  <2>4. DrainsFirst /\ Limits
    BY PumpAssumption DEF PumpInit, DrainsFirst, Limits, NewTunn, PumpAssumption
  <2> QED
    BY <2>1, <2>3, <2>4 DEF PumpInv
<1>2. PumpInv /\ [PumpNext]_pumpVars => PumpInv'
  <2> SUFFICES ASSUME PumpInv, [PumpNext]_pumpVars PROVE PumpInv'
    OBVIOUS
  <2> QED
    BY PumpAssumption, PumpStutters, FlushKeeps, ReceiveKeeps, DecapsulateFullKeeps, DecapsulateToNetworkKeeps,
       DecapsulateToTunnelKeeps, DecapsulateDoneKeeps, PollKeeps, SendKeeps, TimersKeep, Zenon DEF PumpNext
<1> QED
  BY <1>1, <1>2, PumpInvImplies, PTL DEF PumpSpec
=============================================================================
