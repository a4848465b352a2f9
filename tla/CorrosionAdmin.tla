--------------------------- MODULE CorrosionAdmin ---------------------------
(***************************************************************************)
(* The client of Corrosion's admin socket: one command, then frames that   *)
(* are read as far as each read gives, while the caller may cancel a call  *)
(* of `next` at any await and call again. Also what the client makes of    *)
(* the answers: the latest state of every member, round trip statistics.   *)
(***************************************************************************)
EXTENDS Results, Integers, Sequences, SequencesExt, FiniteSets, FiniteSetsExt

CONSTANTS Conversations,  \* what the server may send: sequences of frames [kind, length]
          HeadLength,     \* bytes of a frame's head (4)
          Mantissa        \* values from 2^Mantissa are rounded as f64 rounds from 2^53

VARIABLES
    frames,        \* the frames of this conversation
    wire,          \* their bytes, not yet read, each as <<frame, offset>>
    connection,    \* "none", "open", or "failed"
    reading,       \* a call of next is running
    frame_head,    \* AdminResponses.frame_head, the bytes read into it
    frame_data,    \* AdminResponses.frame_data and its bytes read; Unset while the head is read
    admin_finished,\* AdminResponses.finished
    replies        \* what the calls of next that ended have returned
adminVars == <<frames, wire, connection, reading, frame_head, frame_data, admin_finished, replies>>

AdminInit ==
    /\ frames = <<>> /\ wire = <<>> /\ connection = "none" /\ reading = FALSE
    /\ frame_head = <<>> /\ frame_data = Unset /\ admin_finished = FALSE /\ replies = <<>>

FrameBytes(sent1) ==
    FlattenSeq([i \in 1..Len(sent1) |-> [j \in 1..(HeadLength + sent1[i].length) |-> <<i, j>>]])

\* AdminClient::send_command; the server will send a conversation, or a part of it.
SendCommand ==
    /\ connection = "none"
    /\ \/ \E conversation \in Conversations, cut \in {0, 1, 2} :
            /\ frames' = conversation
            /\ LET bytes == FrameBytes(conversation) IN wire' = SubSeq(bytes, 1, Len(bytes) - cut)
            /\ connection' = "open"
            /\ UNCHANGED replies
       \/ /\ replies' = <<Failure("Admin")>> /\ connection' = "failed"
          /\ UNCHANGED <<frames, wire>>
    /\ UNCHANGED <<reading, frame_head, frame_data, admin_finished>>

NextCall ==
    /\ connection = "open" /\ ~reading /\ ~admin_finished
    /\ reading' = TRUE
    /\ UNCHANGED <<frames, wire, connection, frame_head, frame_data, admin_finished, replies>>

\* Mutant: the bytes of an unfinished head are the call's own, and go with it.
CancelNextForgetting ==
    /\ reading
    /\ reading' = FALSE /\ frame_head' = <<>>
    /\ UNCHANGED <<frames, wire, connection, frame_data, admin_finished, replies>>

\* The caller drops the call of next at an await; what was read stays in self.
CancelNext ==
    /\ reading
    /\ reading' = FALSE
    /\ UNCHANGED <<frames, wire, connection, frame_head, frame_data, admin_finished, replies>>

Some(limit) == {n \in 1..Len(wire) : n <= limit}
Unread1(n) == SubSeq(wire, n + 1, Len(wire))

ReadHead ==
    /\ reading /\ Len(frame_head) < HeadLength
    /\ \E n \in Some(HeadLength - Len(frame_head)) :
        /\ frame_head' = frame_head \o SubSeq(wire, 1, n)
        /\ wire' = Unread1(n)
    /\ UNCHANGED <<frames, connection, reading, frame_data, admin_finished, replies>>

\* The length a head stands for; a head put together from other bytes says anything.
LengthOf(head) ==
    IF \E i \in 1..Len(frames) : head = [j \in 1..HeadLength |-> <<i, j>>]
    THEN frames[head[1][1]].length ELSE 1

HeadDone ==
    /\ reading /\ Len(frame_head) = HeadLength /\ frame_data = Unset
    /\ frame_data' = [length |-> LengthOf(frame_head), bytes |-> <<>>]
    /\ UNCHANGED <<frames, wire, connection, reading, frame_head, admin_finished, replies>>

DataPending == frame_data # Unset /\ Len(frame_data.bytes) < frame_data.length

ReadData ==
    /\ reading /\ DataPending
    /\ \E n \in Some(frame_data.length - Len(frame_data.bytes)) :
        /\ frame_data' = [frame_data EXCEPT !.bytes = @ \o SubSeq(wire, 1, n)]
        /\ wire' = Unread1(n)
    /\ UNCHANGED <<frames, connection, reading, frame_head, admin_finished, replies>>

ReadFails ==
    /\ reading /\ wire = <<>> /\ (Len(frame_head) < HeadLength \/ DataPending)
    /\ admin_finished' = TRUE /\ reading' = FALSE /\ replies' = Append(replies, Failure("Admin"))
    /\ UNCHANGED <<frames, wire, connection, frame_head, frame_data>>

\* The kind of frame that the bytes of a frame's data are.
KindOf(bytes) ==
    LET whole == {i \in 1..Len(frames) : bytes = [j \in 1..frames[i].length |-> <<i, HeadLength + j>>]}
    IN  IF whole = {} THEN "garbage" ELSE frames[Min(whole)].kind

\* The loop of next on a whole frame: the frame's kind decides whether the
\* call returns, and whether the conversation is over.
FrameDone ==
    /\ reading /\ frame_data # Unset /\ ~DataPending
    /\ frame_head' = <<>> /\ frame_data' = Unset
    /\ LET kind == KindOf(frame_data.bytes) IN
       /\ admin_finished' = (kind \in {"success", "error", "garbage"})
       /\ reading' = (kind = "other")
       /\ replies' = CASE kind = "json"    -> Append(replies, [object |-> frame_data.bytes])
                       [] kind = "success" -> Append(replies, Unset)
                       [] kind = "error"   -> Append(replies, Failure("Admin"))
                       [] kind = "garbage" -> Append(replies, Failure("Json"))
                       [] OTHER            -> replies
    /\ UNCHANGED <<frames, wire, connection>>

AdminNext ==
    \/ SendCommand \/ NextCall \/ CancelNext
    \/ ReadHead \/ HeadDone \/ ReadData \/ ReadFails \/ FrameDone

(***************************************************************************)
(* cluster_membership_states and cluster_member_rtts on parsed answers.    *)
(***************************************************************************)
\* A number as f64: the digits after the mantissa's are rounded, to even at a tie.
ToF64(n) ==
    LET unit == 2^Min({k \in 0..n : n \div 2^k < 2^Mantissa})
        low == n % unit
        down == n \div unit
        up1 == 2 * low > unit \/ (2 * low = unit /\ down % 2 = 1)
    IN  unit * (IF up1 THEN down + 1 ELSE down)

Parsed(answers) == SelectSeq(answers, LAMBDA answer1 : ~IsFailure(answer1))
BatchErrors(answers) == SelectSeq(answers, LAMBDA answer1 : IsFailure(answer1))

\* Mutant: the state that comes first stays.
ReplacesNever(existing, state) == FALSE

Replaces(existing, state) == ToF64(existing.timestamp) < ToF64(state.timestamp)

\* The map by id as a function.
LatestById(states) ==
    LET Add(by_id, state) ==
            IF state.id \in DOMAIN by_id /\ ~Replaces(by_id[state.id], state) THEN by_id
            ELSE [id \in DOMAIN by_id \cup {state.id} |-> IF id = state.id THEN state ELSE by_id[id]]
    IN  FoldLeft(Add, [id \in {} |-> Unset], states)

MembershipStates(answers, latest) ==
    LET states == Parsed(answers)
        kept == IF latest THEN {LatestById(states)[id] : id \in DOMAIN LatestById(states)} ELSE ToSet(states)
    IN  [partial |-> kept, errors |-> Len(BatchErrors(answers))]

\* Mutant: the local machine is as the others see it.
MemberStateSeen(machine, states, local) ==
    LET at1 == {i \in DOMAIN states : states[i].ip = machine.ip /\ machine.zone = ""}
    IN  IF at1 = {} THEN "down" ELSE states[Min(at1)].state

\* list_machines_inner: the first state at the machine's address counts, and the
\* machine that answers is up.
MemberState(machine, states, local) ==
    LET at1 == {i \in DOMAIN states : states[i].ip = machine.ip /\ machine.zone = ""}
    IN  IF machine.id = local THEN "up"
        ELSE IF at1 = {} THEN "down"
        ELSE IF states[Min(at1)].state = "alive" THEN "up" ELSE states[Min(at1)].state

ListMembers(machines, states, local) ==
    [i \in DOMAIN machines |-> [machine |-> machines[i], state |-> MemberState(machines[i], states, local)]]

\* Mutant: the samples are taken in the order they came.
SortedNot(samples) == samples

Sorted(samples) == SortSeq(samples, LAMBDA x, y : x < y)

\* Twice the median, and n^2 times the variance, of n samples.
RttStats(samples) ==
    LET sorted == Sorted(samples)
        n == Len(sorted)
        sum == FoldLeft(LAMBDA x, y : x + y, 0, sorted)
        squares == FoldLeft(LAMBDA x, y : x + y * y, 0, sorted)
    IN  [median2 |-> IF n % 2 = 0 THEN sorted[n \div 2] + sorted[n \div 2 + 1] ELSE 2 * sorted[n \div 2 + 1],
         variance |-> n * squares - sum * sum]

-----------------------------------------------------------------------------
\* The comment of read_frame: cancelling `next` cannot desynchronize the frame
\* boundary. What the calls have returned is, whatever was cancelled and
\* however the bytes came in, the objects that the server sent, in its order
\* and none left out; the end is told only where the server ended, an
\* answer's error only where it sent one, and otherwise the connection ended.
AnswersInStep ==
    connection = "open" =>
    LET objects == SelectSeq([i \in 1..Len(frames) |-> [i |-> i, kind |-> frames[i].kind, length |-> frames[i].length]],
                             LAMBDA f : f.kind # "other")
        n == Len(replies)
    IN  \A k \in 1..n :
            \/ k = n /\ admin_finished /\ replies[k] = Failure("Admin") /\ wire = <<>>
            \/ /\ k <= Len(objects)
               /\ replies[k] = CASE objects[k].kind = "json" ->
                                        [object |-> [j \in 1..objects[k].length |-> <<objects[k].i, HeadLength + j>>]]
                                 [] objects[k].kind = "success" -> Unset
                                 [] objects[k].kind = "error"   -> Failure("Admin")
                                 [] objects[k].kind = "garbage" -> Failure("Json")

\* `latest` leaves one state of every member that answered, and no other state
\* of it is later by more than the number's rounding to f64.
LatestWins(answers) ==
    LET got1 == MembershipStates(answers, TRUE)
        states == ToSet(Parsed(answers))
    IN  /\ got1.partial \subseteq states
        /\ \A s \in states : \E t \in got1.partial : t.id = s.id
        /\ \A s, t \in got1.partial : s.id = t.id => s = t
        /\ \A t \in got1.partial, s \in states :
              s.id = t.id => ToF64(s.timestamp) <= ToF64(t.timestamp)
        /\ \A s, t \in states : s.timestamp < t.timestamp => ToF64(s.timestamp) <= ToF64(t.timestamp)

\* The median has as many samples on either side, and the variance is that of
\* the samples in the order they came.
StatsAreTrue(samples) ==
    LET stats == RttStats(samples)
        n == Len(samples)
        below == {i \in 1..n : 2 * samples[i] < stats.median2}
        above == {i \in 1..n : 2 * samples[i] > stats.median2}
        deviations == [i \in 1..n |-> n * samples[i] - FoldLeft(LAMBDA x, y : x + y, 0, samples)]
    IN  /\ 2 * Cardinality(below) <= n /\ 2 * Cardinality(above) <= n
        /\ n * stats.variance = FoldLeft(LAMBDA x, y : x + y * y, 0, deviations)

\* Every machine of the store is listed once and in order; the machine itself is
\* never shown down, any other is up only if a state with its address says alive,
\* and down if no state has its address.
MembersAreListed(machines, states, local) ==
    LET listed1 == ListMembers(machines, states, local)
        at1(machine) == {s \in ToSet(states) : s.ip = machine.ip /\ machine.zone = ""}
    IN  /\ [i \in DOMAIN listed1 |-> listed1[i].machine] = machines
        /\ \A member1 \in ToSet(listed1) :
              /\ member1.machine.id = local => member1.state = "up"
              /\ member1.machine.id # local =>
                    /\ member1.state = "up" => \E s \in at1(member1.machine) : s.state = "alive"
                    /\ at1(member1.machine) = {} => member1.state = "down"
=============================================================================
