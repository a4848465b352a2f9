----------------------------- MODULE TunnelPump ------------------------------
(***************************************************************************)
(* The packets of the userspace tunnel (Driver of machine-network-tunnel): *)
(* what the TCP stack writes is encrypted, queued and sent to the peer,    *)
(* and what the peer sends is decrypted for the stack. A step is one turn  *)
(* of a loop of Driver::run; the UDP socket may block, fail or deliver at  *)
(* any of them. Tunn, the WireGuard state machine, is a library's: without *)
(* a session it keeps the packets it is given, and hands them out one by   *)
(* one to calls with an empty datagram once the peer has responded.        *)
(***************************************************************************)
EXTENDS Integers, Sequences, Functions

CONSTANTS
    MAX_PENDING_DATAGRAMS, MAX_PLAINTEXT_PACKETS, MAX_DATAGRAMS_PER_TICK,
    MaxStackPackets,  \* bound: packets the stack writes
    Elsewhere,        \* those whose destination is not in the remote network
    MaxTunnResets     \* bound: expired sessions

ASSUME PumpAssumption ==
    /\ MAX_PENDING_DATAGRAMS \in Nat \ {0} /\ MAX_PLAINTEXT_PACKETS \in Nat \ {0}
    /\ MAX_DATAGRAMS_PER_TICK \in Nat \ {0}
    /\ MaxStackPackets \in Nat /\ MaxTunnResets \in Nat

VARIABLES
    pump,        \* the loop Driver::run is in, or "failed"
    datagram,    \* what decapsulate is called with, or "empty"
    received,    \* datagrams of this tick
    pending_datagrams, needs_decapsulate_drain,
    incoming, outgoing,  \* IpDevice; of the incoming packets, how many
    tunn,        \* the Tunn: generation, whether it has a session, what it keeps
    written,     \* packets the stack has written
    sent, lost   \* history: the packets on the wire, in order, and of expired sessions

pumpVars == <<pump, datagram, received, pending_datagrams, needs_decapsulate_drain, incoming, outgoing, tunn, written, sent, lost>>

\* A packet of the stack has a number; 0 is one of Tunn's own.
Sealed(packet) == [of |-> tunn.generation, packet |-> packet]
NewTunn(generation) == [generation |-> generation, session |-> FALSE, kept |-> <<>>]
Full == Len(pending_datagrams) >= MAX_PENDING_DATAGRAMS

PumpInit ==
    /\ pump = "flush" /\ datagram = "empty" /\ received = 0
    /\ pending_datagrams = <<>> /\ needs_decapsulate_drain = FALSE
    /\ incoming = 0 /\ outgoing = <<>>
    /\ tunn = NewTunn(0) /\ written = 0 /\ sent = <<>> /\ lost = {}

\* udp.send takes the datagram.
OnWire(sealed) == sent' = IF sealed.packet = 0 THEN sent ELSE Append(sent, sealed.packet)

\* queue_datagram, after which the loop goes on at next.
QueueDatagram(sealed, next) ==
    \/ /\ pending_datagrams = <<>>
       /\ OnWire(sealed) /\ pump' = next /\ UNCHANGED pending_datagrams
    \/ /\ pending_datagrams = <<>>
       /\ pump' = "failed" /\ UNCHANGED <<sent, pending_datagrams>>
    \/ /\ IF Full THEN pump' = "overflow" /\ UNCHANGED pending_datagrams
          ELSE pump' = next /\ pending_datagrams' = Append(pending_datagrams, sealed)
       /\ UNCHANGED sent

\* The stack's packets among sealed ones.
PacketsOf(sealed) == {sealed[i].packet : i \in DOMAIN sealed} \ {0}

\* Mutant: what was encrypted for the old session is still sent.
ResetTunnelKeeps ==
    /\ tunn.generation < MaxTunnResets
    /\ tunn' = NewTunn(tunn.generation + 1)
    /\ lost' = lost \cup Range(tunn.kept)
    /\ needs_decapsulate_drain' = FALSE /\ UNCHANGED pending_datagrams

\* reset_tunnel
ResetTunnel ==
    /\ tunn.generation < MaxTunnResets
    /\ tunn' = NewTunn(tunn.generation + 1)
    /\ lost' = lost \cup PacketsOf(pending_datagrams) \cup Range(tunn.kept)
    /\ pending_datagrams' = <<>> /\ needs_decapsulate_drain' = FALSE

-----------------------------------------------------------------------------
\* flush_datagrams, twice a tick: before the datagrams are received, and last.
FlushDatagrams ==
    /\ pump \in {"flush", "flush again"}
    /\ LET next == IF pump = "flush" THEN "receive" ELSE "flush"
       IN \/ /\ pending_datagrams = <<>> /\ pump' = next /\ UNCHANGED <<sent, pending_datagrams>>
          \/ /\ pending_datagrams # <<>>
             /\ \/ OnWire(Head(pending_datagrams)) /\ pending_datagrams' = Tail(pending_datagrams) /\ UNCHANGED pump
                \/ pump' \in {next, "failed"} /\ UNCHANGED <<sent, pending_datagrams>>
    /\ received' = 0
    /\ UNCHANGED <<datagram, needs_decapsulate_drain, incoming, outgoing, tunn, written, lost>>

\* Mutant: the queue is looked at before the first datagram only.
ReceiveDatagramsOn ==
    /\ pump = "receive"
    /\ IF (received = 0 /\ Full) \/ received = MAX_DATAGRAMS_PER_TICK
       THEN pump' = "poll" /\ UNCHANGED <<datagram, received, needs_decapsulate_drain>>
       ELSE IF received = 0 /\ needs_decapsulate_drain
       THEN pump' = "decapsulate" /\ datagram' = "empty" /\ needs_decapsulate_drain' = FALSE /\ UNCHANGED received
       ELSE /\ \/ pump' \in {"poll", "failed"} /\ UNCHANGED <<datagram, received>>
               \/ /\ pump' = "decapsulate" /\ received' = received + 1
                  /\ datagram' \in {"response", "data", "other data", "junk", "expired"}
            /\ UNCHANGED needs_decapsulate_drain
    /\ UNCHANGED <<pending_datagrams, incoming, outgoing, tunn, written, sent, lost>>

\* receive_datagrams: what is left of the last datagram first, then the next one
\* unless the queue is full, the socket blocks or fails, or the tick has had its
\* share.
ReceiveDatagrams ==
    /\ pump = "receive"
    /\ IF Full \/ received = MAX_DATAGRAMS_PER_TICK
       THEN pump' = "poll" /\ UNCHANGED <<datagram, received, needs_decapsulate_drain>>
       ELSE IF received = 0 /\ needs_decapsulate_drain
       THEN pump' = "decapsulate" /\ datagram' = "empty" /\ needs_decapsulate_drain' = FALSE /\ UNCHANGED received
       ELSE /\ \/ pump' \in {"poll", "failed"} /\ UNCHANGED <<datagram, received>>
               \/ /\ pump' = "decapsulate" /\ received' = received + 1
                  /\ datagram' \in {"response", "data", "other data", "junk", "expired"}
            /\ UNCHANGED needs_decapsulate_drain
    /\ UNCHANGED <<pending_datagrams, incoming, outgoing, tunn, written, sent, lost>>

\* One turn of decapsulate's loop where the queue has no room.
DecapsulateFull ==
    /\ pump = "decapsulate" /\ Full
    /\ needs_decapsulate_drain' = TRUE /\ pump' = "receive"
    /\ UNCHANGED <<datagram, received, pending_datagrams, incoming, outgoing, tunn, written, sent, lost>>

\* Or Tunn has something for the network: a keepalive that answers the response,
\* or a packet it kept.
DecapsulateToNetwork ==
    /\ pump = "decapsulate" /\ ~Full
    /\ datagram = "response" \/ (datagram = "empty" /\ tunn.session /\ tunn.kept # <<>>)
    /\ IF datagram = "response"
       THEN tunn' = [tunn EXCEPT !.session = TRUE] /\ QueueDatagram(Sealed(0), "decapsulate")
       ELSE tunn' = [tunn EXCEPT !.kept = Tail(@)] /\ QueueDatagram(Sealed(Head(tunn.kept)), "decapsulate")
    /\ datagram' = "empty"
    /\ UNCHANGED <<received, needs_decapsulate_drain, incoming, outgoing, written, lost>>

\* Or a packet for the stack: accept_plaintext drops one from or to elsewhere,
\* and one too many.
DecapsulateToTunnel ==
    /\ pump = "decapsulate" /\ ~Full /\ datagram \in {"data", "other data"} /\ tunn.session
    /\ incoming' = IF datagram = "data" /\ incoming < MAX_PLAINTEXT_PACKETS THEN incoming + 1 ELSE incoming
    /\ datagram' = "empty"
    /\ UNCHANGED <<pump, received, pending_datagrams, needs_decapsulate_drain, outgoing, tunn, written, sent, lost>>

\* Or nothing more, or an error.
DecapsulateDone ==
    /\ pump = "decapsulate" /\ ~Full
    /\ \/ datagram \in {"junk", "expired"}
       \/ datagram = "empty" /\ ~(tunn.session /\ tunn.kept # <<>>)
       \/ datagram \in {"data", "other data"} /\ ~tunn.session
    /\ IF datagram = "expired" THEN ResetTunnel
       ELSE UNCHANGED <<tunn, pending_datagrams, needs_decapsulate_drain, lost>>
    /\ pump' = "receive"
    /\ UNCHANGED <<datagram, received, incoming, outgoing, written, sent>>

-----------------------------------------------------------------------------
\* IpDevice::receive and transmit: a token is given while there is room for what
\* its holder may write.
StackWrites ==
    /\ Len(outgoing) < MAX_PLAINTEXT_PACKETS /\ written < MaxStackPackets
    /\ written' = written + 1
    /\ outgoing' = Append(outgoing, written + 1)

PollStack ==
    /\ pump = "poll"
    /\ \/ /\ incoming > 0 /\ Len(outgoing) < MAX_PLAINTEXT_PACKETS
          /\ incoming' = incoming - 1
          /\ StackWrites \/ UNCHANGED <<outgoing, written>>
          /\ UNCHANGED pump
       \/ StackWrites /\ UNCHANGED <<pump, incoming>>
       \/ pump' = "send" /\ UNCHANGED <<incoming, outgoing, written>>
    /\ UNCHANGED <<datagram, received, pending_datagrams, needs_decapsulate_drain, tunn, sent, lost>>

\* Mutant: a packet met by an expired session is gone.
SendExpiredLosing == ResetTunnel /\ pump' = "timers" /\ outgoing' = Tail(outgoing) /\ UNCHANGED sent

\* An expired session: the packet is put back for the next tick.
SendExpired == ResetTunnel /\ pump' = "timers" /\ UNCHANGED <<outgoing, sent>>

\* send_plaintext. Without a session Tunn keeps the packet, and may have its
\* handshake sent; any other error of it ends the driver.
SendPlaintext ==
    /\ pump = "send"
    /\ \/ /\ Full \/ outgoing = <<>>
          /\ pump' = "timers" /\ UNCHANGED <<outgoing, tunn, pending_datagrams, needs_decapsulate_drain, sent, lost>>
       \/ /\ ~Full /\ outgoing # <<>> /\ Head(outgoing) \in Elsewhere
          /\ outgoing' = Tail(outgoing) /\ UNCHANGED <<pump, tunn, pending_datagrams, needs_decapsulate_drain, sent, lost>>
       \/ /\ ~Full /\ outgoing # <<>> /\ Head(outgoing) \notin Elsewhere
          /\ \/ /\ outgoing' = Tail(outgoing) /\ UNCHANGED <<needs_decapsulate_drain, lost>>
                /\ IF tunn.session THEN QueueDatagram(Sealed(Head(outgoing)), "send") /\ UNCHANGED tunn
                   ELSE /\ tunn' = [tunn EXCEPT !.kept = Append(@, Head(outgoing))]
                        /\ \/ QueueDatagram(Sealed(0), "send")
                           \/ UNCHANGED <<pump, pending_datagrams, sent>>
             \/ SendExpired
             \/ pump' = "failed" /\ outgoing' = Tail(outgoing) /\ UNCHANGED <<tunn, pending_datagrams, needs_decapsulate_drain, sent, lost>>
    /\ UNCHANGED <<datagram, received, incoming, written>>

\* update_timers, when TIMER_TICK has passed: a handshake, a keepalive or an error.
UpdateTimers ==
    /\ pump = "timers"
    /\ \/ ~Full /\ pump' = "failed" /\ UNCHANGED <<tunn, pending_datagrams, needs_decapsulate_drain, sent, lost>>
       \/ pump' = "flush again" /\ UNCHANGED <<tunn, pending_datagrams, needs_decapsulate_drain, sent, lost>>
       \/ ~Full /\ QueueDatagram(Sealed(0), "flush again") /\ UNCHANGED <<tunn, needs_decapsulate_drain, lost>>
       \/ ~Full /\ ResetTunnel /\ pump' = "flush again" /\ UNCHANGED sent
    /\ UNCHANGED <<datagram, received, incoming, outgoing, written>>

PumpNext ==
    \/ FlushDatagrams \/ ReceiveDatagrams
    \/ DecapsulateFull \/ DecapsulateToNetwork \/ DecapsulateToTunnel \/ DecapsulateDone
    \/ PollStack \/ SendPlaintext \/ UpdateTimers

-----------------------------------------------------------------------------
\* In the order of their numbers; a packet of Tunn's own may be anywhere.
InOrder(packets) == \A i, j \in DOMAIN packets : i < j => packets[i] < packets[j]
SealedInOrder(sealed) ==
    \A i, j \in DOMAIN sealed :
        i < j /\ sealed[i].packet # 0 /\ sealed[j].packet # 0 => sealed[i].packet < sealed[j].packet

\* Where the stack's packets are, from the wire back to the stack.
PacketStages == <<Range(sent), PacketsOf(pending_datagrams), Range(tunn.kept), Range(outgoing)>>

\* However the socket blocks, the packets of the stack go through the queues and
\* Tunn in the order they were written, and those that are lost were encrypted
\* for, or kept by, a session that expired. What Tunn keeps with a
\* session is remembered by needs_decapsulate_drain until the queue has room, and a
\* datagram is received only when there is room for its answer. No
\* queue outgrows its limit, which queue_datagram would answer by ending the
\* driver, and no datagram of an old session is left to be sent.
PacketsInOrder ==
    /\ InOrder(sent) /\ SealedInOrder(pending_datagrams) /\ InOrder(tunn.kept) /\ InOrder(outgoing)
    /\ \A k, l \in 1..4 : k < l => \A p \in PacketStages[k], q \in PacketStages[l] : p < q
    /\ pump # "failed" => (UNION Range(PacketStages)) \cup lost \cup (Elsewhere \cap 1..written) = 1..written
    /\ pump \notin {"decapsulate", "failed", "overflow"} /\ tunn.session /\ tunn.kept # <<>> => needs_decapsulate_drain
    /\ pump = "decapsulate" /\ datagram # "empty" => ~Full
    /\ pump # "overflow" /\ Len(pending_datagrams) <= MAX_PENDING_DATAGRAMS
    /\ Len(outgoing) <= MAX_PLAINTEXT_PACKETS /\ incoming <= MAX_PLAINTEXT_PACKETS
    /\ \A i \in DOMAIN pending_datagrams : pending_datagrams[i].of = tunn.generation
=============================================================================
