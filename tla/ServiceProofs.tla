---------------------------- MODULE ServiceProofs ----------------------------
(***************************************************************************)
(* The safety of the services of a machine for every value of their        *)
(* constants. Each part has the inductive invariant of one component, what *)
(* it is made of, and the theorem that follows: MetricsServer, WireGuard,  *)
(* Corroservice, DockerClient, Journal, and Backoff with which they retry. *)
(***************************************************************************)
EXTENDS Corroservice, MetricsServer, Journal, Backoff, FiniteSetTheorems, TLAPS

\* Where the guard of a scrape can be, and the responses that are being sent.
Guards == {"none", "task"} \cup Codes
SendingTo(s) == {c \in Clients : guard[c] = s}

\* Who holds a guard is where the handler or the body of a response is.
GuardsAreHeld ==
    \A c \in Clients :
        /\ guard[c] = "task" => served[c] = "rendering"
        /\ guard[c] \in Codes => served[c] \in {"body", "sending"}
        /\ served[c] = "rendering" => guard[c] = "task"

\* The gauge counts the guards, those of handlers that outlived their connection
\* included; a response is counted when its guard is dropped.
MetricsInv ==
    /\ served \in [Clients -> {"none", "open", "rendering", "body", "sending", "ended"}]
    /\ guard \in [Clients -> Guards]
    /\ orphans \in Nat /\ gauge \in Nat
    /\ requests \in [Codes -> Nat] /\ handed \in [Codes -> Nat]
    /\ GuardsAreHeld
    /\ gauge = Cardinality(Holding) + orphans
    /\ \A s \in Codes : requests[s] + Cardinality(SendingTo(s)) = handed[s]
    /\ serve = "ok" => \A c \in Clients : served[c] = "none"

\* Adding or removing a client changes the size of a set by one.
LEMMA ClientCount ==
    ASSUME NEW S \in SUBSET Clients
    PROVE  /\ IsFiniteSet(S) /\ Cardinality(S) \in Nat
           /\ \A c \in Clients \ S : Cardinality(S \cup {c}) = Cardinality(S) + 1
           /\ \A c \in S : Cardinality(S \ {c}) = Cardinality(S) - 1 /\ Cardinality(S \ {c}) \in Nat
<1>1. IsFiniteSet(S)
  BY MetricsAssumption, FS_Subset
<1>2. \A c \in S : IsFiniteSet(S \ {c})
  BY <1>1, FS_Subset
<1> QED
  BY <1>1, <1>2, FS_CardinalityType, FS_AddElement, FS_RemoveElement

\* Before serve nobody holds a guard.
LEMMA MetricsInitInv == MetricsInit => MetricsInv
<1> SUFFICES ASSUME MetricsInit PROVE MetricsInv
  OBVIOUS
<1> USE DEF MetricsInit
<1>1. Holding = {} /\ \A s \in Codes : SendingTo(s) = {}
  BY DEF Holding, SendingTo, Codes
<1>2. Cardinality({}) = 0
  BY FS_EmptySet
<1>3. GuardsAreHeld
  BY DEF GuardsAreHeld, Codes
<1>4. /\ gauge = Cardinality(Holding) + orphans
      /\ \A s \in Codes : requests[s] + Cardinality(SendingTo(s)) = handed[s]
  BY <1>1, <1>2
<1> QED
  BY <1>3, <1>4 DEF MetricsInv, Guards

\* The guard of one connection changes hands.
LEMMA GuardMoves ==
    ASSUME MetricsInv, NEW c \in Clients, NEW g \in Guards, guard' = [guard EXCEPT ![c] = g]
    PROVE  /\ guard' \in [Clients -> Guards]
           /\ Holding' = IF g = "none" THEN Holding \ {c} ELSE Holding \cup {c}
           /\ \A s \in Codes : SendingTo(s)' = IF g = s THEN SendingTo(s) \cup {c} ELSE SendingTo(s) \ {c}
           /\ c \in Holding <=> guard[c] # "none"
           /\ \A s \in Codes : c \in SendingTo(s) <=> guard[c] = s
BY DEF MetricsInv, Guards, Holding, SendingTo, Codes

\* The steps of the accept loop touch no guard.
LEMMA ServerKeeps ==
    ASSUME MetricsInv, UNCHANGED <<guard, orphans, gauge, requests, handed>>,
           served' \in [Clients -> {"none", "open", "rendering", "body", "sending", "ended"}],
           GuardsAreHeld', serve' = "ok" => \A c \in Clients : served'[c] = "none"
    PROVE  MetricsInv'
<1>1. Holding' = Holding /\ \A s \in Codes : SendingTo(s)' = SendingTo(s)
  BY DEF Holding, SendingTo
<1> QED
  BY <1>1 DEF MetricsInv

\* A guard is dropped with the connection's value.
LEMMA DropKeeps ==
    ASSUME MetricsInv, NEW c \in Clients, NEW stage \in {"open", "ended"}, serve' = serve, handed' = handed,
           served[c] \in {"open", "rendering", "body", "sending"},
           served' = [served EXCEPT ![c] = stage], DropGuard(c)
    PROVE  MetricsInv'
<1>1. /\ guard' = [guard EXCEPT ![c] = "none"] /\ guard[c] \in Guards
      /\ gauge' = gauge - (IF guard[c] \in Codes THEN 1 ELSE 0)
      /\ requests' = [s \in Codes |-> requests[s] + (IF guard[c] = s THEN 1 ELSE 0)]
      /\ orphans' = orphans + (IF guard[c] = "task" THEN 1 ELSE 0)
  BY DEF DropGuard, MetricsInv
<1>2. /\ Holding' = Holding \ {c} /\ (c \in Holding <=> guard[c] # "none")
      /\ \A s \in Codes : SendingTo(s)' = SendingTo(s) \ {c} /\ (c \in SendingTo(s) <=> guard[c] = s)
      /\ guard' \in [Clients -> Guards]
  BY <1>1, GuardMoves, Zenon DEF Guards, Codes
<1>3. orphans' \in Nat /\ gauge' \in Nat /\ gauge' = Cardinality(Holding)' + orphans'
  <2>1. Holding \in SUBSET Clients
    BY DEF Holding
  <2>2. Cardinality(Holding') = IF guard[c] = "none" THEN Cardinality(Holding) ELSE Cardinality(Holding) - 1
    BY <1>2, <2>1, ClientCount, Zenon
  <2>3. Cardinality(Holding') \in Nat /\ Cardinality(Holding) \in Nat
    BY <1>2, <2>1, ClientCount
  <2> QED
    BY <1>1, <2>2, <2>3 DEF MetricsInv, Guards, Codes
<1>4. ASSUME NEW s \in Codes
      PROVE  requests'[s] + Cardinality(SendingTo(s)') = handed[s] /\ requests'[s] \in Nat
  <2>1. SendingTo(s) \in SUBSET Clients
    BY DEF SendingTo
  <2>2. Cardinality(SendingTo(s)') = IF guard[c] = s THEN Cardinality(SendingTo(s)) - 1 ELSE Cardinality(SendingTo(s))
    <3>1. CASE guard[c] = s
      BY <1>2, <2>1, <3>1, ClientCount
    <3>2. CASE guard[c] # s
      <4>1. SendingTo(s)' = SendingTo(s)
        BY <1>2, <3>2
      <4> QED
        BY <3>2, <4>1
    <3> QED
      BY <3>1, <3>2
  <2>3. Cardinality(SendingTo(s)) \in Nat
    BY <2>1, ClientCount
  <2>4. requests'[s] = requests[s] + (IF guard[c] = s THEN 1 ELSE 0)
    BY <1>1
  <2>5. requests[s] \in Nat /\ requests[s] + Cardinality(SendingTo(s)) = handed[s]
    BY DEF MetricsInv
  <2> QED
    BY <2>2, <2>3, <2>4, <2>5
<1>5. requests' \in [Codes -> Nat]
  BY <1>1, <1>4
<1>6. GuardsAreHeld' /\ served' \in [Clients -> {"none", "open", "rendering", "body", "sending", "ended"}]
  BY <1>1 DEF MetricsInv, GuardsAreHeld, Codes
<1>7. serve' = "ok" => \A d \in Clients : served'[d] = "none"
  BY DEF MetricsInv
<1> QED
  BY <1>2, <1>3, <1>4, <1>5, <1>6, <1>7 DEF MetricsInv

\* Every step of the accept loop, the handlers and the clients keeps the invariant.
LEMMA MetricsKeeps == MetricsInv /\ [MetricsNext]_metricsVars => MetricsInv'
<1> SUFFICES ASSUME MetricsInv, [MetricsNext]_metricsVars PROVE MetricsInv'
  OBVIOUS
<1>a. /\ served \in [Clients -> {"none", "open", "rendering", "body", "sending", "ended"}]
      /\ guard \in [Clients -> Guards] /\ GuardsAreHeld
      /\ serve = "ok" => \A c \in Clients : served[c] = "none"
      /\ orphans \in Nat /\ gauge \in Nat /\ gauge = Cardinality(Holding) + orphans
      /\ requests \in [Codes -> Nat] /\ handed \in [Codes -> Nat]
      /\ \A s \in Codes : requests[s] + Cardinality(SendingTo(s)) = handed[s]
  BY DEF MetricsInv
<1>b. Holding \in SUBSET Clients /\ \A s \in Codes : SendingTo(s) \in SUBSET Clients
  BY DEF Holding, SendingTo
<1>1. CASE MetricsCancel \/ MetricsBind \/ MetricsAcceptTemporary \/ MetricsRetry \/ MetricsAcceptFatal
            \/ MetricsStop \/ MetricsReturn \/ MetricsShutdownTimeout \/ UNCHANGED metricsVars
  <2>1. UNCHANGED connVars /\ (serve' = "ok" => serve = "ok" \/ \A c \in Clients : served[c] = "none")
    BY <1>1, Zenon DEF MetricsCancel, MetricsBind, MetricsAcceptTemporary, MetricsRetry, MetricsAcceptFatal,
         MetricsStop, MetricsReturn, MetricsShutdownTimeout, connVars, metricsVars
  <2>2. GuardsAreHeld'
    BY <1>a, <2>1 DEF connVars, GuardsAreHeld
  <2> QED
    BY <1>a, <2>1, <2>2, ServerKeeps DEF connVars
<1>2. CASE RenderOrphan
  <2>1. /\ orphans > 0 /\ orphans' = orphans - 1 /\ gauge' = gauge - 1
        /\ UNCHANGED <<serve, served, guard, requests, handed>>
    BY <1>2 DEF RenderOrphan, serverVars
  <2>2. Holding' = Holding /\ \A s \in Codes : SendingTo(s)' = SendingTo(s)
    BY <2>1 DEF Holding, SendingTo
  <2>3. orphans' \in Nat /\ gauge' \in Nat /\ gauge' = Cardinality(Holding) + orphans'
    BY <1>a, <1>b, <2>1, ClientCount
  <2>4. GuardsAreHeld'
    BY <1>a, <2>1 DEF GuardsAreHeld
  <2> QED
    BY <1>a, <2>1, <2>2, <2>3, <2>4 DEF MetricsInv
<1>3. ASSUME NEW c \in Clients, MetricsStep(c) PROVE MetricsInv'
  <2>1. CASE MetricsAccept(c) \/ MetricsJoin(c) \/ OtherRoute(c) \/ CloseIdle(c) \/ DrainBody(c)
    <3>1. /\ UNCHANGED <<guard, orphans, gauge, requests, handed, serve>>
          /\ \E stage \in {"none", "open", "body", "sending", "ended"} :
                /\ served' = [served EXCEPT ![c] = stage]
                /\ served[c] # "rendering"
                /\ stage = "sending" => served[c] = "body"
                /\ stage # "sending" => served[c] \in {"none", "open", "ended"}
                /\ serve = "ok" => served[c] # "none"
      BY <2>1 DEF MetricsAccept, MetricsJoin, OtherRoute, CloseIdle, DrainBody, serverVars
    <3>2. GuardsAreHeld' /\ served' \in [Clients -> {"none", "open", "rendering", "body", "sending", "ended"}]
      BY <1>a, <3>1 DEF GuardsAreHeld, Guards, Codes
    <3>3. serve' # "ok"
      BY <1>a, <3>1
    <3> QED
      BY <3>1, <3>2, <3>3, ServerKeeps
  <2>2. CASE Scrape(c)
    <3>1. /\ served[c] = "open" /\ served' = [served EXCEPT ![c] = "rendering"]
          /\ guard' = [guard EXCEPT ![c] = "task"] /\ gauge' = gauge + 1
          /\ UNCHANGED <<serve, orphans, requests, handed>>
      BY <2>2 DEF Scrape, serverVars
    <3>2. guard[c] = "none"
      BY <1>a, <3>1 DEF GuardsAreHeld, Guards
    <3>3. /\ guard' \in [Clients -> Guards] /\ Holding' = Holding \cup {c} /\ c \notin Holding
          /\ \A s \in Codes : SendingTo(s)' = SendingTo(s) \ {c} /\ c \notin SendingTo(s)
      BY <3>1, <3>2, GuardMoves, Zenon DEF Guards, Codes
    <3>4. gauge' \in Nat /\ gauge' = Cardinality(Holding') + orphans'
      BY <1>a, <1>b, <3>1, <3>3, ClientCount
    <3>5. \A s \in Codes : SendingTo(s)' = SendingTo(s)
      BY <3>3
    <3>6. GuardsAreHeld' /\ served' \in [Clients -> {"none", "open", "rendering", "body", "sending", "ended"}]
      BY <1>a, <3>1 DEF GuardsAreHeld, Codes
    <3> QED
      BY <1>a, <3>1, <3>3, <3>4, <3>5, <3>6, Zenon DEF MetricsInv
  <2>3. CASE Render(c)
    <3>1. /\ served[c] = "rendering" /\ served' = [served EXCEPT ![c] = "body"]
          /\ UNCHANGED <<serve, orphans, requests>>
          /\ guard[c] = "task" /\ c \in Holding /\ \A s \in Codes : c \notin SendingTo(s)
      BY <1>a, <2>3 DEF Render, serverVars, GuardsAreHeld, Holding, SendingTo, Codes
    <3>2. serve' # "ok"
      BY <1>a, <3>1
    <3>3. served' \in [Clients -> {"none", "open", "rendering", "body", "sending", "ended"}]
      BY <1>a, <3>1
    <3>4. ASSUME NEW s \in Codes, guard' = [guard EXCEPT ![c] = s], handed' = [handed EXCEPT ![s] = @ + 1], gauge' = gauge
          PROVE  MetricsInv'
      <4>1. /\ guard' \in [Clients -> Guards] /\ Holding' = Holding
            /\ \A t \in Codes : SendingTo(t)' = IF t = s THEN SendingTo(t) \cup {c} ELSE SendingTo(t)
        <5>1. /\ guard' \in [Clients -> Guards] /\ Holding' = Holding \cup {c}
              /\ \A t \in Codes : SendingTo(t)' = IF s = t THEN SendingTo(t) \cup {c} ELSE SendingTo(t) \ {c}
          BY <3>4, GuardMoves, Zenon DEF Guards, Codes
        <5> QED
          BY <3>1, <5>1, Zenon
      <4>2. ASSUME NEW t \in Codes
            PROVE  requests[t] + Cardinality(SendingTo(t)') = handed'[t] /\ handed'[t] \in Nat
        <5> DEFINE d == IF t = s THEN 1 ELSE 0
        <5>1. Cardinality(SendingTo(t)') = Cardinality(SendingTo(t)) + d
          BY <1>b, <3>1, <4>1, ClientCount
        <5>2. handed'[t] = handed[t] + d
          BY <1>a, <3>4
        <5>3. requests[t] \in Nat /\ handed[t] \in Nat /\ requests[t] + Cardinality(SendingTo(t)) = handed[t]
          BY <1>a
        <5>4. Cardinality(SendingTo(t)) \in Nat
          BY <1>b, ClientCount
        <5>5. d \in Nat
          OBVIOUS
        <5> HIDE DEF d
        <5> QED
          BY <5>1, <5>2, <5>3, <5>4, <5>5
      <4>3. handed' \in [Codes -> Nat]
        BY <1>a, <3>4
      <4>4. GuardsAreHeld'
        BY <1>a, <3>1, <3>4 DEF GuardsAreHeld, Codes
      <4> QED
        BY <1>a, <3>1, <3>2, <3>3, <3>4, <4>1, <4>2, <4>3, <4>4 DEF MetricsInv
    <3>5. ASSUME guard' = [guard EXCEPT ![c] = "none"], gauge' = gauge - 1, handed' = handed
          PROVE  MetricsInv'
      <4>1. /\ guard' \in [Clients -> Guards] /\ Holding' = Holding \ {c}
            /\ \A t \in Codes : SendingTo(t)' = SendingTo(t)
        <5>1. /\ guard' \in [Clients -> Guards] /\ Holding' = Holding \ {c}
              /\ \A t \in Codes : SendingTo(t)' = SendingTo(t) \ {c}
          BY <3>5, GuardMoves, Zenon DEF Guards, Codes
        <5> QED
          BY <3>1, <5>1, Zenon
      <4>2. gauge' \in Nat /\ gauge' = Cardinality(Holding') + orphans'
        <5>1. Cardinality(Holding') = Cardinality(Holding) - 1 /\ Cardinality(Holding') \in Nat
              /\ Cardinality(Holding) \in Nat
          BY <1>b, <3>1, <4>1, ClientCount
        <5> QED
          BY <1>a, <3>1, <3>5, <5>1
      <4>3. GuardsAreHeld'
        BY <1>a, <3>1, <3>5 DEF GuardsAreHeld, Codes
      <4> QED
        BY <1>a, <3>1, <3>2, <3>3, <3>5, <4>1, <4>2, <4>3, Zenon DEF MetricsInv
    <3> QED
      BY <2>3, <3>4, <3>5, Zenon DEF Render
  <2>4. CASE Sent(c)
    BY <2>4, DropKeeps, Zenon DEF Sent, serverVars
  <2>5. CASE Hangup(c)
    BY <2>5, DropKeeps, Zenon DEF Hangup, serverVars
  <2> QED
    BY <1>3, <2>1, <2>2, <2>3, <2>4, <2>5 DEF MetricsStep
<1> QED
  BY <1>1, <1>2, <1>3 DEF MetricsNext

\* The accounts follow from the invariant.
LEMMA MetricsInvAccounts == MetricsInv => ScrapesAreAccounted
<1> SUFFICES ASSUME MetricsInv PROVE ScrapesAreAccounted
  OBVIOUS
<1>1. \A s \in Codes : Sending(s) = Cardinality(SendingTo(s))
  BY DEF Sending, SendingTo
<1>2. serve = "ok" => Holding = {}
  BY DEF MetricsInv, GuardsAreHeld, Holding, Guards
<1> QED
  BY <1>1, <1>2 DEF MetricsInv, ScrapesAreAccounted

\* For any finite set of clients: the gauge of scrapes in flight is the number of
\* handlers and bodies that are alive, every response handed out is counted once
\* it is sent or dropped, and a serve that returned has none (the metrics server).
THEOREM ScrapesAlwaysAccounted ==
    MetricsInit /\ [][MetricsNext]_metricsVars => []ScrapesAreAccounted
BY MetricsInitInv, MetricsKeeps, MetricsInvAccounts, PTL
-----------------------------------------------------------------------------
\* What configure has done so far is done: every later step finds what the earlier
\* ones left, since only configure, cleanup and a restart touch the device.
WgInv ==
    /\ config = known
    /\ step \in {"addresses", "oldAddresses", "link", "routes", "oldRoutes", "ok"} => device = known
    /\ step \in {"link", "routes", "oldRoutes", "ok"} => address = {"management"}
    /\ step \in {"routes", "oldRoutes", "ok"} => link = "up"
    /\ step = "oldRoutes" => known \subseteq routes
    /\ step = "ok" => routes = known

\* Before the first configure.
LEMMA WgInitInv == WgInit => WgInv
BY DEF WgInit, WgInv

\* Every step of the network, its device and its peers keeps the invariant.
LEMMA WgKeeps == WgInv /\ [WgNext]_wgVars => WgInv'
<1> SUFFICES ASSUME WgInv, [WgNext]_wgVars PROVE WgInv'
  OBVIOUS
<1> USE DEF WgInv
<1>1. CASE \E wanted \in SUBSET Peers, e \in Passed, kept \in BOOLEAN : Configure(wanted, e, kept)
  <2>1. step' = "device" /\ config' = known'
    BY <1>1, Zenon DEF Configure
  <2> QED
    BY <2>1
<1>2. CASE ApplyWireguardConfig
  <2>1. step' = "addresses" /\ device' = config /\ UNCHANGED <<config, known>>
    BY <1>2 DEF ApplyWireguardConfig, wgMemory
  <2> QED
    BY <2>1
<1>3. CASE UpdateAddresses
  BY <1>3 DEF UpdateAddresses, wgMemory
<1>4. CASE SetLinkUp
  BY <1>4 DEF SetLinkUp, wgMemory
<1>5. CASE UpdatePeerRoutes
  BY <1>5, Zenon DEF UpdatePeerRoutes, wgMemory
<1>6. CASE ConfigureFails \/ Run \/ WatchEndpoints \/ CancelTicker \/ StopRun
  BY <1>6, Zenon DEF ConfigureFails, Run, WatchEndpoints, CancelTicker, StopRun, wgMemory, wgKernel
<1>7. CASE UpdatePeersFromDevice \/ UpdatePeersFails \/ ChangeWireGuardEndpoints
  <2>1. UNCHANGED <<known, config, step, device, routes, address, link>>
    BY <1>7, Zenon DEF UpdatePeersFromDevice, UpdatePeersFails, ChangeWireGuardEndpoints
  <2> QED
    BY <2>1
<1>8. CASE Cleanup \/ RestartDaemon
  <2>1. step' = "none" /\ config' = known'
    BY <1>8 DEF Cleanup, RestartDaemon, wgMemory
  <2> QED
    BY <2>1
<1>9. CASE \E k \in Peers : \E e \in Roaming[k] : Roam(k, e)
  <2>1. UNCHANGED <<known, config, step, device, routes, address, link>>
    BY <1>9 DEF Roam, wgMemory
  <2> QED
    BY <2>1
<1>10. CASE UNCHANGED wgVars
  BY <1>10 DEF wgVars, wgMemory, wgKernel
<1> QED
  BY <1>1, <1>2, <1>3, <1>4, <1>5, <1>6, <1>7, <1>8, <1>9, <1>10, Zenon DEF WgNext

\* For any peers and endpoints: when configure returns, whatever it was interrupted
\* by before and whatever the device held, the device has exactly the peers, routes
\* and address of the configuration and its link is up (WireGuardNetwork::configure).
THEOREM ConfigureAlwaysConverges == WgInit /\ [][WgNext]_wgVars => []ConfigureConverges
<1>1. WgInv => ConfigureConverges
  BY DEF WgInv, ConfigureConverges
<1> QED
  BY <1>1, WgInitInv, WgKeeps, PTL
-----------------------------------------------------------------------------
\* The requests of start, and the containers there can be.
StartSteps == {"inspect", "stopOld", "remove", "create", "pull", "createAgain", "start", "ready", "ok", "error"}
Containers == [image : {"none", "old", "wanted"}, running : BOOLEAN]
Established == [image |-> "wanted", running |-> TRUE]

\* While nobody else touches the container, start asks for "start" only when it is
\* the wanted one and waits for it only when it runs.
CorroInv ==
    /\ corrosion \in Containers
    /\ call = "start" => at \in StartSteps
    /\ call = "start" /\ ~meddled =>
          /\ at = "start" => corrosion.image = "wanted"
          /\ at = "ready" => corrosion = Established
    /\ StartEstablishes

\* What the engine can make of a container.
LEMMA ContainerKinds ==
    /\ Absent \in Containers /\ ContainerConfig \in Containers
    /\ [image |-> "old", running |-> TRUE] \in Containers
    /\ \A c \in Containers, on \in BOOLEAN : [c EXCEPT !.running = on] \in Containers
BY Zenon DEF Containers, Absent, ContainerConfig

\* Before the first call.
LEMMA CorroInitInv == CorroInit => CorroInv
<1> SUFFICES ASSUME CorroInit PROVE CorroInv
  OBVIOUS
<1>1. corrosion \in Containers
  BY ContainerKinds, Zenon DEF CorroInit, ContainerConfig
<1> QED
  BY <1>1 DEF CorroInit, CorroInv, StartEstablishes

\* A request whose answer leads on leaves what the next one needs.
LEMMA EngineSteps ==
    ASSUME corrosion \in Containers, NEW request \in StartSteps \ {"pull", "ready", "ok", "error"},
           request = "start" => corrosion.image = "wanted"
    PROVE  LET response == Engine(request)
               next == AfterReply(request, response.status)
           IN  /\ next \in StartSteps \ {"ok"}
               /\ next = "start" => response.corrosion.image = "wanted"
               /\ next = "ready" => response.corrosion = Established
<1> DEFINE response == Engine(request)
<1>1. CASE corrosion = Absent
  BY <1>1 DEF Absent, StartSteps, Engine, AfterReply, AfterStopOld, ContainerConfig
<1>2. CASE corrosion # Absent /\ request = "inspect"
  <2>1. response.status = "ok" /\ response.corrosion = corrosion
    BY <1>2 DEF Engine
  <2>2. corrosion.image = "wanted" /\ corrosion.running => corrosion = Established
    BY Zenon DEF Containers, Established
  <2> QED
    BY <1>2, <2>1, <2>2 DEF AfterReply, AfterInspect, StartSteps
<1>3. CASE corrosion # Absent /\ request = "start"
  <2>1. response.status = "ok" /\ response.corrosion = [corrosion EXCEPT !.running = TRUE]
    BY <1>3, Zenon DEF Engine
  <2>2. response.corrosion = Established
    BY <1>3, <2>1, Zenon DEF Containers, Established
  <2> QED
    BY <1>3, <2>1, <2>2 DEF AfterReply, StartSteps
<1>4. CASE corrosion # Absent /\ request \in {"stopOld", "remove", "create", "createAgain"}
  <2>1. request \in {"create", "createAgain"} => response.status = "409"
    BY <1>4 DEF Engine
  <2> QED
    BY <1>4, <2>1 DEF AfterReply, AfterStopOld, StartSteps
<1> QED
  BY <1>1, <1>2, <1>3, <1>4, Zenon DEF StartSteps

\* The first request of each call.
LEMMA FirstRequests ==
    /\ \A op \in DOMAIN First : First[op] \in {"inspect", "stop", "restart", "stopLast"}
    /\ First["start"] = "inspect"
BY DEF First

\* The engine leaves a container or none.
LEMMA EngineType ==
    ASSUME corrosion \in Containers, NEW request
    PROVE  Engine(request).corrosion \in Containers
BY ContainerKinds, Zenon DEF Engine

\* Every step of the service, its engine and its environment keeps the invariant.
LEMMA CorroKeeps == CorroInv /\ [CorroNext]_corroVars => CorroInv'
<1> SUFFICES ASSUME CorroInv, [CorroNext]_corroVars PROVE CorroInv'
  OBVIOUS
<1> USE DEF CorroInv, StartEstablishes, Established
<1>1. CASE \E op \in DOMAIN First : Call(op)
  <2>1. PICK op \in DOMAIN First : Call(op)
    BY <1>1
  <2>2. call' = op /\ at' = First[op] /\ corrosion' = corrosion
    BY <2>1 DEF Call
  <2>3. at' \in {"inspect", "stop", "restart", "stopLast"} /\ (call' = "start" => at' = "inspect")
    BY <2>2, FirstRequests, Zenon
  <2> QED
    BY <2>2, <2>3 DEF StartSteps
<1>2. CASE Request
  <2>1. corrosion' = Engine(at).corrosion /\ at' = AfterReply(at, Engine(at).status)
        /\ call' = call /\ meddled' = meddled /\ at \notin {"ok", "error", "pull", "ready"}
    BY <1>2 DEF Request, HoldContainer, Goto, Returned
  <2>2. corrosion' \in Containers
    BY <2>1, EngineType
  <2>3. CASE call = "start" /\ ~meddled
    <3>1. at \in StartSteps \ {"pull", "ready", "ok", "error"} /\ (at = "start" => corrosion.image = "wanted")
      BY <2>1, <2>3
    <3> QED
      BY <2>1, <2>2, <2>3, <3>1, EngineSteps, Zenon
  <2>4. CASE call = "start" /\ meddled
    BY <2>1, <2>2, <2>4 DEF AfterReply, AfterInspect, AfterStopOld, StartSteps
  <2> QED
    BY <2>1, <2>2, <2>3, <2>4, Zenon
<1>3. CASE RequestFails
  <2>1. corrosion' \in Containers
    BY <1>3, EngineType DEF RequestFails, HoldContainer
  <2> QED
    BY <1>3, <2>1, Zenon DEF RequestFails, Goto, StartSteps
<1>4. CASE PullEnds
  BY <1>4 DEF PullEnds, Goto, StartSteps
<1>5. CASE WaitReady
  BY <1>5 DEF WaitReady, Goto, StartSteps
<1>6. CASE ExtendTimeout \/ Boot \/ PruneImage
  BY <1>6 DEF ExtendTimeout, Boot, PruneImage
<1>7. CASE Meddle
  BY <1>7, ContainerKinds, Zenon DEF Meddle
<1>8. CASE UNCHANGED corroVars
  BY <1>8 DEF corroVars
<1> QED
  BY <1>1, <1>2, <1>3, <1>4, <1>5, <1>6, <1>7, <1>8, Zenon DEF CorroNext

\* When start returns and nobody meddled meanwhile, the container of this version
\* runs, whichever container was there before (CorrosionService::start).
THEOREM StartAlwaysEstablishes == CorroInit /\ [][CorroNext]_corroVars => []StartEstablishes
<1>1. CorroInv => StartEstablishes
  BY DEF CorroInv
<1> QED
  BY <1>1, CorroInitInv, CorroKeeps, PTL
-----------------------------------------------------------------------------
\* The operations of the client, and where they can wait.
Operations == {"none", "ready", "create", "port"}
Awaits == {"none", "connect", "ping", "backoff", "create", "auth", "pull", "body", "createAgain", "inspect", "sleep"}

\* Units that have arrived and are not in the buffer.
Arriving == IF reply = "1" THEN 1 ELSE IF reply = "2" THEN 2 ELSE 0

\* Two units are a progress message: what the engine sent is decoded, in the buffer
\* or arriving.
DockerInv ==
    /\ task \in [op : Operations, awaits : Awaits]
    /\ sent \in Nat /\ buffer \in Nat /\ decoded \in Nat
    /\ task.awaits # "body" => reply \notin {"1", "2"}
    /\ reply = "404" => task.awaits = "create"
    /\ task.awaits \notin {"none", "body", "createAgain"} =>
          sent = 0 /\ buffer = 0 /\ decoded = 0 /\ ~eof
    /\ task.awaits = "body" => sent = 2 * decoded + buffer + Arriving
    /\ PullIsWhole

\* Before the first operation.
LEMMA DockerInitInv == DockerInit => DockerInv
<1> SUFFICES ASSUME DockerInit PROVE DockerInv
  OBVIOUS
<1>1. task = [op |-> "none", awaits |-> "none"]
  BY DEF DockerInit, Idle
<1>2. task \in [op : Operations, awaits : Awaits] /\ task.awaits = "none"
  BY <1>1, Zenon DEF Operations, Awaits
<1> QED
  BY <1>2 DEF DockerInit, DockerInv, PullIsWhole

\* The first thing each operation waits for.
LEMMA FirstAwaits ==
    /\ DOMAIN FirstAwait \in SUBSET Operations
    /\ \A op \in DOMAIN FirstAwait : FirstAwait[op] \in {"connect", "create", "inspect"}
BY DEF FirstAwait, Operations

\* Every step of an operation, its deadline and its engine keeps the invariant.
LEMMA DockerKeeps == DockerInv /\ [DockerNext]_dockerVars => DockerInv'
<1> SUFFICES ASSUME DockerInv, [DockerNext]_dockerVars PROVE DockerInv'
  OBVIOUS
<1> USE DEF DockerInv, Operations, Awaits, PullIsWhole, Arriving
<1>1. CASE \E op \in DOMAIN FirstAwait : Begin(op)
  <2>1. PICK op \in DOMAIN FirstAwait : Begin(op)
    BY <1>1
  <2>2. /\ task = Idle /\ task' = [op |-> op, awaits |-> FirstAwait[op]] /\ reply' = reply
        /\ sent' = 0 /\ buffer' = 0 /\ decoded' = 0 /\ ~eof'
    BY <2>1 DEF Begin, Busy
  <2>3. op \in Operations /\ FirstAwait[op] \in {"connect", "create", "inspect"}
    BY <2>1, FirstAwaits, Zenon
  <2>4. task' \in [op : Operations, awaits : Awaits] /\ task'.awaits \in {"connect", "create", "inspect"}
    BY <2>2, <2>3
  <2>5. reply \notin {"1", "2", "404"}
    BY <2>2 DEF Idle
  <2> QED
    BY <2>2, <2>4, <2>5, Zenon
<1>2. CASE Cancel \/ NotifyWaiters \/ PollCancelled \/ Switch \/ Expire
  <2>1. UNCHANGED <<task, reply, sent, buffer, decoded, eof>>
    BY <1>2, Zenon DEF Cancel, NotifyWaiters, PollCancelled, CreateNotified, Switch, Expire
  <2> QED
    BY <2>1
<1>3. CASE CheckFlag \/ TakeDeadline
  <2>1. /\ \/ task' = [op |-> "none", awaits |-> "none"] /\ reply' = "none"
           \/ UNCHANGED <<task, reply>>
        /\ UNCHANGED <<sent, buffer, decoded, eof>>
    BY <1>3 DEF CheckFlag, Cancelled, TakeDeadline, Return, Idle
  <2> QED
    BY <2>1
<1>4. CASE Answer
  <2>1. /\ task.awaits # "body" => reply' \notin {"1", "2"}
        /\ reply' = "404" => task.awaits = "create"
    BY <1>4 DEF Answer, Replies
  <2>2. task.awaits # "body" => sent' = sent
    BY <1>4, <2>1 DEF Answer
  <2>3. task.awaits = "body" => sent' = 2 * decoded + buffer + Arriving'
    BY <1>4 DEF Answer
  <2>4. sent' \in Nat
    BY <1>4 DEF Answer
  <2> QED
    BY <1>4, <2>1, <2>2, <2>3, <2>4 DEF Answer
<1>5. CASE TakeReply
  <2>1. CASE TakeReady
    BY <1>5, <2>1 DEF TakeReply, TakeReady, Await, Return, Idle
  <2>2. CASE TakeCreate
    BY <1>5, <2>2 DEF TakeReply, TakeCreate, Await, Return, Idle
  <2>3. CASE TakeChunk
    BY <1>5, <2>3 DEF TakeReply, TakeChunk, Await, Return, Idle
  <2>4. CASE TakePort
    BY <1>5, <2>4 DEF TakeReply, TakePort, Await, Return, Idle
  <2> QED
    BY <1>5, <2>1, <2>2, <2>3, <2>4, Zenon DEF TakeReply
<1>6. CASE Decode
  BY <1>6 DEF Decode, Decoding, AtEof, Await, Return, Idle
<1>7. CASE UNCHANGED dockerVars
  BY <1>7 DEF dockerVars
<1> QED
  BY <1>1, <1>2, <1>3, <1>4, <1>5, <1>6, <1>7, Zenon DEF DockerNext

\* A pull that succeeded has decoded all the engine sent, to the end of its body,
\* however it was cut into chunks (the client's pull and its decoder).
THEOREM PullAlwaysWhole == DockerInit /\ [][DockerNext]_dockerVars => []PullIsWhole
<1>1. DockerInv => PullIsWhole
  BY DEF DockerInv
<1> QED
  BY <1>1, DockerInitInv, DockerKeeps, PTL

\* With any peers, endpoints and versions: configure, start and pull have done what
\* they say when they return.
THEOREM ServicesAlwaysEstablished ==
    /\ WgInit /\ [][WgNext]_wgVars
    /\ CorroInit /\ [][CorroNext]_corroVars
    /\ DockerInit /\ [][DockerNext]_dockerVars
    => []ServicesAreEstablished
<1>1. ConfigureConverges /\ StartEstablishes /\ PullIsWhole => ServicesAreEstablished
  BY DEF ServicesAreEstablished
<1> QED
  BY <1>1, ConfigureAlwaysConverges, StartAlwaysEstablishes, PullAlwaysWhole, PTL
-----------------------------------------------------------------------------
\* A journalctl that has not been waited for.
Alive == {"running", "closed", "exited"}

\* The child is with the lock while the worker reads; who takes it waits for it.
JournalInv ==
    /\ stream \in {"new", "idle", "receiving", "cancelling", "joining", "dropped", "stopping", "failed"}
    /\ stream \in {"new", "stopping", "failed"} <=> worker = "none"
    /\ worker \in {"none", "reading", "sending", "waiting", "stopping", "done"}
    /\ child <=> worker \in {"reading", "sending", "waiting"}
    /\ stream = "new" => process = "none"
    /\ stream = "failed" => process \in {"none", "reaped"}
    /\ child \/ stream = "stopping" \/ worker = "stopping" => process \in Alive
    /\ worker = "done" => process = "reaped"
    /\ ended \/ stream = "dropped" => worker = "done"

\* Before logs.
LEMMA JournalInitInv == JournalInit => JournalInv
BY DEF JournalInit, JournalInv

\* Every step of the owner, the worker and journalctl keeps the invariant.
LEMMA JournalKeeps == JournalInv /\ [JournalNext]_journalVars => JournalInv'
<1> SUFFICES ASSUME JournalInv, [JournalNext]_journalVars PROVE JournalInv'
  OBVIOUS
<1> USE DEF JournalInv, Alive, ownerVars, processVars
<1>1. CASE Logs \/ LogsFails
  BY <1>1 DEF Logs, LogsFails
<1>2. CASE NextEntry \/ Receive
  <2>1. /\ stream \in {"idle", "receiving"} /\ stream' \in {"idle", "receiving"} /\ UNCHANGED processVars
        /\ UNCHANGED <<worker, ended>> \/ (worker = "sending" /\ worker' \in {"reading", "waiting"} /\ UNCHANGED ended)
              \/ (worker = "done" /\ ended' = TRUE /\ UNCHANGED worker)
    BY <1>2, Zenon DEF NextEntry, Receive
  <2> QED
    BY <2>1
<1>3. CASE DropReceiver \/ DropCancels \/ DropJoins \/ CancelLogs
  BY <1>3 DEF DropReceiver, DropCancels, DropJoins, CancelLogs
<1>4. CASE Scan \/ ScanEnd \/ ScanFails \/ ScanPending
  <2>1. /\ worker = "reading" /\ worker' \in {"reading", "sending", "waiting"}
        /\ UNCHANGED <<stream, ended, process, child>>
    BY <1>4, Zenon DEF Scan, ScanEnd, ScanFails, ScanPending, Offer
  <2> QED
    BY <2>1
<1>5. CASE SendFails \/ StopWaits \/ WaitForChild
  BY <1>5 DEF SendFails, StopWaits, WaitForChild, ReceiverGone
<1>6. CASE JournalctlWrites \/ JournalctlCloses \/ JournalctlExits
  <2>1. /\ process \in Alive /\ process' \in Alive
        /\ UNCHANGED <<stream, ended, child, worker>>
    BY <1>6 DEF JournalctlWrites, JournalctlCloses, JournalctlExits
  <2> QED
    BY <2>1
<1>7. CASE UNCHANGED journalVars
  BY <1>7 DEF journalVars
<1> QED
  BY <1>1, <1>2, <1>3, <1>4, <1>5, <1>6, <1>7, Zenon DEF JournalNext, JournalStep

\* For any sizes of the buffer and of a line: no stream that has ended, has been
\* dropped or has failed to start leaves a journalctl behind (run_reader, stop_child
\* and wait_for_child, with Drop and cancel racing).
THEOREM JournalctlAlwaysReaped == JournalInit /\ [][JournalNext]_journalVars => []JournalctlIsReaped
<1>1. JournalInv => JournalctlIsReaped
  BY DEF JournalInv, JournalctlIsReaped, Alive
<1> QED
  BY <1>1, JournalInitInv, JournalKeeps, PTL

-----------------------------------------------------------------------------
\* The inductive invariant: the types, and that the last wait is in the past.
BackoffInv ==
    /\ policy \in Policies
    /\ pace \in Nat /\ clock \in Nat /\ retries \in Nat /\ due \in Nat
    /\ due <= clock
    /\ RetriesAreBounded

\* The next interval of the iterator lies between the current one and the maximum.
LEMMA GrownRange ==
    ASSUME NEW i \in Nat, NEW m \in Nat, i <= m
    PROVE  Grown(i, m) \in Nat /\ i <= Grown(i, m) /\ Grown(i, m) <= m
  BY DEF Grown

\* A drawn wait is at least half the initial interval of the policy.
LEMMA WaitIsLong ==
    ASSUME NEW i \in Nat, NEW p \in Nat, i <= p, NEW w \in Randomized(p)
    PROVE  w \in Nat /\ i \div 2 <= w
  BY DEF Randomized

\* One more retry needs at most one more half interval.
LEMMA OneMore ==
    ASSUME NEW n \in Nat, NEW h \in Nat
    PROVE  (n + 1) * h = n * h + h
  OBVIOUS

\* The policies give natural numbers, and the limit is one or absent.
LEMMA PolicyTypes ==
    ASSUME policy \in Policies
    PROVE  /\ policy.initial \in Nat /\ policy.maximum \in Nat /\ policy.initial <= policy.maximum
           /\ policy.limit \in Nat \cup {Unlimited} /\ policy.initial \div 2 \in Nat
  BY PoliciesAssumption

\* RetriesAreBounded is an invariant of a retried operation under any policy.
THEOREM BackoffIsBounded == BackoffSpec => []RetriesAreBounded
<1>1. BackoffInit => BackoffInv
  <2> SUFFICES ASSUME BackoffInit PROVE BackoffInv
    OBVIOUS
  <2>1. policy \in Policies
    BY DEF BackoffInit
  <2>2. policy.limit # Unlimited => policy.limit \in Nat
    BY <2>1, PolicyTypes
  <2>3. 0 * (policy.initial \div 2) = 0
    BY <2>1, PolicyTypes
  <2> QED
    BY <2>1, <2>2, <2>3, PolicyTypes DEF BackoffInit, BackoffInv, RetriesAreBounded
<1>2. BackoffInv /\ [BackoffNext]_backoffVars => BackoffInv'
  <2> SUFFICES ASSUME BackoffInv, [BackoffNext]_backoffVars PROVE BackoffInv'
    OBVIOUS
  <2>1. CASE StartAttempt \/ Succeed \/ UNCHANGED backoffVars
    BY <2>1 DEF StartAttempt, Succeed, backoffVars, BackoffInv, RetriesAreBounded
  <2>2. CASE Fail
    <3>1. PICK d \in Durations, wait \in Randomized(pace) :
            LET now == clock + d IN
            IF Within(now, wait)
            THEN /\ clock' = now + wait /\ due' = now + wait /\ retries' = retries + 1
                 /\ pace' = Grown(pace, policy.maximum)
            ELSE clock' = now /\ UNCHANGED <<pace, retries, due>>
      BY <2>2 DEF Fail
    <3>2. policy' = policy /\ policy \in Policies
      BY <2>2 DEF Fail, BackoffInv
    <3>3. d \in Nat /\ clock \in Nat /\ due \in Nat /\ retries \in Nat /\ pace \in Nat /\ due <= clock
      BY PoliciesAssumption DEF BackoffInv
    <3>4. /\ policy.initial <= pace /\ pace <= policy.maximum
          /\ retries * (policy.initial \div 2) <= due
          /\ policy.limit # Unlimited => due <= policy.limit
      BY DEF BackoffInv, RetriesAreBounded
    <3>5. CASE Within(clock + d, wait)
      <4>1. wait \in Nat /\ policy.initial \div 2 <= wait
        BY <3>2, <3>3, <3>4, PolicyTypes, WaitIsLong
      <4>2. clock' = clock + d + wait /\ due' = clock + d + wait /\ retries' = retries + 1
            /\ pace' = Grown(pace, policy.maximum)
        BY <3>1, <3>5
      <4>3. pace' \in Nat /\ policy.initial <= pace' /\ pace' <= policy.maximum
        <5>1. /\ Grown(pace, policy.maximum) \in Nat /\ pace <= Grown(pace, policy.maximum)
              /\ Grown(pace, policy.maximum) <= policy.maximum
          BY <3>2, <3>3, <3>4, PolicyTypes, GrownRange
        <5> HIDE DEF Grown
        <5> QED
          BY <4>2, <3>2, <3>3, <3>4, <5>1, PolicyTypes
      <4>4. retries' * (policy.initial \div 2) <= due'
        <5>1. retries' * (policy.initial \div 2) = retries * (policy.initial \div 2) + policy.initial \div 2
          BY <4>2, <3>2, <3>3, PolicyTypes, OneMore
        <5>2. retries * (policy.initial \div 2) \in Nat
          BY <3>2, <3>3, PolicyTypes
        <5> QED
          BY <5>1, <5>2, <4>1, <4>2, <3>2, <3>3, <3>4, PolicyTypes
      <4>5. policy.limit # Unlimited => due' <= policy.limit
        BY <4>2, <3>5 DEF Within
      <4> QED
        BY <4>1, <4>2, <4>3, <4>4, <4>5, <3>2, <3>3 DEF BackoffInv, RetriesAreBounded
    <3>6. CASE ~Within(clock + d, wait)
      <4>1. clock' = clock + d /\ UNCHANGED <<pace, retries, due>>
        BY <3>1, <3>6
      <4> QED
        BY <4>1, <3>2, <3>3, <3>4 DEF BackoffInv, RetriesAreBounded
    <3> QED
      BY <3>5, <3>6
  <2> QED
    BY <2>1, <2>2 DEF BackoffNext
<1>3. BackoffInv => RetriesAreBounded
  BY DEF BackoffInv
<1> QED
  BY <1>1, <1>2, <1>3, PTL DEF BackoffSpec
=============================================================================
