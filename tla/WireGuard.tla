------------------------------ MODULE WireGuard -----------------------------
(***************************************************************************)
(* WireGuardNetwork of crates/ployz-internal-machine-network: configure    *)
(* brings the kernel's interface to a configuration, run looks at the      *)
(* peers every second and moves a peer that is down to its next endpoint.  *)
(* Both hold the state lock to their end, so that a configure and a tick   *)
(* never overlap; the daemon may restart anywhere and finds the interface  *)
(* as it left it. A peer's key stands for its prefixes and their route.    *)
(* Times are ages in units of which Never is past every limit.             *)
(***************************************************************************)
EXTENDS Integers, Sequences, FiniteSets, Functions

CONSTANTS Peers,         \* public keys of the other machines
          AllEndpoints,  \* all_endpoints of a peer, a sequence
          Reachable,     \* the endpoints of a peer that answer
          Roaming,       \* addresses a peer may contact this machine from
          NoEndpoint,    \* the absent endpoint
          ConnectTimeout, DownInterval, \* ENDPOINT_CONNECTION_TIMEOUT, PEER_DOWN_INTERVAL
          MaxConfigures, MaxWgFaults    \* bounds of the model

ASSUME WireGuardAssumption ==
    /\ IsFiniteSet(Peers)
    /\ \A k \in Peers : NoEndpoint \notin Range(AllEndpoints[k]) \cup Reachable[k] \cup Roaming[k]
    /\ ConnectTimeout \in Nat /\ DownInterval \in Nat /\ ConnectTimeout < DownInterval

VARIABLES known,     \* peers in memory; None before the first configure: {}
          endpoint,  \* Peer.config.endpoint
          shared,    \* that endpoint is the very Arc of all_endpoints[0]
          status,    \* Peer.status
          change,    \* age of last_endpoint_change_time
          initialised, \* state.peers is Some
          device,    \* peers on the interface
          deviceEndpoint, handshake, \* their endpoints and the ages of their handshakes
          routes,    \* peers whose routes lead to the interface
          address,   \* the management address, or a former one, is assigned
          link,      \* "up" once it is up with the configured MTU
          config,    \* peers of the configuration being applied
          step,      \* what configure does next; "ok" once it returned Ok
          ticker,    \* what run does next
          cancelled, \* its cancellation token
          watching,  \* the daemon's watcher is in state.watchers
          recorded,  \* the endpoint the daemon last heard of
          missed,    \* peers whose latest event was not delivered
          configures, wgFaults

wgMemory == <<known, endpoint, shared, status, change, initialised>>
wgKernel == <<device, deviceEndpoint, handshake, routes, address, link>>
wgRun == <<ticker, cancelled>>
wgRecord == <<watching, recorded, missed>>
wgVars == <<wgMemory, wgKernel, config, step, wgRun, wgRecord, configures, wgFaults>>

Never == DownInterval + 1
Older(age) == IF age < Never THEN age + 1 ELSE Never
Endpoints(k) == Range(AllEndpoints[k]) \cup Roaming[k] \cup {NoEndpoint}

\* WireGuardNetwork::new found a link that had the management address of an
\* earlier configuration.
WgInit ==
    /\ known = {} /\ initialised = FALSE
    /\ endpoint = [k \in Peers |-> NoEndpoint]
    /\ shared = [k \in Peers |-> FALSE]
    /\ status = [k \in Peers |-> "Unknown"]
    /\ change = [k \in Peers |-> Never]
    /\ device = {} /\ routes = {} /\ address = {"former"} /\ link = "down"
    /\ deviceEndpoint = [k \in Peers |-> NoEndpoint]
    /\ handshake = [k \in Peers |-> Never]
    /\ config = {} /\ step = "none" /\ ticker = "stopped" /\ cancelled = FALSE
    /\ watching = FALSE /\ recorded = [k \in Peers |-> NoEndpoint] /\ missed = {}
    /\ configures = 0 /\ wgFaults = 0

\* configure does not hold the state lock, nor does a tick of run.
Unlocked == step \in {"none", "ok"}
LockIsFree == Unlocked /\ ticker \in {"stopped", "waiting"}

(* Peer *)

\* Peer::new: a device that already uses the endpoint is given its history.
NewChange(k, e, onDevice) ==
    IF e = NoEndpoint \/ (onDevice /\ deviceEndpoint[k] = e) THEN Never ELSE 0

\* Peer::calculate_status
CalculateStatus(e, since_endpoint_change, since_last_handshake) ==
    LET handshake_after_endpoint == since_last_handshake < since_endpoint_change
        down == IF e = NoEndpoint THEN "Unknown" ELSE "Down"
    IN  IF since_endpoint_change > DownInterval
        THEN IF since_last_handshake < DownInterval THEN "Up" ELSE down
        ELSE IF handshake_after_endpoint THEN "Up"
        ELSE IF since_endpoint_change < ConnectTimeout THEN "Unknown" ELSE down

\* Peer::should_change_endpoint, and the endpoint it chooses.
ShouldChangeEndpoint(k) ==
    /\ endpoint[k] = NoEndpoint \/ status[k] = "Down"
    /\ AllEndpoints[k] # <<>>
    /\ ~(Len(AllEndpoints[k]) = 1 /\ shared[k])

\* Mutant: the search gives the endpoint in use, not the one after it.
NextEndpointStays(k) ==
    IF endpoint[k] \in Range(AllEndpoints[k]) THEN endpoint[k] ELSE Head(AllEndpoints[k])

NextEndpoint(k) ==
    LET all == AllEndpoints[k]
        current == {i \in DOMAIN all : all[i] = endpoint[k]}
    IN  IF current = {} THEN all[1]
        ELSE all[((CHOOSE i \in current : \A j \in current : i <= j) % Len(all)) + 1]

(* configure. The caller passes the endpoints it has recorded, or none; the
   Arc of an endpoint is the one in memory only if the caller kept it. *)

Configure(wanted, e, kept) ==
    /\ LockIsFree /\ link # "deleted"
    /\ configures < MaxConfigures
    /\ configures' = configures + 1
    /\ config' = wanted /\ step' = "device"
    /\ LET old(k) == initialised /\ k \in known
           same(k) == kept /\ e[k] = endpoint[k]
       IN  /\ endpoint' = [k \in Peers |-> IF k \in wanted THEN e[k] ELSE NoEndpoint]
           /\ shared' = [k \in Peers |-> k \in wanted /\ IF old(k) /\ same(k) THEN shared[k]
                            ELSE AllEndpoints[k] # <<>> /\ e[k] = Head(AllEndpoints[k])]
           /\ status' = [k \in Peers |-> IF k \in wanted /\ old(k) /\ same(k)
                                         THEN status[k] ELSE "Unknown"]
           /\ change' = [k \in Peers |->
                            IF k \notin wanted THEN Never
                            ELSE IF old(k) THEN IF same(k) THEN change[k] ELSE 0
                            ELSE NewChange(k, e[k], ~initialised /\ k \in device)]
    /\ known' = wanted /\ initialised' = TRUE
    /\ recorded' = [k \in Peers |-> IF k \in wanted THEN e[k] ELSE NoEndpoint]
    /\ missed' = {}
    /\ UNCHANGED <<wgKernel, wgRun, watching, wgFaults>>

\* apply_wireguard_config: one request that adds, updates and removes peers.
\* A peer without an endpoint keeps the one it has.
ApplyWireguardConfig ==
    /\ step = "device"
    /\ device' = config
    /\ deviceEndpoint' = [k \in Peers |-> IF k \notin config THEN NoEndpoint
                            ELSE IF endpoint[k] # NoEndpoint THEN endpoint[k]
                            ELSE deviceEndpoint[k]]
    /\ handshake' = [k \in Peers |-> IF k \in config \cap device THEN handshake[k] ELSE Never]
    /\ step' = "addresses"
    /\ UNCHANGED <<wgMemory, routes, address, link, config, wgRun, wgRecord,
                   configures, wgFaults>>

\* update_addresses: add the management address, which may exist, then remove
\* the others.
UpdateAddresses ==
    /\ \/ /\ step = "addresses"
          /\ address' = address \cup {"management"} /\ step' = "oldAddresses"
       \/ /\ step = "oldAddresses"
          /\ address' = {"management"} /\ step' = "link"
    /\ UNCHANGED <<wgMemory, device, deviceEndpoint, handshake, routes, link, config, wgRun,
                   wgRecord, configures, wgFaults>>

SetLinkUp ==
    /\ step = "link"
    /\ link' = "up" /\ step' = "routes"
    /\ UNCHANGED <<wgMemory, device, deviceEndpoint, handshake, routes, address, config,
                   wgRun, wgRecord, configures, wgFaults>>

\* Mutant: the routes of peers that left the configuration are not removed.
UpdatePeerRoutesAddOnly ==
    /\ step = "routes" /\ routes' = routes \cup known /\ step' = "ok"
    /\ UNCHANGED <<wgMemory, device, deviceEndpoint, handshake, address, link, config,
                   wgRun, wgRecord, configures, wgFaults>>

\* update_peer_routes: add every route, which may exist, then remove the
\* others that lead to the interface. A route that exists is taken for the
\* interface's own: no other interface has one to a peer's prefixes.
UpdatePeerRoutes ==
    /\ \/ \E k \in known \ routes : step = "routes" /\ routes' = routes \cup {k} /\ step' = step
       \/ step = "routes" /\ known \subseteq routes /\ step' = "oldRoutes" /\ UNCHANGED routes
       \/ \E k \in routes \ known : step = "oldRoutes" /\ routes' = routes \ {k} /\ step' = step
       \/ step = "oldRoutes" /\ routes \subseteq known /\ step' = "ok" /\ UNCHANGED routes
    /\ UNCHANGED <<wgMemory, device, deviceEndpoint, handshake, address, link, config,
                   wgRun, wgRecord, configures, wgFaults>>

\* Any request to the kernel may fail; configure returns where it is. The
\* caller may call it again.
ConfigureFails ==
    /\ ~Unlocked /\ wgFaults < MaxWgFaults
    /\ wgFaults' = wgFaults + 1 /\ step' = "none"
    /\ UNCHANGED <<wgMemory, wgKernel, config, wgRun, wgRecord, configures>>

(* run *)

Run ==
    /\ ticker = "stopped" /\ Unlocked /\ link # "deleted"
    /\ ticker' = "waiting" /\ cancelled' = FALSE
    /\ UNCHANGED <<wgMemory, wgKernel, config, step, wgRecord, configures, wgFaults>>

\* watch_endpoints, by the daemon; it has one watcher.
WatchEndpoints ==
    /\ LockIsFree /\ ~watching
    /\ watching' = TRUE
    /\ UNCHANGED <<wgMemory, wgKernel, config, step, wgRun, recorded, missed, configures, wgFaults>>

\* Mutant: endpoints that the device reports are taken over without an event.
NotifyNobody(changed) == UNCHANGED <<wgRecord, wgFaults>>

\* notify_watchers tells the watcher of one change after another. The rest is
\* lost when run is cancelled meanwhile, when the watcher does not answer in a
\* second, and all of it when there is no watcher.
Notify(changed) ==
    \E heard \in SUBSET changed :
        /\ recorded' = [k \in Peers |-> IF k \in heard THEN endpoint'[k] ELSE recorded[k]]
        /\ missed' = (missed \ heard) \cup (changed \ heard)
        /\ heard # {} => watching
        /\ \/ (heard = changed \/ ~watching \/ cancelled) /\ UNCHANGED wgFaults
           \/ heard # changed /\ wgFaults < MaxWgFaults /\ wgFaults' = wgFaults + 1
    /\ UNCHANGED watching

\* A unit of time, in which every working path has its handshake.
Handshakes ==
    handshake' = [k \in Peers |-> IF k \in device /\ deviceEndpoint[k] \in Reachable[k]
                                  THEN 0 ELSE Older(handshake[k])]

\* update_peers_from_device, a unit of time later.
UpdatePeersFromDevice ==
    /\ ticker = "waiting" /\ Unlocked /\ initialised
    /\ ticker' = "updated"
    /\ Handshakes
    /\ LET seen == known \cap device
           moved == {k \in seen : deviceEndpoint[k] \notin {NoEndpoint, endpoint[k]}}
       IN  /\ endpoint' = [k \in Peers |-> IF k \in moved THEN deviceEndpoint[k] ELSE endpoint[k]]
           /\ shared' = [k \in Peers |-> shared[k] /\ k \notin moved]
           /\ change' = [k \in Peers |-> IF k \in moved THEN Never ELSE Older(change[k])]
           /\ status' = [k \in Peers |-> IF k \in seen
                            THEN CalculateStatus(endpoint'[k], change'[k], handshake'[k])
                            ELSE status[k]]
           /\ Notify(moved)
    /\ UNCHANGED <<known, initialised, device, deviceEndpoint, routes, address, link, config,
                   step, cancelled, configures>>

\* The device cannot be read.
UpdatePeersFails ==
    /\ ticker = "waiting" /\ Unlocked /\ initialised /\ wgFaults < MaxWgFaults
    /\ ticker' = "updated" /\ wgFaults' = wgFaults + 1
    /\ Handshakes
    /\ change' = [k \in Peers |-> Older(change[k])]
    /\ UNCHANGED <<known, endpoint, shared, status, initialised, device, deviceEndpoint, routes,
                   address, link, config, step, cancelled, wgRecord, configures>>

\* change_wire_guard_endpoints: the peers in memory move first. The request
\* fails as a whole when one of them is not on the device.
ChangeWireGuardEndpoints ==
    /\ ticker = "updated"
    /\ ticker' = "waiting"
    /\ LET moving == {k \in known : ShouldChangeEndpoint(k)}
           failing == ~(moving \subseteq device)
       IN  /\ endpoint' = [k \in Peers |-> IF k \in moving THEN NextEndpoint(k) ELSE endpoint[k]]
           /\ shared' = [k \in Peers |-> shared[k] /\ k \notin moving]
           /\ status' = [k \in Peers |-> IF k \in moving THEN "Unknown" ELSE status[k]]
           /\ change' = [k \in Peers |-> IF k \in moving THEN 0 ELSE change[k]]
           /\ \/ /\ ~failing
                 /\ deviceEndpoint' = [k \in Peers |-> IF k \in moving THEN NextEndpoint(k)
                                                       ELSE deviceEndpoint[k]]
                 /\ Notify(moving)
              \/ /\ failing
                 /\ UNCHANGED <<deviceEndpoint, wgRecord, wgFaults>>
              \/ /\ moving # {} /\ wgFaults < MaxWgFaults
                 /\ wgFaults' = wgFaults + 1
                 /\ UNCHANGED <<deviceEndpoint, wgRecord>>
    /\ UNCHANGED <<known, initialised, device, handshake, routes, address, link, config,
                   step, cancelled, configures>>

CancelTicker ==
    /\ ticker # "stopped" /\ ~cancelled
    /\ cancelled' = TRUE
    /\ UNCHANGED <<wgMemory, wgKernel, config, step, ticker, wgRecord, configures, wgFaults>>

\* Cancellation is seen between ticks. The watchers are forgotten with the run.
StopRun ==
    /\ ticker = "waiting" /\ Unlocked /\ cancelled
    /\ ticker' = "stopped" /\ watching' = FALSE
    /\ UNCHANGED <<wgMemory, wgKernel, config, step, cancelled, recorded, missed, configures, wgFaults>>

\* cleanup deletes the link, and with it everything on the interface. The
\* network is not used afterwards; a restart makes a new link.
Cleanup ==
    /\ ticker = "stopped" /\ Unlocked /\ link # "deleted"
    /\ device' = {} /\ routes' = {} /\ address' = {} /\ link' = "deleted"
    /\ deviceEndpoint' = [k \in Peers |-> NoEndpoint]
    /\ handshake' = [k \in Peers |-> Never]
    /\ step' = "none"
    /\ UNCHANGED <<wgMemory, config, wgRun, wgRecord, configures, wgFaults>>

(* The environment *)

\* The peer contacts this machine from some address, which the kernel adopts.
Roam(k, e) ==
    /\ k \in device /\ wgFaults < MaxWgFaults /\ deviceEndpoint[k] # e
    /\ wgFaults' = wgFaults + 1
    /\ deviceEndpoint' = [deviceEndpoint EXCEPT ![k] = e]
    /\ handshake' = [handshake EXCEPT ![k] = 0]
    /\ UNCHANGED <<wgMemory, device, routes, address, link, config, step, wgRun,
                   wgRecord, configures>>

\* The daemon ends anywhere; WireGuardNetwork::new finds the link or makes one.
RestartDaemon ==
    /\ wgFaults < MaxWgFaults /\ (initialised \/ ticker # "stopped" \/ link = "deleted")
    /\ link' = IF link = "deleted" THEN "down" ELSE link
    /\ wgFaults' = wgFaults + 1
    /\ known' = {} /\ initialised' = FALSE
    /\ endpoint' = [k \in Peers |-> NoEndpoint] /\ shared' = [k \in Peers |-> FALSE]
    /\ status' = [k \in Peers |-> "Unknown"] /\ change' = [k \in Peers |-> Never]
    /\ config' = {} /\ step' = "none" /\ ticker' = "stopped" /\ cancelled' = FALSE
    /\ watching' = FALSE
    /\ UNCHANGED <<device, deviceEndpoint, handshake, routes, address, recorded, missed,
                   configures>>

\* The endpoints the daemon passes: what it heard of last, or the first one.
Passed == {[k \in Peers |-> recorded[k]],
           [k \in Peers |-> IF AllEndpoints[k] = <<>> THEN NoEndpoint ELSE Head(AllEndpoints[k])]}

WgNext ==
    \/ \E wanted \in SUBSET Peers, e \in Passed, kept \in BOOLEAN : Configure(wanted, e, kept)
    \/ ApplyWireguardConfig \/ UpdateAddresses \/ SetLinkUp \/ UpdatePeerRoutes
    \/ ConfigureFails
    \/ Run \/ WatchEndpoints \/ UpdatePeersFromDevice \/ UpdatePeersFails
    \/ ChangeWireGuardEndpoints \/ CancelTicker \/ StopRun \/ Cleanup
    \/ RestartDaemon
    \/ \E k \in Peers : \E e \in Roaming[k] : Roam(k, e)

\* The runtime polls configure and run, and the ticker fires.
WgFairness ==
    /\ WF_wgVars(UpdatePeersFromDevice \/ UpdatePeersFails \/ ChangeWireGuardEndpoints)
    /\ WF_wgVars(ApplyWireguardConfig \/ UpdateAddresses \/ SetLinkUp \/ UpdatePeerRoutes)

WgSpec == WgInit /\ [][WgNext]_wgVars /\ WgFairness
-----------------------------------------------------------------------------
\* Whatever failed attempts and restarts came before, a configure that returns
\* Ok leaves on the interface the peers, routes and address of the
\* configuration and no others (wireguard_linux.rs:66-181).
ConfigureConverges ==
    step = "ok" => device = known /\ routes = known /\ address = {"management"} /\ link = "up"

Serving == initialised /\ ticker # "stopped" /\ Unlocked /\ known = device

\* A peer one of whose endpoints answers is found up again and again while the
\* loop runs: rotation reaches that endpoint from wherever it is, roaming and
\* failed requests notwithstanding (peer.rs:143-164).
\* (True again and again in every fair behaviour.)
PeersAreUp ==
    \A k \in known : Serving /\ Reachable[k] \cap Range(AllEndpoints[k]) # {} => status[k] = "Up"

\* The daemon's record of a peer agrees with the device in the end, unless the
\* peer's latest change came while nobody watched or its delivery failed or was
\* cancelled: memory that ran ahead of a failed request comes back with an event
\* of its own, and an event that arrives makes up for those lost before it
\* (peer.rs:83-100). A run that ends forgets its watchers (wireguard_linux.rs:209),
\* so that one who does not register again hears of nothing.
\* (True again and again in every fair behaviour.)
RecordIsCurrent ==
    \A k \in known \ missed : Serving => deviceEndpoint[k] \in {NoEndpoint, recorded[k]}
=============================================================================
