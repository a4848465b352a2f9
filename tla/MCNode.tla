------------------------------- MODULE MCNode -------------------------------
(***************************************************************************)
(* Services of a machine that share no state, checked side by side: in     *)
(* every behaviour one of them, active, takes all the steps. In the initial*)
(* state of a component only steps of its environment are enabled, so that *)
(* fairness asks nothing of the others.                                    *)
(***************************************************************************)
EXTENDS WireGuard, Corroservice, DockerClient, Journal, MetricsServer, TcpProxy, Forward, Broadcast, TLC

CONSTANTS k1, k2, a, b, r

VARIABLE active

\* k1 answers at its second endpoint only, and k2 has none but contacts us.
MCAllEndpoints == (k1 :> <<a, b>>) @@ (k2 :> <<>>)
MCReachable == (k1 :> {b}) @@ (k2 :> {r})
MCRoaming == [k \in Peers |-> {r}]

nodeVars == <<active, wgVars, corroVars, dockerVars, journalVars, metricsVars, proxyVars, fwVars, bcVars>>

NodeInit ==
    /\ active \in {"wireguard", "corrosion", "docker", "journal", "metrics", "proxy", "forward", "broadcast"}
    /\ WgInit /\ CorroInit /\ DockerInit /\ JournalInit /\ MetricsInit /\ ProxyInit /\ ForwardInit /\ BroadcastInit
    /\ active # "corrosion" => corrosion = Absent
    /\ active # "docker" => up
    /\ active # "forward" => timer = "before"
    /\ active # "broadcast" => timed = "before"

\* The others stay as they are.
Rest(name) ==
    /\ name # "wireguard" => UNCHANGED wgVars
    /\ name # "corrosion" => UNCHANGED corroVars
    /\ name # "docker" => UNCHANGED dockerVars
    /\ name # "journal" => UNCHANGED journalVars
    /\ name # "metrics" => UNCHANGED metricsVars
    /\ name # "proxy" => UNCHANGED proxyVars
    /\ name # "forward" => UNCHANGED fwVars
    /\ name # "broadcast" => UNCHANGED bcVars
    /\ UNCHANGED active

NodeNext ==
    \/ active = "wireguard" /\ WgNext /\ Rest("wireguard")
    \/ active = "corrosion" /\ CorroNext /\ Rest("corrosion")
    \/ active = "docker" /\ DockerNext /\ Rest("docker")
    \/ active = "journal" /\ JournalNext /\ Rest("journal")
    \/ active = "metrics" /\ MetricsNext /\ Rest("metrics")
    \/ active = "proxy" /\ ProxyNext /\ Rest("proxy")
    \/ active = "forward" /\ ForwardNextStep /\ Rest("forward")
    \/ active = "broadcast" /\ BroadcastNext /\ Rest("broadcast")

NodeSpec ==
    /\ NodeInit /\ [][NodeNext]_nodeVars
    /\ WgFairness /\ CorroFairness /\ DockerFairness /\ JournalFairness
    /\ MetricsFairness /\ ProxyFairness /\ ForwardFairness /\ BroadcastFairness

-----------------------------------------------------------------------------
\* Nothing on the machine waits for ever: again and again the peers that can be
\* reached are up and recorded, an operation that was cancelled or has a
\* deadline is over, the journal's readers and the metrics server have come to
\* their ends, the proxies have accepted and released what they owe, and a
\* broadcast that nobody holds up has returned.
NodeSettles ==
    []<>(/\ PeersAreUp /\ RecordIsCurrent
         /\ OperationIsOver /\ JournalIsOver /\ ServeIsOver
         /\ RunIsUpToDate /\ CallIsReleased /\ BroadcastIsOver)
=============================================================================
