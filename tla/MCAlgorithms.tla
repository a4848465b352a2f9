---------------------------- MODULE MCAlgorithms ----------------------------
(***************************************************************************)
(* The pure functions of the project, checked against what they promise on *)
(* every input of a bounded set. A state holds one input of one function.  *)
(***************************************************************************)
EXTENDS MCFormats, Director, CorrosionApi, Scheduler, CaddyConfig, Ipam, Store, Backoff, CorrosionAdmin, TunnelPump

CONSTANTS Adders, Removers, ClusterKeys, ClusterIds
VARIABLES clMachines, clContainers, clReady, clPc, clReq, clListed, clSubnet, clReply, clFailed

clusterVars == <<clMachines, clContainers, clReady, clPc, clReq, clListed, clSubnet, clReply, clFailed>>
\* Four addresses and two-address subnets: three requests exhaust the network,
\* which ends where the address space ends. No list breaks off.
Membership == INSTANCE Cluster WITH
    Names <- 1..3, Keys <- ClusterKeys, Ids <- ClusterIds, NetworkAddress <- 5, NetworkBits <- 1,
    SubnetBits <- 2, MaxTruncated <- 0, MaxFailed <- 1, truncated <- 0,
    machines <- clMachines, containers <- clContainers, ready <- clReady, pc <- clPc, req <- clReq, listed <- clListed,
    subnet <- clSubnet, reply <- clReply, failed <- clFailed
MCSymmetry == Permutations(ClusterKeys) \cup Permutations(ClusterIds)

machineVars == <<ipamVars, storeVars, backoffVars, adminVars, counterVars, pumpVars, clusterVars>>
vars == <<subject, input, machineVars>>

\* Or a state of one of the modules that only have safety properties.
Init ==
    /\ subject \in {"none", "ipam", "store", "backoff", "admin", "counters", "pump", "cluster"}
    /\ input \in IF subject = "none" THEN 1..8 ELSE {0}
    /\ IpamInit /\ StoreInit /\ BackoffInit /\ AdminInit /\ CountersInit /\ PumpInit /\ Membership!Init
    /\ subject # "ipam" => network = CHOOSE p \in AllPrefixes : p.bits = 1
    /\ subject # "backoff" => policy = CHOOSE p \in Policies : TRUE

\* Two machines of which either may be called by its id or its name; "z" is nobody.
MachineA == [id |-> "A", name |-> "a", address |-> "address 1"]
MachineB == [id |-> "B", name |-> "b", address |-> "address 2"]
PickRoute ==
    \E list \in {<<>>, <<MachineA>>, <<MachineA, MachineB>>, <<MachineB, MachineA>>},
       own \in {"address 1", "address 3"} :
        Pick("route", {<<list, keys, own>> : keys \in SeqOf({"A", "a", "B", "b", "*", "z"}, 3)})

Sizes == {0, 1, 60, 126, 127, 128, 200}
PickPayload == Pick("payload", {<<sizes, infos>> : sizes \in Sizes \X Sizes, infos \in {1, 2, 70} \X {1, 2, 70}})

\* Events of a query, some with more than one key, cut anywhere.
Pair(key, value) == [key |-> key, value |-> value, valid |-> TRUE]
Wide(n) == Pair("row", [width |-> n])
QueryEvents ==
    {<<Pair("columns", 2)>>, <<Wide(2)>>, <<Wide(1)>>, <<Wide(2), Pair("row", Unset)>>, <<>>,
     <<Pair("eoq", "7")>>, <<Pair("eoq", "7"), Pair("eoq", "absent")>>, <<Pair("eoq", "null")>>,
     <<Pair("error", "e")>>, <<[key |-> "row", value |-> Unset, valid |-> FALSE]>>}
PickRows ==
    \E first \in {<<Pair("columns", 2)>>, <<Wide(2)>>}, size \in {1, 3}, broken \in BOOLEAN, cut \in 0..8 :
        Pick("rows", {<<<<first>> \o rest, cut, size, broken>> : rest \in [1..3 -> QueryEvents]})
PickExec ==
    Pick("exec", {<<code, results>> : code \in {200, 400, 500}, results \in {Unset} \cup SeqOf({"ok", "error"}, 3)})

ServerAnswers ==
    [fault : {"connect", "refused", "late"}, status : {0}, location : {"none"}]
    \cup [fault : {"none"}, status : {200, 302, 307}, location : {"none", "", "ok", "bad"}]
PickRequest == Pick("request", SeqOf(ServerAnswers, 4))

Uris(schemes, authorities, segments) ==
    [scheme : schemes, authority : authorities, rooted : BOOLEAN, query : {Unset, "q"}, path : SeqOf(segments, 3)]
PickUri ==
    \E base \in {[scheme |-> "http", authority |-> "host", rooted |-> TRUE, query |-> Unset, path |-> path] :
                    path \in SeqOf({"x", "y"}, 2)} :
        Pick("uri", {<<base, ref>> : ref \in Uris({Unset, "https", "ftp"}, {Unset, "other"}, {"a", ".", "..", ""})})

-----------------------------------------------------------------------------
\* Three services on three machines. Volume 2 has an alias, 7, and volume 1
\* has three with the same driver in three spellings, 8, 9 and 6; machine 4 left
\* between the two queries.
NamedVolume(name) == [name |-> name, kind |-> "volume", bind |-> FALSE, options |-> Unset]
AliasVolume(name, of, driver) == [NamedVolume(name) EXCEPT !.options = [name |-> of, driver |-> driver, labels |-> Nil]]
ServiceVolumes ==
    <<NamedVolume(1), NamedVolume(2), AliasVolume(7, 2, Unset),
      AliasVolume(8, 1, [name |-> "local", options |-> Nil]),
      AliasVolume(9, 1, [name |-> "local", options |-> Slice(<<>>)]),
      AliasVolume(6, 1, [name |-> "", options |-> Nil])>>
ServiceOf(name, mode, placement, mounts) ==
    [name |-> name, mode |-> mode, placement |-> placement, replicas |-> 1, image |-> TRUE, named |-> TRUE,
     ports |-> <<>>, caddy |-> FALSE, configs |-> <<>>, config_mounts |-> <<>>, hook |-> Unset,
     volumes |-> Slice(ServiceVolumes),
     mounts |-> Slice([i \in 1..Len(mounts) |-> [volume |-> mounts[i], absolute |-> TRUE]])]
Services(name, modes, mountings) ==
    {ServiceOf(name, mode, placement, mounts) :
        mode \in modes, placement \in {{}, {1}, {12}, {2, 3}}, mounts \in mountings}
On(machine, volume, driver) == [machine |-> machine, volume |-> [name |-> volume, driver |-> driver, options |-> Nil]]
Existing == {{}, {On(1, 1, "")}, {On(1, 1, ""), On(2, 1, "local")}, {On(1, 1, ""), On(2, 2, "")},
             {On(3, 2, ""), On(4, 1, "")}, {On(1, 1, "other")}}
PickSchedule ==
    \E existing \in Existing,
       s1 \in Services(1, {""}, {<<1>>, <<2, 1>>}) \cup {ServiceOf(1, "", {5}, <<1>>), ServiceOf(3, "", {}, <<1>>)},
       s2 \in Services(2, {"", "global"}, {<<>>, <<7>>, <<1, 2>>}) :
        Pick("schedule", {<<InspectClusterState([i \in 1..3 |-> [id |-> i, name |-> 10 + i]], existing), <<s1, s2, s3>>>> :
                            s3 \in Services(3, {"replicated", "global"}, {<<1>>, <<2>>, <<8>>})})
PickDrivers ==
    \E existing \in {{}} \cup {{[On(1, 1, driver) EXCEPT !.volume.options = options]} : driver \in {"", "other"}, options \in {Nil, Slice(<<>>)}},
       s1 \in Services(1, {""}, {<<8>>, <<9>>, <<6>>}) :
        Pick("schedule", {<<InspectClusterState([i \in 1..3 |-> [id |-> i, name |-> 10 + i]], existing), <<s1, s2>>>> :
                            s2 \in Services(2, {"", "global"}, {<<8>>, <<9>>, <<6>>})})

Drivers == {Unset} \cup [name : {"", "local"}, options : {Nil, Slice(<<>>)}]
PickVolumes == \E left \in VolumeSpecs({0, 1, 2}, Drivers) : Pick("volumes", {<<left, right>> : right \in VolumeSpecs({0, 1}, Drivers)})
ContainersOf ==
    [log : {Unset, "local", "json"}, pull : {"", "missing", "always"},
     command : {Nil, Slice(<<>>), Slice(<<1, 2>>), Slice(<<2, 1>>)},
     mounts : {Nil, Slice(<<1, 2>>), Slice(<<2, 1>>), Slice(<<1, 1>>)}]
PickContainers == \E left \in ContainersOf : Pick("containers", {<<left, right>> : right \in ContainersOf})

Addresses == {[v6 |-> FALSE, text |-> <<"10.0.0.1">>], [v6 |-> TRUE, text |-> <<"fe80", ":", ":", "1", "%", "eth0">>],
              [v6 |-> TRUE, text |-> <<":", ":">>]}
Prefixes1 == {[v6 |-> FALSE, text |-> <<"10.0.0.1">>, bits |-> "24"], [v6 |-> TRUE, text |-> <<":", ":">>, bits |-> "64"]}
ValidPorts ==
    {port \in PortSpecs({<<>>, <<"a.b">>}, Addresses, Prefixes1, {"80", "8080"}) : PortValid(port)}
PickPorts == \E port \in ValidPorts : Pick("ports", {<<port, other>> : other \in ValidPorts})
PickPortText ==
    \E host \in {<<>>} \cup {Append(h, ":") : h \in {<<>>, <<"a.b">>, <<"10.0.0.1">>, <<"[", ":", ":", "]">>, <<":", ":">>,
                <<"[", "fe80", ":", ":", "1", "]">>, <<"[", ":", ":", "]", "/", "64">>, <<"10.0.0.1", "/", "64">>, <<"[", "a.b">>}},
       published1 \in {<<>>, <<":">>, <<"80", ":">>, <<"0", ":">>, <<"a.b", ":">>},
       number \in {<<>>, <<"80">>, <<"0">>, <<"a.b">>},
       protocol \in {<<>>, <<"/">>, <<"/", "tcp">>, <<"/", "http">>, <<"/", "https">>, <<"/", "80">>} :
        Pick("text", {host \o published1 \o number \o protocol \o mode :
                        mode \in {<<>>, <<"@">>, <<"@", "host">>, <<"@", "http">>, <<"@", "host", "@", "host">>}})

Ids == {<<"a">>, <<"a", "b">>, <<"a", "b", "c">>, <<"b">>}
PickFind ==
    Pick("find", {<<[i \in 1..3 |-> [id |-> ids[i], name |-> names[i]]], key>> :
                    ids \in [1..3 -> Ids], names \in [1..3 -> {<<"n">>, <<"a">>}], key \in Ids \cup {<<"n">>, <<>>}})
PickDay ==
    \E year \in {1, 3, 4, 99, 100, 399, 400, 401, 1899, 1900, 1969, 1970, 1999, 2000, 2023, 2024, 2100}, month \in 1..12 :
        Pick("day", {<<year, month, day, offset>> : day \in 0..32, offset \in {-1440, -90, 0, 30, 1440}})
Around(n) == {n - 1801, n - 1800, n - 1, n, n + 1, n + 1799, n + 1800}
PickDuration ==
    Pick("duration", 0..200 \cup UNION {Around(h * 3600) : h \in {1, 2, 47, 48, 49, 335, 336, 337, 1439, 1440, 1441,
                                                                  8760, 17519, 17520, 17521, 26280}})
PickState ==
    Pick("state", ContainerStates)

\* Two containers of a service and one of two others, one of which is Caddy, or two
\* of Caddy; the two may have been created at the same time. Caddy refuses a file
\* that has both configuration 2 and configuration 3.
Site(protocol, mode) == [hostname |-> <<"a.b">>, mode |-> mode, protocol |-> protocol, container |-> "80"]
Configs(block) == {Unset, [renders |-> TRUE, block |-> block], [renders |-> FALSE, block |-> block]}
ContainersAt(name, ip, times) ==
    {[machine |-> machine, name |-> name, created |-> created, ip |-> ip, config |-> config,
      ports |-> [ports |-> <<Site("http", "ingress"), Site("tcp", "host")>>]] :
        machine \in {1, 2}, created \in times, config \in Configs(name)}
Caddies == {[c EXCEPT !.ports = Failure("Invalid")] : c \in ContainersAt(1, Unset, {5})}
Seconds(c) ==
    {[c EXCEPT !.created = created, !.ip = "10.0.0.4", !.machine = machine, !.config = config] :
        created \in {1, 5}, machine \in {1, 2}, config \in {Unset, [renders |-> TRUE, block |-> 4]}}
PickCaddyfile ==
    \E caddy \in Caddies, c2 \in ContainersAt(2, "10.0.0.2", {0, 5}), c3 \in ContainersAt(3, "10.0.0.3", {0}) :
        Pick("caddyfile", {<<caddy, c2, [c3 EXCEPT !.ports.ports[1].protocol = "https"], second>> :
                              second \in Seconds(c2) \cup (IF c3.config = Unset THEN Seconds(caddy) ELSE {})})
CaddyRefuses == {{2, 3}}
Arguments == [type : {"string"}, value : {1, 2}] \cup [type : {"int"}, value : {0, 1}] \cup [type : {"float"}, value : {0}]
PickArguments == Pick("arguments", SeqOf(Arguments, 3))
Bodies ==
    [broken : BOOLEAN,
     members : SeqOf([key : {"result", "error"}, value : {"null", "number", "text"}], 2) \cup {<<[key |-> "garbage", value |-> ""]>>}]
CaddyAnswers == [sent : {"ok"}, status : {200, 400, 500}, body : Bodies]
                \cup [sent : {"error", "late"}, status : {0}, body : {[broken |-> FALSE, members |-> <<>>]}]
PickLoad == \E first1 \in CaddyAnswers : Pick("load", {<<first1, second>> : second \in CaddyAnswers})
PickDays == Pick("days", -800..800 \cup {k * 1461 + d : k \in -500..60, d \in {0, 58, 59, 60, 61, 365, 366}})
PickCaddy == PickCaddyfile \/ PickArguments \/ PickLoad \/ PickDays

PickMachine ==
    Pick("machine", {"", "1", "null text"} \X {"none", "10.0.0.1"} \X {"0", "24"})
PickAnswers ==
    Pick("answers", SeqOf([id : {1, 2}, timestamp : {1, 7, 8, 9, 10, 17, 18, 19}] \cup {Failure("Json")}, 3))
MemberSpecs == [id : {1, 2, 3}, ip : {1, 2}, zone : {""}]
PickMembers ==
    \E machines \in SeqOf(MemberSpecs, 2) \cup {<<[id |-> 2, ip |-> 1, zone |-> "eth0"]>>} :
        Pick("members", {<<machines, states, 1>> : states \in SeqOf([ip : {1, 2}, state : {"alive", "suspect", "down"}], 3)})
PickSamples == Pick("samples", SeqOf({1, 2, 3, 7, 20}, 4) \ {<<>>})

Reported(env, mounts) == [service |-> "1", name |-> "n", env |-> env, mounts |-> mounts]
MCReports == {Reported(<<>>, <<<<1, 1>>, <<2, 1>>>>), Reported(<<"e">>, <<<<2, 1>>, <<1, 1>>>>), Reported(<<>>, <<>>)}
\* The last one has its limit within the time modelled.
MCPolicies == {TransportPolicy, SubscriptionPolicy, DockerPolicy, [ReadinessPolicy EXCEPT !.limit = 60]}
Fr(kind, length) == [kind |-> kind, length |-> length]
MCConversations ==
    {<<Fr("json", 2), Fr("other", 1), Fr("json", 1), Fr("success", 1)>>, <<Fr("json", 1), Fr("json", 2), Fr("error", 1)>>,
     <<Fr("json", 1), Fr("garbage", 0), Fr("json", 1)>>, <<Fr("json", 1), Fr("json", 1)>>}

\* The inputs, in groups that the workers can share.
PickAny ==
    \/ input = 1 /\ (PickRoute \/ PickPayload \/ PickRows \/ PickExec \/ PickRequest)
    \/ input = 2 /\ (PickUri \/ PickMachine \/ PickAnswers \/ PickMembers \/ PickSamples)
    \/ input = 3 /\ (PickSchedule \/ PickDrivers \/ PickVolumes \/ PickContainers)
    \/ input = 4 /\ (PickPorts \/ PickPortText \/ PickFind \/ PickDay \/ PickDuration \/ PickState)
    \/ input = 5 /\ PickCaddy
    \/ input = 6 /\ PickMetrics
    \/ input = 7 /\ (PickUrl \/ PickFields \/ PickAccounts)
    \/ input = 8 /\ PickVersions

\* The other machines stay as they are.
Others(name) ==
    /\ name # "ipam" => UNCHANGED ipamVars
    /\ name # "store" => UNCHANGED storeVars
    /\ name # "backoff" => UNCHANGED backoffVars
    /\ name # "admin" => UNCHANGED adminVars
    /\ name # "counters" => UNCHANGED counterVars
    /\ name # "pump" => UNCHANGED pumpVars
    /\ name # "cluster" => UNCHANGED clusterVars
    /\ UNCHANGED <<subject, input>>

Next ==
    \/ /\ subject = "none" /\ UNCHANGED machineVars
       /\ PickAny
    \/ subject = "ipam" /\ IpamNext /\ Others("ipam")
    \/ subject = "store" /\ StoreNext /\ Others("store")
    \/ subject = "backoff" /\ BackoffNext /\ Others("backoff")
    \/ subject = "admin" /\ AdminNext /\ Others("admin")
    \/ subject = "counters" /\ CountersNext /\ Others("counters")
    \/ subject = "pump" /\ PumpNext /\ Others("pump")
    \/ subject = "cluster" /\ Membership!Next /\ Others("cluster")

Spec == Init /\ [][Next]_vars

-----------------------------------------------------------------------------
\* Director::route and map_machines send a broadcast to each machine it names
\* once, or name exactly the keys that stand for nobody.
\* What append_machine_info and build_machine_error make of the backends'
\* answers still parses once the answers are concatenated.
BroadcastsAreExact ==
    /\ subject = "route" => RouteIsExact(input[1], input[2], input[3])
    /\ subject = "payload" => MergedParses(input[1], input[2])

\* AddMachine handlers that do not overlap, with removals and failing writes in
\* between, keep the members' subnets apart ...
UniqueSubnets == Membership!UniqueSubnets
\* ... and leave rows from which the next handler can allocate (service.rs).
MembersAreSound == Membership!MembersAreSound

\* Rows::next ends a query's rows exactly when the whole result was received.
\* ApiClient::exec tells every error of its statements, Transport::request
\* bounds its attempts and redirects and sends nothing again that was answered,
\* and resolve_uri leaves no dot segment.
QueriesAreWhole ==
    [][/\ subject' = "rows" => RowsAreWhole(input'[1], input'[2], input'[3], input'[4])
       /\ subject' = "exec" => ExecTellsErrors(input'[1], input'[2])
       /\ subject' = "request" => RequestIsBounded(input')
       /\ subject' = "uri" /\ (input'[2].scheme = Unset \/ input'[2].authority # Unset) => ResolvesSafely(input'[1], input'[2])]_<<subject, input>>

\* VolumeScheduler::schedule finds a placement exactly when there is one.
SchedulesAreRight == [][subject' = "schedule" => ScheduleIsRight(input'[1], input'[2])]_<<subject, input>>

\* VolumeSpec::equivalent and ContainerSpec::equivalent are equivalences of
\* what the specifications mean, and PortSpec::format and parse_port_spec are
\* each other's inverse. find_container, parse_rfc3339, human_duration and
\* human_state tell the truth about a container; a machine's row in the store
\* reads back as it was written.
SpecsAgree ==
    [][/\ subject' = "volumes" => VolumesAgree(input'[1], input'[2])
       /\ subject' = "containers" => ContainersAgree(input'[1], input'[2])
       /\ subject' = "ports" => PortHasText(input'[1], input'[2])
       /\ subject' = "text" => PortTextIsFaithful(input')
       /\ subject' = "machine" => MachineJsonIsFaithful(input')
       /\ subject' = "find" => FindsTheContainer(input'[1], input'[2])
       /\ subject' = "day" => DaysAreConsecutive(input'[1], input'[2], input'[3], input'[4])
       /\ subject' = "duration" => DurationIsClose(input')
       /\ subject' = "state" => StateIsTold(input')]_<<subject, input>>

\* The admin client returns the server's objects in step, whatever was cancelled,
\* and keeps the latest state of a member; the cluster service lists every
\* machine with it, and the statistics are those of the samples.
MembersAreTold ==
    /\ AnswersInStep
    /\ subject = "answers" => LatestWins(input)
    /\ subject = "members" => MembersAreListed(input[1], input[2], input[3])
    /\ subject = "samples" => StatsAreTrue(input)

\* The Caddyfile depends on the containers, and on their order only where they tie,
\* and holds what Caddy accepts;
\* what is sent to Caddy is what Caddy made of the file; templates get the
\* addresses they ask for, and the time in the header is the time of day.
CaddyfilesAreSound ==
    [][/\ subject' = "caddyfile" => GeneratesSoundly(1, input', CaddyRefuses)
       /\ subject' = "load" => LoadIsAdapted(input'[1], input'[2])
       /\ subject' = "arguments" => RendersUpstreams(1, <<<<"10.0.0.1", "10.0.0.2">>, <<>>>>, input')
       /\ subject' = "days" => DaysRoundTrip(input')]_<<subject, input>>
=============================================================================
