---------------------------- MODULE ServiceSpecs ----------------------------
(***************************************************************************)
(* The domain types that clients and machines share: volumes, services and *)
(* their validation, defaults and equivalence, ports and their text form,  *)
(* and what is derived from a container. Names of volumes, services and    *)
(* machines are numbers, 0 being the empty string; a text is a sequence of *)
(* the tokens that its parser tells apart.                                 *)
(***************************************************************************)
EXTENDS Results, Integers, Sequences, SequencesExt, FiniteSets, FiniteSetsExt, Functions

ApiErrors == {"NotFound", "Invalid", "Cancelled", "Operational"}
Invalid == Failure("Invalid")

(***************************************************************************)
(* GoSlice and GoMap: nil is not the same as empty.                        *)
(***************************************************************************)
Nil == [nil |-> TRUE, values |-> <<>>]
Slice(values) == [nil |-> FALSE, values |-> values]

\* A GoMap is modelled as the sequence of its pairs, nil or not as a slice is.
GoMaps(pairs) == {Nil} \cup {Slice(p) : p \in pairs}

\* make_non_nil, which every equate_empty_collections is made of.
NonNil(slice) == [slice EXCEPT !.nil = FALSE]

\* serialize and deserialize; an absent field takes the default, nil.
ToWire(slice) == IF slice.nil THEN Unset ELSE [array |-> slice.values]
FromWire(json) == IF json = Unset THEN Nil ELSE Slice(json.array)

(***************************************************************************)
(* Volumes.                                                                *)
(***************************************************************************)
\* A volume as a service describes it, and as Docker has it.
VolumeSpecs(names, drivers) ==
    [name : names \ {0}, kind : {"bind", "volume", "tmpfs"}, bind : BOOLEAN,
     options : {Unset} \cup [name : names, driver : drivers, labels : GoMaps({<<>>})]]
DockerVolumes(names, drivers, options) == [name : names \ {0}, driver : drivers, options : options]

DockerVolumeName(volume) ==
    IF volume.kind # "volume" THEN 0
    ELSE IF volume.options = Unset \/ volume.options.name = 0 THEN volume.name ELSE volume.options.name

\* VolumeSpec::with_defaults: a named volume has options with a name, and a
\* driver that is given has a name.
VolumeDefaults(volume) ==
    IF volume.kind # "volume" THEN volume
    ELSE LET options == IF volume.options = Unset THEN [name |-> 0, driver |-> Unset, labels |-> Nil] ELSE volume.options
         IN  [volume EXCEPT !.options =
                [options EXCEPT !.name = DockerVolumeName(volume),
                                !.driver = IF @ # Unset /\ @.name = "" THEN [@ EXCEPT !.name = "local"] ELSE @]]

VolumeValid(volume) == volume.name # 0 /\ volume.kind \in {"bind", "volume", "tmpfs"} /\ (volume.kind = "bind" => volume.bind)

\* Mutant: collections that are nil stay so.
EquateEmptyNot(volume) == volume

EquateEmpty(volume) ==
    IF volume.options = Unset THEN volume
    ELSE [volume EXCEPT !.options.labels = NonNil(@),
                        !.options.driver = IF @ = Unset THEN @ ELSE [@ EXCEPT !.options = NonNil(@)]]

VolumesEquivalent(left, right) == EquateEmpty(VolumeDefaults(left)) = EquateEmpty(VolumeDefaults(right))

\* Options of a driver must be the same, nil and empty told apart.
MatchesDockerVolume(volume, existing) ==
    LET spec == VolumeDefaults(volume) IN
    /\ volume.kind = "volume"
    /\ DockerVolumeName(spec) = existing.name
    /\ spec.options.driver # Unset =>
          /\ spec.options.driver.name = (IF existing.driver = "" THEN "local" ELSE existing.driver)
          /\ spec.options.driver.options = existing.options

(***************************************************************************)
(* Services. A mount names a volume of the service by its own name.        *)
(***************************************************************************)
VolumeNamed(spec, name) == SelectSeq(spec.volumes.values, LAMBDA volume : volume.name = name)

MountedDockerVolumes(spec) ==
    {volume \in UNION {ToSet(SubSeq(VolumeNamed(spec, mount.volume), 1, 1)) : mount \in ToSet(spec.mounts.values)} :
        volume.kind = "volume"}

ServiceDefaults(spec) ==
    LET mode == IF spec.mode = "" THEN "replicated" ELSE spec.mode IN
    [spec EXCEPT !.mode = mode,
                 !.replicas = IF mode = "replicated" /\ @ = 0 THEN 1 ELSE @,
                 !.volumes = IF @.nil THEN @ ELSE Slice([i \in 1..Len(@.values) |-> VolumeDefaults(@.values[i])])]

Distinct(names) == \A i, j \in 1..Len(names) : names[i] = names[j] => i = j

\* validate_configs_and_mounts. An id is Unset, a number, or text that is none.
ConfigsValid(configs, mounts) ==
    /\ 0 \notin ToSet(configs) /\ Distinct(configs)
    /\ \A mount \in ToSet(mounts) : mount.config \in ToSet(configs) /\ mount.absolute /\ mount.ids

IsIngress(port) == port.mode \in {"", "ingress"}

\* ServiceSpec::validate.
ServiceValid(spec) ==
    /\ spec.image
    /\ \A mount \in ToSet(spec.mounts.values) : mount.volume # 0 /\ mount.absolute
    /\ spec.mode \in {"", "global", "replicated"}
    /\ spec.name # 0 => spec.named
    /\ \A port \in ToSet(spec.ports) : IsIngress(port) => port.protocol \in {"http", "https"}
    /\ spec.caddy => \A port \in ToSet(spec.ports) : ~IsIngress(port)
    /\ \A i \in 1..Len(spec.volumes.values) : VolumeValid(spec.volumes.values[i])
    /\ Distinct([i \in 1..Len(spec.volumes.values) |-> spec.volumes.values[i].name])
    /\ \A mount \in ToSet(spec.mounts.values) : VolumeNamed(spec, mount.volume) # <<>>
    /\ ConfigsValid(spec.configs, spec.config_mounts)
    /\ spec.hook # Unset => spec.hook # <<>>

\* Service::find_container, over the regular and then the hook containers. An
\* id is a sequence, which a prefix of it may stand for.
FindContainer(containers, key) ==
    LET exact == {i \in 1..Len(containers) : key \in {containers[i].id, containers[i].name}}
        prefixes == {i \in 1..Len(containers) : IsPrefix(key, containers[i].id)}
    IN  IF exact # {} THEN containers[Min(exact)]
        ELSE IF Cardinality(prefixes) = 1 THEN containers[Min(prefixes)]
        ELSE IF prefixes = {} THEN Failure("NotFound") ELSE Invalid

\* The test of conflicting_service_ports, on a port of a container and another.
PortsConflict(taken1, port) ==
    /\ port.mode = "host" /\ taken1.mode = "host"
    /\ taken1.published = port.published /\ taken1.protocol = port.protocol
    /\ taken1.ip = Unset \/ port.ip = Unset \/ taken1.ip = port.ip

\* ContainerSpec::equivalent: the defaults of the log driver and of the pull
\* policy, then the order of mounts and volumes does not count.
ContainerNormal(container1) ==
    [container1 EXCEPT !.log = IF @ = Unset THEN "local" ELSE @,
                       !.pull = IF @ = "" THEN "missing" ELSE @,
                       !.command = NonNil(@),
                       !.mounts = Slice(SortSeq(@.values, LAMBDA x, y : x < y))]
ContainersEquivalent(left, right) == ContainerNormal(left) = ContainerNormal(right)

(***************************************************************************)
(* Ports as text.                                                          *)
(***************************************************************************)
\* str::split on a one-token separator, split_once, and join.
Split(text, separator) ==
    LET Add(parts, token) ==
            IF token = separator THEN Append(parts, <<>>)
            ELSE [parts EXCEPT ![Len(parts)] = Append(@, token)]
    IN  FoldLeft(Add, <<<<>>>>, text)
Position(text, token) == Min({i \in 1..Len(text) : text[i] = token})
Before(text, token) == SubSeq(text, 1, Position(text, token) - 1)
After(text, token) == SubSeq(text, Position(text, token) + 1, Len(text))
Join(parts, separator) == Tail(FlattenSeq([i \in 1..Len(parts) |-> <<separator>> \o parts[i]]))

\* Tokens that are numbers or contain a dot, and texts that are addresses.
Dotted == {"a.b", "10.0.0.1"}
NumberTokens == {"0", "24", "64", "80", "8080"}
IsNumber(text) == Len(text) = 1 /\ text[1] \in NumberTokens
V4Addresses == {<<"10.0.0.1">>}
V6Addresses == {<<"fe80", ":", ":", "1">>, <<":", ":">>}

\* ScopedIpAddr::from_str: only an IPv6 address has a zone.
ParseScopedIp(text) ==
    LET zoned == "%" \in ToSet(text) /\ Before(text, "%") \in V6Addresses /\ After(text, "%") # <<>>
    IN  IF zoned \/ text \in V6Addresses THEN [v6 |-> TRUE, text |-> text]
        ELSE IF text \in V4Addresses THEN [v6 |-> FALSE, text |-> text] ELSE Invalid

ParsePrefix(text) ==
    LET address1 == Before(text, "/")
        bits == After(text, "/")
    IN  IF address1 \in V6Addresses /\ bits \in {<<"0">>, <<"24">>, <<"64">>, <<"80">>}
        THEN [v6 |-> TRUE, text |-> address1, bits |-> bits[1]]
        ELSE IF address1 \in V4Addresses /\ bits \in {<<"0">>, <<"24">>}
        THEN [v6 |-> FALSE, text |-> address1, bits |-> bits[1]] ELSE Invalid

\* The fields of PortSpec, numbers being tokens.
PortSpecs(hostnames, ips, prefixes, numbers) ==
    [hostname : hostnames, ip : {Unset} \cup ips, prefix : {Unset} \cup prefixes, published : numbers \cup {"0"},
     container : numbers, protocol : {"http", "https", "tcp", "udp"}, mode : {"ingress", "host"}]

PortValid(port) ==
    /\ port.container # "0" /\ port.protocol \in {"http", "https", "tcp", "udp"}
    /\ \/ /\ port.mode = "ingress" /\ port.ip = Unset /\ port.prefix = Unset
          /\ port.hostname # <<>> => port.protocol \in {"http", "https"} /\ Dotted \cap ToSet(port.hostname) # {}
       \/ /\ port.mode = "host" /\ (port.ip = Unset \/ port.prefix = Unset) /\ port.published # "0"
          /\ port.protocol \in {"tcp", "udp"} /\ port.hostname = <<>>

Bracketed(address1) == IF address1.v6 THEN <<"[">> \o address1.text \o <<"]">> ELSE address1.text

FormatPort(port) ==
    IF ~PortValid(port) THEN Invalid
    ELSE LET given == SelectSeq(<<port.hostname,
                                  IF port.ip = Unset THEN <<>> ELSE Bracketed(port.ip),
                                  IF port.prefix = Unset THEN <<>> ELSE Bracketed(port.prefix) \o <<"/", port.prefix.bits>>,
                                  IF port.published = "0" THEN <<>> ELSE <<port.published>>,
                                  <<port.container>>>>, LAMBDA part : part # <<>>)
         IN  [text |-> Join(given, ":") \o <<"/", port.protocol>> \o (IF port.mode = "host" THEN <<"@", "host">> ELSE <<>>)]

SplitPortParts(text) ==
    LET parts == Split(text, ":")
        n == Len(parts)
    IN  IF n > 3 THEN <<Join(SubSeq(parts, 1, n - 2), ":"), parts[n - 1], parts[n]>> ELSE parts

Unbracket(host) ==
    IF ":" \notin ToSet(host) THEN host
    ELSE IF "]" \notin ToSet(host) \/ host[1] # "[" THEN <<>>
    ELSE Tail(Before(host, "]")) \o After(host, "]")

\* What stands before the ports: an address, a prefix or a hostname.
ParseHost(port, host) ==
    IF port.mode = "ingress" THEN [port EXCEPT !.hostname = host]
    ELSE LET bare == Unbracket(host) IN
         IF "/" \in ToSet(bare)
         THEN LET prefix == ParsePrefix(bare) IN IF IsFailure(prefix) THEN Invalid ELSE [port EXCEPT !.prefix = prefix]
         ELSE LET ip == ParseScopedIp(bare) IN IF IsFailure(ip) THEN Invalid ELSE [port EXCEPT !.ip = ip]

\* parse_port_spec: the parts before the last one.
ParseFront(port, parts) ==
    CASE Len(parts) = 1 -> port
      [] Len(parts) = 2 -> IF IsNumber(parts[1]) THEN [port EXCEPT !.published = parts[1][1]]
                           ELSE IF parts[1] = <<>> \/ port.mode = "host" THEN Invalid
                           ELSE [port EXCEPT !.hostname = parts[1]]
      [] Len(parts) = 3 -> IF ~IsNumber(parts[2]) THEN Invalid
                           ELSE ParseHost([port EXCEPT !.published = parts[2][1]], parts[1])

ParsePortSpec(text) ==
    LET parts == SplitPortParts(text)
        terminal == Last(parts)
        host == "@" \in ToSet(terminal)
        front == IF host THEN Before(terminal, "@") ELSE terminal
        given == "/" \in ToSet(front)
        protocol == IF given THEN After(front, "/") ELSE <<"tcp">>
        number == IF given THEN Before(front, "/") ELSE front
        protocols == IF host THEN {<<"tcp">>, <<"udp">>} ELSE {<<"tcp">>, <<"udp">>, <<"http">>, <<"https">>}
    IN  IF \/ Len(SelectSeq(text, LAMBDA token : token = "@")) > 1
           \/ (host /\ After(terminal, "@") # <<"host">>)
           \/ protocol \notin protocols \/ ~IsNumber(number)
        THEN Invalid
        ELSE LET port == ParseFront([hostname |-> <<>>, ip |-> Unset, prefix |-> Unset, published |-> "0",
                                     container |-> number[1], protocol |-> protocol[1],
                                     mode |-> IF host THEN "host" ELSE "ingress"], parts) IN
             IF IsFailure(port) THEN port
             ELSE IF port.hostname # <<>> /\ given /\ port.protocol \notin {"http", "https"} THEN Invalid
             ELSE LET whole == IF port.hostname # <<>> /\ ~given THEN [port EXCEPT !.protocol = "https"] ELSE port
                  IN  IF PortValid(whole) THEN whole ELSE Invalid

\* ServiceContainer::service_ports: the ports that the container's label lists.
ServicePorts(label) ==
    IF label = <<>> THEN [ports |-> <<>>]
    ELSE LET parts == Split(label, ",")
             ports == [i \in DOMAIN parts |-> ParsePortSpec(parts[i])]
         IN  IF \E i \in DOMAIN ports : IsFailure(ports[i]) THEN Invalid ELSE [ports |-> ports]

\* ServiceContainer::conflicting_service_ports: a port once for every port of
\* the container that it conflicts with.
ConflictingServicePorts(label, ports) ==
    IF IsFailure(ServicePorts(label)) THEN Invalid
    ELSE LET taken1 == ServicePorts(label).ports
             Conflicts(port) == {i \in DOMAIN taken1 : PortsConflict(taken1[i], port)}
         IN  [ports |-> FlattenSeq([j \in DOMAIN ports |-> [k \in 1..Cardinality(Conflicts(ports[j])) |-> ports[j]]])]

PortsEqual(left, right) ==
    /\ Len(left) = Len(right)
    /\ \A port \in ToSet(left) \cup ToSet(right) : PortValid(port)
    /\ \A port \in ToSet(left) \cup ToSet(right) :
          Cardinality({i \in 1..Len(left) : FormatPort(left[i]) = FormatPort(port)})
          = Cardinality({i \in 1..Len(right) : FormatPort(right[i]) = FormatPort(port)})

(***************************************************************************)
(* Times of a container.                                                   *)
(***************************************************************************)
IsLeap(year) == year % 4 = 0 /\ (year % 100 # 0 \/ year % 400 = 0)

DaysInMonth(year, month) ==
    CASE month \in {1, 3, 5, 7, 8, 10, 12} -> 31
      [] month \in {4, 6, 9, 11} -> 30
      [] month = 2 -> IF IsLeap(year) THEN 29 ELSE 28
      [] OTHER -> 0

\* Mutant: the year begins in January.
ShiftedMonthNot(month) == month - 1

ShiftedMonth(month) == month + (IF month > 2 THEN -3 ELSE 9)

DaysFromCivil(year, month, day) ==
    LET adjusted == year - (IF month <= 2 THEN 1 ELSE 0)
        era == adjusted \div 400
        yoe == adjusted - era * 400
        doy == (153 * ShiftedMonth(month) + 2) \div 5 + day - 1
    IN  era * 146097 + yoe * 365 + yoe \div 4 - yoe \div 100 + doy - 719468

\* parse_rfc3339 on its fields: days and seconds since 1970 of a time with an
\* offset of some minutes.
ParseTime(t) ==
    IF \/ t.month \notin 1..12 \/ t.day = 0 \/ t.day > DaysInMonth(t.year, t.month)
       \/ t.hour \notin 0..23 \/ t.minute \notin 0..59 \/ t.second \notin 0..59
    THEN Invalid
    ELSE LET seconds == t.hour * 3600 + t.minute * 60 + t.second - t.offset * 60
             days == DaysFromCivil(t.year, t.month, t.day)
         IN  [days |-> days + (seconds \div 86400), seconds |-> seconds % 86400]

\* human_duration: the number and its unit, in seconds.
HumanDuration(seconds) ==
    LET shown(n, unit) == [number |-> n, unit |-> unit]
        hours == (seconds + 1800) \div 3600
    IN  CASE seconds < 60 -> shown(IF seconds < 1 THEN 0 ELSE seconds, 1)
          [] seconds \in 60..3599 -> shown(seconds \div 60, 60)
          [] seconds >= 3600 /\ hours < 48 -> shown(hours, 3600)
          [] hours >= 48 /\ hours < 24 * 7 * 2 -> shown(hours \div 24, 86400)
          [] hours >= 24 * 7 * 2 /\ hours < 24 * 30 * 2 -> shown((hours \div 24) \div 7, 7 * 86400)
          [] hours >= 24 * 30 * 2 /\ hours < 24 * 365 * 2 -> shown((hours \div 24) \div 30, 30 * 86400)
          [] hours >= 24 * 365 * 2 -> shown(seconds \div (3600 * 24 * 365), 365 * 86400)

\* ContainerState, in what healthy and human_state tell apart.
ContainerStates ==
    [running : BOOLEAN, paused : BOOLEAN, restarting : BOOLEAN, dead : BOOLEAN, started : BOOLEAN,
     finished : BOOLEAN, status : {"removing", ""}, health : {Unset, "starting", "healthy", "unhealthy"}]

\* Container::healthy and human_state.
Healthy(state) == state.running /\ ~state.paused /\ ~state.restarting /\ state.health \in {Unset, "healthy"}
HumanState(state) ==
    IF state.running
    THEN IF state.paused THEN "Up (Paused)"
         ELSE IF state.restarting THEN "Restarting"
         ELSE IF state.health # Unset THEN state.health ELSE "Up"
    ELSE IF state.status = "removing" THEN "Removal In Progress"
    ELSE IF state.dead THEN "Dead"
    ELSE IF ~state.started THEN "Created"
    ELSE IF ~state.finished THEN "" ELSE "Exited"

-----------------------------------------------------------------------------
\* Volumes that are equivalent are so both ways, stay so with their defaults,
\* have one name in Docker, and a field that the wire left out does not
\* come back as another one.
VolumesAgree(left, right) ==
    VolumesEquivalent(left, right) =>
        /\ VolumesEquivalent(right, left)
        /\ VolumesEquivalent(VolumeDefaults(left), right)
        /\ DockerVolumeName(left) = DockerVolumeName(right)
        /\ VolumeValid([left EXCEPT !.bind = TRUE]) = VolumeValid([right EXCEPT !.bind = TRUE])
        /\ left.options # Unset =>
              LET labels == left.options.labels IN
              /\ FromWire(ToWire(labels)) = labels
              /\ VolumesEquivalent([left EXCEPT !.options.labels = NonNil(labels)], right)

\* A container equals another one if the order of the mounts is all that
\* tells them apart, and not if the order of the command's words is.
ContainersAgree(left, right) ==
    ContainersEquivalent(left, right) =
        /\ \A mount \in ToSet(left.mounts.values) \cup ToSet(right.mounts.values) :
              Cardinality({i \in 1..Len(left.mounts.values) : left.mounts.values[i] = mount})
              = Cardinality({i \in 1..Len(right.mounts.values) : right.mounts.values[i] = mount})
        /\ left.command.values = right.command.values
        /\ (left.log \in {Unset, "local"}) = (right.log \in {Unset, "local"})
        /\ (left.pull \in {"", "missing"}) = (right.pull \in {"", "missing"})

\* The text of a port is the port: whatever text was parsed, parsing what
\* format makes of the port gives the port back (a hostname that holds a
\* colon, which nothing rejects, apart).
PortTextIsFaithful(text) ==
    LET port == ParsePortSpec(text) IN
    ~IsFailure(port) =>
        /\ PortValid(port)
        /\ ":" \notin ToSet(port.hostname) => ParsePortSpec(FormatPort(port).text) = port

\* Every valid port has a text, that text has no other port, lists of ports
\* compare as the ports do, in any order, and a container's label gives its
\* ports back: they conflict with a port exactly if one of them does.
PortHasText(port, other) ==
    /\ ParsePortSpec(FormatPort(port).text) = port
    /\ PortsEqual(<<port>>, <<other>>) = (port = other)
    /\ PortsEqual(<<port, other>>, <<other, port>>)
    /\ LET label == FormatPort(port).text \o <<",">> \o FormatPort(other).text IN
       /\ ServicePorts(label).ports = <<port, other>>
       /\ ConflictingServicePorts(label, <<port>>).ports # <<>> <=> port.mode = "host"
       /\ ConflictingServicePorts(FormatPort(port).text, <<other>>).ports # <<>>
             <=> ConflictingServicePorts(FormatPort(other).text, <<port>>).ports # <<>>

\* find_container answers with the container of that id or name, or the only
\* one whose id begins so.
FindsTheContainer(containers, key) ==
    LET found == FindContainer(containers, key)
        fits == {i \in 1..Len(containers) : IsPrefix(key, containers[i].id)}
    IN  IF IsFailure(found)
        THEN /\ \A i \in 1..Len(containers) : key \notin {containers[i].id, containers[i].name}
             /\ (found.error = "NotFound") = (fits = {})
        ELSE \/ key \in {found.id, found.name}
             \/ IsPrefix(key, found.id) /\ Cardinality(fits) = 1

\* The day after a day is one day later, over months, leap years and
\* centuries, and an offset moves a time by itself.
DaysAreConsecutive(year, month, day, offset) ==
    LET at1(y, m, d, o) == ParseTime([year |-> y, month |-> m, day |-> d, hour |-> 23, minute |-> 30, second |-> 0, offset |-> o])
        today == at1(year, month, day, 0)
        next == IF day < DaysInMonth(year, month) THEN at1(year, month, day + 1, 0)
                ELSE IF month < 12 THEN at1(year, month + 1, 1, 0) ELSE at1(year + 1, 1, 1, 0)
        moved == at1(year, month, day, offset)
    IN  IF day \notin 1..DaysInMonth(year, month) THEN IsFailure(today)
        ELSE /\ next.days = today.days + 1
             /\ (today.days - moved.days) * 86400 + today.seconds - moved.seconds = offset * 60

\* The text of a duration is off by less than the unit it names, and never
\* says zero of a unit longer than a second.
DurationIsClose(seconds) ==
    LET shown == HumanDuration(seconds) IN
    /\ shown.unit > 1 => shown.number >= 1
    /\ seconds - shown.number * shown.unit \in (-1800)..(shown.unit + 1800)

\* What a user reads agrees with what a deployment waits for: a container is
\* healthy only while it is shown as up, and without trouble.
StateIsTold(state) == Healthy(state) => HumanState(state) \in {"Up", "healthy"}
=============================================================================
