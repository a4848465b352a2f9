----------------------------- MODULE CaddyConfig ----------------------------
(***************************************************************************)
(* The Caddyfile that a machine generates from the containers of the       *)
(* cluster, and the client of Caddy's admin socket that adapts and loads   *)
(* it. A Caddyfile is the sequence of its blocks. A record of a container  *)
(* is [machine, name, created, ip, ports, config]: name is a number for the *)
(* service's name, in the order of names; created is 0 if the time does    *)
(* not parse; and config is Unset or [renders, block].                     *)
(***************************************************************************)
EXTENDS ServiceSpecs

CADDY_SERVICE_NAME == 1
BaseBlock == 0

(***************************************************************************)
(* Sites from the ports of containers.                                     *)
(***************************************************************************)
\* http_upstreams_from_ports, for one protocol and hostname: a container
\* without an address, or with a label that does not parse, has no upstream.
HttpUpstreams(containers, protocol, hostname) ==
    LET Of(c) == SelectSeq(IF c.ip = Unset \/ IsFailure(c.ports) THEN <<>> ELSE c.ports.ports,
                           LAMBDA p : p.mode = "ingress" /\ p.protocol = protocol /\ p.hostname = hostname)
        Upstreams(c) == [i \in DOMAIN Of(c) |-> <<c.ip, Of(c)[i].container>>]
    IN  FlattenSeq([k \in DOMAIN containers |-> Upstreams(containers[k])])

Hostnames(containers, protocol) ==
    {h \in UNION {{p.hostname : p \in ToSet(c.ports.ports)} : c \in {d \in ToSet(containers) : ~IsFailure(d.ports)}} :
        HttpUpstreams(containers, protocol, h) # <<>>}

\* append_sites and generate_base_from_ports: the sites, with their upstreams.
Sites(containers, protocol) ==
    {[protocol |-> protocol, hostname |-> h, upstreams |-> HttpUpstreams(containers, protocol, h)] :
        h \in Hostnames(containers, protocol)}
BaseFromPorts(containers) == Sites(containers, "http") \cup Sites(containers, "https")

\* routes and generate_json_config: the route that verifies the machine is
\* always there, and a server without routes has no field for them.
JsonConfig(containers) ==
    [http |-> Sites(containers, "http") \cup {[verify |-> TRUE]},
     https |-> IF Sites(containers, "https") = {} THEN Unset ELSE Sites(containers, "https")]

\* service_upstreams, of one service.
ServiceUpstreams(containers, service) ==
    LET found1 == SelectSeq(containers, LAMBDA c : c.name = service /\ c.ip # Unset)
    IN  [i \in DOMAIN found1 |-> found1[i].ip]

(***************************************************************************)
(* The function `upstreams` of a template, on typed arguments.             *)
(***************************************************************************)
WithPort(address1, port) == [address |-> address1, port |-> IF port <= 0 THEN Unset ELSE port]

RenderUpstreams(name, upstreams, arguments) ==
    LET n == Len(arguments)
        Is(i, type) == n >= i /\ arguments[i].type = type
        Rendered(service, port) == [list |-> [i \in DOMAIN upstreams[service] |-> WithPort(upstreams[service][i], port)]]
    IN  CASE n = 0 -> Rendered(name, 0)
          [] n = 1 /\ Is(1, "int") -> Rendered(name, arguments[1].value)
          [] n = 1 /\ Is(1, "string") -> Rendered(arguments[1].value, 0)
          [] n = 1 /\ ~Is(1, "int") /\ ~Is(1, "string") -> Failure("argument type")
          [] n = 2 /\ Is(1, "string") /\ Is(2, "int") -> Rendered(arguments[1].value, arguments[2].value)
          [] n = 2 /\ ~Is(1, "string") -> Failure("first argument")
          [] n = 2 /\ Is(1, "string") /\ ~Is(2, "int") -> Failure("second argument")
          [] n > 2 -> Failure("too many arguments")

(***************************************************************************)
(* CaddyfileGenerator::generate. What Caddy says of a file is given by the *)
(* sets of blocks that it refuses together.                                *)
(***************************************************************************)
\* Mutant: the records stay in the order the store lists them.
CompareRecordsNot(own, left, right) == FALSE

\* Containers of this machine first, then by service, then by age.
CompareRecords(own, left, right) ==
    LET remote(r) == IF r.machine = own THEN 0 ELSE 1 IN
    \/ remote(left) < remote(right)
    \/ remote(left) = remote(right) /\ left.name < right.name
    \/ remote(left) = remote(right) /\ left.name = right.name /\ left.created < right.created

\* Mutant: records that are equal are turned round.
SortRecordsUnstable(own, records) ==
    LET Insert(sorted, r) ==
            LET after1 == {i \in DOMAIN sorted : ~CompareRecords(own, sorted[i], r)}
                k == IF after1 = {} THEN Len(sorted) + 1 ELSE Min(after1)
            IN  SubSeq(sorted, 1, k - 1) \o <<r>> \o SubSeq(sorted, k, Len(sorted))
    IN  FoldLeft(Insert, <<>>, records)

\* Insertion of the records one by one, which keeps equal ones in order.
SortRecords(own, records) ==
    LET Insert(sorted, r) ==
            LET after1 == {i \in DOMAIN sorted : CompareRecords(own, r, sorted[i])}
                k == IF after1 = {} THEN Len(sorted) + 1 ELSE Min(after1)
            IN  SubSeq(sorted, 1, k - 1) \o <<r>> \o SubSeq(sorted, k, Len(sorted))
    IN  FoldLeft(Insert, <<>>, records)

\* The newest of some records, the first of them at a tie.
Newest(records) == records[Min({i \in DOMAIN records : \A j \in DOMAIN records : records[j].created <= records[i].created})]

\* Mutant: a configuration that Caddy refuses is in the file all the same.
AddConfigAlways(file, record, valid, candidate) == [file EXCEPT !.blocks = candidate]

\* The configuration of a service, rendered and tried with what is in the
\* file so far: it is in the file, or an error is.
AddConfig(file, record, valid, candidate) ==
    IF record.config.renders /\ valid THEN [file EXCEPT !.blocks = candidate]
    ELSE [file EXCEPT !.errors = Append(@, record.name)]

Valid(refused, blocks) == \A together \in refused : ~(together \subseteq ToSet(blocks))

Generate(own, unsorted, includeCustom, refused) ==
    LET records == SortRecords(own, unsorted)
        base == [base |-> BaseFromPorts(records), blocks |-> <<BaseBlock>>, errors |-> <<>>]
        configured(r) == r.config # Unset
        caddies == SelectSeq(records, LAMBDA r : r.machine = own /\ r.name = CADDY_SERVICE_NAME)
        global == IF caddies = <<>> \/ ~configured(Newest(caddies)) THEN base
                  ELSE LET candidate == <<Newest(caddies).config.block>> \o base.blocks
                       IN  AddConfig(base, Newest(caddies), Valid(refused, candidate), candidate)
        numbers == SetToSortSeq({r.name : r \in {s \in ToSet(records) : s.name # CADDY_SERVICE_NAME}}, <)
        AddService(file, number) ==
            LET latest == Newest(SelectSeq(records, LAMBDA r : r.name = number))
                candidate == Append(file.blocks, latest.config.block)
            IN  IF ~configured(latest) THEN file ELSE AddConfig(file, latest, Valid(refused, candidate), candidate)
    IN  IF ~includeCustom THEN base ELSE FoldLeft(AddService, global, numbers)

\* civil_from_days, for the time in the header.
CivilFromDays(days) ==
    LET shifted == days + 719468
        era == shifted \div 146097
        doe == shifted - era * 146097
        yoe == (doe - (doe \div 1460) + (doe \div 36524) - (doe \div 146096)) \div 365
        doy == doe - (365 * yoe + (yoe \div 4) - (yoe \div 100))
        mp == (5 * doy + 2) \div 153
        month == mp + (IF mp < 10 THEN 3 ELSE -9)
    IN  <<yoe + era * 400 + (IF month <= 2 THEN 1 ELSE 0), month, doy - ((153 * mp + 2) \div 5) + 1>>

\* civil_date of the cluster service, whose division rounds towards zero, and
\* the fields of rfc3339_utc for a moment so many seconds, and a fraction of one,
\* before or after 1970.
CivilDate(days_since_epoch) ==
    LET days1 == days_since_epoch + 719468
        era == IF days1 >= 0 THEN days1 \div 146097 ELSE -((146096 - days1) \div 146097)
        doe == days1 - era * 146097
        yoe == (doe - (doe \div 1460) + (doe \div 36524) - (doe \div 146096)) \div 365
        doy == doe - (365 * yoe + (yoe \div 4) - (yoe \div 100))
        mp == (5 * doy + 2) \div 153
        month == mp + (IF mp < 10 THEN 3 ELSE -9)
    IN  <<yoe + era * 400 + (IF month <= 2 THEN 1 ELSE 0), month, doy - ((153 * mp + 2) \div 5) + 1>>

Rfc3339Utc(before, seconds, fraction) ==
    LET whole == IF ~before THEN seconds ELSE IF fraction THEN -seconds - 1 ELSE -seconds
        day == whole % 86400
    IN  [date |-> CivilDate(whole \div 86400), hour |-> day \div 3600, minute |-> (day % 3600) \div 60, second |-> day % 60]

(***************************************************************************)
(* CaddyAdminClient. An answer of Caddy is [sent, status, body]: sent is   *)
(* "ok", "error" or "late", and body is what there is of it before an end, *)
(* "broken" telling that it ended by an error or at the deadline.          *)
(***************************************************************************)
CaddyAdminClientErrors ==
    {"Construction", "Request", "ReadResponse", "ParseAdapt", "AdaptRejected", "AdaptBeforeLoad", "LoadRejected"}

\* read_body and collect_body.
ReadBody1(body) == IF body.broken THEN [error |-> "body", partial |-> body.members] ELSE [members |-> body.members]

\* AdaptEnvelope and ApiErrorEnvelope on the members of an object, null or
\* anything else: the last of the members that go_field_eq finds counts, and
\* a null is no error message.
Field1(members, key) ==
    LET found1 == SelectSeq(members, LAMBDA m : m.key = key /\ (key = "error" => m.value # "null"))
    IN  IF found1 = <<>> THEN "" ELSE Last(found1).value
Parses(members, key) ==
    \A m \in ToSet(members) : m.key # "garbage" /\ (m.key = key /\ key = "error" => m.value # "number")

Message(status1, members) == IF status1 = 400 /\ Parses(members, "error") THEN [text |-> Field1(members, "error")] ELSE Unset

Adapt(answer1) ==
    LET body == ReadBody1(answer1.body) IN
    IF answer1.sent # "ok" THEN Failure("Request")
    ELSE IF IsFailure(body) THEN Failure("ReadResponse")
    ELSE IF answer1.status = 200
         THEN IF Parses(body.members, "result") THEN [json |-> Field1(body.members, "result")] ELSE Failure("ParseAdapt")
    ELSE [error |-> "AdaptRejected", message |-> Message(answer1.status, body.members)]

\* Mutant: a configuration that was not adapted is loaded.
LoadAnyway(first1, second) ==
    LET body == ReadBody1(second.body) IN
    IF second.sent # "ok" THEN Failure("Request")
    ELSE IF second.status = 200 THEN [posted |-> ""]
    ELSE [error |-> "LoadRejected", message |-> Message(second.status, IF IsFailure(body) THEN body.partial ELSE body.members)]

\* load, with the answers to its two requests.
Load(first1, second) ==
    LET json == Adapt(first1)
        body == ReadBody1(second.body)
    IN  IF IsFailure(json) THEN Failure("AdaptBeforeLoad")
        ELSE IF second.sent # "ok" THEN Failure("Request")
        ELSE IF second.status = 200 THEN [posted |-> json.json]
        ELSE [error |-> "LoadRejected", message |-> Message(second.status, IF IsFailure(body) THEN body.partial ELSE body.members)]

-----------------------------------------------------------------------------
\* A machine generates one file from the same containers, whatever the order
\* in which the store lists them (list_containers_query has no ORDER BY), all but
\* containers of one service that were created at the same time, both here or both
\* elsewhere: of those the first listed configures the service, and their upstreams
\* are in the order listed. The file is one that Caddy accepted, and
\* a service whose configuration is refused leaves the file as it would be
\* without the service. Upstreams on the machine come first, and the sites are
\* those of the file that is used while Caddy is not available.
GeneratesSoundly(own, records, refused) ==
    LET file == Generate(own, records, TRUE, refused)
        others(name) == SelectSeq(records, LAMBDA r : r.name # name)
        Tied(i, j) == ~CompareRecords(own, records[i], records[j]) /\ ~CompareRecords(own, records[j], records[i])
        KeepsTies(order) == \A i, j \in DOMAIN records : i < j /\ Tied(order[i], order[j]) => order[i] < order[j]
    IN  /\ \A order \in Permutations(DOMAIN records) :
              KeepsTies(order) => Generate(own, [i \in DOMAIN records |-> records[order[i]]], TRUE, refused) = file
        /\ \A i, j \in DOMAIN records :
              i < j /\ Tied(i, j) /\ records[j].config # Unset => records[j].config.block \notin ToSet(file.blocks)
        /\ Len(file.blocks) > 1 => Valid(refused, file.blocks)
        /\ Distinct(file.blocks)
        /\ \A r \in ToSet(records) :
              r.name \in ToSet(file.errors) /\ r.name # CADDY_SERVICE_NAME =>
                  Generate(own, others(r.name), TRUE, refused).blocks = file.blocks
        /\ file.base = Generate(own, records, FALSE, refused).base
        /\ \A site \in file.base : \A i, j \in DOMAIN site.upstreams :
              i < j /\ (\E r \in ToSet(records) : r.machine = own /\ r.ip = site.upstreams[j][1]) =>
                  \E r \in ToSet(records) : r.machine = own /\ r.ip = site.upstreams[i][1]
        /\ JsonConfig(SortRecords(own, records)).https = Unset <=> \A site \in file.base : site.protocol = "http"

\* A template's function gives the addresses of the service, in their order
\* and with the port if it names one, for the arguments it is defined for.
RendersUpstreams(name, upstreams, arguments) ==
    LET rendered == RenderUpstreams(name, upstreams, arguments)
        types == [i \in DOMAIN arguments |-> arguments[i].type]
        service == IF types # <<>> /\ types[1] = "string" THEN arguments[1].value ELSE name
    IN  IF IsFailure(rendered) THEN types \notin {<<>>, <<"int">>, <<"string">>, <<"string", "int">>}
        ELSE /\ [i \in DOMAIN rendered.list |-> rendered.list[i].address] = upstreams[service]
             /\ \A i \in DOMAIN rendered.list :
                   rendered.list[i].port # Unset <=> types # <<>> /\ Last(types) = "int" /\ Last(arguments).value > 0

\* A load succeeds only if Caddy adapted the file and accepted what the
\* adaptation gave, which is what was sent; a message is one that Caddy sent.
LoadIsAdapted(first1, second) ==
    LET result == Load(first1, second) IN
    IF IsFailure(result)
    THEN /\ result.error \in CaddyAdminClientErrors
         /\ result.error = "LoadRejected" /\ result.message # Unset => second.status = 400 /\ ~IsFailure(Adapt(first1))
    ELSE /\ first1.sent = "ok" /\ first1.status = 200 /\ ~first1.body.broken /\ second.sent = "ok" /\ second.status = 200
         /\ ~IsFailure(Adapt(first1)) /\ result.posted = Adapt(first1).json

\* The days of a date are the days it was made from, and the time the cluster
\* service writes is the last whole second that is not after the moment.
DaysRoundTrip(days) ==
    LET date == CivilFromDays(days)
        far == IF days < 0 THEN -days ELSE days
    IN  /\ DaysFromCivil(date[1], date[2], date[3]) = days /\ date[3] \in 1..DaysInMonth(date[1], date[2])
        /\ CivilDate(days) = date
        /\ \A before, fraction \in BOOLEAN :
              LET told == Rfc3339Utc(before, far, fraction)
                  seconds == DaysFromCivil(told.date[1], told.date[2], told.date[3]) * 86400 + told.hour * 3600 + told.minute * 60 + told.second
                  halves == 2 * far + (IF fraction THEN 1 ELSE 0)
              IN  (IF before THEN -halves ELSE halves) - 2 * seconds \in {0, 1}
=============================================================================
