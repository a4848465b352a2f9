------------------------------ MODULE Director ------------------------------
(***************************************************************************)
(* Where the API proxy sends a call, and how it marks an answer with the   *)
(* machine it came from: Director::route, CorrosionMapper::map_machines    *)
(* and the payload functions of ployz-internal-machine-api-proxy.          *)
(*                                                                         *)
(* A machine of the store is a record [id, name, address]. The metadata of *)
(* a call is [authority, machine, machines]: is proxy-authority set, and   *)
(* the values of the two keys, where Unset is a key that is absent.        *)
(***************************************************************************)
EXTENDS Results, Integers, Sequences, SequencesExt, FiniteSets, Functions

-----------------------------------------------------------------------------
(* map_machines *)

\* The machine a name or id stands for: the table is filled in the order of the
\* list, id before name, and a later entry replaces an earlier one.
Lookup(list, key) ==
    LET hits == {i \in DOMAIN list : key \in {list[i].id, list[i].name}}
    IN  list[CHOOSE i \in hits : \A j \in hits : j <= i]
Known(list, key) == \E i \in DOMAIN list : key \in {list[i].id, list[i].name}

\* Mutant: a machine asked for twice, by name and by id, is a target twice.
TargetsTwice(list, keys) == [i \in DOMAIN keys |-> Lookup(list, keys[i])]

\* One target per machine, in the order of the first key that stands for it.
Targets1(list, keys) ==
    FoldLeft(LAMBDA targets, key :
                IF \E i \in DOMAIN targets : targets[i].id = Lookup(list, key).id
                THEN targets ELSE Append(targets, Lookup(list, key)),
             <<>>, keys)

Resolved(targets) == [result |-> "targets", targets |-> targets]
Unknown(keys) == [result |-> "not found", keys |-> keys]
Refused(why) == [result |-> why]

MapMachines(list, keys) ==
    LET missing == SelectSeq(keys, LAMBDA key : ~Known(list, key)) IN
    CASE keys = <<>> -> Refused("internal")
      [] "*" \in Range(keys) -> IF list = <<>> THEN Refused("internal") ELSE Resolved(list)
      [] missing # <<>> -> Unknown(missing)
      [] OTHER -> Resolved(Targets1(list, keys))

-----------------------------------------------------------------------------
(* route: what the call is sent to. A backend is named by its address; the *)
(* local one, which the machine's own address stands for, is "local".      *)

Local == [mode |-> "one", backends |-> <<[address |-> "local", machine |-> Unset]>>]
BackendAddress(own, target) == IF target.address = own THEN "local" ELSE target.address

Route(metadata, list, own) ==
    LET one == MapMachines(list, metadata.machine)
        many == MapMachines(list, metadata.machines)
    IN  CASE metadata.authority -> Local
          [] ~metadata.authority /\ metadata.machine = Unset /\ metadata.machines = Unset -> Local
          [] ~metadata.authority /\ metadata.machine # Unset ->
                IF Len(metadata.machine) # 1 \/ metadata.machines # Unset
                THEN [mode |-> "invalid"]
                ELSE IF one.result = "targets"
                THEN [mode |-> "one",
                      backends |-> <<[address |-> BackendAddress(own, one.targets[1]), machine |-> Unset]>>]
                ELSE [mode |-> IF one.result = "not found" THEN "invalid" ELSE "internal"]
          [] OTHER ->
                IF metadata.machines = <<>> THEN [mode |-> "invalid"]
                ELSE IF many.result = "targets"
                THEN [mode |-> "many",
                      backends |-> [i \in DOMAIN many.targets |->
                          [address |-> BackendAddress(own, many.targets[i]), machine |-> many.targets[i].id]]]
                ELSE [mode |-> IF many.result = "not found" THEN "invalid" ELSE "internal"]

-----------------------------------------------------------------------------
(* The payload of an answer, as a sequence of bytes: a tag, the length of  *)
(* the embedded message, and the message. The machine's metadata is        *)
(* appended inside it, and the payloads of a broadcast are concatenated.   *)

RECURSIVE EncodeVarint(_)
EncodeVarint(value) ==
    IF value >= 128 THEN <<(value % 128) + 128>> \o EncodeVarint(value \div 128) ELSE <<value>>

\* The value and the number of bytes, or 0 bytes if there is no varint.
ConsumeVarint(bytes) ==
    LET ends == {i \in 1..Len(bytes) : i <= 10 /\ bytes[i] < 128}
        n == CHOOSE i \in ends : \A j \in ends : i <= j
    IN  IF ends = {} \/ (n = 10 /\ bytes[10] > 1) THEN [value |-> 0, size |-> 0]
        ELSE [value |-> FoldLeft(LAMBDA acc, i : acc + (bytes[i] % 128) * 128 ^ (i - 1),
                                 0, [i \in 1..n |-> i]),
              size |-> n]

Rest(bytes, n) == SubSeq(bytes, n + 1, Len(bytes))

\* Mutant: the length of the answer is kept as it was.
EnhanceSameLength(embedded, info) == <<10>> \o EncodeVarint(Len(embedded)) \o embedded \o info
\* append_machine_info, once the tag and the length are taken off.
Enhance(embedded, info) == <<10>> \o EncodeVarint(Len(embedded) + Len(info)) \o embedded \o info

\* The answer with the machine's metadata in it, or <<>> for one that cannot be read.
AppendMachineInfo(response, info) ==
    LET tag == ConsumeVarint(response)
        length == ConsumeVarint(Rest(response, tag.size))
    IN  IF tag.size = 0 \/ length.size = 0 \/ tag.value # 10 THEN <<>>
        ELSE Enhance(Rest(response, tag.size + length.size), info)

\* build_machine_error: an answer whose only message is the metadata.
BuildMachineError(info) == Enhance(<<>>, info)

-----------------------------------------------------------------------------
\* A broadcast goes to every machine it names exactly once, however a machine
\* is named, or is refused with exactly the names that stand for no machine.
RouteIsExact(list, keys, own) ==
    LET route == Route([authority |-> FALSE, machine |-> Unset, machines |-> keys], list, own)
        meant == {i \in DOMAIN list : "*" \in Range(keys) \/ Range(keys) \cap {list[i].id, list[i].name} # {}}
        given == MapMachines(list, keys)
    IN  /\ route.mode = "many" =>
              /\ {b.machine : b \in Range(route.backends)} = {list[i].id : i \in meant}
              /\ Len(route.backends) = Cardinality(meant)
              /\ \A i \in meant : \E b \in Range(route.backends) :
                    b = [machine |-> list[i].id, address |-> BackendAddress(own, list[i])]
        /\ route.mode = "invalid" /\ keys # <<>> =>
              Range(given.keys) = {k \in Range(keys) : \A i \in DOMAIN list : k \notin {list[i].id, list[i].name}}

\* The frontend's decoder: the lengths of the messages of a merged payload, or
\* <<-1>> when the payload does not parse.
RECURSIVE Messages(_)
Messages(bytes) ==
    LET length == ConsumeVarint(Tail(bytes)) IN
    IF bytes = <<>> THEN <<>>
    ELSE IF bytes[1] # 10 \/ length.size = 0 \/ 1 + length.size + length.value > Len(bytes) THEN <<-1>>
    ELSE <<length.value>> \o Messages(Rest(bytes, 1 + length.size + length.value))

\* The merged payload of a broadcast parses into one message per machine, each
\* with the metadata of its machine at its end, at every length of the varints.
MergedParses(sizes, infos) ==
    LET zeros(n) == [i \in 1..n |-> 0]
        payload(i) == AppendMachineInfo(<<10>> \o EncodeVarint(sizes[i]) \o zeros(sizes[i]), zeros(infos[i]))
        merged == payload(1) \o payload(2) \o BuildMachineError(zeros(infos[1]))
    IN  Messages(merged) = <<sizes[1] + infos[1], sizes[2] + infos[2], infos[1]>>
=============================================================================
