-------------------------------- MODULE Store -------------------------------
(***************************************************************************)
(* The records of ployz-internal-machine-store: machines and containers in *)
(* Corrosion's database, the statements that change them and the queries   *)
(* that list them. Corrosion itself, which runs the SQL, is external.      *)
(*                                                                         *)
(* A container as Docker reports it is [service, name, env, mounts], where *)
(* mounts is a sequence of <<destination, source>>. A machine's info is    *)
(* the ID in it and what is in it besides. A row of containers is one that *)
(* the statements here wrote.                                              *)
(***************************************************************************)
EXTENDS Integers, Sequences, SequencesExt, FiniteSets, Functions, Results

CONSTANTS
    MachineIds, ContainerIds,
    Reports,     \* what Docker may report of a container
    MaxStore     \* bound on the number of operations

VARIABLES
    machineRows,    \* table machines: id -> info
    containerRows,  \* table containers: id -> [container, machine]
    changes,        \* number of rows the statements have changed
    newest,         \* ghost: the last report written for each container
    operations      \* number of operations so far

storeVars == <<machineRows, containerRows, changes, newest, operations>>

NoRows == [x \in {} |-> x]

StoreInit ==
    /\ machineRows = NoRows /\ containerRows = NoRows
    /\ changes = 0 /\ newest = NoRows /\ operations = 0

\* INSERT, UPDATE and DELETE on a table, an id being its key.
With(table, id, row) == [x \in DOMAIN table \cup {id} |-> IF x = id THEN row ELSE table[x]]
Without(table, ids) == [x \in DOMAIN table \ ids |-> table[x]]

Operate(rows) == operations < MaxStore /\ operations' = operations + 1 /\ changes' = changes + rows

-----------------------------------------------------------------------------
(* machines *)

Info(id, kind) == [id |-> id, kind |-> kind]
Networks == {"ok", "bad network", "no network"}

CreateMachine(id, network) ==
    /\ Operate(1) /\ id \notin DOMAIN machineRows
    /\ machineRows' = With(machineRows, id, Info(id, network))
    /\ UNCHANGED <<containerRows, newest>>

\* No row, no update: MachineNotFound.
UpdateMachine(id, network) ==
    /\ Operate(1) /\ id \in DOMAIN machineRows
    /\ machineRows' = With(machineRows, id, Info(id, network))
    /\ UNCHANGED <<containerRows, newest>>

\* What comes from another node: a row without its info so far, one that cannot
\* be read, or one whose info has the ID of another machine.
Replicate(id, info) ==
    /\ Operate(1)
    /\ info.kind \in {"empty", "garbage"} \/ info.id # id
    /\ machineRows' = With(machineRows, id, info)
    /\ UNCHANGED <<containerRows, newest>>

\* The containers of the machine stay, for list_containers to hide.
DeleteMachine(id) ==
    /\ Operate(1) /\ id \in DOMAIN machineRows
    /\ machineRows' = Without(machineRows, {id})
    /\ UNCHANGED <<containerRows, newest>>

\* Mutant: a machine without a network is left out of the list.
DecodeRowLenient(validate, listed, id) ==
    LET kind == machineRows[id].kind
    IN CASE IsFailure(listed) \/ kind = "empty" -> listed
         [] kind = "garbage" -> Failure("InvalidData")
         [] OTHER -> IF validate /\ kind # "ok" THEN listed ELSE [machines |-> listed.machines \cup {id}]

\* decode_machine_rows: a record that is empty is left out, and of list_machines one
\* whose network is invalid; one without a network panics there.
DecodeRow(validate, listed, id) ==
    LET kind == machineRows[id].kind
    IN CASE IsFailure(listed) \/ kind = "empty" -> listed
         [] kind = "garbage" -> Failure("InvalidData")
         [] validate /\ kind = "no network" -> Failure("panic")
         [] validate /\ kind = "bad network" -> listed
         [] OTHER -> [machines |-> listed.machines \cup {id}]

\* list_machines (validate) and subscribe_machines, of the rows received: query drops
\* the error of a stream that broke off.
ListMachines(validate, received) == FoldLeft(LAMBDA listed, id : DecodeRow(validate, listed, id), [machines |-> {}], received)

\* get_machine reports a stream that broke off, and a machine without a network.
GetMachine(id, whole) ==
    CASE ~whole -> Failure("query")
      [] whole /\ id \notin DOMAIN machineRows -> Failure("not found")
      [] whole /\ id \in DOMAIN machineRows ->
            IF machineRows[id] \in {Info(id, "ok"), Info(id, "no network")} THEN [machine |-> id] ELSE Failure("InvalidData")

-----------------------------------------------------------------------------
(* containers *)

MountBefore(m1, m2) == m1[1] < m2[1] \/ (m1[1] = m2[1] /\ m1[2] < m2[2])

\* Mutant: the mounts are stored in the order Docker gives them.
NormaliseUnsorted(container) == [container EXCEPT !.env = <<>>]

\* normalise_container_for_store: no environment, and the mounts in order.
Normalise(container) ==
    [container EXCEPT !.env = <<>>, !.mounts = SortSeq(@, MountBefore)]

\* Mutant: a record is replaced only when its container differs.
UpsertReplacesContainer(row, container, machine) == row.container # container
\* The WHERE of the upsert: a record that says the same is left alone.
UpsertReplaces(row, container, machine) == row.container # container \/ row.machine # machine

CreateOrUpdateContainer(id, report, machine) ==
    LET container == Normalise(report)
        written == id \notin DOMAIN containerRows \/ UpsertReplaces(containerRows[id], container, machine)
    IN  /\ Operate(IF written THEN 1 ELSE 0)
        /\ containerRows' = IF written
                            THEN With(containerRows, id, [container |-> container, machine |-> machine])
                            ELSE containerRows
        /\ newest' = With(newest, id, [report |-> report, machine |-> machine])
        /\ UNCHANGED machineRows

\* delete_containers_query: a filter that is empty does not restrict.
Deleted(ids, machines) ==
    {id \in DOMAIN containerRows :
        (ids # {} => id \in ids) /\ (machines # {} => containerRows[id].machine \in machines)}

DeleteContainers(ids, machines) ==
    /\ Operate(Cardinality(Deleted(ids, machines)))
    /\ containerRows' = Without(containerRows, Deleted(ids, machines))
    /\ newest' = Without(newest, Deleted(ids, machines))
    /\ UNCHANGED machineRows

\* list_containers_query: of machines that exist, of the given machines if any
\* are given, and of the service if its id or its name is given. Of the rows received,
\* as for machines.
ListContainers(machines, service, name, received) ==
    {id \in DOMAIN containerRows \cap received :
        LET row == containerRows[id] IN
        /\ row.machine \in DOMAIN machineRows
        /\ machines # {} => row.machine \in machines
        /\ service # "" \/ name # "" =>
              \/ service # "" /\ row.container.service = service
              \/ name # "" /\ row.container.name = name}

StoreNext ==
    \/ \E id \in MachineIds, network \in Networks :
          CreateMachine(id, network) \/ UpdateMachine(id, network)
    \/ \E id, other \in MachineIds, kind \in {"empty", "garbage", "ok"} : Replicate(id, Info(other, kind))
    \/ \E id \in MachineIds : DeleteMachine(id)
    \/ \E id \in ContainerIds, report \in Reports, machine \in MachineIds :
          CreateOrUpdateContainer(id, report, machine)
    \/ \E ids \in SUBSET ContainerIds, machines \in SUBSET MachineIds :
          DeleteContainers(ids, machines)

-----------------------------------------------------------------------------
(* A machine as JSON: an object is a sequence of members <<name, value>>.  *)
(* Protobuf's JSON leaves out a field that has its default, and reads a    *)
(* field by its JSON or its protobuf name, null being the default.         *)

\* The fields of this model, with their two names and their defaults.
Field(json, proto, default) == [json |-> json, proto |-> proto, default |-> default]
Fields == <<Field("id", "id", ""), Field("publicIp", "public_ip", "none"),
            Field("bits", "bits", "0")>>

EncodeMachine(values) ==
    LET member(i) == IF values[i] = Fields[i].default THEN <<>> ELSE <<<<Fields[i].json, values[i]>>>>
    IN  FlattenSeq([i \in DOMAIN Fields |-> member(i)])

\* Mutant: only the JSON name of a field is read.
ProtobufFieldJsonOnly(object, field) ==
    SelectSeq(object, LAMBDA member : member[1] = field.json)

\* protobuf_field: a field that occurs twice, under either name, is refused.
ProtobufField(object, field) ==
    SelectSeq(object, LAMBDA member : member[1] \in {field.json, field.proto})

DecodeMachine(object) ==
    LET found(i) == ProtobufField(object, Fields[i])
        value(i) == IF found(i) = <<>> \/ found(i)[1][2] = "null" THEN Fields[i].default ELSE found(i)[1][2]
    IN  IF \E i \in DOMAIN Fields : Len(found(i)) > 1 THEN <<"duplicate">>
        ELSE [i \in DOMAIN Fields |-> value(i)]

-----------------------------------------------------------------------------
\* A machine reads back from its JSON as it was, also with the protobuf names
\* of its fields, with null for a default and with its members in any order;
\* a field given twice is refused, under whichever names.
MachineJsonIsFaithful(values) ==
    LET object == EncodeMachine(values)
        renamed == [k \in DOMAIN object |->
                      <<(CHOOSE field \in ToSet(Fields) : field.json = object[k][1]).proto, object[k][2]>>]
    IN  /\ DecodeMachine(object) = values
        /\ DecodeMachine(renamed) = values
        /\ DecodeMachine(Reverse(object)) = values
        /\ object # <<>> => DecodeMachine(Append(object, renamed[1])) = <<"duplicate">>
        /\ \A i \in DOMAIN Fields :
              values[i] = Fields[i].default => DecodeMachine(Append(object, <<Fields[i].proto, "null">>)) = values

SameMounts(c1, c2) ==
    \A m \in Range(c1.mounts) \cup Range(c2.mounts) :
        Cardinality({i \in DOMAIN c1.mounts : c1.mounts[i] = m})
            = Cardinality({i \in DOMAIN c2.mounts : c2.mounts[i] = m})
SameContainer(c1, c2) ==
    c1.service = c2.service /\ c1.name = c2.name /\ SameMounts(c1, c2)

\* What is listed is what was last reported: after any sequence of reports,
\* deletions and changes of machines, the containers of every machine that
\* exists are listed, each as its last report had it and for the machine that
\* last reported it, and no other container is. Of the machines whose record has
\* their ID, those that get_machine returns are listed and no others. A stream that
\* broke off is told by nothing in the list, which then has the rows received; and
\* the machines are listed only when no record is unreadable or without a network
\* (get_machine returns the latter, decode_machine_rows panics).
ListIsCurrent ==
    /\ \A received \in SetToAllKPermutations(DOMAIN machineRows) :
          LET listed == ListMachines(TRUE, received)
          IN  ~IsFailure(listed) =>
                \A id \in {x \in ToSet(received) : machineRows[x].id = x} : id \in listed.machines <=> ~IsFailure(GetMachine(id, TRUE))
    /\ \A received \in SUBSET ContainerIds :
          ListContainers({}, "", "", received) = {id \in DOMAIN newest \cap received : newest[id].machine \in DOMAIN machineRows}
    /\ \A id \in DOMAIN newest :
          /\ containerRows[id].machine = newest[id].machine
          /\ SameContainer(containerRows[id].container, newest[id].report)

\* A report that says nothing new changes no row, and so wakes no subscriber,
\* although Docker lists the mounts in another order or the environment differs.
ResyncIsQuiet ==
    [][\A id \in DOMAIN newest \cap DOMAIN newest' :
          /\ newest[id].machine = newest'[id].machine
          /\ SameContainer(newest[id].report, newest'[id].report)
          /\ newest[id].report # newest'[id].report
          => UNCHANGED <<containerRows, changes>>]_storeVars
=============================================================================
