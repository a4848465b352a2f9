-------------------------------- MODULE Cluster --------------------------------
(***************************************************************************)
(* Membership operations of the cluster service,                           *)
(* crates/ployz-internal-machine-cluster/src/service.rs, on the machines    *)
(* table of the store.  Each await on the store is a step of its own, so    *)
(* that other handlers run between a check and the write it justifies.      *)
(*                                                                          *)
(* A machine is identified by its public key; its management IP is derived  *)
(* from the key, so one comparison stands for both.                         *)
(***************************************************************************)
EXTENDS IpPrefixes

CONSTANTS
    Adders,        \* concurrent AddMachine handlers
    Removers,      \* concurrent RemoveMachine handlers
    Names,         \* names a request may ask for, numbered in their order
    Keys,          \* public keys of joining machines
    Ids,           \* machine IDs
    NetworkAddress, NetworkBits,  \* the prefix Cluster::init stored, with at least one bit
    SubnetBits,    \* DEFAULT_SUBNET_BITS, no fewer than the network's
    MaxTruncated,  \* bound on list queries whose stream breaks off
    MaxFailed      \* bound on writes the store reports as failed

VARIABLES
    machines,    \* rows of the machines table
    containers,  \* IDs of the machines that have container records
    ready,       \* the ready latch
    pc, req, listed, subnet, reply,
    truncated, failed

vars == <<machines, containers, ready, pc, req, listed, subnet, reply, truncated, failed>>
stores == <<machines, containers>>

Handlers == Adders \cup Removers
Network == [address |-> NetworkAddress, bits |-> NetworkBits]
Machines == [id : Ids, name : Names, key : Keys, subnet : AllPrefixes]
NoRequest == [name |-> 0, key |-> ""]

Init ==
    /\ machines = {}
    /\ containers = {}
    /\ ready = FALSE
    /\ pc = [h \in Handlers |-> "idle"]
    /\ req = [h \in Handlers |-> NoRequest]
    /\ listed = [h \in Handlers |-> {}]
    /\ subnet = [h \in Handlers |-> NoSubnet]
    /\ reply = [h \in Handlers |-> "none"]
    /\ truncated = 0
    /\ failed = 0

\* The handler returns; its locals are gone.
Return(h, status) ==
    /\ pc' = [pc EXCEPT ![h] = "idle"]
    /\ reply' = [reply EXCEPT ![h] = status]
    /\ req' = [req EXCEPT ![h] = NoRequest]
    /\ listed' = [listed EXCEPT ![h] = {}]
    /\ subnet' = [subnet EXCEPT ![h] = NoSubnet]

\* The machine has caught up with the store: requests are served from now on.
SignalReady ==
    /\ ~ready
    /\ ready' = TRUE
    /\ UNCHANGED <<stores, pc, req, listed, subnet, reply, truncated, failed>>

-----------------------------------------------------------------------------
(* AddMachine *)

AddMachine(h, r) ==
    /\ pc[h] = "idle"
    /\ IF ready
       THEN /\ pc' = [pc EXCEPT ![h] = "list"]
            /\ req' = [req EXCEPT ![h] = r]
            /\ UNCHANGED <<listed, subnet, reply>>
       ELSE Return(h, "unavailable")
    /\ UNCHANGED <<stores, ready, truncated, failed>>

\* SELECT ... ORDER BY name, read up to one name.
RowsUpTo(name) == {m \in machines : m.name <= name}

\* Store::list_machines returns the rows read so far when the stream breaks.
ListRows(rows) ==
    \/ rows = machines /\ UNCHANGED truncated
    \/ /\ rows # machines
       /\ truncated < MaxTruncated
       /\ truncated' = truncated + 1

Duplicate(h, rows) ==
    \E m \in rows : m.name = req[h].name \/ m.key = req[h].key

\* Mutant: the listed machines are not compared with the request.
ListMachinesUnchecked(h, rows) ==
    /\ pc[h] = "list"
    /\ ListRows(rows)
    /\ pc' = [pc EXCEPT ![h] = "allocate"]
    /\ listed' = [listed EXCEPT ![h] = rows]
    /\ UNCHANGED <<req, subnet, reply>>
    /\ UNCHANGED <<stores, ready, failed>>

ListMachines(h, rows) ==
    /\ pc[h] = "list"
    /\ ListRows(rows)
    /\ IF Duplicate(h, rows)
       THEN Return(h, "already exists")
       ELSE /\ pc' = [pc EXCEPT ![h] = "allocate"]
            /\ listed' = [listed EXCEPT ![h] = rows]
            /\ UNCHANGED <<req, subnet, reply>>
    /\ UNCHANGED <<stores, ready, failed>>

\* Ipam::with_allocated accepts the subnets of the listed machines.
IpamRebuilds(rows) ==
    /\ \A m \in rows : Fits(Network, m.subnet)
    /\ \A m, n \in rows : m # n => ~Overlaps(m.subnet, n.subnet)

\* Mutant: the allocator is not told which subnets are in use.
AllocateFreeSubnetAfresh(h) ==
    /\ pc[h] = "allocate"
    /\ pc' = [pc EXCEPT ![h] = "create"]
    /\ subnet' = [subnet EXCEPT ![h] = FirstFit(Masked(Network), {}, SubnetBits)]
    /\ UNCHANGED <<req, listed, reply>>
    /\ UNCHANGED <<stores, ready, truncated, failed>>

\* Mutant: an exhausted network is not noticed.
AllocateFreeSubnetAnyway(h) ==
    /\ pc[h] = "allocate"
    /\ LET used == {m.subnet : m \in listed[h]}
       IN IF ~IpamRebuilds(listed[h]) THEN Return(h, "create IPAM manager")
          ELSE /\ pc' = [pc EXCEPT ![h] = "create"]
               /\ subnet' = [subnet EXCEPT ![h] = FirstFit(Masked(Network), used, SubnetBits)]
               /\ UNCHANGED <<req, listed, reply>>
    /\ UNCHANGED <<stores, ready, truncated, failed>>

\* The network is read from the store, and the allocator works on the listed rows.
AllocateFreeSubnet(h) ==
    /\ pc[h] = "allocate"
    /\ LET used == {m.subnet : m \in listed[h]}
           found == FirstFit(Masked(Network), used, SubnetBits)
       IN IF ~IpamRebuilds(listed[h]) THEN Return(h, "create IPAM manager")
          ELSE IF found = NoSubnet THEN Return(h, "no available subnet")
          ELSE /\ pc' = [pc EXCEPT ![h] = "create"]
               /\ subnet' = [subnet EXCEPT ![h] = found]
               /\ UNCHANGED <<req, listed, reply>>
    /\ UNCHANGED <<stores, ready, truncated, failed>>

\* The ID is random and long: it is nobody else's.
FreshId(id) == \A m \in machines : m.id # id

CreateMachine(h, id) ==
    /\ pc[h] = "create"
    /\ FreshId(id)
    /\ machines' = machines \cup
         {[id |-> id, name |-> req[h].name, key |-> req[h].key, subnet |-> subnet[h]]}
    /\ \/ Return(h, "ok") /\ UNCHANGED failed
       \* the row is inserted, but the answer of the store is lost
       \/ Return(h, "internal") /\ failed < MaxFailed /\ failed' = failed + 1
    /\ UNCHANGED <<containers, ready, truncated>>

CreateMachineFails(h) ==
    /\ pc[h] = "create"
    /\ failed < MaxFailed
    /\ failed' = failed + 1
    /\ Return(h, "internal")
    /\ UNCHANGED <<stores, ready, truncated>>

-----------------------------------------------------------------------------
(* RemoveMachine *)

\* delete_machine_containers is best effort: a failure is logged.
RemoveMachine(h, id) ==
    /\ pc[h] = "idle"
    /\ IF ~ready
       THEN /\ Return(h, "unavailable")
            /\ UNCHANGED <<containers, failed>>
       ELSE /\ pc' = [pc EXCEPT ![h] = id]
            /\ UNCHANGED <<req, listed, subnet, reply>>
            /\ \/ containers' = containers \ {id} /\ UNCHANGED failed
               \/ failed < MaxFailed /\ failed' = failed + 1 /\ UNCHANGED containers
    /\ UNCHANGED <<machines, ready, truncated>>

DeleteMachine(h) ==
    /\ pc[h] \in Ids
    /\ \/ /\ machines' = {m \in machines : m.id # pc[h]} /\ UNCHANGED failed
          /\ Return(h, IF machines' = machines THEN "not found" ELSE "ok")
       \* the store fails, or deletes the row and its answer is lost
       \/ /\ machines' \in {machines, {m \in machines : m.id # pc[h]}}
          /\ failed < MaxFailed /\ failed' = failed + 1
          /\ Return(h, "internal")
    /\ UNCHANGED <<containers, ready, truncated>>

\* The Docker controller of a member writes its container records (external).
StoreContainer(m) ==
    /\ containers' = containers \cup {m.id}
    /\ UNCHANGED <<machines, ready, pc, req, listed, subnet, reply, truncated, failed>>

Next ==
    \/ SignalReady
    \/ \E h \in Adders :
         \/ \E r \in [name : Names, key : Keys] : AddMachine(h, r)
         \/ \E name \in Names \cup {0} : ListMachines(h, RowsUpTo(name))
         \/ AllocateFreeSubnet(h)
         \/ \E id \in Ids : CreateMachine(h, id)
         \/ CreateMachineFails(h)
    \/ \E h \in Removers :
         \/ \E id \in Ids : RemoveMachine(h, id)
         \/ DeleteMachine(h)
    \/ \E m \in machines : StoreContainer(m)

Spec == Init /\ [][Next]_vars

-----------------------------------------------------------------------------
TypeOK ==
    /\ machines \subseteq Machines
    /\ containers \subseteq Ids
    /\ ready \in BOOLEAN
    /\ \A h \in Handlers :
         /\ listed[h] \subseteq Machines
         /\ subnet[h] \in AllPrefixes \cup {NoSubnet}

\* Containers on different machines get different addresses: no two members
\* own the same subnet.
UniqueSubnets ==
    \A m, n \in machines : m # n => ~Overlaps(m.subnet, n.subnet)

\* No two members share a name or a key (and with it the management IP).
UniqueMachines ==
    \A m, n \in machines : m # n => m.name # n.name /\ m.key # n.key

\* The members listed from the store never make the allocator refuse to start:
\* add_machine fails for want of a subnet only when every subnet is taken.
IpamAlwaysRebuilds ==
    \A h \in Adders : reply[h] # "create IPAM manager"

\* What add_machine relies on when it lists the members: each row is complete,
\* names and keys are distinct, and the allocator can be rebuilt from them.
MembersAreSound == TypeOK /\ UniqueMachines /\ IpamAlwaysRebuilds
=============================================================================
