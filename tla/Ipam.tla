--------------------------------- MODULE Ipam ---------------------------------
(***************************************************************************)
(* The in-memory allocator of crates/ployz-internal-machine-cluster/src/   *)
(* ipam.rs, driven by any sequence of its two operations.                  *)
(***************************************************************************)
EXTENDS IpPrefixes

VARIABLES network, allocated, returned

ipamVars == <<network, allocated, returned>>

\* What the last call returned, and the subnets in use when it came.
NoReply == [error |-> "none"]
RefusedWith(why) == [error |-> why]

\* Ipam::new masks the network and refuses the one with no prefix bits.
IpamInit ==
    /\ network \in {Masked(p) : p \in {q \in AllPrefixes : q.bits # 0}}
    /\ allocated = {}
    /\ returned = NoReply

AllocateSubnetLen(bits) ==
    IF bits < network.bits \/ bits > Width
    THEN /\ returned' = RefusedWith("invalid subnet size")
         /\ UNCHANGED <<network, allocated>>
    ELSE LET subnet == FirstFit(network, allocated, bits)
         IN /\ returned' = [bits |-> bits, subnet |-> subnet, before |-> allocated]
            /\ allocated' = allocated \cup ({subnet} \ {NoSubnet})
            /\ UNCHANGED network

\* Mutant: only the first address of the subnet is looked up in the network.
AllocateSubnetByBase(subnet) ==
    IF ~ContainsAddress(network, subnet.address)
    THEN /\ returned' = RefusedWith("subnet not in network")
         /\ UNCHANGED <<network, allocated>>
    ELSE IF ~IsFree(allocated, subnet)
    THEN /\ returned' = RefusedWith("subnet overlaps")
         /\ UNCHANGED <<network, allocated>>
    ELSE /\ returned' = [subnet |-> subnet, before |-> allocated]
         /\ allocated' = allocated \cup {subnet}
         /\ UNCHANGED network

\* Mutant: a subnet that encloses an allocated one is not seen to overlap it.
AllocateSubnetOneSided(subnet) ==
    IF ~Fits(network, subnet)
    THEN /\ returned' = RefusedWith("subnet not in network")
         /\ UNCHANGED <<network, allocated>>
    ELSE IF \E used \in allocated : ContainsAddress(used, NetworkValue(subnet))
    THEN /\ returned' = RefusedWith("subnet overlaps")
         /\ UNCHANGED <<network, allocated>>
    ELSE /\ returned' = [subnet |-> subnet, before |-> allocated]
         /\ allocated' = allocated \cup {subnet}
         /\ UNCHANGED network

AllocateSubnet(subnet) ==
    IF ~Fits(network, subnet)
    THEN /\ returned' = RefusedWith("subnet not in network")
         /\ UNCHANGED <<network, allocated>>
    ELSE IF ~IsFree(allocated, subnet)
    THEN /\ returned' = RefusedWith("subnet overlaps")
         /\ UNCHANGED <<network, allocated>>
    ELSE /\ returned' = [subnet |-> subnet, before |-> allocated]
         /\ allocated' = allocated \cup {subnet}
         /\ UNCHANGED network

\* The subnets of the store are masked: allocate_subnet_len produced them.
StoredPrefixes == {Masked(p) : p \in AllPrefixes}

IpamNext ==
    \/ \E bits \in 0..(Width + 1) : AllocateSubnetLen(bits)
    \/ \E subnet \in StoredPrefixes : AllocateSubnet(subnet)

-----------------------------------------------------------------------------
\* The addresses of a prefix, as a set: the reference the bit tricks are
\* compared with.
AddressesOf(p) == {a \in AddressSpace : a \div Size(p.bits) = p.address \div Size(p.bits)}
FreeBlocks(bits, used) ==
    {a \in AddressSpace :
        LET block == a..(a + Size(bits) - 1)
        IN /\ a % Size(bits) = 0
           /\ block \subseteq AddressesOf(network)
           /\ block \cap UNION {AddressesOf(p) : p \in used} = {}}

\* No address is given to two machines, whatever sizes are mixed, and whether a
\* new subnet lies inside a used one or around it.
SubnetsDisjoint ==
    /\ \A p, q \in allocated : p # q => AddressesOf(p) \cap AddressesOf(q) = {}
    /\ "subnet" \in DOMAIN returned => returned.subnet \notin returned.before

\* Every allocated subnet lies in the network as a whole.
SubnetsInNetwork == \A p \in allocated : AddressesOf(p) \subseteq AddressesOf(network)

\* allocate_subnet_len returned the lowest free aligned block, and reported
\* exhaustion exactly when there was none, also at the top of the address space.
FirstFitIsExact ==
    "bits" \in DOMAIN returned =>
        LET free == FreeBlocks(returned.bits, returned.before)
        IN IF free = {} THEN returned.subnet = NoSubnet
           ELSE /\ returned.subnet \in AllPrefixes /\ returned.subnet.bits = returned.bits
                /\ returned.subnet.address \in free
                /\ \A a \in free : returned.subnet.address <= a

\* What the allocator gives out (ipam.rs): disjoint subnets of the network, and
\* the first that fits.
SubnetsAreSound == SubnetsDisjoint /\ SubnetsInNetwork /\ FirstFitIsExact
=============================================================================
