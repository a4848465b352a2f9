------------------------------ MODULE IpPrefixes ------------------------------
(***************************************************************************)
(* IP prefixes and the first-fit subnet search of                          *)
(* crates/ployz-internal-machine-cluster/src/ipam.rs, over one address     *)
(* family of Width bits (32 or 128 in the code).  As in the code a prefix   *)
(* keeps the address it was written with; only masked() drops host bits.    *)
(***************************************************************************)
EXTENDS Integers, FiniteSets

CONSTANT Width

ASSUME WidthAssumption == Width \in Nat \ {0}

\* What powers of two are: the provers know sums and products, and no powers.
ASSUME PowersOfTwo == \A n \in 0..Width : 2^n \in Nat \ {0} /\ (n > 0 => 2^n = 2 * 2^(n - 1))

AddressSpace == 0..(2^Width - 1)
AllPrefixes == [address : AddressSpace, bits : 0..Width]
NoSubnet == [error |-> "no available subnet"]

Size(bits) == 2^(Width - bits)
NetworkValue(p) == p.address - (p.address % Size(p.bits))
Masked(p) == [p EXCEPT !.address = NetworkValue(p)]
ContainsAddress(p, a) == a - (a % Size(p.bits)) = NetworkValue(p)
LastAddress(p) == NetworkValue(p) + Size(p.bits) - 1
Overlaps(p, q) == ContainsAddress(p, NetworkValue(q)) \/ ContainsAddress(q, NetworkValue(p))

\* allocate_subnet accepts the subnet.
Fits(network, subnet) ==
    ContainsAddress(network, subnet.address) /\ ContainsAddress(network, LastAddress(subnet))

\* Mutant: overlaps with the subnets in use are not looked for.
IsFreeAlways(allocated, subnet) == TRUE

IsFree(allocated, subnet) == \A used \in allocated : ~Overlaps(used, subnet)

\* Mutant: the last block of the network is never tried.
FirstFitShort(network, allocated, bits) ==
    LET scan[a \in 0..2^Width] ==
          LET subnet == [address |-> a, bits |-> bits]
          IN IF a = 2^Width \/ ~ContainsAddress(network, a) THEN NoSubnet
             ELSE IF LastAddress(subnet) = LastAddress(network) THEN NoSubnet
             ELSE IF IsFree(allocated, subnet) THEN subnet
             ELSE scan[LastAddress(subnet) + 1]
    IN scan[network.address]

\* The loop of allocate_subnet_len: it leaves the network at its end, or stops
\* where the next address would not fit the address family any more.
FirstFit(network, allocated, bits) ==
    LET scan[a \in 0..2^Width] ==
          LET subnet == [address |-> a, bits |-> bits]
          IN IF a = 2^Width \/ ~ContainsAddress(network, a) THEN NoSubnet
             ELSE IF IsFree(allocated, subnet) THEN subnet
             ELSE scan[LastAddress(subnet) + 1]
    IN scan[network.address]
=============================================================================
