SPECIFICATION Spec
CONSTANTS
    Unset = Unset
    RedirectLimit = 3
    ProtocolAttempts = 2
    Width = 3
    MachineIds = {1, 2}
    ContainerIds = {1, 2}
    Reports <- MCReports
    MaxStore = 4
    Policies <- MCPolicies
    Durations = {0, 3}
    MaxClock = 90
    Conversations <- MCConversations
    HeadLength = 2
    Mantissa = 3
    Threads = {t1, t2, t3}
    Labels = {l1, l2}
    MaxNumber = 99
    IdModulus = 64
    MAX_PENDING_DATAGRAMS = 2
    MAX_PLAINTEXT_PACKETS = 2
    MAX_DATAGRAMS_PER_TICK = 2
    MaxStackPackets = 5
    Elsewhere = {2}
    MaxTunnResets = 1
    Adders = {a1}
    Removers = {r1}
    ClusterKeys = {k1, k2, k3}
    ClusterIds = {i1, i2}
SYMMETRY MCSymmetry
INVARIANTS
    BroadcastsAreExact UniqueSubnets MembersAreSound MembersAreTold SubnetsAreSound ListIsCurrent RetriesAreBounded PacketsInOrder
PROPERTIES
    QueriesAreWhole SchedulesAreRight SpecsAgree CaddyfilesAreSound ScrapesAreRight InputsAreRead ResyncIsQuiet
CHECK_DEADLOCK FALSE
