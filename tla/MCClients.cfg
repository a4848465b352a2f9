SPECIFICATION PoolSpec
CONSTANTS
    Streams = {stdout, stderr}
    ReadLimit = 1
    MaxChunks = 1
    Sessions = {s1, s2}
    Tunnels = {t1}
    OwnerQueue = 1
    MaxIdentities = 2
    MaxMail = 4
    Unset = Unset
    Reservers = {r1, r2}
    Releasers = {x}
    Recorders = {c}
    AskedRecords <- MCAskedRecords
    Locations <- MCLocations
    MaxFollow = 2
    MaxDomains = 2
    MaxDnsFaults = 1
    Snapshot = 1
    MaxChanges = 5
    MaxFaults = 3
INVARIANTS
    CommandsAreTrue DomainsAreTold NoMissedChange StaleIsPending
PROPERTIES CallsEnd EventuallySeen
CHECK_DEADLOCK FALSE
