SPECIFICATION FairSpec
CONSTANTS
    Services = {none, api, bad}
    None = none
    Custom = {api, bad}
    Broken = {bad}
    MaxChanges = 2
    MaxStops = 2
    MaxFaults = 1
INVARIANTS
    DiskIsSound
    CacheIsTrue
PROPERTIES
    CatchesUpUnlessRestarted
CHECK_DEADLOCK FALSE
