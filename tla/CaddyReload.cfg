SPECIFICATION FairSpec
CONSTANTS
    Services = {none, api}
    None = none
    Custom = {api}
    Broken = {}
    MaxChanges = 1
    MaxStops = 1
    MaxFaults = 0
PROPERTIES
    CaddyIsReloaded
CHECK_DEADLOCK FALSE
