SPECIFICATION FairSpec
CONSTANTS
    Snapshot = 0
    MaxChanges = 2
    MaxFaults = 1
PROPERTY
    EventuallySeen
CHECK_DEADLOCK FALSE
