SPECIFICATION FairSpec
CONSTANTS
    Callers = {c1, c2}
    Tasks = {t1, t2}
    NoTask = NoTask
    MaxFaults = 3
INVARIANTS
    OneReconnectTask
    InstalledChannelIsLive
    PhaseIsAttended
PROPERTIES
    GuardResetsOwnAttempt
    CallReturns
    ImplementsFairLifecycle
