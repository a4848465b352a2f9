SPECIFICATION NodeSpec
CONSTANTS
    k1 = k1  k2 = k2  a = a  b = b  r = r
    Peers = {k1, k2}
    AllEndpoints <- MCAllEndpoints
    Reachable <- MCReachable
    Roaming <- MCRoaming
    NoEndpoint = none
    ConnectTimeout = 2
    DownInterval = 3
    MaxConfigures = 2
    MaxWgFaults = 2
    MaxCorroFaults = 3
    NotifyMax = 2
    MaxMessages = 2
    INITIAL_SCAN_BUFFER_SIZE = 2
    MAX_SCAN_TOKEN_SIZE = 3
    MaxOutput = 4
    Clients = {c1, c2}
    MaxRetryDelay = 10
    MaxScrapes = 2
    Conns = {c1, c2, c3}
    max_connections = 2
    Directions = {up, down}
    FORWARD_BUFFER = 1
    MaxUpstream = 3
    MaxFrontend = 2
    Targets = {t1, t2}
    Silent = {t1}
    Waiting = {t2}
    REQUEST_BUFFER = 1
    RESPONSE_BUFFER = 1
    MaxRequests = 2
    MaxPayloads = 1
INVARIANTS
    ServicesAreEstablished JournalIsRead ScrapesAreAccounted ProxyIsAccounted AnswersAreWhole
PROPERTIES NodeSettles StartRecovers
CHECK_DEADLOCK FALSE
