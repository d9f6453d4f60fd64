SPECIFICATION FairSpec
CONSTANTS
    TCPConns = {t1}
    UDPConns = {u1}
    MaxConnAttempts = 1
    Proxies = {good}
    Responsive = {good}
    MaxCalls = 1
CHECK_DEADLOCK FALSE
PROPERTIES
    CloseReleases
