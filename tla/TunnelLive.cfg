SPECIFICATION FairSpec
CONSTANTS
    TCPConns = {t1}
    UDPConns = {u1}
    MaxConnAttempts = 1
    Proxies = {good, bad}
    Responsive = {good}
    MaxCalls = 2
CHECK_DEADLOCK FALSE
PROPERTIES
    SessionSpecs
    CloseStopsIntake
    HandOverReturns
    GoodProxyServes
    CloseAllCloses
