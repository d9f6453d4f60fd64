SPECIFICATION MCSpec
CONSTANTS
    Nil = Nil
    Callers = {c1, c2}
    Keys <- MCKeys
    Protocols = {"socks5", "http"}
    Multicast <- MCMulticast
    Second = 2
    DefaultTimeout = 60
    MaxCalls = 3
    MaxOverlapping = 2
    MaxDials = 1
    Clients = {r1}
INVARIANTS
    OneConfiguration
    KeyInForce
    StopShutsDown
    StatsReady
PROPERTIES
    CallsReturn
    HandlersEnd
CHECK_DEADLOCK FALSE
