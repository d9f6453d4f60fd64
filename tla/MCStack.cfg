SPECIFICATION MCSpec
CONSTANTS
    Sizes <- MCSizes
    MTU = 2
    QueueLen = 2
    MaxIn = 2
    MaxOut = 3
    MaxAttach = 2
    Configs <- MCConfigs
    MinSize = 1
    DefaultSize = 2
    MaxSize = 3
    Packets <- MCPackets
    MaxConnAttempts = 1
    MaxPackets = 2
INVARIANTS
    OutboundOrdered
    ConfiguredFirst
    AttemptsCounted
PROPERTIES
    LoopsEnd
CHECK_DEADLOCK FALSE
