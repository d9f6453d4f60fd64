SPECIFICATION FairSpec
CONSTANTS
    MaxSent <- MCMaxSent
    QueueCap = 2
    Timeouts = {1, 2}
    Clients = {c1}
INVARIANTS
    CutOnlyWhenIdle
    ForwardInOrder
PROPERTIES
    SessionSpec
    SilenceEndsSession
