SPECIFICATION FairSpec
CONSTANTS
    MaxSent <- MCMaxSent
    Window = 1
    WaitTimeout = 1
    RemoteKinds = {"tcp", "wrapped", "ssh", "reject"}
    Clients = {c1}
INVARIANTS
    NoLeak
    FinAfterAllBytes
    HalfCloseGrace
PROPERTIES
    SessionSpec
    HalfCloseBounded
    RestCloseTerminates
