SPECIFICATION FairSpec
CONSTANTS
    MaxSent <- MCOneByte
    Window = 1
    WaitTimeout = 1
    RemoteKinds = {"ssh"}
    Clients = {c1}
PROPERTIES
    HalfCloseTerminates
