SPECIFICATION MCSpec
CONSTANTS
    Kinds <- MCAllKinds
    AddrLen <- MCAddrLen
    DomainLens = {0, 2}
    MaxData = 2
    Modes <- MCModes
    MaxLength = 2
    RelayLens = {0, 1, 2, 3}
    MaxWrites = 2
    MaxReplies = 2
    Formats = {"socks5", "aead", "stream"}
    ByteSize = 6
    IPv4Len = 1
    IPv6Len = 2
    PortLen = 1
    Overhead = 1
    Names <- MCNames
    IPs <- MCIPs
    Ports <- MCPorts
    Payloads <- MCPayloads
    BufSize = 10
    MaxPackets = 2
INVARIANTS
    FailureLeavesNothing
    OnlyIfGranted
    NothingSwallowed
    StreamParses
    RepliesInOrder
    DatagramsSurvive
PROPERTIES
    AssociationEnds
    RepliesArrive
CHECK_DEADLOCK FALSE
