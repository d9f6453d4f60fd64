------------------------------ MODULE NetStack ------------------------------
(***************************************************************************)
(* core.CreateStack and what the stack does with the packets that arrive   *)
(* while it is being built and afterwards: the stack's options, the TCP,   *)
(* UDP and ICMP handlers, the NIC with its modes, routes and multicast     *)
(* groups.  gVisor's stack itself is external: it delivers packets as soon *)
(* as the NIC exists, runs the TCP handler in a goroutine of its own and   *)
(* the other two in the goroutine that reads the device.                   *)
(***************************************************************************)
EXTENDS Integers, Sequences, FiniteSets

CONSTANTS
    Configs,          \* the Configs a caller may pass: options, groups, custom ICMP handler
    MinSize, MaxSize, \* tcpMinBufferSize, tcpMaxBufferSize
    DefaultSize,      \* tcpDefaultSendBufferSize, tcpDefaultReceiveBufferSize
    Packets,          \* packets: network and transport protocol, class of destination, ICMP type
    MaxConnAttempts,  \* maxConnAttempts
    MaxPackets        \* bound: packets that arrive

\* The settings that core/option has options for.
Settable ==
    {"ttl", "forwarding", "icmpBurst", "icmpLimit", "sndbuf", "rcvbuf", "congestion", "delay",
     "moderate", "sack", "recovery"}

StackAssumption ==
    /\ {MinSize, DefaultSize, MaxSize} \subseteq Nat
    /\ MinSize <= DefaultSize /\ DefaultSize <= MaxSize
    /\ MaxConnAttempts \in Nat \ {0} /\ MaxPackets \in Nat
    /\ \A c \in Configs :
           /\ c.custom \in {"nil", "handles", "passes"}
           /\ c.options \in Seq({ c.options[j] : j \in DOMAIN c.options })
           /\ \A j \in DOMAIN c.options : c.options[j].name \in Settable
    /\ \A p \in Packets :
           /\ p.net \in {"ipv4", "ipv6"} /\ p.proto \in {"tcp", "udp", "icmp"}
           /\ p.dst \in {"unicast", "multicast", "broadcast"}
           /\ p.type = "echo" => p.proto = "icmp"

VARIABLES
    cfg,        \* *Config
    opts,       \* options still to be applied
    setting,    \* the stack's settings, by name
    result,     \* of CreateStack: "none", "ok" or "error"
    requests,   \* the packets that reached the NIC, and what became of each
    inFlight,   \* TCP requests not completed yet
    busy        \* index of the request the device's goroutine is in, or 0

vars == <<cfg, opts, setting, result, requests, inFlight, busy>>

Option(name, value) == [name |-> name, value |-> value]

WithDefault ==
    << Option("ttl", 64), Option("forwarding", TRUE),
       Option("icmpBurst", 50), Option("icmpLimit", 1000),
       Option("sndbuf", DefaultSize), Option("rcvbuf", DefaultSize),
       Option("congestion", "reno"), Option("delay", FALSE),
       Option("moderate", FALSE), Option("sack", TRUE), Option("recovery", "rack") >>

withTCPHandler      == Option("tcp", TRUE)
withUDPHandler      == Option("udp", TRUE)
withICMPHandler     == Option("icmp", TRUE)
withCreatingNIC     == Option("nic", TRUE)
withPromiscuousMode == Option("promiscuous", TRUE)
withSpoofing        == Option("spoofing", TRUE)
withRouteTable      == Option("routes", TRUE)

\* withMulticastGroups in its two steps: if there are groups the NIC gets an address
\* of its own for IPv4 and IPv6, then it joins them.
withAddresses(c)       == Option("addresses", IF c.groups = {} THEN {} ELSE {"ipv4", "ipv6"})
withMulticastGroups(c) == Option("groups", c.groups)

\* Mutant: the NIC is created before the handlers are set.
OptionsNICFirst(c) ==
    WithDefault \o c.options \o
    << withCreatingNIC, withTCPHandler, withUDPHandler, withICMPHandler,
       withPromiscuousMode, withSpoofing, withRouteTable, withAddresses(c), withMulticastGroups(c) >>

\* The options of CreateStack, in the order they are applied.
Options(c) ==
    WithDefault \o c.options \o
    << withTCPHandler, withUDPHandler, withICMPHandler, withCreatingNIC,
       withPromiscuousMode, withSpoofing, withRouteTable, withAddresses(c), withMulticastGroups(c) >>

\* The settings of a stack no option has been applied to.
Unset ==
    [ttl |-> 0, forwarding |-> FALSE, icmpBurst |-> 0, icmpLimit |-> 0, sndbuf |-> 0,
     rcvbuf |-> 0, congestion |-> "", delay |-> TRUE, moderate |-> TRUE, sack |-> FALSE,
     recovery |-> "", tcp |-> FALSE, udp |-> FALSE, icmp |-> FALSE, nic |-> FALSE,
     promiscuous |-> FALSE, spoofing |-> FALSE, routes |-> FALSE, addresses |-> {},
     groups |-> {}]

\* Settings whose option has no error to return; the addresses' errors are ignored.
Infallible == {"icmpBurst", "icmpLimit", "tcp", "udp", "icmp", "routes", "addresses"}

Init ==
    /\ cfg \in Configs /\ opts = Options(cfg)
    /\ setting = Unset
    /\ result = "none" /\ requests = <<>> /\ inFlight = 0 /\ busy = 0

\* gVisor refuses a default buffer size outside of the range it comes with.
InRange(o) == o.name \in {"sndbuf", "rcvbuf"} => o.value \in MinSize .. MaxSize

Apply ==
    /\ result = "none" /\ opts # <<>> /\ InRange(Head(opts))
    /\ setting' = [setting EXCEPT ![Head(opts).name] = Head(opts).value]
    /\ opts' = Tail(opts)
    /\ UNCHANGED <<cfg, result, requests, inFlight, busy>>

MayFail(o) == o.name \notin Infallible /\ (o.name = "groups" => o.value # {})

\* An option returns an error: CreateStack returns it, with the NIC left as it is.
\* When JoinGroup fails, the addresses have been added; the groups joined before the
\* one that failed are not told apart from none, since nothing reads them.
ApplyFails ==
    /\ result = "none" /\ opts # <<>>
    /\ ~InRange(Head(opts)) \/ MayFail(Head(opts))
    /\ result' = "error"
    /\ UNCHANGED <<cfg, opts, setting, requests, inFlight, busy>>

Created ==
    /\ result = "none" /\ opts = <<>> /\ result' = "ok"
    /\ UNCHANGED <<cfg, opts, setting, requests, inFlight, busy>>

-----------------------------------------------------------------------------
\* gVisor finds a way back: the local address is the packet's destination, which
\* only spoofing allows, or one of the NIC's own, which it has for its groups.
FindRoute(local) ==
    /\ setting["routes"]
    /\ IF local = "unicast" THEN setting["spoofing"] ELSE setting["addresses"] # {}

Request(p, state) ==
    [packet |-> p, state |-> state, sndbuf |-> 0, rcvbuf |-> 0, ready |-> result = "ok"]

\* A packet reaches the NIC, and the handler of its protocol.  A NIC owns the
\* broadcast address from the start, the other addresses by promiscuous mode.
Receive(p) ==
    LET state == IF ~setting["promiscuous"] /\ p.dst # "broadcast" THEN "dropped"
                 ELSE IF setting[p.proto] THEN "new" ELSE "unexpected" IN
    /\ setting["nic"] /\ busy = 0 /\ Len(requests) < MaxPackets
    /\ p.proto = "tcp" => inFlight < MaxConnAttempts
    /\ requests' = Append(requests, Request(p, state))
    /\ inFlight' = IF p.proto = "tcp" /\ state = "new" THEN inFlight + 1 ELSE inFlight
    /\ busy' = IF p.proto # "tcp" /\ state = "new" THEN Len(requests) + 1 ELSE busy
    /\ UNCHANGED <<cfg, opts, setting, result>>

\* Beyond maxConnAttempts the TCP forwarder drops the request.
Refuse(p) ==
    /\ setting["nic"] /\ busy = 0 /\ Len(requests) < MaxPackets
    /\ setting["promiscuous"] /\ setting["tcp"]
    /\ p.proto = "tcp" /\ inFlight = MaxConnAttempts
    /\ requests' = Append(requests, Request(p, "dropped"))
    /\ UNCHANGED <<cfg, opts, setting, result, inFlight, busy>>

Is(i, proto, state) == requests[i].packet.proto = proto /\ requests[i].state = state

\* Mutant: the request is not completed when there is no endpoint.
TCPFailsIncomplete(i) ==
    /\ Is(i, "tcp", "new")
    /\ requests' = [requests EXCEPT ![i].state = "reset"]
    /\ UNCHANGED <<cfg, opts, setting, result, inFlight, busy>>

\* The TCP handler: no endpoint, and the request is completed with a reset.
TCPFails(i) ==
    /\ Is(i, "tcp", "new")
    /\ requests' = [requests EXCEPT ![i].state = "reset"]
    /\ inFlight' = inFlight - 1
    /\ UNCHANGED <<cfg, opts, setting, result, busy>>

\* The handshake is done and setSocketOptions reads the sizes in force.
TCPOpens(i) ==
    /\ Is(i, "tcp", "new") /\ FindRoute(requests[i].packet.dst)
    /\ requests' = [requests EXCEPT ![i].state = "open", ![i].sndbuf = setting["sndbuf"],
                                    ![i].rcvbuf = setting["rcvbuf"]]
    /\ UNCHANGED <<cfg, opts, setting, result, inFlight, busy>>

\* HandleTCP returns when the tunnel has taken the connection; then r.Complete(false).
TCPTaken(i) ==
    /\ Is(i, "tcp", "open")
    /\ requests' = [requests EXCEPT ![i].state = "given"]
    /\ inFlight' = inFlight - 1
    /\ UNCHANGED <<cfg, opts, setting, result, busy>>

\* The UDP handler: no endpoint, and gVisor answers that the port is unreachable.
UDPFails(i) ==
    /\ Is(i, "udp", "new") /\ ~FindRoute(requests[i].packet.dst)
    /\ requests' = [requests EXCEPT ![i].state = "unreachable"] /\ busy' = 0
    /\ UNCHANGED <<cfg, opts, setting, result, inFlight>>

\* HandleUDP, in the goroutine that reads the device.
UDPTaken(i) ==
    /\ Is(i, "udp", "new") /\ FindRoute(requests[i].packet.dst)
    /\ requests' = [requests EXCEPT ![i].state = "given"] /\ busy' = 0
    /\ UNCHANGED <<cfg, opts, setting, result, inFlight>>

\* handlePacket4: an echo request is answered from its destination, and from an
\* address of the NIC when that is a group or the broadcast address.  Without a route
\* it is dropped, and WritePacket may fail.
handlePacket4(p) ==
    LET local == IF p.dst \in {"broadcast", "multicast"} THEN "own" ELSE p.dst IN
    IF p.type = "echo" /\ FindRoute(local) THEN {"replied", "unsent"} ELSE {"unhandled"}

\* icmpForwarder.HandlePacket, and what it may make of a packet: the custom handler
\* first; handlePacket6 is not implemented.  It is registered for the protocol number
\* of ICMPv4 only, which an IPv6 packet may carry; ICMPv6 does not come here.
Outcomes(p) ==
    IF cfg.custom = "handles" THEN {"custom"}
    ELSE IF p.net = "ipv4" THEN handlePacket4(p) ELSE {"unhandled"}

HandlePacket(i) ==
    /\ Is(i, "icmp", "new") /\ busy' = 0
    /\ \E s \in Outcomes(requests[i].packet) : requests' = [requests EXCEPT ![i].state = s]
    /\ UNCHANGED <<cfg, opts, setting, result, inFlight>>

TCPHandler(i) == TCPFails(i) \/ TCPOpens(i) \/ TCPTaken(i)

Next ==
    \/ Apply \/ ApplyFails \/ Created
    \/ \E p \in Packets : Receive(p) \/ Refuse(p)
    \/ \E i \in DOMAIN requests : TCPHandler(i) \/ UDPFails(i) \/ UDPTaken(i) \/ HandlePacket(i)

Spec == Init /\ [][Next]_vars

-----------------------------------------------------------------------------

\* stack.go:64 "We must initiate transport protocol handlers before creating NIC":
\* no packet that the NIC accepts, at whatever point of CreateStack, finds the
\* handler of its protocol missing.
HandlersFirst == \A i \in DOMAIN requests : requests[i].state # "unexpected"

Configured(name) ==
    LET mine == { j \in DOMAIN cfg.options : cfg.options[j].name = name } IN
    IF mine = {} THEN DefaultSize
    ELSE cfg.options[CHOOSE j \in mine : \A k \in mine : k <= j].value

\* A connection accepted at any moment, while the stack is still being set up
\* included, has the buffer sizes of the configuration.
ConfiguredSizes ==
    \A i \in DOMAIN requests : Is(i, "tcp", "open") =>
        /\ requests[i].sndbuf = Configured("sndbuf")
        /\ requests[i].rcvbuf = Configured("rcvbuf")

\* Every TCP request the forwarder counts is completed exactly once: the count is
\* that of the requests still being worked on, and falls back to zero.
AttemptsCounted ==
    inFlight = Cardinality({ i \in DOMAIN requests :
                               Is(i, "tcp", "new") \/ Is(i, "tcp", "open") })

\* Once CreateStack has returned a stack, no datagram and no IPv4 echo request fails
\* for want of a handler or of a route back, if it is for a unicast address, or for a
\* multicast address and the configuration names groups (nic.go:76 on the permanent
\* addresses this takes).  The write of a reply may still fail.
ServedWhenReady ==
    \A i \in DOMAIN requests :
        LET r == requests[i] IN
        /\ r.ready
        /\ r.packet.dst = "unicast" \/ (r.packet.dst = "multicast" /\ cfg.groups # {})
        /\ r.packet.proto = "udp" \/ (r.packet.type = "echo" /\ r.packet.net = "ipv4")
        => r.state \in {"new", "given", "replied", "unsent", "custom"}

\* No packet ever meets a stack that is configured by halves, while CreateStack is
\* still applying options or after it has returned.
ConfiguredFirst == HandlersFirst /\ ConfiguredSizes /\ ServedWhenReady
=============================================================================
