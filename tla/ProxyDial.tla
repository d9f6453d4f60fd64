----------------------------- MODULE ProxyDial ------------------------------
(***************************************************************************)
(* DialContext and DialUDP of every proxy (relay's is in RelayConn): the   *)
(* sockets they open, the handshake they hold with the proxy server, and   *)
(* what is left when they return.  The server is external: it answers each *)
(* message as its protocol allows, may refuse, may close at any time, and  *)
(* may send the target's first data right behind its answer.  A unit of    *)
(* the stream is one field of an answer, or one unit of data.              *)
(***************************************************************************)
EXTENDS Naturals, Sequences, FiniteSets

CONSTANTS
    Kinds,      \* the proxies and networks dialled
    AddrLen,    \* [address type -> units of address and port behind it]
    DomainLens, \* lengths of a domain name in a SOCKS5 reply
    MaxData     \* bound: units of data sent while the client still dials

TCPKinds == {"socks5", "socks4", "http", "ssh", "shadowsocks", "direct"}
UDPKinds == {"socks5udp", "shadowsocksudp", "directudp"}
IPv4 == 1
Domain == 3
IPv6 == 4

ASSUME DialAssumption ==
    /\ Kinds \subseteq TCPKinds \cup UDPKinds
    /\ AddrLen \in [{IPv4, IPv6} -> Nat] /\ DomainLens \subseteq Nat /\ MaxData \in Nat

VARIABLES
    kind,
    user,       \* configured credentials: "none", "good", "unusable" (empty or too long)
    pc,         \* where the dial is
    socket,     \* "tcp" and "udp": "none", "open" or "closed"
    out,        \* the message the server has not answered yet
    server,     \* "serving", "granted", "refused"
    up,         \* the server keeps the TCP connection open
    in,         \* units sent by the server and not read
    need,       \* units the address being read still has
    atyp,       \* address type of the reply
    head,       \* HTTP: what the bufio.Reader holds
    swallowed,  \* units of data the dial has consumed
    watcher,    \* the goroutine of socks5's DialUDP: "none", "copy", "close", "over"
    ret         \* "none", "conn", "error"

stream == <<server, up, in>>
vars == <<kind, user, pc, socket, out, stream, need, atyp, head, swallowed, watcher, ret>>

Unit(f, v) == [f |-> f, v |-> v]
Units(f, n) == [i \in 1 .. n |-> Unit(f, 0)]
DataIn(us) == Cardinality({i \in DOMAIN us : us[i].f = "data"})

Init ==
    /\ kind \in Kinds /\ user \in {"none", "good", "unusable"} /\ pc = "dial"
    /\ socket = [s \in {"tcp", "udp"} |-> "none"]
    /\ out = "none" /\ server = "serving" /\ up = TRUE /\ in = <<>>
    /\ need = 0 /\ atyp = 0 /\ head = <<>> /\ swallowed = 0
    /\ watcher = "none" /\ ret = "none"

IsSocks5 == kind \in {"socks5", "socks5udp"}

\* Mutant: the connection is not closed when the handshake fails.
FailKeepsConn ==
    /\ pc' = "done" /\ ret' = "error" /\ out' = "none"
    /\ UNCHANGED <<kind, user, socket, server, up, need, atyp, watcher>>

\* An error return: the deferred SafeConnClose closes the TCP connection.
Fail ==
    /\ pc' = "done" /\ ret' = "error" /\ out' = "none"
    /\ socket' = [socket EXCEPT !["tcp"] = IF @ = "open" THEN "closed" ELSE @]
    /\ UNCHANGED <<kind, user, server, up, need, atyp, watcher>>

Go(next, message) ==
    /\ pc' = next /\ out' = message
    /\ UNCHANGED <<kind, user, socket, server, up, need, atyp, watcher, ret>>

Succeed ==
    /\ pc' = "done" /\ ret' = "conn"
    /\ UNCHANGED <<kind, user, socket, out, server, up, need, atyp, watcher>>

Same == UNCHANGED <<in, head, swallowed>>

\* io.ReadFull of n units: they are there, or the connection ends short of them.
ReadFull(n) ==
    /\ Len(in) >= n
    /\ in' = SubSeq(in, n + 1, Len(in))
    /\ swallowed' = swallowed + DataIn(SubSeq(in, 1, n))
    /\ UNCHANGED head

\* A connection that ended may also lose what was on its way.
ReadFails ==
    /\ pc \in {"method", "auth", "reply", "atyp", "dlen", "addr", "granted4", "header"}
    /\ ~up /\ Fail /\ Same

\* dialer.DialContext, or ListenPacket for the proxies that only need that.
Connect ==
    /\ pc = "dial" /\ Same
    /\ \/ Fail
       \/ LET s == IF kind \in {"shadowsocksudp", "directudp"} THEN "udp" ELSE "tcp" IN
          /\ socket' = [socket EXCEPT ![s] = "open"]
          /\ pc' = "hello"
          /\ UNCHANGED <<kind, user, out, server, up, need, atyp, watcher, ret>>

\* Nothing more to do.
Direct == pc = "hello" /\ kind \in {"direct", "directudp"} /\ Succeed /\ Same

\* The target address is written through the cipher, and nothing is answered.
Shadowsocks == pc = "hello" /\ kind = "shadowsocks" /\ (Succeed \/ Fail) /\ Same

\* The server's name resolves, or it does not and the packet connection stays.
ShadowsocksUDP == pc = "hello" /\ kind = "shadowsocksudp" /\ (Succeed \/ Fail) /\ Same

Socks5Greeting == pc = "hello" /\ IsSocks5 /\ (Go("method", "greeting") \/ Fail) /\ Same

\* Fails before anything is written for an IPv6 target.
Socks4Request == pc = "hello" /\ kind = "socks4" /\ (Go("granted4", "request") \/ Fail) /\ Same

HTTPRequest == pc = "hello" /\ kind = "http" /\ (Go("header", "request") \/ Fail) /\ Same

\* ssh.NewClientConn, then client.Dial; the protocol is the library's.
SSHDial ==
    /\ kind = "ssh" /\ Same
    /\ \/ pc = "hello" /\ Go("client", "none")
       \/ pc = "client" /\ Succeed
       \/ pc \in {"hello", "client"} /\ Fail

-----------------------------------------------------------------------------

\* socks5.ClientHandshake: the server's choice of a method.
Socks5Method ==
    /\ pc = "method" /\ ReadFull(2)
    /\ CASE in[1].v # 5                      -> Fail
         [] in[1].v = 5 /\ in[2].v = 2       -> IF user = "good" THEN Go("auth", "credentials")
                                                                 ELSE Fail
         [] in[1].v = 5 /\ in[2].v = 0       -> Go("reply", "request")
         [] OTHER                            -> Fail

Socks5Auth ==
    /\ pc = "auth" /\ ReadFull(2)
    /\ IF in[2].v = 0 THEN Go("reply", "request") ELSE Fail

\* Mutant: the reply code is not looked at.
Socks5ReplyAny == pc = "reply" /\ ReadFull(3) /\ Go("atyp", out)

\* VER, REP, RSV; then ReadAddr.
Socks5Reply ==
    /\ pc = "reply" /\ ReadFull(3)
    /\ IF in[2].v = 0 THEN Go("atyp", out) ELSE Fail

ReadAddr ==
    /\ pc = "atyp" /\ ReadFull(1)
    /\ CASE in[1].v = Domain -> /\ pc' = "dlen" /\ atyp' = Domain
                                /\ UNCHANGED <<kind, user, socket, out, server, up, need, watcher, ret>>
         [] in[1].v \in {IPv4, IPv6} ->
                                /\ pc' = "addr" /\ atyp' = in[1].v /\ need' = AddrLen[in[1].v]
                                /\ UNCHANGED <<kind, user, socket, out, server, up, watcher, ret>>
         [] OTHER -> Fail

ReadDomainLength ==
    /\ pc = "dlen" /\ ReadFull(1)
    /\ need' = in[1].v + 2 /\ pc' = "addr"
    /\ UNCHANGED <<kind, user, socket, out, server, up, atyp, watcher, ret>>

\* Mutant: one unit more than the address is read.
ReadAddrRestLong ==
    /\ pc = "addr" /\ ReadFull(need + 1)
    /\ IF kind = "socks5" THEN Succeed ELSE Go("listen", out)

ReadAddrRest ==
    /\ pc = "addr" /\ ReadFull(need)
    /\ IF kind = "socks5" THEN Succeed ELSE Go("listen", out)

\* DialUDP: the packet connection, and the goroutine that ends the association.
Socks5Listen ==
    /\ pc = "listen" /\ Same
    /\ \/ Fail
       \/ /\ socket' = [socket EXCEPT !["udp"] = "open"]
          /\ watcher' = "copy" /\ pc' = "bind"
          /\ UNCHANGED <<kind, user, out, server, up, need, atyp, ret>>

\* The relay address must be an IP address; an unspecified one is replaced by
\* the server's, whose name may fail to resolve.
Socks5Bind ==
    /\ pc = "bind" /\ Same
    /\ \/ atyp # Domain /\ Succeed
       \/ Fail

\* socks4.ClientHandshake: the version, the code, and six units ignored.
Socks4Reply ==
    /\ pc = "granted4" /\ ReadFull(8)
    /\ IF in[1].v = 0 /\ in[2].v = 90 THEN Succeed ELSE Fail

\* http.ReadResponse on a bufio.Reader: each fill takes whatever has arrived,
\* until the header is complete; what it holds behind the header goes with it.
HTTPResponse ==
    /\ pc = "header"
    /\ \E k \in 1 .. Len(in) :
          /\ in' = SubSeq(in, k + 1, Len(in))
          /\ head' = head \o SubSeq(in, 1, k)
    /\ swallowed' = DataIn(head')
    /\ IF \E i \in DOMAIN head' : head'[i].f = "end"
       THEN IF head'[1].v = 200 THEN Succeed ELSE Fail
       ELSE UNCHANGED <<kind, user, pc, socket, out, server, up, need, atyp, watcher, ret>>

-----------------------------------------------------------------------------
\* io.Copy of the watcher ends with the TCP connection, whoever closed it; it
\* closes both sockets.
WatchTCP ==
    /\ watcher = "copy" /\ (~up \/ socket["tcp"] = "closed")
    /\ socket' = [socket EXCEPT !["tcp"] = "closed"]
    /\ watcher' = "close" /\ in' = <<>>
    /\ UNCHANGED <<kind, user, pc, out, server, up, need, atyp, head, swallowed, ret>>

\* Mutant: the watcher leaves the packet connection open.
WatchUDPNot ==
    /\ watcher = "close" /\ watcher' = "over"
    /\ UNCHANGED <<kind, user, pc, socket, out, stream, need, atyp, head, swallowed, ret>>

WatchUDP ==
    /\ watcher = "close" /\ watcher' = "over"
    /\ socket' = [socket EXCEPT !["udp"] = "closed"]
    /\ UNCHANGED <<kind, user, pc, out, stream, need, atyp, head, swallowed, ret>>

\* The session closes what it was given: both sockets of a SOCKS5 association,
\* the client under an SSH channel.
Close ==
    /\ ret = "conn"
    /\ socket' = [s \in DOMAIN socket |-> IF socket[s] = "open" THEN "closed" ELSE socket[s]]
    /\ socket' # socket
    /\ UNCHANGED <<kind, user, pc, out, stream, need, atyp, head, swallowed, watcher, ret>>

-----------------------------------------------------------------------------
\* The server's answer to the message it holds.
Answer(units, s) ==
    /\ in' = in \o units /\ server' = s /\ out' = "none"
    /\ UNCHANGED <<kind, user, pc, socket, up, need, atyp, head, swallowed, watcher, ret>>

ServerSocks5 ==
    /\ up /\ IsSocks5
    /\ \/ /\ out = "greeting"
          /\ \E v \in {4, 5}, m \in {0, 2, 255} :
                Answer(<<Unit("ver", v), Unit("method", m)>>,
                       IF v = 5 /\ m # 255 THEN "serving" ELSE "refused")
       \/ /\ out = "credentials"
          /\ \E st \in {0, 1} : Answer(<<Unit("ver", 1), Unit("status", st)>>,
                                       IF st = 0 THEN "serving" ELSE "refused")
       \/ /\ out = "request"
          /\ \/ \E a \in {IPv4, IPv6}, rep \in {0, 1} :
                   Answer(<<Unit("ver", 5), Unit("rep", rep), Unit("rsv", 0), Unit("atyp", a)>>
                          \o Units("addr", AddrLen[a]),
                          IF rep = 0 THEN "granted" ELSE "refused")
             \/ \E n \in DomainLens :
                   Answer(<<Unit("ver", 5), Unit("rep", 0), Unit("rsv", 0), Unit("atyp", Domain),
                            Unit("dlen", n)>> \o Units("addr", n + 2), "granted")

ServerOther ==
    /\ up /\ out = "request"
    /\ \/ /\ kind = "socks4"
          /\ \E c \in {90, 91} : Answer(<<Unit("ver", 0), Unit("code", c)>> \o Units("ignored", 6),
                                        IF c = 90 THEN "granted" ELSE "refused")
       \/ /\ kind = "http"
          /\ \E c \in {200, 407} : Answer(<<Unit("status", c), Unit("end", 0)>>,
                                          IF c = 200 THEN "granted" ELSE "refused")

\* The target spoke first: its data follows the answer.
ServerData ==
    /\ up /\ server = "granted" /\ pc # "done" /\ kind \in {"socks5", "socks4", "http"}
    /\ DataIn(in) + swallowed < MaxData
    /\ in' = Append(in, Unit("data", 0))
    /\ UNCHANGED <<kind, user, pc, socket, out, server, up, need, atyp, head, swallowed, watcher, ret>>

ServerClose ==
    /\ up /\ socket["tcp"] # "none" /\ up' = FALSE
    /\ UNCHANGED <<kind, user, pc, socket, out, server, in, need, atyp, head, swallowed, watcher, ret>>

DialStep ==
    \/ Connect \/ ReadFails
    \/ Direct \/ Shadowsocks \/ ShadowsocksUDP \/ SSHDial
    \/ Socks5Greeting \/ Socks4Request \/ HTTPRequest
    \/ Socks5Method \/ Socks5Auth \/ Socks5Reply
    \/ ReadAddr \/ ReadDomainLength \/ ReadAddrRest
    \/ Socks5Listen \/ Socks5Bind \/ Socks4Reply \/ HTTPResponse

Watch == WatchTCP \/ WatchUDP
Serve == ServerSocks5 \/ ServerOther

Next == DialStep \/ Watch \/ Close \/ Serve \/ ServerData \/ ServerClose

Spec == Init /\ [][Next]_vars

-----------------------------------------------------------------------------
\* A failed dial leaves no TCP connection, and no packet connection that nobody
\* will close: DialUDP of socks5 leaves its watcher behind to do it.  The packet
\* connection of shadowsocks whose server name did not resolve is the exception.
FailureLeavesNothing ==
    ret = "error" =>
        /\ socket["tcp"] # "open"
        /\ socket["udp"] = "open" => watcher \in {"copy", "close"} \/ kind = "shadowsocksudp"

\* A dial succeeds only when the server has granted it: every code of every
\* answer on the way is looked at.
OnlyIfGranted ==
    ret = "conn" /\ kind \in {"socks5", "socks5udp", "socks4", "http"} => server = "granted"

\* README.md:13 "Transparently routes all network traffic from any application
\* through a proxy": the handshake reads its answer and not a unit more, and the
\* target's first data is there for the relay.  HTTP is the exception: the
\* bufio.Reader that parses the response may hold data behind it and is dropped.
NothingSwallowed == kind # "http" => swallowed = 0

\* socks5.go:129 "A UDP association terminates when the TCP connection that the
\* UDP ASSOCIATE request arrived on terminates": the session's packet connection
\* is closed, and so is that of a dial that failed after opening it.
AssociationEnds ==
    socket["udp"] = "open" /\ kind = "socks5udp" /\ (~up \/ ret = "error") ~> socket["udp"] = "closed"
=============================================================================
