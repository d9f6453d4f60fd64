-------------------------- MODULE ProxyDialProofs ---------------------------
(***************************************************************************)
(* Proofs about ProxyDial for every length of addresses and names and any  *)
(* amount of early data.  SocketInv says who is responsible for an open    *)
(* socket, HandInv what the client and the server know of each other at    *)
(* every point of a handshake: what the client reads next is the answer to *)
(* the message it sent last, and carries the server's decision.  AnswerInv *)
(* says how much of that answer is still to be read.                       *)
(***************************************************************************)
EXTENDS ProxyDial, Integers, TLAPS

Fields == {"ver", "method", "status", "rep", "rsv", "atyp", "dlen", "addr", "code", "ignored", "end"}
UnitSet == [f : Fields, v : Nat]
SocketState == {"none", "open", "closed"}
Places == {"dial", "hello", "client", "method", "auth", "reply", "atyp", "dlen", "addr",
           "listen", "bind", "granted4", "header", "done"}
Asked == {"socks5", "socks5udp", "socks4", "http"}

\* The control state, and which proxy can be where.
ControlInv ==
    /\ kind \in TCPKinds \cup UDPKinds /\ pc \in Places
    /\ socket \in [{"tcp", "udp"} -> SocketState]
    /\ watcher \in {"none", "copy", "close", "over"} /\ ret \in {"none", "conn", "error"}
    /\ pc = "done" <=> ret # "none"
    /\ pc \in {"method", "auth", "reply", "atyp", "dlen", "addr"} => kind \in {"socks5", "socks5udp"}
    /\ pc \in {"listen", "bind"} => kind = "socks5udp"
    /\ pc = "granted4" => kind = "socks4"
    /\ pc = "header" => kind = "http"
    /\ pc = "client" => kind = "ssh"

\* An open packet connection has a watcher, or belongs to a proxy without one.
SocketInv ==
    /\ pc = "dial" => socket["tcp"] = "none" /\ socket["udp"] = "none"
    /\ watcher # "none" => pc \in {"bind", "done"} /\ kind = "socks5udp"
    /\ pc = "bind" => watcher # "none"
    /\ ret = "error" => socket["tcp"] # "open"
    /\ socket["udp"] = "open" =>
           \/ watcher \in {"copy", "close"}
           \/ kind \in {"shadowsocksudp", "directudp"}
    /\ ret = "error" /\ kind = "directudp" => socket["udp"] # "open"

\* The server has not been asked anything.
Unasked == out = "none" /\ in = <<>> /\ head = <<>> /\ server = "serving"

\* The server has message m before it, or has answered it with two units.
Exchange(m) ==
    /\ server # "granted" /\ head = <<>> /\ in \in Seq(UnitSet)
    /\ \/ out = m /\ in = <<>>
       \/ out = "none" /\ Len(in) = 2

\* What is left of the header of a refusal.
RefusedHeader ==
    /\ in \in Seq(UnitSet) /\ head \in Seq(UnitSet)
    /\ head = <<>> => in # <<>> /\ in[1].v # 200
    /\ head # <<>> => head[1].v # 200

HandInv ==
    /\ pc \in {"dial", "hello", "client"} => Unasked
    /\ pc = "method" => Exchange("greeting")
    /\ pc = "auth" => Exchange("credentials")
    /\ pc \in {"reply", "granted4", "header"} =>
           \/ out = "request" /\ in = <<>> /\ head = <<>> /\ server # "granted"
           \/ out = "none" /\ server = "granted"
           \/ out = "none" /\ pc = "reply" /\ in[2].v # 0
           \/ out = "none" /\ pc = "granted4" /\ in[2].v # 90
           \/ out = "none" /\ pc = "header" /\ RefusedHeader
    /\ pc \in {"atyp", "dlen", "addr", "listen", "bind"} => server = "granted" /\ out = "none"
    /\ ret = "error" => out = "none"
    /\ ret = "conn" => out = "none" /\ (kind \in Asked => server = "granted")

IInv == ControlInv /\ SocketInv /\ HandInv

LEMMA InitInv == Init => IInv
  BY DialAssumption DEF Init, IInv, ControlInv, SocketInv, HandInv, Unasked, Places, SocketState

\* An error return, from a point where the packet connection is not directudp's.
LEMMA FailInv ==
    ASSUME IInv, Fail, ret = "none", pc = "dial" \/ kind # "directudp"
    PROVE  IInv'
  <1>1. socket' \in [{"tcp", "udp"} -> SocketState] /\ socket'["udp"] = socket["udp"]
        /\ socket'["tcp"] # "open"
    BY DEF IInv, ControlInv, Fail, SocketState
  <1>2. ControlInv'
    BY <1>1 DEF IInv, ControlInv, Fail, Places
  <1>3. SocketInv'
    BY <1>1 DEF IInv, ControlInv, SocketInv, Fail
  <1>4. HandInv'
    BY DEF IInv, ControlInv, HandInv, Fail
  <1> QED
    BY <1>2, <1>3, <1>4 DEF IInv

\* A return with a connection, which the server has granted if it was asked.
LEMMA SucceedInv ==
    ASSUME IInv, Succeed, ret = "none", out = "none", pc # "dial",
           kind \in Asked => server = "granted"
    PROVE  IInv'
  <1>1. ControlInv'
    BY DEF IInv, ControlInv, Succeed, Places
  <1>2. SocketInv'
    BY DEF IInv, ControlInv, SocketInv, Succeed
  <1>3. HandInv'
    BY DEF IInv, ControlInv, HandInv, Succeed
  <1> QED
    BY <1>1, <1>2, <1>3 DEF IInv

\* What a message sends the client to wait for, from a point before the answer.
LEMMA GoInv ==
    ASSUME NEW next, NEW message, IInv, Go(next, message), in' = <<>>, head' = <<>>,
           head = <<>>, server # "granted", ret = "none", pc # "dial", pc # "bind",
           \/ next = "method" /\ message = "greeting" /\ kind \in {"socks5", "socks5udp"}
           \/ next = "auth" /\ message = "credentials" /\ kind \in {"socks5", "socks5udp"}
           \/ next = "reply" /\ message = "request" /\ kind \in {"socks5", "socks5udp"}
           \/ next = "granted4" /\ message = "request" /\ kind = "socks4"
           \/ next = "header" /\ message = "request" /\ kind = "http"
    PROVE  IInv'
  <1>1. ControlInv'
    BY DEF IInv, ControlInv, Go, Places
  <1>2. SocketInv'
    BY DEF IInv, ControlInv, SocketInv, Go
  <1>3. in' \in Seq(UnitSet)
    OBVIOUS
  <1>4. HandInv'
    BY <1>3 DEF IInv, ControlInv, HandInv, Exchange, Go
  <1> QED
    BY <1>1, <1>2, <1>4 DEF IInv

\* A step of the dial behind the grant, where nothing depends on what is read.
LEMMA GrantedInv ==
    ASSUME IInv, server = "granted", out = "none", ret = "none", kind \in {"socks5", "socks5udp"},
           pc \in {"reply", "atyp", "dlen", "addr"}, pc' \in {"atyp", "dlen", "addr", "listen"},
           pc' = "listen" => kind = "socks5udp",
           UNCHANGED <<kind, socket, out, server, watcher, ret>>
    PROVE  IInv'
  <1>1. ControlInv'
    BY DEF IInv, ControlInv, Places
  <1>2. SocketInv'
    BY DEF IInv, ControlInv, SocketInv
  <1>3. HandInv'
    BY DEF IInv, ControlInv, HandInv
  <1> QED
    BY <1>1, <1>2, <1>3 DEF IInv

\* All of a two-unit answer is read at once.
LEMMA ReadBoth ==
    ASSUME in \in Seq(UnitSet), Len(in) = 2, ReadFull(2)
    PROVE  in' = <<>> /\ head' = head
  <1>1. in' = SubSeq(in, 3, 2)
    BY DEF ReadFull
  <1>2. SubSeq(in, 3, 2) = <<>>
    OBVIOUS
  <1> QED
    BY <1>1, <1>2 DEF ReadFull

LEMMA StartInv ==
    ASSUME IInv, \/ Connect \/ ReadFails \/ Direct \/ Shadowsocks \/ ShadowsocksUDP \/ SSHDial
                 \/ Socks5Greeting \/ Socks4Request \/ HTTPRequest
    PROVE  IInv'
  <1>1. CASE Connect
    <2>1. ret = "none"
      BY <1>1 DEF Connect, IInv, ControlInv
    <2>2. CASE Fail
      BY <1>1, <2>1, <2>2, FailInv DEF Connect
    <2>3. ASSUME ~Fail PROVE IInv'
      <3>1. socket' \in [{"tcp", "udp"} -> SocketState]
            /\ (socket'["udp"] = "open" => kind \in {"shadowsocksudp", "directudp"})
        BY <1>1, <2>3 DEF Connect, IInv, ControlInv, SocketInv, SocketState
      <3>2. ControlInv'
        BY <1>1, <2>3, <3>1 DEF Connect, IInv, ControlInv, Places
      <3>3. SocketInv'
        BY <1>1, <2>3, <3>1 DEF Connect, IInv, ControlInv, SocketInv
      <3>4. HandInv'
        BY <1>1, <2>3 DEF Connect, Same, IInv, ControlInv, HandInv, Unasked
      <3> QED
        BY <3>2, <3>3, <3>4 DEF IInv
    <2> QED
      BY <2>2, <2>3
  <1>2. CASE ReadFails
    <2>1. ret = "none" /\ kind # "directudp"
      BY <1>2 DEF ReadFails, IInv, ControlInv
    <2> QED
      BY <1>2, <2>1, FailInv DEF ReadFails
  <1>3. ASSUME pc = "hello" \/ pc = "client"
        PROVE  ret = "none" /\ Unasked
    BY <1>3 DEF IInv, ControlInv, HandInv
  <1>4. CASE Direct
    BY <1>3, <1>4, SucceedInv DEF Direct, Unasked, Asked
  <1>5. CASE Shadowsocks
    BY <1>3, <1>5, SucceedInv, FailInv DEF Shadowsocks, Unasked, Asked
  <1>6. CASE ShadowsocksUDP
    BY <1>3, <1>6, SucceedInv, FailInv DEF ShadowsocksUDP, Unasked, Asked
  <1>7. CASE SSHDial
    <2>1. kind = "ssh" /\ pc \in {"hello", "client"} /\ ret = "none" /\ Unasked
      BY <1>3, <1>7 DEF SSHDial
    <2>2. CASE Succeed
      BY <2>1, <2>2, SucceedInv DEF Unasked, Asked
    <2>3. CASE Fail
      BY <2>1, <2>3, FailInv
    <2>4. CASE Go("client", "none")
      BY <1>7, <2>1, <2>4
      DEF SSHDial, Go, Same, IInv, ControlInv, SocketInv, HandInv, Unasked, Places
    <2> QED
      BY <1>7, <2>2, <2>3, <2>4 DEF SSHDial
  <1>8. CASE Socks5Greeting
    BY <1>3, <1>8, GoInv, FailInv DEF Socks5Greeting, IsSocks5, Same, Unasked
  <1>9. CASE Socks4Request
    BY <1>3, <1>9, GoInv, FailInv DEF Socks4Request, Same, Unasked
  <1>10. CASE HTTPRequest
    BY <1>3, <1>10, GoInv, FailInv DEF HTTPRequest, Same, Unasked
  <1> QED
    BY <1>1, <1>2, <1>4, <1>5, <1>6, <1>7, <1>8, <1>9, <1>10

LEMMA Socks5Inv ==
    ASSUME IInv, \/ Socks5Method \/ Socks5Auth \/ Socks5Reply
                 \/ ReadAddr \/ ReadDomainLength \/ ReadAddrRest
                 \/ Socks5Listen \/ Socks5Bind
    PROVE  IInv'
  <1>1. ASSUME pc \in {"method", "auth"}, ReadFull(2)
        PROVE  /\ in' = <<>> /\ head = <<>> /\ head' = <<>> /\ server # "granted"
               /\ ret = "none" /\ kind \in {"socks5", "socks5udp"}
    <2>1. in \in Seq(UnitSet) /\ head = <<>> /\ server # "granted" /\ (in = <<>> \/ Len(in) = 2)
      BY <1>1 DEF IInv, HandInv, Exchange
    <2>2. Len(in) = 2
      BY <1>1, <2>1 DEF ReadFull
    <2> QED
      BY <1>1, <2>1, <2>2, ReadBoth DEF IInv, ControlInv
  <1>2. CASE Socks5Method
    <2>1. Fail \/ Go("auth", "credentials") \/ Go("reply", "request")
      BY <1>2 DEF Socks5Method
    <2> QED
      BY <1>1, <1>2, <2>1, GoInv, FailInv DEF Socks5Method
  <1>3. CASE Socks5Auth
    BY <1>1, <1>3, GoInv, FailInv DEF Socks5Auth
  <1>4. CASE Socks5Reply
    <2>1. in # <<>> /\ ret = "none" /\ kind \in {"socks5", "socks5udp"}
      BY <1>4 DEF Socks5Reply, ReadFull, IInv, ControlInv
    <2>2. CASE in[2].v = 0
      <3>1. server = "granted" /\ out = "none"
        BY <1>4, <2>1, <2>2 DEF Socks5Reply, IInv, HandInv
      <3> QED
        BY <1>4, <2>1, <2>2, <3>1, GrantedInv DEF Socks5Reply, Go
    <2>3. CASE in[2].v # 0
      BY <1>4, <2>1, <2>3, FailInv DEF Socks5Reply
    <2> QED
      BY <2>2, <2>3
  <1>5. ASSUME pc \in {"atyp", "dlen", "addr"}
        PROVE  server = "granted" /\ out = "none" /\ ret = "none" /\ kind \in {"socks5", "socks5udp"}
    BY <1>5 DEF IInv, ControlInv, HandInv
  <1>6. CASE ReadAddr
    <2>1. CASE Fail
      BY <1>5, <1>6, <2>1, FailInv DEF ReadAddr
    <2>2. CASE ~Fail
      <3>1. pc' \in {"dlen", "addr"} /\ UNCHANGED <<kind, socket, out, server, watcher, ret>>
        BY <1>6, <2>2 DEF ReadAddr
      <3> QED
        BY <1>5, <1>6, <3>1, GrantedInv DEF ReadAddr
    <2> QED
      BY <2>1, <2>2
  <1>7. CASE ReadDomainLength
    BY <1>5, <1>7, GrantedInv DEF ReadDomainLength
  <1>8. CASE ReadAddrRest
    <2>1. CASE kind = "socks5"
      BY <1>5, <1>8, <2>1, SucceedInv DEF ReadAddrRest
    <2>2. CASE kind # "socks5"
      BY <1>5, <1>8, <2>2, GrantedInv DEF ReadAddrRest, Go
    <2> QED
      BY <2>1, <2>2
  <1>9. ASSUME pc \in {"listen", "bind"}
        PROVE  server = "granted" /\ out = "none" /\ ret = "none" /\ kind = "socks5udp"
    BY <1>9 DEF IInv, ControlInv, HandInv
  <1>10. CASE Socks5Listen
    <2>1. CASE Fail
      BY <1>9, <1>10, <2>1, FailInv DEF Socks5Listen
    <2>2. CASE ~Fail
      <3>1. /\ socket' \in [{"tcp", "udp"} -> SocketState] /\ pc' = "bind" /\ watcher' = "copy"
            /\ UNCHANGED <<kind, out, server, ret>>
        BY <1>10, <2>2 DEF Socks5Listen, IInv, ControlInv, SocketState
      <3> QED
        BY <1>9, <1>10, <3>1 DEF Socks5Listen, IInv, ControlInv, SocketInv, HandInv, Places
    <2> QED
      BY <2>1, <2>2
  <1>11. CASE Socks5Bind
    BY <1>9, <1>11, SucceedInv, FailInv DEF Socks5Bind
  <1> QED
    BY <1>2, <1>3, <1>4, <1>6, <1>7, <1>8, <1>10, <1>11

LEMMA Socks4Inv == ASSUME IInv, Socks4Reply PROVE IInv'
  <1>1. in # <<>> /\ ret = "none" /\ kind = "socks4" /\ pc = "granted4"
    BY DEF Socks4Reply, ReadFull, IInv, ControlInv
  <1>2. CASE in[1].v = 0 /\ in[2].v = 90
    <2>1. server = "granted" /\ out = "none"
      BY <1>1, <1>2 DEF IInv, HandInv
    <2> QED
      BY <1>1, <1>2, <2>1, SucceedInv DEF Socks4Reply
  <1>3. CASE ~(in[1].v = 0 /\ in[2].v = 90)
    BY <1>1, <1>3, FailInv DEF Socks4Reply
  <1> QED
    BY <1>2, <1>3

\* Moving the first k units from a sequence to another keeps the first of both.
LEMMA MoveFacts ==
    ASSUME NEW h \in Seq(UnitSet), NEW s \in Seq(UnitSet), NEW k \in 1 .. Len(s)
    PROVE  /\ SubSeq(s, k + 1, Len(s)) \in Seq(UnitSet)
           /\ h \o SubSeq(s, 1, k) \in Seq(UnitSet)
           /\ h \o SubSeq(s, 1, k) # <<>>
           /\ (h \o SubSeq(s, 1, k))[1] = IF h = <<>> THEN s[1] ELSE h[1]
  <1>1. /\ SubSeq(s, 1, k) \in Seq(UnitSet) /\ Len(SubSeq(s, 1, k)) = k /\ SubSeq(s, 1, k)[1] = s[1]
        /\ k \in Nat /\ k >= 1
    OBVIOUS
  <1>2. SubSeq(s, k + 1, Len(s)) \in Seq(UnitSet)
    OBVIOUS
  <1> DEFINE t == SubSeq(s, 1, k)
  <1>3. t \in Seq(UnitSet) /\ Len(t) >= 1 /\ t[1] = s[1]
    BY <1>1
  <1> HIDE DEF t
  <1>4. h \o t \in Seq(UnitSet) /\ Len(h \o t) = Len(h) + Len(t) /\ Len(h) \in Nat /\ Len(t) \in Nat
    BY <1>3
  <1>5. h \o t # <<>>
    BY <1>3, <1>4
  <1>6. (h \o t)[1] = IF h = <<>> THEN s[1] ELSE h[1]
    BY <1>3, <1>4
  <1> QED
    BY <1>2, <1>4, <1>5, <1>6 DEF t

LEMMA HTTPInv == ASSUME IInv, HTTPResponse PROVE IInv'
  <1>1. in # <<>> /\ ret = "none" /\ kind = "http" /\ pc = "header"
    BY DEF HTTPResponse, IInv, ControlInv
  <1>2. \/ out = "none" /\ server = "granted"
        \/ out = "none" /\ RefusedHeader
    BY <1>1 DEF IInv, HandInv
  <1>3. CASE server = "granted"
    <2>1. CASE Fail
      BY <1>1, <2>1, FailInv
    <2>2. CASE Succeed
      BY <1>1, <1>2, <1>3, <2>2, SucceedInv DEF RefusedHeader
    <2>3. CASE UNCHANGED <<kind, user, pc, socket, out, server, up, need, atyp, watcher, ret>>
      BY <1>1, <1>2, <1>3, <2>3 DEF IInv, ControlInv, SocketInv, HandInv
    <2> QED
      BY <2>1, <2>2, <2>3 DEF HTTPResponse
  <1>4. CASE server # "granted"
    <2>1. PICK k \in 1 .. Len(in) : /\ in' = SubSeq(in, k + 1, Len(in))
                                    /\ head' = head \o SubSeq(in, 1, k)
      BY Zenon DEF HTTPResponse
    <2>2. RefusedHeader
      BY <1>2, <1>4
    <2>3. /\ in' \in Seq(UnitSet) /\ head' \in Seq(UnitSet) /\ head' # <<>>
          /\ head'[1] = IF head = <<>> THEN in[1] ELSE head[1]
      <3>1. in \in Seq(UnitSet) /\ head \in Seq(UnitSet)
        BY <2>2 DEF RefusedHeader
      <3>2. /\ SubSeq(in, k + 1, Len(in)) \in Seq(UnitSet)
            /\ head \o SubSeq(in, 1, k) \in Seq(UnitSet)
            /\ head \o SubSeq(in, 1, k) # <<>>
            /\ (head \o SubSeq(in, 1, k))[1] = IF head = <<>> THEN in[1] ELSE head[1]
        BY <2>1, <3>1, MoveFacts, Zenon
      <3> QED
        BY <2>1, <3>2, Zenon
    <2>4. head'[1].v # 200 /\ RefusedHeader'
      BY <2>2, <2>3 DEF RefusedHeader
    <2>5. CASE Fail
      BY <1>1, <2>5, FailInv
    <2>6. CASE UNCHANGED <<kind, user, pc, socket, out, server, up, need, atyp, watcher, ret>>
      BY <1>1, <1>2, <2>4, <2>6 DEF IInv, ControlInv, SocketInv, HandInv
    <2> QED
      BY <2>4, <2>5, <2>6 DEF HTTPResponse
  <1> QED
    BY <1>3, <1>4

\* The units the server sends.
LEMMA UnitFacts ==
    ASSUME NEW f \in Fields, NEW v \in Nat
    PROVE  Unit(f, v) \in UnitSet /\ Unit(f, v).v = v
  BY DEF Unit, UnitSet

LEMMA UnitsFacts ==
    ASSUME NEW f \in Fields, NEW n \in Nat
    PROVE  Units(f, n) \in Seq(UnitSet)
  <1>1. Unit(f, 0) \in UnitSet
    BY UnitFacts
  <1>2. Units(f, n) \in [1 .. n -> UnitSet]
    BY <1>1 DEF Units
  <1> QED
    BY <1>2

\* The first units of an answer are the server's, whatever address follows.
LEMMA AnswerFacts ==
    ASSUME NEW a, NEW b, NEW c, NEW d, NEW n \in Nat
    PROVE  /\ (<<a, b, c, d>> \o Units("addr", n))[2] = b
           /\ (<<a, b>> \o Units("ignored", 6))[2] = b
  BY DEF Units

LEMMA ServeInv == ASSUME IInv, Serve PROVE IInv'
  <1>1. /\ out # "none" /\ out' = "none" /\ in = <<>> /\ ret = "none"
        /\ pc \in {"method", "auth", "reply", "granted4", "header"} /\ head = <<>>
        /\ UNCHANGED <<kind, pc, socket, head, watcher, ret>>
    <2>1. out # "none" /\ out' = "none" /\ UNCHANGED <<kind, pc, socket, head, watcher, ret>>
      BY Zenon DEF Serve, ServerSocks5, ServerOther, Answer
    <2> QED
      BY <2>1, SMTT(30) DEF IInv, ControlInv, HandInv, Unasked, Exchange, Places
  <1>2. ControlInv' /\ SocketInv'
    BY <1>1 DEF IInv, ControlInv, SocketInv
  <1>3. CASE pc \in {"method", "auth"}
    <2>1. out \in {"greeting", "credentials"} /\ server # "granted"
      BY <1>1, <1>3 DEF IInv, HandInv, Exchange
    <2>2. server' # "granted"
      BY <1>1, <2>1 DEF Serve, ServerSocks5, ServerOther, Answer
    <2>3. \E a, b \in UnitSet : in' = in \o <<a, b>>
      <3>1. \/ \E v \in {4, 5}, m \in {0, 2, 255} : in' = in \o <<Unit("ver", v), Unit("method", m)>>
            \/ \E st \in {0, 1} : in' = in \o <<Unit("ver", 1), Unit("status", st)>>
        BY <1>1, <2>1 DEF Serve, ServerSocks5, ServerOther, Answer
      <3>2. \A v \in Nat : /\ Unit("ver", v) \in UnitSet /\ Unit("method", v) \in UnitSet
                           /\ Unit("status", v) \in UnitSet
        BY UnitFacts DEF Fields
      <3>3. CASE \E v \in {4, 5}, m \in {0, 2, 255} : in' = in \o <<Unit("ver", v), Unit("method", m)>>
        <4>1. PICK v \in {4, 5}, m \in {0, 2, 255} : in' = in \o <<Unit("ver", v), Unit("method", m)>>
          BY <3>3, Zenon
        <4>2. Unit("ver", v) \in UnitSet /\ Unit("method", m) \in UnitSet
          BY <3>2
        <4> QED
          BY <4>1, <4>2, Zenon
      <3>4. CASE \E st \in {0, 1} : in' = in \o <<Unit("ver", 1), Unit("status", st)>>
        <4>1. PICK st \in {0, 1} : in' = in \o <<Unit("ver", 1), Unit("status", st)>>
          BY <3>4, Zenon
        <4>2. Unit("ver", 1) \in UnitSet /\ Unit("status", st) \in UnitSet
          BY <3>2
        <4> QED
          BY <4>1, <4>2, Zenon
      <3> QED
        BY <3>1, <3>3, <3>4, Zenon
    <2>4. in' \in Seq(UnitSet) /\ Len(in') = 2
      BY <1>1, <2>3
    <2> QED
      BY <1>1, <1>2, <1>3, <2>2, <2>4 DEF IInv, ControlInv, HandInv, Exchange
  <1>4. CASE pc = "reply"
    <2>1. out = "request" /\ kind \in {"socks5", "socks5udp"}
      BY <1>1, <1>4 DEF IInv, ControlInv, HandInv
    <2>2. server' = "granted" \/ in'[2].v # 0
      <3>1. ASSUME NEW a \in {IPv4, IPv6}, NEW rep \in {0, 1},
                   Answer(<<Unit("ver", 5), Unit("rep", rep), Unit("rsv", 0), Unit("atyp", a)>>
                          \o Units("addr", AddrLen[a]),
                          IF rep = 0 THEN "granted" ELSE "refused")
            PROVE  server' = "granted" \/ in'[2].v # 0
        <4>1. CASE rep = 0
          BY <3>1, <4>1 DEF Answer
        <4>2. CASE rep = 1
          <5>1. AddrLen[a] \in Nat
            BY DialAssumption
          <5> DEFINE u == <<Unit("ver", 5), Unit("rep", rep), Unit("rsv", 0), Unit("atyp", a)>>
                          \o Units("addr", AddrLen[a])
          <5>2. u[2] = Unit("rep", rep)
            BY <5>1, AnswerFacts
          <5>3. u \in Seq(UnitSet)
            <6>1. Units("addr", AddrLen[a]) \in Seq(UnitSet)
              BY <5>1, UnitsFacts DEF Fields
            <6>2. /\ Unit("ver", 5) \in UnitSet /\ Unit("rep", rep) \in UnitSet
                  /\ Unit("rsv", 0) \in UnitSet /\ Unit("atyp", a) \in UnitSet
              BY UnitFacts DEF Fields, IPv4, IPv6
            <6>3. <<Unit("ver", 5), Unit("rep", rep), Unit("rsv", 0), Unit("atyp", a)>> \in Seq(UnitSet)
              BY <6>2
            <6> QED
              BY <6>1, <6>3
          <5> HIDE DEF u
          <5>4. in' = in \o u
            BY <3>1 DEF Answer, u
          <5>5. in' = u
            BY <1>1, <5>3, <5>4
          <5> QED
            BY <4>2, <5>2, <5>5 DEF Unit
        <4> QED
          BY <4>1, <4>2
      <3>2. ASSUME NEW n \in DomainLens,
                   Answer(<<Unit("ver", 5), Unit("rep", 0), Unit("rsv", 0), Unit("atyp", Domain),
                            Unit("dlen", n)>> \o Units("addr", n + 2), "granted")
            PROVE  server' = "granted"
        BY <3>2 DEF Answer
      <3> QED
        BY <2>1, <3>1, <3>2, Zenon DEF Serve, ServerSocks5, ServerOther
    <2> QED
      BY <1>1, <1>2, <1>4, <2>2 DEF IInv, ControlInv, HandInv
  <1>5. CASE pc = "granted4"
    <2>1. out = "request" /\ kind = "socks4"
      BY <1>1, <1>5 DEF IInv, ControlInv, HandInv
    <2>2. PICK c \in {90, 91} : Answer(<<Unit("ver", 0), Unit("code", c)>> \o Units("ignored", 6),
                                       IF c = 90 THEN "granted" ELSE "refused")
      BY <2>1 DEF Serve, ServerSocks5, ServerOther, IsSocks5
    <2>3. server' = "granted" \/ in'[2].v # 90
      <3> DEFINE u == <<Unit("ver", 0), Unit("code", c)>> \o Units("ignored", 6)
      <3>1. u[2] = Unit("code", c) /\ u \in Seq(UnitSet)
        <4>1. Units("ignored", 6) \in Seq(UnitSet)
          BY UnitsFacts DEF Fields
        <4>2. Unit("ver", 0) \in UnitSet /\ Unit("code", c) \in UnitSet
          BY UnitFacts DEF Fields
        <4>3. <<Unit("ver", 0), Unit("code", c)>> \in Seq(UnitSet)
          BY <4>2
        <4>4. u[2] = Unit("code", c)
          BY AnswerFacts
        <4> QED
          BY <4>1, <4>3, <4>4
      <3> HIDE DEF u
      <3>2. in' = in \o u
        BY <2>2 DEF Answer, u
      <3>3. in' = u
        BY <1>1, <3>1, <3>2
      <3> QED
        BY <2>2, <3>1, <3>3 DEF Answer, Unit
    <2> QED
      BY <1>1, <1>2, <1>5, <2>3 DEF IInv, ControlInv, HandInv
  <1>6. CASE pc = "header"
    <2>1. out = "request" /\ kind = "http"
      BY <1>1, <1>6 DEF IInv, ControlInv, HandInv
    <2>2. PICK c \in {200, 407} : Answer(<<Unit("status", c), Unit("end", 0)>>,
                                         IF c = 200 THEN "granted" ELSE "refused")
      BY <2>1 DEF Serve, ServerSocks5, ServerOther, IsSocks5
    <2>3. in' = <<Unit("status", c), Unit("end", 0)>> /\ head' = <<>>
      BY <1>1, <2>2 DEF Answer
    <2>4. in' \in Seq(UnitSet) /\ in' # <<>> /\ in'[1].v = c /\ head' \in Seq(UnitSet)
      <3>1. Unit("status", c) \in UnitSet /\ Unit("end", 0) \in UnitSet /\ Unit("status", c).v = c
        BY UnitFacts DEF Fields
      <3> QED
        BY <2>3, <3>1
    <2>5. server' = "granted" \/ RefusedHeader'
      BY <2>2, <2>3, <2>4 DEF Answer, RefusedHeader
    <2> QED
      BY <1>1, <1>2, <1>6, <2>5 DEF IInv, ControlInv, HandInv
  <1> QED
    BY <1>1, <1>3, <1>4, <1>5, <1>6

LEMMA OtherInv == ASSUME IInv, Watch \/ Close \/ ServerData \/ ServerClose PROVE IInv'
  <1> USE DEF IInv
  <1>1. CASE WatchTCP
    <2>1. socket' \in [{"tcp", "udp"} -> SocketState] /\ socket'["udp"] = socket["udp"]
          /\ socket'["tcp"] = "closed"
      BY <1>1 DEF WatchTCP, ControlInv, SocketState
    <2>2. pc \in {"bind", "done"}
      BY <1>1 DEF WatchTCP, SocketInv
    <2> QED
      BY <1>1, <2>1, <2>2 DEF WatchTCP, ControlInv, SocketInv, HandInv
  <1>2. CASE WatchUDP
    <2>1. socket' \in [{"tcp", "udp"} -> SocketState] /\ socket'["tcp"] = socket["tcp"]
          /\ socket'["udp"] = "closed"
      BY <1>2 DEF WatchUDP, ControlInv, SocketState
    <2>2. pc \in {"bind", "done"}
      BY <1>2 DEF WatchUDP, SocketInv
    <2> QED
      BY <1>2, <2>1, <2>2 DEF WatchUDP, stream, ControlInv, SocketInv, HandInv
  <1>3. CASE Close
    <2>1. /\ socket' \in [{"tcp", "udp"} -> SocketState]
          /\ socket'["tcp"] # "open" /\ socket'["udp"] # "open"
      BY <1>3 DEF Close, ControlInv, SocketState
    <2>2. pc = "done"
      BY <1>3 DEF Close, ControlInv
    <2> QED
      BY <1>3, <2>1, <2>2 DEF Close, stream, ControlInv, SocketInv, HandInv
  <1>4. CASE ServerData
    <2>1. pc \notin {"dial", "hello", "client", "method", "auth"} /\ out = "none"
      BY <1>4, SMTT(30) DEF ServerData, ControlInv, HandInv, Unasked, Exchange, Places
    <2> QED
      BY <1>4, <2>1 DEF ServerData, ControlInv, SocketInv, HandInv
  <1>5. CASE ServerClose
    BY <1>5, SMTT(20), ZenonT(30) DEF ServerClose, ControlInv, SocketInv, HandInv, Unasked, Exchange, RefusedHeader
  <1> QED
    BY <1>1, <1>2, <1>3, <1>4, <1>5 DEF Watch

LEMMA Inductive == IInv /\ [Next]_vars => IInv'
  <1> SUFFICES ASSUME IInv, [Next]_vars PROVE IInv'
    OBVIOUS
  <1>1. CASE DialStep
    BY <1>1, StartInv, Socks5Inv, Socks4Inv, HTTPInv DEF DialStep
  <1>2. CASE Serve
    BY <1>2, ServeInv
  <1>3. CASE Watch \/ Close \/ ServerData \/ ServerClose
    BY <1>3, OtherInv
  <1>4. CASE UNCHANGED vars
    BY <1>4 DEF vars, stream, IInv, ControlInv, SocketInv, HandInv, Unasked, Exchange, RefusedHeader
  <1> QED
    BY <1>1, <1>2, <1>3, <1>4 DEF Next

\* A dial that returns an error leaves no socket that nobody will close, but for
\* the packet connection of shadowsocks, whatever the server does and whenever
\* it closes.
THEOREM DialLeavesNothing == Spec => []FailureLeavesNothing
  <1>1. IInv => FailureLeavesNothing
    BY DEF IInv, ControlInv, SocketInv, FailureLeavesNothing
  <1> QED
    BY <1>1, InitInv, Inductive, PTL DEF Spec

\* A dial returns a connection only when the proxy server has granted it, for
\* addresses and names of every length.
THEOREM DialOnlyIfGranted == Spec => []OnlyIfGranted
  <1>1. IInv => OnlyIfGranted
    BY DEF IInv, HandInv, OnlyIfGranted, Asked
  <1> QED
    BY <1>1, InitInv, Inductive, PTL DEF Spec

-----------------------------------------------------------------------------
(* What a handshake reads is the server's answer and nothing behind it.      *)

INSTANCE FiniteSetTheorems

\* A unit of an answer, or of the data behind it.
AnyUnit == [f : Fields \cup {"data"}, v : Nat]

\* The first n units of s belong to the server's answer.
Clean(s, n) == n \in Nat /\ n <= Len(s) /\ \A i \in 1 .. n : s[i].f # "data"

\* Behind k units of the answer comes a complete address.
AddrBehind(s, k) ==
    \/ s[k + 1].v \in {IPv4, IPv6} /\ Clean(s, k + 1 + AddrLen[s[k + 1].v])
    \/ s[k + 1].v = Domain /\ s[k + 2].v \in Nat /\ Clean(s, k + 4 + s[k + 2].v)

\* The server has not answered the request yet.
Waiting == out = "request" /\ in = <<>>

\* Wherever the client is in the answer, what it reads next is still complete.
AnswerInv ==
    /\ in \in Seq(AnyUnit) /\ need \in Nat
    /\ kind # "http" => swallowed = 0
    /\ pc = "reply" => Waiting \/ AddrBehind(in, 3)
    /\ pc = "atyp" => AddrBehind(in, 0)
    /\ pc = "dlen" => in[1].v \in Nat /\ Clean(in, 3 + in[1].v)
    /\ pc = "addr" => Clean(in, need)
    /\ pc = "granted4" => Waiting \/ Clean(in, 8)

\* Two sequences put together.
LEMMA Joined ==
    ASSUME NEW S, NEW h \in Seq(S), NEW t \in Seq(S)
    PROVE  /\ h \o t \in Seq(S) /\ Len(h \o t) = Len(h) + Len(t)
           /\ \A i \in 1 .. Len(h) : (h \o t)[i] = h[i]
  OBVIOUS

\* Reading n of the n + k units that belong to the answer.
LEMMA CleanRead ==
    ASSUME NEW s \in Seq(AnyUnit), NEW n \in Nat, NEW k \in Nat, Clean(s, n + k)
    PROVE  /\ SubSeq(s, n + 1, Len(s)) \in Seq(AnyUnit)
           /\ Len(SubSeq(s, n + 1, Len(s))) = Len(s) - n
           /\ \A i \in 1 .. Len(s) - n : SubSeq(s, n + 1, Len(s))[i] = s[i + n]
           /\ Clean(SubSeq(s, n + 1, Len(s)), k)
           /\ DataIn(SubSeq(s, 1, n)) = 0
  <1> DEFINE t == SubSeq(s, n + 1, Len(s))
  <1>1. Len(s) \in Nat /\ n <= Len(s)
    BY DEF Clean
  <1>2. /\ t \in Seq(AnyUnit) /\ Len(t) = Len(s) - n
        /\ \A i \in 1 .. Len(s) - n : t[i] = s[i + n]
    BY <1>1
  <1>3. DataIn(SubSeq(s, 1, n)) = 0
    <2> DEFINE r == SubSeq(s, 1, n)
    <2>1. DOMAIN r = 1 .. n /\ \A i \in 1 .. n : r[i] = s[i]
      BY <1>1
    <2> HIDE DEF r
    <2>2. {i \in DOMAIN r : r[i].f = "data"} = {}
      BY <2>1 DEF Clean
    <2> QED
      BY <2>2, FS_EmptySet, Zenon DEF DataIn, r
  <1> HIDE DEF t
  <1>4. Clean(t, k)
    BY <1>1, <1>2 DEF Clean
  <1> QED
    BY <1>2, <1>3, <1>4, Zenon DEF t

\* Reading an address's first unit, or what is before it, leaves the rest of it.
LEMMA AddrRead ==
    ASSUME NEW s \in Seq(AnyUnit), AddrBehind(s, 3), NEW t, t = SubSeq(s, 4, Len(s))
    PROVE  t \in Seq(AnyUnit) /\ AddrBehind(t, 0) /\ DataIn(SubSeq(s, 1, 3)) = 0
  <1>0. \A a \in {IPv4, IPv6} : AddrLen[a] \in Nat
    BY DialAssumption
  <1>1. CASE s[4].v \in {IPv4, IPv6} /\ Clean(s, 4 + AddrLen[s[4].v])
    <2> DEFINE l == AddrLen[s[4].v]
    <2>1. l \in Nat /\ Len(s) \in Nat /\ Len(s) >= 4 + l
      BY <1>0, <1>1 DEF Clean
    <2> HIDE DEF l
    <2>2. 4 + l = 3 + (1 + l) /\ 1 + l \in Nat /\ 4 = 3 + 1 /\ 3 \in Nat
      BY <2>1
    <2>a. Clean(s, 3 + (1 + l)) /\ t = SubSeq(s, 3 + 1, Len(s))
      BY <1>1, <2>2, Zenon DEF l
    <2>b. 1 + l \in Nat /\ 3 \in Nat
      BY <2>2
    <2>3. /\ t \in Seq(AnyUnit) /\ Len(t) = Len(s) - 3 /\ DataIn(SubSeq(s, 1, 3)) = 0
          /\ \A i \in 1 .. Len(s) - 3 : t[i] = s[i + 3]
          /\ Clean(t, 1 + l)
      <3>1. /\ SubSeq(s, 3 + 1, Len(s)) \in Seq(AnyUnit)
            /\ Len(SubSeq(s, 3 + 1, Len(s))) = Len(s) - 3 /\ DataIn(SubSeq(s, 1, 3)) = 0
            /\ \A i \in 1 .. Len(s) - 3 : SubSeq(s, 3 + 1, Len(s))[i] = s[i + 3]
            /\ Clean(SubSeq(s, 3 + 1, Len(s)), 1 + l)
        BY <2>a, <2>b, CleanRead, Zenon
      <3> QED
        BY <2>a, <3>1, Zenon
    <2>4. t[0 + 1] = s[4] /\ 1 + l = 0 + 1 + l
      BY <2>1, <2>3
    <2>5. Clean(t, 0 + 1 + AddrLen[t[0 + 1].v]) /\ t[0 + 1].v \in {IPv4, IPv6}
      BY <1>1, <2>3, <2>4, Zenon DEF l
    <2> QED
      BY <2>3, <2>5, Zenon DEF AddrBehind
  <1>2. CASE s[4].v = Domain /\ s[5].v \in Nat /\ Clean(s, 7 + s[5].v)
    <2> DEFINE l == s[5].v
    <2>1. 7 + l \in Nat /\ 7 + l <= Len(s) /\ Len(s) \in Nat
      BY <1>2 DEF Clean
    <2>3. l \in Nat
      BY <1>2
    <2> HIDE DEF l
    <2>4. 7 + l = 3 + (4 + l) /\ 4 + l \in Nat /\ 4 = 3 + 1 /\ 3 \in Nat
      BY <2>3
    <2>a. Clean(s, 3 + (4 + l)) /\ t = SubSeq(s, 3 + 1, Len(s))
      BY <1>2, <2>4, Zenon DEF l
    <2>b. 4 + l \in Nat /\ 3 \in Nat
      BY <2>4
    <2>5. /\ t \in Seq(AnyUnit) /\ Len(t) = Len(s) - 3 /\ DataIn(SubSeq(s, 1, 3)) = 0
          /\ \A i \in 1 .. Len(s) - 3 : t[i] = s[i + 3]
          /\ Clean(t, 4 + l)
      <3>1. /\ SubSeq(s, 3 + 1, Len(s)) \in Seq(AnyUnit)
            /\ Len(SubSeq(s, 3 + 1, Len(s))) = Len(s) - 3 /\ DataIn(SubSeq(s, 1, 3)) = 0
            /\ \A i \in 1 .. Len(s) - 3 : SubSeq(s, 3 + 1, Len(s))[i] = s[i + 3]
            /\ Clean(SubSeq(s, 3 + 1, Len(s)), 4 + l)
        BY <2>a, <2>b, CleanRead, Zenon
      <3> QED
        BY <2>a, <3>1, Zenon
    <2>6. t[0 + 1] = s[4] /\ t[0 + 2] = s[5] /\ 4 + l = 0 + 4 + l
      BY <2>1, <2>3, <2>5
    <2>7. Clean(t, 0 + 4 + t[0 + 2].v) /\ t[0 + 2].v \in Nat /\ t[0 + 1].v = Domain
      BY <1>2, <2>3, <2>5, <2>6, Zenon DEF l
    <2> QED
      BY <2>5, <2>7, Zenon DEF AddrBehind
  <1>3. /\ 3 + 1 = 4 /\ 3 + 2 = 5
        /\ s[5].v \in Nat => 3 + 4 + s[5].v = 7 + s[5].v
        /\ s[4].v \in {IPv4, IPv6} => 3 + 1 + AddrLen[s[4].v] = 4 + AddrLen[s[4].v]
    BY <1>0
  <1>4. \/ s[4].v \in {IPv4, IPv6} /\ Clean(s, 4 + AddrLen[s[4].v])
        \/ s[4].v = Domain /\ s[5].v \in Nat /\ Clean(s, 7 + s[5].v)
    BY <1>3, Zenon DEF AddrBehind
  <1> QED
    BY <1>1, <1>2, <1>4, Zenon

\* Nothing is read.
LEMMA IdleAnswer ==
    ASSUME AnswerInv, UNCHANGED <<kind, in, need, swallowed>>,
           pc' \notin {"reply", "atyp", "dlen", "addr", "granted4"} \/ UNCHANGED <<pc, out>>
           \/ (pc' \in {"reply", "granted4"} /\ Waiting')
    PROVE  AnswerInv'
  BY DEF AnswerInv, Waiting, AddrBehind, Clean

\* The dial and the first message: nothing has been read.
LEMMA StartAnswer ==
    ASSUME IInv, AnswerInv, \/ Connect \/ ReadFails \/ Direct \/ Shadowsocks \/ ShadowsocksUDP \/ SSHDial
                 \/ Socks5Greeting \/ Socks4Request \/ HTTPRequest \/ Socks5Listen \/ Socks5Bind
    PROVE  AnswerInv'
  <1>1. UNCHANGED <<kind, in, need, swallowed>>
    BY DEF Connect, ReadFails, Direct, Shadowsocks, ShadowsocksUDP, SSHDial, Same, Fail, Succeed, Go,
           Socks5Greeting, Socks4Request, HTTPRequest, Socks5Listen, Socks5Bind
  <1>2. \/ pc' \in {"done", "hello", "client", "method", "header", "bind"}
        \/ pc = "hello" /\ pc' = "granted4" /\ out' = "request"
    BY DEF Connect, ReadFails, Direct, Shadowsocks, ShadowsocksUDP, SSHDial, Same, Fail, Succeed, Go,
           Socks5Greeting, Socks4Request, HTTPRequest, Socks5Listen, Socks5Bind
  <1>3. pc = "hello" => in = <<>>
    BY DEF IInv, HandInv, Unasked
  <1> QED
    BY <1>1, <1>2, <1>3, IdleAnswer DEF Waiting

\* A two-unit answer has no data in it.
LEMMA ExchangeAnswer ==
    ASSUME IInv, AnswerInv, Socks5Method \/ Socks5Auth PROVE AnswerInv'
  <1>1. pc \in {"method", "auth"} /\ ReadFull(2) /\ kind # "http"
    BY DEF Socks5Method, Socks5Auth, IInv, ControlInv
  <1>2. in \in Seq(UnitSet) /\ (in = <<>> \/ Len(in) = 2)
    BY <1>1 DEF IInv, HandInv, Exchange
  <1>3. Len(in) = 2
    BY <1>1, <1>2 DEF ReadFull
  <1>4. Clean(in, 2)
    <2>1. \A u \in UnitSet : u.f # "data"
      BY DEF UnitSet, Fields
    <2> QED
      BY <1>2, <1>3, <2>1 DEF Clean
  <1>5. in' = <<>>
    BY <1>1, <1>2, <1>3, ReadBoth
  <1>6. swallowed' = 0 /\ in' \in Seq(AnyUnit)
    <2>1. DataIn(SubSeq(in, 1, 2)) = 0
      <3>1. 2 \in Nat /\ 0 \in Nat /\ 2 = 2 + 0 /\ in \in Seq(AnyUnit)
        BY DEF AnswerInv
      <3>2. Clean(in, 2 + 0)
        BY <1>4, <3>1, Zenon
      <3> QED
        BY <3>1, <3>2, CleanRead, Zenon
    <2> QED
      BY <1>1, <1>5, <2>1 DEF AnswerInv, ReadFull
  <1>7. kind' = kind /\ need' = need /\ (pc' \in {"done", "auth"} \/ (pc' = "reply" /\ out' = "request"))
    BY DEF Socks5Method, Socks5Auth, Go, Fail
  <1> QED
    BY <1>1, <1>5, <1>6, <1>7 DEF AnswerInv, Waiting

\* client.go reads VER, REP and RSV: the address stays complete.
LEMMA ReplyAnswer ==
    ASSUME IInv, AnswerInv, Socks5Reply PROVE AnswerInv'
  <1>1. pc = "reply" /\ ReadFull(3) /\ kind # "http" /\ in # <<>> /\ swallowed = 0 /\ in \in Seq(AnyUnit)
    BY DEF Socks5Reply, IInv, ControlInv, AnswerInv, ReadFull
  <1>2. AddrBehind(in, 3)
    BY <1>1 DEF AnswerInv, Waiting
  <1>3. kind' = kind /\ need' = need /\ pc' \in {"done", "atyp"}
    BY DEF Socks5Reply, Go, Fail
  <1>4. in' = SubSeq(in, 4, Len(in)) /\ swallowed' = 0 + DataIn(SubSeq(in, 1, 3))
    BY <1>1 DEF ReadFull
  <1>5. in' \in Seq(AnyUnit) /\ AddrBehind(in', 0) /\ DataIn(SubSeq(in, 1, 3)) = 0
    BY <1>1, <1>2, <1>4, AddrRead, Zenon
  <1> QED
    BY <1>1, <1>3, <1>4, <1>5 DEF AnswerInv

\* ReadAddr reads exactly the address, whatever its type.
LEMMA AddrAnswer ==
    ASSUME IInv, AnswerInv, ReadAddr \/ ReadDomainLength \/ ReadAddrRest PROVE AnswerInv'
  <1>1. kind # "http" /\ swallowed = 0 /\ in \in Seq(AnyUnit) /\ need \in Nat /\ Len(in) \in Nat
    BY DEF ReadAddr, ReadDomainLength, ReadAddrRest, IInv, ControlInv, AnswerInv
  <1>a. \A a \in {IPv4, IPv6} : AddrLen[a] \in Nat
    BY DialAssumption
  <1>b. ASSUME NEW n \in Nat, NEW k \in Nat, ReadFull(n), Clean(in, n + k)
        PROVE  /\ in' \in Seq(AnyUnit) /\ swallowed' = 0 /\ Len(in') = Len(in) - n
               /\ \A i \in 1 .. Len(in) - n : in'[i] = in[i + n]
               /\ Clean(in', k)
    <2>1. in' = SubSeq(in, n + 1, Len(in)) /\ swallowed' = 0 + DataIn(SubSeq(in, 1, n))
      BY <1>1, <1>b DEF ReadFull
    <2> QED
      <3>1. DataIn(SubSeq(in, 1, n)) = 0
        BY <1>1, <1>b, CleanRead, Zenon
      <3>2. swallowed' = 0
        BY <2>1, <3>1
      <3> QED
        BY <1>1, <1>b, <2>1, <3>2, CleanRead, Zenon
  <1>2. CASE ReadAddr
    <2>1. pc = "atyp" /\ ReadFull(1) /\ AddrBehind(in, 0) /\ kind' = kind
      BY <1>2 DEF ReadAddr, AnswerInv, Fail
    <2>2. CASE in[1].v \in {IPv4, IPv6} /\ Clean(in, 1 + AddrLen[in[1].v])
      <3>1. pc' = "addr" /\ need' = AddrLen[in[1].v]
        BY <1>2, <2>2 DEF ReadAddr, IPv4, IPv6, Domain
      <3>2. PICK l \in Nat : l = AddrLen[in[1].v]
        BY <1>a, <2>2
      <3>3. in' \in Seq(AnyUnit) /\ swallowed' = 0 /\ Clean(in', l)
        <4>1. Clean(in, 1 + l) /\ 1 \in Nat
          BY <2>2, <3>2
        <4> QED
          BY <1>b, <2>1, <4>1, Zenon
      <3>4. l = need' /\ need' \in Nat
        BY <3>1, <3>2
      <3> QED
        BY <2>1, <3>1, <3>3, <3>4 DEF AnswerInv
    <2>3. CASE in[1].v = Domain /\ in[2].v \in Nat /\ Clean(in, 4 + in[2].v)
      <3>1. pc' = "dlen" /\ need' = need
        BY <1>2, <2>3 DEF ReadAddr, IPv4, IPv6, Domain
      <3>2. PICK l \in Nat : l = in[2].v
        BY <2>3
      <3>3. in' \in Seq(AnyUnit) /\ swallowed' = 0 /\ Clean(in', 3 + l) /\ in'[1] = in[2]
        <4>0. 4 + l = 1 + (3 + l) /\ 3 + l \in Nat /\ 1 \in Nat
          BY <3>2
        <4>1. Clean(in, 1 + (3 + l)) /\ 3 + l \in Nat /\ 1 \in Nat
          BY <2>3, <3>2, <4>0, Zenon
        <4>2. /\ in' \in Seq(AnyUnit) /\ swallowed' = 0 /\ Len(in') = Len(in) - 1
              /\ \A i \in 1 .. Len(in) - 1 : in'[i] = in[i + 1]
              /\ Clean(in', 3 + l)
          BY <1>b, <2>1, <4>1, Zenon
        <4> QED
          BY <1>1, <4>1, <4>2 DEF Clean
      <3>4. 3 + l = 3 + in'[1].v /\ in'[1].v \in Nat
        BY <3>2, <3>3
      <3> QED
        BY <1>1, <2>1, <3>1, <3>3, <3>4 DEF AnswerInv
    <2> QED
      BY <2>1, <2>2, <2>3 DEF AddrBehind
  <1>3. CASE ReadDomainLength
    <2>1. /\ pc = "dlen" /\ ReadFull(1) /\ in[1].v \in Nat /\ Clean(in, 3 + in[1].v) /\ kind' = kind
          /\ need' = in[1].v + 2 /\ pc' = "addr"
      BY <1>3 DEF ReadDomainLength, AnswerInv
    <2>2. PICK l \in Nat : l = in[1].v
      BY <2>1
    <2>3. in' \in Seq(AnyUnit) /\ swallowed' = 0 /\ Clean(in', 2 + l)
      <3>0. 3 + l = 1 + (2 + l) /\ 2 + l \in Nat /\ 1 \in Nat
        BY <2>2
      <3>1. Clean(in, 1 + (2 + l)) /\ 2 + l \in Nat /\ 1 \in Nat
        BY <2>1, <2>2, <3>0, Zenon
      <3> QED
        BY <1>b, <2>1, <3>1, Zenon
    <2>4. 2 + l = need' /\ need' \in Nat
      BY <2>1, <2>2
    <2> QED
      BY <2>1, <2>3, <2>4 DEF AnswerInv
  <1>4. CASE ReadAddrRest
    <2>1. pc = "addr" /\ ReadFull(need) /\ Clean(in, need) /\ kind' = kind /\ need' = need
          /\ pc' \in {"done", "listen"}
      BY <1>4 DEF ReadAddrRest, AnswerInv, Succeed, Go
    <2>2. in' \in Seq(AnyUnit) /\ swallowed' = 0
      <3>1. PICK l \in Nat : l = need
        BY <1>1
      <3>0. l = l + 0 /\ 0 \in Nat
        BY <3>1
      <3>2. ReadFull(l) /\ Clean(in, l + 0)
        BY <2>1, <3>0, <3>1, Zenon
      <3> QED
        BY <1>b, <3>0, <3>2, Zenon
    <2> QED
      BY <1>1, <2>1, <2>2 DEF AnswerInv
  <1> QED
    BY <1>2, <1>3, <1>4

\* The SOCKS4 reply is eight units, and all of them are read.
LEMMA Socks4Answer == ASSUME IInv, AnswerInv, Socks4Reply PROVE AnswerInv'
  <1>1. /\ pc = "granted4" /\ ReadFull(8) /\ kind = "socks4" /\ in # <<>> /\ swallowed = 0
        /\ in \in Seq(AnyUnit)
    BY DEF Socks4Reply, IInv, ControlInv, AnswerInv, ReadFull
  <1>2. Clean(in, 8)
    BY <1>1 DEF AnswerInv, Waiting
  <1>3. kind' = kind /\ need' = need /\ pc' = "done"
    BY DEF Socks4Reply, Succeed, Fail
  <1>4. in' = SubSeq(in, 8 + 1, Len(in)) /\ swallowed' = 0 + DataIn(SubSeq(in, 1, 8))
    BY <1>1 DEF ReadFull
  <1>5. in' \in Seq(AnyUnit) /\ DataIn(SubSeq(in, 1, 8)) = 0
    <2>1. 8 \in Nat /\ 0 \in Nat /\ 8 = 8 + 0
      OBVIOUS
    <2>2. Clean(in, 8 + 0)
      BY <1>2, <2>1, Zenon
    <2> QED
      BY <1>1, <1>4, <2>1, <2>2, CleanRead, Zenon
  <1> QED
    BY <1>1, <1>3, <1>4, <1>5 DEF AnswerInv

\* Nothing is claimed of the HTTP proxy, whose reader takes more than the header.
LEMMA HTTPAnswer == ASSUME IInv, AnswerInv, HTTPResponse PROVE AnswerInv'
  <1>1. pc = "header" /\ kind = "http" /\ in \in Seq(AnyUnit)
    BY DEF HTTPResponse, IInv, ControlInv, AnswerInv
  <1>2. kind' = kind /\ need' = need /\ pc' \in {"done", "header"}
    BY <1>1 DEF HTTPResponse, Succeed, Fail
  <1>3. in' \in Seq(AnyUnit)
    <2>1. PICK k \in 1 .. Len(in) : in' = SubSeq(in, k + 1, Len(in))
      BY DEF HTTPResponse
    <2> QED
      BY <1>1, <2>1
  <1> QED
    BY <1>1, <1>2, <1>3 DEF AnswerInv

\* What the server sends afterwards comes behind its answer.
LEMMA OtherAnswer == ASSUME IInv, AnswerInv, Watch \/ Close \/ ServerData \/ ServerClose PROVE AnswerInv'
  <1>1. CASE WatchTCP
    <2>1. pc \in {"bind", "done"}
      BY <1>1 DEF WatchTCP, IInv, SocketInv
    <2>2. in' = <<>> /\ UNCHANGED <<kind, pc, need, swallowed>>
      BY <1>1 DEF WatchTCP
    <2>3. in' \in Seq(AnyUnit)
      BY <2>2
    <2> QED
      BY <2>1, <2>2, <2>3 DEF AnswerInv
  <1>2. CASE WatchUDP \/ Close \/ ServerClose
    BY <1>2, IdleAnswer DEF WatchUDP, Close, ServerClose, stream
  <1>3. CASE ServerData
    <2>1. /\ in' = Append(in, Unit("data", 0)) /\ UNCHANGED <<kind, pc, out, need, swallowed>>
          /\ in \in Seq(AnyUnit) /\ server = "granted"
      BY <1>3 DEF ServerData, AnswerInv
    <2>2. Unit("data", 0) \in AnyUnit
      BY DEF Unit, AnyUnit
    <2>3. /\ in' \in Seq(AnyUnit) /\ Len(in') = Len(in) + 1 /\ Len(in) \in Nat
          /\ \A i \in 1 .. Len(in) : in'[i] = in[i]
      BY <2>1, <2>2
    <2>4. ~Waiting
      <3>1. pc \notin {"dial", "hello", "client", "method", "auth"} /\ out = "none"
        BY <1>3, SMTT(30) DEF ServerData, IInv, ControlInv, HandInv, Unasked, Exchange, Places
      <3> QED
        BY <3>1 DEF Waiting
    <2>5. ASSUME NEW n, Clean(in, n) PROVE Clean(in', n)
      BY <2>3, <2>5 DEF Clean
    <2>6. ASSUME NEW k \in Nat, AddrBehind(in, k) PROVE AddrBehind(in', k)
      <3>1. CASE in[k + 1].v \in {IPv4, IPv6} /\ Clean(in, k + 1 + AddrLen[in[k + 1].v])
        <4>1. k + 1 <= Len(in)
          BY <2>3, <3>1, DialAssumption DEF Clean
        <4>2. in'[k + 1] = in[k + 1]
          BY <2>3, <4>1
        <4> QED
          BY <2>5, <3>1, <4>2 DEF AddrBehind
      <3>2. CASE in[k + 1].v = Domain /\ in[k + 2].v \in Nat /\ Clean(in, k + 4 + in[k + 2].v)
        <4>1. k + 2 <= Len(in)
          BY <2>3, <3>2 DEF Clean
        <4>2. in'[k + 1] = in[k + 1] /\ in'[k + 2] = in[k + 2]
          BY <2>3, <4>1
        <4> QED
          BY <2>5, <3>2, <4>2 DEF AddrBehind
      <3> QED
        BY <2>6, <3>1, <3>2 DEF AddrBehind
    <2>7. pc = "dlen" => in'[1] = in[1]
      BY <2>3 DEF AnswerInv, Clean
    <2> QED
      BY <2>1, <2>3, <2>4, <2>5, <2>6, <2>7 DEF AnswerInv
  <1> QED
    BY <1>1, <1>2, <1>3 DEF Watch

\* The fields of an answer: its first units, then an address or units ignored.
LEMMA FieldsClean ==
    ASSUME NEW s \in Seq(UnitSet)
    PROVE  s \in Seq(AnyUnit) /\ Clean(s, Len(s))
  <1>1. \A u \in UnitSet : u.f # "data" /\ u \in AnyUnit
    BY DEF UnitSet, AnyUnit, Fields
  <1> QED
    BY <1>1 DEF Clean

\* The server answers: its answer is complete, and has an address of the length it says.
LEMMA ServeAnswer == ASSUME IInv, AnswerInv, Serve PROVE AnswerInv'
  <1>1. /\ in = <<>> /\ pc \in {"method", "auth", "reply", "granted4", "header"}
        /\ UNCHANGED <<kind, pc, need, swallowed>> /\ out # "none"
    <2>1. out # "none" /\ out' = "none" /\ UNCHANGED <<kind, pc, need, swallowed>>
      BY ZenonT(30) DEF Serve, ServerSocks5, ServerOther, Answer
    <2> QED
      BY <2>1, SMTT(30) DEF IInv, ControlInv, HandInv, Unasked, Exchange, Places
  <1>2. \A f \in Fields, v \in Nat : Unit(f, v) \in UnitSet /\ Unit(f, v).v = v
    BY UnitFacts
  <1>3. \A n \in Nat : /\ Units("addr", n) \in Seq(UnitSet) /\ Len(Units("addr", n)) = n
                       /\ Units("ignored", n) \in Seq(UnitSet) /\ Len(Units("ignored", n)) = n
    BY UnitsFacts DEF Fields, Units
  <1>4. ASSUME NEW u \in Seq(UnitSet), NEW s, Answer(u, s) PROVE in' = u
    BY <1>1, <1>4 DEF Answer
  <1>5. CASE pc \in {"method", "auth", "header"}
    <2>1. in' \in Seq(AnyUnit)
      <3>1. CASE pc \in {"method", "auth"}
        <4>1. in' \in Seq(UnitSet)
          <5>1. pc' = pc /\ IInv'
            BY <1>1, ServeInv
          <5> QED
            BY <3>1, <5>1 DEF IInv, HandInv, Exchange
        <4> QED
          BY <4>1, FieldsClean
      <3>2. CASE pc = "header"
        <4>1. out = "request" /\ kind = "http"
          BY <1>1, <3>2 DEF IInv, ControlInv, HandInv
        <4>2. PICK c \in {200, 407}, s \in {"granted", "refused"} :
                 Answer(<<Unit("status", c), Unit("end", 0)>>, s)
          BY <4>1 DEF Serve, ServerSocks5, ServerOther, IsSocks5
        <4>3. Unit("status", c) \in UnitSet /\ Unit("end", 0) \in UnitSet
          BY <1>2 DEF Fields
        <4>4. <<Unit("status", c), Unit("end", 0)>> \in Seq(UnitSet)
          BY <4>3
        <4>5. in' \in Seq(UnitSet)
          BY <1>4, <4>2, <4>4, Zenon
        <4> QED
          BY <4>5, FieldsClean
      <3> QED
        BY <1>5, <3>1, <3>2
    <2> QED
      BY <1>1, <1>5, <2>1 DEF AnswerInv
  <1>6. CASE pc = "reply"
    <2>1. out = "request" /\ kind \in {"socks5", "socks5udp"}
      BY <1>1, <1>6 DEF IInv, ControlInv, HandInv
    <2>2. in' \in Seq(UnitSet) /\ AddrBehind(in', 3)
      <3>1. ASSUME NEW a \in {IPv4, IPv6}, NEW rep \in {0, 1}, NEW s,
                   Answer(<<Unit("ver", 5), Unit("rep", rep), Unit("rsv", 0), Unit("atyp", a)>>
                          \o Units("addr", AddrLen[a]), s)
            PROVE  in' \in Seq(UnitSet) /\ AddrBehind(in', 3)
        <4> DEFINE h == <<Unit("ver", 5), Unit("rep", rep), Unit("rsv", 0), Unit("atyp", a)>>
                   t == Units("addr", AddrLen[a])
        <4>1. AddrLen[a] \in Nat /\ a \in Nat
          BY DialAssumption DEF IPv4, IPv6
        <4>2. t \in Seq(UnitSet) /\ Len(t) = AddrLen[a]
          BY <1>3, <4>1
        <4>3. /\ Unit("ver", 5) \in UnitSet /\ Unit("rep", rep) \in UnitSet
              /\ Unit("rsv", 0) \in UnitSet /\ Unit("atyp", a) \in UnitSet /\ Unit("atyp", a).v = a
          BY <1>2, <4>1 DEF Fields
        <4>4. h \in Seq(UnitSet) /\ Len(h) = 4 /\ h[4].v = a
          BY <4>3
        <4> HIDE DEF h, t
        <4>5. h \o t \in Seq(UnitSet) /\ Len(h \o t) = 4 + AddrLen[a] /\ (h \o t)[4] = h[4]
          <5>1. /\ h \o t \in Seq(UnitSet) /\ Len(h \o t) = Len(h) + Len(t)
                /\ \A i \in 1 .. Len(h) : (h \o t)[i] = h[i]
            BY <4>2, <4>4, Joined, Zenon
          <5> QED
            BY <4>1, <4>2, <4>4, <5>1
        <4>6. in' = h \o t
          BY <1>4, <3>1, <4>5, Zenon DEF h, t
        <4>7. in' \in Seq(UnitSet) /\ Len(in') = 4 + AddrLen[a] /\ in'[4].v = a
          BY <4>4, <4>5, <4>6, Zenon
        <4>8. Clean(in', 4 + AddrLen[a])
          BY <4>7, FieldsClean
        <4> QED
          BY <4>7, <4>8 DEF AddrBehind
      <3>2. ASSUME NEW n \in DomainLens, NEW s,
                   Answer(<<Unit("ver", 5), Unit("rep", 0), Unit("rsv", 0), Unit("atyp", Domain),
                            Unit("dlen", n)>> \o Units("addr", n + 2), s)
            PROVE  in' \in Seq(UnitSet) /\ AddrBehind(in', 3)
        <4> DEFINE h == <<Unit("ver", 5), Unit("rep", 0), Unit("rsv", 0), Unit("atyp", Domain),
                          Unit("dlen", n)>>
                   t == Units("addr", n + 2)
        <4>1. n \in Nat /\ n + 2 \in Nat
          BY DialAssumption
        <4>2. t \in Seq(UnitSet) /\ Len(t) = n + 2
          BY <1>3, <4>1
        <4>3. /\ Unit("ver", 5) \in UnitSet /\ Unit("rep", 0) \in UnitSet /\ Unit("rsv", 0) \in UnitSet
              /\ Unit("atyp", Domain) \in UnitSet /\ Unit("atyp", Domain).v = Domain
              /\ Unit("dlen", n) \in UnitSet /\ Unit("dlen", n).v = n
          BY <1>2, <4>1 DEF Fields, Domain
        <4>4. h \in Seq(UnitSet) /\ Len(h) = 5 /\ h[4].v = Domain /\ h[5].v = n
          BY <4>3
        <4> HIDE DEF h, t
        <4>5. /\ h \o t \in Seq(UnitSet) /\ Len(h \o t) = 5 + (n + 2)
              /\ (h \o t)[4] = h[4] /\ (h \o t)[5] = h[5]
          <5>1. /\ h \o t \in Seq(UnitSet) /\ Len(h \o t) = Len(h) + Len(t)
                /\ \A i \in 1 .. Len(h) : (h \o t)[i] = h[i]
            BY <4>2, <4>4, Joined, Zenon
          <5> QED
            BY <4>1, <4>2, <4>4, <5>1
        <4>6. in' = h \o t
          BY <1>4, <3>2, <4>5, Zenon DEF h, t
        <4>7. in' \in Seq(UnitSet) /\ Len(in') = 3 + 4 + n /\ in'[4].v = Domain /\ in'[5].v = n
          BY <4>1, <4>4, <4>5, <4>6
        <4>8. Clean(in', 3 + 4 + n)
          BY <4>7, FieldsClean
        <4> QED
          BY <4>1, <4>7, <4>8 DEF AddrBehind
      <3> QED
        BY <2>1, <3>1, <3>2, Zenon DEF Serve, ServerSocks5, ServerOther
    <2> QED
      BY <1>1, <1>6, <2>2, FieldsClean DEF AnswerInv
  <1>7. CASE pc = "granted4"
    <2>1. out = "request" /\ kind = "socks4"
      BY <1>1, <1>7 DEF IInv, ControlInv, HandInv
    <2>2. PICK c \in {90, 91}, s \in {"granted", "refused"} :
             Answer(<<Unit("ver", 0), Unit("code", c)>> \o Units("ignored", 6), s)
      BY <2>1 DEF Serve, ServerSocks5, ServerOther, IsSocks5
    <2> DEFINE h == <<Unit("ver", 0), Unit("code", c)>>
               t == Units("ignored", 6)
    <2>3. t \in Seq(UnitSet) /\ Len(t) = 6
      BY <1>3, ZenonT(30)
    <2>4. Unit("ver", 0) \in UnitSet /\ Unit("code", c) \in UnitSet
      BY <1>2 DEF Fields
    <2>5. h \in Seq(UnitSet) /\ Len(h) = 2
      BY <2>4
    <2> HIDE DEF h, t
    <2>6. h \o t \in Seq(UnitSet) /\ Len(h \o t) = 8
      <3>0. h \in Seq(UnitSet) /\ t \in Seq(UnitSet)
        BY <2>3, <2>5
      <3>1. h \o t \in Seq(UnitSet) /\ Len(h \o t) = Len(h) + Len(t)
        BY <3>0, Joined, Zenon
      <3> QED
        BY <2>3, <2>5, <3>1
    <2>7. in' = h \o t
      BY <1>4, <2>2, <2>6, Zenon DEF h, t
    <2>8. in' \in Seq(AnyUnit) /\ Clean(in', 8)
      BY <2>6, <2>7, FieldsClean, ZenonT(30)
    <2> QED
      BY <1>1, <1>7, <2>8 DEF AnswerInv
  <1> QED
    BY <1>1, <1>5, <1>6, <1>7

\* Every step keeps it.
LEMMA AnswerInductive == IInv /\ AnswerInv /\ [Next]_vars => AnswerInv'
  <1> SUFFICES ASSUME IInv, AnswerInv, [Next]_vars PROVE AnswerInv'
    OBVIOUS
  <1>1. CASE DialStep
    BY <1>1, StartAnswer, ExchangeAnswer, ReplyAnswer, AddrAnswer, Socks4Answer, HTTPAnswer DEF DialStep
  <1>2. CASE Serve
    BY <1>2, ServeAnswer
  <1>3. CASE Watch \/ Close \/ ServerData \/ ServerClose
    BY <1>3, OtherAnswer
  <1>4. CASE UNCHANGED vars
    BY <1>4, IdleAnswer DEF vars, stream
  <1> QED
    BY <1>1, <1>2, <1>3, <1>4 DEF Next

\* No SOCKS handshake reads a unit of the data that the target sends behind the
\* server's answer, for any length of addresses and names: what ReadAddr and the
\* other readers take is exactly the answer.
THEOREM DialNothingSwallowed == Spec => []NothingSwallowed
  <1>1. Init => AnswerInv
    BY DEF Init, AnswerInv
  <1>2. AnswerInv => NothingSwallowed
    BY DEF AnswerInv, NothingSwallowed
  <1> QED
    BY <1>1, <1>2, InitInv, Inductive, AnswerInductive, PTL DEF Spec
=============================================================================
