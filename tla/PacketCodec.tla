---------------------------- MODULE PacketCodec -----------------------------
(***************************************************************************)
(* The packet connections of the SOCKS5 and shadowsocks proxies: SOCKS     *)
(* addresses, the SOCKS5 UDP header, shadowsocks packet encryption, and    *)
(* what ReadFrom leaves in the caller's buffer.  The buffer is one the     *)
(* relay reuses for every datagram of a session, so a datagram is read     *)
(* over the bytes of earlier ones.                                         *)
(***************************************************************************)
EXTENDS Integers, Sequences

CONSTANTS
    Kinds,          \* subset of {"socks5", "aead", "stream"}
    ByteSize,       \* number of values of a byte
    IPv4Len, IPv6Len, PortLen,   \* lengths of the parts of an address
    Overhead,       \* bytes of salt (or IV), and bytes of tag, of a packet
    Names, IPs, Ports, Payloads, \* byte strings senders use
    BufSize,        \* len(b) of ReadFrom
    MaxPackets      \* bound: datagrams received

IPv4 == 1
Domain == 3
IPv6 == 4

CodecAssumption ==
    /\ Kinds \subseteq {"socks5", "aead", "stream"}
    /\ {ByteSize, IPv4Len, IPv6Len, PortLen, BufSize} \subseteq Nat \ {0}
    /\ IPv4Len # IPv6Len /\ ByteSize > IPv6
    /\ Overhead \in Nat /\ MaxPackets \in Nat
    /\ UNION {Names, IPs, Ports, Payloads} \subseteq Seq(0 .. ByteSize - 1)
    /\ \A name \in Names : Len(name) < ByteSize
    /\ \A ip \in IPs : Len(ip) \in {IPv4Len, IPv6Len}
    /\ \A port \in Ports : Len(port) = PortLen

VARIABLES
    kind,
    b,          \* the caller's buffer
    last,       \* the last datagram on the wire, and what its sender meant
    res,        \* what ReadFrom returned: error or not, n, the source address
    packets     \* datagrams received

vars == <<kind, b, last, res, packets>>

Nil == <<>>
Zeros(n) == [i \in 1 .. n |-> 0]
From(s, i) == SubSeq(s, i, Len(s))
\* copy(dst, src)
Over(dst, src) == [i \in 1 .. Len(dst) |-> IF i <= Len(src) THEN src[i] ELSE dst[i]]

-----------------------------------------------------------------------------
\* Length of the address that starts with the bytes a.
AddrSize(a) ==
    CASE a[1] = Domain -> 1 + 1 + a[2] + PortLen
      [] a[1] = IPv4   -> 1 + IPv4Len + PortLen
      [] a[1] = IPv6   -> 1 + IPv6Len + PortLen

Typed(a) == Len(a) >= 2 /\ a[1] \in {IPv4, Domain, IPv6}

SplitAddr(s) == IF Typed(s) /\ Len(s) >= AddrSize(s) THEN SubSeq(s, 1, AddrSize(s)) ELSE Nil

\* An unknown type passes, as long as there are bytes enough for the smallest.
Valid(a) == Len(a) >= 1 + 1 + PortLen /\ (Typed(a) => Len(a) >= AddrSize(a))

\* A domain name has no UDPAddr.
UDPAddr(a) ==
    LET Split(ip) == <<SubSeq(a, 2, 1 + ip), SubSeq(a, 2 + ip, 1 + ip + PortLen)>> IN
    CASE ~Valid(a)                        -> Nil
      [] Valid(a) /\ a[1] = Domain        -> Nil
      [] Valid(a) /\ a[1] = IPv4          -> Split(IPv4Len)
      [] Valid(a) /\ a[1] = IPv6          -> Split(IPv6Len)
      [] Valid(a) /\ ~Typed(a)            -> <<<<>>, Zeros(PortLen)>>

\* The length of a name is cut to a byte.
SerializeAddr(name, ip, port) ==
    IF name # <<>> THEN <<Domain, Len(name) % ByteSize>> \o name \o port
    ELSE (IF Len(ip) = IPv4Len THEN <<IPv4>> ELSE <<IPv6>>) \o ip \o port

EncodeUDPPacket(addr, payload) == <<0, 0, 0>> \o addr \o payload

DecodeUDPPacket(p) ==
    LET addr == SplitAddr(From(p, 4)) IN
    IF Len(p) < 5 \/ p[1] # 0 \/ p[2] # 0 \/ p[3] # 0 \/ addr = Nil
    THEN [err |-> TRUE, addr |-> Nil, payload |-> <<>>]
    ELSE [err |-> FALSE, addr |-> addr, payload |-> From(p, 4 + Len(addr))]

-----------------------------------------------------------------------------
\* A packet on the wire.  A sealed one only opens when nothing is missing.
Salt == Zeros(Overhead)
Tag  == IF kind = "aead" THEN Zeros(Overhead) ELSE <<>>

Pack(plain) == IF kind = "socks5" THEN plain ELSE Salt \o plain \o Tag

\* Unpack(b[saltSize:], b[:n]): the plain bytes, deciphered where they are.
Unpack(buf, n, whole) ==
    LET end == n - Len(Tag) IN
    IF n < Overhead + Len(Tag) \/ (kind = "aead" /\ ~whole)
    THEN [err |-> TRUE, plain |-> <<>>]
    ELSE [err |-> FALSE, plain |-> SubSeq(buf, Overhead + 1, end)]

Failed == [err |-> TRUE, n |-> 0, from |-> Nil]

\* Mutant: the header is left in front of the payload.
Socks5ReadFromKeepsHeader(pkt, whole) ==
    LET buf == Over(b, pkt)
        dec == DecodeUDPPacket(buf) IN
    IF dec.err \/ UDPAddr(dec.addr) = Nil
    THEN res' = Failed /\ b' = buf
    ELSE /\ b' = buf
         /\ res' = [err |-> FALSE, n |-> Len(pkt) - Len(dec.addr), from |-> UDPAddr(dec.addr)]

\* socksPacketConn.ReadFrom: the whole buffer is decoded, whatever was received.
Socks5ReadFrom(pkt, whole) ==
    LET buf == Over(b, pkt)
        dec == DecodeUDPPacket(buf) IN
    IF dec.err \/ UDPAddr(dec.addr) = Nil
    THEN res' = Failed /\ b' = buf
    ELSE /\ b' = Over(buf, dec.payload)
         /\ res' = [err |-> FALSE, n |-> Len(pkt) - Len(dec.addr) - 3,
                    from |-> UDPAddr(dec.addr)]

\* PacketConn.ReadFrom of shadowaead and shadowstream, then ssPacketConn.ReadFrom.
ShadowsocksReadFrom(pkt, whole) ==
    LET buf   == Over(b, pkt)
        open  == Unpack(buf, Len(pkt), whole)
        plain == Over(buf, open.plain)
        addr  == SplitAddr(SubSeq(plain, 1, Len(open.plain))) IN
    IF open.err \/ UDPAddr(addr) = Nil
    THEN res' = Failed /\ b' = (IF open.err THEN buf ELSE plain)
    ELSE /\ b' = Over(plain, From(plain, Len(addr) + 1))
         /\ res' = [err |-> FALSE, n |-> Len(open.plain) - Len(addr), from |-> UDPAddr(addr)]

ReadFrom(pkt, whole) ==
    IF kind = "socks5" THEN Socks5ReadFrom(pkt, whole) ELSE ShadowsocksReadFrom(pkt, whole)

-----------------------------------------------------------------------------
\* What a sender puts on the wire: WriteTo of the two packet connections, and
\* the server's side of the same format.
WriteTo(addr, payload) ==
    LET packet == EncodeUDPPacket(addr, payload) IN
    Pack(IF kind = "socks5" THEN packet ELSE From(packet, 4))

Init ==
    /\ kind \in Kinds
    /\ b = Zeros(BufSize)
    /\ last = [addr |-> Nil, payload |-> <<>>, frag |-> 0, cut |-> 0, len |-> 0]
    /\ res = Failed /\ packets = 0

\* A datagram arrives, perhaps as one of several fragments, perhaps cut short,
\* and is read into the buffer.
Receive(name, ip, port, payload, frag, cut) ==
    LET addr == SerializeAddr(name, ip, port)
        full == WriteTo(addr, payload)
        pkt  == IF kind = "socks5" THEN [full EXCEPT ![3] = frag] ELSE full IN
    /\ packets < MaxPackets /\ packets' = packets + 1
    /\ cut <= Len(pkt) /\ Len(pkt) <= BufSize /\ (frag # 0 => kind = "socks5")
    /\ last' = [addr |-> addr, payload |-> payload, frag |-> frag, cut |-> cut,
                len |-> Len(pkt) - cut]
    /\ ReadFrom(SubSeq(pkt, 1, Len(pkt) - cut), cut = 0)
    /\ UNCHANGED kind

Next ==
    \E name \in Names, ip \in IPs, port \in Ports, payload \in Payloads, frag \in {0, 1},
       cut \in 0 .. BufSize : Receive(name, ip, port, payload, frag, cut)

Spec == Init /\ [][Next]_vars

-----------------------------------------------------------------------------

\* A whole, unfragmented datagram from an IP address is handed to the relay as
\* its sender meant it, whatever an earlier datagram left in the buffer; one
\* from a name, or a fragment, is an error.
WholeDatagramRead ==
    packets > 0 /\ last.cut = 0 =>
        IF last.frag # 0 \/ last.addr[1] = Domain THEN res.err
        ELSE /\ ~res.err /\ res.n = Len(last.payload)
             /\ SubSeq(b, 1, res.n) = last.payload
             /\ res.from = UDPAddr(last.addr)

\* Bytes of a datagram in front of its payload.
Front == (IF kind = "socks5" THEN 3 ELSE Len(Salt) + Len(Tag)) + Len(last.addr)

\* A shadowsocks datagram that ends inside its salt, tag or address is an error, not
\* an address and payload made up from what the buffer held before.
ShortSealedRefused == kind # "socks5" /\ packets > 0 /\ last.len < Front => res.err

\* DecodeUDPPacket refuses a SOCKS5 datagram that ends inside its header ("insufficient
\* length of packet", "socks5 UDP addr is nil").  ReadFrom gives it the whole buffer
\* and not the bytes received, so the header is completed from what the buffer held,
\* and n may be negative.
ShortSocksRefused == kind = "socks5" /\ packets > 0 /\ last.len < Front => res.err

\* Every address a sender can name comes back from the bytes it is sent as, with
\* anything behind it, and is one the rest of the code takes for valid.
AddressRoundTrip ==
    \A name \in Names, ip \in IPs, port \in Ports :
        LET a == SerializeAddr(name, ip, port) IN
        /\ SplitAddr(a \o b) = a /\ Valid(a)
        /\ name = <<>> => UDPAddr(a) = <<ip, port>>

\* In the three packet formats a datagram that arrives whole is read as it was sent, or
\* refused where the code cannot represent its sender; one cut short is refused in the
\* two shadowsocks formats, and never completed from the buffer.
DatagramsSurvive == WholeDatagramRead /\ ShortSealedRefused /\ AddressRoundTrip
=============================================================================
