----------------------------- MODULE MCProxies ------------------------------
(***************************************************************************)
(* The proxies' protocols, for TLC: setting up a connection (ProxyDial),   *)
(* the connection through a gost relay (RelayConn, as GostRelay) and the   *)
(* datagrams of the SOCKS5 and shadowsocks proxies (PacketCodec, as        *)
(* Datagrams).  A behaviour is that of one of them, `part'; the other two  *)
(* stay as they started.                                                   *)
(***************************************************************************)
EXTENDS ProxyDial, GostRelay, Datagrams

VARIABLE part

all == <<part, vars, relay, codec>>

MCAllKinds == TCPKinds \cup UDPKinds
MCAddrLen == [a \in {IPv4, IPv6} |-> IF a = IPv4 THEN 1 ELSE 2]
MCModes == [udp : BOOLEAN, noDelay : BOOLEAN]

\* The bytes 1, 3 and 4 are also address types, 0 also a header byte.
MCNames == {<<>>, <<4>>, <<1, 0>>}
MCIPs == {<<3>>, <<1, 4>>}
MCPorts == {<<1>>}
MCPayloads == {<<>>, <<5>>, <<0, 1>>}

MCInit ==
    /\ part \in {"dial", "relay", "codec"}
    /\ Init /\ Relay!Init /\ Codec!Init
    /\ part # "dial"  => kind = "direct" /\ user = "none"
    /\ part # "relay" => mode = [udp |-> FALSE, noDelay |-> FALSE]
    /\ part # "codec" => format = "socks5"

InDial  == part = "dial" /\ UNCHANGED <<part, relay, codec>>
InRelay == part = "relay" /\ UNCHANGED <<part, vars, codec>>
InCodec == part = "codec" /\ UNCHANGED <<part, vars, relay>>

MCNext ==
    \/ InDial /\ Next
    \/ InRelay /\ Relay!Next
    \/ InCodec /\ Codec!Next

\* A goroutine that can go on does; a server answers or closes the connection,
\* and the relay's copy loop keeps reading.
MCFairness ==
    /\ WF_all(InDial /\ DialStep) /\ WF_all(InDial /\ Watch) /\ WF_all(InDial /\ Serve)
    /\ WF_all(InRelay /\ Relay!Dials)
    /\ WF_all(InRelay /\ Relay!Answers)
    /\ WF_all(InRelay /\ Relay!Reads)

MCSpec == MCInit /\ [][MCNext]_all /\ MCFairness
=============================================================================
