----------------------------- MODULE Datagrams ------------------------------
(***************************************************************************)
(* PacketCodec under names of its own, so that it can stand beside the     *)
(* other components: the datagrams of the SOCKS5 and shadowsocks proxies.  *)
(***************************************************************************)
CONSTANTS
    Formats, ByteSize, IPv4Len, IPv6Len, PortLen, Overhead,
    Names, IPs, Ports, Payloads, BufSize, MaxPackets

VARIABLES format, buffer, arrived, res, packets

codec == <<format, buffer, arrived, res, packets>>

Codec == INSTANCE PacketCodec
             WITH Kinds <- Formats, kind <- format, b <- buffer, last <- arrived

ASSUME DatagramsAssumption == Codec!CodecAssumption

\* ReadFrom of the three packet connections returns a whole datagram as it was sent,
\* and refuses a shadowsocks datagram cut short.
DatagramsSurvive == Codec!DatagramsSurvive

\* socksPacketConn.ReadFrom refuses a datagram cut short in its header.
ShortSocksRefused == Codec!ShortSocksRefused
=============================================================================
