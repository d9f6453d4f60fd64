------------------------------ MODULE MCStack -------------------------------
(***************************************************************************)
(* Stack for TLC.  Neither half looks into the other's state, so a         *)
(* behaviour moves one of them, `part'.                                    *)
(***************************************************************************)
EXTENDS Stack

VARIABLE part

all == <<part, vars, netstack>>

Packet(net, proto, dst, type) == [net |-> net, proto |-> proto, dst |-> dst, type |-> type]

MCPackets ==
    { Packet("ipv4", "tcp", "unicast", ""), Packet("ipv4", "udp", "unicast", ""),
      Packet("ipv4", "udp", "multicast", ""), Packet("ipv4", "udp", "broadcast", ""),
      Packet("ipv4", "icmp", "unicast", "echo"), Packet("ipv4", "icmp", "multicast", "echo"),
      Packet("ipv4", "icmp", "broadcast", "echo"), Packet("ipv4", "icmp", "unicast", "other"),
      Packet("ipv6", "udp", "unicast", ""), Packet("ipv6", "icmp", "unicast", "echo") }

Opt(name, value) == [name |-> name, value |-> value]

\* Sizes 0 and 4 are out of range; an option may be given twice.
MCOptions ==
    { <<>>, <<Opt("sndbuf", 1)>>, <<Opt("moderate", TRUE), Opt("rcvbuf", 3)>>,
      <<Opt("sndbuf", 3), Opt("sndbuf", 1)>>, <<Opt("sndbuf", 0)>>, <<Opt("rcvbuf", 4)>> }

MCConfigs ==
    { [options |-> o, groups |-> g, custom |-> c] :
        o \in MCOptions, g \in {{}, {"224.0.0.1"}}, c \in {"nil", "handles", "passes"} }

\* Nothing, a packet, a packet of exactly the MTU and one byte more.
MCSizes == {0, 1, 2, 3}

MCInit ==
    /\ part \in {"link", "net"} /\ Init /\ Net!Init
    /\ part # "net" => cfg = [options |-> <<>>, groups |-> {}, custom |-> "nil"]

InLink == part = "link" /\ UNCHANGED <<part, netstack>>
InNet  == part = "net" /\ UNCHANGED <<part, vars>>

MCNext ==
    \/ InLink /\ Next
    \/ InNet /\ Net!Next

\* A goroutine that can run does, and a select that can take a branch again and
\* again takes it some time.  A device delivers packets when it likes.
MCFairness ==
    /\ WF_all(InLink /\ Inbound) /\ WF_all(InLink /\ ReadError) /\ WF_all(InLink /\ DispatchDone)
    /\ WF_all(InLink /\ OutboundLoop) /\ SF_all(InLink /\ OutboundEnd)
    /\ WF_all(InLink /\ CloseQueue) /\ WF_all(InLink /\ WaitReturns)

MCSpec == MCInit /\ [][MCNext]_all /\ MCFairness
=============================================================================
