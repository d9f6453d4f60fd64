----------------------------- MODULE MCUdpRelay -----------------------------
(* Instances of UdpRelay for TLC. *)
EXTENDS UdpRelay

\* Two genuine datagrams each way, so that one can refresh the other's deadline.
MCMaxSent == [d \in Dir |-> 2]
=============================================================================
