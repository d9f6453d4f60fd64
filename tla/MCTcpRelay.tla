----------------------------- MODULE MCTcpRelay -----------------------------
(* Instances of TcpRelay for TLC. *)
EXTENDS TcpRelay

\* Two bytes one way, so that a Read may return either or both; one the other.
MCMaxSent == [d \in Dir |-> IF d = "up" THEN 2 ELSE 1]
MCOneByte == [d \in Dir |-> 1]
=============================================================================
