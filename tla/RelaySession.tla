---------------------------- MODULE RelaySession ----------------------------
(***************************************************************************)
(* What a relay session promises the rest of the program, TCP or UDP: its  *)
(* two connections, and its entry in the statistic manager, follow one     *)
(* life cycle whoever closes it.  TcpRelay and UdpRelay implement this.    *)
(***************************************************************************)
VARIABLES
    phase,      \* "dial", "join", "relay", "closing", "over"
    listed,     \* the manager lists the session's tracker
    open        \* connections of the session that are open

vars == <<phase, listed, open>>

Init ==
    /\ phase = "dial"
    /\ listed = FALSE
    /\ open = {"origin"}

Dial ==
    /\ phase = "dial"
    /\ phase' = "join"
    /\ open' = {"origin", "remote"}
    /\ UNCHANGED listed

DialError ==
    /\ phase = "dial"
    /\ phase' = "closing"
    /\ UNCHANGED <<listed, open>>

Join ==
    /\ phase = "join"
    /\ phase' = "relay"
    /\ listed' = TRUE
    /\ UNCHANGED open

\* A REST request leaves the manager on the session's behalf ...
Unlist ==
    /\ phase = "relay"
    /\ listed' = FALSE
    /\ UNCHANGED <<phase, open>>

\* ... and only then may anybody close the remote connection.
CloseRemote ==
    /\ phase \in {"relay", "closing"}
    /\ ~listed
    /\ open' = open \ {"remote"}
    /\ UNCHANGED <<phase, listed>>

\* Both copies have ended; the handler leaves the manager.
Finish ==
    /\ phase = "relay"
    /\ phase' = "closing"
    /\ listed' = FALSE
    /\ UNCHANGED open

CloseOrigin ==
    /\ phase = "closing"
    /\ open = {"origin"}
    /\ phase' = "over"
    /\ open' = {}
    /\ UNCHANGED listed

Next ==
    \/ Dial \/ DialError \/ Join \/ Unlist
    \/ CloseRemote \/ Finish \/ CloseOrigin

Spec == Init /\ [][Next]_vars
=============================================================================
