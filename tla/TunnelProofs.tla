---------------------------- MODULE TunnelProofs ----------------------------
(***************************************************************************)
(* Proofs about Tunnel for any number of connections, of forwarder slots,  *)
(* of proxies and of calls of ProcessAsync.                                *)
(***************************************************************************)
EXTENDS Tunnel, FiniteSetTheorems, TLAPS

Joined == {"relay", "closing", "over"}

\* Only sessions that joined the manager can be in a snapshot or shut, what a
\* request is closing has left the manager, and what is over is shut.
LifeInv ==
    /\ \A c \in todo \cup shut : st[c] \in Joined
    /\ closing \cap listed = {}
    /\ \A c \in Conns : st[c] = "over" => c \in shut

\* A handshake, too, occupies a slot; finitely many are occupied.
SlotInv ==
    /\ IsFiniteSet(inFlight)
    /\ \A c \in TCPConns : st[c] = "handshake" => c \in inFlight

IInv == TypeOK /\ HeldBack /\ LifeInv /\ SlotInv

-----------------------------------------------------------------------------
\* The initial state satisfies the inductive invariant.
LEMMA InitInv == Init => IInv
<1> SUFFICES ASSUME Init PROVE IInv
  OBVIOUS
<1> USE TunnelAssumption DEF Init
<1>1. TypeOK
  <2>1. Cardinality(inFlight) <= MaxConnAttempts /\ inFlight \subseteq TCPConns
    BY FS_EmptySet
  <2>2. via \in [Conns -> Proxies] /\ st \in [Conns -> ConnStates]
    BY DEF ConnStates
  <2>3. calls \in 0..MaxCalls /\ loop \in [Calls -> {"off", "select", "exited"}]
    BY DEF Calls
  <2> QED
    BY <2>1, <2>2, <2>3, Zenon DEF TypeOK
<1>2. HeldBack /\ LifeInv
  BY DEF HeldBack, LifeInv
<1>3. SlotInv
  BY FS_EmptySet, Zenon DEF SlotInv, Conns
<1> QED
  BY <1>1, <1>2, <1>3 DEF IInv

\* Every step preserves the inductive invariant.
LEMMA StepInv == IInv /\ [Next]_vars => IInv'
<1> SUFFICES ASSUME IInv, [Next]_vars PROVE IInv'
  OBVIOUS
<1> USE TunnelAssumption DEF Move, forward, process, session, restapi
<1>1. ASSUME NEW c \in TCPConns, Syn(c) PROVE IInv'
  <2> USE <1>1 DEF Syn, IInv
  <2>6. IsFiniteSet(inFlight)
    BY DEF SlotInv
  <2>7. Cardinality(inFlight) \in Nat
    BY <2>6, FS_CardinalityType
  <2>8. /\ IsFiniteSet(inFlight \cup {c})
        /\ Cardinality(inFlight \cup {c}) =
             IF c \in inFlight THEN Cardinality(inFlight) ELSE Cardinality(inFlight) + 1
    BY <2>6, FS_AddElement, Zenon
  <2>4. IsFiniteSet(inFlight') /\ Cardinality(inFlight') <= MaxConnAttempts
    BY <2>7, <2>8 DEF TypeOK
  <2>1. TypeOK'
    BY <2>4 DEF TypeOK, ConnStates, Conns, Calls
  <2>2. HeldBack'
    BY DEF TypeOK, HeldBack, SlotInv, Conns
  <2>3. LifeInv'
    BY DEF TypeOK, LifeInv, Joined, Conns
  <2>5. SlotInv'
    BY <2>4 DEF TypeOK, SlotInv, Conns
  <2> QED
    BY <2>1, <2>2, <2>3, <2>5
<1>2. ASSUME NEW c \in TCPConns, HandshakeFail(c) PROVE IInv'
  <2> USE <1>2 DEF HandshakeFail, IInv
  <2>6. IsFiniteSet(inFlight)
    BY DEF SlotInv
  <2>7. Cardinality(inFlight) \in Nat
    BY <2>6, FS_CardinalityType
  <2>8. /\ IsFiniteSet(inFlight \ {c})
        /\ Cardinality(inFlight \ {c}) =
             IF c \in inFlight THEN Cardinality(inFlight) - 1 ELSE Cardinality(inFlight)
    BY <2>6, FS_RemoveElement, Zenon
  <2>4. IsFiniteSet(inFlight') /\ Cardinality(inFlight') <= MaxConnAttempts
    BY <2>7, <2>8 DEF TypeOK
  <2>1. TypeOK'
    BY <2>4 DEF TypeOK, ConnStates, Conns, Calls
  <2>2. HeldBack'
    BY DEF TypeOK, HeldBack, SlotInv, Conns
  <2>3. LifeInv'
    BY DEF TypeOK, LifeInv, Joined, Conns
  <2>5. SlotInv'
    BY <2>4 DEF TypeOK, SlotInv, Conns
  <2> QED
    BY <2>1, <2>2, <2>3, <2>5
<1>3. ASSUME NEW c \in TCPConns, HandshakeOk(c) PROVE IInv'
  <2> USE <1>3 DEF HandshakeOk, IInv
  <2>1. TypeOK'
    BY DEF TypeOK, ConnStates, Conns, Calls
  <2>2. HeldBack'
    BY DEF TypeOK, HeldBack, SlotInv, Conns
  <2>3. LifeInv'
    BY DEF TypeOK, LifeInv, Joined, Conns
  <2>5. SlotInv'
    BY DEF TypeOK, SlotInv, Conns
  <2> QED
    BY <2>1, <2>2, <2>3, <2>5
<1>4. ASSUME NEW c \in TCPConns, Complete(c) PROVE IInv'
  <2> USE <1>4 DEF Complete, IInv
  <2>6. IsFiniteSet(inFlight)
    BY DEF SlotInv
  <2>7. Cardinality(inFlight) \in Nat
    BY <2>6, FS_CardinalityType
  <2>8. /\ IsFiniteSet(inFlight \ {c})
        /\ Cardinality(inFlight \ {c}) =
             IF c \in inFlight THEN Cardinality(inFlight) - 1 ELSE Cardinality(inFlight)
    BY <2>6, FS_RemoveElement, Zenon
  <2>4. IsFiniteSet(inFlight') /\ Cardinality(inFlight') <= MaxConnAttempts
    BY <2>7, <2>8 DEF TypeOK
  <2>1. TypeOK'
    BY <2>4 DEF TypeOK, ConnStates, Conns, Calls
  <2>2. HeldBack'
    BY DEF TypeOK, HeldBack, SlotInv, Conns
  <2>3. LifeInv'
    BY DEF TypeOK, LifeInv, Joined, Conns
  <2>5. SlotInv'
    BY <2>4 DEF TypeOK, SlotInv, Conns
  <2> QED
    BY <2>1, <2>2, <2>3, <2>5
<1>5. ASSUME NEW c \in UDPConns, Datagram(c) PROVE IInv'
  <2> USE <1>5 DEF Datagram, IInv
  <2>1. TypeOK'
    BY DEF TypeOK, ConnStates, Conns, Calls
  <2>2. HeldBack'
    BY DEF TypeOK, HeldBack, SlotInv, Conns
  <2>3. LifeInv'
    BY DEF TypeOK, LifeInv, Joined, Conns
  <2>5. SlotInv'
    BY DEF TypeOK, SlotInv, Conns
  <2> QED
    BY <2>1, <2>2, <2>3, <2>5
<1>6. CASE DispatchReturns
  <2> USE <1>6 DEF DispatchReturns, IInv
  <2>1. TypeOK'
    BY DEF TypeOK, ConnStates, Conns, Calls
  <2>2. HeldBack'
    BY DEF TypeOK, HeldBack, SlotInv, Conns
  <2>3. LifeInv'
    BY DEF TypeOK, LifeInv, Joined, Conns
  <2>5. SlotInv'
    BY DEF TypeOK, SlotInv, Conns
  <2> QED
    BY <2>1, <2>2, <2>3, <2>5
<1>7. CASE ProcessAsync
  <2> USE <1>7 DEF ProcessAsync, IInv
  <2>4. calls' \in Calls /\ calls' \in 0..MaxCalls
    BY DEF TypeOK, Calls
  <2>1. TypeOK'
    BY <2>4, Zenon DEF TypeOK, ConnStates, Conns, Calls
  <2>2. HeldBack'
    BY DEF TypeOK, HeldBack, SlotInv, Conns
  <2>3. LifeInv'
    BY DEF TypeOK, LifeInv, Joined, Conns
  <2>5. SlotInv'
    BY DEF TypeOK, SlotInv, Conns
  <2> QED
    BY <2>1, <2>2, <2>3, <2>5
<1>8. CASE CloseTunnel
  <2> USE <1>8 DEF CloseTunnel, IInv
  <2>1. TypeOK'
    BY Zenon DEF TypeOK, ConnStates, Conns, Calls
  <2>2. HeldBack'
    BY DEF TypeOK, HeldBack, SlotInv, Conns
  <2>3. LifeInv'
    BY DEF TypeOK, LifeInv, Joined, Conns
  <2>5. SlotInv'
    BY DEF TypeOK, SlotInv, Conns
  <2> QED
    BY <2>1, <2>2, <2>3, <2>5
<1>9. ASSUME NEW p \in Proxies, SetProxy(p) PROVE IInv'
  <2> USE <1>9 DEF SetProxy, IInv
  <2>1. TypeOK'
    BY DEF TypeOK, ConnStates, Conns, Calls
  <2>2. HeldBack'
    BY DEF TypeOK, HeldBack, SlotInv, Conns
  <2>3. LifeInv'
    BY DEF TypeOK, LifeInv, Joined, Conns
  <2>5. SlotInv'
    BY DEF TypeOK, SlotInv, Conns
  <2> QED
    BY <2>1, <2>2, <2>3, <2>5
<1>10. ASSUME NEW i \in Calls, LoopExit(i) PROVE IInv'
  <2> USE <1>10 DEF LoopExit, IInv
  <2>1. TypeOK'
    BY DEF TypeOK, ConnStates, Conns, Calls
  <2>2. HeldBack'
    BY DEF TypeOK, HeldBack, SlotInv, Conns
  <2>3. LifeInv'
    BY DEF TypeOK, LifeInv, Joined, Conns
  <2>5. SlotInv'
    BY DEF TypeOK, SlotInv, Conns
  <2> QED
    BY <2>1, <2>2, <2>3, <2>5
<1>11. ASSUME NEW i \in Calls, NEW c \in Conns, Receive(i, c) PROVE IInv'
  <2> USE <1>11 DEF Receive, IInv
  <2>1. TypeOK'
    BY DEF TypeOK, ConnStates, Conns, Calls
  <2>2. HeldBack'
    BY DEF TypeOK, HeldBack, SlotInv, Conns
  <2>3. LifeInv'
    BY DEF TypeOK, LifeInv, Joined, Conns
  <2>5. SlotInv'
    BY DEF TypeOK, SlotInv, Conns
  <2> QED
    BY <2>1, <2>2, <2>3, <2>5
<1>12. ASSUME NEW c \in Conns, BeginDial(c) PROVE IInv'
  <2> USE <1>12 DEF BeginDial, IInv
  <2>1. TypeOK'
    BY DEF TypeOK, ConnStates, Conns, Calls
  <2>2. HeldBack'
    BY DEF TypeOK, HeldBack, SlotInv, Conns
  <2>3. LifeInv'
    BY DEF TypeOK, LifeInv, Joined, Conns
  <2>5. SlotInv'
    BY DEF TypeOK, SlotInv, Conns
  <2> QED
    BY <2>1, <2>2, <2>3, <2>5
<1>13. ASSUME NEW c \in Conns, DialOk(c) PROVE IInv'
  <2> USE <1>13 DEF DialOk, IInv
  <2>1. TypeOK'
    BY DEF TypeOK, ConnStates, Conns, Calls
  <2>2. HeldBack'
    BY DEF TypeOK, HeldBack, SlotInv, Conns
  <2>3. LifeInv'
    BY DEF TypeOK, LifeInv, Joined, Conns
  <2>5. SlotInv'
    BY DEF TypeOK, SlotInv, Conns
  <2> QED
    BY <2>1, <2>2, <2>3, <2>5
<1>14. ASSUME NEW c \in Conns, DialError(c) PROVE IInv'
  <2> USE <1>14 DEF DialError, IInv
  <2>1. TypeOK'
    BY DEF TypeOK, ConnStates, Conns, Calls
  <2>2. HeldBack'
    BY DEF TypeOK, HeldBack, SlotInv, Conns
  <2>3. LifeInv'
    BY DEF TypeOK, LifeInv, Joined, Conns
  <2>5. SlotInv'
    BY DEF TypeOK, SlotInv, Conns
  <2> QED
    BY <2>1, <2>2, <2>3, <2>5
<1>15. ASSUME NEW c \in Conns, Join(c) PROVE IInv'
  <2> USE <1>15 DEF Join, IInv
  <2>1. TypeOK'
    BY DEF TypeOK, ConnStates, Conns, Calls
  <2>2. HeldBack'
    BY DEF TypeOK, HeldBack, SlotInv, Conns
  <2>3. LifeInv'
    BY DEF TypeOK, LifeInv, Joined, Conns
  <2>5. SlotInv'
    BY DEF TypeOK, SlotInv, Conns
  <2> QED
    BY <2>1, <2>2, <2>3, <2>5
<1>16. ASSUME NEW c \in Conns, Finish(c) PROVE IInv'
  <2> USE <1>16 DEF Finish, IInv
  <2>1. TypeOK'
    BY DEF TypeOK, ConnStates, Conns, Calls
  <2>2. HeldBack'
    BY DEF TypeOK, HeldBack, SlotInv, Conns
  <2>3. LifeInv'
    BY DEF TypeOK, LifeInv, Joined, Conns
  <2>5. SlotInv'
    BY DEF TypeOK, SlotInv, Conns
  <2> QED
    BY <2>1, <2>2, <2>3, <2>5
<1>17. ASSUME NEW c \in Conns, CloseRemote(c) PROVE IInv'
  <2> USE <1>17 DEF CloseRemote, IInv
  <2>1. TypeOK'
    BY DEF TypeOK, ConnStates, Conns, Calls
  <2>2. HeldBack'
    BY DEF TypeOK, HeldBack, SlotInv, Conns
  <2>3. LifeInv'
    BY DEF TypeOK, LifeInv, Joined, Conns
  <2>5. SlotInv'
    BY DEF TypeOK, SlotInv, Conns
  <2> QED
    BY <2>1, <2>2, <2>3, <2>5
<1>18. ASSUME NEW c \in Conns, CloseOrigin(c) PROVE IInv'
  <2> USE <1>18 DEF CloseOrigin, IInv
  <2>1. TypeOK'
    BY DEF TypeOK, ConnStates, Conns, Calls
  <2>2. HeldBack'
    BY DEF TypeOK, HeldBack, SlotInv, Conns
  <2>3. LifeInv'
    BY DEF TypeOK, LifeInv, Joined, Conns
  <2>5. SlotInv'
    BY DEF TypeOK, SlotInv, Conns
  <2> QED
    BY <2>1, <2>2, <2>3, <2>5
<1>19. CASE RestSnapshot
  <2> USE <1>19 DEF RestSnapshot, IInv
  <2>1. TypeOK'
    BY DEF TypeOK, ConnStates, Conns, Calls
  <2>2. HeldBack'
    BY DEF TypeOK, HeldBack, SlotInv, Conns
  <2>3. LifeInv'
    BY DEF TypeOK, LifeInv, Joined, Conns
  <2>5. SlotInv'
    BY DEF TypeOK, SlotInv, Conns
  <2> QED
    BY <2>1, <2>2, <2>3, <2>5
<1>20. ASSUME NEW c \in Conns, RestLeave(c) PROVE IInv'
  <2> USE <1>20 DEF RestLeave, IInv
  <2>1. TypeOK'
    BY DEF TypeOK, ConnStates, Conns, Calls
  <2>2. HeldBack'
    BY DEF TypeOK, HeldBack, SlotInv, Conns
  <2>3. LifeInv'
    BY DEF TypeOK, LifeInv, Joined, Conns
  <2>5. SlotInv'
    BY DEF TypeOK, SlotInv, Conns
  <2> QED
    BY <2>1, <2>2, <2>3, <2>5
<1>21. ASSUME NEW c \in Conns, RestClose(c) PROVE IInv'
  <2> USE <1>21 DEF RestClose, IInv
  <2>1. TypeOK'
    BY DEF TypeOK, ConnStates, Conns, Calls
  <2>2. HeldBack'
    BY DEF TypeOK, HeldBack, SlotInv, Conns
  <2>3. LifeInv'
    BY DEF TypeOK, LifeInv, Joined, Conns
  <2>5. SlotInv'
    BY DEF TypeOK, SlotInv, Conns
  <2> QED
    BY <2>1, <2>2, <2>3, <2>5
<1>22. CASE UNCHANGED vars
  BY <1>22 DEF vars, IInv, TypeOK, HeldBack, LifeInv, SlotInv
<1> QED
  BY <1>1, <1>2, <1>3, <1>4, <1>5, <1>6, <1>7, <1>8, <1>9, <1>10, <1>11, <1>12, <1>13, <1>14, <1>15, <1>16, <1>17, <1>18, <1>19, <1>20, <1>21, <1>22
     DEF Next, TCPForward, DialReturns, Handler, Rest

\* The inductive invariant holds throughout.
LEMMA Invariance == Spec => []IInv
  BY InitInv, StepInv, PTL DEF Spec

\* Type correctness, with the bound on the TCP forwarder's slots.
THEOREM TypeCorrect == Spec => []TypeOK
<1>1. IInv => TypeOK
  BY DEF IInv
<1> QED
  BY <1>1, Invariance, PTL

\* What waits for the process loop holds the dispatch goroutine or a slot.
THEOREM TunnelHeldBack == Spec => []HeldBack
<1>1. IInv => HeldBack
  BY DEF IInv
<1> QED
  BY <1>1, Invariance, PTL

\* Every session of a tunnel with any number of connections follows RelaySession.
THEOREM TunnelSessions == Spec => SessionSpecs
<1>1. Init => SessionInits
  BY DEF SessionInits, Init, Session!Init, Phase, Open
<1>2. IInv /\ [Next]_vars => [SessionSteps]_vars
  <2> SUFFICES ASSUME IInv, Next, NEW x \in Conns
               PROVE Session(x)!Next \/ UNCHANGED Session(x)!vars
    BY DEF SessionSteps
  <2> USE DEF Move, forward, process, session, restapi, Session!Next, Session!vars, Phase, Open
  <2>0. /\ st \in [Conns -> ConnStates] /\ LifeInv
        /\ (\A c \in listed : st[c] = "relay") /\ closing \subseteq todo
    BY DEF IInv, TypeOK
  <2>1. ASSUME NEW c \in Conns, DialOk(c) PROVE Session(x)!Next \/ UNCHANGED Session(x)!vars
    BY <2>0, <2>1 DEF DialOk, Session!Dial, LifeInv, Joined, ConnStates
  <2>2. ASSUME NEW c \in Conns, DialError(c) PROVE Session(x)!Next \/ UNCHANGED Session(x)!vars
    BY <2>0, <2>2 DEF DialError, Session!DialError, LifeInv, Joined, ConnStates
  <2>3. ASSUME NEW c \in Conns, Join(c) PROVE Session(x)!Next \/ UNCHANGED Session(x)!vars
    BY <2>0, <2>3 DEF Join, Session!Join, LifeInv, Joined, ConnStates
  <2>4. ASSUME NEW c \in Conns, Finish(c) PROVE Session(x)!Next \/ UNCHANGED Session(x)!vars
    BY <2>0, <2>4 DEF Finish, Session!Finish, LifeInv, Joined, ConnStates
  <2>5. ASSUME NEW c \in Conns, CloseRemote(c) PROVE Session(x)!Next \/ UNCHANGED Session(x)!vars
    BY <2>0, <2>5 DEF CloseRemote, Session!CloseRemote, LifeInv, Joined, ConnStates
  <2>6. ASSUME NEW c \in Conns, CloseOrigin(c) PROVE Session(x)!Next \/ UNCHANGED Session(x)!vars
    BY <2>0, <2>6 DEF CloseOrigin, Session!CloseOrigin, LifeInv, Joined, ConnStates
  <2>7. ASSUME NEW c \in Conns, RestLeave(c) PROVE Session(x)!Next \/ UNCHANGED Session(x)!vars
    BY <2>0, <2>7 DEF RestLeave, Session!Unlist, LifeInv, Joined, ConnStates
  <2>8. ASSUME NEW c \in Conns, RestClose(c) PROVE Session(x)!Next \/ UNCHANGED Session(x)!vars
    BY <2>0, <2>8 DEF RestClose, Session!CloseRemote, LifeInv, Joined, ConnStates
  <2>9. CASE UNCHANGED <<listed, shut>> /\ (st' = st \/ \E c \in Conns, s \in {"new", "handshake", "offered", "start", "dial"} :
                              st[c] \in {"new", "handshake", "offered", "start"} /\ st' = [st EXCEPT ![c] = s])
    BY <2>0, <2>9 DEF ConnStates
  <2> QED
    BY <2>1, <2>2, <2>3, <2>4, <2>5, <2>6, <2>7, <2>8, <2>9, Zenon DEF Next, TCPForward, DialReturns, Handler, Rest, Conns, Syn,
       HandshakeFail, HandshakeOk, Complete, Datagram, DispatchReturns, ProcessAsync,
       CloseTunnel, SetProxy, LoopExit, Receive, BeginDial, RestSnapshot
<1> QED
  BY <1>1, <1>2, Invariance, PTL DEF Spec, SessionSpecs
=============================================================================
