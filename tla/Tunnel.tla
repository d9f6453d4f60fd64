------------------------------- MODULE Tunnel -------------------------------
(***************************************************************************)
(* The tunnel as a whole: the TCP and UDP forwarders of the stack hand new *)
(* connections over the two unbuffered queues to the process loop, which   *)
(* starts one session goroutine per connection; sessions dial through the  *)
(* proxy in force; a REST request closes every session it finds listed;    *)
(* ProcessAsync, Close and SetProxy may be called at any moment.           *)
(*                                                                         *)
(* What happens inside a session is TcpRelay's and UdpRelay's business:    *)
(* here a session is the life cycle RelaySession, one per connection.      *)
(***************************************************************************)
EXTENDS Integers, FiniteSets

CONSTANTS
    TCPConns, UDPConns, \* connections that clients of the TUN device open
    MaxConnAttempts,    \* slots of the TCP forwarder
    Proxies,            \* proxies SetProxy may install
    Responsive,         \* those whose dial always comes to an end
    MaxCalls            \* bound on the calls of ProcessAsync

Conns == TCPConns \cup UDPConns
Calls == 1..MaxCalls
Idle  == "idle"         \* the dispatch goroutine is in no HandleUDP
Nop   == 0              \* procCancel before ProcessAsync has run

ASSUME TunnelAssumption ==
    /\ TCPConns \cap UDPConns = {}
    /\ Idle \notin Conns
    /\ MaxConnAttempts \in Nat \ {0}
    /\ Responsive \subseteq Proxies
    /\ MaxCalls \in Nat

VARIABLES
    st,         \* progress of a connection, from its first packet to its end
    inFlight,   \* TCP forwarder: requests that are not complete
    dispatch,   \* the connection whose HandleUDP holds the dispatch goroutine
    calls,      \* calls of ProcessAsync so far
    loop,       \* process goroutine started by a call of ProcessAsync
    procOnce,   \* the Once is used up
    procCancel, \* the loop whose context Close cancels, or Nop
    ctxDone,    \* loops whose context is cancelled
    proxy,      \* Tunnel.proxy
    via,        \* the proxy a session dials through
    listed,     \* sessions whose tracker the manager holds
    shut,       \* sessions whose remote connection is closed
    todo,       \* REST: trackers of the snapshot still to be closed
    closing     \* REST: of these, the ones that have left the manager

forward == <<inFlight, dispatch>>
process == <<calls, loop, procOnce, procCancel, ctxDone>>
session == <<via, listed, shut>>
restapi == <<todo, closing>>
vars == <<st, forward, process, proxy, session, restapi>>

Init ==
    /\ st = [c \in Conns |-> "new"]
    /\ inFlight = {}
    /\ dispatch = Idle
    /\ calls = 0
    /\ loop = [i \in Calls |-> "off"]
    /\ procOnce = FALSE
    /\ procCancel = Nop
    /\ ctxDone = {}
    /\ proxy \in Proxies
    /\ via \in [Conns -> {proxy}]
    /\ listed = {}
    /\ shut = {}
    /\ todo = {}
    /\ closing = {}

Move(c, from, to) == st[c] = from /\ st' = [st EXCEPT ![c] = to]

-----------------------------------------------------------------------------
(* Forwarders.  Packets reach them on the one dispatch goroutine: the TCP    *)
(* forwarder starts a goroutine per request, the UDP forwarder does not.     *)

\* A SYN beyond the limit is ignored; the client retransmits it.
Syn(c) ==
    /\ dispatch = Idle
    /\ Cardinality(inFlight) < MaxConnAttempts
    /\ Move(c, "new", "handshake")
    /\ inFlight' = inFlight \cup {c}
    /\ UNCHANGED <<dispatch, process, proxy, session, restapi>>

\* CreateEndpoint failed: r.Complete(true).
HandshakeFail(c) ==
    /\ Move(c, "handshake", "new")
    /\ inFlight' = inFlight \ {c}
    /\ UNCHANGED <<dispatch, process, proxy, session, restapi>>

\* CreateEndpoint succeeded; whatever setSocketOptions answers, HandleTCP is
\* called and blocks on the queue.
HandshakeOk(c) ==
    /\ Move(c, "handshake", "offered")
    /\ UNCHANGED <<forward, process, proxy, session, restapi>>

\* Mutant: the request is completed when its session ends.
CompleteAtEnd(c) ==
    /\ c \in inFlight
    /\ st[c] = "over"
    /\ inFlight' = inFlight \ {c}
    /\ UNCHANGED <<st, dispatch, process, proxy, session, restapi>>

\* HandleTCP has returned: the deferred r.Complete(false).
Complete(c) ==
    /\ c \in inFlight
    /\ st[c] \notin {"new", "handshake", "offered"}
    /\ inFlight' = inFlight \ {c}
    /\ UNCHANGED <<st, dispatch, process, proxy, session, restapi>>

\* The first datagram of a UDP connection: HandleUDP blocks on the queue.  (When
\* CreateEndpoint fails the datagram is dropped and nothing changes.)
Datagram(c) ==
    /\ dispatch = Idle
    /\ Move(c, "new", "offered")
    /\ dispatch' = c
    /\ UNCHANGED <<inFlight, process, proxy, session, restapi>>

DispatchReturns ==
    /\ dispatch # Idle
    /\ st[dispatch] # "offered"
    /\ dispatch' = Idle
    /\ UNCHANGED <<st, inFlight, process, proxy, session, restapi>>

-----------------------------------------------------------------------------
(* Tunnel: ProcessAsync, Close, SetProxy and the process loop.               *)

\* Mutant: without the Once.
ProcessEveryTime ==
    /\ calls < MaxCalls
    /\ calls' = calls + 1
    /\ procOnce' = TRUE
    /\ procCancel' = calls'
    /\ loop' = [loop EXCEPT ![calls'] = "select"]
    /\ UNCHANGED <<st, forward, ctxDone, proxy, session, restapi>>

ProcessAsync ==
    /\ calls < MaxCalls
    /\ calls' = calls + 1
    /\ IF procOnce
          THEN UNCHANGED <<loop, procOnce, procCancel>>
          ELSE /\ procOnce' = TRUE
               /\ procCancel' = calls'
               /\ loop' = [loop EXCEPT ![calls'] = "select"]
    /\ UNCHANGED <<st, forward, ctxDone, proxy, session, restapi>>

\* Before ProcessAsync has run procCancel is a nop.
CloseTunnel ==
    /\ ctxDone' = ctxDone \cup ({procCancel} \ {Nop})
    /\ UNCHANGED <<st, forward, calls, loop, procOnce, procCancel, proxy, session, restapi>>

SetProxy(p) ==
    /\ proxy' = p
    /\ UNCHANGED <<st, forward, process, session, restapi>>

\* Mutant: the loop runs the session itself instead of starting a goroutine.
ReceiveInline(i, c) ==
    /\ loop[i] = "select"
    /\ \A x \in Conns : st[x] \in {"new", "handshake", "offered", "over"}
    /\ Move(c, "offered", "start")
    /\ UNCHANGED <<forward, process, proxy, session, restapi>>

\* conn := <-queue, then go handle(conn).  With its context cancelled and a
\* connection waiting, select may still choose either.
Receive(i, c) ==
    /\ loop[i] = "select"
    /\ Move(c, "offered", "start")
    /\ UNCHANGED <<forward, process, proxy, session, restapi>>

LoopExit(i) ==
    /\ loop[i] = "select"
    /\ i \in ctxDone
    /\ loop' = [loop EXCEPT ![i] = "exited"]
    /\ UNCHANGED <<st, forward, calls, procOnce, procCancel, ctxDone, proxy, session, restapi>>

-----------------------------------------------------------------------------
(* Sessions: handleTCPConn and handleUDPConn, without their inside.          *)

\* t.Proxy() is read by the session, not by the loop that started it.
BeginDial(c) ==
    /\ Move(c, "start", "dial")
    /\ via' = [via EXCEPT ![c] = proxy]
    /\ UNCHANGED <<forward, process, proxy, listed, shut, restapi>>

DialOk(c) ==
    /\ Move(c, "dial", "join")
    /\ UNCHANGED <<forward, process, proxy, session, restapi>>

DialError(c) ==
    /\ Move(c, "dial", "closing")
    /\ shut' = shut \cup {c}
    /\ UNCHANGED <<forward, process, proxy, via, listed, restapi>>

Join(c) ==
    /\ Move(c, "join", "relay")
    /\ listed' = listed \cup {c}
    /\ UNCHANGED <<forward, process, proxy, via, shut, restapi>>

\* Both copies have ended; the tracker leaves the manager.
Finish(c) ==
    /\ Move(c, "relay", "closing")
    /\ listed' = listed \ {c}
    /\ UNCHANGED <<forward, process, proxy, via, shut, restapi>>

CloseRemote(c) ==
    /\ st[c] = "closing"
    /\ c \notin shut
    /\ shut' = shut \cup {c}
    /\ UNCHANGED <<st, forward, process, proxy, via, listed, restapi>>

CloseOrigin(c) ==
    /\ c \in shut
    /\ Move(c, "closing", "over")
    /\ UNCHANGED <<forward, process, proxy, session, restapi>>

-----------------------------------------------------------------------------
(* DELETE /connections: a snapshot, then Close of each tracker in it.        *)

RestSnapshot ==
    /\ todo = {} /\ listed # {}
    /\ todo' = listed
    /\ UNCHANGED <<st, forward, process, proxy, session, closing>>

\* Mutant: Close without Leave.
RestKeepsListed(c) ==
    /\ c \in todo /\ closing = {}
    /\ closing' = {c}
    /\ UNCHANGED <<st, forward, process, proxy, session, todo>>

RestLeave(c) ==
    /\ c \in todo /\ closing = {}
    /\ closing' = {c}
    /\ listed' = listed \ {c}
    /\ UNCHANGED <<st, forward, process, proxy, via, shut, todo>>

\* Mutant: the break of closeConnection, in the loop over all connections.
RestCloseFirst(c) ==
    /\ c \in closing
    /\ closing' = {}
    /\ todo' = {}
    /\ shut' = shut \cup {c}
    /\ UNCHANGED <<st, forward, process, proxy, via, listed>>

RestClose(c) ==
    /\ c \in closing
    /\ closing' = {}
    /\ todo' = todo \ {c}
    /\ shut' = shut \cup {c}
    /\ UNCHANGED <<st, forward, process, proxy, via, listed>>

-----------------------------------------------------------------------------
TCPForward(c) == HandshakeFail(c) \/ HandshakeOk(c) \/ Complete(c)
DialReturns(c) == DialOk(c) \/ DialError(c)
Handler(c) == BeginDial(c) \/ Join(c) \/ CloseRemote(c) \/ CloseOrigin(c)
Rest == \E c \in Conns : RestLeave(c) \/ RestClose(c)

Next ==
    \/ \E c \in TCPConns : Syn(c) \/ TCPForward(c)
    \/ \E c \in UDPConns : Datagram(c)
    \/ DispatchReturns
    \/ ProcessAsync \/ CloseTunnel
    \/ \E p \in Proxies : SetProxy(p)
    \/ \E i \in Calls : LoopExit(i) \/ \E c \in Conns : Receive(i, c)
    \/ \E c \in Conns : DialReturns(c) \/ Finish(c) \/ Handler(c)
    \/ RestSnapshot \/ Rest

Spec == Init /\ [][Next]_vars

\* Runnable goroutines run.  A channel queues its blocked senders in order and
\* select chooses fairly, so every offered connection is received while a loop
\* runs.  The package's init calls ProcessAsync.  A handshake ends, one way or
\* the other, by gVisor's retransmission limit.  A dial through a proxy that is
\* not responsive may never return, and a session may last for ever unless its
\* remote connection has been closed.
Fairness ==
    /\ \A c \in TCPConns : WF_vars(HandshakeFail(c) \/ HandshakeOk(c)) /\ WF_vars(Complete(c))
    /\ WF_vars(DispatchReturns)
    /\ WF_vars(ProcessAsync)
    /\ \A i \in Calls : WF_vars(LoopExit(i))
    /\ \A c \in Conns : \A i \in Calls : WF_vars(Receive(i, c))
    /\ \A c \in Conns :
        /\ WF_vars(Handler(c))
        /\ WF_vars(via[c] \in Responsive /\ DialReturns(c))
        /\ WF_vars(c \in shut /\ Finish(c))
    /\ WF_vars(Rest)

FairSpec == Spec /\ Fairness

-----------------------------------------------------------------------------
(* Properties. *)

ConnStates == {"new", "handshake", "offered", "start", "dial", "join", "relay", "closing", "over"}

\* Type invariant.  The forwarder never exceeds its limit, and only sessions that
\* relay are listed.
TypeOK ==
    /\ st \in [Conns -> ConnStates]
    /\ inFlight \subseteq TCPConns /\ Cardinality(inFlight) <= MaxConnAttempts
    /\ dispatch \in UDPConns \cup {Idle}
    /\ calls \in 0..MaxCalls
    /\ loop \in [Calls -> {"off", "select", "exited"}]
    /\ procOnce \in BOOLEAN
    /\ procCancel \in Calls \cup {Nop}
    /\ ctxDone \subseteq Calls
    /\ proxy \in Proxies /\ via \in [Conns -> Proxies]
    /\ listed \subseteq {c \in Conns : st[c] = "relay"}
    /\ shut \subseteq Conns /\ todo \subseteq Conns /\ closing \subseteq todo

\* A UDP connection waits for the loop only in the dispatch goroutine and a TCP
\* connection only in its forwarder's slot: at most one datagram, and at most
\* maxConnAttempts connections, are ever held back; and a session that has
\* started waits for neither.
HeldBack ==
    \A c \in Conns : st[c] = "offered" => IF c \in UDPConns THEN dispatch = c ELSE c \in inFlight

\* Each session of the tunnel follows the life cycle that TcpRelay and UdpRelay
\* implement, whatever the other sessions and REST requests do.
Phase(c) ==
    CASE st[c] \in {"new", "handshake", "offered", "start", "dial"} -> "dial"
      [] st[c] \in {"join", "relay", "closing", "over"} -> st[c]
Open(c) ==
    CASE st[c] \in {"join", "relay", "closing"} -> {"origin"} \cup (IF c \in shut THEN {} ELSE {"remote"})
      [] st[c] = "over" -> {}
      [] OTHER -> {"origin"}
Session(c) == INSTANCE RelaySession
                WITH phase <- Phase(c), listed <- (c \in listed), open <- Open(c)
SessionInits == \A c \in Conns : Session(c)!Init
SessionSteps == \A c \in Conns : Session(c)!Next \/ UNCHANGED Session(c)!vars
SessionSpecs == SessionInits /\ [][SessionSteps]_vars

\* Close stops the intake: when the context is cancelled no loop goes on
\* receiving, however often ProcessAsync was called.
CloseStopsIntake == (ctxDone # {}) ~> (\A i \in Calls : loop[i] # "select")

\* A hand-over ends: a TCP request gives its slot back and HandleUDP releases
\* the dispatch goroutine, even if no session ever ends and no dial returns,
\* unless the tunnel was closed.
HandOverReturns ==
    /\ \A c \in TCPConns : (c \in inFlight) ~> (c \notin inFlight \/ ctxDone # {})
    /\ (dispatch # Idle) ~> (dispatch = Idle \/ ctxDone # {})

\* Sessions do not wait for each other: a connection offered while a responsive
\* proxy is in force is served, though others hang in a dial or never end.
GoodProxyServes ==
    \A c \in Conns : (st[c] = "offered" /\ proxy \in Responsive) ~>
        (st[c] \in {"relay", "closing", "over"} \/ proxy \notin Responsive \/ ctxDone # {})

\* DELETE /connections ends every session it found listed, not only the first.
CloseAllCloses == \A c \in Conns : (c \in todo) ~> (st[c] = "over")

\* Close releases what the tunnel was given: no connection handed to it is left
\* waiting for ever.
CloseReleases == \A c \in Conns : (st[c] = "offered" /\ ctxDone # {}) ~> (st[c] # "offered")
=============================================================================
