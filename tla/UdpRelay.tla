------------------------------ MODULE UdpRelay ------------------------------
(***************************************************************************)
(* One UDP session of the tunnel: handleUDPConn, the two packet copies of  *)
(* pipePacket with their read deadlines, the symmetric NAT filter on the   *)
(* remote side, and REST clients closing the tracker.                      *)
(*                                                                         *)
(* Datagrams are numbered by their sender; Foreign is a datagram from any  *)
(* address other than the session's destination.  Deadlines count down in  *)
(* ticks.  "quiet" is a history variable: ticks since a datagram was last  *)
(* forwarded in either direction and the opposite deadline extended.       *)
(***************************************************************************)
EXTENDS Integers, Sequences

CONSTANTS
    MaxSent,        \* [Dir -> Nat]: genuine datagrams sent in a direction
    QueueCap,       \* receive queue of a socket; beyond it datagrams are lost
    Timeouts,       \* values of Tunnel.udpTimeout, in ticks
    Clients         \* concurrent DELETE /connections requests

Dir == {"up", "down"}
End == {"origin", "remote"}

ASSUME UdpAssumption ==
    /\ MaxSent \in [Dir -> Nat]
    /\ QueueCap \in Nat
    /\ Timeouts \subseteq Nat \ {0}

VARIABLES
    hpc,        \* program counter of handleUDPConn
    pc,         \* program counter of copyPacketData, per direction
    udpTimeout, \* Tunnel.udpTimeout, changed by SetUDPTimeout
    timeout,    \* the session's timeout argument
    kind,       \* NoConn, "proxied", or "reject"
    sent,       \* datagrams sent so far in a direction
    queue,      \* received, not yet read, per connection
    buf,        \* the datagram a copy has read
    last,       \* the last datagram a copy has forwarded
    timer,      \* ticks until the read deadline of a connection
    quiet,
    closed, pooled, listed, rest

world == <<udpTimeout, sent, queue>>
vars  == <<hpc, pc, timeout, kind, buf, last, timer, quiet, closed, pooled, listed, rest, world>>

NoConn     == "none"
NoDeadline == -1
Foreign    == 0

Src(d)   == IF d = "up" THEN "origin" ELSE "remote"
Dst(d)   == IF d = "up" THEN "remote" ELSE "origin"

Init ==
    /\ hpc = "dial"
    /\ pc = [d \in Dir |-> "off"]
    /\ udpTimeout \in Timeouts
    /\ timeout = 0
    /\ kind = NoConn
    /\ sent = [d \in Dir |-> 0]
    /\ queue = [e \in End |-> <<>>]
    /\ buf = [d \in Dir |-> Foreign]
    /\ last = [d \in Dir |-> 0]
    /\ timer = [e \in End |-> NoDeadline]
    /\ quiet = 0
    /\ closed = [e \in End |-> FALSE]
    /\ pooled = [d \in Dir |-> TRUE]
    /\ listed = FALSE
    /\ rest = [c \in Clients |-> "idle"]

-----------------------------------------------------------------------------
(* The handler. *)

DialUDP(k) ==
    /\ hpc = "dial"
    /\ hpc' = "join"
    /\ kind' = k
    /\ UNCHANGED <<pc, timeout, buf, last, timer, quiet, closed, pooled, listed, rest, world>>

Close(e) == closed' = [closed EXCEPT ![e] = TRUE]

\* Mutant: the error branch closes the origin itself, and the deferred call again.
DialErrorClosesTwice ==
    /\ hpc = "dial"
    /\ hpc' = "closeOrigin"
    /\ Close("origin")
    /\ UNCHANGED <<pc, timeout, kind, buf, last, timer, quiet, pooled, listed, rest, world>>

DialError ==
    /\ hpc = "dial"
    /\ hpc' = "closeOrigin"
    /\ UNCHANGED <<pc, timeout, kind, buf, last, timer, quiet, closed, pooled, listed, rest, world>>

\* NewUDPTracker joins the manager.
Join ==
    /\ hpc = "join"
    /\ hpc' = "pipe"
    /\ listed' = TRUE
    /\ UNCHANGED <<pc, timeout, kind, buf, last, timer, quiet, closed, pooled, rest, world>>

\* pipePacket(uc, pc, remote, t.udpTimeout.Load()): each copy starts by taking
\* a buffer from the pool.
Pipe ==
    /\ hpc = "pipe"
    /\ hpc' = "wait"
    /\ timeout' = udpTimeout
    /\ pc' = [d \in Dir |-> "arm"]
    /\ pooled' = [d \in Dir |-> FALSE]
    /\ UNCHANGED <<kind, buf, last, timer, quiet, closed, listed, rest, world>>

Wait ==
    /\ hpc = "wait"
    /\ \A d \in Dir : pc[d] = "done"
    /\ hpc' = "leave"
    /\ UNCHANGED <<pc, timeout, kind, buf, last, timer, quiet, closed, pooled, listed, rest, world>>

Leave ==
    /\ hpc = "leave"
    /\ hpc' = "closeRemote"
    /\ listed' = FALSE
    /\ UNCHANGED <<pc, timeout, kind, buf, last, timer, quiet, closed, pooled, rest, world>>

CloseRemote ==
    /\ hpc = "closeRemote"
    /\ hpc' = "closeOrigin"
    /\ Close("remote")
    /\ UNCHANGED <<pc, timeout, kind, buf, last, timer, quiet, pooled, listed, rest, world>>

CloseOrigin ==
    /\ hpc = "closeOrigin"
    /\ hpc' = "done"
    /\ Close("origin")
    /\ UNCHANGED <<pc, timeout, kind, buf, last, timer, quiet, pooled, listed, rest, world>>

Handler == Join \/ Pipe \/ Wait \/ Leave \/ CloseRemote \/ CloseOrigin

-----------------------------------------------------------------------------
(* copyPacketData: arm own deadline, read, write, extend the other's. *)

\* A deadline set on a closed connection, or on the reject proxy's, has no effect.
Armed(e) ==
    IF closed[e] \/ (e = "remote" /\ kind = "reject") THEN timer
    ELSE [timer EXCEPT ![e] = timeout]

Arm(d) ==
    /\ pc[d] = "arm"
    /\ pc' = [pc EXCEPT ![d] = "read"]
    /\ timer' = Armed(Src(d))
    /\ UNCHANGED <<hpc, timeout, kind, buf, last, quiet, closed, pooled, listed, rest, world>>

\* The reader of an expired or closed connection gets no data, queued or not.
Readable(d) == ~closed[Src(d)] /\ timer[Src(d)] # 0 /\ queue[Src(d)] # <<>>

Dequeue(e) == queue' = [queue EXCEPT ![e] = Tail(@)]

\* Mutant: the symmetric NAT filter is not applied.
ReadDatagramUnfiltered(d) ==
    /\ pc[d] = "read"
    /\ Readable(d)
    /\ pc' = [pc EXCEPT ![d] = "write"]
    /\ buf' = [buf EXCEPT ![d] = Head(queue[Src(d)])]
    /\ Dequeue(Src(d))
    /\ UNCHANGED <<hpc, timeout, kind, last, timer, quiet, closed, pooled, listed, rest,
                   udpTimeout, sent>>

ReadDatagram(d) ==
    /\ pc[d] = "read"
    /\ Readable(d)
    /\ d = "down" => Head(queue["remote"]) # Foreign
    /\ pc' = [pc EXCEPT ![d] = "write"]
    /\ buf' = [buf EXCEPT ![d] = Head(queue[Src(d)])]
    /\ Dequeue(Src(d))
    /\ UNCHANGED <<hpc, timeout, kind, last, timer, quiet, closed, pooled, listed, rest,
                   udpTimeout, sent>>

\* Mutant: a dropped datagram re-arms the deadline.
DropForeignRearms ==
    /\ pc["down"] = "read"
    /\ Readable("down")
    /\ Head(queue["remote"]) = Foreign
    /\ Dequeue("remote")
    /\ timer' = Armed("remote")
    /\ UNCHANGED <<hpc, pc, timeout, kind, buf, last, quiet, closed, pooled, listed,
                   rest, udpTimeout, sent>>

\* symmetricNATPacketConn.ReadFrom drops a foreign datagram and reads on under
\* the same deadline.
DropForeign ==
    /\ pc["down"] = "read"
    /\ Readable("down")
    /\ Head(queue["remote"]) = Foreign
    /\ Dequeue("remote")
    /\ UNCHANGED <<hpc, pc, timeout, kind, buf, last, timer, quiet, closed, pooled, listed,
                   rest, udpTimeout, sent>>

EndCopy(d) ==
    /\ pc' = [pc EXCEPT ![d] = "done"]
    /\ pooled' = [pooled EXCEPT ![d] = TRUE]
    /\ UNCHANGED <<hpc, timeout, kind, buf, last, timer, quiet, closed, listed, rest, world>>

\* os.ErrDeadlineExceeded, swallowed.
ReadTimeout(d) == pc[d] = "read" /\ timer[Src(d)] = 0 /\ EndCopy(d)

\* Closed under the reader, or io.EOF, which the reject proxy answers at once.
ReadClosed(d) ==
    /\ pc[d] = "read"
    /\ closed[Src(d)] \/ (d = "down" /\ kind = "reject")
    /\ EndCopy(d)

\* Any other error, of the socket or of decoding one datagram: a single failed
\* ReadFrom ends the direction.
ReadError(d) == pc[d] = "read" /\ EndCopy(d)

WriteDatagram(d) ==
    /\ pc[d] = "write"
    /\ ~closed[Dst(d)]
    /\ pc' = [pc EXCEPT ![d] = "extend"]
    /\ last' = [last EXCEPT ![d] = buf[d]]
    /\ UNCHANGED <<hpc, timeout, kind, buf, timer, quiet, closed, pooled, listed, rest, world>>

WriteClosed(d) == pc[d] = "write" /\ closed[Dst(d)] /\ EndCopy(d)

\* Likewise a single failed WriteTo.
WriteError(d) == pc[d] = "write" /\ EndCopy(d)

\* Mutant: only the copy's own direction is kept alive.
ExtendOwnOnly(d) ==
    /\ pc[d] = "extend"
    /\ pc' = [pc EXCEPT ![d] = "arm"]
    /\ timer' = Armed(Src(d))
    /\ quiet' = 0
    /\ UNCHANGED <<hpc, timeout, kind, buf, last, closed, pooled, listed, rest, world>>

Extend(d) ==
    /\ pc[d] = "extend"
    /\ pc' = [pc EXCEPT ![d] = "arm"]
    /\ timer' = Armed(Dst(d))
    /\ quiet' = 0
    /\ UNCHANGED <<hpc, timeout, kind, buf, last, closed, pooled, listed, rest, world>>

-----------------------------------------------------------------------------
(* REST: the snapshot, then udpTracker.Close. *)

RestSnapshot(c) ==
    /\ rest[c] = "idle"
    /\ listed
    /\ rest' = [rest EXCEPT ![c] = "leave"]
    /\ UNCHANGED <<hpc, pc, timeout, kind, buf, last, timer, quiet, closed, pooled, listed, world>>

RestLeave(c) ==
    /\ rest[c] = "leave"
    /\ rest' = [rest EXCEPT ![c] = "close"]
    /\ listed' = FALSE
    /\ UNCHANGED <<hpc, pc, timeout, kind, buf, last, timer, quiet, closed, pooled, world>>

RestClose(c) ==
    /\ rest[c] = "close"
    /\ rest' = [rest EXCEPT ![c] = "idle"]
    /\ Close("remote")
    /\ UNCHANGED <<hpc, pc, timeout, kind, buf, last, timer, quiet, pooled, listed, world>>

-----------------------------------------------------------------------------
(* The outside: senders, configuration, time. *)

Receive(e, g) ==
    /\ ~closed[e]
    /\ e = "remote" => kind = "proxied"
    /\ Len(queue[e]) < QueueCap
    /\ queue' = [queue EXCEPT ![e] = Append(@, g)]

Send(d) ==
    /\ sent[d] < MaxSent[d]
    /\ sent' = [sent EXCEPT ![d] = @ + 1]
    /\ Receive(Src(d), sent'[d])
    /\ UNCHANGED <<hpc, pc, timeout, kind, buf, last, timer, quiet, closed, pooled, listed,
                   rest, udpTimeout>>

\* Unlimited: anybody may send to the port the remote socket is bound to.
SendForeign ==
    /\ Receive("remote", Foreign)
    /\ UNCHANGED <<hpc, pc, timeout, kind, buf, last, timer, quiet, closed, pooled, listed,
                   rest, udpTimeout, sent>>

SetUDPTimeout(t) ==
    /\ udpTimeout' = t
    /\ UNCHANGED <<hpc, pc, timeout, kind, buf, last, timer, quiet, closed, pooled, listed,
                   rest, sent, queue>>

Tick ==
    /\ \E e \in End : timer[e] > 0
    /\ timer' = [e \in End |-> IF timer[e] > 0 THEN timer[e] - 1 ELSE timer[e]]
    /\ quiet' = IF quiet < timeout THEN quiet + 1 ELSE quiet
    /\ UNCHANGED <<hpc, pc, timeout, kind, buf, last, closed, pooled, listed, rest, world>>

Ended == hpc = "done" /\ UNCHANGED vars

Copy(d) ==
    \/ Arm(d) \/ ReadDatagram(d) \/ (d = "down" /\ DropForeign)
    \/ ReadTimeout(d) \/ ReadClosed(d)
    \/ WriteDatagram(d) \/ WriteClosed(d) \/ Extend(d)

Next ==
    \/ \E k \in {"proxied", "reject"} : DialUDP(k)
    \/ DialError
    \/ Handler
    \/ \E d \in Dir : Copy(d) \/ ReadError(d) \/ WriteError(d) \/ Send(d)
    \/ \E c \in Clients : RestSnapshot(c) \/ RestLeave(c) \/ RestClose(c)
    \/ SendForeign
    \/ \E t \in Timeouts : SetUDPTimeout(t)
    \/ Tick
    \/ Ended

Spec == Init /\ [][Next]_vars

\* Runnable goroutines run and timers advance.  Nothing obliges anybody to send,
\* or to stop sending foreign datagrams.
Fairness ==
    /\ WF_vars(Handler)
    /\ \A d \in Dir : WF_vars(Copy(d))
    /\ \A c \in Clients : WF_vars(RestLeave(c) \/ RestClose(c))
    /\ WF_vars(Tick)

FairSpec == Spec /\ Fairness

-----------------------------------------------------------------------------
(* Properties. *)

HandlerStates == {"dial", "join", "pipe", "wait", "leave", "closeRemote", "closeOrigin", "done"}
CopyStates == {"off", "arm", "read", "write", "extend", "done"}

\* Type invariant.  No deadline lies further ahead than the timeout the session
\* started with, whatever SetUDPTimeout does meanwhile.
TypeOK ==
    /\ hpc \in HandlerStates
    /\ pc \in [Dir -> CopyStates]
    /\ udpTimeout \in Timeouts
    /\ timeout \in Timeouts \cup {0}
    /\ kind \in {NoConn, "proxied", "reject"}
    /\ sent \in [Dir -> Nat]
    /\ queue \in [End -> Seq(Nat)]
    /\ buf \in [Dir -> Nat] /\ last \in [Dir -> Nat]
    /\ timer \in [End -> {NoDeadline} \cup 0..timeout]
    /\ quiet \in 0..timeout
    /\ closed \in [End -> BOOLEAN]
    /\ pooled \in [Dir -> BOOLEAN]
    /\ listed \in BOOLEAN
    /\ rest \in [Clients -> {"idle", "leave", "close"}]

\* When handleUDPConn returns, nothing of the session is left: both connections
\* are closed, both copies have ended and returned their buffers, and the
\* manager does not list the tracker, whatever REST requests did meanwhile.
NoLeak ==
    hpc = "done" =>
        /\ closed["origin"]
        /\ kind # NoConn => closed["remote"]
        /\ \A d \in Dir : pc[d] \in {"off", "done"} /\ pooled[d]
        /\ ~listed

\* A direction can run into its deadline only when for a whole session timeout
\* no datagram was forwarded either way: traffic in one direction alone keeps
\* both directions alive (the SetReadDeadline on dst in copyPacketData).
CutOnlyWhenIdle ==
    \A d \in Dir :
        pc[d] = "read" /\ timer[Src(d)] = 0 /\ ~closed[Src(d)] => quiet = timeout

\* What a copy is about to write is newer than everything it has written: each
\* datagram is forwarded at most once, in the order received, and nothing from
\* a foreign address reaches the origin.
ForwardInOrder == \A d \in Dir : pc[d] = "write" => buf[d] > last[d]

\* The session ends once the two ends fall silent, even while foreign datagrams
\* keep arriving: the symmetric NAT filter drops them without touching the
\* deadline.
SilenceEndsSession == (hpc = "wait") ~> (hpc = "done")

\* The life cycle RelaySession promises, read off this module's state: a session
\* is listed only while both connections are open, is unlisted before anybody
\* closes the remote one, and the origin is closed last.
Phase ==
    CASE hpc \in {"dial", "join"} -> hpc
      [] hpc \in {"pipe", "wait", "leave"} -> "relay"
      [] hpc \in {"closeRemote", "closeOrigin"} -> "closing"
      [] hpc = "done" -> "over"
Open == {e \in End : ~closed[e] /\ (e = "remote" => kind # NoConn)}
Session == INSTANCE RelaySession WITH phase <- Phase, listed <- listed, open <- Open
SessionSpec == Session!Spec
=============================================================================
