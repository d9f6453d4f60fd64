------------------------------ MODULE TcpRelay ------------------------------
(***************************************************************************)
(* One TCP session of the tunnel: the goroutine handleTCPConn, the two     *)
(* copy goroutines of pipe, the statistic tracker around the remote        *)
(* connection, and REST clients that close the tracker at any moment.      *)
(*                                                                         *)
(* Direction "up" copies origin -> remote, "down" copies remote -> origin. *)
(* A byte is identified by its offset in its stream, so a stream is three  *)
(* counters: bytes the source peer has sent, bytes the copy loop has read, *)
(* bytes the destination connection has accepted.                          *)
(*                                                                         *)
(* The two connections are external (gVisor's gonet.TCPConn, and whatever  *)
(* the proxy returned); they are modelled by what the relay can observe    *)
(* of them: data, EOF, error, read deadline, half-close, full send window. *)
(***************************************************************************)
EXTENDS Integers

CONSTANTS
    MaxSent,        \* [Dir -> Nat]: bytes the source peer of a direction may send
    Window,         \* bytes a peer leaves unread before a Write to it blocks
    WaitTimeout,    \* tcpWaitTimeout, in ticks
    RemoteKinds,    \* kinds of connection DialContext may return
    Clients         \* concurrent DELETE /connections requests

Dir  == {"up", "down"}
End  == {"origin", "remote"}
Kind == {"tcp", "wrapped", "ssh", "reject"}
NoConn == "none"    \* before a successful dial there is no remote connection

ASSUME RelayAssumption ==
    /\ MaxSent \in [Dir -> Nat]
    /\ Window \in Nat \ {0}
    /\ WaitTimeout \in Nat \ {0}
    /\ RemoteKinds \subseteq Kind

VARIABLES
    hpc,        \* program counter of handleTCPConn
    pc,         \* program counter of unidirectionalStream, per direction
    kind,       \* kind of the dialled remote connection
    result,     \* error the last Read of a direction returned with its data
    sent, taken, given, drained,   \* offsets of a direction's stream
    eof,        \* the source peer has closed its sending side
    broken,     \* the connection was reset, or failed, at its far end
    readShut, writeShut, closed,   \* what the relay did to a connection
    timer,      \* ticks until the read deadline of a connection
    pooled,     \* per direction: its relay buffer is back in the pool
    listed,     \* Manager.connections holds the tracker
    rest        \* per client: progress of its tracker.Close()

stream == <<sent, taken, given, drained>>
conns  == <<kind, eof, broken, readShut, writeShut, closed, timer>>
vars   == <<hpc, pc, result, stream, conns, pooled, listed, rest>>

NoDeadline == -1

Src(d)   == IF d = "up" THEN "origin" ELSE "remote"
Dst(d)   == IF d = "up" THEN "remote" ELSE "origin"

\* Whether CloseRead / CloseWrite of a connection reach the network: gonet's
\* TCPConn and *net.TCPConn have them; wrappers that embed net.Conn do not.
HalfCloses(e) == e = "origin" \/ kind = "tcp"

\* Whether SetReadDeadline has an effect: an SSH channel answers it with an
\* error, the connection of the reject proxy ignores it.
HasDeadline(e) == e = "origin" \/ kind \in {"tcp", "wrapped"}

-----------------------------------------------------------------------------
Init ==
    /\ hpc = "dial"
    /\ pc = [d \in Dir |-> "off"]
    /\ kind = NoConn
    /\ result = [d \in Dir |-> "nil"]
    /\ sent = [d \in Dir |-> 0]
    /\ taken = [d \in Dir |-> 0]
    /\ given = [d \in Dir |-> 0]
    /\ drained = [d \in Dir |-> 0]
    /\ eof = [d \in Dir |-> FALSE]
    /\ broken = [e \in End |-> FALSE]
    /\ readShut = [e \in End |-> FALSE]
    /\ writeShut = [e \in End |-> FALSE]
    /\ closed = [e \in End |-> FALSE]
    /\ timer = [e \in End |-> NoDeadline]
    /\ pooled = [d \in Dir |-> TRUE]
    /\ listed = FALSE
    /\ rest = [c \in Clients |-> "idle"]

-----------------------------------------------------------------------------
(* The handler.  Deferred calls run in reverse order: tracker, then origin. *)

DialOk(k) ==
    /\ hpc = "dial"
    /\ hpc' = "join"
    /\ kind' = k
    /\ eof' = [eof EXCEPT !["down"] = (k = "reject")]
    /\ UNCHANGED <<pc, result, stream, broken, readShut, writeShut, closed,
                   timer, pooled, listed, rest>>

Close(e) == closed' = [closed EXCEPT ![e] = TRUE]

\* Mutant: the error branch closes the origin itself, and the deferred call again.
DialErrorClosesTwice ==
    /\ hpc = "dial"
    /\ hpc' = "closeOrigin"
    /\ Close("origin")
    /\ UNCHANGED <<pc, kind, result, stream, eof, broken, readShut, writeShut,
                   timer, pooled, listed, rest>>

DialError ==
    /\ hpc = "dial"
    /\ hpc' = "closeOrigin"
    /\ UNCHANGED <<pc, result, stream, conns, pooled, listed, rest>>

\* NewTCPTracker: the tracker joins the manager before the copies start.
Join ==
    /\ hpc = "join"
    /\ hpc' = "pipe"
    /\ listed' = TRUE
    /\ UNCHANGED <<pc, result, stream, conns, pooled, rest>>

Pipe ==
    /\ hpc = "pipe"
    /\ hpc' = "wait"
    /\ pc' = [d \in Dir |-> "get"]
    /\ UNCHANGED <<result, stream, conns, pooled, listed, rest>>

\* Mutant: wg.Add(1), the handler does not wait for the second copy.
WaitForOne ==
    /\ hpc = "wait"
    /\ \E d \in Dir : pc[d] = "done"
    /\ hpc' = "leave"
    /\ UNCHANGED <<pc, result, stream, conns, pooled, listed, rest>>

Wait ==
    /\ hpc = "wait"
    /\ \A d \in Dir : pc[d] = "done"
    /\ hpc' = "leave"
    /\ UNCHANGED <<pc, result, stream, conns, pooled, listed, rest>>

\* tcpTracker.Close is Leave, then Close of the connection inside.
Leave ==
    /\ hpc = "leave"
    /\ hpc' = "closeRemote"
    /\ listed' = FALSE
    /\ UNCHANGED <<pc, result, stream, conns, pooled, rest>>

CloseRemote ==
    /\ hpc = "closeRemote"
    /\ hpc' = "closeOrigin"
    /\ Close("remote")
    /\ UNCHANGED <<pc, kind, result, stream, eof, broken, readShut, writeShut,
                   timer, pooled, listed, rest>>

CloseOrigin ==
    /\ hpc = "closeOrigin"
    /\ hpc' = "done"
    /\ Close("origin")
    /\ UNCHANGED <<pc, kind, result, stream, eof, broken, readShut, writeShut,
                   timer, pooled, listed, rest>>

Handler == Join \/ Pipe \/ Wait \/ Leave \/ CloseRemote \/ CloseOrigin

-----------------------------------------------------------------------------
(* One copy goroutine: io.CopyBuffer's read/write loop, then the half-close. *)

GetBuffer(d) ==
    /\ pc[d] = "get"
    /\ pc' = [pc EXCEPT ![d] = "read"]
    /\ pooled' = [pooled EXCEPT ![d] = FALSE]
    /\ UNCHANGED <<hpc, result, stream, conns, listed, rest>>

Readable(d) == ~closed[Src(d)] /\ timer[Src(d)] # 0

\* Mutant: the error is looked at before the data that came with it.
ReadDataDropsTail(d) ==
    /\ pc[d] = "read"
    /\ Readable(d)
    /\ taken[d] < sent[d]
    /\ taken' = [taken EXCEPT ![d] = sent[d]]
    /\ result' = [result EXCEPT ![d] = IF eof[d] THEN "eof" ELSE "nil"]
    /\ pc' = [pc EXCEPT ![d] = IF eof[d] THEN "closeRead" ELSE "write"]
    /\ pooled' = [pooled EXCEPT ![d] = eof[d]]
    /\ UNCHANGED <<hpc, sent, given, drained, conns, listed, rest>>

\* Read returned n > 0 bytes, possibly together with io.EOF.
ReadData(d) ==
    /\ pc[d] = "read"
    /\ Readable(d)
    /\ \E n \in 1..(sent[d] - taken[d]) :
        /\ taken' = [taken EXCEPT ![d] = @ + n]
        /\ \/ result' = [result EXCEPT ![d] = "nil"]
           \/ /\ eof[d] /\ taken'[d] = sent[d]
              /\ result' = [result EXCEPT ![d] = "eof"]
    /\ pc' = [pc EXCEPT ![d] = "write"]
    /\ UNCHANGED <<hpc, sent, given, drained, conns, pooled, listed, rest>>

\* The copy is over: CopyBuffer returns and the buffer goes back.
EndCopy(d) ==
    /\ pc' = [pc EXCEPT ![d] = "closeRead"]
    /\ pooled' = [pooled EXCEPT ![d] = TRUE]

ReadEof(d) ==
    /\ pc[d] = "read"
    /\ Readable(d)
    /\ eof[d] /\ taken[d] = sent[d]
    /\ result' = [result EXCEPT ![d] = "eof"]
    /\ EndCopy(d)
    /\ UNCHANGED <<hpc, stream, conns, listed, rest>>

\* Closed under the reader, failed, or past its deadline.
ReadError(d) ==
    /\ pc[d] = "read"
    /\ closed[Src(d)] \/ broken[Src(d)] \/ timer[Src(d)] = 0
    /\ result' = [result EXCEPT ![d] = "err"]
    /\ EndCopy(d)
    /\ UNCHANGED <<hpc, stream, conns, listed, rest>>

\* The destination accepts one more byte of the chunk; Write blocks while the
\* peer's window is full.  There is no write deadline.
WriteByte(d) ==
    /\ pc[d] = "write"
    /\ given[d] < taken[d]
    /\ ~closed[Dst(d)] /\ ~broken[Dst(d)]
    /\ ~(d = "up" /\ kind = "reject")
    /\ given[d] - drained[d] < Window
    /\ given' = [given EXCEPT ![d] = @ + 1]
    /\ UNCHANGED <<hpc, pc, result, sent, taken, drained, conns, pooled, listed, rest>>

WriteError(d) ==
    /\ pc[d] = "write"
    /\ given[d] < taken[d]
    /\ \/ closed[Dst(d)] \/ broken[Dst(d)]
       \/ d = "up" /\ kind = "reject"
    /\ result' = [result EXCEPT ![d] = "err"]
    /\ EndCopy(d)
    /\ UNCHANGED <<hpc, stream, conns, listed, rest>>

\* The chunk is written: only now is the error that came with it looked at.
WriteDone(d) ==
    /\ pc[d] = "write"
    /\ given[d] = taken[d]
    /\ IF result[d] = "nil"
          THEN pc' = [pc EXCEPT ![d] = "read"] /\ UNCHANGED pooled
          ELSE EndCopy(d)
    /\ UNCHANGED <<hpc, result, stream, conns, listed, rest>>

CloseRead(d) ==
    /\ pc[d] = "closeRead"
    /\ pc' = [pc EXCEPT ![d] = "closeWrite"]
    /\ readShut' = [readShut EXCEPT ![Src(d)] = @ \/ HalfCloses(Src(d))]
    /\ UNCHANGED <<hpc, kind, result, stream, eof, broken, writeShut, closed,
                   timer, pooled, listed, rest>>

CloseWrite(d) ==
    /\ pc[d] = "closeWrite"
    /\ pc' = [pc EXCEPT ![d] = "deadline"]
    /\ writeShut' = [writeShut EXCEPT ![Dst(d)] = @ \/ HalfCloses(Dst(d))]
    /\ UNCHANGED <<hpc, kind, result, stream, eof, broken, readShut, closed,
                   timer, pooled, listed, rest>>

\* Mutants: the deadline goes to the wrong connection, or is forgotten.
SetDeadlineOnSrc(d) ==
    /\ pc[d] = "deadline"
    /\ pc' = [pc EXCEPT ![d] = "done"]
    /\ timer' = [timer EXCEPT ![Src(d)] = WaitTimeout]
    /\ UNCHANGED <<hpc, kind, result, stream, eof, broken, readShut, writeShut,
                   closed, pooled, listed, rest>>
NoSetDeadline(d) ==
    /\ pc[d] = "deadline"
    /\ pc' = [pc EXCEPT ![d] = "done"]
    /\ UNCHANGED <<hpc, result, stream, conns, pooled, listed, rest>>

\* dst.SetReadDeadline(now + tcpWaitTimeout), then wg.Done().
SetDeadline(d) ==
    /\ pc[d] = "deadline"
    /\ pc' = [pc EXCEPT ![d] = "done"]
    /\ timer' = [timer EXCEPT ![Dst(d)] =
                    IF HasDeadline(Dst(d)) /\ ~closed[Dst(d)] THEN WaitTimeout ELSE @]
    /\ UNCHANGED <<hpc, kind, result, stream, eof, broken, readShut, writeShut,
                   closed, pooled, listed, rest>>

Copy(d) ==
    \/ GetBuffer(d)
    \/ ReadData(d) \/ ReadEof(d) \/ ReadError(d)
    \/ WriteByte(d) \/ WriteError(d) \/ WriteDone(d)
    \/ CloseRead(d) \/ CloseWrite(d) \/ SetDeadline(d)

-----------------------------------------------------------------------------
(* A REST request: the snapshot, then Close of the tracker it found in it. *)

RestSnapshot(c) ==
    /\ rest[c] = "idle"
    /\ listed
    /\ rest' = [rest EXCEPT ![c] = "leave"]
    /\ UNCHANGED <<hpc, pc, result, stream, conns, pooled, listed>>

\* Mutant: tracker.Close forgets to close the connection.
RestNoClose(c) ==
    /\ rest[c] = "close"
    /\ rest' = [rest EXCEPT ![c] = "idle"]
    /\ UNCHANGED <<hpc, pc, result, stream, conns, pooled, listed>>

RestLeave(c) ==
    /\ rest[c] = "leave"
    /\ rest' = [rest EXCEPT ![c] = "close"]
    /\ listed' = FALSE
    /\ UNCHANGED <<hpc, pc, result, stream, conns, pooled>>

RestClose(c) ==
    /\ rest[c] = "close"
    /\ rest' = [rest EXCEPT ![c] = "idle"]
    /\ Close("remote")
    /\ UNCHANGED <<hpc, pc, kind, result, stream, eof, broken, readShut, writeShut,
                   timer, pooled, listed>>

-----------------------------------------------------------------------------
(* The peers of the two connections, and time. *)

\* The origin's handshake is over before the handler runs; the remote
\* connection has a peer once it is dialled, and the reject proxy's has none.
HasPeer(e) == ~closed[e] /\ ~broken[e] /\ (e = "origin" \/ kind \notin {NoConn, "reject"})

PeerSend(d) ==
    /\ HasPeer(Src(d)) /\ ~eof[d]
    /\ sent[d] < MaxSent[d]
    /\ sent' = [sent EXCEPT ![d] = @ + 1]
    /\ UNCHANGED <<hpc, pc, result, taken, given, drained, conns, pooled, listed, rest>>

PeerFin(d) ==
    /\ HasPeer(Src(d)) /\ ~eof[d]
    /\ eof' = [eof EXCEPT ![d] = TRUE]
    /\ UNCHANGED <<hpc, pc, kind, result, stream, broken, readShut, writeShut,
                   closed, timer, pooled, listed, rest>>

PeerReset(e) ==
    /\ HasPeer(e)
    /\ broken' = [broken EXCEPT ![e] = TRUE]
    /\ UNCHANGED <<hpc, pc, kind, result, stream, eof, readShut, writeShut,
                   closed, timer, pooled, listed, rest>>

PeerDrain(d) ==
    /\ drained[d] < given[d]
    /\ drained' = [drained EXCEPT ![d] = @ + 1]
    /\ UNCHANGED <<hpc, pc, result, sent, taken, given, conns, pooled, listed, rest>>

Tick ==
    /\ \E e \in End : timer[e] > 0
    /\ timer' = [e \in End |-> IF timer[e] > 0 THEN timer[e] - 1 ELSE timer[e]]
    /\ UNCHANGED <<hpc, pc, kind, result, stream, eof, broken, readShut, writeShut,
                   closed, pooled, listed, rest>>

Ended == hpc = "done" /\ UNCHANGED vars

Next ==
    \/ \E k \in RemoteKinds : DialOk(k)
    \/ DialError
    \/ Handler
    \/ \E d \in Dir : Copy(d) \/ PeerSend(d) \/ PeerFin(d) \/ PeerDrain(d)
    \/ \E c \in Clients : RestSnapshot(c) \/ RestLeave(c) \/ RestClose(c)
    \/ \E e \in End : PeerReset(e)
    \/ Tick
    \/ Ended

Spec == Init /\ [][Next]_vars

\* Runnable goroutines run and timers advance.  Nothing obliges a peer to send,
\* to finish or to answer a dial.
Fairness ==
    /\ WF_vars(Handler)
    /\ \A d \in Dir : WF_vars(Copy(d))
    /\ \A c \in Clients : WF_vars(RestLeave(c) \/ RestClose(c))
    /\ WF_vars(Tick)

\* An assumption on the peers, not on the code: they read what they are sent.
\* The relay sets no write deadline, so a peer that stops reading can hold a
\* Write, and with it the session, for as long as it keeps the connection.
PeersRead == \A d \in Dir : WF_vars(PeerDrain(d))

FairSpec == Spec /\ Fairness /\ PeersRead

-----------------------------------------------------------------------------
(* Properties. *)

HandlerStates == {"dial", "join", "pipe", "wait", "leave", "closeRemote", "closeOrigin", "done"}
CopyStates == {"off", "get", "read", "write", "closeRead", "closeWrite", "deadline", "done"}

\* Type invariant: in particular no offset overtakes the one upstream of it
\* (nothing is written that was not read, nothing read that was not sent).
TypeOK ==
    /\ hpc \in HandlerStates
    /\ pc \in [Dir -> CopyStates]
    /\ kind \in Kind \cup {NoConn}
    /\ result \in [Dir -> {"nil", "eof", "err"}]
    /\ sent \in [Dir -> Nat] /\ taken \in [Dir -> Nat]
    /\ given \in [Dir -> Nat] /\ drained \in [Dir -> Nat]
    /\ \A d \in Dir : drained[d] <= given[d] /\ given[d] <= taken[d]
                        /\ taken[d] <= sent[d] /\ sent[d] <= MaxSent[d]
    /\ eof \in [Dir -> BOOLEAN] /\ broken \in [End -> BOOLEAN]
    /\ readShut \in [End -> BOOLEAN] /\ writeShut \in [End -> BOOLEAN]
    /\ closed \in [End -> BOOLEAN]
    /\ timer \in [End -> {NoDeadline} \cup 0..WaitTimeout]
    /\ pooled \in [Dir -> BOOLEAN]
    /\ listed \in BOOLEAN
    /\ rest \in [Clients -> {"idle", "leave", "close"}]

\* When handleTCPConn returns nothing of the session is left behind: both
\* connections are closed, no copy goroutine runs, both relay buffers are back
\* in the pool and the manager does not list the tracker, whatever REST
\* requests, resets and timeouts did in between.
NoLeak ==
    hpc = "done" =>
        /\ closed["origin"]
        /\ kind # NoConn => closed["remote"]
        /\ \A d \in Dir : pc[d] \in {"off", "done"} /\ pooled[d]
        /\ ~listed

\* A connection that Manager.connections lists is one whose pipe is starting or
\* running and that nobody has closed yet (tracker.Close leaves, then closes).
ListedIsOpen ==
    listed => hpc \in {"pipe", "wait", "leave"} /\ ~closed["remote"]

\* The relay sends a FIN to a peer only when the other peer has finished and
\* every byte it sent has been handed over, unless a connection failed, was
\* closed by a REST request, or ran into the half-close timeout.
Undisturbed(d) ==
    /\ ~broken[Src(d)] /\ ~broken[Dst(d)]
    /\ ~closed[Src(d)] /\ ~closed[Dst(d)]
    /\ timer[Src(d)] # 0
FinAfterAllBytes ==
    \A d \in Dir : writeShut[Dst(d)] /\ Undisturbed(d) => eof[d] /\ given[d] = sent[d]

\* No direction is on a deadline while both directions copy: a read deadline
\* exists only on a connection whose writer is finished and, where it can
\* half-close, whose peer has been sent the FIN it may still answer.
HalfCloseGrace ==
    \A d \in Dir : timer[Dst(d)] # NoDeadline =>
        pc[d] = "done" /\ (HalfCloses(Dst(d)) => writeShut[Dst(d)])

\* The half-close deadline is absolute: once set it is never moved or cleared,
\* however much data the remaining direction still carries.
DeadlineFixed ==
    [][\A e \in End : timer[e] # NoDeadline => timer'[e] \in {timer[e], timer[e] - 1}
                                                 /\ timer'[e] # NoDeadline]_vars

\* Once one direction has ended the session ends: tcpWaitTimeout bounds the other,
\* over every connection that has read deadlines, as all but those of ssh do.
HalfCloseBounded == (kind # "ssh" /\ \E d \in Dir : pc[d] = "done") ~> (hpc = "done")

\* The same of every connection (tcp.go:71 sets the deadline and ignores the error).
HalfCloseTerminates == (\E d \in Dir : pc[d] = "done") ~> (hpc = "done")

\* A connection closed over the REST API ends its session, both directions of it.
RestCloseTerminates == (\E c \in Clients : rest[c] = "close") ~> (hpc = "done")

\* The life cycle RelaySession promises, read off this module's state: a session
\* is listed only while both connections are open, is unlisted before anybody
\* closes the remote one, and the origin is closed last.
Phase ==
    CASE hpc \in {"dial", "join"} -> hpc
      [] hpc \in {"pipe", "wait", "leave"} -> "relay"
      [] hpc \in {"closeRemote", "closeOrigin"} -> "closing"
      [] hpc = "done" -> "over"
Open == {e \in End : ~closed[e] /\ (e = "remote" => kind # NoConn)}
Session == INSTANCE RelaySession WITH phase <- Phase, listed <- listed, open <- Open
SessionSpec == Session!Spec
=============================================================================
