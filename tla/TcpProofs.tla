----------------------------- MODULE TcpProofs ------------------------------
(***************************************************************************)
(* TcpRelay, for all values of its constants: any number of REST clients,  *)
(* any amount of data, any window and any timeout.                         *)
(*                                                                         *)
(* RelayConn, for every length of writes and replies and any number of     *)
(* them.  WriteInv says how far the writer has got with the request and    *)
(* the datagrams, ReadInv how much of the server's stream has been read    *)
(* and what of it is still under way.                                      *)
(***************************************************************************)
EXTENDS TcpRelay, GostRelay, Sequences, TLAPS

-----------------------------------------------------------------------------
(* TcpRelay. *)

EndOfCopy == {"closeRead", "closeWrite", "deadline", "done"}

\* How far the handler is tells what the copies and the connections can be.
PhaseInv ==
    /\ hpc \in {"dial", "join", "pipe"} => \A d \in Dir : pc[d] = "off"
    /\ hpc \in {"leave", "closeRemote"} => \A d \in Dir : pc[d] = "done"
    /\ hpc \in {"closeOrigin", "done"} => \A d \in Dir : pc[d] \in {"off", "done"}
    /\ hpc = "dial" => kind = NoConn
    /\ kind = NoConn => hpc \in {"dial", "closeOrigin", "done"}
    /\ hpc \in {"closeOrigin", "done"} /\ kind # NoConn => closed["remote"]
    /\ closed["origin"] <=> hpc = "done"
    /\ \A d \in Dir : pooled[d] <=> pc[d] \notin {"read", "write"}

\* The tracker is listed, held by a client or closed only after it joined, and
\* whoever is about to close it has removed it from the list.
ListInv ==
    /\ ListedIsOpen
    /\ hpc \in {"dial", "join"} => ~closed["remote"] /\ \A c \in Clients : rest[c] = "idle"
    /\ \A c \in Clients : rest[c] = "close" => ~listed
    /\ hpc \in {"closeRemote", "closeOrigin", "done"} => ~listed

\* The half-close of a direction happens in order: FIN, then deadline.
GraceInv ==
    /\ \A d \in Dir : timer[Dst(d)] # NoDeadline => pc[d] = "done"
    /\ \A d \in Dir : writeShut[Dst(d)] <=> pc[d] \in {"deadline", "done"} /\ HalfCloses(Dst(d))

\* Where the bytes of a direction are when its copy ends.
StreamInv ==
    \A d \in Dir :
        /\ pc[d] \in {"off", "get", "read"} => given[d] = taken[d]
        /\ pc[d] = "write" => result[d] # "err"
        /\ pc[d] = "write" /\ result[d] = "eof" => eof[d] /\ taken[d] = sent[d]
        /\ pc[d] \in EndOfCopy /\ Undisturbed(d) /\ ~(d = "up" /\ kind = "reject")
             => eof[d] /\ given[d] = sent[d]

IInv == TypeOK /\ PhaseInv /\ ListInv /\ GraceInv /\ StreamInv

-----------------------------------------------------------------------------
\* The two directions read and write opposite connections.
LEMMA Ends ==
    /\ \A d \in Dir : Src(d) \in End /\ Dst(d) \in End /\ Src(d) # Dst(d)
    /\ \A d, f \in Dir : d # f => Src(d) = Dst(f) /\ Dst(d) = Src(f)
    /\ \A e \in End : \E d \in Dir : e = Dst(d)
  BY DEF Dir, End, Src, Dst

\* The initial state satisfies the inductive invariant.
LEMMA InitInv == Init => IInv
<1> SUFFICES ASSUME Init PROVE IInv
  OBVIOUS
<1> USE RelayAssumption, Ends DEF NoDeadline, NoConn
<1>1. TypeOK
  <2>1. \A d \in Dir : drained[d] <= given[d] /\ given[d] <= taken[d]
                          /\ taken[d] <= sent[d] /\ sent[d] <= MaxSent[d]
    BY DEF Init
  <2>2. kind \in Kind \cup {NoConn} /\ hpc \in HandlerStates /\ pc \in [Dir -> CopyStates]
    BY DEF Init, HandlerStates, CopyStates
  <2> QED
    BY <2>1, <2>2, Zenon DEF Init, TypeOK
<1>2. PhaseInv
  BY DEF Init, PhaseInv, End
<1>3. ListInv
  BY DEF Init, ListInv, ListedIsOpen, End
<1>4. GraceInv
  BY DEF Init, GraceInv
<1>5. StreamInv
  BY DEF Init, StreamInv, EndOfCopy
<1> QED
  BY <1>1, <1>2, <1>3, <1>4, <1>5 DEF IInv

\* Every step preserves it: one case per action.
LEMMA StepInv == IInv /\ [Next]_vars => IInv'
<1> SUFFICES ASSUME IInv, [Next]_vars PROVE IInv'
  OBVIOUS
<1> USE RelayAssumption, Ends DEF NoDeadline, NoConn, stream, conns
<1>1. ASSUME NEW k \in RemoteKinds, DialOk(k) PROVE IInv'
  BY <1>1, Zenon DEF IInv, TypeOK, HandlerStates, CopyStates, PhaseInv, ListInv, ListedIsOpen,
     GraceInv, StreamInv, Undisturbed, EndOfCopy, HalfCloses, Kind, DialOk, Kind
<1>2. CASE DialError
  BY <1>2 DEF IInv, TypeOK, HandlerStates, CopyStates, PhaseInv, ListInv, ListedIsOpen,
     GraceInv, StreamInv, Undisturbed, EndOfCopy, HalfCloses, Kind, DialError
<1>3. CASE Join
  BY <1>3 DEF IInv, TypeOK, HandlerStates, CopyStates, PhaseInv, ListInv, ListedIsOpen,
     GraceInv, StreamInv, Undisturbed, EndOfCopy, HalfCloses, Kind, Join
<1>4. CASE Pipe
  BY <1>4 DEF IInv, TypeOK, HandlerStates, CopyStates, PhaseInv, ListInv, ListedIsOpen,
     GraceInv, StreamInv, Undisturbed, EndOfCopy, HalfCloses, Kind, Pipe
<1>5. CASE Wait
  BY <1>5 DEF IInv, TypeOK, HandlerStates, CopyStates, PhaseInv, ListInv, ListedIsOpen,
     GraceInv, StreamInv, Undisturbed, EndOfCopy, HalfCloses, Kind, Wait
<1>6. CASE Leave
  BY <1>6, ZenonT(30) DEF IInv, TypeOK, HandlerStates, CopyStates, PhaseInv, ListInv, ListedIsOpen,
     GraceInv, StreamInv, Undisturbed, EndOfCopy, HalfCloses, Kind, Leave
<1>7. CASE CloseRemote
  BY <1>7 DEF IInv, TypeOK, HandlerStates, CopyStates, PhaseInv, ListInv, ListedIsOpen,
     GraceInv, StreamInv, Undisturbed, EndOfCopy, HalfCloses, Kind, CloseRemote, Close, End
<1>8. CASE CloseOrigin
  BY <1>8 DEF IInv, TypeOK, HandlerStates, CopyStates, PhaseInv, ListInv, ListedIsOpen,
     GraceInv, StreamInv, Undisturbed, EndOfCopy, HalfCloses, Kind, CloseOrigin, Close, End
<1>9. ASSUME NEW d \in Dir, GetBuffer(d) PROVE IInv'
  BY <1>9 DEF IInv, TypeOK, HandlerStates, CopyStates, PhaseInv, ListInv, ListedIsOpen,
     GraceInv, StreamInv, Undisturbed, EndOfCopy, HalfCloses, Kind, GetBuffer
<1>10. ASSUME NEW d \in Dir, ReadData(d) PROVE IInv'
  <2>1. TypeOK'
    BY <1>10 DEF IInv, TypeOK, HandlerStates, CopyStates, Kind, ReadData, Readable
  <2>2. PhaseInv'
    BY <1>10 DEF IInv, TypeOK, PhaseInv, ReadData, Readable
  <2>3. ListInv'
    BY <1>10 DEF IInv, TypeOK, ListInv, ListedIsOpen, PhaseInv, ReadData, Readable
  <2>4. GraceInv'
    BY <1>10 DEF IInv, TypeOK, GraceInv, HalfCloses, PhaseInv, ReadData, Readable
  <2>5. StreamInv'
    BY <1>10 DEF IInv, TypeOK, StreamInv, Undisturbed, EndOfCopy, HalfCloses, GraceInv, PhaseInv, ReadData, Readable
  <2> QED BY <2>1, <2>2, <2>3, <2>4, <2>5 DEF IInv
<1>11. ASSUME NEW d \in Dir, ReadEof(d) PROVE IInv'
  BY <1>11 DEF IInv, TypeOK, HandlerStates, CopyStates, PhaseInv, ListInv, ListedIsOpen,
     GraceInv, StreamInv, Undisturbed, EndOfCopy, HalfCloses, Kind, ReadEof, Readable, EndCopy
<1>12. ASSUME NEW d \in Dir, ReadError(d) PROVE IInv'
  BY <1>12 DEF IInv, TypeOK, HandlerStates, CopyStates, PhaseInv, ListInv, ListedIsOpen,
     GraceInv, StreamInv, Undisturbed, EndOfCopy, HalfCloses, Kind, ReadError, EndCopy
<1>13. ASSUME NEW d \in Dir, WriteByte(d) PROVE IInv'
  BY <1>13 DEF IInv, TypeOK, HandlerStates, CopyStates, PhaseInv, ListInv, ListedIsOpen,
     GraceInv, StreamInv, Undisturbed, EndOfCopy, HalfCloses, Kind, WriteByte
<1>14. ASSUME NEW d \in Dir, WriteError(d) PROVE IInv'
  BY <1>14 DEF IInv, TypeOK, HandlerStates, CopyStates, PhaseInv, ListInv, ListedIsOpen,
     GraceInv, StreamInv, Undisturbed, EndOfCopy, HalfCloses, Kind, WriteError, EndCopy
<1>15. ASSUME NEW d \in Dir, WriteDone(d) PROVE IInv'
  <2>1. TypeOK'
    BY <1>15, ZenonT(30) DEF IInv, TypeOK, HandlerStates, CopyStates, Kind, WriteDone, EndCopy
  <2>2. PhaseInv'
    BY <1>15 DEF IInv, TypeOK, PhaseInv, WriteDone, EndCopy
  <2>3. ListInv'
    BY <1>15 DEF IInv, TypeOK, ListInv, ListedIsOpen, PhaseInv, WriteDone, EndCopy
  <2>4. GraceInv'
    BY <1>15 DEF IInv, TypeOK, GraceInv, HalfCloses, PhaseInv, WriteDone, EndCopy
  <2>5. StreamInv'
    BY <1>15 DEF IInv, TypeOK, StreamInv, Undisturbed, EndOfCopy, HalfCloses, GraceInv, PhaseInv, WriteDone, EndCopy
  <2> QED BY <2>1, <2>2, <2>3, <2>4, <2>5 DEF IInv
<1>16. ASSUME NEW d \in Dir, CloseRead(d) PROVE IInv'
  BY <1>16 DEF IInv, TypeOK, HandlerStates, CopyStates, PhaseInv, ListInv, ListedIsOpen,
     GraceInv, StreamInv, Undisturbed, EndOfCopy, HalfCloses, Kind, CloseRead
<1>17. ASSUME NEW d \in Dir, CloseWrite(d) PROVE IInv'
  BY <1>17 DEF IInv, TypeOK, HandlerStates, CopyStates, PhaseInv, ListInv, ListedIsOpen,
     GraceInv, StreamInv, Undisturbed, EndOfCopy, HalfCloses, Kind, CloseWrite
<1>18. ASSUME NEW d \in Dir, SetDeadline(d) PROVE IInv'
  BY <1>18 DEF IInv, TypeOK, HandlerStates, CopyStates, PhaseInv, ListInv, ListedIsOpen,
     GraceInv, StreamInv, Undisturbed, EndOfCopy, HalfCloses, Kind, SetDeadline, HasDeadline
<1>19. ASSUME NEW d \in Dir, PeerSend(d) PROVE IInv'
  BY <1>19, SMTT(20), ZenonT(30) DEF IInv, TypeOK, HandlerStates, CopyStates, PhaseInv, ListInv, ListedIsOpen,
     GraceInv, StreamInv, Undisturbed, EndOfCopy, HalfCloses, Kind, PeerSend, HasPeer
<1>20. ASSUME NEW d \in Dir, PeerFin(d) PROVE IInv'
  BY <1>20 DEF IInv, TypeOK, HandlerStates, CopyStates, PhaseInv, ListInv, ListedIsOpen,
     GraceInv, StreamInv, Undisturbed, EndOfCopy, HalfCloses, Kind, PeerFin, HasPeer
<1>21. ASSUME NEW d \in Dir, PeerDrain(d) PROVE IInv'
  BY <1>21 DEF IInv, TypeOK, HandlerStates, CopyStates, PhaseInv, ListInv, ListedIsOpen,
     GraceInv, StreamInv, Undisturbed, EndOfCopy, HalfCloses, Kind, PeerDrain
<1>22. ASSUME NEW c \in Clients, RestSnapshot(c) PROVE IInv'
  BY <1>22 DEF IInv, TypeOK, HandlerStates, CopyStates, PhaseInv, ListInv, ListedIsOpen,
     GraceInv, StreamInv, Undisturbed, EndOfCopy, HalfCloses, Kind, RestSnapshot
<1>23. ASSUME NEW c \in Clients, RestLeave(c) PROVE IInv'
  BY <1>23, ZenonT(30) DEF IInv, TypeOK, HandlerStates, CopyStates, PhaseInv, ListInv, ListedIsOpen,
     GraceInv, StreamInv, Undisturbed, EndOfCopy, HalfCloses, Kind, RestLeave
<1>24. ASSUME NEW c \in Clients, RestClose(c) PROVE IInv'
  BY <1>24 DEF IInv, TypeOK, HandlerStates, CopyStates, PhaseInv, ListInv, ListedIsOpen,
     GraceInv, StreamInv, Undisturbed, EndOfCopy, HalfCloses, Kind, RestClose, Close, End
<1>25. ASSUME NEW e \in End, PeerReset(e) PROVE IInv'
  BY <1>25, SMTT(20) DEF IInv, TypeOK, HandlerStates, CopyStates, PhaseInv, ListInv, ListedIsOpen,
     GraceInv, StreamInv, Undisturbed, EndOfCopy, HalfCloses, Kind, PeerReset, HasPeer
<1>26. CASE Tick
  BY <1>26, SMTT(20) DEF IInv, TypeOK, HandlerStates, CopyStates, PhaseInv, ListInv, ListedIsOpen,
     GraceInv, StreamInv, Undisturbed, EndOfCopy, HalfCloses, Kind, Tick
<1>27. CASE UNCHANGED vars
  BY <1>27 DEF IInv, TypeOK, HandlerStates, CopyStates, PhaseInv, ListInv, ListedIsOpen,
     GraceInv, StreamInv, Undisturbed, EndOfCopy, HalfCloses, Kind, vars
<1>28. CASE Ended
  BY <1>28, <1>27 DEF Ended
<1> QED
  BY <1>1, <1>2, <1>3, <1>4, <1>5, <1>6, <1>7, <1>8, <1>9, <1>10, <1>11, <1>12, <1>13, <1>14, <1>15, <1>16, <1>17, <1>18, <1>19, <1>20, <1>21, <1>22, <1>23, <1>24, <1>25, <1>26, <1>27, <1>28 DEF Next, Handler, Copy

\* The inductive invariant holds in every state of the relay.
LEMMA Invariance == Spec => []IInv
  BY InitInv, StepInv, PTL DEF Spec

\* Every state is well typed; in particular the copies of handleTCPConn's pipe
\* never write a byte that was not read nor read one that was not sent.
THEOREM TypeCorrect == Spec => []TypeOK
<1>1. IInv => TypeOK
  BY DEF IInv
<1> QED
  BY <1>1, Invariance, PTL

\* handleTCPConn leaves nothing behind: connections, goroutines, buffers and
\* manager entry, for any number of REST requests closing it meanwhile.
THEOREM RelayNoLeak == Spec => []NoLeak
<1>1. IInv => NoLeak
  BY DEF IInv, PhaseInv, ListInv, ListedIsOpen, NoLeak
<1> QED
  BY <1>1, Invariance, PTL

\* What Manager.connections lists is running and not closed.
THEOREM RelayListedIsOpen == Spec => []ListedIsOpen
<1>1. IInv => ListedIsOpen
  BY DEF IInv, ListInv
<1> QED
  BY <1>1, Invariance, PTL

\* unidirectionalStream half-closes its destination only after handing over
\* every byte of a finished source, unless something disturbed the direction.
THEOREM RelayFinAfterAllBytes == Spec => []FinAfterAllBytes
<1>1. IInv => FinAfterAllBytes
  BY Ends DEF IInv, GraceInv, StreamInv, FinAfterAllBytes, EndOfCopy, HalfCloses, Dir, Dst
<1> QED
  BY <1>1, Invariance, PTL

\* A read deadline appears only behind a finished, half-closed direction.
THEOREM RelayHalfCloseGrace == Spec => []HalfCloseGrace
<1>1. IInv => HalfCloseGrace
  BY DEF IInv, GraceInv, HalfCloseGrace
<1> QED
  BY <1>1, Invariance, PTL

\* No step moves a half-close deadline that is set.
THEOREM RelayDeadlineFixed == Spec => DeadlineFixed
<1> DEFINE Fixed == \A e \in End : timer[e] # NoDeadline =>
                        timer'[e] \in {timer[e], timer[e] - 1} /\ timer'[e] # NoDeadline
<1>1. IInv /\ [Next]_vars => [Fixed]_vars
  <2> SUFFICES ASSUME IInv, Next PROVE Fixed
    OBVIOUS
  <2> USE DEF conns, NoDeadline
  <2>1. CASE Tick
    BY <2>1 DEF Tick, IInv, TypeOK
  <2>2. ASSUME NEW d \in Dir, SetDeadline(d) PROVE Fixed
    <3>1. timer[Dst(d)] = NoDeadline
      BY <2>2 DEF SetDeadline, IInv, GraceInv
    <3> QED
      BY <2>2, <3>1 DEF SetDeadline, IInv, TypeOK
  <2>3. CASE UNCHANGED timer
    BY <2>3 DEF IInv, TypeOK
  <2> QED
    BY <2>1, <2>2, <2>3, Zenon DEF Next, Handler, Copy, DialOk, DialError, Join, Pipe, Wait, Leave,
       CloseRemote, CloseOrigin, GetBuffer, ReadData, ReadEof, ReadError, WriteByte, WriteError,
       WriteDone, CloseRead, CloseWrite, PeerSend, PeerFin, PeerDrain, PeerReset, RestSnapshot,
       RestLeave, RestClose, Ended, vars
<1>2. Spec => [][Fixed]_vars
  BY <1>1, Invariance, PTL DEF Spec
<1> QED
  BY <1>2 DEF DeadlineFixed

\* The TCP relay implements RelaySession: every step of the detailed session is
\* a step of the promised life cycle or leaves it alone.
THEOREM RelayImplementsSession == Spec => SessionSpec
<1>1. Init => Session!Init
  BY DEF Init, Session!Init, Phase, Open, End, NoConn
<1>2. IInv /\ [Next]_vars => [Session!Next]_(Session!vars)
  <2> SUFFICES ASSUME IInv, [Next]_vars PROVE [Session!Next]_(Session!vars)
    OBVIOUS
  <2> USE DEF Session!Next, Session!vars, Phase, conns, stream
  <2>0. /\ hpc \in HandlerStates /\ closed \in [End -> BOOLEAN] /\ listed \in BOOLEAN
        /\ PhaseInv /\ ListInv
    BY DEF IInv, TypeOK
  <2>1. ASSUME NEW k \in RemoteKinds, DialOk(k) PROVE Session!Dial
    BY <2>0, <2>1, RelayAssumption DEF DialOk, Session!Dial, Open, PhaseInv, ListInv, ListedIsOpen, Kind, NoConn, End
  <2>2. CASE DialError
    BY <2>0, <2>2 DEF DialError, Session!DialError, Open
  <2>3. CASE Join
    BY <2>0, <2>3 DEF Join, Session!Join, Open
  <2>4. CASE Leave
    BY <2>0, <2>4 DEF Leave, Session!Finish, Open
  <2>5. CASE CloseRemote
    BY <2>0, <2>5 DEF CloseRemote, Close, Session!CloseRemote, Open, ListInv, End
  <2>6. CASE CloseOrigin
    BY <2>0, <2>6 DEF CloseOrigin, Close, Session!CloseOrigin, Open, PhaseInv, ListInv, End
  <2>7. ASSUME NEW c \in Clients, RestLeave(c) PROVE [Session!Next]_(Session!vars)
    BY <2>0, <2>7, Zenon DEF RestLeave, Session!Unlist, Open, ListInv, ListedIsOpen, HandlerStates
  <2>8. ASSUME NEW c \in Clients, RestClose(c) PROVE [Session!Next]_(Session!vars)
    BY <2>0, <2>8 DEF RestClose, Close, Session!CloseRemote, Open, PhaseInv, ListInv, HandlerStates, End
  <2>9. CASE UNCHANGED <<Phase, listed, kind, closed>>
    BY <2>9, Zenon DEF Open
  <2> QED
    BY <2>1, <2>2, <2>3, <2>4, <2>5, <2>6, <2>7, <2>8, <2>9, Zenon DEF Next, Handler, Copy, Pipe, Wait,
       GetBuffer, ReadData, ReadEof, ReadError, WriteByte, WriteError, WriteDone, CloseRead,
       CloseWrite, SetDeadline, PeerSend, PeerFin, PeerDrain, PeerReset, RestSnapshot, Tick,
       Ended, vars
<1> QED
  BY <1>1, <1>2, Invariance, PTL DEF Spec, SessionSpec, Session!Spec

-----------------------------------------------------------------------------
(* RelayConn. *)

RelayUnit == [t : {"request", "response", "length", "body"}, num : Nat, len : Nat]

\* What the writer has sent, o, is in order, and carries the writes ls.
Fits(o, i, ls, m) ==
    /\ (o[i] = Relay!Request) <=> (i = 1)
    /\ o[i].t # "body" => o[i].num = 0
    /\ o[i].t = "body" => /\ o[i].num \in 1 .. Len(ls) /\ o[i].len = ls[o[i].num]
                          /\ \A j \in 1 .. i - 1 : o[j].num < o[i].num
    /\ o[i].t = "body" /\ m.udp => i > 1 /\ o[i - 1].t = "length" /\ o[i - 1].len = o[i].len

Parses(o, ls, m) == \A i \in 1 .. Len(o) : Fits(o, i, ls, m)

\* How far the writer has got.
WriteInv ==
    /\ mode \in [udp : BOOLEAN, noDelay : BOOLEAN] /\ pending \in BOOLEAN
    /\ lens \in Seq(Nat) /\ written \in Seq(RelayUnit)
    /\ wpc \in {"idle", "body", "stopped"}
    /\ Parses(written, lens, mode)
    /\ phase # "open" => wpc = "idle" /\ pending = FALSE
    /\ phase = "dial" => written = <<>>
    /\ phase = "wait" => written # <<>>
    /\ phase = "open" /\ wpc # "stopped" => (pending = TRUE <=> written = <<>>)
    /\ wpc = "body" => /\ mode.udp /\ lens # <<>> /\ written # <<>>
                       /\ written[Len(written)] = Relay!Length(lens[Len(lens)]) /\ lens[Len(lens)] <= MaxLength
                       /\ \A i \in 1 .. Len(written) : written[i].num < Len(lens)

\* Units of the stream that starts with the response up to the end of reply i.
StreamEnd(m, i) == 1 + IF m.udp THEN 2 * i ELSE i

\* s is what is left of the response and the replies rs, or a prefix of it, when
\* c units have been read.
Lined(s, c, rs, m) ==
    /\ Len(s) + c <= StreamEnd(m, Len(rs))
    /\ 1 - c \in 1 .. Len(s) => s[1 - c] = Relay!Response
    /\ \A i \in 1 .. Len(rs) :
           /\ StreamEnd(m, i) - c \in 1 .. Len(s) => s[StreamEnd(m, i) - c] = Relay!Body(i, rs[i])
           /\ m.udp /\ StreamEnd(m, i) - 1 - c \in 1 .. Len(s) => s[StreamEnd(m, i) - 1 - c] = Relay!Length(rs[i])

\* The response is still to be read.
Wanted == phase \in {"dial", "wait"} \/ (~mode.noDelay /\ (once = FALSE \/ reads = "response"))

\* Units of the server's stream read so far.
Consumed ==
    IF Wanted THEN 0
    ELSE StreamEnd(mode, Len(returned)) + IF reads = "datagram" THEN 1 ELSE 0

GotSet == [num : Nat, len : Nat, room : Nat]

\* What the reader has been given, g, is the first of the replies rs.
Given(g, rs, m) ==
    /\ Len(g) <= Len(rs)
    /\ \A i \in 1 .. Len(g) :
           g[i].num = i /\ g[i].len = (IF m.udp THEN Relay!Least(g[i].room, rs[i]) ELSE 1)

ReadTypes ==
    /\ replies \in Seq(Nat) /\ unread \in Seq(RelayUnit) /\ returned \in Seq(GotSet)
    /\ room \in Nat /\ dlen \in Nat /\ mode \in [udp : BOOLEAN, noDelay : BOOLEAN]
    /\ carries \in BOOLEAN /\ once \in BOOLEAN

\* Where the reader is, and what it knows of the server.
ReadControl ==
    /\ phase \in {"dial", "wait", "open", "failed"}
    /\ status \in {"none", "ok", "refused"} /\ (status # "ok" => replies = <<>>)
    /\ status = "none" => unread = <<>>
    /\ reads \in {"idle", "response", "data", "length", "datagram"}
    /\ reads \in {"length", "datagram"} => mode.udp
    /\ reads = "data" => ~mode.udp
    /\ phase # "open" => reads = "idle" /\ once = FALSE /\ fault = "none" /\ returned = <<>>
    /\ phase = "failed" => carries = FALSE
    /\ phase = "wait" => mode.noDelay
    /\ reads = "response" => ~mode.noDelay
    /\ reads # "idle" => once = TRUE /\ fault = "none"
    /\ Wanted => returned = <<>>
    /\ fault \in {"none", "EOF", "status"}
    /\ fault = "EOF" => carries = FALSE
    /\ fault = "status" => status = "refused"
    /\ phase = "open" /\ fault = "none" /\ ~Wanted => status = "ok"
    /\ returned # <<>> => status = "ok"

\* What has been read and what is still to be read are the server's stream.
ReadStream ==
    /\ mode.udp => \A i \in 1 .. Len(replies) : replies[i] <= MaxLength
    /\ Given(returned, replies, mode)
    /\ reads = "datagram" => Len(returned) < Len(replies) /\ dlen = replies[Len(returned) + 1]
    /\ phase # "failed" /\ fault = "none" =>
           /\ Lined(unread, Consumed, replies, mode)
           /\ carries = TRUE /\ status # "none" => Len(unread) + Consumed = StreamEnd(mode, Len(replies))

ReadInv == ReadTypes /\ ReadControl /\ ReadStream


\* Lengths are numbers, and Append adds one element at the end.
LEMMA LenNat == ASSUME NEW S, NEW s \in Seq(S) PROVE Len(s) \in Nat
  OBVIOUS

LEMMA LenOfDomain ==
    ASSUME NEW S, NEW s \in Seq(S), NEW k \in Nat, DOMAIN s = 1 .. k
    PROVE  Len(s) = k
  OBVIOUS

LEMMA AppendAt ==
    ASSUME NEW S, NEW s \in Seq(S), NEW e \in S
    PROVE  /\ Append(s, e) \in Seq(S) /\ Len(Append(s, e)) = Len(s) + 1
           /\ \A i \in 1 .. Len(s) : Append(s, e)[i] = s[i]
           /\ Append(s, e)[Len(s) + 1] = e
  OBVIOUS

\* What the length of a datagram of n bytes announces.
LEMMA LengthFacts ==
    ASSUME NEW n \in Nat, n <= MaxLength
    PROVE  /\ Relay!Length(n) \in RelayUnit /\ Relay!Length(n).t = "length" /\ Relay!Length(n).num = 0 /\ Relay!Length(n).len = n
           /\ Relay!Length(n) # Relay!Request
  <1>1. MaxLength \in Nat
    BY GostAssumption DEF Relay!RelayConnAssumption
  <1>2. n % (MaxLength + 1) = n
    BY <1>1
  <1> QED
    BY <1>2 DEF Relay!Length, RelayUnit, Relay!Request

LEMMA RelayUnitFacts ==
    /\ Relay!Request \in RelayUnit /\ Relay!Request.t = "request" /\ Relay!Request.num = 0
    /\ Relay!Response \in RelayUnit /\ Relay!Response.t = "response"
    /\ \A i, n \in Nat : /\ Relay!Body(i, n) \in RelayUnit /\ Relay!Body(i, n).t = "body" /\ Relay!Body(i, n).num = i
                         /\ Relay!Body(i, n).len = n /\ Relay!Body(i, n) # Relay!Request
  BY DEF Relay!Request, Relay!Response, Relay!Body, RelayUnit

\* A part of what was to be written is a prefix of all of it.
LEMMA PartSent ==
    ASSUME NEW S, NEW o \in Seq(S), NEW u \in Seq(S), NEW k \in 0 .. Len(u)
    PROVE  /\ o \o SubSeq(u, 1, k) = SubSeq(o \o u, 1, Len(o) + k) /\ Len(o) + k \in 0 .. Len(o \o u)
           /\ o \o SubSeq(u, 1, k) \in Seq(S) /\ o \o u \in Seq(S)
  <1>1. SubSeq(u, 1, k) \in Seq(S) /\ Len(SubSeq(u, 1, k)) = k
    OBVIOUS
  <1>2. o \o u \in Seq(S) /\ Len(o \o u) = Len(o) + Len(u) /\ o \o SubSeq(u, 1, k) \in Seq(S)
        /\ Len(o \o SubSeq(u, 1, k)) = Len(o) + k
    BY <1>1
  <1>3. Len(o) + k \in 0 .. Len(o \o u)
    BY <1>2
  <1>4. SubSeq(o \o u, 1, Len(o) + k) \in Seq(S) /\ Len(SubSeq(o \o u, 1, Len(o) + k)) = Len(o) + k
    BY <1>2, <1>3
  <1>5. \A i \in 1 .. Len(o) + k : (o \o SubSeq(u, 1, k))[i] = SubSeq(o \o u, 1, Len(o) + k)[i]
    <2> SUFFICES ASSUME NEW i \in 1 .. Len(o) + k
                 PROVE  (o \o SubSeq(u, 1, k))[i] = SubSeq(o \o u, 1, Len(o) + k)[i]
      OBVIOUS
    <2>1. SubSeq(o \o u, 1, Len(o) + k)[i] = (o \o u)[i]
      BY <1>2, <1>3
    <2>2. CASE i <= Len(o)
      BY <1>1, <2>1, <2>2
    <2>3. CASE i > Len(o)
      <3>1. (o \o SubSeq(u, 1, k))[i] = SubSeq(u, 1, k)[i - Len(o)] /\ (o \o u)[i] = u[i - Len(o)]
        BY <1>1, <2>3
      <3>2. SubSeq(u, 1, k)[i - Len(o)] = u[i - Len(o)]
        BY <2>3
      <3> QED
        BY <2>1, <3>1, <3>2
    <2> QED
      BY <2>2, <2>3
  <1> QED
    BY <1>2, <1>3, <1>4, <1>5

LEMMA Behind ==
    ASSUME NEW S, NEW s \in Seq(S), NEW x \in S
    PROVE  /\ Append(s, x) \in Seq(S) /\ Append(s, x) # <<>> /\ Len(Append(s, x)) = Len(s) + 1
           /\ Append(s, x)[Len(Append(s, x))] = x /\ s \o <<x>> = Append(s, x) /\ <<x>> \in Seq(S)
           /\ \A i \in 1 .. Len(Append(s, x)) : i \in 1 .. Len(s) \/ Append(s, x)[i] = x
           /\ \A i \in 1 .. Len(s) : Append(s, x)[i] = s[i]
  OBVIOUS

LEMMA BehindTwo ==
    ASSUME NEW S, NEW s \in Seq(S), NEW x \in S, NEW y \in S
    PROVE  s \o <<x, y>> = Append(Append(s, x), y) /\ <<x, y>> \in Seq(S)
  OBVIOUS

LEMMA BehindThree ==
    ASSUME NEW S, NEW s \in Seq(S), NEW x \in S, NEW y \in S, NEW z \in S
    PROVE  s \o <<x, y, z>> = Append(Append(Append(s, x), y), z) /\ <<x, y, z>> \in Seq(S)
  OBVIOUS

LEMMA FitsSame ==
    ASSUME NEW o, NEW p, NEW i \in Nat \ {0}, \A j \in 1 .. i : p[j] = o[j], NEW ls, NEW m,
           Fits(o, i, ls, m)
    PROVE  Fits(p, i, ls, m)
  <1>1. /\ p[i] = o[i] /\ \A j \in 1 .. i - 1 : p[j] = o[j]
        /\ i > 1 => p[i - 1] = o[i - 1]
    OBVIOUS
  <1> QED
    BY <1>1 DEF Fits

LEMMA ParsesCut ==
    ASSUME NEW o \in Seq(RelayUnit), NEW ls, NEW m, Parses(o, ls, m), NEW k \in 0 .. Len(o)
    PROVE  Parses(SubSeq(o, 1, k), ls, m)
  <1> DEFINE p == SubSeq(o, 1, k)
  <1>1. Len(p) = k /\ \A i \in 1 .. k : p[i] = o[i]
    OBVIOUS
  <1>2. k \in Nat /\ Len(o) \in Nat /\ k <= Len(o)
    OBVIOUS
  <1> HIDE DEF p
  <1>3. ASSUME NEW i \in 1 .. k PROVE Fits(p, i, ls, m)
    <2>1. i \in Nat \ {0} /\ i \in 1 .. Len(o) /\ \A j \in 1 .. i : p[j] = o[j]
      BY <1>1, <1>2
    <2>2. Fits(o, i, ls, m)
      BY <2>1 DEF Parses
    <2> QED
      BY <2>1, <2>2, FitsSame
  <1>4. Parses(p, ls, m)
    BY <1>1, <1>3 DEF Parses
  <1> QED
    BY <1>4 DEF p

\* One more write.
LEMMA ParsesMore ==
    ASSUME NEW o \in Seq(RelayUnit), NEW ls \in Seq(Nat), NEW m, NEW n \in Nat, Parses(o, ls, m)
    PROVE  /\ Parses(o, Append(ls, n), m) /\ Append(ls, n) \in Seq(Nat)
           /\ Len(Append(ls, n)) = Len(ls) + 1 /\ Append(ls, n)[Len(ls) + 1] = n
           /\ \A i \in 1 .. Len(o) : o[i].num < Len(ls) + 1
  <1> DEFINE l == Append(ls, n)
  <1>1. l \in Seq(Nat) /\ Len(l) = Len(ls) + 1 /\ l[Len(ls) + 1] = n /\ \A i \in 1 .. Len(ls) : l[i] = ls[i]
    OBVIOUS
  <1>2. Len(ls) \in Nat /\ Len(l) \in Nat
    OBVIOUS
  <1> HIDE DEF l
  <1>3. ASSUME NEW i \in 1 .. Len(o) PROVE Fits(o, i, l, m) /\ o[i].num < Len(ls) + 1
    <2>1. Fits(o, i, ls, m)
      BY DEF Parses
    <2>2. o[i].t = "body" => o[i].num \in 1 .. Len(l) /\ l[o[i].num] = ls[o[i].num]
      BY <1>1, <1>2, <2>1, SMTT(20) DEF Fits
    <2>3. o[i].num < Len(ls) + 1
      BY <1>2, <2>1 DEF Fits
    <2> QED
      BY <2>1, <2>2, <2>3 DEF Fits
  <1>4. Parses(o, l, m)
    BY <1>3 DEF Parses
  <1> QED
    BY <1>1, <1>3, <1>4 DEF l

\* One more unit behind what is there.
LEMMA ParsesAppend ==
    ASSUME NEW o \in Seq(RelayUnit), NEW ls, NEW m, Parses(o, ls, m), NEW x \in RelayUnit,
           Fits(Append(o, x), Len(o) + 1, ls, m)
    PROVE  Parses(Append(o, x), ls, m)
  <1> DEFINE p == Append(o, x)
  <1>1. Len(p) = Len(o) + 1 /\ Len(o) \in Nat /\ \A i \in 1 .. Len(o) : p[i] = o[i]
    OBVIOUS
  <1>2. Fits(p, Len(o) + 1, ls, m)
    OBVIOUS
  <1> HIDE DEF p
  <1>3. ASSUME NEW i \in 1 .. Len(o) PROVE Fits(p, i, ls, m)
    <2>1. i \in Nat \ {0} /\ \A j \in 1 .. i : p[j] = o[j]
      BY <1>1
    <2>2. Fits(o, i, ls, m)
      BY DEF Parses
    <2> QED
      BY <2>1, <2>2, FitsSame
  <1>4. Parses(p, ls, m)
    BY <1>1, <1>2, <1>3 DEF Parses
  <1> QED
    BY <1>4 DEF p

LEMMA ParsesRequest ==
    ASSUME NEW o \in Seq(RelayUnit), o = <<>>, NEW ls, NEW m PROVE Parses(Append(o, Relay!Request), ls, m)
  <1>1. Len(o) = 0 /\ Append(o, Relay!Request)[1] = Relay!Request /\ Parses(o, ls, m)
    BY RelayUnitFacts DEF Parses
  <1>2. Fits(Append(o, Relay!Request), Len(o) + 1, ls, m)
    BY <1>1, RelayUnitFacts DEF Fits
  <1>3. Relay!Request \in RelayUnit
    BY RelayUnitFacts
  <1> QED
    BY <1>1, <1>2, <1>3, ParsesAppend, Zenon

LEMMA ParsesLength ==
    ASSUME NEW o \in Seq(RelayUnit), NEW ls, NEW m, Parses(o, ls, m), o # <<>>,
           NEW n \in Nat, n <= MaxLength
    PROVE  Parses(Append(o, Relay!Length(n)), ls, m)
  <1>1. Append(o, Relay!Length(n))[Len(o) + 1] = Relay!Length(n) /\ Len(o) \in Nat /\ Len(o) >= 1
    BY LengthFacts
  <1>2. Fits(Append(o, Relay!Length(n)), Len(o) + 1, ls, m)
    BY <1>1, LengthFacts DEF Fits
  <1> QED
    BY <1>2, LengthFacts, ParsesAppend

LEMMA ParsesBody ==
    ASSUME NEW o \in Seq(RelayUnit), NEW ls \in Seq(Nat), NEW m, Parses(o, ls, m),
           o # <<>>, ls # <<>>, \A i \in 1 .. Len(o) : o[i].num < Len(ls),
           m.udp => o[Len(o)].t = "length" /\ o[Len(o)].len = ls[Len(ls)]
    PROVE  Parses(Append(o, Relay!Body(Len(ls), ls[Len(ls)])), ls, m)
  <1> DEFINE x == Relay!Body(Len(ls), ls[Len(ls)])
             p == Append(o, x)
  <1>0. Len(ls) \in Nat /\ Len(ls) >= 1 /\ ls[Len(ls)] \in Nat /\ Len(o) \in Nat /\ Len(o) >= 1
    OBVIOUS
  <1>1. x \in RelayUnit /\ x.t = "body" /\ x.num = Len(ls) /\ x.len = ls[Len(ls)] /\ x # Relay!Request
    BY <1>0, RelayUnitFacts
  <1> HIDE DEF x
  <1>2. p[Len(o) + 1] = x /\ \A i \in 1 .. Len(o) : p[i] = o[i]
    BY <1>1
  <1> HIDE DEF p
  <1>3. /\ p[Len(o) + 1] # Relay!Request /\ Len(o) + 1 # 1 /\ Len(o) + 1 > 1 /\ (Len(o) + 1) - 1 = Len(o)
        /\ p[Len(o) + 1].t = "body" /\ p[Len(o) + 1].num \in 1 .. Len(ls)
        /\ p[Len(o) + 1].len = ls[p[Len(o) + 1].num]
        /\ \A j \in 1 .. Len(o) : p[j].num < p[Len(o) + 1].num
    BY <1>0, <1>1, <1>2
  <1>4. m.udp => p[Len(o)].t = "length" /\ p[Len(o)].len = p[Len(o) + 1].len
    BY <1>0, <1>1, <1>2
  <1>5. Fits(p, Len(o) + 1, ls, m)
    BY <1>3, <1>4, Zenon DEF Fits
  <1> QED
    BY <1>1, <1>5, ParsesAppend DEF p, x

\* What a Write of n bytes hands to the connection at once.
Units(n) ==
    LET b == Relay!Body(Len(lens) + 1, n) IN
    CASE pending /\ mode.udp  -> <<Relay!Request, Relay!Length(n), b>>
      [] pending /\ ~mode.udp -> <<Relay!Request, b>>
      [] ~pending /\ mode.udp -> <<Relay!Length(n)>>
      [] OTHER                -> <<b>>

LEMMA WriteUnits ==
    ASSUME WriteInv, NEW n \in Nat, phase = "open", wpc = "idle", mode.udp => n <= MaxLength
    PROVE  /\ Units(n) \in Seq(RelayUnit) /\ Parses(written \o Units(n), Append(lens, n), mode)
           /\ written \o Units(n) # <<>>
           /\ mode.udp /\ ~pending => written \o Units(n) = Append(written, Relay!Length(n))
  <1> DEFINE l == Append(lens, n)
             b == Relay!Body(Len(lens) + 1, n)
             x == Relay!Length(n)
  <1>1. /\ lens \in Seq(Nat) /\ written \in Seq(RelayUnit) /\ Parses(written, lens, mode)
        /\ pending \in BOOLEAN /\ (pending = TRUE <=> written = <<>>)
    BY DEF WriteInv
  <1>2. Len(lens) \in Nat
    BY <1>1
  <1>3. /\ Parses(written, l, mode) /\ l \in Seq(Nat) /\ Len(l) = Len(lens) + 1 /\ l[Len(lens) + 1] = n
        /\ \A i \in 1 .. Len(written) : written[i].num < Len(lens) + 1
    BY <1>1, ParsesMore, Zenon
  <1> HIDE DEF l
  <1>4. l # <<>> /\ b = Relay!Body(Len(l), l[Len(l)]) /\ Len(l) \in Nat /\ Len(l) > 0
    BY <1>2, <1>3
  <1>5. b \in RelayUnit /\ Relay!Request \in RelayUnit /\ Relay!Request.num = 0
    BY <1>2, RelayUnitFacts
  <1>6. mode.udp => x \in RelayUnit /\ x.t = "length" /\ x.num = 0 /\ x.len = n
    BY LengthFacts
  <1>7. \A i \in 1 .. Len(written) : written[i].num < Len(l)
    BY <1>3
  <1> DEFINE r == Append(written, Relay!Request)
  <1>o. written \in Seq(RelayUnit)
    BY <1>1
  <1>b. b \in RelayUnit
    BY <1>5
  <1>r. Relay!Request \in RelayUnit
    BY <1>5
  <1>8. r \in Seq(RelayUnit) /\ r # <<>>
    BY <1>o, <1>r, Behind
  <1>9. pending => Parses(r, l, mode) /\ \A i \in 1 .. Len(r) : r[i].num < Len(l)
    <2> SUFFICES ASSUME pending PROVE Parses(r, l, mode) /\ \A i \in 1 .. Len(r) : r[i].num < Len(l)
      OBVIOUS
    <2>1. written = <<>>
      BY <1>1
    <2>2. Parses(r, l, mode)
      BY <1>1, <2>1, ParsesRequest, Zenon
    <2> QED
      BY <1>1, <1>4, <1>5, <2>1, <2>2
  <1> HIDE DEF b, x
  <1>10. CASE pending /\ mode.udp
    <2> DEFINE p == Append(r, x)
    <2>1. Units(n) = <<Relay!Request, x, b>>
      BY <1>10, Zenon DEF Units, b, x
    <2>2. x \in RelayUnit /\ x.t = "length" /\ x.num = 0 /\ x.len = n /\ n <= MaxLength /\ Parses(r, l, mode)
          /\ \A i \in 1 .. Len(r) : r[i].num < Len(l)
      BY <1>6, <1>9, <1>10
    <2>3. written \o Units(n) = Append(p, b) /\ Units(n) \in Seq(RelayUnit)
      <3>1. x \in RelayUnit
        BY <2>2
      <3>2. written \o <<Relay!Request, x, b>> = Append(p, b) /\ <<Relay!Request, x, b>> \in Seq(RelayUnit)
        BY <1>o, <1>b, <1>r, <3>1, BehindThree
      <3> QED
        BY <2>1, <3>2
    <2>4. Parses(p, l, mode)
      <3>1. Parses(r, l, mode) /\ n <= MaxLength
        BY <2>2
      <3> HIDE DEF r
      <3> QED
        BY <1>8, <3>1, ParsesLength DEF x
    <2> HIDE DEF r
    <2>5. p \in Seq(RelayUnit) /\ p # <<>> /\ p[Len(p)] = x
          /\ \A i \in 1 .. Len(p) : p[i].num < Len(l)
      BY <1>4, <1>8, <2>2, Behind
    <2> HIDE DEF p
    <2>6. p[Len(p)].t = "length" /\ p[Len(p)].len = l[Len(l)]
      BY <1>3, <2>2, <2>5
    <2>7. Parses(Append(p, b), l, mode)
      BY <1>3, <1>4, <2>4, <2>5, <2>6, ParsesBody
    <2>8. Append(p, b) # <<>>
      <3>1. p \in Seq(RelayUnit)
        BY <2>5
      <3> QED
        BY <1>b, <3>1, Behind
    <2> QED
      BY <1>10, <2>3, <2>7, <2>8, Zenon DEF l
  <1>11. CASE pending /\ ~mode.udp
    <2>1. Units(n) = <<Relay!Request, b>>
      BY <1>11 DEF Units, b
    <2>2. written \o Units(n) = Append(r, b) /\ Units(n) \in Seq(RelayUnit)
      <3>1. written \o <<Relay!Request, b>> = Append(r, b) /\ <<Relay!Request, b>> \in Seq(RelayUnit)
        BY <1>o, <1>b, <1>r, BehindTwo
      <3> QED
        BY <2>1, <3>1
    <2>3. Parses(r, l, mode) /\ \A i \in 1 .. Len(r) : r[i].num < Len(l)
      BY <1>9, <1>11
    <2> HIDE DEF r
    <2>4. Parses(Append(r, b), l, mode)
      BY <1>3, <1>4, <1>8, <1>11, <2>3, ParsesBody
    <2>5. Append(r, b) # <<>>
      <3>1. r \in Seq(RelayUnit)
        BY <1>8
      <3> QED
        BY <1>b, <3>1, Behind
    <2> QED
      BY <1>11, <2>2, <2>4, <2>5, Zenon DEF l
  <1>12. CASE ~pending /\ mode.udp
    <2>1. Units(n) = <<x>> /\ x \in RelayUnit /\ n <= MaxLength /\ written # <<>>
      BY <1>1, <1>6, <1>12 DEF Units, x
    <2>2. written \o Units(n) = Append(written, x) /\ Units(n) \in Seq(RelayUnit) /\ Append(written, x) # <<>>
      <3>1. x \in RelayUnit
        BY <2>1
      <3>2. written \o <<x>> = Append(written, x) /\ <<x>> \in Seq(RelayUnit) /\ Append(written, x) # <<>>
        BY <1>o, <3>1, Behind
      <3> QED
        BY <2>1, <3>2
    <2>3. Parses(Append(written, x), l, mode)
      BY <1>1, <1>3, <2>1, ParsesLength DEF x
    <2> QED
      BY <2>2, <2>3, Zenon DEF l, x
  <1>13. CASE ~pending /\ ~mode.udp
    <2>1. Units(n) = <<b>> /\ written # <<>>
      BY <1>1, <1>13 DEF Units, b
    <2>2. written \o Units(n) = Append(written, b) /\ Units(n) \in Seq(RelayUnit) /\ Append(written, b) # <<>>
      <3>1. written \o <<b>> = Append(written, b) /\ <<b>> \in Seq(RelayUnit) /\ Append(written, b) # <<>>
        BY <1>o, <1>b, Behind
      <3> QED
        BY <2>1, <3>1
    <2>3. Parses(Append(written, b), l, mode)
      <3>1. Parses(Append(written, Relay!Body(Len(l), l[Len(l)])), l, mode)
        BY <1>o, <1>3, <1>4, <1>7, <1>13, <2>1, ParsesBody
      <3> QED
        BY <1>4, <3>1
    <2> QED
      BY <1>13, <2>2, <2>3, Zenon DEF l
  <1> QED
    BY <1>10, <1>11, <1>12, <1>13, Zenon

\* A Write on the connection fails: a part of u may have been sent.
LEMMA SendFailsParses ==
    ASSUME NEW u \in Seq(RelayUnit), written \in Seq(RelayUnit), NEW ls, NEW m, Relay!SendFails(u), Parses(written \o u, ls, m)
    PROVE  Parses(written, ls, m)' /\ (written \in Seq(RelayUnit))'
  <1>1. PICK k \in 0 .. Len(u) : written' = written \o SubSeq(u, 1, k)
    BY DEF Relay!SendFails
  <1>2. /\ written' = SubSeq(written \o u, 1, Len(written) + k) /\ Len(written) + k \in 0 .. Len(written \o u)
        /\ written' \in Seq(RelayUnit)
    BY <1>1, PartSent
  <1>3. written \o u \in Seq(RelayUnit)
    OBVIOUS
  <1> DEFINE full == written \o u
             n == Len(written) + k
  <1>4. full \in Seq(RelayUnit) /\ n \in 0 .. Len(full) /\ Parses(full, ls, m)
    BY <1>2, <1>3
  <1> HIDE DEF full, n
  <1>5. Parses(SubSeq(full, 1, n), ls, m)
    BY <1>4, ParsesCut
  <1> QED
    BY <1>2, <1>5 DEF full, n

LEMMA WriteStep ==
    ASSUME WriteInv, NEW n \in Nat, Relay!Write(n)
    PROVE  WriteInv'
  <1> DEFINE l == Append(lens, n)
             u == Units(n)
             full == written \o u
             good == ~(mode.udp /\ n > MaxLength)
  <1>1. /\ phase = "open" /\ wpc = "idle" /\ UNCHANGED <<mode, phase>>
        /\ \/ mode.udp /\ n > MaxLength /\ wpc' = "stopped" /\ UNCHANGED <<lens, pending, written>>
           \/ /\ good /\ lens' = l
              /\ \/ /\ Relay!Sent(u) /\ pending' = FALSE
                    /\ wpc' = (IF mode.udp /\ ~pending THEN "body" ELSE "idle")
                 \/ Relay!SendFails(u) /\ wpc' = "stopped" /\ pending' = (pending /\ mode.udp)
    BY DEF Relay!Write, Units
  <1>2. /\ mode \in [udp : BOOLEAN, noDelay : BOOLEAN] /\ lens \in Seq(Nat)
        /\ written \in Seq(RelayUnit) /\ Parses(written, lens, mode) /\ pending \in BOOLEAN
    BY DEF WriteInv
  <1>3. CASE mode.udp /\ n > MaxLength /\ wpc' = "stopped" /\ UNCHANGED <<lens, pending, written>>
    BY <1>1, <1>3 DEF WriteInv
  <1>4. ASSUME good
        PROVE  /\ u \in Seq(RelayUnit) /\ Parses(full, l, mode) /\ full # <<>>
               /\ mode.udp /\ ~pending => full = Append(written, Relay!Length(n))
    <2>1. mode.udp => n <= MaxLength
      BY <1>4, GostAssumption DEF Relay!RelayConnAssumption
    <2> QED
      BY <1>1, <2>1, WriteUnits, Zenon
  <1>5. /\ l \in Seq(Nat) /\ Len(l) = Len(lens) + 1 /\ l[Len(lens) + 1] = n
        /\ \A i \in 1 .. Len(written) : written[i].num < Len(lens) + 1
    <2>1. lens \in Seq(Nat) /\ written \in Seq(RelayUnit) /\ Parses(written, lens, mode)
      BY <1>2
    <2> QED
      BY <2>1, ParsesMore, ZenonT(30)
  <1> HIDE DEF l, u, full
  <1>6. l # <<>> /\ l[Len(l)] = n /\ \A i \in 1 .. Len(written) : written[i].num < Len(l)
    BY <1>2, <1>5
  <1>7. CASE /\ good /\ lens' = l /\ Relay!Sent(u) /\ pending' = FALSE
             /\ wpc' = (IF mode.udp /\ ~pending THEN "body" ELSE "idle")
    <2>1. written' = full /\ full \in Seq(RelayUnit) /\ full # <<>> /\ Parses(full, l, mode)
      BY <1>2, <1>4, <1>7 DEF Relay!Sent, full
    <2>4. Parses(written, lens, mode)' /\ phase' = "open" /\ mode' = mode /\ lens' = l
      BY <1>1, <1>7, <2>1
    <2>5. pending' \in BOOLEAN /\ pending' # TRUE
      BY <1>7, Zenon
    <2>6. /\ mode' \in [udp : BOOLEAN, noDelay : BOOLEAN] /\ lens' \in Seq(Nat) /\ written' \in Seq(RelayUnit)
          /\ written' # <<>>
      BY <1>2, <1>5, <2>1, <2>4
    <2>2. CASE mode.udp /\ ~pending
      <3>1. n <= MaxLength
        BY <1>7, <2>2, GostAssumption DEF Relay!RelayConnAssumption
      <3>2. Relay!Length(n) \in RelayUnit /\ Relay!Length(n).num = 0
        BY <3>1, LengthFacts
      <3>3. full = Append(written, Relay!Length(n))
        BY <1>4, <1>7, <2>2
      <3>4. full[Len(full)] = Relay!Length(n) /\ \A i \in 1 .. Len(full) : full[i].num < Len(l)
        BY <1>2, <1>5, <1>6, <3>2, <3>3
      <3>5. wpc' = "body"
        BY <1>7, <2>2
      <3>6. /\ mode'.udp /\ lens' # <<>> /\ written'[Len(written')] = Relay!Length(lens'[Len(lens')])
            /\ lens'[Len(lens')] <= MaxLength /\ \A i \in 1 .. Len(written') : written'[i].num < Len(lens')
        BY <1>6, <2>1, <2>2, <2>4, <3>1, <3>4
      <3> QED
        BY <2>4, <2>5, <2>6, <3>5, <3>6, Zenon DEF WriteInv
    <2>3. CASE ~(mode.udp /\ ~pending)
      <3>1. wpc' = "idle"
        BY <1>7, <2>3
      <3> QED
        BY <2>4, <2>5, <2>6, <3>1, Zenon DEF WriteInv
    <2> QED
      BY <2>2, <2>3
  <1>8. CASE good /\ lens' = l /\ Relay!SendFails(u) /\ wpc' = "stopped" /\ pending' = (pending /\ mode.udp)
    <2>1. u \in Seq(RelayUnit) /\ Parses(written \o u, l, mode)
      BY <1>4, <1>8 DEF full
    <2>2. Parses(written', l, mode) /\ written' \in Seq(RelayUnit)
      BY <1>2, <1>8, <2>1, SendFailsParses
    <2>3. pending' \in BOOLEAN
      BY <1>2, <1>8
    <2> QED
      BY <1>1, <1>2, <1>5, <1>8, <2>2, <2>3 DEF WriteInv
  <1> QED
    BY <1>1, <1>3, <1>7, <1>8, Zenon

LEMMA WriteBodyStep ==
    ASSUME WriteInv, Relay!WriteBody
    PROVE  WriteInv'
  <1> DEFINE x == Relay!Body(Len(lens), lens[Len(lens)])
  <1>1. /\ wpc = "body" /\ UNCHANGED <<mode, phase, pending, lens>>
        /\ \/ Relay!Sent(<<x>>) /\ wpc' = "idle"
           \/ Relay!SendFails(<<x>>) /\ wpc' = "stopped"
    BY DEF Relay!WriteBody
  <1>2. /\ mode \in [udp : BOOLEAN, noDelay : BOOLEAN] /\ mode.udp /\ lens \in Seq(Nat)
        /\ written \in Seq(RelayUnit) /\ Parses(written, lens, mode) /\ pending \in BOOLEAN
        /\ lens # <<>> /\ written # <<>> /\ lens[Len(lens)] <= MaxLength
        /\ written[Len(written)] = Relay!Length(lens[Len(lens)]) /\ \A i \in 1 .. Len(written) : written[i].num < Len(lens)
        /\ phase = "open" /\ pending = FALSE
    BY <1>1 DEF WriteInv
  <1>3. Len(lens) \in Nat /\ lens[Len(lens)] \in Nat
    BY <1>2
  <1>4. written[Len(written)].t = "length" /\ written[Len(written)].len = lens[Len(lens)]
    BY <1>2, <1>3, LengthFacts
  <1>5. Parses(Append(written, x), lens, mode)
    BY <1>2, <1>4, ParsesBody
  <1>6. x \in RelayUnit
    BY <1>3, RelayUnitFacts
  <1>o. written \in Seq(RelayUnit)
    BY <1>2
  <1> HIDE DEF x
  <1>7. <<x>> \in Seq(RelayUnit) /\ written \o <<x>> = Append(written, x) /\ Append(written, x) \in Seq(RelayUnit)
        /\ Append(written, x) # <<>>
    BY <1>o, <1>6, Behind
  <1>8. CASE Relay!Sent(<<x>>) /\ wpc' = "idle"
    <2>1. written' = Append(written, x)
      BY <1>7, <1>8 DEF Relay!Sent
    <2>2. (Parses(written, lens, mode))' /\ written' \in Seq(RelayUnit) /\ written' # <<>>
      BY <1>1, <1>5, <1>7, <2>1
    <2> QED
      BY <1>1, <1>2, <1>8, <2>2 DEF WriteInv
  <1>9. CASE Relay!SendFails(<<x>>) /\ wpc' = "stopped"
    <2> DEFINE u == <<x>>
    <2>1. u \in Seq(RelayUnit) /\ Parses(written \o u, lens, mode) /\ Relay!SendFails(u)
      BY <1>5, <1>7, <1>9, Zenon
    <2> HIDE DEF u
    <2>2. Parses(written', lens, mode) /\ written' \in Seq(RelayUnit)
      BY <1>o, <2>1, SendFailsParses
    <2> QED
      BY <1>1, <1>2, <1>9, <2>2 DEF WriteInv
  <1> QED
    BY <1>1, <1>8, <1>9

LEMMA DialWrite ==
    ASSUME WriteInv, Relay!Dial
    PROVE  WriteInv'
  <1>1. /\ phase = "dial" /\ written = <<>> /\ wpc = "idle" /\ pending = FALSE /\ UNCHANGED <<mode, wpc, lens>>
        /\ mode \in [udp : BOOLEAN, noDelay : BOOLEAN] /\ lens \in Seq(Nat)
    BY DEF Relay!Dial, WriteInv
  <1> DEFINE u == <<Relay!Request>>
             r == Append(written, Relay!Request)
  <1>2. written \in Seq(RelayUnit) /\ Relay!Request \in RelayUnit
    BY RelayUnitFacts DEF WriteInv
  <1>3. u \in Seq(RelayUnit) /\ written \o u = r /\ r \in Seq(RelayUnit) /\ r # <<>>
    BY <1>2, Behind
  <1>4. Parses(r, lens, mode)
    BY <1>1, <1>2, ParsesRequest, Zenon
  <1>5. Parses(written \o u, lens, mode)
    BY <1>3, <1>4, Zenon
  <1> HIDE DEF u, r
  <1>6. CASE Relay!Sent(u) /\ phase' = "wait" /\ UNCHANGED pending
    <2>1. written' = r
      BY <1>3, <1>6 DEF Relay!Sent
    <2>2. (Parses(written, lens, mode))'
      BY <1>1, <1>4, <2>1
    <2> QED
      BY <1>1, <1>3, <1>6, <2>1, <2>2 DEF WriteInv
  <1>7. CASE Relay!SendFails(u) /\ phase' = "failed" /\ UNCHANGED pending
    <2>1. Parses(written', lens, mode) /\ written' \in Seq(RelayUnit)
      <3>1. u \in Seq(RelayUnit) /\ Relay!SendFails(u)
        BY <1>3, <1>7
      <3> QED
        BY <1>2, <1>5, <3>1, SendFailsParses
    <2> QED
      BY <1>1, <1>7, <2>1 DEF WriteInv
  <1>8. CASE phase' = "open" /\ pending' = TRUE /\ UNCHANGED written
    BY <1>1, <1>8 DEF WriteInv
  <1> QED
    BY <1>6, <1>7, <1>8, Zenon DEF Relay!Dial, u

LEMMA WriteInvStep == WriteInv /\ [Relay!Next]_Relay!vars => WriteInv'
  <1> SUFFICES ASSUME WriteInv, [Relay!Next]_Relay!vars PROVE WriteInv'
    OBVIOUS
  <1>1. CASE Relay!Dial
    BY <1>1, DialWrite
  <1>2. CASE Relay!DialResponse
    <2>1. /\ phase = "wait" /\ phase' \in {"open", "failed"} /\ UNCHANGED <<mode, pending, wpc, lens, written>>
      BY <1>2 DEF Relay!DialResponse
    <2> QED
      BY <2>1 DEF WriteInv
  <1>3. ASSUME NEW n \in RelayLens, Relay!Write(n) PROVE WriteInv'
    <2>1. n \in Nat
      BY GostAssumption DEF Relay!RelayConnAssumption
    <2> QED
      BY <1>3, <2>1, WriteStep
  <1>4. CASE Relay!WriteBody
    BY <1>4, WriteBodyStep
  <1>5. CASE UNCHANGED Relay!client
    BY <1>5 DEF Relay!client, WriteInv
  <1>6. \/ \E n \in RelayLens : Relay!Write(n)
        \/ Relay!Dial \/ Relay!DialResponse \/ Relay!WriteBody \/ UNCHANGED Relay!client
    BY Zenon DEF Relay!Next, Relay!vars, Relay!Break, Relay!Reply, Relay!Read, Relay!Answer, Relay!ReadResponse, Relay!ReadData, Relay!ReadLength, Relay!ReadDatagram,
       Relay!ReadError
  <1> QED
    BY <1>1, <1>2, <1>3, <1>4, <1>5, <1>6, Zenon

\* The server can parse what relayConn.Write sends, whatever the lengths and the number
\* of writes: the request once and first, then the writes' bytes in order, a datagram
\* directly behind its true length.
THEOREM RelayStreamParses == Relay!Spec => []StreamParses
  <1>1. Relay!Init => WriteInv
    <2> SUFFICES ASSUME Relay!Init PROVE WriteInv
      OBVIOUS
    <2>1. mode \in [udp : BOOLEAN, noDelay : BOOLEAN] /\ lens \in Seq(Nat) /\ written \in Seq(RelayUnit)
          /\ Len(written) = 0
      BY GostAssumption DEF Relay!Init, Relay!RelayConnAssumption
    <2>2. Parses(written, lens, mode)
      BY <2>1 DEF Parses
    <2>3. phase = "dial" /\ wpc = "idle" /\ written = <<>>
      BY DEF Relay!Init
    <2>4. pending \in BOOLEAN /\ pending = FALSE
      BY Zenon DEF Relay!Init
    <2> QED
      BY <2>1, <2>2, <2>3, <2>4, Zenon DEF WriteInv
  <1>2. WriteInv => StreamParses
    <2> SUFFICES ASSUME WriteInv, NEW i \in DOMAIN written
                 PROVE  /\ (written[i] = Relay!Request) <=> (i = 1)
                        /\ written[i].t = "body" /\ mode.udp =>
                               i > 1 /\ written[i - 1].t = "length" /\ written[i - 1].len = written[i].len
                        /\ written[i].t = "body" => written[i].len = lens[written[i].num]
                        /\ \A j \in 1 .. i - 1 : written[i].t = "body" => written[j].num < written[i].num
      BY DEF StreamParses, Relay!StreamParses
    <2>1. Fits(written, i, lens, mode)
      BY DEF WriteInv, Parses
    <2> QED
      BY <2>1 DEF Fits
  <1> QED
    BY <1>1, <1>2, WriteInvStep, PTL DEF Relay!Spec

-----------------------------------------------------------------------------
\* Where a reply ends.
LEMMA EndFacts ==
    ASSUME NEW m, NEW i \in Nat
    PROVE  /\ StreamEnd(m, i) \in Nat /\ StreamEnd(m, i) >= 1 + i /\ StreamEnd(m, 0) = 1
           /\ StreamEnd(m, i + 1) = StreamEnd(m, i) + IF m.udp THEN 2 ELSE 1
           /\ m.udp => StreamEnd(m, i) = 1 + 2 * i
           /\ ~m.udp => StreamEnd(m, i) = 1 + i
  BY DEF StreamEnd

LEMMA EndBefore ==
    ASSUME NEW m, NEW L \in Nat, NEW i \in 1 .. L, NEW c \in Nat, NEW n \in Nat, n + c = StreamEnd(m, L)
    PROVE  StreamEnd(m, i) - c <= n /\ StreamEnd(m, i) - 1 - c <= n /\ i \in Nat /\ StreamEnd(m, i) \in Nat
  BY DEF StreamEnd

\* k more units have been read.
LEMMA LinedShift ==
    ASSUME NEW s \in Seq(RelayUnit), NEW t \in Seq(RelayUnit), NEW c \in Nat, NEW rs \in Seq(Nat), NEW m,
           Lined(s, c, rs, m), NEW k \in 0 .. Len(s), Len(t) = Len(s) - k,
           \A i \in 1 .. Len(t) : t[i] = s[i + k]
    PROVE  Lined(t, c + k, rs, m)
  <1> DEFINE L == Len(rs)
  <1>0. Len(s) \in Nat /\ Len(t) \in Nat /\ L \in Nat /\ k \in Nat
    OBVIOUS
  <1>1. \A i \in Nat : StreamEnd(m, i) \in Nat
    BY SMTT(20) DEF StreamEnd
  <1>2. Len(t) + (c + k) <= StreamEnd(m, L)
    BY <1>0, <1>1 DEF Lined
  <1>3. \A j \in Int : j - (c + k) \in 1 .. Len(t) => j - c \in 1 .. Len(s) /\ t[j - (c + k)] = s[j - c]
    <2> SUFFICES ASSUME NEW j \in Int, j - (c + k) \in 1 .. Len(t)
                 PROVE  j - c \in 1 .. Len(s) /\ t[j - (c + k)] = s[j - c]
      BY Zenon
    <2>1. (j - (c + k)) + k = j - c
      BY <1>0
    <2>2. t[j - (c + k)] = s[(j - (c + k)) + k]
      OBVIOUS
    <2>3. j - c \in 1 .. Len(s)
      BY <1>0
    <2> QED
      BY <2>1, <2>2, <2>3
  <1>4. 1 - (c + k) \in 1 .. Len(t) => t[1 - (c + k)] = Relay!Response
    BY <1>3 DEF Lined
  <1>5. ASSUME NEW i \in 1 .. L
        PROVE  /\ StreamEnd(m, i) - (c + k) \in 1 .. Len(t) => t[StreamEnd(m, i) - (c + k)] = Relay!Body(i, rs[i])
               /\ m.udp /\ StreamEnd(m, i) - 1 - (c + k) \in 1 .. Len(t) =>
                      t[StreamEnd(m, i) - 1 - (c + k)] = Relay!Length(rs[i])
    <2> DEFINE e == StreamEnd(m, i)
               f == e - 1
    <2>0. i \in Nat
      BY <1>0
    <2>1. e \in Int /\ f \in Int
      <3>1. StreamEnd(m, i) \in Nat
        BY <1>1, <2>0, Zenon
      <3> QED
        BY <3>1
    <2>2. /\ e - c \in 1 .. Len(s) => s[e - c] = Relay!Body(i, rs[i])
          /\ m.udp /\ f - c \in 1 .. Len(s) => s[f - c] = Relay!Length(rs[i])
      BY Zenon DEF Lined
    <2>3. /\ e - (c + k) \in 1 .. Len(t) => e - c \in 1 .. Len(s) /\ t[e - (c + k)] = s[e - c]
          /\ f - (c + k) \in 1 .. Len(t) => f - c \in 1 .. Len(s) /\ t[f - (c + k)] = s[f - c]
      <3> HIDE DEF e, f
      <3> QED
        BY <1>3, <2>1, Zenon
    <2> QED
      BY <2>2, <2>3, Zenon
  <1> QED
    BY <1>2, <1>4, <1>5 DEF Lined

\* Some units at the end are lost.
LEMMA LinedCut ==
    ASSUME NEW s \in Seq(RelayUnit), NEW t \in Seq(RelayUnit), NEW c \in Nat, NEW rs \in Seq(Nat), NEW m,
           Lined(s, c, rs, m), Len(t) <= Len(s), \A i \in 1 .. Len(t) : t[i] = s[i]
    PROVE  Lined(t, c, rs, m)
  <1>0. Len(s) \in Nat /\ Len(t) \in Nat /\ Len(rs) \in Nat
    OBVIOUS
  <1>1. \A i \in Nat : StreamEnd(m, i) \in Nat
    BY DEF StreamEnd
  <1>2. Len(t) + c <= StreamEnd(m, Len(rs))
    BY <1>0, <1>1 DEF Lined
  <1>3. \A j \in Int : j \in 1 .. Len(t) => j \in 1 .. Len(s) /\ t[j] = s[j]
    BY <1>0
  <1>4. 1 - c \in 1 .. Len(t) => t[1 - c] = Relay!Response
    BY <1>3 DEF Lined
  <1>5. ASSUME NEW i \in 1 .. Len(rs)
        PROVE  /\ StreamEnd(m, i) - c \in 1 .. Len(t) => t[StreamEnd(m, i) - c] = Relay!Body(i, rs[i])
               /\ m.udp /\ StreamEnd(m, i) - 1 - c \in 1 .. Len(t) => t[StreamEnd(m, i) - 1 - c] = Relay!Length(rs[i])
    <2> DEFINE e == StreamEnd(m, i)
    <2>4. e \in Nat
      BY <1>0, <1>1
    <2>1. e - c \in Int /\ e - 1 - c \in Int
      <3> HIDE DEF e
      <3> QED
        BY <2>4
    <2>2. /\ StreamEnd(m, i) - c \in 1 .. Len(s) => s[StreamEnd(m, i) - c] = Relay!Body(i, rs[i])
          /\ m.udp /\ StreamEnd(m, i) - 1 - c \in 1 .. Len(s) => s[StreamEnd(m, i) - 1 - c] = Relay!Length(rs[i])
      BY Zenon DEF Lined
    <2> QED
      BY <1>3, <2>1, <2>2
  <1> QED
    BY <1>2, <1>4, <1>5 DEF Lined

\* One more reply arrives behind all the others.
LEMMA LinedReply ==
    ASSUME NEW s \in Seq(RelayUnit), NEW c \in Nat, NEW rs \in Seq(Nat), NEW m, Lined(s, c, rs, m),
           Len(s) + c = StreamEnd(m, Len(rs)), NEW t \in Seq(RelayUnit), NEW n \in Nat, NEW q \in Seq(Nat),
           q = Append(rs, n), Len(t) + c = StreamEnd(m, Len(rs) + 1),
           \A i \in 1 .. Len(s) : t[i] = s[i], t[Len(t)] = Relay!Body(Len(rs) + 1, n),
           m.udp => t[Len(t) - 1] = Relay!Length(n)
    PROVE  Lined(t, c, q, m)
  <1> DEFINE L == Len(rs)
  <1>0. Len(s) \in Nat /\ Len(t) \in Nat /\ L \in Nat
    BY LenNat, Zenon
  <1>1. /\ \A i \in Nat : StreamEnd(m, i) \in Nat /\ StreamEnd(m, i + 1) = StreamEnd(m, i) + IF m.udp THEN 2 ELSE 1
        /\ \A i, j \in Nat : i <= j => StreamEnd(m, i) <= StreamEnd(m, j)
    BY SMTT(20) DEF StreamEnd
  <1>2. Len(q) = L + 1 /\ q[L + 1] = n /\ \A i \in 1 .. L : q[i] = rs[i]
    OBVIOUS
  <1>3. Len(t) + c <= StreamEnd(m, Len(q))
    BY <1>0, <1>1, <1>2, SMTT(20)
  <1>4. 1 - c \in 1 .. Len(t) => t[1 - c] = Relay!Response
    <2>1. 1 - c \in 1 .. Len(t) => 1 - c \in 1 .. Len(s)
      BY <1>0, SMTT(20) DEF StreamEnd
    <2> QED
      BY <2>1 DEF Lined
  <1>5. ASSUME NEW i \in 1 .. L
        PROVE  /\ StreamEnd(m, i) - c \in 1 .. Len(t) => t[StreamEnd(m, i) - c] = Relay!Body(i, q[i])
               /\ m.udp /\ StreamEnd(m, i) - 1 - c \in 1 .. Len(t) => t[StreamEnd(m, i) - 1 - c] = Relay!Length(q[i])
    <2>1. StreamEnd(m, i) - c <= Len(s) /\ StreamEnd(m, i) - 1 - c <= Len(s) /\ StreamEnd(m, i) \in Nat
      BY <1>0, EndBefore, Zenon
    <2>2. /\ StreamEnd(m, i) - c \in 1 .. Len(s) => s[StreamEnd(m, i) - c] = Relay!Body(i, rs[i])
          /\ m.udp /\ StreamEnd(m, i) - 1 - c \in 1 .. Len(s) => s[StreamEnd(m, i) - 1 - c] = Relay!Length(rs[i])
      BY Zenon DEF Lined
    <2>3. q[i] = rs[i]
      BY <1>2, Zenon
    <2>4. \A x : x <= Len(s) /\ x \in 1 .. Len(t) => x \in 1 .. Len(s)
      BY <1>0
    <2> QED
      BY <2>1, <2>2, <2>3, <2>4, Zenon
  <1>6. /\ t[StreamEnd(m, L + 1) - c] = Relay!Body(L + 1, q[L + 1])
        /\ m.udp => t[StreamEnd(m, L + 1) - 1 - c] = Relay!Length(q[L + 1])
    <2>1. StreamEnd(m, L + 1) - c = Len(t) /\ StreamEnd(m, L + 1) - 1 - c = Len(t) - 1
      BY <1>0
    <2> QED
      BY <1>2, <2>1
  <1>7. ASSUME NEW i \in 1 .. Len(q)
        PROVE  /\ StreamEnd(m, i) - c \in 1 .. Len(t) => t[StreamEnd(m, i) - c] = Relay!Body(i, q[i])
               /\ m.udp /\ StreamEnd(m, i) - 1 - c \in 1 .. Len(t) => t[StreamEnd(m, i) - 1 - c] = Relay!Length(q[i])
    <2>1. CASE i \in 1 .. L
      BY <1>5, <2>1, Zenon
    <2>2. CASE i = L + 1
      BY <1>6, <2>2, Zenon
    <2>3. i \in 1 .. L \/ i = L + 1
      <3>1. Len(q) = L + 1
        BY <1>2, Zenon
      <3> HIDE DEF L
      <3> QED
        BY <1>0, <3>1
    <2> QED
      BY <2>1, <2>2, <2>3, Zenon
  <1> QED
    BY <1>3, <1>4, <1>7 DEF Lined

LEMMA AppendIs ==
    ASSUME NEW S, NEW s \in Seq(S), NEW x \in S
    PROVE  s \o <<x>> = Append(s, x)
  OBVIOUS

\* The units of a reply behind what is there.
LEMMA OneMore ==
    ASSUME NEW S, NEW s \in Seq(S), NEW b \in S
    PROVE  /\ s \o <<>> \o <<b>> \in Seq(S) /\ Len(s \o <<>> \o <<b>>) = Len(s) + 1
           /\ \A j \in 1 .. Len(s) : (s \o <<>> \o <<b>>)[j] = s[j]
           /\ (s \o <<>> \o <<b>>)[Len(s \o <<>> \o <<b>>)] = b
  <1>1. s \o <<>> = s
    OBVIOUS
  <1>2. s \o <<>> \o <<b>> = Append(s, b)
    BY <1>1, AppendIs
  <1> QED
    BY <1>2

LEMMA TwoMore ==
    ASSUME NEW s \in Seq(RelayUnit), NEW x \in RelayUnit, NEW b \in RelayUnit
    PROVE  /\ s \o <<x>> \o <<b>> \in Seq(RelayUnit) /\ Len(s \o <<x>> \o <<b>>) = Len(s) + 2
           /\ \A j \in 1 .. Len(s) : (s \o <<x>> \o <<b>>)[j] = s[j]
           /\ (s \o <<x>> \o <<b>>)[Len(s \o <<x>> \o <<b>>)] = b
           /\ (s \o <<x>> \o <<b>>)[Len(s \o <<x>> \o <<b>>) - 1] = x
  <1>1. s \o <<x>> = Append(s, x) /\ Append(s, x) \in Seq(RelayUnit)
    BY AppendIs
  <1>2. Append(s, x) \o <<b>> = Append(Append(s, x), b)
    BY <1>1, AppendIs
  <1>3. s \o <<x>> \o <<b>> = Append(Append(s, x), b)
    BY <1>1, <1>2
  <1> QED
    BY <1>1, <1>3

-----------------------------------------------------------------------------
LEMMA InitRead == Relay!Init => ReadInv
  <1> SUFFICES ASSUME Relay!Init PROVE ReadInv
    OBVIOUS
  <1>1. /\ mode \in [udp : BOOLEAN, noDelay : BOOLEAN] /\ phase = "dial" /\ carries = TRUE
        /\ status = "none" /\ replies = <<>> /\ unread = <<>> /\ once = FALSE
        /\ reads = "idle" /\ room = 0 /\ dlen = 0 /\ fault = "none" /\ returned = <<>>
    BY GostAssumption, Zenon DEF Relay!Init, Relay!RelayConnAssumption
  <1>2. ReadTypes
    <2>1. <<>> \in Seq(Nat) /\ <<>> \in Seq(RelayUnit) /\ <<>> \in Seq(GotSet) /\ 0 \in Nat
      OBVIOUS
    <2> QED
      BY <1>1, <2>1, Zenon DEF ReadTypes
  <1>3. Wanted
    BY <1>1, Zenon DEF Wanted
  <1>4. ReadControl
    BY <1>1, <1>3 DEF ReadControl
  <1>5. Consumed = 0
    BY <1>3, Zenon DEF Consumed
  <1>6. Given(returned, replies, mode)
    BY <1>1 DEF Given
  <1>7. Lined(unread, 0, replies, mode)
    BY <1>1 DEF Lined, StreamEnd
  <1>8. ReadStream
    BY <1>1, <1>5, <1>6, <1>7 DEF ReadStream
  <1> QED
    BY <1>2, <1>4, <1>8, Zenon DEF ReadInv

LEMMA ConsumedNat == ReadTypes => Consumed \in Nat
  <1> SUFFICES ASSUME ReadTypes PROVE Consumed \in Nat
    OBVIOUS
  <1>1. Len(returned) \in Nat
    BY DEF ReadTypes
  <1>2. StreamEnd(mode, Len(returned)) \in Nat
    BY <1>1, EndFacts, Zenon
  <1> HIDE DEF Wanted
  <1> QED
    BY <1>2 DEF Consumed

\* The connection may break, no unit moves.
LEMMA QuietRead ==
    ASSUME ReadInv, UNCHANGED <<mode, phase, status, replies, unread, once, reads, room, dlen, fault, returned>>,
           carries' = carries \/ carries' = FALSE
    PROVE  ReadInv'
  <1>1. Wanted' <=> Wanted
    BY Zenon DEF Wanted
  <1>2. Consumed' = Consumed
    BY <1>1, Zenon DEF Consumed
  <1>3. ReadTypes'
    BY Zenon DEF ReadInv, ReadTypes
  <1>4. ReadControl'
    BY <1>1, Zenon DEF ReadInv, ReadControl
  <1>5. ReadStream'
    BY <1>2, Zenon DEF ReadInv, ReadStream
  <1> QED
    BY <1>3, <1>4, <1>5, Zenon DEF ReadInv

LEMMA WriteRead == ASSUME ReadInv, (\E n \in RelayLens : Relay!Write(n)) \/ Relay!WriteBody PROVE ReadInv'
  <1>1. UNCHANGED <<mode, phase, status, replies, unread, once, reads, room, dlen, fault, returned>>
    BY Zenon DEF Relay!Write, Relay!WriteBody, Relay!server, Relay!reader
  <1>2. carries' = carries \/ carries' = FALSE
    BY Zenon DEF Relay!Write, Relay!WriteBody, Relay!Sent, Relay!SendFails
  <1> QED
    BY <1>1, <1>2, QuietRead, Zenon

LEMMA DialRead == ASSUME ReadInv, Relay!Dial PROVE ReadInv'
  <1>1. /\ phase = "dial" /\ UNCHANGED <<mode, status, replies, unread, once, reads, room, dlen, fault, returned>>
        /\ \/ mode.noDelay /\ phase' = "wait" /\ carries' = carries
           \/ phase' = "failed" /\ carries' = FALSE
           \/ ~mode.noDelay /\ phase' = "open" /\ carries' = carries
    BY Zenon DEF Relay!Dial, Relay!Sent, Relay!SendFails, Relay!server, Relay!reader
  <1>2. reads = "idle" /\ once = FALSE /\ fault = "none" /\ returned = <<>>
    BY <1>1, Zenon DEF ReadInv, ReadControl
  <1>3. Wanted /\ (phase' # "failed" => Wanted')
    BY <1>1, <1>2, Zenon DEF Wanted
  <1>4. Consumed = 0 /\ (phase' # "failed" => Consumed' = 0)
    BY <1>3, Zenon DEF Consumed
  <1>5. ReadTypes'
    BY <1>1, Zenon DEF ReadInv, ReadTypes
  <1>6. ReadControl'
    BY <1>1, <1>2, <1>3 DEF ReadInv, ReadControl
  <1>7. ReadStream'
    BY <1>1, <1>2, <1>4 DEF ReadInv, ReadStream
  <1> QED
    BY <1>5, <1>6, <1>7, Zenon DEF ReadInv

\* One unit has been read.
LEMMA LinedTail ==
    ASSUME NEW s \in Seq(RelayUnit), s # <<>>, NEW c \in Nat, NEW rs \in Seq(Nat), NEW m, Lined(s, c, rs, m)
    PROVE  /\ Lined(Tail(s), c + 1, rs, m) /\ Tail(s) \in Seq(RelayUnit)
           /\ Len(s) \in Nat /\ Len(s) > 0 /\ Len(Tail(s)) = Len(s) - 1
  <1> DEFINE t == Tail(s)
  <1>1. t \in Seq(RelayUnit)
    OBVIOUS
  <1>2. 1 \in 0 .. Len(s)
    OBVIOUS
  <1>3. Len(t) = Len(s) - 1 /\ Len(s) \in Nat /\ Len(s) > 0
    OBVIOUS
  <1>4. \A i \in 1 .. Len(t) : t[i] = s[i + 1]
    OBVIOUS
  <1> HIDE DEF t
  <1>5. Lined(t, c + 1, rs, m)
    BY <1>1, <1>2, <1>3, <1>4, LinedShift, Zenon
  <1> QED
    BY <1>1, <1>3, <1>5 DEF t

\* The response is off the stream.
LEMMA ResponseRead ==
    ASSUME ReadTypes, Relay!ResponseArrived, unread' = Tail(unread), replies' = replies, mode' = mode,
           Lined(unread, 0, replies, mode)
    PROVE  /\ unread' \in Seq(RelayUnit) /\ Len(unread') = Len(unread) - 1 /\ Len(unread) \in Nat /\ unread # <<>>
           /\ Lined(unread', 1, replies', mode')
  <1>1. unread \in Seq(RelayUnit) /\ replies \in Seq(Nat) /\ unread # <<>>
    BY Zenon DEF ReadTypes, Relay!ResponseArrived
  <1>2. 0 \in Nat /\ 0 + 1 = 1
    OBVIOUS
  <1>3. /\ Lined(Tail(unread), 0 + 1, replies, mode) /\ Tail(unread) \in Seq(RelayUnit)
        /\ Len(unread) \in Nat /\ Len(Tail(unread)) = Len(unread) - 1
    BY <1>1, <1>2, LinedTail, Zenon
  <1> QED
    BY <1>1, <1>2, <1>3, Zenon

LEMMA DialResponseRead == ASSUME ReadInv, Relay!DialResponse PROVE ReadInv'
  <1>1. /\ phase = "wait" /\ UNCHANGED <<mode, status, replies, once, reads, room, dlen, fault, returned>>
        /\ \/ Relay!ResponseArrived /\ unread' = Tail(unread) /\ status = "ok" /\ phase' = "open" /\ carries' = carries
           \/ phase' = "failed" /\ carries' = FALSE /\ ((Relay!ResponseArrived /\ unread' = Tail(unread)) \/ unread' = unread)
    <2>1. carries \in BOOLEAN
      BY Zenon DEF ReadInv, ReadTypes
    <2> QED
      BY <2>1, Zenon DEF Relay!DialResponse, Relay!server, Relay!reader
  <1>2. reads = "idle" /\ once = FALSE /\ fault = "none" /\ returned = <<>> /\ mode.noDelay
    BY <1>1, Zenon DEF ReadInv, ReadControl
  <1>3. Wanted /\ ~(phase' = "open" /\ Wanted')
    BY <1>1, <1>2 DEF Wanted
  <1>4. Consumed = 0 /\ (phase' = "open" => Consumed' = 1)
    <2>1. Len(returned) = 0
      BY <1>2
    <2>2. StreamEnd(mode, 0) = 1
      BY EndFacts
    <2> QED
      BY <1>1, <1>2, <1>3, <2>1, <2>2 DEF Consumed
  <1>5. Lined(unread, 0, replies, mode) /\ (carries = TRUE /\ status # "none" => Len(unread) = StreamEnd(mode, Len(replies)))
    BY <1>1, <1>2, <1>4 DEF ReadInv, ReadStream, ReadTypes
  <1>6. Relay!ResponseArrived /\ unread' = Tail(unread) =>
            /\ unread' \in Seq(RelayUnit) /\ Len(unread') = Len(unread) - 1 /\ Len(unread) \in Nat /\ unread # <<>>
            /\ Lined(unread', 1, replies', mode')
    BY <1>1, <1>5, ResponseRead, Zenon DEF ReadInv
  <1>7. ReadTypes'
    BY <1>1, <1>6, Zenon DEF ReadInv, ReadTypes
  <1>8. ReadControl'
    <2>1. status = "none" => unread' = unread
      BY <1>1, <1>6, Zenon DEF ReadInv, ReadControl
    <2> QED
      BY <1>1, <1>2, <1>3, <2>1 DEF ReadInv, ReadControl
  <1>9. ReadStream'
    <2>1. Given(returned', replies', mode') /\ (mode'.udp => \A i \in 1 .. Len(replies') : replies'[i] <= MaxLength)
      BY <1>1, Zenon DEF ReadInv, ReadStream
    <2>2. phase' = "open" => Lined(unread', Consumed', replies', mode')
      BY <1>1, <1>4, <1>6, Zenon
    <2>3. phase' = "open" /\ carries' = TRUE /\ status' # "none" => Len(unread') + Consumed' = StreamEnd(mode', Len(replies'))
      BY <1>1, <1>4, <1>5, <1>6
    <2> QED
      BY <1>1, <1>2, <2>1, <2>2, <2>3 DEF ReadStream
  <1> QED
    BY <1>7, <1>8, <1>9, Zenon DEF ReadInv

LEMMA AnswerRead ==
    ASSUME ReadInv, NEW s \in {"ok", "refused"}, Relay!Answer(s) PROVE ReadInv'
  <1>1. /\ status = "none" /\ status' = s /\ carries = TRUE /\ unread' = Append(unread, Relay!Response)
        /\ UNCHANGED <<mode, phase, carries, replies, once, reads, room, dlen, fault, returned>>
    <2>1. carries \in BOOLEAN
      BY Zenon DEF ReadInv, ReadTypes
    <2> QED
      BY <2>1, Zenon DEF Relay!Answer, Relay!client, Relay!reader
  <1>2. phase # "failed" /\ fault = "none" /\ unread = <<>> /\ replies = <<>>
    BY <1>1 DEF ReadInv, ReadControl
  <1>3. Wanted /\ (Wanted' <=> Wanted)
    <2>1. Wanted
      BY <1>1, <1>2 DEF ReadInv, ReadControl, Wanted
    <2>2. Wanted' <=> Wanted
      BY <1>1, Zenon DEF Wanted
    <2> QED
      BY <2>1, <2>2, Zenon
  <1>4. Consumed = 0 /\ Consumed' = 0
    BY <1>3, Zenon DEF Consumed
  <1>5. unread' = <<Relay!Response>> /\ Relay!Response \in RelayUnit /\ Len(unread') = 1 /\ unread'[1] = Relay!Response
    BY <1>1, <1>2 DEF Relay!Response, RelayUnit
  <1>6. Len(replies) = 0 /\ StreamEnd(mode, 0) = 1
    BY <1>2, EndFacts
  <1>7. Lined(unread', 0, replies', mode')
    BY <1>1, <1>5, <1>6 DEF Lined
  <1>8. ReadTypes'
    <2>1. unread' \in Seq(RelayUnit)
      BY <1>5
    <2> QED
      BY <1>1, <2>1, Zenon DEF ReadInv, ReadTypes
  <1>9. ReadControl'
    BY <1>1, <1>2, <1>3 DEF ReadInv, ReadControl
  <1>10. ReadStream'
    <2>1. /\ Given(returned', replies', mode') /\ (mode'.udp => \A i \in 1 .. Len(replies') : replies'[i] <= MaxLength)
          /\ reads' = "datagram" => Len(returned') < Len(replies') /\ dlen' = replies'[Len(returned') + 1]
      BY <1>1, Zenon DEF ReadInv, ReadStream
    <2>2. Len(unread') + Consumed' = StreamEnd(mode', Len(replies'))
      BY <1>1, <1>4, <1>5, <1>6
    <2> QED
      BY <1>4, <1>7, <2>1, <2>2, Zenon DEF ReadStream
  <1> QED
    BY <1>8, <1>9, <1>10, Zenon DEF ReadInv

\* The reader's answers stand when a reply is added.
LEMMA GivenMore ==
    ASSUME NEW g \in Seq(GotSet), NEW rs \in Seq(Nat), NEW m, Given(g, rs, m), NEW n \in Nat
    PROVE  Given(g, Append(rs, n), m)
  <1> DEFINE q == Append(rs, n)
  <1>1. Len(q) = Len(rs) + 1 /\ Len(rs) \in Nat /\ Len(g) \in Nat /\ \A i \in 1 .. Len(rs) : q[i] = rs[i]
    OBVIOUS
  <1> HIDE DEF q
  <1>2. Len(g) <= Len(rs)
    BY DEF Given
  <1>3. Len(g) <= Len(q) /\ \A i \in 1 .. Len(g) : q[i] = rs[i]
    BY <1>1, <1>2
  <1>4. Given(g, q, m)
    BY <1>3, Zenon DEF Given
  <1> QED
    BY <1>4 DEF q

LEMMA ReplyRead ==
    ASSUME ReadInv, NEW n \in Nat, Relay!Reply(n) PROVE ReadInv'
  <1>1. /\ status = "ok" /\ carries = TRUE /\ (mode.udp => n <= MaxLength) /\ replies' = Append(replies, n)
        /\ unread' = unread \o (IF mode.udp THEN <<Relay!Length(n)>> ELSE <<>>) \o <<Relay!Body(Len(replies) + 1, n)>>
        /\ UNCHANGED <<mode, phase, carries, status, once, reads, room, dlen, fault, returned>>
    <2>1. carries \in BOOLEAN
      BY Zenon DEF ReadInv, ReadTypes
    <2> QED
      BY <2>1, Zenon DEF Relay!Reply, Relay!client, Relay!reader
  <1>2. phase # "failed" /\ fault = "none"
    BY <1>1 DEF ReadInv, ReadControl
  <1>3. Wanted' <=> Wanted
    BY <1>1, Zenon DEF Wanted
  <1>4. Consumed' = Consumed
    BY <1>1, <1>3, Zenon DEF Consumed
  <1>5. unread \in Seq(RelayUnit) /\ replies \in Seq(Nat) /\ returned \in Seq(GotSet)
    BY Zenon DEF ReadInv, ReadTypes
  <1>6. /\ Len(replies) \in Nat /\ Len(replies) + 1 \in Nat /\ replies' \in Seq(Nat)
        /\ Len(replies') = Len(replies) + 1 /\ replies'[Len(replies) + 1] = n
        /\ \A i \in 1 .. Len(replies) : replies'[i] = replies[i]
    BY <1>1, <1>5
  <1>7. /\ unread' \in Seq(RelayUnit) /\ (mode.udp => Len(unread') = Len(unread) + 2) /\ (~mode.udp => Len(unread') = Len(unread) + 1)
        /\ \A j \in 1 .. Len(unread) : unread'[j] = unread[j]
        /\ unread'[Len(unread')] = Relay!Body(Len(replies) + 1, n) /\ (mode.udp => unread'[Len(unread') - 1] = Relay!Length(n))
    <2> DEFINE u == Relay!Body(Len(replies) + 1, n)
               x == Relay!Length(n)
    <2>1. unread \in Seq(RelayUnit)
      BY <1>5, Zenon
    <2>2. u \in RelayUnit
      BY <1>6, RelayUnitFacts
    <2>3. CASE mode.udp
      <3>1. x \in RelayUnit
        BY <1>1, <2>3, LengthFacts
      <3>2. unread' = unread \o <<x>> \o <<u>>
        BY <1>1, <2>3, Zenon
      <3> HIDE DEF u, x
      <3>3. /\ unread' \in Seq(RelayUnit) /\ Len(unread') = Len(unread) + 2 /\ \A j \in 1 .. Len(unread) : unread'[j] = unread[j]
            /\ unread'[Len(unread')] = u /\ unread'[Len(unread') - 1] = x
        <4> DEFINE w == unread \o <<x>> \o <<u>>
        <4>1. /\ w \in Seq(RelayUnit) /\ Len(w) = Len(unread) + 2 /\ \A j \in 1 .. Len(unread) : w[j] = unread[j]
              /\ w[Len(w)] = u /\ w[Len(w) - 1] = x
          BY <2>1, <2>2, <3>1, TwoMore
        <4> QED
          BY <3>2, <4>1, Zenon
      <3> QED
        BY <2>3, <3>3, Zenon DEF u, x
    <2>4. CASE ~mode.udp
      <3>2. unread' = unread \o <<>> \o <<u>>
        BY <1>1, <2>4, Zenon
      <3> HIDE DEF u, x
      <3>3. /\ unread' \in Seq(RelayUnit) /\ Len(unread') = Len(unread) + 1 /\ \A j \in 1 .. Len(unread) : unread'[j] = unread[j]
            /\ unread'[Len(unread')] = u
        BY <2>1, <2>2, <3>2, OneMore
      <3> QED
        BY <2>4, <3>3, Zenon DEF u, x
    <2> QED
      BY <2>3, <2>4, Zenon
  <1>8. Consumed \in Nat
    BY ConsumedNat, Zenon DEF ReadInv
  <1>9. Lined(unread, Consumed, replies, mode) /\ Len(unread) + Consumed = StreamEnd(mode, Len(replies))
    BY <1>1, <1>2 DEF ReadInv, ReadStream
  <1>10. /\ StreamEnd(mode, Len(replies)) \in Nat
         /\ StreamEnd(mode, Len(replies) + 1) = StreamEnd(mode, Len(replies)) + IF mode.udp THEN 2 ELSE 1
    BY <1>6, EndFacts, Zenon
  <1>11. Len(unread') + Consumed = StreamEnd(mode, Len(replies) + 1)
    <2>1. Len(unread) \in Nat
      BY <1>5
    <2> QED
      <3>1. CASE mode.udp
        <4>1. Len(unread') = Len(unread) + 2
          BY <1>7, <3>1, Zenon
        <4>2. StreamEnd(mode, Len(replies) + 1) = StreamEnd(mode, Len(replies)) + 2
          BY <1>10, <3>1
        <4> QED
          BY <1>8, <1>9, <1>10, <2>1, <4>1, <4>2
      <3>2. CASE ~mode.udp
        <4>1. Len(unread') = Len(unread) + 1
          BY <1>7, <3>2, Zenon
        <4>2. StreamEnd(mode, Len(replies) + 1) = StreamEnd(mode, Len(replies)) + 1
          BY <1>10, <3>2
        <4> QED
          BY <1>8, <1>9, <1>10, <2>1, <4>1, <4>2
      <3> QED
        BY <3>1, <3>2, Zenon
  <1>12. Lined(unread', Consumed, replies', mode)
    <2>1. unread \in Seq(RelayUnit) /\ unread' \in Seq(RelayUnit) /\ replies \in Seq(Nat) /\ replies' \in Seq(Nat)
      BY <1>5, <1>6, <1>7, Zenon
    <2>2. replies' = Append(replies, n)
      BY <1>1, Zenon
    <2>3. /\ \A i \in 1 .. Len(unread) : unread'[i] = unread[i]
          /\ unread'[Len(unread')] = Relay!Body(Len(replies) + 1, n)
          /\ mode.udp => unread'[Len(unread') - 1] = Relay!Length(n)
      BY <1>7, Zenon
    <2> QED
      BY <1>8, <1>9, <1>11, <2>1, <2>2, <2>3, LinedReply, Zenon
  <1>13. ReadTypes'
    BY <1>1, <1>6, <1>7, Zenon DEF ReadInv, ReadTypes
  <1>14. ReadControl'
    BY <1>1, <1>2, <1>3 DEF ReadInv, ReadControl
  <1>15. ReadStream'
    <2>1. Given(returned', replies', mode')
      BY <1>1, <1>5, GivenMore, Zenon DEF ReadInv, ReadStream
    <2>2. mode'.udp => \A i \in 1 .. Len(replies') : replies'[i] <= MaxLength
      <3> SUFFICES ASSUME mode'.udp, NEW i \in 1 .. Len(replies') PROVE replies'[i] <= MaxLength
        BY Zenon
      <3>1. i \in 1 .. Len(replies) \/ i = Len(replies) + 1
        BY <1>6
      <3>2. mode.udp /\ n <= MaxLength /\ \A j \in 1 .. Len(replies) : replies[j] <= MaxLength
        BY <1>1, Zenon DEF ReadInv, ReadStream
      <3> QED
        BY <1>6, <3>1, <3>2, Zenon
    <2>3. reads' = "datagram" => Len(returned') < Len(replies') /\ dlen' = replies'[Len(returned') + 1]
      <3> SUFFICES ASSUME reads = "datagram"
                   PROVE  Len(returned) < Len(replies') /\ dlen = replies'[Len(returned) + 1]
        BY <1>1, Zenon
      <3>1. Len(returned) < Len(replies) /\ dlen = replies[Len(returned) + 1]
        BY Zenon DEF ReadInv, ReadStream
      <3>2. Len(returned) \in Nat
        BY <1>5
      <3> QED
        BY <1>6, <3>1, <3>2
    <2>4. Lined(unread', Consumed', replies', mode') /\ Len(unread') + Consumed' = StreamEnd(mode', Len(replies'))
      BY <1>1, <1>4, <1>6, <1>11, <1>12, Zenon
    <2> QED
      BY <2>1, <2>2, <2>3, <2>4, Zenon DEF ReadStream
  <1> QED
    BY <1>13, <1>14, <1>15, Zenon DEF ReadInv

LEMMA BreakRead == ASSUME ReadInv, Relay!Break PROVE ReadInv'
  <1>1. /\ carries' = FALSE /\ UNCHANGED <<mode, phase, status, replies, once, reads, room, dlen, fault, returned>>
        /\ \E k \in 0 .. Len(unread) : unread' = SubSeq(unread, 1, k)
    BY Zenon DEF Relay!Break, Relay!client, Relay!server, Relay!reader
  <1>2. unread \in Seq(RelayUnit) /\ replies \in Seq(Nat)
    BY Zenon DEF ReadInv, ReadTypes
  <1>3. unread' \in Seq(RelayUnit) /\ Len(unread') <= Len(unread) /\ \A i \in 1 .. Len(unread') : unread'[i] = unread[i]
    BY <1>1, <1>2
  <1>4. unread = <<>> => unread' = <<>>
    BY <1>2, <1>3
  <1>5. Wanted' <=> Wanted
    BY <1>1, Zenon DEF Wanted
  <1>6. Consumed' = Consumed
    BY <1>1, <1>5, Zenon DEF Consumed
  <1>7. ReadTypes'
    <2>1. carries' \in BOOLEAN
      BY <1>1, Zenon
    <2> QED
      BY <1>1, <1>3, <2>1, Zenon DEF ReadInv, ReadTypes
  <1>8. ReadControl'
    BY <1>1, <1>4, <1>5 DEF ReadInv, ReadControl
  <1>9. ReadStream'
    <2>1. /\ Given(returned', replies', mode') /\ (mode'.udp => \A i \in 1 .. Len(replies') : replies'[i] <= MaxLength)
          /\ reads' = "datagram" => Len(returned') < Len(replies') /\ dlen' = replies'[Len(returned') + 1]
      BY <1>1, Zenon DEF ReadInv, ReadStream
    <2>2. Consumed \in Nat
      BY ConsumedNat, Zenon DEF ReadInv
    <2>3. phase' # "failed" /\ fault' = "none" => Lined(unread, Consumed, replies, mode)
      BY <1>1, Zenon DEF ReadInv, ReadStream
    <2>4. phase' # "failed" /\ fault' = "none" => Lined(unread', Consumed', replies', mode')
      BY <1>1, <1>2, <1>3, <1>6, <2>2, <2>3, LinedCut, Zenon
    <2>5. carries' # TRUE
      BY <1>1, Zenon
    <2> QED
      BY <2>1, <2>4, <2>5, Zenon DEF ReadStream
  <1> QED
    BY <1>7, <1>8, <1>9, Zenon DEF ReadInv

LEMMA ReadRead == ASSUME ReadInv, NEW n \in Nat, Relay!Read(n) PROVE ReadInv'
  <1>1. /\ phase = "open" /\ reads = "idle" /\ fault = "none" /\ room' = n /\ once' = TRUE
        /\ UNCHANGED <<mode, phase, carries, status, replies, unread, dlen, fault, returned>>
        /\ \/ once = FALSE /\ ~mode.noDelay /\ reads' = "response"
           \/ once = TRUE /\ mode.udp /\ reads' = "length"
           \/ once = TRUE /\ ~mode.udp /\ reads' = "data"
           \/ mode.noDelay /\ mode.udp /\ reads' = "length"
           \/ mode.noDelay /\ ~mode.udp /\ reads' = "data"
    <2>1. once \in BOOLEAN
      BY Zenon DEF ReadInv, ReadTypes
    <2> QED
      BY <2>1, Zenon DEF Relay!Read, Relay!AfterResponse, Relay!client, Relay!server
  <1>2. Wanted' <=> Wanted
    BY <1>1 DEF Wanted
  <1>3. Consumed' = Consumed
    BY <1>1, <1>2 DEF Consumed
  <1>4. ReadTypes'
    <2>1. once' \in BOOLEAN
      BY <1>1, Zenon
    <2> QED
      BY <1>1, <2>1, Zenon DEF ReadInv, ReadTypes
  <1>5. ReadControl'
    BY <1>1, <1>2 DEF ReadInv, ReadControl
  <1>6. ReadStream'
    <2>1. reads' # "datagram"
      BY <1>1
    <2> QED
      BY <1>1, <1>3, <2>1, Zenon DEF ReadInv, ReadStream
  <1> QED
    BY <1>4, <1>5, <1>6, Zenon DEF ReadInv

LEMMA ReadResponseRead == ASSUME ReadInv, Relay!ReadResponse PROVE ReadInv'
  <1>1. /\ reads = "response" /\ Relay!ResponseArrived /\ unread' = Tail(unread)
        /\ UNCHANGED <<mode, phase, carries, status, replies, once, room, dlen, returned>>
        /\ \/ status = "ok" /\ mode.udp /\ reads' = "length" /\ fault' = fault
           \/ status = "ok" /\ ~mode.udp /\ reads' = "data" /\ fault' = fault
           \/ status # "ok" /\ reads' = "idle" /\ fault' = "status"
    BY Zenon DEF Relay!ReadResponse, Relay!AfterResponse, Relay!client, Relay!server
  <1>2. phase = "open" /\ once = TRUE /\ fault = "none" /\ ~mode.noDelay
    BY <1>1 DEF ReadInv, ReadControl
  <1>3. Wanted /\ ~Wanted'
    BY <1>1, <1>2 DEF Wanted
  <1>4. returned = <<>>
    BY <1>3, Zenon DEF ReadInv, ReadControl
  <1>5. Consumed = 0 /\ Consumed' = 1
    <2>1. Len(returned) = 0
      BY <1>4
    <2>2. StreamEnd(mode, 0) = 1
      BY EndFacts
    <2> QED
      BY <1>1, <1>3, <2>1, <2>2 DEF Consumed
  <1>6. Lined(unread, 0, replies, mode) /\ (carries = TRUE /\ status # "none" => Len(unread) = StreamEnd(mode, Len(replies)))
    BY <1>1, <1>2, <1>5, SMTT(20) DEF ReadInv, ReadStream, ReadTypes
  <1>7. /\ unread' \in Seq(RelayUnit) /\ Len(unread') = Len(unread) - 1 /\ Len(unread) \in Nat /\ unread # <<>>
        /\ Lined(unread', 1, replies', mode')
    BY <1>1, <1>6, ResponseRead, Zenon DEF ReadInv
  <1>8. ReadTypes'
    BY <1>1, <1>7, Zenon DEF ReadInv, ReadTypes
  <1>9. ReadControl'
    <2>1. status # "none"
      BY <1>7, Zenon DEF ReadInv, ReadControl
    <2> QED
      BY <1>1, <1>2, <1>3, <1>4, <2>1 DEF ReadInv, ReadControl
  <1>10. ReadStream'
    <2>1. Given(returned', replies', mode') /\ (mode'.udp => \A i \in 1 .. Len(replies') : replies'[i] <= MaxLength)
      BY <1>1, Zenon DEF ReadInv, ReadStream
    <2>2. Lined(unread', Consumed', replies', mode')
      BY <1>5, <1>7, Zenon
    <2>3. carries' = TRUE /\ status' # "none" => Len(unread') + Consumed' = StreamEnd(mode', Len(replies'))
      BY <1>1, <1>5, <1>6, <1>7
    <2>4. reads' # "datagram"
      BY <1>1
    <2> QED
      BY <2>1, <2>2, <2>3, <2>4, Zenon DEF ReadStream
  <1> QED
    BY <1>8, <1>9, <1>10, Zenon DEF ReadInv

LEMMA ReadErrorRead == ASSUME ReadInv, Relay!ReadError PROVE ReadInv'
  <1>1. /\ reads # "idle" /\ carries = FALSE /\ reads' = "idle" /\ fault' = "EOF"
        /\ UNCHANGED <<mode, phase, carries, status, replies, unread, once, room, dlen, returned>>
    <2>1. carries \in BOOLEAN
      BY Zenon DEF ReadInv, ReadTypes
    <2> QED
      BY <2>1, Zenon DEF Relay!ReadError, Relay!client, Relay!server
  <1>2. Wanted' => Wanted
    BY <1>1 DEF Wanted
  <1>3. phase = "open" /\ once = TRUE
    BY <1>1 DEF ReadInv, ReadControl
  <1>4. ReadTypes'
    BY <1>1, Zenon DEF ReadInv, ReadTypes
  <1>5. ReadControl'
    BY <1>1, <1>2, <1>3 DEF ReadInv, ReadControl
  <1>6. ReadStream'
    <2>1. reads' # "datagram" /\ fault' # "none"
      BY <1>1
    <2> QED
      BY <1>1, <2>1, Zenon DEF ReadInv, ReadStream
  <1> QED
    BY <1>4, <1>5, <1>6, Zenon DEF ReadInv

\* The first k units of what is to be read are the next replies of a stream of bytes.
LEMMA NextBytes ==
    ASSUME NEW s \in Seq(RelayUnit), NEW g \in Nat, NEW rs \in Seq(Nat), NEW m, ~m.udp, Lined(s, 1 + g, rs, m),
           NEW j \in 1 .. Len(s)
    PROVE  g + j \in 1 .. Len(rs) /\ s[j].num = g + j
  <1>0. Len(s) \in Nat /\ Len(rs) \in Nat
    OBVIOUS
  <1>1. \A i \in Nat : StreamEnd(m, i) = 1 + i
    BY DEF StreamEnd
  <1>2. g + j \in 1 .. Len(rs)
    BY <1>0, <1>1 DEF Lined
  <1>3. StreamEnd(m, g + j) - (1 + g) = j
    <2>1. g + j \in Nat /\ j \in Nat
      BY <1>0
    <2>2. StreamEnd(m, g + j) = 1 + (g + j)
      BY <1>1, <2>1, Zenon
    <2> QED
      BY <2>1, <2>2
  <1>4. s[j] = Relay!Body(g + j, rs[g + j])
    <2>1. StreamEnd(m, g + j) - (1 + g) \in 1 .. Len(s) => s[StreamEnd(m, g + j) - (1 + g)] = Relay!Body(g + j, rs[g + j])
      BY <1>2, Zenon DEF Lined
    <2> QED
      BY <1>3, <2>1
  <1>5. Relay!Body(g + j, rs[g + j]).num = g + j
    BY DEF Relay!Body
  <1> QED
    BY <1>2, <1>4, <1>5, Zenon

\* The next unit to be read of a stream of datagrams is a length, or the body behind it.
LEMMA NextLength ==
    ASSUME NEW s \in Seq(RelayUnit), NEW g \in Nat, NEW rs \in Seq(Nat), NEW m, m.udp,
           Lined(s, StreamEnd(m, g), rs, m), s # <<>>
    PROVE  g < Len(rs) /\ s[1] = Relay!Length(rs[g + 1])
  <1>0. Len(s) \in Nat /\ Len(s) > 0 /\ Len(rs) \in Nat /\ 1 \in 1 .. Len(s)
    OBVIOUS
  <1>1. \A i \in Nat : StreamEnd(m, i) = 1 + 2 * i
    BY DEF StreamEnd
  <1>2. g < Len(rs) /\ g + 1 \in 1 .. Len(rs)
    <2>1. Len(s) + StreamEnd(m, g) <= StreamEnd(m, Len(rs))
      BY Zenon DEF Lined
    <2>2. StreamEnd(m, g) = 1 + 2 * g /\ StreamEnd(m, Len(rs)) = 1 + 2 * Len(rs)
      BY <1>0, <1>1, Zenon
    <2> QED
      BY <1>0, <2>1, <2>2
  <1>3. StreamEnd(m, g + 1) - 1 - StreamEnd(m, g) = 1
    BY <1>1
  <1>4. StreamEnd(m, g + 1) - 1 - StreamEnd(m, g) \in 1 .. Len(s) => s[StreamEnd(m, g + 1) - 1 - StreamEnd(m, g)] = Relay!Length(rs[g + 1])
    BY <1>2, Zenon DEF Lined
  <1> QED
    BY <1>0, <1>2, <1>3, <1>4

LEMMA NextBody ==
    ASSUME NEW s \in Seq(RelayUnit), NEW g \in Nat, NEW rs \in Seq(Nat), NEW m, m.udp,
           Lined(s, StreamEnd(m, g) + 1, rs, m), s # <<>>, g < Len(rs)
    PROVE  s[1] = Relay!Body(g + 1, rs[g + 1])
  <1>0. Len(s) \in Nat /\ Len(s) > 0 /\ Len(rs) \in Nat /\ 1 \in 1 .. Len(s) /\ g + 1 \in 1 .. Len(rs)
    OBVIOUS
  <1>1. \A i \in Nat : StreamEnd(m, i) = 1 + 2 * i
    BY DEF StreamEnd
  <1>3. StreamEnd(m, g + 1) - (StreamEnd(m, g) + 1) = 1
    BY <1>1
  <1>4. StreamEnd(m, g + 1) - (StreamEnd(m, g) + 1) \in 1 .. Len(s) =>
            s[StreamEnd(m, g + 1) - (StreamEnd(m, g) + 1)] = Relay!Body(g + 1, rs[g + 1])
    BY <1>0, Zenon DEF Lined
  <1> QED
    BY <1>0, <1>3, <1>4

\* While the reader is past the response, all of the stream up to here has been read.
LEMMA ReadingFacts ==
    ASSUME ReadInv, reads \in {"data", "length", "datagram"}
    PROVE  /\ phase = "open" /\ once = TRUE /\ fault = "none" /\ ~Wanted /\ status = "ok"
           /\ Lined(unread, Consumed, replies, mode)
           /\ carries = TRUE => Len(unread) + Consumed = StreamEnd(mode, Len(replies))
           /\ Len(returned) \in Nat /\ StreamEnd(mode, Len(returned)) \in Nat
           /\ Consumed = StreamEnd(mode, Len(returned)) + IF reads = "datagram" THEN 1 ELSE 0
  <1>1. phase = "open" /\ once = TRUE /\ fault = "none"
    BY DEF ReadInv, ReadControl
  <1>2. ~Wanted
    BY <1>1 DEF Wanted
  <1>3. status = "ok"
    BY <1>1, <1>2, Zenon DEF ReadInv, ReadControl
  <1>4. Lined(unread, Consumed, replies, mode) /\ (carries = TRUE => Len(unread) + Consumed = StreamEnd(mode, Len(replies)))
    BY <1>1, <1>3 DEF ReadInv, ReadStream
  <1>5. Len(returned) \in Nat
    BY DEF ReadInv, ReadTypes
  <1>6. StreamEnd(mode, Len(returned)) \in Nat
    BY <1>5, EndFacts, Zenon
  <1>7. Consumed = StreamEnd(mode, Len(returned)) + IF reads = "datagram" THEN 1 ELSE 0
    BY <1>2, Zenon DEF Consumed
  <1> QED
    BY <1>1, <1>2, <1>3, <1>4, <1>5, <1>6, <1>7, Zenon

LEMMA GotOf ==
    ASSUME NEW u \in RelayUnit, NEW r \in Nat
    PROVE  [num |-> u.num, len |-> 1, room |-> r] \in GotSet
  BY DEF RelayUnit, GotSet

LEMMA Joins ==
    ASSUME NEW S, NEW s \in Seq(S), NEW t \in Seq(S)
    PROVE  /\ s \o t \in Seq(S) /\ Len(s \o t) = Len(s) + Len(t)
           /\ \A i \in 1 .. Len(s) : (s \o t)[i] = s[i]
           /\ \A i \in 1 .. Len(t) : (s \o t)[Len(s) + i] = t[i]
  OBVIOUS

\* What ReadData hands over: k units of s.
Slices(s, k, r) == [i \in 1 .. k |-> [num |-> s[i].num, len |-> 1, room |-> r]]

\* k bytes are added to what the reader has been given.
LEMMA GivenBytes ==
    ASSUME NEW g \in Seq(GotSet), NEW rs \in Seq(Nat), NEW m, ~m.udp, Given(g, rs, m), NEW k \in Nat,
           NEW s \in Seq(RelayUnit), k <= Len(s), NEW r \in Nat,
           \A j \in 1 .. k : Len(g) + j \in 1 .. Len(rs) /\ s[j].num = Len(g) + j
    PROVE  /\ g \o Slices(s, k, r) \in Seq(GotSet) /\ Given(g \o Slices(s, k, r), rs, m)
           /\ Len(g \o Slices(s, k, r)) = Len(g) + k
  <1> DEFINE f == [i \in 1 .. k |-> [num |-> s[i].num, len |-> 1, room |-> r]]
             h == g \o f
  <1>1. f \in Seq(GotSet)
    <2>1. \A i \in 1 .. k : s[i] \in RelayUnit
      BY SMTT(20)
    <2>2. \A i \in 1 .. k : [num |-> s[i].num, len |-> 1, room |-> r] \in GotSet
      BY <2>1, GotOf, Zenon
    <2>3. f \in [1 .. k -> GotSet]
      BY <2>2, Zenon
    <2> HIDE DEF f
    <2> QED
      BY <2>3
  <1>2. Len(f) = k /\ \A i \in 1 .. k : f[i].num = s[i].num /\ f[i].len = 1
    <2>1. DOMAIN f = 1 .. k /\ \A i \in 1 .. k : f[i].num = s[i].num /\ f[i].len = 1
      OBVIOUS
    <2> HIDE DEF f
    <2> QED
      BY <1>1, <2>1, LenOfDomain, Zenon
  <1> HIDE DEF f
  <1>3. /\ h \in Seq(GotSet) /\ Len(h) = Len(g) + k /\ Len(g) \in Nat /\ Len(rs) \in Nat
        /\ \A i \in 1 .. Len(g) : h[i] = g[i]
        /\ \A i \in 1 .. k : h[Len(g) + i] = f[i]
    <2>1. h = g \o f
      OBVIOUS
    <2> HIDE DEF h
    <2>2. /\ g \o f \in Seq(GotSet) /\ Len(g \o f) = Len(g) + Len(f)
          /\ \A i \in 1 .. Len(g) : (g \o f)[i] = g[i]
          /\ \A i \in 1 .. Len(f) : (g \o f)[Len(g) + i] = f[i]
      BY <1>1, Joins, SMTT(20)
    <2>3. Len(g) \in Nat /\ Len(rs) \in Nat
      OBVIOUS
    <2> QED
      BY <1>2, <2>1, <2>2, <2>3, Zenon
  <1> HIDE DEF h
  <1>4. Len(h) <= Len(rs)
    <2>1. k = 0 => Len(g) <= Len(rs)
      BY DEF Given
    <2>2. k > 0 => k \in 1 .. k
      BY SMTT(20)
    <2>3. k > 0 => Len(g) + k \in 1 .. Len(rs)
      BY <2>2
    <2>4. Len(g) <= Len(rs)
      BY DEF Given
    <2> QED
      BY <1>3, <2>3, <2>4, SMTT(20)
  <1>5. ASSUME NEW i \in 1 .. Len(h) PROVE h[i].num = i /\ h[i].len = 1
    <2>1. CASE i <= Len(g)
      <3>1. i \in 1 .. Len(g)
        BY <1>3, <2>1
      <3>2. g[i].num = i /\ g[i].len = 1
        BY <3>1, Zenon DEF Given
      <3> QED
        BY <1>3, <3>1, <3>2, Zenon
    <2>2. CASE i > Len(g)
      <3> DEFINE j == i - Len(g)
      <3>1. j \in 1 .. k /\ i = Len(g) + j
        BY <1>3, <2>2
      <3> HIDE DEF j
      <3>2. h[i] = f[j] /\ f[j].num = s[j].num /\ f[j].len = 1 /\ s[j].num = Len(g) + j
        BY <1>2, <1>3, <3>1, Zenon
      <3> QED
        BY <3>1, <3>2, Zenon
    <2> QED
      BY <1>3, <2>1, <2>2, SMTT(20)
  <1>6. h \in Seq(GotSet) /\ Given(h, rs, m) /\ Len(h) = Len(g) + k
    BY <1>3, <1>4, <1>5, Zenon DEF Given
  <1>7. h = g \o Slices(s, k, r)
    BY DEF h, f, Slices
  <1> QED
    BY <1>6, <1>7, Zenon

LEMMA ReadDataRead == ASSUME ReadInv, Relay!ReadData PROVE ReadInv'
  <1>1. /\ reads = "data" /\ reads' = "idle"
        /\ UNCHANGED <<mode, phase, carries, status, replies, once, room, dlen, fault>>
    BY Zenon DEF Relay!ReadData, Relay!client, Relay!server
  <1>2. PICK k \in 1 .. Relay!Least(room, Len(unread)) :
            /\ unread' = SubSeq(unread, k + 1, Len(unread))
            /\ returned' = returned \o [i \in 1 .. k |-> [num |-> unread[i].num, len |-> 1, room |-> room]]
    BY Zenon DEF Relay!ReadData
  <1>3. unread \in Seq(RelayUnit) /\ replies \in Seq(Nat) /\ returned \in Seq(GotSet) /\ room \in Nat
    BY Zenon DEF ReadInv, ReadTypes
  <1>4. Len(unread) \in Nat /\ k \in Nat /\ k >= 1 /\ k <= Len(unread) /\ k \in 0 .. Len(unread)
    BY <1>3 DEF Relay!Least
  <1>5. ~mode.udp
    BY <1>1, Zenon DEF ReadInv, ReadControl
  <1>6. /\ phase = "open" /\ once = TRUE /\ fault = "none" /\ ~Wanted /\ status = "ok"
        /\ Lined(unread, Consumed, replies, mode)
        /\ carries = TRUE => Len(unread) + Consumed = StreamEnd(mode, Len(replies))
        /\ Len(returned) \in Nat
    BY <1>1, ReadingFacts, Zenon
  <1>7. Consumed = 1 + Len(returned)
    <2>1. StreamEnd(mode, Len(returned)) = 1 + Len(returned)
      BY <1>5, <1>6, EndFacts, Zenon
    <2> QED
      BY <1>1, <1>6, <2>1 DEF Consumed
  <1>8. Lined(unread, 1 + Len(returned), replies, mode)
    BY <1>6, <1>7, Zenon
  <1>9. \A j \in 1 .. k : Len(returned) + j \in 1 .. Len(replies) /\ unread[j].num = Len(returned) + j
    <2> SUFFICES ASSUME NEW j \in 1 .. k
                 PROVE  Len(returned) + j \in 1 .. Len(replies) /\ unread[j].num = Len(returned) + j
      BY Zenon
    <2>1. j \in 1 .. Len(unread)
      BY <1>4
    <2> QED
      BY <1>3, <1>5, <1>6, <1>8, <2>1, NextBytes, Zenon
  <1>10. Given(returned, replies, mode)
    BY Zenon DEF ReadInv, ReadStream
  <1>11. returned' \in Seq(GotSet) /\ Given(returned', replies, mode) /\ Len(returned') = Len(returned) + k
    <2>1. k \in Nat /\ k <= Len(unread)
      BY <1>4, Zenon
    <2>2. returned' = returned \o Slices(unread, k, room)
      BY <1>2, Zenon DEF Slices
    <2>3. /\ returned \o Slices(unread, k, room) \in Seq(GotSet) /\ Given(returned \o Slices(unread, k, room), replies, mode)
          /\ Len(returned \o Slices(unread, k, room)) = Len(returned) + k
      BY <1>3, <1>5, <1>9, <1>10, <2>1, GivenBytes, Zenon
    <2> QED
      BY <2>2, <2>3, Zenon
  <1>12. ~Wanted'
    BY <1>1, <1>6 DEF Wanted
  <1>13. Consumed' = Consumed + k
    <2>1. Consumed' = StreamEnd(mode, Len(returned')) + 0
      BY <1>1, <1>12 DEF Consumed
    <2>2. Len(returned') \in Nat
      BY <1>4, <1>6, <1>11
    <2>3. StreamEnd(mode, Len(returned')) = 1 + Len(returned')
      BY <1>5, <2>2, EndFacts, Zenon
    <2> QED
      BY <1>4, <1>6, <1>7, <1>11, <2>1, <2>3
  <1>14. /\ unread' \in Seq(RelayUnit) /\ Len(unread') = Len(unread) - k /\ \A i \in 1 .. Len(unread') : unread'[i] = unread[i + k]
    BY <1>2, <1>3, <1>4, SMTT(20)
  <1>15. Lined(unread', Consumed + k, replies, mode)
    <2>1. Consumed \in Nat
      BY ConsumedNat, Zenon DEF ReadInv
    <2> QED
      BY <1>3, <1>4, <1>6, <1>14, <2>1, LinedShift, Zenon
  <1>16. ReadTypes'
    BY <1>1, <1>11, <1>14, Zenon DEF ReadInv, ReadTypes
  <1>17. ReadControl'
    BY <1>1, <1>6, <1>12 DEF ReadInv, ReadControl
  <1>18. ReadStream'
    <2>1. mode'.udp => \A i \in 1 .. Len(replies') : replies'[i] <= MaxLength
      BY <1>1, Zenon DEF ReadInv, ReadStream
    <2>2. Given(returned', replies', mode') /\ Lined(unread', Consumed', replies', mode')
      BY <1>1, <1>11, <1>13, <1>15, Zenon
    <2>3. carries' = TRUE => Len(unread') + Consumed' = StreamEnd(mode', Len(replies'))
      <3>1. Len(unread') + Consumed' = Len(unread) + Consumed
        BY <1>4, <1>6, <1>7, <1>13, <1>14
      <3> QED
        BY <1>1, <1>6, <3>1, Zenon
    <2>4. reads' # "datagram"
      BY <1>1
    <2> QED
      BY <2>1, <2>2, <2>3, <2>4, Zenon DEF ReadStream
  <1> QED
    BY <1>16, <1>17, <1>18, Zenon DEF ReadInv

LEMMA ReadLengthRead == ASSUME ReadInv, Relay!ReadLength PROVE ReadInv'
  <1>1. /\ reads = "length" /\ reads' = "datagram" /\ unread # <<>> /\ dlen' = Head(unread).len /\ unread' = Tail(unread)
        /\ UNCHANGED <<mode, phase, carries, status, replies, once, room, fault, returned>>
    BY Zenon DEF Relay!ReadLength, Relay!client, Relay!server
  <1>2. unread \in Seq(RelayUnit) /\ replies \in Seq(Nat)
    BY Zenon DEF ReadInv, ReadTypes
  <1>3. mode.udp
    BY <1>1, Zenon DEF ReadInv, ReadControl
  <1>4. /\ phase = "open" /\ once = TRUE /\ fault = "none" /\ ~Wanted /\ status = "ok"
        /\ Lined(unread, Consumed, replies, mode)
        /\ carries = TRUE => Len(unread) + Consumed = StreamEnd(mode, Len(replies))
        /\ Len(returned) \in Nat /\ StreamEnd(mode, Len(returned)) \in Nat
    BY <1>1, ReadingFacts, Zenon
  <1>5. Consumed = StreamEnd(mode, Len(returned))
    BY <1>1, <1>4 DEF Consumed
  <1>6. Len(returned) < Len(replies) /\ unread[1] = Relay!Length(replies[Len(returned) + 1])
    BY <1>1, <1>2, <1>3, <1>4, <1>5, NextLength, Zenon
  <1>7. dlen' = replies[Len(returned) + 1] /\ dlen' \in Nat
    <2>1. Len(returned) + 1 \in 1 .. Len(replies)
      BY <1>2, <1>4, <1>6
    <2>2. replies[Len(returned) + 1] \in Nat /\ replies[Len(returned) + 1] <= MaxLength
      <3>1. replies[Len(returned) + 1] \in Nat
        BY <1>2, <2>1
      <3> QED
        BY <1>3, <2>1, <3>1, Zenon DEF ReadInv, ReadStream
    <2>3. Head(unread) = unread[1]
      BY <1>1, <1>2
    <2>4. Relay!Length(replies[Len(returned) + 1]).len = replies[Len(returned) + 1]
      BY <2>2, LengthFacts, Zenon
    <2> QED
      BY <1>1, <1>6, <2>2, <2>3, <2>4, Zenon
  <1>8. Consumed \in Nat
    BY ConsumedNat, Zenon DEF ReadInv
  <1>9. /\ Lined(Tail(unread), Consumed + 1, replies, mode) /\ Tail(unread) \in Seq(RelayUnit)
        /\ Len(unread) \in Nat /\ Len(unread) > 0 /\ Len(Tail(unread)) = Len(unread) - 1
    BY <1>1, <1>2, <1>4, <1>8, LinedTail, Zenon
  <1>10. ~Wanted'
    BY <1>1, <1>4 DEF Wanted
  <1>11. Consumed' = Consumed + 1
    BY <1>1, <1>5, <1>10 DEF Consumed
  <1>12. ReadTypes'
    BY <1>1, <1>7, <1>9, Zenon DEF ReadInv, ReadTypes
  <1>13. ReadControl'
    BY <1>1, <1>3, <1>4, <1>10 DEF ReadInv, ReadControl
  <1>14. ReadStream'
    <2>1. Given(returned', replies', mode') /\ (mode'.udp => \A i \in 1 .. Len(replies') : replies'[i] <= MaxLength)
      BY <1>1, Zenon DEF ReadInv, ReadStream
    <2>2. Lined(unread', Consumed', replies', mode')
      BY <1>1, <1>9, <1>11, Zenon
    <2>3. carries' = TRUE => Len(unread') + Consumed' = StreamEnd(mode', Len(replies'))
      <3>1. Len(unread') + Consumed' = Len(unread) + Consumed
        BY <1>1, <1>8, <1>9, <1>11
      <3> QED
        BY <1>1, <1>4, <3>1, Zenon
    <2>4. Len(returned') < Len(replies') /\ dlen' = replies'[Len(returned') + 1]
      BY <1>1, <1>6, <1>7, Zenon
    <2> QED
      BY <2>1, <2>2, <2>3, <2>4, Zenon DEF ReadStream
  <1> QED
    BY <1>12, <1>13, <1>14, Zenon DEF ReadInv

\* A datagram is added to what the reader has been given.
LEMMA GivenDatagram ==
    ASSUME NEW g \in Seq(GotSet), NEW rs \in Seq(Nat), NEW m, m.udp, Given(g, rs, m), Len(g) < Len(rs),
           NEW r \in Nat, NEW u \in GotSet,
           u = [num |-> Len(g) + 1, len |-> Relay!Least(r, rs[Len(g) + 1]), room |-> r]
    PROVE  Append(g, u) \in Seq(GotSet) /\ Given(Append(g, u), rs, m) /\ Len(Append(g, u)) = Len(g) + 1
  <1> DEFINE h == Append(g, u)
  <1>1. /\ h \in Seq(GotSet) /\ Len(h) = Len(g) + 1 /\ Len(g) \in Nat /\ Len(rs) \in Nat
        /\ \A i \in 1 .. Len(g) : h[i] = g[i]
        /\ h[Len(g) + 1] = u
    <2>1. h \in Seq(GotSet) /\ Len(h) = Len(g) + 1
      BY AppendAt, Zenon
    <2>2. \A i \in 1 .. Len(g) : h[i] = g[i]
      BY AppendAt, SMTT(20)
    <2>3. h[Len(g) + 1] = u
      BY AppendAt, SMTT(20)
    <2>4. Len(g) \in Nat /\ Len(rs) \in Nat
      BY LenNat, Zenon
    <2> QED
      BY <2>1, <2>2, <2>3, <2>4, Zenon
  <1> HIDE DEF h
  <1>2. Len(h) <= Len(rs)
    BY <1>1, SMTT(20)
  <1>3. u.num = Len(g) + 1 /\ u.room = r /\ u.len = Relay!Least(r, rs[Len(g) + 1])
    OBVIOUS
  <1>4. ASSUME NEW i \in 1 .. Len(h) PROVE h[i].num = i /\ h[i].len = Relay!Least(h[i].room, rs[i])
    <2>1. CASE i \in 1 .. Len(g)
      BY <1>1, <2>1, Zenon DEF Given
    <2>2. CASE i = Len(g) + 1
      BY <1>1, <1>3, <2>2, Zenon
    <2>3. i \in 1 .. Len(g) \/ i = Len(g) + 1
      BY <1>1, SMTT(20)
    <2> QED
      BY <2>1, <2>2, <2>3, Zenon
  <1>5. Given(h, rs, m)
    BY <1>2, <1>4, Zenon DEF Given
  <1> QED
    BY <1>1, <1>5, Zenon DEF h

LEMMA ReadDatagramRead == ASSUME ReadInv, Relay!ReadDatagram PROVE ReadInv'
  <1> DEFINE u == [num |-> Head(unread).num, len |-> Relay!Least(room, dlen), room |-> room]
  <1>1. /\ reads = "datagram" /\ reads' = "idle" /\ unread # <<>> /\ unread' = Tail(unread) /\ returned' = Append(returned, u)
        /\ UNCHANGED <<mode, phase, carries, status, replies, once, room, dlen, fault>>
    BY Zenon DEF Relay!ReadDatagram, Relay!client, Relay!server
  <1>2. unread \in Seq(RelayUnit) /\ replies \in Seq(Nat) /\ returned \in Seq(GotSet) /\ room \in Nat /\ dlen \in Nat
    BY Zenon DEF ReadInv, ReadTypes
  <1>3. mode.udp
    BY <1>1, Zenon DEF ReadInv, ReadControl
  <1>4. /\ phase = "open" /\ once = TRUE /\ fault = "none" /\ ~Wanted /\ status = "ok"
        /\ Lined(unread, Consumed, replies, mode)
        /\ carries = TRUE => Len(unread) + Consumed = StreamEnd(mode, Len(replies))
        /\ Len(returned) \in Nat /\ StreamEnd(mode, Len(returned)) \in Nat
    BY <1>1, ReadingFacts, Zenon
  <1>5. Consumed = StreamEnd(mode, Len(returned)) + 1
    BY <1>1, <1>4 DEF Consumed
  <1>6. Len(returned) < Len(replies) /\ dlen = replies[Len(returned) + 1] /\ Given(returned, replies, mode)
    BY <1>1, Zenon DEF ReadInv, ReadStream
  <1>7. unread[1] = Relay!Body(Len(returned) + 1, replies[Len(returned) + 1])
    BY <1>1, <1>2, <1>3, <1>4, <1>5, <1>6, NextBody, Zenon
  <1>8. u \in GotSet /\ u = [num |-> Len(returned) + 1, len |-> Relay!Least(room, replies[Len(returned) + 1]), room |-> room]
    <2>1. Head(unread) = unread[1]
      BY <1>1, <1>2
    <2>2. Relay!Body(Len(returned) + 1, replies[Len(returned) + 1]).num = Len(returned) + 1
      BY DEF Relay!Body
    <2>3. Head(unread).num = Len(returned) + 1
      BY <1>7, <2>1, <2>2, Zenon
    <2>4. u = [num |-> Len(returned) + 1, len |-> Relay!Least(room, replies[Len(returned) + 1]), room |-> room]
      BY <1>6, <2>3, Zenon
    <2>5. Relay!Least(room, dlen) \in Nat /\ Len(returned) + 1 \in Nat
      BY <1>2, <1>4 DEF Relay!Least
    <2>6. u \in GotSet
      BY <1>2, <2>3, <2>5 DEF GotSet
    <2> QED
      BY <2>4, <2>6, Zenon
  <1> HIDE DEF u
  <1>9. Append(returned, u) \in Seq(GotSet) /\ Given(Append(returned, u), replies, mode) /\ Len(Append(returned, u)) = Len(returned) + 1
    BY <1>2, <1>3, <1>6, <1>8, GivenDatagram, Zenon
  <1>10. Consumed \in Nat
    BY ConsumedNat, Zenon DEF ReadInv
  <1>11. /\ Lined(Tail(unread), Consumed + 1, replies, mode) /\ Tail(unread) \in Seq(RelayUnit)
         /\ Len(unread) \in Nat /\ Len(unread) > 0 /\ Len(Tail(unread)) = Len(unread) - 1
    BY <1>1, <1>2, <1>4, <1>10, LinedTail, Zenon
  <1>12. ~Wanted'
    BY <1>1, <1>4 DEF Wanted
  <1>13. Consumed' = Consumed + 1
    <2>1. Consumed' = StreamEnd(mode, Len(returned) + 1) + 0
      BY <1>1, <1>9, <1>12 DEF Consumed
    <2>2. StreamEnd(mode, Len(returned) + 1) = StreamEnd(mode, Len(returned)) + 2
      <3>1. Len(returned) + 1 \in Nat
        BY <1>4
      <3>2. StreamEnd(mode, Len(returned)) = 1 + 2 * Len(returned) /\ StreamEnd(mode, Len(returned) + 1) = 1 + 2 * (Len(returned) + 1)
        BY <1>3, <1>4, <3>1, EndFacts, Zenon
      <3> QED
        BY <1>4, <3>2
    <2> QED
      BY <1>4, <1>5, <2>1, <2>2
  <1>14. ReadTypes'
    BY <1>1, <1>9, <1>11, Zenon DEF ReadInv, ReadTypes
  <1>15. ReadControl'
    BY <1>1, <1>4, <1>12 DEF ReadInv, ReadControl
  <1>16. ReadStream'
    <2>1. mode'.udp => \A i \in 1 .. Len(replies') : replies'[i] <= MaxLength
      BY <1>1, Zenon DEF ReadInv, ReadStream
    <2>2. Given(returned', replies', mode') /\ Lined(unread', Consumed', replies', mode')
      BY <1>1, <1>9, <1>11, <1>13, Zenon
    <2>3. carries' = TRUE => Len(unread') + Consumed' = StreamEnd(mode', Len(replies'))
      <3>1. Len(unread') + Consumed' = Len(unread) + Consumed
        BY <1>1, <1>10, <1>11, <1>13
      <3> QED
        BY <1>1, <1>4, <3>1, Zenon
    <2>4. reads' # "datagram"
      BY <1>1
    <2> QED
      BY <2>1, <2>2, <2>3, <2>4, Zenon DEF ReadStream
  <1> QED
    BY <1>14, <1>15, <1>16, Zenon DEF ReadInv

LEMMA ReadInvStep == ReadInv /\ [Relay!Next]_Relay!vars => ReadInv'
  <1> SUFFICES ASSUME ReadInv, [Relay!Next]_Relay!vars PROVE ReadInv'
    OBVIOUS
  <1>1. CASE UNCHANGED Relay!vars
    <2>1. UNCHANGED <<mode, phase, status, replies, unread, once, reads, room, dlen, fault, returned>> /\ carries' = carries
      BY <1>1, Zenon DEF Relay!vars, Relay!client, Relay!server, Relay!reader
    <2> QED
      BY <2>1, QuietRead, Zenon
  <1>2. CASE \E n \in RelayLens : Relay!Write(n) \/ Relay!Reply(n)
    <2>1. CASE \E n \in RelayLens : Relay!Write(n)
      BY <2>1, WriteRead, Zenon
    <2>2. CASE \E n \in RelayLens : Relay!Reply(n)
      <3>1. PICK n \in RelayLens : Relay!Reply(n)
        BY <2>2, Zenon
      <3>2. n \in Nat
        BY GostAssumption DEF Relay!RelayConnAssumption
      <3> QED
        BY <3>1, <3>2, ReplyRead, Zenon
    <2> QED
      BY <1>2, <2>1, <2>2, Zenon
  <1>3. CASE \E n \in RelayLens \ {0} : Relay!Read(n)
    <2>1. PICK n \in RelayLens \ {0} : Relay!Read(n)
      BY <1>3, Zenon
    <2>2. n \in Nat
      BY GostAssumption DEF Relay!RelayConnAssumption
    <2> QED
      BY <2>1, <2>2, ReadRead, Zenon
  <1>4. CASE Relay!WriteBody
    BY <1>4, WriteRead, Zenon
  <1>5. CASE \E s \in {"ok", "refused"} : Relay!Answer(s)
    BY <1>5, AnswerRead, Zenon
  <1> QED
    BY <1>1, <1>2, <1>3, <1>4, <1>5, DialRead, DialResponseRead, BreakRead, ReadResponseRead,
       ReadDataRead, ReadLengthRead, ReadDatagramRead, ReadErrorRead, Zenon DEF Relay!Next

\* What Reads of the relay connection return is the server's replies in order, each
\* datagram cut to the reader's buffer, and nothing over a connection it refused.
THEOREM RelayRepliesInOrder == Relay!Spec => []RepliesInOrder
  <1>1. ReadInv => RepliesInOrder
    <2> SUFFICES ASSUME ReadInv PROVE RepliesInOrder
      OBVIOUS
    <2>1. DOMAIN returned = 1 .. Len(returned)
      BY DEF ReadInv, ReadTypes
    <2>2. ASSUME status = "refused" PROVE reads \in {"idle", "response"} /\ returned = <<>>
      <3>1. returned = <<>>
        BY <2>2 DEF ReadInv, ReadControl
      <3>2. reads \in {"data", "length", "datagram"} => status = "ok"
        BY ReadingFacts, Zenon
      <3> QED
        BY <2>2, <3>1, <3>2 DEF ReadInv, ReadControl
    <2> QED
      BY <2>1, <2>2, Zenon DEF RepliesInOrder, Relay!RepliesInOrder, ReadInv, ReadStream, Given
  <1> QED
    BY InitRead, ReadInvStep, <1>1, PTL DEF Relay!Spec
=============================================================================
