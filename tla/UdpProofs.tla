----------------------------- MODULE UdpProofs ------------------------------
(***************************************************************************)
(* PacketCodec, for every size of addresses, wrapping and buffer, every    *)
(* name, address and payload that fits, and whatever the buffer holds.     *)
(* All that has to be known of the state is the buffer's length: a         *)
(* datagram is read from the bytes it was sent as, not from what an        *)
(* earlier one left.                                                       *)
(*                                                                         *)
(* UdpRelay, for all values of its constants: any timeouts, any number of  *)
(* datagrams, queue lengths and REST clients.                              *)
(***************************************************************************)
EXTENDS UdpRelay, Datagrams, TLAPS

-----------------------------------------------------------------------------
(* UdpRelay. *)

\* How far the handler is tells what the copies, deadlines and connections can be.
PhaseInv ==
    /\ hpc \in {"dial", "join", "pipe"} =>
            /\ timeout = 0
            /\ \A d \in Dir : pc[d] = "off"
            /\ \A e \in End : timer[e] = NoDeadline
    /\ hpc \in {"leave", "closeRemote"} => \A d \in Dir : pc[d] = "done"
    /\ hpc \in {"closeOrigin", "done"} => \A d \in Dir : pc[d] \in {"off", "done"}
    /\ hpc = "dial" => kind = NoConn
    /\ kind = NoConn => hpc \in {"dial", "closeOrigin", "done"}
    /\ hpc \in {"closeOrigin", "done"} /\ kind # NoConn => closed["remote"]
    /\ closed["origin"] <=> hpc = "done"
    /\ \A d \in Dir : pooled[d] <=> pc[d] \in {"off", "done"}
    /\ kind = "reject" => timer["remote"] = NoDeadline

\* The tracker is listed, held by a client or closed only after it joined, and
\* whoever is about to close it has removed it from the list.
ListInv ==
    /\ listed => hpc \in {"pipe", "wait", "leave"} /\ ~closed["remote"]
    /\ hpc \in {"dial", "join"} => ~closed["remote"] /\ \A c \in Clients : rest[c] = "idle"
    /\ \A c \in Clients : rest[c] = "close" => ~listed

\* Unless its reader is about to re-arm it, a deadline and the quiet time before
\* it add up to at least the session timeout.
IdleInv ==
    \A d \in Dir :
        pc[d] # "arm" /\ timer[Src(d)] # NoDeadline /\ ~closed[Src(d)]
            => timer[Src(d)] + quiet >= timeout

\* The genuine datagrams of a queue are increasing, above lo and at most hi.
Ordered(q, lo, hi) ==
    /\ \A i \in 1..Len(q) : q[i] # Foreign => lo < q[i] /\ q[i] <= hi
    /\ \A i, j \in 1..Len(q) :
         i < j /\ q[i] # Foreign /\ q[j] # Foreign => q[i] < q[j]

\* Forwarded, read and queued datagrams of a direction are in sending order.
OrderInv ==
    /\ \A d \in Dir :
        /\ last[d] <= buf[d] /\ buf[d] <= sent[d]
        /\ pc[d] = "write" => last[d] < buf[d]
        /\ Ordered(queue[Src(d)], buf[d], sent[d])
    /\ \A i \in 1..Len(queue["origin"]) : queue["origin"][i] # Foreign

IInv == TypeOK /\ PhaseInv /\ ListInv /\ IdleInv /\ OrderInv

-----------------------------------------------------------------------------
\* The two directions read and write opposite connections.
LEMMA Ends ==
    /\ \A d \in Dir : Src(d) \in End /\ Dst(d) \in End /\ Src(d) # Dst(d)
    /\ \A d, f \in Dir : d # f => Src(d) = Dst(f) /\ Dst(d) = Src(f)
    /\ \A e \in End : \E d \in Dir : e = Src(d)
    /\ Src("up") = "origin" /\ Src("down") = "remote"
    /\ "up" \in Dir /\ "down" \in Dir /\ "origin" \in End /\ "remote" \in End
  BY DEF Dir, End, Src, Dst

\* Arming a deadline changes only that one, to the session timeout or not at all.
LEMMA ArmedType ==
    ASSUME TypeOK, NEW e \in End
    PROVE  /\ Armed(e) \in [End -> {NoDeadline} \cup 0..timeout]
           /\ \A f \in End \ {e} : Armed(e)[f] = timer[f]
           /\ closed[e] \/ (e = "remote" /\ kind = "reject") => Armed(e)[e] = timer[e]
           /\ ~(closed[e] \/ (e = "remote" /\ kind = "reject")) => Armed(e)[e] = timeout
<1>1. timeout \in Nat /\ timeout \in {NoDeadline} \cup 0..timeout
  BY UdpAssumption DEF TypeOK
<1>2. timer \in [End -> {NoDeadline} \cup 0..timeout]
  BY DEF TypeOK
<1> QED
  BY <1>1, <1>2 DEF Armed

\* What Tail does to a queue.
LEMMA TailFacts ==
    ASSUME NEW q \in Seq(Nat), q # <<>>
    PROVE  /\ Tail(q) \in Seq(Nat) /\ Len(q) \in Nat /\ Len(Tail(q)) = Len(q) - 1
           /\ \A i \in 1..Len(Tail(q)) : Tail(q)[i] = q[i + 1]
  OBVIOUS

\* Taking the head off an ordered queue.
LEMMA OrderedTail ==
    ASSUME NEW q \in Seq(Nat), q # <<>>, NEW lo \in Nat, NEW hi \in Nat, Ordered(q, lo, hi)
    PROVE  /\ Tail(q) \in Seq(Nat) /\ Head(q) \in Nat
           /\ Len(Tail(q)) = Len(q) - 1 /\ \A i \in 1..Len(Tail(q)) : Tail(q)[i] = q[i + 1]
           /\ Ordered(Tail(q), lo, hi)
           /\ Head(q) # Foreign => /\ lo < Head(q) /\ Head(q) <= hi
                                   /\ Ordered(Tail(q), Head(q), hi)
<1>1. /\ Tail(q) \in Seq(Nat) /\ Head(q) = q[1] /\ Len(q) \in Nat \ {0}
      /\ Len(Tail(q)) = Len(q) - 1 /\ \A i \in 1..Len(Tail(q)) : Tail(q)[i] = q[i + 1]
      /\ \A i \in 1..Len(q) : q[i] \in Nat
  OBVIOUS
<1> QED
  BY <1>1 DEF Ordered, Foreign

\* Putting a foreign, or the next genuine, datagram behind an ordered queue.
LEMMA OrderedAppend ==
    ASSUME NEW q \in Seq(Nat), NEW lo \in Nat, NEW hi \in Nat, lo <= hi, Ordered(q, lo, hi)
    PROVE  /\ \A g \in Nat : /\ Append(q, g) \in Seq(Nat) /\ Len(Append(q, g)) = Len(q) + 1
                             /\ Append(q, g)[Len(q) + 1] = g
                             /\ \A i \in 1..Len(q) : Append(q, g)[i] = q[i]
           /\ Ordered(Append(q, Foreign), lo, hi)
           /\ Ordered(Append(q, hi + 1), lo, hi + 1)
<1>1. \A g \in Nat : /\ Append(q, g) \in Seq(Nat) /\ Len(Append(q, g)) = Len(q) + 1
                     /\ Append(q, g)[Len(q) + 1] = g
                     /\ \A i \in 1..Len(q) : Append(q, g)[i] = q[i]
  OBVIOUS
<1>2. Len(q) \in Nat /\ \A i \in 1..Len(q) : q[i] \in Nat
  OBVIOUS
<1>3. Ordered(Append(q, Foreign), lo, hi)
  BY <1>1, <1>2 DEF Ordered, Foreign
<1>4. Ordered(Append(q, hi + 1), lo, hi + 1)
  <2>1. PICK s \in Seq(Nat) : /\ s = Append(q, hi + 1) /\ Len(s) = Len(q) + 1
                              /\ s[Len(q) + 1] = hi + 1
                              /\ \A i \in 1..Len(q) : s[i] = q[i]
    <3>1. hi + 1 \in Nat
      OBVIOUS
    <3>2. PICK g \in Nat : g = hi + 1
      BY <3>1
    <3>3. /\ Append(q, g) \in Seq(Nat) /\ Len(Append(q, g)) = Len(q) + 1
          /\ Append(q, g)[Len(q) + 1] = g
          /\ \A i \in 1..Len(q) : Append(q, g)[i] = q[i]
      BY <1>1, Zenon
    <3> QED
      BY <3>2, <3>3, Zenon
  <2>2. ASSUME NEW i \in 1..Len(s), s[i] # Foreign PROVE lo < s[i] /\ s[i] <= hi + 1
    <3>1. CASE i \in 1..Len(q)
      BY <2>1, <2>2, <3>1, <1>2 DEF Ordered
    <3>2. CASE i = Len(q) + 1
      BY <2>1, <3>2
    <3> QED
      BY <2>1, <3>1, <3>2, <1>2
  <2>3. ASSUME NEW i \in 1..Len(s), NEW j \in 1..Len(s), i < j, s[i] # Foreign, s[j] # Foreign
        PROVE  s[i] < s[j]
    <3>1. i \in 1..Len(q) /\ s[i] = q[i] /\ q[i] \in Nat /\ q[i] <= hi
      <4>1. i \in 1..Len(q)
        BY <2>1, <2>3, <1>2
      <4> QED
        BY <4>1, <2>1, <2>3, <1>2 DEF Ordered
    <3>2. CASE j \in 1..Len(q)
      BY <2>1, <2>3, <3>1, <3>2 DEF Ordered
    <3>3. CASE j = Len(q) + 1
      BY <2>1, <3>1, <3>3
    <3> QED
      BY <2>1, <3>2, <3>3, <1>2
  <2>4. Ordered(s, lo, hi + 1)
    BY <2>2, <2>3 DEF Ordered
  <2> QED
    BY <2>1, <2>4
<1> QED
  BY <1>1, <1>3, <1>4

\* The initial state satisfies the inductive invariant.
LEMMA InitInv == Init => IInv
<1> SUFFICES ASSUME Init PROVE IInv
  OBVIOUS
<1> USE UdpAssumption, Ends DEF NoDeadline, NoConn, Foreign
<1>1. TypeOK
  <2>1. queue \in [End -> Seq(Nat)]
    BY DEF Init
  <2>2. timer \in [End -> {NoDeadline} \cup 0..timeout] /\ quiet \in 0..timeout
    BY DEF Init
  <2> QED
    BY <2>1, <2>2, ZenonT(30) DEF Init, TypeOK, HandlerStates, CopyStates
<1>2. PhaseInv
  BY DEF Init, PhaseInv
<1>3. ListInv
  BY DEF Init, ListInv
<1>4. IdleInv
  BY DEF Init, IdleInv
<1>5. OrderInv
  BY DEF Init, OrderInv, Ordered
<1> QED
  BY <1>1, <1>2, <1>3, <1>4, <1>5 DEF IInv

\* Every step preserves it.
LEMMA StepInv == IInv /\ [Next]_vars => IInv'
<1> SUFFICES ASSUME IInv, [Next]_vars PROVE IInv'
  OBVIOUS
<1> USE UdpAssumption, Ends DEF NoDeadline, NoConn, Foreign, world
<1> timeout \in Nat
  BY DEF IInv, TypeOK
<1>1. ASSUME NEW k \in {"proxied", "reject"}, DialUDP(k) PROVE IInv'
  BY <1>1, ZenonT(30) DEF IInv, TypeOK, HandlerStates, CopyStates, PhaseInv, ListInv, IdleInv, OrderInv, DialUDP
<1>2. CASE DialError
  BY <1>2, Zenon DEF IInv, TypeOK, HandlerStates, CopyStates, PhaseInv, ListInv, IdleInv, OrderInv, DialError
<1>3. CASE Join
  BY <1>3, ZenonT(30) DEF IInv, TypeOK, HandlerStates, CopyStates, PhaseInv, ListInv, IdleInv, OrderInv, Join
<1>4. CASE Pipe
  <2>1. TypeOK'
    <3>1. timeout' \in Timeouts /\ timeout' \in Nat
      BY <1>4 DEF Pipe, IInv, TypeOK
    <3>2. timer' \in [End -> {NoDeadline} \cup 0..timeout'] /\ quiet' \in 0..timeout'
      BY <1>4, <3>1 DEF Pipe, IInv, TypeOK, PhaseInv
    <3> QED
      BY <1>4, <3>1, <3>2, ZenonT(60) DEF Pipe, IInv, TypeOK, HandlerStates, CopyStates
  <2>2. PhaseInv'
    BY <1>4 DEF IInv, TypeOK, HandlerStates, CopyStates, PhaseInv, Pipe
  <2>3. ListInv'
    BY <1>4 DEF IInv, TypeOK, HandlerStates, CopyStates, ListInv, PhaseInv, Pipe
  <2>4. IdleInv'
    BY <1>4 DEF IInv, TypeOK, HandlerStates, CopyStates, IdleInv, PhaseInv, Pipe
  <2>5. OrderInv'
    BY <1>4 DEF IInv, TypeOK, HandlerStates, CopyStates, OrderInv, Pipe
  <2> QED BY <2>1, <2>2, <2>3, <2>4, <2>5 DEF IInv
<1>5. CASE Wait
  BY <1>5, ZenonT(30) DEF IInv, TypeOK, HandlerStates, CopyStates, PhaseInv, ListInv, IdleInv, OrderInv, Wait
<1>6. CASE Leave
  BY <1>6, ZenonT(30) DEF IInv, TypeOK, HandlerStates, CopyStates, PhaseInv, ListInv, IdleInv, OrderInv, Leave
<1>7. CASE CloseRemote
  BY <1>7, ZenonT(30) DEF IInv, TypeOK, HandlerStates, CopyStates, PhaseInv, ListInv, IdleInv, OrderInv, CloseRemote, Close
<1>8. CASE CloseOrigin
  BY <1>8, ZenonT(30) DEF IInv, TypeOK, HandlerStates, CopyStates, PhaseInv, ListInv, IdleInv, OrderInv, CloseOrigin, Close
<1>9. ASSUME NEW d \in Dir, Arm(d) PROVE IInv'
  <2>1. TypeOK'
    <3>1. timer' \in [End -> {NoDeadline} \cup 0..timeout]
      BY <1>9, ArmedType DEF Arm, IInv
    <3>2. quiet' \in 0..timeout
      BY <1>9 DEF Arm, IInv, TypeOK
    <3> QED
      BY <1>9, <3>1, <3>2, ZenonT(30) DEF Arm, IInv, TypeOK, HandlerStates, CopyStates
  <2>2. PhaseInv'
    <3>1. hpc = "wait"
      BY <1>9, Zenon DEF Arm, IInv, PhaseInv, TypeOK, HandlerStates
    <3>2. kind = "reject" => timer'["remote"] = timer["remote"]
      BY <1>9, ArmedType DEF Arm, IInv
    <3> QED
      BY <1>9, <3>1, <3>2, ZenonT(30) DEF Arm, IInv, PhaseInv, TypeOK
  <2>3. ListInv'
    BY <1>9 DEF IInv, TypeOK, HandlerStates, CopyStates, ListInv, PhaseInv, Arm, Armed
  <2>4. IdleInv'
    <3>1. pc \in [Dir -> CopyStates] /\ quiet \in 0..timeout
      BY DEF IInv, TypeOK
    <3>2. kind = "reject" => timer["remote"] = NoDeadline
      BY DEF IInv, PhaseInv
    <3> QED
      BY <1>9, <3>1, <3>2, ArmedType DEF Arm, IInv, IdleInv
  <2>5. OrderInv'
    BY <1>9 DEF IInv, TypeOK, HandlerStates, CopyStates, OrderInv, Arm, Armed
  <2> QED BY <2>1, <2>2, <2>3, <2>4, <2>5 DEF IInv
<1>10. ASSUME NEW d \in Dir, ReadDatagram(d) PROVE IInv'
  <2>1. TypeOK'
    <3>1. /\ queue \in [End -> Seq(Nat)] /\ sent \in [Dir -> Nat]
          /\ buf \in [Dir -> Nat] /\ last \in [Dir -> Nat] /\ pc \in [Dir -> CopyStates]
      BY Zenon DEF IInv, TypeOK
    <3>2. OrderInv
      BY DEF IInv
    <3>5. queue' \in [End -> Seq(Nat)] /\ buf' \in [Dir -> Nat]
      BY <1>10, <3>1, <3>2, OrderedTail, ZenonT(30) DEF ReadDatagram, Readable, Dequeue, OrderInv
    <3> QED
      BY <1>10, <3>5, ZenonT(30) DEF ReadDatagram, Readable, Dequeue, IInv, TypeOK, HandlerStates, CopyStates
  <2>2. PhaseInv'
    BY <1>10, Zenon DEF IInv, TypeOK, HandlerStates, CopyStates, PhaseInv, ReadDatagram, Readable, Dequeue
  <2>3. ListInv'
    BY <1>10 DEF IInv, TypeOK, HandlerStates, CopyStates, ListInv, PhaseInv, ReadDatagram, Readable, Dequeue
  <2>4. IdleInv'
    BY <1>10 DEF IInv, TypeOK, HandlerStates, CopyStates, IdleInv, PhaseInv, ReadDatagram, Readable, Dequeue
  <2>5. OrderInv'
    <3>1. /\ queue \in [End -> Seq(Nat)] /\ sent \in [Dir -> Nat]
          /\ buf \in [Dir -> Nat] /\ last \in [Dir -> Nat] /\ pc \in [Dir -> CopyStates]
      BY Zenon DEF IInv, TypeOK
    <3>2. OrderInv
      BY DEF IInv
    <3>3. queue' = [queue EXCEPT ![Src(d)] = Tail(queue[Src(d)])] /\ queue[Src(d)] # <<>>
      BY <1>10 DEF ReadDatagram, Readable, Dequeue
    <3>4. /\ Ordered(queue[Src(d)], buf[d], sent[d]) /\ queue[Src(d)] \in Seq(Nat)
          /\ buf[d] \in Nat /\ sent[d] \in Nat /\ last[d] \in Nat
      BY <3>1, <3>2 DEF OrderInv
    <3>5. Head(queue[Src(d)]) # Foreign
      <4>1. CASE d = "up"
        <5>1. queue["origin"][1] # Foreign /\ Head(queue["origin"]) = queue["origin"][1]
          BY <3>1, <3>2, <3>3, <4>1 DEF OrderInv
        <5> QED
          BY <4>1, <5>1
      <4>2. CASE d = "down"
        BY <1>10, <4>2 DEF ReadDatagram
      <4> QED
        BY <4>1, <4>2 DEF Dir
    <3>6. /\ last'[d] <= buf'[d] /\ buf'[d] <= sent'[d] /\ last'[d] < buf'[d]
          /\ Ordered(queue'[Src(d)], buf'[d], sent'[d])
      <4>1. /\ buf'[d] = Head(queue[Src(d)]) /\ queue'[Src(d)] = Tail(queue[Src(d)])
            /\ sent' = sent /\ last' = last
        BY <1>10, <3>1, <3>3 DEF ReadDatagram
      <4>2. last[d] <= buf[d]
        BY <3>2 DEF OrderInv
      <4>3. /\ Head(queue[Src(d)]) \in Nat /\ buf[d] < Head(queue[Src(d)])
            /\ Head(queue[Src(d)]) <= sent[d]
            /\ Ordered(Tail(queue[Src(d)]), Head(queue[Src(d)]), sent[d])
        BY <3>3, <3>4, <3>5, OrderedTail, Zenon
      <4>4. last[d] < Head(queue[Src(d)]) /\ last[d] <= Head(queue[Src(d)])
        BY <4>2, <4>3, <3>4
      <4> QED
        BY <4>1, <4>3, <4>4
    <3>7. ASSUME NEW f \in Dir, f # d
          PROVE  /\ last'[f] <= buf'[f] /\ buf'[f] <= sent'[f]
                 /\ pc'[f] = "write" => last'[f] < buf'[f]
                 /\ Ordered(queue'[Src(f)], buf'[f], sent'[f])
      <4>1. /\ buf'[f] = buf[f] /\ queue'[Src(f)] = queue[Src(f)] /\ pc'[f] = pc[f]
            /\ sent' = sent /\ last' = last
        BY <1>10, <3>1, <3>3, <3>7 DEF ReadDatagram
      <4> QED
        BY <4>1, <3>2 DEF OrderInv
    <3>8. \A i \in 1..Len(queue'["origin"]) : queue'["origin"][i] # Foreign
      <4>1. CASE d = "up"
        <5>1. queue["origin"] \in Seq(Nat) /\ queue["origin"] # <<>>
          BY <3>1, <3>3, <4>1
        <5>2. queue'["origin"] = Tail(queue["origin"])
          BY <3>1, <3>3, <4>1, ZenonT(30)
        <5>3. \A i \in 1..Len(queue["origin"]) : queue["origin"][i] # Foreign
          BY <3>2 DEF OrderInv
        <5>4. /\ Len(queue["origin"]) \in Nat
              /\ Len(Tail(queue["origin"])) = Len(queue["origin"]) - 1
              /\ \A i \in 1..Len(Tail(queue["origin"])) :
                    Tail(queue["origin"])[i] = queue["origin"][i + 1]
          BY <5>1, TailFacts
        <5>5. ASSUME NEW i \in 1..Len(Tail(queue["origin"]))
              PROVE  Tail(queue["origin"])[i] # Foreign
          <6>1. i + 1 \in 1..Len(queue["origin"])
            BY <5>4, <5>5
          <6> QED
            BY <5>3, <5>4, <5>5, <6>1
        <5> QED
          BY <5>2, <5>5, Zenon
      <4>2. CASE d = "down"
        BY <4>2, <3>1, <3>2, <3>3 DEF OrderInv
      <4> QED
        BY <4>1, <4>2 DEF Dir
    <3> QED
      BY <3>6, <3>7, <3>8 DEF OrderInv
  <2> QED BY <2>1, <2>2, <2>3, <2>4, <2>5 DEF IInv
<1>11. ASSUME NEW d \in Dir, ReadTimeout(d) PROVE IInv'
  BY <1>11, ZenonT(30) DEF IInv, TypeOK, HandlerStates, CopyStates, PhaseInv, ListInv, IdleInv, OrderInv, ReadTimeout, EndCopy
<1>12. ASSUME NEW d \in Dir, ReadClosed(d) PROVE IInv'
  BY <1>12, Zenon DEF IInv, TypeOK, HandlerStates, CopyStates, PhaseInv, ListInv, IdleInv, OrderInv, ReadClosed, EndCopy
<1>13. ASSUME NEW d \in Dir, ReadError(d) PROVE IInv'
  BY <1>13, ZenonT(30) DEF IInv, TypeOK, HandlerStates, CopyStates, PhaseInv, ListInv, IdleInv, OrderInv, ReadError, EndCopy
<1>14. ASSUME NEW d \in Dir, WriteDatagram(d) PROVE IInv'
  <2>1. TypeOK'
    BY <1>14, Zenon DEF IInv, TypeOK, HandlerStates, CopyStates, PhaseInv, WriteDatagram
  <2>2. PhaseInv'
    BY <1>14, Zenon DEF IInv, TypeOK, HandlerStates, CopyStates, PhaseInv, WriteDatagram
  <2>3. ListInv'
    BY <1>14 DEF IInv, TypeOK, HandlerStates, CopyStates, ListInv, PhaseInv, WriteDatagram
  <2>4. IdleInv'
    BY <1>14 DEF IInv, TypeOK, HandlerStates, CopyStates, IdleInv, PhaseInv, WriteDatagram
  <2>5. OrderInv'
    BY <1>14 DEF IInv, TypeOK, HandlerStates, CopyStates, OrderInv, WriteDatagram
  <2> QED BY <2>1, <2>2, <2>3, <2>4, <2>5 DEF IInv
<1>15. ASSUME NEW d \in Dir, WriteClosed(d) PROVE IInv'
  BY <1>15, ZenonT(30) DEF IInv, TypeOK, HandlerStates, CopyStates, PhaseInv, ListInv, IdleInv, OrderInv, WriteClosed, EndCopy
<1>16. ASSUME NEW d \in Dir, WriteError(d) PROVE IInv'
  BY <1>16, ZenonT(30) DEF IInv, TypeOK, HandlerStates, CopyStates, PhaseInv, ListInv, IdleInv, OrderInv, WriteError, EndCopy
<1>17. ASSUME NEW d \in Dir, Extend(d) PROVE IInv'
  <2>1. TypeOK'
    <3>1. timer' \in [End -> {NoDeadline} \cup 0..timeout]
      BY <1>17, ArmedType DEF Extend, IInv
    <3>2. quiet' \in 0..timeout
      BY <1>17 DEF Extend, IInv, TypeOK
    <3> QED
      BY <1>17, <3>1, <3>2, ZenonT(30) DEF Extend, IInv, TypeOK, HandlerStates, CopyStates
  <2>2. PhaseInv'
    <3>1. hpc = "wait"
      BY <1>17, Zenon DEF Extend, IInv, PhaseInv, TypeOK, HandlerStates
    <3>2. kind = "reject" => timer'["remote"] = timer["remote"]
      BY <1>17, ArmedType DEF Extend, IInv
    <3> QED
      BY <1>17, <3>1, <3>2, ZenonT(30) DEF Extend, IInv, PhaseInv, TypeOK
  <2>3. ListInv'
    BY <1>17 DEF IInv, TypeOK, HandlerStates, CopyStates, ListInv, PhaseInv, Extend, Armed
  <2>4. IdleInv'
    <3>1. pc \in [Dir -> CopyStates] /\ quiet \in 0..timeout
      BY DEF IInv, TypeOK
    <3>2. kind = "reject" => timer["remote"] = NoDeadline
      BY DEF IInv, PhaseInv
    <3> QED
      BY <1>17, <3>1, <3>2, ArmedType DEF Extend, IInv, IdleInv
  <2>5. OrderInv'
    BY <1>17 DEF IInv, TypeOK, HandlerStates, CopyStates, OrderInv, Extend, Armed
  <2> QED BY <2>1, <2>2, <2>3, <2>4, <2>5 DEF IInv
<1>18. ASSUME NEW d \in Dir, Send(d) PROVE IInv'
  <2>1. TypeOK'
    <3>1. /\ queue \in [End -> Seq(Nat)] /\ sent \in [Dir -> Nat]
          /\ buf \in [Dir -> Nat] /\ last \in [Dir -> Nat] /\ pc \in [Dir -> CopyStates]
      BY Zenon DEF IInv, TypeOK
    <3>2. OrderInv
      BY DEF IInv
    <3>3. sent' = [sent EXCEPT ![d] = sent[d] + 1] /\ sent'[d] = sent[d] + 1
      BY <1>18, <3>1 DEF Send
    <3>4. queue' = [queue EXCEPT ![Src(d)] = Append(queue[Src(d)], sent[d] + 1)]
      BY <1>18, <3>3, ZenonT(30) DEF Send, Receive
    <3>5. queue' \in [End -> Seq(Nat)] /\ sent' \in [Dir -> Nat]
      <4>1. sent[d] \in Nat /\ queue[Src(d)] \in Seq(Nat)
        BY <3>1
      <4>2. Append(queue[Src(d)], sent[d] + 1) \in Seq(Nat)
        BY <4>1
      <4>3. queue' \in [End -> Seq(Nat)]
        BY <3>1, <3>4, <4>2
      <4>4. sent' \in [Dir -> Nat]
        <5>1. \A n \in Nat : n + 1 \in Nat
          OBVIOUS
        <5>2. sent[d] + 1 \in Nat
          BY <4>1, <5>1
        <5> QED
          BY <3>1, <3>3, <5>2
      <4> QED
        BY <4>3, <4>4, Zenon
    <3>6. UNCHANGED <<hpc, pc, timeout, kind, buf, last, timer, quiet, closed, pooled, listed,
                      rest, udpTimeout>>
      BY <1>18 DEF Send
    <3> QED
      BY <3>5, <3>6, ZenonT(30) DEF IInv, TypeOK
  <2>2. PhaseInv'
    BY <1>18, ZenonT(30) DEF IInv, TypeOK, HandlerStates, CopyStates, PhaseInv, Send, Receive
  <2>3. ListInv'
    BY <1>18 DEF IInv, TypeOK, HandlerStates, CopyStates, ListInv, PhaseInv, Send, Receive
  <2>4. IdleInv'
    BY <1>18 DEF IInv, TypeOK, HandlerStates, CopyStates, IdleInv, PhaseInv, Send, Receive
  <2>5. OrderInv'
    <3>1. /\ queue \in [End -> Seq(Nat)] /\ sent \in [Dir -> Nat]
          /\ buf \in [Dir -> Nat] /\ last \in [Dir -> Nat] /\ pc \in [Dir -> CopyStates]
      BY Zenon DEF IInv, TypeOK
    <3>2. OrderInv
      BY DEF IInv
    <3>3. sent' = [sent EXCEPT ![d] = sent[d] + 1] /\ sent'[d] = sent[d] + 1
      BY <1>18, <3>1 DEF Send
    <3>4. queue' = [queue EXCEPT ![Src(d)] = Append(queue[Src(d)], sent[d] + 1)]
      BY <1>18, <3>3, Zenon DEF Send, Receive
    <3>5. buf' = buf /\ last' = last /\ pc' = pc
      BY <1>18 DEF Send
    <3>6. ASSUME NEW f \in Dir
          PROVE  /\ buf[f] <= sent'[f]
                 /\ Ordered(queue'[Src(f)], buf[f], sent'[f])
      <4>1. CASE f = d
        <5>1. /\ queue[Src(d)] \in Seq(Nat) /\ buf[d] \in Nat /\ sent[d] \in Nat
              /\ buf[d] <= sent[d] /\ Ordered(queue[Src(d)], buf[d], sent[d])
          BY <3>1, <3>2 DEF OrderInv
        <5>2. queue'[Src(d)] = Append(queue[Src(d)], sent[d] + 1)
          BY <3>1, <3>4, ZenonT(30)
        <5> QED
          BY <4>1, <5>1, <5>2, <3>3, OrderedAppend
      <4>2. CASE f # d
        <5>1. queue'[Src(f)] = queue[Src(f)] /\ sent'[f] = sent[f]
          BY <3>1, <3>3, <3>4, <4>2
        <5> QED
          BY <5>1, <3>2 DEF OrderInv
      <4> QED
        BY <4>1, <4>2
    <3>7. \A i \in 1..Len(queue'["origin"]) : queue'["origin"][i] # Foreign
      <4>1. CASE d = "up"
        <5>1. queue["origin"] \in Seq(Nat) /\ queue'["origin"] = Append(queue["origin"], sent[d] + 1)
          BY <4>1, <3>1, <3>4
        <5>2. sent[d] + 1 # Foreign
          BY <3>1
        <5> QED
          BY <5>1, <5>2, <3>2 DEF OrderInv
      <4>2. CASE d = "down"
        BY <4>2, <3>1, <3>2, <3>4 DEF OrderInv
      <4> QED
        BY <4>1, <4>2 DEF Dir
    <3> QED
      BY <3>2, <3>5, <3>6, <3>7 DEF OrderInv
  <2> QED BY <2>1, <2>2, <2>3, <2>4, <2>5 DEF IInv
<1>19. CASE DropForeign
  <2>1. TypeOK'
    <3>1. /\ queue \in [End -> Seq(Nat)] /\ sent \in [Dir -> Nat]
          /\ buf \in [Dir -> Nat] /\ last \in [Dir -> Nat] /\ pc \in [Dir -> CopyStates]
      BY Zenon DEF IInv, TypeOK
    <3>2. OrderInv
      BY DEF IInv
    <3>5. queue' \in [End -> Seq(Nat)]
      BY <1>19, <3>1, <3>2, OrderedTail DEF DropForeign, Readable, Dequeue, OrderInv
    <3> QED
      BY <1>19, <3>5, ZenonT(30) DEF DropForeign, Readable, Dequeue, IInv, TypeOK, HandlerStates, CopyStates
  <2>2. PhaseInv'
    BY <1>19 DEF IInv, TypeOK, HandlerStates, CopyStates, PhaseInv, DropForeign, Readable, Dequeue
  <2>3. ListInv'
    BY <1>19 DEF IInv, TypeOK, HandlerStates, CopyStates, ListInv, PhaseInv, DropForeign, Readable, Dequeue
  <2>4. IdleInv'
    BY <1>19, SMTT(20), ZenonT(30) DEF IInv, TypeOK, HandlerStates, CopyStates, IdleInv, PhaseInv, DropForeign, Readable, Dequeue
  <2>5. OrderInv'
    <3>1. /\ queue \in [End -> Seq(Nat)] /\ sent \in [Dir -> Nat]
          /\ buf \in [Dir -> Nat] /\ last \in [Dir -> Nat] /\ pc \in [Dir -> CopyStates]
      BY Zenon DEF IInv, TypeOK
    <3>2. OrderInv
      BY DEF IInv
    <3> QED
      BY <1>19, <3>1, <3>2, OrderedTail, ZenonT(30) DEF DropForeign, Readable, Dequeue, OrderInv
  <2> QED BY <2>1, <2>2, <2>3, <2>4, <2>5 DEF IInv
<1>20. ASSUME NEW c \in Clients, RestSnapshot(c) PROVE IInv'
  BY <1>20, ZenonT(30) DEF IInv, TypeOK, HandlerStates, CopyStates, PhaseInv, ListInv, IdleInv, OrderInv, RestSnapshot
<1>21. ASSUME NEW c \in Clients, RestLeave(c) PROVE IInv'
  BY <1>21, ZenonT(30) DEF IInv, TypeOK, HandlerStates, CopyStates, PhaseInv, ListInv, IdleInv, OrderInv, RestLeave
<1>22. ASSUME NEW c \in Clients, RestClose(c) PROVE IInv'
  BY <1>22, ZenonT(30) DEF IInv, TypeOK, HandlerStates, CopyStates, PhaseInv, ListInv, IdleInv, OrderInv, RestClose, Close
<1>23. CASE SendForeign
  <2>1. TypeOK'
    <3>1. /\ queue \in [End -> Seq(Nat)] /\ sent \in [Dir -> Nat]
          /\ buf \in [Dir -> Nat] /\ last \in [Dir -> Nat] /\ pc \in [Dir -> CopyStates]
      BY Zenon DEF IInv, TypeOK
    <3>2. OrderInv
      BY DEF IInv
    <3>5. queue' \in [End -> Seq(Nat)]
      BY <1>23, <3>1, <3>2, OrderedAppend DEF SendForeign, Receive, OrderInv
    <3> QED
      BY <1>23, <3>5, ZenonT(30) DEF SendForeign, Receive, IInv, TypeOK, HandlerStates, CopyStates
  <2>2. PhaseInv'
    BY <1>23 DEF IInv, TypeOK, HandlerStates, CopyStates, PhaseInv, SendForeign, Receive
  <2>3. ListInv'
    BY <1>23 DEF IInv, TypeOK, HandlerStates, CopyStates, ListInv, PhaseInv, SendForeign, Receive
  <2>4. IdleInv'
    BY <1>23, SMTT(20), ZenonT(30) DEF IInv, TypeOK, HandlerStates, CopyStates, IdleInv, PhaseInv, SendForeign, Receive
  <2>5. OrderInv'
    <3>1. /\ queue \in [End -> Seq(Nat)] /\ sent \in [Dir -> Nat]
          /\ buf \in [Dir -> Nat] /\ last \in [Dir -> Nat] /\ pc \in [Dir -> CopyStates]
      BY Zenon DEF IInv, TypeOK
    <3>2. OrderInv
      BY DEF IInv
    <3> QED
      BY <1>23, <3>1, <3>2, OrderedAppend, ZenonT(30) DEF SendForeign, Receive, OrderInv
  <2> QED BY <2>1, <2>2, <2>3, <2>4, <2>5 DEF IInv
<1>24. ASSUME NEW t \in Timeouts, SetUDPTimeout(t) PROVE IInv'
  BY <1>24, ZenonT(30) DEF IInv, TypeOK, HandlerStates, CopyStates, PhaseInv, ListInv, IdleInv, OrderInv, SetUDPTimeout
<1>25. CASE Tick
  <2>1. TypeOK'
    <3>1. timer \in [End -> {NoDeadline} \cup 0..timeout] /\ quiet \in 0..timeout
      BY DEF IInv, TypeOK
    <3>2. timer' \in [End -> {NoDeadline} \cup 0..timeout] /\ quiet' \in 0..timeout
      BY <1>25, <3>1 DEF Tick
    <3> QED
      BY <1>25, <3>2, Zenon DEF Tick, IInv, TypeOK
  <2>2. PhaseInv'
    <3>1. timer \in [End -> {NoDeadline} \cup 0..timeout] /\ quiet \in 0..timeout
      BY DEF IInv, TypeOK
    <3>2. hpc \notin {"dial", "join", "pipe"}
      BY <1>25 DEF Tick, IInv, PhaseInv
    <3> QED
      BY <1>25, <3>1, <3>2 DEF Tick, IInv, PhaseInv
  <2>3. ListInv'
    BY <1>25 DEF IInv, TypeOK, HandlerStates, CopyStates, ListInv, PhaseInv, Tick
  <2>4. IdleInv'
    <3>1. timer \in [End -> {NoDeadline} \cup 0..timeout] /\ quiet \in 0..timeout
      BY DEF IInv, TypeOK
    <3> QED
      BY <1>25, <3>1 DEF Tick, IInv, IdleInv
  <2>5. OrderInv'
    BY <1>25, SMTT(20), ZenonT(30) DEF IInv, TypeOK, HandlerStates, CopyStates, OrderInv, Tick
  <2> QED BY <2>1, <2>2, <2>3, <2>4, <2>5 DEF IInv
<1>26. CASE UNCHANGED vars
  BY <1>26, ZenonT(30) DEF IInv, TypeOK, HandlerStates, CopyStates, PhaseInv, ListInv, IdleInv, OrderInv, vars
<1>27. CASE Ended
  BY <1>27, <1>26 DEF Ended
<1> QED
  BY <1>1, <1>2, <1>3, <1>4, <1>5, <1>6, <1>7, <1>8, <1>9, <1>10, <1>11, <1>12, <1>13, <1>14, <1>15, <1>16, <1>17, <1>18, <1>19, <1>20, <1>21, <1>22, <1>23, <1>24, <1>25, <1>26, <1>27 DEF Next, Handler, Copy

\* The inductive invariant holds in every state of the session.
LEMMA Invariance == Spec => []IInv
  BY InitInv, StepInv, PTL DEF Spec

\* Every state is well typed; no deadline exceeds the session's own timeout.
THEOREM TypeCorrect == Spec => []TypeOK
<1>1. IInv => TypeOK
  BY DEF IInv
<1> QED
  BY <1>1, Invariance, PTL

\* handleUDPConn leaves no connection, goroutine, buffer or manager entry behind.
THEOREM SessionNoLeak == Spec => []NoLeak
<1>1. IInv => NoLeak
  BY DEF IInv, PhaseInv, ListInv, NoLeak
<1> QED
  BY <1>1, Invariance, PTL

\* copyPacketData times out only after a whole timeout without forwarding.
THEOREM SessionCutOnlyWhenIdle == Spec => []CutOnlyWhenIdle
<1>1. IInv => CutOnlyWhenIdle
  <2> SUFFICES ASSUME IInv PROVE CutOnlyWhenIdle
    OBVIOUS
  <2>1. timeout \in Nat /\ quiet \in 0..timeout /\ IdleInv
    BY UdpAssumption DEF IInv, TypeOK
  <2> QED
    BY <2>1, Ends DEF IdleInv, CutOnlyWhenIdle, NoDeadline
<1> QED
  BY <1>1, Invariance, PTL

\* Datagrams are forwarded at most once, in order, and never from elsewhere.
THEOREM SessionForwardInOrder == Spec => []ForwardInOrder
<1>1. IInv => ForwardInOrder
  BY DEF IInv, TypeOK, OrderInv, ForwardInOrder
<1> QED
  BY <1>1, Invariance, PTL

\* The UDP relay implements RelaySession: every step of the detailed session is
\* a step of the promised life cycle or leaves it alone.
THEOREM UdpImplementsSession == Spec => SessionSpec
<1>1. Init => Session!Init
  BY DEF Init, Session!Init, Phase, Open, End, NoConn
<1>2. IInv /\ [Next]_vars => [Session!Next]_(Session!vars)
  <2> SUFFICES ASSUME IInv, [Next]_vars PROVE [Session!Next]_(Session!vars)
    OBVIOUS
  <2> USE DEF Session!Next, Session!vars, Phase, world
  <2>0. /\ hpc \in HandlerStates /\ closed \in [End -> BOOLEAN] /\ listed \in BOOLEAN
        /\ PhaseInv /\ ListInv
    BY DEF IInv, TypeOK
  <2>1. ASSUME NEW k \in {"proxied", "reject"}, DialUDP(k) PROVE Session!Dial
    BY <2>0, <2>1 DEF DialUDP, Session!Dial, Open, PhaseInv, ListInv, NoConn, End
  <2>2. CASE DialError
    BY <2>0, <2>2 DEF DialError, Session!DialError, Open
  <2>3. CASE Join
    BY <2>0, <2>3 DEF Join, Session!Join, Open
  <2>4. CASE Leave
    BY <2>0, <2>4 DEF Leave, Session!Finish, Open
  <2>5. CASE CloseRemote
    BY <2>0, <2>5 DEF CloseRemote, Close, Session!CloseRemote, Open, ListInv, End
  <2>6. CASE CloseOrigin
    BY <2>0, <2>6 DEF CloseOrigin, Close, Session!CloseOrigin, Open, PhaseInv, ListInv, End
  <2>7. ASSUME NEW c \in Clients, RestLeave(c) PROVE [Session!Next]_(Session!vars)
    BY <2>0, <2>7, ZenonT(30) DEF RestLeave, Session!Unlist, Open, ListInv, HandlerStates
  <2>8. ASSUME NEW c \in Clients, RestClose(c) PROVE [Session!Next]_(Session!vars)
    BY <2>0, <2>8 DEF RestClose, Close, Session!CloseRemote, Open, PhaseInv, ListInv, HandlerStates, End
  <2>9. CASE UNCHANGED <<Phase, listed, kind, closed>>
    BY <2>9, Zenon DEF Open
  <2> QED
    BY <2>1, <2>2, <2>3, <2>4, <2>5, <2>6, <2>7, <2>8, <2>9, Zenon DEF Next, Handler, Copy, Pipe, Wait,
       Arm, ReadDatagram, DropForeign, ReadTimeout, ReadClosed, ReadError, WriteDatagram,
       WriteClosed, WriteError, EndCopy, Extend, Send, SendForeign, SetUDPTimeout, RestSnapshot,
       Tick, Ended, vars
<1> QED
  BY <1>1, <1>2, Invariance, PTL DEF Spec, SessionSpec, Session!Spec

-----------------------------------------------------------------------------
(* PacketCodec. *)

Bytes == Seq(Nat)

\* s begins with the bytes of t.
Begins(s, t) == Len(t) <= Len(s) /\ \A i \in 1 .. Len(t) : s[i] = t[i]

BufferInv == buffer \in Bytes /\ Len(buffer) = BufSize

LEMMA Sizes ==
    /\ ByteSize \in Nat /\ IPv4Len \in Nat /\ IPv6Len \in Nat /\ PortLen \in Nat /\ BufSize \in Nat
    /\ ByteSize > 4 /\ IPv4Len > 0 /\ IPv6Len > 0 /\ PortLen > 0 /\ BufSize > 0
    /\ IPv4Len # IPv6Len /\ Overhead \in Nat
  BY DatagramsAssumption DEF Codec!CodecAssumption, Codec!IPv6

LEMMA Inputs ==
    /\ \A name \in Names : name \in Bytes /\ Len(name) < ByteSize
    /\ \A ip \in IPs : ip \in Bytes /\ (Len(ip) = IPv4Len \/ Len(ip) = IPv6Len)
    /\ \A port \in Ports : port \in Bytes /\ Len(port) = PortLen
    /\ \A payload \in Payloads : payload \in Bytes
  <1>1. \A s \in Seq(0 .. ByteSize - 1) : s \in Bytes
    BY Sizes DEF Bytes
  <1>2. /\ UNION {Names, IPs, Ports, Payloads} \subseteq Seq(0 .. ByteSize - 1)
        /\ \A name \in Names : Len(name) < ByteSize
        /\ \A ip \in IPs : Len(ip) \in {IPv4Len, IPv6Len}
        /\ \A port \in Ports : Len(port) = PortLen
    BY DatagramsAssumption, Zenon DEF Codec!CodecAssumption
  <1> QED
    BY <1>1, <1>2, Zenon

-----------------------------------------------------------------------------
(* Sequences. *)

LEMMA Part ==
    ASSUME NEW s \in Bytes, NEW i \in Nat, NEW j \in Nat, i >= 1, i <= j + 1, j <= Len(s)
    PROVE  /\ SubSeq(s, i, j) \in Bytes /\ Len(SubSeq(s, i, j)) = j - i + 1
           /\ \A k \in 1 .. j - i + 1 : SubSeq(s, i, j)[k] = s[i + k - 1]
  BY DEF Bytes

LEMMA Joins ==
    ASSUME NEW s \in Bytes, NEW t \in Bytes
    PROVE  /\ s \o t \in Bytes /\ Len(s \o t) = Len(s) + Len(t) /\ Len(s) \in Nat /\ Len(t) \in Nat
           /\ \A i \in 1 .. Len(s) : (s \o t)[i] = s[i]
           /\ \A i \in 1 .. Len(t) : (s \o t)[Len(s) + i] = t[i]
  BY DEF Bytes

LEMMA SameBytes ==
    ASSUME NEW s \in Bytes, NEW t \in Bytes, Len(s) = Len(t), \A i \in 1 .. Len(t) : s[i] = t[i]
    PROVE  s = t
  BY DEF Bytes

LEMMA FromFunction ==
    ASSUME NEW n \in Nat, NEW f \in [1 .. n -> Nat]
    PROVE  f \in Bytes /\ Len(f) = n
  BY DEF Bytes

LEMMA OverFacts ==
    ASSUME NEW s \in Bytes, NEW t \in Bytes
    PROVE  /\ Codec!Over(s, t) \in Bytes /\ Len(Codec!Over(s, t)) = Len(s) /\ Len(s) \in Nat /\ Len(t) \in Nat
           /\ \A i \in 1 .. Len(s) : Codec!Over(s, t)[i] = IF i <= Len(t) THEN t[i] ELSE s[i]
  <1>1. Len(s) \in Nat /\ Len(t) \in Nat /\ (\A i \in 1 .. Len(s) : s[i] \in Nat)
        /\ (\A i \in 1 .. Len(t) : t[i] \in Nat)
    BY DEF Bytes
  <1>2. \A i \in 1 .. Len(s) : (IF i <= Len(t) THEN t[i] ELSE s[i]) \in Nat
    BY <1>1
  <1>3. Codec!Over(s, t) \in [1 .. Len(s) -> Nat]
    BY <1>2, Zenon DEF Codec!Over
  <1>4. Codec!Over(s, t) \in Bytes /\ Len(Codec!Over(s, t)) = Len(s)
    BY <1>1, <1>3, FromFunction, Zenon
  <1> QED
    BY <1>1, <1>4, Zenon DEF Codec!Over

\* The first Len(t) bytes of a sequence that begins with t.
LEMMA BeginsIs ==
    ASSUME NEW s \in Bytes, NEW t \in Bytes, Begins(s, t)
    PROVE  SubSeq(s, 1, Len(t)) = t
  <1>1. Len(t) \in Nat /\ 1 \in Nat /\ 1 >= 1 /\ 1 <= Len(t) + 1 /\ Len(t) <= Len(s)
    BY DEF Begins, Bytes
  <1>2. /\ SubSeq(s, 1, Len(t)) \in Bytes /\ Len(SubSeq(s, 1, Len(t))) = Len(t) - 1 + 1
        /\ \A k \in 1 .. Len(t) - 1 + 1 : SubSeq(s, 1, Len(t))[k] = s[1 + k - 1]
    BY <1>1, Part, Zenon
  <1>3. Len(t) - 1 + 1 = Len(t) /\ \A k \in 1 .. Len(t) : 1 + k - 1 = k
    BY <1>1
  <1>4. \A k \in 1 .. Len(t) : SubSeq(s, 1, Len(t))[k] = t[k]
    BY <1>2, <1>3, Zenon DEF Begins
  <1> QED
    BY <1>2, <1>3, <1>4, SameBytes, Zenon

-----------------------------------------------------------------------------
(* Addresses. *)

\* The three forms of an address.
LEMMA SerializeIs ==
    ASSUME NEW name \in Names, NEW ip \in IPs, NEW port \in Ports
    PROVE  \/ /\ name # <<>>
              /\ Codec!SerializeAddr(name, ip, port) = <<Codec!Domain, Len(name)>> \o name \o port
           \/ /\ name = <<>> /\ Len(ip) = IPv4Len
              /\ Codec!SerializeAddr(name, ip, port) = <<Codec!IPv4>> \o ip \o port
           \/ /\ name = <<>> /\ Len(ip) = IPv6Len
              /\ Codec!SerializeAddr(name, ip, port) = <<Codec!IPv6>> \o ip \o port
  <1>1. Len(name) \in Nat /\ Len(name) < ByteSize
    BY Inputs DEF Bytes
  <1>2. Len(name) % ByteSize = Len(name)
    BY <1>1, Sizes
  <1>3. Len(ip) = IPv4Len \/ Len(ip) = IPv6Len
    BY Inputs, Zenon
  <1>4. CASE name # <<>>
    BY <1>2, <1>4, Zenon DEF Codec!SerializeAddr
  <1>5. CASE name = <<>> /\ Len(ip) = IPv4Len
    BY <1>5, Zenon DEF Codec!SerializeAddr
  <1>6. CASE name = <<>> /\ Len(ip) # IPv4Len
    BY <1>3, <1>6, Zenon DEF Codec!SerializeAddr
  <1> QED
    BY <1>4, <1>5, <1>6, Zenon

\* A front, a part and a port.
LEMMA ThreeParts ==
    ASSUME NEW f \in Bytes, NEW s \in Bytes, NEW t \in Bytes
    PROVE  LET a == f \o s \o t IN
           /\ a \in Bytes /\ Len(a) = Len(f) + Len(s) + Len(t)
           /\ Len(f) \in Nat /\ Len(s) \in Nat /\ Len(t) \in Nat
           /\ \A i \in 1 .. Len(f) : a[i] = f[i]
           /\ \A i \in 1 .. Len(s) : a[Len(f) + i] = s[i]
           /\ \A i \in 1 .. Len(t) : a[Len(f) + Len(s) + i] = t[i]
  <1> DEFINE u == f \o s
             a == u \o t
  <1>1. /\ u \in Bytes /\ Len(u) = Len(f) + Len(s) /\ Len(f) \in Nat /\ Len(s) \in Nat
        /\ \A i \in 1 .. Len(f) : u[i] = f[i]
        /\ \A i \in 1 .. Len(s) : u[Len(f) + i] = s[i]
    BY Joins, Zenon
  <1>2. a = u \o t
    OBVIOUS
  <1> HIDE DEF u, a
  <1>3. /\ a \in Bytes /\ Len(a) = Len(u) + Len(t) /\ Len(t) \in Nat
        /\ \A i \in 1 .. Len(u) : a[i] = u[i]
        /\ \A i \in 1 .. Len(t) : a[Len(u) + i] = t[i]
    <2>1. u \in Bytes
      BY <1>1, Zenon
    <2>2. /\ u \o t \in Bytes /\ Len(u \o t) = Len(u) + Len(t) /\ Len(t) \in Nat
          /\ \A i \in 1 .. Len(u) : (u \o t)[i] = u[i]
          /\ \A i \in 1 .. Len(t) : (u \o t)[Len(u) + i] = t[i]
      BY <2>1, Joins, Zenon
    <2> QED
      BY <1>2, <2>2, Zenon
  <1>4. \A i \in 1 .. Len(f) : i \in 1 .. Len(u)
    BY <1>1
  <1>5. \A i \in 1 .. Len(s) : Len(f) + i \in 1 .. Len(u)
    BY <1>1
  <1>6. \A i \in 1 .. Len(f) : a[i] = f[i]
    BY <1>1, <1>3, <1>4, Zenon
  <1>7. \A i \in 1 .. Len(s) : a[Len(f) + i] = s[i]
    BY <1>1, <1>3, <1>5, Zenon
  <1>8. \A i \in 1 .. Len(t) : a[Len(f) + Len(s) + i] = t[i]
    BY <1>1, <1>3, Zenon
  <1> QED
    BY <1>1, <1>3, <1>6, <1>7, <1>8, Zenon DEF a, u

\* What is known of an address: its type, its size and its parts.
LEMMA AddrFacts ==
    ASSUME NEW name \in Names, NEW ip \in IPs, NEW port \in Ports, NEW a, a = Codec!SerializeAddr(name, ip, port)
    PROVE  /\ a \in Bytes /\ Len(a) \in Nat /\ Len(a) >= 2 + PortLen /\ a[1] \in {Codec!IPv4, Codec!Domain, Codec!IPv6}
           /\ Len(a) = Codec!AddrSize(a)
           /\ a[1] = Codec!Domain <=> name # <<>>
           /\ name = <<>> => /\ a[1] = Codec!IPv4 => Len(ip) = IPv4Len
                             /\ a[1] = Codec!IPv6 => Len(ip) = IPv6Len
                             /\ a = <<a[1]>> \o ip \o port
  <1>1. /\ name \in Bytes /\ ip \in Bytes /\ port \in Bytes /\ Len(port) = PortLen /\ Len(name) \in Nat
        /\ Len(ip) \in Nat
    BY Inputs DEF Bytes
  <1>2. CASE name # <<>> /\ a = <<Codec!Domain, Len(name)>> \o name \o port
    <2> DEFINE f == <<Codec!Domain, Len(name)>>
    <2>1. f \in Bytes /\ Len(f) = 2 /\ f[1] = Codec!Domain /\ f[2] = Len(name)
      BY <1>1 DEF Bytes, Codec!Domain
    <2>2. a = f \o name \o port
      BY <1>2
    <2> HIDE DEF f
    <2>3. /\ a \in Bytes /\ Len(a) = Len(f) + Len(name) + Len(port)
          /\ \A i \in 1 .. Len(f) : a[i] = f[i]
      <3>1. f \in Bytes
        BY <2>1, Zenon
      <3>2. /\ f \o name \o port \in Bytes /\ Len(f \o name \o port) = Len(f) + Len(name) + Len(port)
            /\ \A i \in 1 .. Len(f) : (f \o name \o port)[i] = f[i]
        BY <1>1, <3>1, ThreeParts, Zenon
      <3> QED
        BY <2>2, <3>2, Zenon
    <2>4. a[1] = Codec!Domain /\ a[2] = Len(name) /\ Len(a) = 2 + Len(name) + PortLen
      BY <1>1, <2>1, <2>3
    <2>5. Codec!AddrSize(a) = 1 + 1 + Len(name) + PortLen
      <3>1. a[1] # Codec!IPv4 /\ a[1] # Codec!IPv6
        BY <2>4 DEF Codec!Domain, Codec!IPv4, Codec!IPv6
      <3> QED
        BY <2>4, <3>1, Zenon DEF Codec!AddrSize
    <2> QED
      BY <1>1, <1>2, <2>3, <2>4, <2>5, Sizes
  <1>3. ASSUME NEW T \in {Codec!IPv4, Codec!IPv6}, name = <<>>, a = <<T>> \o ip \o port,
               T = Codec!IPv4 => Len(ip) = IPv4Len, T = Codec!IPv6 => Len(ip) = IPv6Len
        PROVE  /\ a \in Bytes /\ a[1] = T /\ Len(a) = 1 + Len(ip) + PortLen
               /\ Codec!AddrSize(a) = 1 + Len(ip) + PortLen /\ T # Codec!Domain
    <2> DEFINE f == <<T>>
    <2>1. f \in Bytes /\ Len(f) = 1 /\ f[1] = T /\ T # Codec!Domain
      BY <1>3 DEF Bytes, Codec!Domain, Codec!IPv4, Codec!IPv6
    <2>2. a = f \o ip \o port
      BY <1>3
    <2> HIDE DEF f
    <2>3. /\ a \in Bytes /\ Len(a) = Len(f) + Len(ip) + Len(port)
          /\ \A i \in 1 .. Len(f) : a[i] = f[i]
      <3>1. f \in Bytes
        BY <2>1, Zenon
      <3>2. /\ f \o ip \o port \in Bytes /\ Len(f \o ip \o port) = Len(f) + Len(ip) + Len(port)
            /\ \A i \in 1 .. Len(f) : (f \o ip \o port)[i] = f[i]
        BY <1>1, <3>1, ThreeParts, Zenon
      <3> QED
        BY <2>2, <3>2, Zenon
    <2>4. a[1] = T /\ Len(a) = 1 + Len(ip) + PortLen
      BY <1>1, <2>1, <2>3
    <2>5. Codec!AddrSize(a) = 1 + Len(ip) + PortLen
      <3>1. CASE T = Codec!IPv4
        <4>1. a[1] = Codec!IPv4 /\ a[1] # Codec!Domain /\ a[1] # Codec!IPv6 /\ Len(ip) = IPv4Len
          BY <1>3, <2>4, <3>1 DEF Codec!IPv4, Codec!IPv6, Codec!Domain
        <4> QED
          BY <4>1, Zenon DEF Codec!AddrSize
      <3>2. CASE T = Codec!IPv6
        <4>1. a[1] = Codec!IPv6 /\ a[1] # Codec!Domain /\ a[1] # Codec!IPv4 /\ Len(ip) = IPv6Len
          BY <1>3, <2>4, <3>2 DEF Codec!IPv4, Codec!IPv6, Codec!Domain
        <4> QED
          BY <4>1, Zenon DEF Codec!AddrSize
      <3> QED
        BY <1>3, <3>1, <3>2, Zenon
    <2> QED
      BY <2>1, <2>3, <2>4, <2>5, Zenon
  <1>4. ASSUME NEW T \in {Codec!IPv4, Codec!IPv6}, name = <<>>, a = <<T>> \o ip \o port,
               T = Codec!IPv4 => Len(ip) = IPv4Len, T = Codec!IPv6 => Len(ip) = IPv6Len
        PROVE  /\ a \in Bytes /\ Len(a) \in Nat /\ Len(a) >= 2 + PortLen /\ a[1] \in {Codec!IPv4, Codec!Domain, Codec!IPv6}
               /\ Len(a) = Codec!AddrSize(a) /\ a[1] = T /\ a[1] # Codec!Domain
    <2>1. /\ a \in Bytes /\ a[1] = T /\ Len(a) = 1 + Len(ip) + PortLen
          /\ Codec!AddrSize(a) = 1 + Len(ip) + PortLen /\ T # Codec!Domain
      BY <1>3, <1>4, Zenon
    <2>2. Len(ip) >= 1
      BY <1>1, <1>4, Sizes
    <2>3. Len(a) \in Nat /\ Len(a) >= 2 + PortLen
      BY <1>1, <2>1, <2>2, Sizes
    <2> QED
      BY <1>4, <2>1, <2>3, Zenon
  <1>5. Codec!IPv4 \in {Codec!IPv4, Codec!IPv6} /\ Codec!IPv6 \in {Codec!IPv4, Codec!IPv6} /\ Codec!IPv4 # Codec!IPv6
    BY DEF Codec!IPv4, Codec!IPv6
  <1>6. CASE name = <<>> /\ Len(ip) = IPv4Len /\ a = <<Codec!IPv4>> \o ip \o port
    BY <1>4, <1>5, <1>6, Zenon
  <1>7. CASE name = <<>> /\ Len(ip) = IPv6Len /\ a = <<Codec!IPv6>> \o ip \o port
    BY <1>4, <1>5, <1>7, Zenon
  <1> QED
    BY <1>2, <1>6, <1>7, SerializeIs, Zenon

\* The parts come back.
LEMMA PartsBack ==
    ASSUME NEW f \in Bytes, NEW s \in Bytes, NEW t \in Bytes
    PROVE  /\ SubSeq(f \o s \o t, Len(f) + 1, Len(f) + Len(s)) = s
           /\ SubSeq(f \o s \o t, Len(f) + Len(s) + 1, Len(f) + Len(s) + Len(t)) = t
  <1> DEFINE a == f \o s \o t
             l == Len(f)
             m == Len(s)
             n == Len(t)
  <1>1. /\ a \in Bytes /\ Len(a) = l + m + n /\ l \in Nat /\ m \in Nat /\ n \in Nat
        /\ \A i \in 1 .. m : a[l + i] = s[i]
        /\ \A i \in 1 .. n : a[l + m + i] = t[i]
    BY ThreeParts, ZenonT(30)
  <1> HIDE DEF a
  <1>2. SubSeq(a, l + 1, l + m) = s
    <2> DEFINE u == SubSeq(a, l + 1, l + m)
    <2>1. l + 1 \in Nat /\ l + m \in Nat /\ l + 1 >= 1 /\ l + 1 <= (l + m) + 1 /\ l + m <= Len(a) /\ a \in Bytes
      BY <1>1
    <2>2. /\ u \in Bytes /\ Len(u) = (l + m) - (l + 1) + 1
          /\ \A k \in 1 .. (l + m) - (l + 1) + 1 : u[k] = a[(l + 1) + k - 1]
      BY <2>1, Part, Zenon
    <2>3. (l + m) - (l + 1) + 1 = m /\ \A k \in 1 .. m : (l + 1) + k - 1 = l + k
      BY <1>1
    <2> HIDE DEF u
    <2>4. Len(u) = m /\ \A k \in 1 .. m : u[k] = s[k]
      BY <1>1, <2>2, <2>3, Zenon
    <2>5. u \in Bytes
      BY <2>2, Zenon
    <2>6. u = s
      BY <2>4, <2>5, SameBytes, Zenon
    <2> QED
      BY <2>6 DEF u
  <1>3. SubSeq(a, l + m + 1, l + m + n) = t
    <2> DEFINE u == SubSeq(a, l + m + 1, l + m + n)
    <2>1. /\ l + m + 1 \in Nat /\ l + m + n \in Nat /\ l + m + 1 >= 1 /\ l + m + 1 <= (l + m + n) + 1
          /\ l + m + n <= Len(a) /\ a \in Bytes
      BY <1>1
    <2>2. /\ u \in Bytes /\ Len(u) = (l + m + n) - (l + m + 1) + 1
          /\ \A k \in 1 .. (l + m + n) - (l + m + 1) + 1 : u[k] = a[(l + m + 1) + k - 1]
      BY <2>1, Part, Zenon
    <2>3. (l + m + n) - (l + m + 1) + 1 = n /\ \A k \in 1 .. n : (l + m + 1) + k - 1 = l + m + k
      BY <1>1
    <2> HIDE DEF u
    <2>4. Len(u) = n /\ \A k \in 1 .. n : u[k] = t[k]
      BY <1>1, <2>2, <2>3, Zenon
    <2>5. u \in Bytes
      BY <2>2, Zenon
    <2>6. u = t
      BY <2>4, <2>5, SameBytes, Zenon
    <2> QED
      BY <2>6 DEF u
  <1> QED
    BY <1>2, <1>3 DEF a

LEMMA TypedAddr ==
    ASSUME NEW a \in Bytes, Len(a) \in Nat, Len(a) >= 2 + PortLen, a[1] \in {Codec!IPv4, Codec!Domain, Codec!IPv6}, Len(a) = Codec!AddrSize(a)
    PROVE  Codec!Typed(a) /\ Codec!Valid(a)
  <1>1. Len(a) >= 2 /\ Len(a) >= 1 + 1 + PortLen /\ Len(a) >= Codec!AddrSize(a)
    BY Sizes
  <1> QED
    BY <1>1, Zenon DEF Codec!Typed, Codec!Valid

\* A name has no UDP address, an IP address and port come back.
LEMMA UDPAddrIs ==
    ASSUME NEW name \in Names, NEW ip \in IPs, NEW port \in Ports, NEW a, a = Codec!SerializeAddr(name, ip, port)
    PROVE  /\ Codec!Valid(a) /\ Codec!Typed(a)
           /\ name # <<>> => Codec!UDPAddr(a) = Codec!Nil
           /\ name = <<>> => Codec!UDPAddr(a) = <<ip, port>>
  <1>1. /\ a \in Bytes /\ Len(a) \in Nat /\ Len(a) >= 2 + PortLen /\ a[1] \in {Codec!IPv4, Codec!Domain, Codec!IPv6}
        /\ Len(a) = Codec!AddrSize(a)
        /\ a[1] = Codec!Domain <=> name # <<>>
        /\ name = <<>> => /\ a[1] = Codec!IPv4 => Len(ip) = IPv4Len
                          /\ a[1] = Codec!IPv6 => Len(ip) = IPv6Len
                          /\ a = <<a[1]>> \o ip \o port
    BY AddrFacts, Zenon
  <1>2. Codec!Typed(a) /\ Codec!Valid(a)
    BY <1>1, TypedAddr, Zenon
  <1>3. Codec!Domain # Codec!IPv4 /\ Codec!Domain # Codec!IPv6 /\ Codec!IPv4 # Codec!IPv6
    BY DEF Codec!Domain, Codec!IPv4, Codec!IPv6
  <1>4. ASSUME name # <<>> PROVE Codec!UDPAddr(a) = Codec!Nil
    <2>1. a[1] = Codec!Domain /\ a[1] # Codec!IPv4 /\ a[1] # Codec!IPv6
      BY <1>1, <1>3, <1>4, Zenon
    <2> QED
      BY <1>2, <2>1, Zenon DEF Codec!UDPAddr
  <1>5. ASSUME name = <<>> PROVE Codec!UDPAddr(a) = <<ip, port>>
    <2> DEFINE f == <<a[1]>>
    <2>1. a[1] \in Nat
      BY <1>1 DEF Codec!Domain, Codec!IPv4, Codec!IPv6
    <2>2. f \in Bytes /\ Len(f) = 1 /\ ip \in Bytes /\ port \in Bytes /\ Len(port) = PortLen /\ Len(ip) \in Nat
      BY <2>1, Inputs DEF Bytes
    <2>3. a = f \o ip \o port
      BY <1>1, <1>5, Zenon
    <2> HIDE DEF f
    <2>4. /\ SubSeq(a, Len(f) + 1, Len(f) + Len(ip)) = ip
          /\ SubSeq(a, Len(f) + Len(ip) + 1, Len(f) + Len(ip) + Len(port)) = port
      <3>1. f \in Bytes
        BY <2>2, Zenon
      <3>2. ip \in Bytes
        BY <2>2, Zenon
      <3>3. port \in Bytes
        BY <2>2, Zenon
      <3>4. /\ SubSeq(f \o ip \o port, Len(f) + 1, Len(f) + Len(ip)) = ip
            /\ SubSeq(f \o ip \o port, Len(f) + Len(ip) + 1, Len(f) + Len(ip) + Len(port)) = port
        BY <3>1, <3>2, <3>3, PartsBack
      <3> QED
        BY <2>3, <3>4, Zenon
    <2>5. /\ Len(f) + 1 = 2 /\ Len(f) + Len(ip) = 1 + Len(ip) /\ Len(f) + Len(ip) + 1 = 2 + Len(ip)
          /\ Len(f) + Len(ip) + Len(port) = 1 + Len(ip) + PortLen
      BY <2>2, Sizes
    <2>6. SubSeq(a, 2, 1 + Len(ip)) = ip /\ SubSeq(a, 2 + Len(ip), 1 + Len(ip) + PortLen) = port
      BY <2>4, <2>5, Zenon
    <2>7. CASE a[1] = Codec!IPv4
      <3>1. Len(ip) = IPv4Len /\ a[1] # Codec!Domain /\ a[1] # Codec!IPv6
        BY <1>1, <1>3, <1>5, <2>7, Zenon
      <3>2. Codec!UDPAddr(a) = <<SubSeq(a, 2, 1 + IPv4Len), SubSeq(a, 2 + IPv4Len, 1 + IPv4Len + PortLen)>>
        BY <1>2, <2>7, <3>1, Zenon DEF Codec!UDPAddr
      <3> QED
        BY <2>6, <3>1, <3>2, Zenon
    <2>8. CASE a[1] = Codec!IPv6
      <3>1. Len(ip) = IPv6Len /\ a[1] # Codec!Domain /\ a[1] # Codec!IPv4
        BY <1>1, <1>3, <1>5, <2>8, Zenon
      <3>2. Codec!UDPAddr(a) = <<SubSeq(a, 2, 1 + IPv6Len), SubSeq(a, 2 + IPv6Len, 1 + IPv6Len + PortLen)>>
        BY <1>2, <2>8, <3>1, Zenon DEF Codec!UDPAddr
      <3> QED
        BY <2>6, <3>1, <3>2, Zenon
    <2> QED
      BY <1>1, <1>5, <2>7, <2>8, Zenon
  <1> QED
    BY <1>2, <1>4, <1>5, Zenon

LEMMA NoAddr == Codec!UDPAddr(Codec!Nil) = Codec!Nil
  <1>1. ~Codec!Valid(Codec!Nil)
    BY Sizes DEF Codec!Valid, Codec!Nil
  <1> QED
    BY <1>1, Zenon DEF Codec!UDPAddr

\* The size of an address is in its first two bytes.
LEMMA SizeSame ==
    ASSUME NEW a, NEW s, s[1] = a[1], s[2] = a[2]
    PROVE  Codec!AddrSize(s) = Codec!AddrSize(a)
  BY Zenon DEF Codec!AddrSize

\* What SplitAddr makes of bytes that begin with an address, and of a part of one.
LEMMA SplitBegins ==
    ASSUME NEW name \in Names, NEW ip \in IPs, NEW port \in Ports, NEW s \in Bytes,
           Begins(s, Codec!SerializeAddr(name, ip, port))
    PROVE  Codec!SplitAddr(s) = Codec!SerializeAddr(name, ip, port)
  <1> DEFINE a == Codec!SerializeAddr(name, ip, port)
  <1>1. /\ a \in Bytes /\ Len(a) \in Nat /\ Len(a) >= 2 + PortLen /\ a[1] \in {Codec!IPv4, Codec!Domain, Codec!IPv6}
        /\ Len(a) = Codec!AddrSize(a)
    BY AddrFacts, Zenon
  <1> HIDE DEF a
  <1>2. Len(a) <= Len(s) /\ \A i \in 1 .. Len(a) : s[i] = a[i]
    BY DEF Begins, a
  <1>3. Len(s) \in Nat /\ Len(s) >= 2 /\ 1 \in 1 .. Len(a) /\ 2 \in 1 .. Len(a)
    BY <1>1, <1>2, Sizes DEF Bytes
  <1>4. s[1] = a[1] /\ s[2] = a[2]
    BY <1>2, <1>3, Zenon
  <1>5. Codec!AddrSize(s) = Len(a)
    BY <1>1, <1>4, SizeSame, Zenon
  <1>6. Codec!Typed(s)
    BY <1>1, <1>3, <1>4, Zenon DEF Codec!Typed
  <1>7. Len(s) >= Codec!AddrSize(s)
    BY <1>1, <1>2, <1>3, <1>5
  <1>8. SubSeq(s, 1, Len(a)) = a
    BY <1>1, <1>2, BeginsIs, Zenon DEF Begins
  <1>9. Codec!SplitAddr(s) = SubSeq(s, 1, Codec!AddrSize(s))
    BY <1>6, <1>7, Zenon DEF Codec!SplitAddr
  <1> QED
    BY <1>5, <1>8, <1>9, Zenon DEF a

LEMMA SplitShort ==
    ASSUME NEW name \in Names, NEW ip \in IPs, NEW port \in Ports, NEW s \in Bytes,
           Len(s) < Len(Codec!SerializeAddr(name, ip, port)),
           \A i \in 1 .. Len(s) : s[i] = Codec!SerializeAddr(name, ip, port)[i]
    PROVE  Codec!SplitAddr(s) = Codec!Nil
  <1> DEFINE a == Codec!SerializeAddr(name, ip, port)
  <1>1. Len(a) \in Nat /\ Len(a) = Codec!AddrSize(a)
    BY AddrFacts, Zenon
  <1>2. Len(s) \in Nat
    BY DEF Bytes
  <1>3. CASE Len(s) < 2
    <2>1. ~(Len(s) >= 2)
      BY <1>2, <1>3
    <2> QED
      BY <2>1, Zenon DEF Codec!SplitAddr, Codec!Typed
  <1>4. CASE Len(s) >= 2
    <2>1. 1 \in 1 .. Len(s) /\ 2 \in 1 .. Len(s)
      BY <1>2, <1>4
    <2>2. Codec!AddrSize(s) = Len(a)
      <3>1. s[1] = a[1] /\ s[2] = a[2]
        BY <2>1, Zenon
      <3> QED
        BY <1>1, <3>1, SizeSame, Zenon
    <2>3. ~(Len(s) >= Len(a))
      <3> HIDE DEF a
      <3>1. Len(s) < Len(a)
        BY DEF a
      <3> QED
        BY <1>1, <1>2, <3>1
    <2> QED
      BY <2>2, <2>3, Zenon DEF Codec!SplitAddr
  <1> QED
    BY <1>2, <1>3, <1>4

-----------------------------------------------------------------------------
(* Packets. *)

LEMMA SplitType ==
    ASSUME NEW s \in Bytes
    PROVE  Codec!SplitAddr(s) \in Bytes /\ Len(Codec!SplitAddr(s)) \in Nat /\ Len(Codec!SplitAddr(s)) <= Len(s)
  <1>1. Len(s) \in Nat /\ Codec!Nil \in Bytes /\ Len(Codec!Nil) = 0
    BY DEF Bytes, Codec!Nil
  <1>2. CASE Codec!Typed(s) /\ Len(s) >= Codec!AddrSize(s)
    <2>1. Len(s) >= 2 /\ s[1] \in {Codec!IPv4, Codec!Domain, Codec!IPv6}
      BY <1>2, Zenon DEF Codec!Typed
    <2>2. s[2] \in Nat
      BY <1>1, <2>1 DEF Bytes
    <2>3. Codec!AddrSize(s) \in Nat
      <3>1. Codec!Domain # Codec!IPv4 /\ Codec!Domain # Codec!IPv6 /\ Codec!IPv4 # Codec!IPv6
        BY DEF Codec!Domain, Codec!IPv4, Codec!IPv6
      <3>2. \/ Codec!AddrSize(s) = 1 + 1 + s[2] + PortLen
            \/ Codec!AddrSize(s) = 1 + IPv4Len + PortLen
            \/ Codec!AddrSize(s) = 1 + IPv6Len + PortLen
        BY <2>1, <3>1, Zenon DEF Codec!AddrSize
      <3> QED
        BY <2>2, <3>2, Sizes
    <2> DEFINE n == Codec!AddrSize(s)
    <2>4. n \in Nat /\ 1 \in Nat /\ 1 >= 1 /\ 1 <= n + 1 /\ n <= Len(s) /\ n - 1 + 1 = n
      BY <1>1, <1>2, <2>3
    <2>5. SubSeq(s, 1, n) \in Bytes /\ Len(SubSeq(s, 1, n)) = n - 1 + 1
      BY <2>4, Part, Zenon
    <2>6. Codec!SplitAddr(s) = SubSeq(s, 1, n)
      BY <1>2, Zenon DEF Codec!SplitAddr
    <2> QED
      BY <2>4, <2>5, <2>6, Zenon
  <1>3. CASE ~(Codec!Typed(s) /\ Len(s) >= Codec!AddrSize(s))
    <2>1. Codec!SplitAddr(s) = Codec!Nil
      BY <1>3, Zenon DEF Codec!SplitAddr
    <2> QED
      BY <1>1, <2>1
  <1> QED
    BY <1>2, <1>3, Zenon

LEMMA FromFacts ==
    ASSUME NEW s \in Bytes, NEW i \in Nat, i >= 1
    PROVE  /\ Codec!From(s, i) \in Bytes /\ Len(s) \in Nat
           /\ i <= Len(s) + 1 => /\ Len(Codec!From(s, i)) = Len(s) - i + 1
                                 /\ \A k \in 1 .. Len(s) - i + 1 : Codec!From(s, i)[k] = s[i + k - 1]
  <1>1. Len(s) \in Nat
    BY DEF Bytes
  <1>2. CASE i <= Len(s) + 1
    <2>1. Len(s) <= Len(s)
      BY <1>1
    <2> QED
      BY <1>1, <1>2, <2>1, Part, Zenon DEF Codec!From
  <1>3. CASE ~(i <= Len(s) + 1)
    <2>1. SubSeq(s, i, Len(s)) = <<>>
      BY <1>1, <1>3 DEF Bytes
    <2>2. <<>> \in Bytes
      BY DEF Bytes
    <2> QED
      BY <1>1, <1>3, <2>1, <2>2, Zenon DEF Codec!From
  <1> QED
    BY <1>2, <1>3, Zenon

LEMMA ZerosFacts ==
    ASSUME NEW n \in Nat
    PROVE  Codec!Zeros(n) \in Bytes /\ Len(Codec!Zeros(n)) = n
  <1>1. 0 \in Nat
    OBVIOUS
  <1>2. Codec!Zeros(n) \in [1 .. n -> Nat]
    BY <1>1, Zenon DEF Codec!Zeros
  <1> QED
    BY <1>2, FromFunction, Zenon

\* A packet with the header of SOCKS5.
LEMMA Encoded ==
    ASSUME NEW addr \in Bytes, NEW payload \in Bytes
    PROVE  LET p == Codec!EncodeUDPPacket(addr, payload) IN
           /\ p \in Bytes /\ Len(p) = 3 + Len(addr) + Len(payload)
           /\ Len(addr) \in Nat /\ Len(payload) \in Nat
           /\ p[1] = 0 /\ p[2] = 0
           /\ \A i \in 1 .. Len(addr) : p[3 + i] = addr[i]
           /\ \A i \in 1 .. Len(payload) : p[3 + Len(addr) + i] = payload[i]
  <1> DEFINE p == Codec!EncodeUDPPacket(addr, payload)
             f == <<0, 0, 0>>
  <1>1. f \in Bytes /\ Len(f) = 3 /\ f[1] = 0 /\ f[2] = 0 /\ 1 \in 1 .. 3 /\ 2 \in 1 .. 3
    BY DEF Bytes
  <1>2. p = f \o addr \o payload
    BY DEF Codec!EncodeUDPPacket
  <1> HIDE DEF f, p
  <1>3. /\ p \in Bytes /\ Len(p) = Len(f) + Len(addr) + Len(payload)
        /\ Len(addr) \in Nat /\ Len(payload) \in Nat
        /\ \A i \in 1 .. Len(f) : p[i] = f[i]
        /\ \A i \in 1 .. Len(addr) : p[Len(f) + i] = addr[i]
        /\ \A i \in 1 .. Len(payload) : p[Len(f) + Len(addr) + i] = payload[i]
    <2>1. f \in Bytes
      BY <1>1, Zenon
    <2>2. /\ f \o addr \o payload \in Bytes /\ Len(f \o addr \o payload) = Len(f) + Len(addr) + Len(payload)
          /\ Len(addr) \in Nat /\ Len(payload) \in Nat
          /\ \A i \in 1 .. Len(f) : (f \o addr \o payload)[i] = f[i]
          /\ \A i \in 1 .. Len(addr) : (f \o addr \o payload)[Len(f) + i] = addr[i]
          /\ \A i \in 1 .. Len(payload) : (f \o addr \o payload)[Len(f) + Len(addr) + i] = payload[i]
      <3>1. addr \in Bytes /\ payload \in Bytes
        OBVIOUS
      <3>2. /\ f \o addr \o payload \in Bytes
            /\ Len(f \o addr \o payload) = Len(f) + Len(addr) + Len(payload)
            /\ Len(addr) \in Nat /\ Len(payload) \in Nat
        BY <2>1, <3>1, ThreeParts, Zenon
      <3>3. \A i \in 1 .. Len(f) : (f \o addr \o payload)[i] = f[i]
        BY <2>1, <3>1, ThreeParts, Zenon
      <3>4. \A i \in 1 .. Len(addr) : (f \o addr \o payload)[Len(f) + i] = addr[i]
        BY <2>1, <3>1, ThreeParts, Zenon
      <3>5. \A i \in 1 .. Len(payload) : (f \o addr \o payload)[Len(f) + Len(addr) + i] = payload[i]
        BY <2>1, <3>1, ThreeParts, Zenon
      <3> QED
        BY <3>2, <3>3, <3>4, <3>5, Zenon
    <2> QED
      BY <1>2, <2>2, Zenon
  <1>4. p[1] = 0 /\ p[2] = 0
    BY <1>1, <1>3, Zenon
  <1>5. /\ p \in Bytes /\ Len(p) = 3 + Len(addr) + Len(payload)
        /\ \A i \in 1 .. Len(addr) : p[3 + i] = addr[i]
        /\ \A i \in 1 .. Len(payload) : p[3 + Len(addr) + i] = payload[i]
    BY <1>1, <1>3, Zenon
  <1> QED
    BY <1>3, <1>4, <1>5, Zenon DEF p

\* The same without its header, which is what shadowsocks sends.
LEMMA Headless ==
    ASSUME NEW addr \in Bytes, NEW payload \in Bytes
    PROVE  Codec!From(Codec!EncodeUDPPacket(addr, payload), 4) = addr \o payload
  <1> DEFINE p == Codec!EncodeUDPPacket(addr, payload)
             q == Codec!From(p, 4)
             w == addr \o payload
             l == Len(addr)
             n == Len(payload)
  <1>1. /\ p \in Bytes /\ Len(p) = 3 + l + n /\ l \in Nat /\ n \in Nat
        /\ \A i \in 1 .. l : p[3 + i] = addr[i]
        /\ \A i \in 1 .. n : p[3 + l + i] = payload[i]
    BY Encoded, Zenon
  <1>2. /\ w \in Bytes /\ Len(w) = l + n
        /\ \A i \in 1 .. l : w[i] = addr[i]
        /\ \A i \in 1 .. n : w[l + i] = payload[i]
    BY Joins, Zenon
  <1> HIDE DEF p, w
  <1>3. 4 \in Nat /\ 4 >= 1 /\ 4 <= Len(p) + 1 /\ Len(p) - 4 + 1 = l + n
    BY <1>1
  <1>4. q \in Bytes /\ Len(q) = Len(p) - 4 + 1 /\ \A k \in 1 .. Len(p) - 4 + 1 : q[k] = p[4 + k - 1]
    BY <1>1, <1>3, FromFacts, Zenon
  <1> HIDE DEF q
  <1>5. ASSUME NEW k \in 1 .. l + n PROVE q[k] = w[k]
    <2>1. q[k] = p[3 + k]
      <3>1. 4 + k - 1 = 3 + k
        BY <1>1
      <3> QED
        BY <1>3, <1>4, <3>1, Zenon
    <2>2. CASE k <= l
      <3>1. k \in 1 .. l
        BY <1>1, <2>2
      <3> QED
        BY <1>1, <1>2, <2>1, <3>1, Zenon
    <2>3. CASE k > l
      <3> DEFINE j == k - l
      <3>1. j \in 1 .. n /\ l + j = k /\ 3 + l + j = 3 + k
        BY <1>1, <2>3
      <3> HIDE DEF j
      <3> QED
        BY <1>1, <1>2, <2>1, <3>1, Zenon
    <2> QED
      BY <1>1, <2>2, <2>3
  <1>6. q = w
    <2>1. Len(q) = Len(w)
      BY <1>2, <1>3, <1>4, Zenon
    <2>2. \A k \in 1 .. Len(w) : q[k] = w[k]
      BY <1>2, <1>5, Zenon
    <2>3. q \in Bytes
      BY <1>4, Zenon
    <2>4. w \in Bytes
      BY <1>2, Zenon
    <2> QED
      BY <2>1, <2>2, <2>3, <2>4, SameBytes, Zenon
  <1> QED
    BY <1>6 DEF p, q, w

LEMMA WholeIs ==
    ASSUME NEW s \in Bytes
    PROVE  Begins(s, s) /\ SubSeq(s, 1, Len(s)) = s
  <1>1. Len(s) <= Len(s)
    BY DEF Bytes
  <1>2. Begins(s, s)
    BY <1>1, Zenon DEF Begins
  <1> QED
    BY <1>2, BeginsIs, Zenon

\* copy leaves at the front of the buffer what the source begins with.
LEMMA Overlaid ==
    ASSUME NEW s \in Bytes, NEW t \in Bytes, NEW u \in Bytes, Begins(t, u), Len(u) <= Len(s)
    PROVE  Begins(Codec!Over(s, t), u)
  <1>1. /\ Len(Codec!Over(s, t)) = Len(s) /\ Len(s) \in Nat /\ Len(t) \in Nat
        /\ \A i \in 1 .. Len(s) : Codec!Over(s, t)[i] = IF i <= Len(t) THEN t[i] ELSE s[i]
    BY OverFacts, Zenon
  <1>2. Len(u) <= Len(t) /\ (\A i \in 1 .. Len(u) : t[i] = u[i]) /\ Len(u) \in Nat
    BY DEF Begins, Bytes
  <1>3. \A i \in 1 .. Len(u) : i \in 1 .. Len(s) /\ i <= Len(t)
    BY <1>1, <1>2
  <1>4. \A i \in 1 .. Len(u) : Codec!Over(s, t)[i] = u[i]
    BY <1>1, <1>2, <1>3, Zenon
  <1> QED
    BY <1>1, <1>4, Zenon DEF Begins

LEMMA Patched ==
    ASSUME NEW s \in Bytes, NEW v \in Nat, Len(s) >= 3
    PROVE  /\ [s EXCEPT ![3] = v] \in Bytes /\ Len([s EXCEPT ![3] = v]) = Len(s)
           /\ [s EXCEPT ![3] = v][3] = v
           /\ \A i \in 1 .. Len(s) : i # 3 => [s EXCEPT ![3] = v][i] = s[i]
  BY DEF Bytes

\* A datagram of SOCKS5 with the number of a fragment in its header, and its bytes.
Framed(addr, payload, frag) == [Codec!EncodeUDPPacket(addr, payload) EXCEPT ![3] = frag]

FramedAs(p, addr, payload, frag) ==
    /\ Len(p) = 3 + Len(addr) + Len(payload)
    /\ p[1] = 0 /\ p[2] = 0 /\ p[3] = frag
    /\ \A i \in 1 .. Len(addr) : p[3 + i] = addr[i]
    /\ \A i \in 1 .. Len(payload) : p[3 + Len(addr) + i] = payload[i]

\* What ReadFrom makes of a datagram that is there in full.
WholeOutcome(name, addr, payload, frag) ==
    /\ frag # 0 \/ name # <<>> => res' = Codec!Failed
    /\ frag = 0 /\ name = <<>> =>
         /\ res' = [err |-> FALSE, n |-> Len(payload), from |-> Codec!UDPAddr(addr)]
         /\ SubSeq(buffer', 1, Len(payload)) = payload

LEMMA Fragment ==
    ASSUME NEW addr \in Bytes, NEW payload \in Bytes, NEW frag \in {0, 1}
    PROVE  Framed(addr, payload, frag) \in Bytes /\ FramedAs(Framed(addr, payload, frag), addr, payload, frag)
  <1> DEFINE e == Codec!EncodeUDPPacket(addr, payload)
             p == [e EXCEPT ![3] = frag]
             l == Len(addr)
             n == Len(payload)
  <1>1. /\ e \in Bytes /\ Len(e) = 3 + l + n /\ l \in Nat /\ n \in Nat
        /\ e[1] = 0 /\ e[2] = 0
        /\ \A i \in 1 .. l : e[3 + i] = addr[i]
        /\ \A i \in 1 .. n : e[3 + l + i] = payload[i]
    BY Encoded, Zenon
  <1> HIDE DEF e
  <1>2. Len(e) >= 3 /\ frag \in Nat /\ e \in Bytes
    BY <1>1
  <1>3. /\ p \in Bytes /\ Len(p) = Len(e) /\ p[3] = frag
        /\ \A i \in 1 .. Len(e) : i # 3 => p[i] = e[i]
    BY <1>2, Patched, Zenon
  <1> HIDE DEF p
  <1>4. p[1] = 0 /\ p[2] = 0
    <2>1. 1 \in 1 .. Len(e) /\ 2 \in 1 .. Len(e) /\ 1 # 3 /\ 2 # 3
      BY <1>1
    <2> QED
      BY <1>1, <1>3, <2>1, Zenon
  <1>5. \A i \in 1 .. l : p[3 + i] = addr[i]
    <2>1. \A i \in 1 .. l : 3 + i \in 1 .. Len(e) /\ 3 + i # 3
      BY <1>1
    <2> QED
      BY <1>1, <1>3, <2>1, Zenon
  <1>6. \A i \in 1 .. n : p[3 + l + i] = payload[i]
    <2>1. \A i \in 1 .. n : 3 + l + i \in 1 .. Len(e) /\ 3 + l + i # 3
      BY <1>1
    <2> QED
      BY <1>1, <1>3, <2>1, Zenon
  <1>7. FramedAs(p, addr, payload, frag)
    BY <1>1, <1>3, <1>4, <1>5, <1>6, Zenon DEF FramedAs
  <1>8. Framed(addr, payload, frag) = p
    BY Zenon DEF Framed, e, p
  <1> QED
    BY <1>3, <1>7, <1>8, Zenon

-----------------------------------------------------------------------------
(* ReadFrom of SOCKS5. *)

LEMMA DecodeType ==
    ASSUME NEW s \in Bytes
    PROVE  Codec!DecodeUDPPacket(s).payload \in Bytes
  <1> DEFINE addr == Codec!SplitAddr(Codec!From(s, 4))
  <1>1. 4 \in Nat /\ 4 >= 1 /\ <<>> \in Bytes
    BY DEF Bytes
  <1>2. Codec!From(s, 4) \in Bytes
    BY <1>1, FromFacts, Zenon
  <1>3. Len(addr) \in Nat
    BY <1>2, SplitType, Zenon
  <1>4. 4 + Len(addr) \in Nat /\ 4 + Len(addr) >= 1
    BY <1>3
  <1>5. Codec!From(s, 4 + Len(addr)) \in Bytes
    BY <1>4, FromFacts, Zenon
  <1> DEFINE bad == Len(s) < 5 \/ s[1] # 0 \/ s[2] # 0 \/ s[3] # 0 \/ addr = Codec!Nil
  <1>6. Codec!DecodeUDPPacket(s) = IF bad THEN [err |-> TRUE, addr |-> Codec!Nil, payload |-> <<>>]
                             ELSE [err |-> FALSE, addr |-> addr, payload |-> Codec!From(s, 4 + Len(addr))]
    BY Zenon DEF Codec!DecodeUDPPacket
  <1> HIDE DEF addr, bad
  <1> QED
    BY <1>1, <1>5, <1>6

LEMMA Socks5Type ==
    ASSUME BufferInv, NEW pkt \in Bytes, NEW cut \in Nat, Codec!Socks5ReadFrom(pkt, cut = 0)
    PROVE  BufferInv'
  <1> DEFINE held == Codec!Over(buffer, pkt)
             pay == Codec!DecodeUDPPacket(held).payload
  <1>1. buffer \in Bytes /\ Len(buffer) = BufSize
    BY DEF BufferInv
  <1>2. held \in Bytes /\ Len(held) = BufSize
    BY <1>1, OverFacts, Zenon
  <1>3. pay \in Bytes
    BY <1>2, DecodeType, Zenon
  <1>4. Codec!Over(held, pay) \in Bytes /\ Len(Codec!Over(held, pay)) = BufSize
    BY <1>2, <1>3, OverFacts, Zenon
  <1>5. buffer' = held \/ buffer' = Codec!Over(held, pay)
    BY Zenon DEF Codec!Socks5ReadFrom
  <1> QED
    BY <1>2, <1>4, <1>5, Zenon DEF BufferInv

\* What is done with a datagram that is there in full.
LEMMA Socks5Whole ==
    ASSUME BufferInv, NEW name \in Names, NEW ip \in IPs, NEW port \in Ports, NEW payload \in Bytes,
           NEW frag \in {0, 1}, NEW pkt \in Bytes, NEW cut \in Nat,
           FramedAs(pkt, Codec!SerializeAddr(name, ip, port), payload, frag), Len(pkt) <= BufSize,
           Codec!Socks5ReadFrom(pkt, cut = 0)
    PROVE  WholeOutcome(name, Codec!SerializeAddr(name, ip, port), payload, frag)
  <1> DEFINE addr == Codec!SerializeAddr(name, ip, port)
  <1>a. addr = Codec!SerializeAddr(name, ip, port) /\ FramedAs(pkt, addr, payload, frag)
    OBVIOUS
  <1>buffer. addr \in Bytes
    BY AddrFacts, Zenon
  <1> SUFFICES WholeOutcome(name, addr, payload, frag)
    OBVIOUS
  <1> HIDE DEF addr
  <1> USE <1>a, <1>buffer
  <1>0. /\ Len(pkt) = 3 + Len(addr) + Len(payload)
        /\ pkt[1] = 0 /\ pkt[2] = 0 /\ pkt[3] = frag
        /\ \A i \in 1 .. Len(addr) : pkt[3 + i] = addr[i]
        /\ \A i \in 1 .. Len(payload) : pkt[3 + Len(addr) + i] = payload[i]
    BY Zenon DEF FramedAs
  <1> USE <1>0
  <1> DEFINE held == Codec!Over(buffer, pkt)
             r   == Codec!From(held, 4)
             l   == Len(addr)
             n   == Len(payload)
             pay == Codec!From(held, 4 + l)
  <1>1. buffer \in Bytes /\ Len(buffer) = BufSize /\ BufSize \in Nat /\ n \in Nat
    BY Sizes DEF BufferInv, Bytes
  <1>2. l \in Nat /\ l >= 2 + PortLen /\ PortLen \in Nat
    <2>1. l \in Nat /\ l >= 2 + PortLen
      BY AddrFacts, Zenon
    <2> QED
      BY <2>1, Sizes
  <1>3. /\ held \in Bytes /\ Len(held) = BufSize
        /\ \A i \in 1 .. Len(pkt) : held[i] = pkt[i]
    <2>1. /\ held \in Bytes /\ Len(held) = Len(buffer)
          /\ \A i \in 1 .. Len(buffer) : held[i] = IF i <= Len(pkt) THEN pkt[i] ELSE buffer[i]
      BY <1>1, OverFacts, Zenon
    <2>2. \A i \in 1 .. Len(pkt) : i \in 1 .. Len(buffer) /\ i <= Len(pkt)
      BY <1>1, <1>2
    <2> QED
      BY <1>1, <2>1, <2>2, Zenon
  <1> HIDE DEF held
  <1>4. held[1] = 0 /\ held[2] = 0 /\ held[3] = frag /\ ~(Len(held) < 5)
    <2>1. 1 \in 1 .. Len(pkt) /\ 2 \in 1 .. Len(pkt) /\ 3 \in 1 .. Len(pkt) /\ ~(BufSize < 5)
      BY <1>1, <1>2
    <2> QED
      BY <1>3, <2>1, Zenon
  <1>5. r \in Bytes /\ Begins(r, addr)
    <2>1. 4 \in Nat /\ 4 >= 1 /\ 4 <= Len(held) + 1 /\ Len(held) - 4 + 1 = BufSize - 3
      BY <1>1, <1>2, <1>3
    <2>2. r \in Bytes /\ Len(r) = Len(held) - 4 + 1 /\ \A k \in 1 .. Len(held) - 4 + 1 : r[k] = held[4 + k - 1]
      BY <1>3, <2>1, FromFacts, Zenon
    <2>3. \A k \in 1 .. l : k \in 1 .. Len(held) - 4 + 1 /\ 4 + k - 1 = 3 + k /\ 3 + k \in 1 .. Len(pkt)
      BY <1>1, <1>2, <2>1
    <2>4. ASSUME NEW k \in 1 .. l PROVE r[k] = addr[k]
      <3>1. r[k] = held[3 + k]
        BY <2>2, <2>3, Zenon
      <3>2. held[3 + k] = pkt[3 + k] /\ pkt[3 + k] = addr[k]
        BY <1>3, <2>3, Zenon
      <3> QED
        BY <3>1, <3>2
    <2>5. l <= Len(r)
      BY <1>1, <1>2, <2>1, <2>2
    <2> QED
      BY <2>2, <2>4, <2>5, Zenon DEF Begins
  <1>6. Codec!SplitAddr(r) = addr
    <2>1. r \in Bytes /\ Begins(r, Codec!SerializeAddr(name, ip, port))
      BY <1>5, Zenon
    <2>2. Codec!SplitAddr(r) = Codec!SerializeAddr(name, ip, port)
      BY <2>1, SplitBegins, Zenon
    <2> QED
      BY <2>2
  <1>7. addr # Codec!Nil
    BY <1>2 DEF Codec!Nil
  <1>8. /\ frag # 0 => Codec!DecodeUDPPacket(held) = [err |-> TRUE, addr |-> Codec!Nil, payload |-> <<>>]
        /\ frag = 0 => Codec!DecodeUDPPacket(held) = [err |-> FALSE, addr |-> addr, payload |-> pay]
    BY <1>4, <1>6, <1>7, Zenon DEF Codec!DecodeUDPPacket
  <1>9. pay \in Bytes /\ Begins(pay, payload)
    <2>1. /\ 4 + l \in Nat /\ 4 + l >= 1 /\ 4 + l <= Len(held) + 1 /\ Len(held) - (4 + l) + 1 = BufSize - 3 - l
      BY <1>1, <1>2, <1>3
    <2>2. /\ pay \in Bytes /\ Len(pay) = Len(held) - (4 + l) + 1
          /\ \A k \in 1 .. Len(held) - (4 + l) + 1 : pay[k] = held[(4 + l) + k - 1]
      BY <1>3, <2>1, FromFacts, Zenon
    <2>3. \A k \in 1 .. n : /\ k \in 1 .. Len(held) - (4 + l) + 1
                            /\ (4 + l) + k - 1 = 3 + l + k /\ 3 + l + k \in 1 .. Len(pkt)
      BY <1>1, <1>2, <2>1
    <2>4. \A k \in 1 .. n : pay[k] = payload[k]
      BY <1>3, <2>2, <2>3, ZenonT(30)
    <2>5. n <= Len(pay)
      BY <1>1, <1>2, <2>1, <2>2
    <2> QED
      BY <2>2, <2>4, <2>5, Zenon DEF Begins
  <1> HIDE DEF pay
  <1>10. SubSeq(Codec!Over(held, pay), 1, n) = payload
    <2>1. n <= Len(held)
      BY <1>1, <1>2, <1>3
    <2>2. Begins(Codec!Over(held, pay), payload)
      BY <1>3, <1>9, <2>1, Overlaid, Zenon
    <2>3. Codec!Over(held, pay) \in Bytes
      BY <1>3, <1>9, OverFacts, Zenon
    <2> QED
      BY <2>2, <2>3, BeginsIs, Zenon
  <1>11. Len(pkt) - l - 3 = n
    BY <1>1, <1>2
  <1>12. /\ name # <<>> => Codec!UDPAddr(addr) = Codec!Nil
         /\ name = <<>> => Codec!UDPAddr(addr) = <<ip, port>>
    BY UDPAddrIs, ZenonT(30) DEF addr
  <1>13. <<ip, port>> # Codec!Nil
    BY DEF Codec!Nil
  <1> DEFINE dec == Codec!DecodeUDPPacket(held)
  <1>14. /\ dec.err \/ Codec!UDPAddr(dec.addr) = Codec!Nil => res' = Codec!Failed
         /\ ~(dec.err \/ Codec!UDPAddr(dec.addr) = Codec!Nil) =>
               /\ buffer' = Codec!Over(held, dec.payload)
               /\ res' = [err |-> FALSE, n |-> Len(pkt) - Len(dec.addr) - 3, from |-> Codec!UDPAddr(dec.addr)]
    BY Zenon DEF Codec!Socks5ReadFrom, held
  <1>15. /\ frag # 0 => dec.err = TRUE
         /\ frag = 0 => dec.err = FALSE /\ dec.addr = addr /\ dec.payload = pay
    BY <1>8
  <1> HIDE DEF dec
  <1>16. CASE frag # 0
    BY <1>14, <1>15, <1>16, Zenon DEF WholeOutcome
  <1>17. CASE frag = 0 /\ name # <<>>
    BY <1>12, <1>14, <1>15, <1>17, Zenon DEF WholeOutcome
  <1>18. CASE frag = 0 /\ name = <<>>
    <2>1. ~(dec.err \/ Codec!UDPAddr(dec.addr) = Codec!Nil)
      BY <1>12, <1>13, <1>15, <1>18, Zenon
    <2>2. /\ buffer' = Codec!Over(held, pay)
          /\ res' = [err |-> FALSE, n |-> n, from |-> Codec!UDPAddr(addr)]
      BY <1>11, <1>14, <1>15, <1>18, <2>1, Zenon
    <2> QED
      BY <1>10, <1>18, <2>2, Zenon DEF WholeOutcome
  <1> QED
    BY <1>16, <1>17, <1>18, Zenon DEF WholeOutcome

-----------------------------------------------------------------------------
(* ReadFrom of shadowsocks. *)

LEMMA Wrapping ==
    /\ Codec!Salt \in Bytes /\ Len(Codec!Salt) = Overhead
    /\ Codec!Tag \in Bytes /\ Len(Codec!Tag) \in Nat
  <1>1. Codec!Zeros(Overhead) \in Bytes /\ Len(Codec!Zeros(Overhead)) = Overhead
    BY Sizes, ZerosFacts, Zenon
  <1>2. <<>> \in Bytes /\ Len(<<>>) = 0
    BY DEF Bytes
  <1>3. Codec!Tag = Codec!Zeros(Overhead) \/ Codec!Tag = <<>>
    BY Zenon DEF Codec!Tag
  <1> QED
    BY <1>1, <1>2, <1>3, Sizes DEF Codec!Salt

\* What is made of the plain bytes, of which only the first ones may be there.
LEMMA PlainRead ==
    ASSUME NEW name \in Names, NEW ip \in IPs, NEW port \in Ports, NEW payload \in Bytes,
           NEW addr \in Bytes, addr = Codec!SerializeAddr(name, ip, port),
           NEW held \in Bytes, Len(held) = BufSize, Len(addr) + Len(payload) <= BufSize,
           NEW pl \in Bytes, Begins(addr \o payload, pl)
    PROVE  LET plain == Codec!Over(held, pl)
               a == Codec!SplitAddr(SubSeq(plain, 1, Len(pl)))
               moved == Codec!Over(plain, Codec!From(plain, Len(a) + 1)) IN
           /\ plain \in Bytes /\ Len(plain) = BufSize
           /\ moved \in Bytes /\ Len(moved) = BufSize
           /\ Len(pl) < Len(addr) => a = Codec!Nil
           /\ Len(pl) = Len(addr) + Len(payload) =>
                /\ a = addr /\ Len(pl) - Len(a) = Len(payload)
                /\ SubSeq(moved, 1, Len(payload)) = payload
  <1> DEFINE body  == addr \o payload
             plain == Codec!Over(held, pl)
             a     == Codec!SplitAddr(SubSeq(plain, 1, Len(pl)))
             behind  == Codec!From(plain, Len(a) + 1)
             moved == Codec!Over(plain, behind)
             l     == Len(addr)
             n     == Len(payload)
             m     == Len(pl)
  <1>1. /\ body \in Bytes /\ Len(body) = l + n /\ l \in Nat /\ n \in Nat
        /\ \A i \in 1 .. l : body[i] = addr[i]
        /\ \A i \in 1 .. n : body[l + i] = payload[i]
    BY Joins, Zenon
  <1> HIDE DEF body
  <1>2. m \in Nat /\ m <= Len(body) /\ \A i \in 1 .. m : body[i] = pl[i]
    <2>1. Begins(body, pl)
      BY DEF body
    <2>2. m \in Nat
      BY DEF Bytes
    <2> QED
      BY <2>1, <2>2, Zenon DEF Begins
  <1>3. m <= BufSize /\ BufSize \in Nat
    BY <1>1, <1>2, Sizes
  <1>4. /\ plain \in Bytes /\ Len(plain) = BufSize
        /\ \A i \in 1 .. BufSize : plain[i] = IF i <= m THEN pl[i] ELSE held[i]
    BY OverFacts, Zenon
  <1>5. SubSeq(plain, 1, m) = pl
    <2>1. Begins(pl, pl)
      BY WholeIs, Zenon
    <2>2. m <= Len(held)
      BY <1>3
    <2>3. Begins(plain, pl)
      BY <2>1, <2>2, Overlaid, Zenon
    <2> QED
      BY <1>4, <2>3, BeginsIs, Zenon
  <1>6. a = Codec!SplitAddr(pl)
    BY <1>5, Zenon
  <1> HIDE DEF plain, a
  <1>7. Len(a) \in Nat
    BY <1>6, SplitType, Zenon
  <1>8. behind \in Bytes
    <2>1. Len(a) + 1 \in Nat /\ Len(a) + 1 >= 1
      BY <1>7
    <2> QED
      BY <1>4, <2>1, FromFacts, Zenon
  <1>9. moved \in Bytes /\ Len(moved) = BufSize
    <2> HIDE DEF behind
    <2> QED
      BY <1>4, <1>8, OverFacts, Zenon
  <1>10. ASSUME m < l PROVE a = Codec!Nil
    <2>1. \A i \in 1 .. m : i \in 1 .. l
      BY <1>1, <1>2, <1>10
    <2>2. \A i \in 1 .. m : pl[i] = addr[i]
      BY <1>1, <1>2, <2>1, Zenon
    <2>3. m < Len(Codec!SerializeAddr(name, ip, port)) /\ \A i \in 1 .. m : pl[i] = Codec!SerializeAddr(name, ip, port)[i]
      BY <1>10, <2>2, Zenon
    <2> QED
      BY <1>6, <2>3, SplitShort, Zenon
  <1>11. ASSUME m = l + n
         PROVE  a = addr /\ m - Len(a) = n /\ SubSeq(moved, 1, n) = payload
    <2>1. a = addr
      <3>1. l <= m /\ \A i \in 1 .. l : i \in 1 .. m
        BY <1>1, <1>2, <1>11
      <3>2. \A i \in 1 .. l : pl[i] = addr[i]
        BY <1>1, <1>2, <3>1, Zenon
      <3>3. Begins(pl, Codec!SerializeAddr(name, ip, port))
        BY <3>1, <3>2, Zenon DEF Begins
      <3>4. Codec!SplitAddr(pl) = Codec!SerializeAddr(name, ip, port)
        BY <3>3, SplitBegins, Zenon
      <3> QED
        BY <1>6, <3>4
    <2>2. m - Len(a) = n
      BY <1>1, <1>11, <2>1
    <2>3. Begins(behind, payload)
      <3>1. l + 1 \in Nat /\ l + 1 >= 1 /\ l + 1 <= Len(plain) + 1 /\ Len(plain) - (l + 1) + 1 = BufSize - l
        BY <1>1, <1>3, <1>4, <1>11
      <3>2. /\ Len(Codec!From(plain, l + 1)) = Len(plain) - (l + 1) + 1
            /\ \A k \in 1 .. Len(plain) - (l + 1) + 1 : Codec!From(plain, l + 1)[k] = plain[l + 1 + k - 1]
        BY <1>4, <3>1, FromFacts, Zenon
      <3>3. behind = Codec!From(plain, l + 1)
        BY <2>1
      <3> HIDE DEF behind
      <3>4. ASSUME NEW k \in 1 .. n PROVE behind[k] = payload[k]
        <4>1. /\ k \in 1 .. Len(plain) - (l + 1) + 1 /\ l + 1 + k - 1 = l + k
              /\ l + k \in 1 .. BufSize /\ l + k <= m /\ l + k \in 1 .. m
          BY <1>1, <1>3, <1>11, <3>1
        <4>2. behind[k] = plain[l + k]
          BY <3>2, <3>3, <4>1, Zenon
        <4>3. plain[l + k] = pl[l + k]
          BY <1>4, <4>1, Zenon
        <4>4. pl[l + k] = payload[k]
          BY <1>1, <1>2, <4>1, Zenon
        <4> QED
          BY <4>2, <4>3, <4>4
      <3>5. n <= Len(behind)
        BY <1>1, <3>1, <3>2, <3>3, SMTT(20)
      <3> QED
        BY <3>4, <3>5, Zenon DEF Begins
    <2> HIDE DEF behind
    <2>4. SubSeq(moved, 1, n) = payload
      <3>1. n <= Len(plain)
        BY <1>1, <1>3, <1>4, <1>11
      <3>2. Begins(moved, payload)
        BY <1>4, <1>8, <2>3, <3>1, Overlaid, Zenon
      <3> QED
        BY <1>9, <3>2, BeginsIs, Zenon
    <2> QED
      BY <2>1, <2>2, <2>4
  <1> QED
    BY <1>4, <1>9, <1>10, <1>11, Zenon DEF plain, a

LEMMA Prefix ==
    ASSUME NEW s \in Bytes, NEW k \in Nat, k <= Len(s)
    PROVE  SubSeq(s, 1, k) \in Bytes /\ Len(SubSeq(s, 1, k)) = k /\ \A i \in 1 .. k : SubSeq(s, 1, k)[i] = s[i]
  BY DEF Bytes

LEMMA Copied ==
    ASSUME NEW s \in Bytes, NEW t \in Bytes, Len(t) <= Len(s)
    PROVE  Codec!Over(s, t) \in Bytes /\ Len(Codec!Over(s, t)) = Len(s) /\ \A i \in 1 .. Len(t) : Codec!Over(s, t)[i] = t[i]
  <1>1. /\ Codec!Over(s, t) \in Bytes /\ Len(Codec!Over(s, t)) = Len(s) /\ Len(s) \in Nat /\ Len(t) \in Nat
        /\ \A i \in 1 .. Len(s) : Codec!Over(s, t)[i] = IF i <= Len(t) THEN t[i] ELSE s[i]
    BY OverFacts, Zenon
  <1>2. \A i \in 1 .. Len(t) : i \in 1 .. Len(s) /\ i <= Len(t)
    BY <1>1
  <1> QED
    BY <1>1, <1>2, Zenon

\* The bytes after the first d, up to the e-th.
LEMMA Middle ==
    ASSUME NEW s \in Bytes, NEW d \in Nat, NEW e \in Nat, d <= e, e <= Len(s)
    PROVE  /\ SubSeq(s, d + 1, e) \in Bytes /\ Len(SubSeq(s, d + 1, e)) = e - d
           /\ \A i \in 1 .. e - d : SubSeq(s, d + 1, e)[i] = s[d + i]
  <1> DEFINE u == SubSeq(s, d + 1, e)
  <1>1. /\ Len(s) \in Nat /\ d + 1 \in Nat /\ d + 1 >= 1 /\ d + 1 <= e + 1 /\ e - (d + 1) + 1 = e - d
        /\ \A i \in 1 .. e - d : d + 1 + i - 1 = d + i
    BY DEF Bytes
  <1>2. /\ u \in Bytes /\ Len(u) = e - (d + 1) + 1
        /\ \A i \in 1 .. e - (d + 1) + 1 : u[i] = s[d + 1 + i - 1]
    BY <1>1, Part, Zenon
  <1> HIDE DEF u
  <1>3. u \in Bytes /\ Len(u) = e - d /\ \A i \in 1 .. e - d : u[i] = s[d + i]
    BY <1>1, <1>2, Zenon
  <1> QED
    BY <1>3, Zenon DEF u

SealedAs(full, addr, payload) ==
    /\ Len(full) = Len(Codec!Salt) + Len(addr \o payload) + Len(Codec!Tag)
    /\ \A i \in 1 .. Len(addr \o payload) : full[Len(Codec!Salt) + i] = (addr \o payload)[i]

\* What ReadFrom makes of the first bytes of a datagram, perhaps of all of them.
PartOutcome(name, addr, payload, full, cut) ==
    /\ BufferInv'
    /\ Len(full) - cut < Len(Codec!Salt) + Len(Codec!Tag) + Len(addr) => res' = Codec!Failed
    /\ cut = 0 => WholeOutcome(name, addr, payload, 0)

LEMMA ShadowRead ==
    ASSUME BufferInv, NEW name \in Names, NEW ip \in IPs, NEW port \in Ports, NEW payload \in Bytes,
           NEW cut \in Nat, NEW full \in Bytes, SealedAs(full, Codec!SerializeAddr(name, ip, port), payload),
           cut <= Len(full), Len(full) <= BufSize,
           Codec!ShadowsocksReadFrom(SubSeq(full, 1, Len(full) - cut), cut = 0)
    PROVE  PartOutcome(name, Codec!SerializeAddr(name, ip, port), payload, full, cut)
  <1> DEFINE addr == Codec!SerializeAddr(name, ip, port)
  <1>a. addr = Codec!SerializeAddr(name, ip, port) /\ SealedAs(full, addr, payload)
    OBVIOUS
  <1>buffer. addr \in Bytes
    BY AddrFacts, Zenon
  <1> SUFFICES PartOutcome(name, addr, payload, full, cut)
    OBVIOUS
  <1> HIDE DEF addr
  <1> USE <1>a, <1>buffer
  <1> DEFINE body == addr \o payload
             s    == Len(Codec!Salt)
             t    == Len(Codec!Tag)
             l    == Len(addr)
             n    == Len(payload)
             k    == Len(full) - cut
             pkt  == SubSeq(full, 1, k)
             held  == Codec!Over(buffer, pkt)
             pl   == SubSeq(held, Overhead + 1, k - t)
             bad  == k < Overhead + t \/ (format = "aead" /\ ~(cut = 0))
             plain == Codec!Over(held, pl)
             a     == Codec!SplitAddr(SubSeq(plain, 1, Len(pl)))
             moved == Codec!Over(plain, Codec!From(plain, Len(a) + 1))
  <1>1. body \in Bytes /\ Len(body) = l + n /\ l \in Nat /\ n \in Nat
    BY Joins, Zenon
  <1>2. /\ Codec!Salt \in Bytes /\ Codec!Tag \in Bytes /\ s = Overhead /\ s \in Nat /\ t \in Nat
    BY Wrapping, Sizes
  <1> HIDE DEF body
  <1>3. /\ Len(full) = s + Len(body) + t
        /\ \A i \in 1 .. Len(body) : full[s + i] = body[i]
    BY Zenon DEF body, SealedAs
  <1>4. k \in Nat /\ Len(full) \in Nat /\ k <= Len(full) /\ k <= BufSize /\ BufSize \in Nat /\ Overhead \in Nat
    BY Sizes DEF Bytes
  <1>5. pkt \in Bytes /\ Len(pkt) = k /\ \A i \in 1 .. k : pkt[i] = full[i]
    BY <1>4, Prefix, Zenon
  <1>6. buffer \in Bytes /\ Len(buffer) = BufSize
    BY DEF BufferInv
  <1> HIDE DEF pkt
  <1>7. /\ held \in Bytes /\ Len(held) = BufSize
        /\ \A i \in 1 .. k : held[i] = full[i]
    <2>1. Len(pkt) <= Len(buffer)
      BY <1>4, <1>5, <1>6
    <2>2. held \in Bytes /\ Len(held) = Len(buffer) /\ \A i \in 1 .. Len(pkt) : held[i] = pkt[i]
      BY <1>5, <1>6, <2>1, Copied, Zenon
    <2> HIDE DEF k, held
    <2> QED
      BY <1>5, <1>6, <2>2, Zenon
  <1> DEFINE open == Codec!Unpack(held, Len(pkt), cut = 0)
             pq   == Codec!Over(held, open.plain)
             aq   == Codec!SplitAddr(SubSeq(pq, 1, Len(open.plain)))
  <1>8. /\ open.err \/ Codec!UDPAddr(aq) = Codec!Nil => res' = Codec!Failed /\ buffer' = (IF open.err THEN held ELSE pq)
        /\ ~(open.err \/ Codec!UDPAddr(aq) = Codec!Nil) =>
              /\ buffer' = Codec!Over(pq, Codec!From(pq, Len(aq) + 1))
              /\ res' = [err |-> FALSE, n |-> Len(open.plain) - Len(aq), from |-> Codec!UDPAddr(aq)]
    BY Zenon DEF Codec!ShadowsocksReadFrom, pkt
  <1>9. open = IF bad THEN [err |-> TRUE, plain |-> <<>>] ELSE [err |-> FALSE, plain |-> pl]
    BY <1>5, Zenon DEF Codec!Unpack
  <1> HIDE DEF held, open
  <1>10. CASE bad
    <2>1. open.err = TRUE
      BY <1>9, <1>10
    <2>2. res' = Codec!Failed /\ buffer' = held
      BY <1>8, <2>1, Zenon
    <2>3. BufferInv'
      BY <1>7, <2>2, Zenon DEF BufferInv
    <2>4. ~(cut = 0)
      BY <1>1, <1>2, <1>3, <1>10
    <2> QED
      BY <2>2, <2>3, <2>4, Zenon DEF PartOutcome
  <1>11. CASE ~bad
    <2> HIDE DEF pl, bad
    <2>1. open.err = FALSE /\ open.plain = pl
      BY <1>9, <1>11
    <2> USE DEF pl, bad
    <2>2. ~(k < Overhead + t)
      BY <1>11, Zenon
    <2>3. pl \in Bytes /\ Len(pl) = k - t - s /\ Begins(body, pl)
      <3> DEFINE e == k - t
      <3>1. e \in Nat /\ Overhead <= e /\ e <= Len(held) /\ e - Overhead = e - s
        BY <1>2, <1>4, <1>7, <2>2
      <3>2. /\ pl \in Bytes /\ Len(pl) = e - Overhead
            /\ \A i \in 1 .. e - Overhead : pl[i] = held[Overhead + i]
        <4> HIDE DEF e
        <4>1. pl = SubSeq(held, Overhead + 1, e)
          BY DEF e
        <4>2. Overhead \in Nat /\ held \in Bytes
          BY <1>4, <1>7, Zenon
        <4> HIDE DEF pl
        <4>3. /\ SubSeq(held, Overhead + 1, e) \in Bytes /\ Len(SubSeq(held, Overhead + 1, e)) = e - Overhead
              /\ \A i \in 1 .. e - Overhead : SubSeq(held, Overhead + 1, e)[i] = held[Overhead + i]
          BY <3>1, <4>2, Middle, Zenon
        <4> QED
          BY <4>1, <4>3, Zenon
      <3> HIDE DEF pl
      <3>3. Len(pl) = k - t - s /\ Len(pl) <= Len(body)
        BY <1>1, <1>2, <1>3, <1>4, <3>1, <3>2, SMTT(20)
      <3>4. ASSUME NEW i \in 1 .. Len(pl) PROVE body[i] = pl[i]
        <4>1. i \in 1 .. e - Overhead /\ Overhead + i = s + i /\ i \in 1 .. k - t - s
          BY <1>2, <3>2, <3>3, Zenon
        <4>2. s + i \in 1 .. k /\ i \in 1 .. Len(body)
          <5> HIDE DEF k, s, t
          <5> QED
            BY <1>1, <1>2, <1>4, <3>3, <4>1
        <4>3. pl[i] = held[s + i]
          BY <3>2, <4>1, Zenon
        <4>4. held[s + i] = full[s + i]
          BY <1>7, <4>2, Zenon
        <4>5. full[s + i] = body[i]
          BY <1>3, <4>2, Zenon
        <4> QED
          BY <4>3, <4>4, <4>5
      <3> QED
        BY <3>2, <3>3, <3>4, Zenon DEF Begins
    <2> HIDE DEF pl
    <2>4. /\ plain \in Bytes /\ Len(plain) = BufSize
          /\ moved \in Bytes /\ Len(moved) = BufSize
          /\ Len(pl) < l => a = Codec!Nil
          /\ Len(pl) = l + n => a = addr /\ Len(pl) - Len(a) = n /\ SubSeq(moved, 1, n) = payload
      <3>1. l + n <= BufSize
        BY <1>1, <1>2, <1>3, <1>4
      <3>2. pl \in Bytes /\ Begins(addr \o payload, pl)
        BY <2>3 DEF body
      <3>3. held \in Bytes /\ Len(held) = BufSize
        BY <1>7, Zenon
      <3> QED
        BY <3>1, <3>2, <3>3, PlainRead
    <2>5. /\ Codec!UDPAddr(a) = Codec!Nil => res' = Codec!Failed /\ buffer' = plain
          /\ Codec!UDPAddr(a) # Codec!Nil =>
                buffer' = moved /\ res' = [err |-> FALSE, n |-> Len(pl) - Len(a), from |-> Codec!UDPAddr(a)]
      BY <1>8, <2>1, Zenon
    <2> HIDE DEF plain, a, moved
    <2>6. BufferInv'
      BY <2>4, <2>5, Zenon DEF BufferInv
    <2>7. ASSUME k < s + t + l PROVE res' = Codec!Failed
      <3>1. Len(pl) < l
        BY <1>1, <1>2, <1>4, <2>3, <2>7
      <3> QED
        BY <2>4, <2>5, <3>1, NoAddr, Zenon
    <2>8. ASSUME cut = 0
          PROVE  /\ name # <<>> => res' = Codec!Failed
                 /\ name = <<>> => /\ res' = [err |-> FALSE, n |-> n, from |-> Codec!UDPAddr(addr)]
                                   /\ SubSeq(buffer', 1, n) = payload
      <3>1. Len(pl) = l + n
        BY <1>1, <1>2, <1>3, <1>4, <2>3, <2>8
      <3>2. a = addr /\ Len(pl) - Len(a) = n /\ SubSeq(moved, 1, n) = payload
        BY <2>4, <3>1, Zenon
      <3>3. /\ name # <<>> => Codec!UDPAddr(addr) = Codec!Nil
            /\ name = <<>> => Codec!UDPAddr(addr) = <<ip, port>>
        BY UDPAddrIs, Zenon DEF addr
      <3>4. <<ip, port>> # Codec!Nil
        BY DEF Codec!Nil
      <3>5. CASE name # <<>>
        BY <2>5, <3>2, <3>3, <3>5, Zenon
      <3>6. CASE name = <<>>
        <4>1. Codec!UDPAddr(a) # Codec!Nil
          BY <3>2, <3>3, <3>4, <3>6, Zenon
        <4>2. buffer' = moved /\ res' = [err |-> FALSE, n |-> n, from |-> Codec!UDPAddr(addr)]
          BY <2>5, <3>2, <4>1, Zenon
        <4> QED
          BY <3>2, <3>6, <4>2, Zenon
      <3> QED
        BY <3>5, <3>6, Zenon
    <2> QED
      BY <2>6, <2>7, <2>8, Zenon DEF PartOutcome, WholeOutcome
  <1> QED
    BY <1>10, <1>11, Zenon

-----------------------------------------------------------------------------
(* The theorem. *)

\* An address comes back from the bytes it is sent as, whatever is behind it.
LEMMA RoundTrip == BufferInv => Codec!AddressRoundTrip
  <1> SUFFICES ASSUME BufferInv, NEW name \in Names, NEW ip \in IPs, NEW port \in Ports
               PROVE  LET a == Codec!SerializeAddr(name, ip, port) IN
                      /\ Codec!SplitAddr(a \o buffer) = a /\ Codec!Valid(a)
                      /\ name = <<>> => Codec!UDPAddr(a) = <<ip, port>>
    BY Zenon DEF Codec!AddressRoundTrip
  <1> DEFINE a == Codec!SerializeAddr(name, ip, port)
  <1>1. a \in Bytes
    BY AddrFacts, Zenon
  <1>2. Codec!Valid(a) /\ (name = <<>> => Codec!UDPAddr(a) = <<ip, port>>)
    BY UDPAddrIs, Zenon
  <1>3. buffer \in Bytes
    BY Zenon DEF BufferInv
  <1>4. a \o buffer \in Bytes /\ Begins(a \o buffer, a)
    <2> HIDE DEF a
    <2>1. /\ a \o buffer \in Bytes /\ Len(a \o buffer) = Len(a) + Len(buffer) /\ Len(a) \in Nat /\ Len(buffer) \in Nat
          /\ \A i \in 1 .. Len(a) : (a \o buffer)[i] = a[i]
      BY <1>1, <1>3, Joins, Zenon
    <2>2. Len(a) <= Len(a \o buffer)
      BY <2>1
    <2> QED
      BY <2>1, <2>2, Zenon DEF Begins
  <1>5. Codec!SplitAddr(a \o buffer) = a
    BY <1>4, SplitBegins, Zenon
  <1> QED
    BY <1>2, <1>5, Zenon

\* What a datagram of SOCKS5 leaves, and one of shadowsocks.
LEMMA ReceiveSocks5 ==
    ASSUME BufferInv, format = "socks5", NEW name \in Names, NEW ip \in IPs, NEW port \in Ports,
           NEW payload \in Payloads, NEW frag \in {0, 1}, NEW cut \in 0 .. BufSize,
           Codec!Receive(name, ip, port, payload, frag, cut)
    PROVE  /\ BufferInv'
           /\ cut = 0 => WholeOutcome(name, Codec!SerializeAddr(name, ip, port), payload, frag)
  <1> DEFINE addr == Codec!SerializeAddr(name, ip, port)
             pkt  == Framed(addr, payload, frag)
             W    == SubSeq(pkt, 1, Len(pkt) - cut)
  <1>0. cut \in Nat
    BY Sizes
  <1>1. addr \in Bytes /\ payload \in Bytes
    BY AddrFacts, Inputs, Zenon
  <1>2. cut <= Len(pkt) /\ Len(pkt) <= BufSize /\ Codec!Socks5ReadFrom(W, cut = 0)
    BY Zenon DEF Codec!Receive, Codec!WriteTo, Codec!Pack, Codec!ReadFrom, Framed
  <1>3. addr = Codec!SerializeAddr(name, ip, port)
    OBVIOUS
  <1> HIDE DEF addr
  <1>4. pkt \in Bytes /\ FramedAs(pkt, addr, payload, frag)
    BY <1>1, Fragment, Zenon
  <1> HIDE DEF pkt
  <1>5. W \in Bytes
    <2>1. Len(pkt) - cut \in Nat /\ Len(pkt) - cut <= Len(pkt) /\ pkt \in Bytes
      BY <1>2, <1>4, Sizes DEF Bytes
    <2> QED
      BY <2>1, Prefix, Zenon
  <1>6. BufferInv'
    BY <1>0, <1>2, <1>5, Socks5Type, Zenon
  <1>7. ASSUME cut = 0
        PROVE  WholeOutcome(name, addr, payload, frag)
    <2>1. W = pkt
      <3>1. Len(pkt) - cut = Len(pkt)
        BY <1>4, <1>7 DEF Bytes
      <3>2. SubSeq(pkt, 1, Len(pkt)) = pkt
        BY <1>4, WholeIs, Zenon
      <3> QED
        BY <3>1, <3>2, Zenon
    <2>2. Codec!Socks5ReadFrom(pkt, cut = 0)
      BY <1>2, <2>1, Zenon
    <2> QED
      BY <1>0, <1>1, <1>2, <1>4, <2>2, Socks5Whole, Zenon DEF addr
  <1> QED
    BY <1>3, <1>6, <1>7, Zenon

LEMMA ReceiveShadowsocks ==
    ASSUME BufferInv, format # "socks5", NEW name \in Names, NEW ip \in IPs, NEW port \in Ports,
           NEW payload \in Payloads, NEW frag \in {0, 1}, NEW cut \in 0 .. BufSize,
           Codec!Receive(name, ip, port, payload, frag, cut)
    PROVE  /\ BufferInv' /\ frag = 0
           /\ arrived'.len < Len(Codec!Salt) + Len(Codec!Tag) + Len(Codec!SerializeAddr(name, ip, port)) => res' = Codec!Failed
           /\ cut = 0 => WholeOutcome(name, Codec!SerializeAddr(name, ip, port), payload, frag)
  <1> DEFINE addr == Codec!SerializeAddr(name, ip, port)
             full == Codec!Salt \o (addr \o payload) \o Codec!Tag
  <1>1. addr \in Bytes /\ payload \in Bytes
    BY AddrFacts, Inputs, Zenon
  <1>2. Codec!WriteTo(addr, payload) = full
    <2>1. Codec!From(Codec!EncodeUDPPacket(addr, payload), 4) = addr \o payload
      BY <1>1, Headless, Zenon
    <2> QED
      BY <2>1, Zenon DEF Codec!WriteTo, Codec!Pack
  <1>3. /\ cut <= Len(full) /\ Len(full) <= BufSize /\ frag = 0
        /\ arrived' = [addr |-> addr, payload |-> payload, frag |-> frag, cut |-> cut, len |-> Len(full) - cut]
        /\ Codec!ShadowsocksReadFrom(SubSeq(full, 1, Len(full) - cut), cut = 0)
    BY <1>2, Zenon DEF Codec!Receive, Codec!ReadFrom
  <1>4. addr = Codec!SerializeAddr(name, ip, port)
    OBVIOUS
  <1> HIDE DEF addr
  <1>5. full \in Bytes /\ SealedAs(full, addr, payload)
    <2> DEFINE body == addr \o payload
    <2>1. body \in Bytes
      BY <1>1, Joins, Zenon
    <2> HIDE DEF body
    <2>2. Codec!Salt \in Bytes
      BY Wrapping, Zenon
    <2>3. Codec!Tag \in Bytes
      BY Wrapping, Zenon
    <2>4. Codec!Salt \o body \o Codec!Tag \in Bytes /\ Len(Codec!Salt \o body \o Codec!Tag) = Len(Codec!Salt) + Len(body) + Len(Codec!Tag)
      BY <2>1, <2>2, <2>3, ThreeParts, Zenon
    <2>5. \A i \in 1 .. Len(body) : (Codec!Salt \o body \o Codec!Tag)[Len(Codec!Salt) + i] = body[i]
      BY <2>1, <2>2, <2>3, ThreeParts, Zenon
    <2> QED
      BY <2>4, <2>5, Zenon DEF body, SealedAs
  <1> HIDE DEF full
  <1>6. cut \in Nat
    BY Sizes
  <1>7. PartOutcome(name, addr, payload, full, cut)
    BY <1>1, <1>3, <1>5, <1>6, ShadowRead, Zenon DEF addr
  <1>8. arrived'.len = Len(full) - cut
    BY <1>3
  <1> QED
    BY <1>3, <1>4, <1>7, <1>8, Zenon DEF PartOutcome

LEMMA ReceiveKeeps ==
    ASSUME BufferInv, NEW name \in Names, NEW ip \in IPs, NEW port \in Ports,
           NEW payload \in Payloads, NEW frag \in {0, 1}, NEW cut \in 0 .. BufSize,
           Codec!Receive(name, ip, port, payload, frag, cut)
    PROVE  BufferInv' /\ Codec!WholeDatagramRead' /\ Codec!ShortSealedRefused'
  <1> DEFINE addr == Codec!SerializeAddr(name, ip, port)
  <1>1. /\ arrived'.addr = addr /\ arrived'.payload = payload /\ arrived'.frag = frag /\ arrived'.cut = cut
    BY DEF Codec!Receive
  <1>2. format' = format
    BY Zenon DEF Codec!Receive
  <1>3. addr[1] = Codec!Domain <=> name # <<>>
    BY AddrFacts, Zenon
  <1>4. /\ BufferInv'
        /\ cut = 0 /\ (frag # 0 \/ name # <<>>) => res' = Codec!Failed
        /\ cut = 0 /\ frag = 0 /\ name = <<>> =>
             /\ res' = [err |-> FALSE, n |-> Len(payload), from |-> Codec!UDPAddr(addr)]
             /\ SubSeq(buffer', 1, Len(payload)) = payload
        /\ format # "socks5" /\ arrived'.len < Len(Codec!Salt) + Len(Codec!Tag) + Len(addr) => res' = Codec!Failed
    <2>1. CASE format = "socks5"
      BY <2>1, ReceiveSocks5, Zenon DEF WholeOutcome
    <2>2. CASE format # "socks5"
      BY <2>2, ReceiveShadowsocks, Zenon DEF WholeOutcome
    <2> QED
      BY <2>1, <2>2, Zenon
  <1> HIDE DEF addr
  <1>5. res' = Codec!Failed => res'.err = TRUE
    BY DEF Codec!Failed
  <1>6. Codec!WholeDatagramRead'
    <2>1. ASSUME cut = 0, frag = 0, name = <<>>
          PROVE  /\ res'.err = FALSE /\ res'.n = Len(payload) /\ SubSeq(buffer', 1, Len(payload)) = payload
                 /\ res'.from = Codec!UDPAddr(addr)
      BY <1>4, <2>1
    <2> QED
      BY <1>1, <1>3, <1>4, <1>5, <2>1, Zenon DEF Codec!WholeDatagramRead
  <1>7. Codec!ShortSealedRefused'
    <2>1. Codec!Tag' = Codec!Tag
      BY <1>2, Zenon DEF Codec!Tag
    <2>2. format # "socks5" => Codec!Front' = Len(Codec!Salt) + Len(Codec!Tag) + Len(addr)
      BY <1>1, <1>2, <2>1, Zenon DEF Codec!Front
    <2> QED
      BY <1>2, <1>4, <1>5, <2>2, Zenon DEF Codec!ShortSealedRefused
  <1> QED
    BY <1>4, <1>6, <1>7, Zenon

CodecInv == BufferInv /\ Codec!WholeDatagramRead /\ Codec!ShortSealedRefused

\* For any field sizes, names, addresses, payloads and buffers: a datagram that arrives
\* whole is returned by ReadFrom of the SOCKS5 and the two shadowsocks packet
\* connections as it was sent, or refused where its sender is a name or it is a
\* fragment, whatever earlier datagrams left in the buffer; and one cut short is
\* refused by the two shadowsocks ones.
THEOREM CodecDatagramsSurvive == Codec!Spec => []DatagramsSurvive
  <1>1. Codec!Init => CodecInv
    <2> SUFFICES ASSUME Codec!Init PROVE CodecInv
      OBVIOUS
    <2>1. buffer = Codec!Zeros(BufSize) /\ ~(packets > 0)
      BY DEF Codec!Init
    <2>2. BufferInv
      BY <2>1, Sizes, ZerosFacts, Zenon DEF BufferInv
    <2> QED
      BY <2>1, <2>2, Zenon DEF CodecInv, Codec!WholeDatagramRead, Codec!ShortSealedRefused
  <1>2. CodecInv /\ [Codec!Next]_Codec!vars => CodecInv'
    <2> SUFFICES ASSUME CodecInv, [Codec!Next]_Codec!vars PROVE CodecInv'
      OBVIOUS
    <2>1. CASE Codec!Next
      <3>1. PICK name \in Names, ip \in IPs, port \in Ports, payload \in Payloads, frag \in {0, 1},
                 cut \in 0 .. BufSize : Codec!Receive(name, ip, port, payload, frag, cut)
        BY <2>1, Zenon DEF Codec!Next
      <3> QED
        BY <3>1, ReceiveKeeps, Zenon DEF CodecInv
    <2>2. CASE UNCHANGED Codec!vars
      <3>1. buffer' = buffer /\ format' = format /\ arrived' = arrived /\ res' = res /\ packets' = packets
        BY <2>2 DEF Codec!vars
      <3>2. BufferInv'
        BY <3>1, Zenon DEF CodecInv, BufferInv
      <3>3. Codec!WholeDatagramRead'
        BY <3>1, Zenon DEF CodecInv, Codec!WholeDatagramRead
      <3>4. Codec!ShortSealedRefused'
        <4>1. Codec!Front' = Codec!Front
          BY <3>1, Zenon DEF Codec!Front, Codec!Tag, Codec!Salt
        <4> QED
          BY <3>1, <4>1, Zenon DEF CodecInv, Codec!ShortSealedRefused
      <3> QED
        BY <3>2, <3>3, <3>4, Zenon DEF CodecInv
    <2> QED
      BY <2>1, <2>2, Zenon
  <1>3. CodecInv => DatagramsSurvive
    BY RoundTrip, Zenon DEF CodecInv, DatagramsSurvive, Codec!DatagramsSurvive
  <1> QED
    BY <1>1, <1>2, <1>3, PTL DEF Codec!Spec
=============================================================================
