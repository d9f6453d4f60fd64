------------------------- MODULE StackProofs -----------------------------
(***************************************************************************)
(* Proofs about the two halves of the network stack.                       *)
(*                                                                         *)
(* LinkEndpoint, for every queue length, MTU and number of packets and     *)
(* attachments: IInv adds to the type invariant who runs (LoopInv) and how *)
(* the packets on their way to the device are ordered (LineInv).           *)
(*                                                                         *)
(* NetStack, for every configuration, packet and number of packets: SetInv *)
(* says that each setting has the value of the last option applied to it,  *)
(* which locates the NIC after the handlers and the buffer sizes;          *)
(* RequestInv says what follows for each request, and CountInv compares    *)
(* the forwarder's counter with a set of requests.                         *)
(***************************************************************************)
EXTENDS Stack, Integers, TLAPS

\* The loops start together, once; nobody waits before they have, and the wait
\* group counts them.
LoopInv ==
    /\ attaches = 0 <=> dispatch = "none"
    /\ attaches = 0 <=> outbound = "none"
    /\ attaches = 0 => waiter = "none"
    /\ QuietAfterWait

\* The packet in the outbound loop's hands lies between the written ones and
\* those in the queue, and none of them is newer than the last one sent.
LineInv ==
    /\ \A i, j \in 1 .. Len(written) : i < j => written[i] < written[j]
    /\ \A i, j \in 1 .. Len(queue) : i < j => queue[i] < queue[j]
    /\ \A i \in 1 .. Len(written), j \in 1 .. Len(queue) : written[i] < queue[j]
    /\ outbound = "write" => /\ \A i \in 1 .. Len(written) : written[i] < pkt
                             /\ \A j \in 1 .. Len(queue) : pkt < queue[j]
                             /\ pkt \in 1 .. outs
    /\ \A i \in 1 .. Len(written) : written[i] <= outs
    /\ \A j \in 1 .. Len(queue) : queue[j] <= outs

IInv == TypeOK /\ LoopInv /\ LineInv

\* The empty sequence.
LEMMA EmptyFacts == ASSUME NEW S PROVE <<>> \in Seq(S) /\ Len(<<>>) = 0
  OBVIOUS

\* A sequence with one more element at its end.
LEMMA AppendFacts ==
    ASSUME NEW S, NEW s \in Seq(S), NEW x \in S
    PROVE  /\ Append(s, x) \in Seq(S) /\ Len(Append(s, x)) = Len(s) + 1
           /\ \A i \in 1 .. Len(s) : Append(s, x)[i] = s[i]
           /\ Append(s, x)[Len(s) + 1] = x
  OBVIOUS

\* A sequence without its first element.
LEMMA TailFacts ==
    ASSUME NEW S, NEW s \in Seq(S), s # <<>>
    PROVE  /\ Tail(s) \in Seq(S) /\ Len(Tail(s)) = Len(s) - 1 /\ Len(s) \in Nat \ {0}
           /\ \A i \in 1 .. Len(s) - 1 : Tail(s)[i] = s[i + 1]
           /\ Head(s) = s[1] /\ Head(s) \in S
  OBVIOUS

LEMMA InitInv == Init => IInv
  <1> SUFFICES ASSUME Init PROVE IInv
    OBVIOUS
  <1>1. TypeOK
    <2>1. /\ injected \in Seq(1 .. MTU) /\ queue \in Seq(1 .. MaxOut)
          /\ written \in Seq(1 .. MaxOut) /\ Len(queue) = 0
      BY EmptyFacts DEF Init
    <2>2. /\ device = "open" /\ ~cancelled /\ ~attached /\ attaches = 0 /\ wg = 0
          /\ waiter = "none" /\ dispatch = "none" /\ n = 0 /\ ins = 0
          /\ outbound = "none" /\ pkt = 0 /\ qopen /\ outs = 0
          /\ attached \in BOOLEAN /\ cancelled \in BOOLEAN /\ qopen \in BOOLEAN
      BY Zenon DEF Init
    <2> QED
      BY <2>1, <2>2, LinkAssumption DEF TypeOK
  <1>2. LoopInv
    BY DEF Init, LoopInv, QuietAfterWait, Running
  <1>3. LineInv
    BY DEF Init, LineInv
  <1> QED
    BY <1>1, <1>2, <1>3 DEF IInv

LEMMA StepType == IInv /\ [Next]_vars => TypeOK'
  <1> SUFFICES ASSUME IInv, [Next]_vars PROVE TypeOK'
    OBVIOUS
  <1> USE LinkAssumption DEF IInv, TypeOK, life, inn, out, chan
  <1>1. CASE Attach
    BY <1>1 DEF Attach, LoopInv, QuietAfterWait, Running
  <1>2. CASE Detach
    BY <1>2, ZenonT(30) DEF Detach
  <1>3. ASSUME NEW size \in Sizes, ReadPacket(size) PROVE TypeOK'
    BY <1>3 DEF ReadPacket
  <1>4. CASE Inbound
    <2>1. injected' \in Seq(1 .. MTU)
      <3>1. CASE n # 0 /\ n <= MTU /\ injected' = Append(injected, n)
        <4>1. n \in 1 .. MTU
          BY <3>1
        <4> QED
          BY <3>1, <4>1, AppendFacts
      <3> QED
        BY <1>4, <3>1 DEF Inbound
    <2> QED
      BY <1>4, <2>1 DEF Inbound
  <1>5. CASE ReadError
    BY <1>5 DEF ReadError
  <1>6. CASE DispatchDone
    BY <1>6 DEF DispatchDone, LoopInv, QuietAfterWait, Running
  <1>7. CASE WriteQueue
    <2>1. outs + 1 \in 1 .. MaxOut
      BY <1>7 DEF WriteQueue
    <2>2. queue' \in Seq(1 .. MaxOut) /\ Len(queue') <= QueueLen
      <3>1. CASE qopen /\ Len(queue) < QueueLen /\ queue' = Append(queue, outs + 1)
        BY <2>1, <3>1, AppendFacts
      <3> QED
        BY <1>7, <3>1 DEF WriteQueue
    <2> QED
      BY <1>7, <2>1, <2>2 DEF WriteQueue
  <1>8. CASE Outbound
    <2>1. queue' \in Seq(1 .. MaxOut) /\ Len(queue') <= QueueLen /\ pkt' \in 1 .. MaxOut
      BY <1>8, TailFacts DEF Outbound
    <2> QED
      BY <1>8, <2>1 DEF Outbound
  <1>9. CASE OutboundEnd
    BY <1>9 DEF OutboundEnd
  <1>10. CASE WriteDevice
    <2>1. written' \in Seq(1 .. MaxOut)
      <3>1. pkt \in 1 .. MaxOut
        BY <1>10 DEF WriteDevice, LineInv
      <3>2. CASE written' = Append(written, pkt)
        BY <3>1, <3>2, AppendFacts
      <3> QED
        BY <1>10, <3>2, Zenon DEF WriteDevice
    <2> QED
      BY <1>10, <2>1 DEF WriteDevice
  <1>11. CASE OutboundDone
    BY <1>11 DEF OutboundDone, LoopInv, QuietAfterWait, Running
  <1>12. CASE DeviceFails \/ CloseDevice
    <2>1. device' \in {"open", "failed", "closed"}
      BY <1>12 DEF DeviceFails, CloseDevice
    <2> QED
      BY <1>12, <2>1, SMTT(60) DEF DeviceFails, CloseDevice
  <1>13. CASE CloseQueue
    <2>1. queue' \in Seq(1 .. MaxOut)
      BY <1>13, EmptyFacts DEF CloseQueue
    <2>2. Len(queue') = 0 /\ qopen' \in BOOLEAN
      BY <1>13, Zenon DEF CloseQueue
    <2>3. UNCHANGED <<device, life, cancelled, inn, out, outs>>
      BY <1>13 DEF CloseQueue
    <2> QED
      BY <2>1, <2>2, <2>3
  <1>14. CASE WaitBegins \/ WaitReturns
    BY <1>14, SMTT(30) DEF WaitBegins, WaitReturns
  <1>15. CASE UNCHANGED vars
    BY <1>15 DEF vars
  <1> QED
    BY <1>1, <1>2, <1>3, <1>4, <1>5, <1>6, <1>7, <1>8, <1>9, <1>10, <1>11, <1>12, <1>13,
       <1>14, <1>15 DEF Next, DispatchLoop, OutboundLoop

LEMMA StepLoops == IInv /\ [Next]_vars => LoopInv'
  <1> SUFFICES ASSUME IInv, [Next]_vars PROVE LoopInv'
    OBVIOUS
  <1> USE LinkAssumption DEF IInv, TypeOK, LoopInv, QuietAfterWait, Running, life, inn, out, chan
  <1>1. CASE Attach
    BY <1>1 DEF Attach
  <1>2. CASE Detach
    BY <1>2 DEF Detach
  <1>3. ASSUME NEW size \in Sizes, ReadPacket(size) PROVE LoopInv'
    BY <1>3 DEF ReadPacket
  <1>4. CASE Inbound
    BY <1>4 DEF Inbound
  <1>5. CASE ReadError
    BY <1>5 DEF ReadError
  <1>6. CASE DispatchDone
    BY <1>6 DEF DispatchDone
  <1>7. CASE WriteQueue
    BY <1>7 DEF WriteQueue
  <1>8. CASE Outbound
    BY <1>8 DEF Outbound
  <1>9. CASE OutboundEnd
    BY <1>9 DEF OutboundEnd
  <1>10. CASE WriteDevice
    BY <1>10 DEF WriteDevice
  <1>11. CASE OutboundDone
    BY <1>11 DEF OutboundDone
  <1>12. CASE DeviceFails \/ CloseDevice
    BY <1>12, SMTT(30) DEF DeviceFails, CloseDevice
  <1>13. CASE CloseQueue
    BY <1>13 DEF CloseQueue
  <1>14. CASE WaitBegins
    BY <1>14 DEF WaitBegins
  <1>15. CASE WaitReturns
    BY <1>15 DEF WaitReturns
  <1>16. CASE UNCHANGED vars
    BY <1>16 DEF vars
  <1> QED
    BY <1>1, <1>2, <1>3, <1>4, <1>5, <1>6, <1>7, <1>8, <1>9, <1>10, <1>11, <1>12, <1>13,
       <1>14, <1>15, <1>16 DEF Next, DispatchLoop, OutboundLoop

LEMMA StepLine == IInv /\ [Next]_vars => LineInv'
  <1> SUFFICES ASSUME IInv, [Next]_vars PROVE LineInv'
    OBVIOUS
  <1> USE LinkAssumption DEF IInv
  <1>0. /\ outs \in Nat /\ Len(queue) \in Nat /\ Len(written) \in Nat
        /\ \A i \in 1 .. Len(queue) : queue[i] \in Nat
        /\ \A i \in 1 .. Len(written) : written[i] \in Nat
    BY SMTT(20), ZenonT(30) DEF TypeOK
  <1>1. CASE WriteQueue
    <2>1. outs' = outs + 1 /\ UNCHANGED <<written, outbound, pkt>>
      BY <1>1 DEF WriteQueue, out
    <2>2. CASE queue' = queue
      BY <2>1, <2>2, SMTT(30) DEF LineInv, TypeOK
    <2>3. CASE queue' = Append(queue, outs + 1)
      <3>1. outs + 1 \in 1 .. MaxOut
        BY <1>1 DEF WriteQueue, TypeOK
      <3>2. /\ Len(queue') = Len(queue) + 1 /\ queue'[Len(queue) + 1] = outs + 1
            /\ \A i \in 1 .. Len(queue) : queue'[i] = queue[i]
        BY <2>3, <3>1, AppendFacts DEF TypeOK
      <3>3. \A i \in 1 .. Len(queue') : i \in 1 .. Len(queue) \/ i = Len(queue) + 1
        BY <1>0, <3>2
      <3>4. \A i, j \in 1 .. Len(queue') : i < j => queue'[i] < queue'[j]
        BY <1>0, <3>2, <3>3 DEF LineInv
      <3>5. \A i \in 1 .. Len(written), j \in 1 .. Len(queue') : written[i] < queue'[j]
        BY <1>0, <3>2, <3>3 DEF LineInv
      <3>6. \A j \in 1 .. Len(queue') : queue'[j] <= outs'
        BY <1>0, <2>1, <3>2, <3>3, SMTT(30) DEF LineInv
      <3>7. \A i \in 1 .. Len(written) : written[i] <= outs'
        BY <1>0, <2>1 DEF LineInv
      <3>8. outbound = "write" => pkt \in 1 .. outs' /\ \A j \in 1 .. Len(queue') : pkt < queue'[j]
        BY <1>0, <2>1, <3>2, <3>3 DEF LineInv
      <3> QED
        BY <2>1, <3>4, <3>5, <3>6, <3>7, <3>8 DEF LineInv
    <2> QED
      BY <1>1, <2>2, <2>3 DEF WriteQueue
  <1>2. CASE Outbound
    <2>1. /\ outbound' = "write" /\ pkt' = queue[1] /\ UNCHANGED <<written, outs>>
          /\ Len(queue') = Len(queue) - 1 /\ Len(queue) \in Nat \ {0}
          /\ \A i \in 1 .. Len(queue) - 1 : queue'[i] = queue[i + 1]
      BY <1>2, TailFacts DEF Outbound, TypeOK
    <2>2. /\ \A i \in 1 .. Len(queue') : i + 1 \in 1 .. Len(queue) /\ queue'[i] = queue[i + 1]
          /\ 1 \in 1 .. Len(queue) /\ pkt' \in 1 .. MaxOut
      BY <2>1 DEF TypeOK
    <2>3. \A i, j \in 1 .. Len(queue') : i < j => queue'[i] < queue'[j]
      BY <1>0, <2>2 DEF LineInv
    <2>4. \A j \in 1 .. Len(queue') : pkt' < queue'[j] /\ queue'[j] <= outs
      <3> SUFFICES ASSUME NEW j \in 1 .. Len(queue') PROVE pkt' < queue'[j] /\ queue'[j] <= outs
        OBVIOUS
      <3>1. j + 1 \in 1 .. Len(queue) /\ 1 \in 1 .. Len(queue) /\ 1 < j + 1
        BY <2>2
      <3>2. queue[1] < queue[j + 1] /\ queue[j + 1] <= outs
        BY <3>1 DEF LineInv
      <3> QED
        BY <2>1, <2>2, <3>2
    <2>5. \A i \in 1 .. Len(written) : written[i] < pkt'
      BY <1>0, <2>1, <2>2 DEF LineInv
    <2>6. \A i \in 1 .. Len(written), j \in 1 .. Len(queue') : written[i] < queue'[j]
      BY <1>0, <2>2 DEF LineInv
    <2>7. pkt' \in 1 .. outs'
      BY <1>0, <2>1, <2>2 DEF LineInv
    <2> QED
      BY <2>1, <2>3, <2>4, <2>5, <2>6, <2>7 DEF LineInv
  <1>3. CASE WriteDevice
    <2>1. outbound = "write" /\ outbound' = "wait" /\ UNCHANGED <<queue, outs, pkt>>
      BY <1>3 DEF WriteDevice, chan
    <2>2. CASE written' = written
      BY <2>1, <2>2 DEF LineInv
    <2>3. CASE written' = Append(written, pkt)
      <3>1. pkt \in 1 .. MaxOut
        BY <2>1 DEF LineInv, TypeOK
      <3>2. /\ Len(written') = Len(written) + 1 /\ written'[Len(written) + 1] = pkt
            /\ \A i \in 1 .. Len(written) : written'[i] = written[i]
        BY <2>3, <3>1, AppendFacts DEF TypeOK
      <3>3. \A i \in 1 .. Len(written') : i \in 1 .. Len(written) \/ i = Len(written) + 1
        BY <1>0, <3>2
      <3>4. \A i, j \in 1 .. Len(written') : i < j => written'[i] < written'[j]
        BY <1>0, <2>1, <3>2, <3>3, SMTT(30) DEF LineInv
      <3>5. \A i \in 1 .. Len(written'), j \in 1 .. Len(queue) : written'[i] < queue[j]
        BY <1>0, <2>1, <3>2, <3>3 DEF LineInv
      <3>6. \A i \in 1 .. Len(written') : written'[i] <= outs
        BY <1>0, <2>1, <3>2, <3>3 DEF LineInv
      <3> QED
        BY <2>1, <3>4, <3>5, <3>6 DEF LineInv
    <2> QED
      BY <1>3, <2>2, <2>3 DEF WriteDevice
  <1>4. CASE CloseQueue
    <2>1. Len(queue') = 0 /\ UNCHANGED <<written, outbound, pkt, outs>>
      BY <1>4, EmptyFacts DEF CloseQueue, out
    <2> QED
      BY <2>1 DEF LineInv
  <1>5. CASE /\ UNCHANGED <<written, queue, outs>> /\ outbound' # "write"
    BY <1>5 DEF LineInv
  <1>6. CASE UNCHANGED <<written, queue, outs, outbound, pkt>>
    BY <1>6 DEF LineInv
  <1>7. CASE Attach \/ OutboundEnd \/ OutboundDone
    BY <1>5, <1>6, <1>7 DEF Attach, OutboundEnd, OutboundDone, inn, chan
  <1>8. CASE Detach \/ DeviceFails \/ CloseDevice \/ WaitBegins \/ WaitReturns
    BY <1>6, <1>8 DEF Detach, DeviceFails, CloseDevice, WaitBegins, WaitReturns, out, chan
  <1>9. CASE DispatchLoop
    BY <1>6, <1>9 DEF DispatchLoop, ReadPacket, Inbound, ReadError, DispatchDone, out, chan
  <1>10. CASE UNCHANGED vars
    BY <1>6, <1>10 DEF vars, out, chan
  <1> QED
    BY <1>1, <1>2, <1>3, <1>4, <1>7, <1>8, <1>9, <1>10 DEF Next, OutboundLoop

LEMMA Inductive == Spec => []IInv
  <1>1. IInv /\ [Next]_vars => IInv'
    BY StepType, StepLoops, StepLine DEF IInv
  <1> QED
    BY InitInv, <1>1, PTL DEF Spec

\* Type correctness of the endpoint: its queue never exceeds its bound, no packet
\* longer than the MTU is injected and the wait group never falls below zero,
\* however often the stack attaches it and whenever the device fails.
THEOREM TypeCorrect == Spec => []TypeOK
  BY Inductive, PTL DEF IInv

\* When Wait has returned, neither loop runs any more, and the wait group counts
\* exactly the loops that run.
THEOREM LinkQuietAfterWait == Spec => []QuietAfterWait
  BY Inductive, PTL DEF IInv, LoopInv

\* For every queue length and number of packets, what reaches the device is in the
\* order in which the stack sent it, and nothing reaches it twice.
THEOREM LinkOutboundOrdered == Spec => []OutboundOrdered
  <1>1. IInv => OutboundOrdered
    <2> SUFFICES ASSUME IInv PROVE OutboundOrdered
      OBVIOUS
    <2> DEFINE mid == IF outbound = "write" THEN <<pkt>> ELSE <<>>
               head == written \o mid
               line == head \o queue
    <2>1. mid \in Seq(1 .. MaxOut) /\ Len(mid) <= 1 /\ (outbound # "write" => Len(mid) = 0)
          /\ (outbound = "write" => Len(mid) = 1 /\ mid[1] = pkt)
      <3>1. CASE outbound = "write"
        <4>1. pkt \in 1 .. MaxOut
          BY <3>1, LinkAssumption DEF IInv, TypeOK, LineInv
        <4> QED
          BY <3>1, <4>1
      <3>2. CASE outbound # "write"
        BY <3>2, EmptyFacts
      <3> QED
        BY <3>1, <3>2
    <2>2. /\ head \in Seq(1 .. MaxOut) /\ Len(head) = Len(written) + Len(mid)
          /\ \A i \in 1 .. Len(written) : head[i] = written[i]
          /\ \A i \in Len(written) + 1 .. Len(head) : outbound = "write" /\ head[i] = pkt
      BY <2>1 DEF IInv, TypeOK
    <2>3. /\ Len(line) = Len(head) + Len(queue)
          /\ \A i \in 1 .. Len(head) : line[i] = head[i]
          /\ \A i \in Len(head) + 1 .. Len(line) : line[i] = queue[i - Len(head)]
      BY <2>2 DEF IInv, TypeOK
    <2>4. Len(written) \in Nat /\ Len(queue) \in Nat /\ Len(mid) \in Nat
      BY <2>1 DEF IInv, TypeOK
    <2>5. \A i, j \in 1 .. Len(line) : i < j => line[i] < line[j]
      <3> SUFFICES ASSUME NEW i \in 1 .. Len(line), NEW j \in 1 .. Len(line), i < j
                   PROVE  line[i] < line[j]
        OBVIOUS
      <3> HIDE DEF mid, head, line
      <3>0. /\ Len(head) \in Nat /\ i \in Nat /\ j \in Nat
            /\ \A k \in 1 .. Len(line) :
                 \/ k \in 1 .. Len(written) /\ line[k] = written[k]
                 \/ k = Len(written) + 1 /\ outbound = "write" /\ line[k] = pkt /\ Len(head) = k
                 \/ k > Len(head) /\ k - Len(head) \in 1 .. Len(queue)
                    /\ line[k] = queue[k - Len(head)]
        <4>1. Len(head) = Len(written) + Len(mid) /\ Len(mid) <= 1 /\ Len(head) \in Nat
          BY <2>1, <2>2, <2>4
        <4>2. ASSUME NEW k \in 1 .. Len(line)
              PROVE  \/ k \in 1 .. Len(written) /\ line[k] = written[k]
                     \/ k = Len(written) + 1 /\ outbound = "write" /\ line[k] = pkt /\ Len(head) = k
                     \/ k > Len(head) /\ k - Len(head) \in 1 .. Len(queue)
                        /\ line[k] = queue[k - Len(head)]
          <5>1. CASE k \in 1 .. Len(written)
            BY <2>2, <2>3, <2>4, <4>1, <5>1
          <5>2. CASE k \in Len(written) + 1 .. Len(head)
            <6>0. k \in Int /\ Len(written) + 1 <= k /\ k <= Len(head)
              BY <2>4, <4>1, <5>2
            <6>1. k = Len(written) + 1 /\ Len(head) = k /\ k \in 1 .. Len(head)
              BY <2>4, <4>1, <6>0
            <6>2. line[k] = head[k]
              BY <2>3, <6>1
            <6>3. outbound = "write" /\ head[k] = pkt
              BY <2>2, <5>2
            <6> QED
              BY <6>1, <6>2, <6>3
          <5>3. CASE k \in Len(head) + 1 .. Len(line)
            BY <2>2, <2>3, <2>4, <4>1, <5>3
          <5> QED
            BY <2>3, <2>4, <4>1, <5>1, <5>2, <5>3
        <4> QED
          BY <2>3, <2>4, <4>1, <4>2
      <3>1. CASE j <= Len(written)
        BY <2>1, <2>2, <2>4, <3>0, <3>1 DEF IInv, LineInv
      <3>2. CASE j = Len(written) + 1 /\ j = Len(head) /\ outbound = "write"
        BY <2>1, <2>2, <2>4, <3>0, <3>2, SMTT(30) DEF IInv, LineInv
      <3>3. CASE j > Len(head)
        <4>1. j - Len(head) \in 1 .. Len(queue) /\ line[j] = queue[j - Len(head)]
          BY <2>1, <2>2, <2>4, <3>0, <3>3
        <4>2. CASE i \in 1 .. Len(written) /\ line[i] = written[i]
          BY <4>1, <4>2 DEF IInv, LineInv
        <4>3. CASE outbound = "write" /\ line[i] = pkt
          BY <4>1, <4>3 DEF IInv, LineInv
        <4>4. CASE i - Len(head) \in 1 .. Len(queue) /\ line[i] = queue[i - Len(head)]
          BY <3>0, <4>1, <4>4 DEF IInv, LineInv
        <4> QED
          BY <3>0, <4>2, <4>3, <4>4
      <3> QED
        BY <2>1, <2>2, <2>4, <3>0, <3>1, <3>2, <3>3
    <2> QED
      BY <2>5 DEF OutboundOrdered
  <1> QED
    BY Inductive, <1>1, PTL

-----------------------------------------------------------------------------
(* NetStack. *)

Names ==
    Net!Settable \cup {"tcp", "udp", "icmp", "nic", "promiscuous", "spoofing", "routes", "addresses", "groups"}

\* The options that follow those of the configuration.
Rest(c) ==
    << Net!Option("tcp", TRUE), Net!Option("udp", TRUE), Net!Option("icmp", TRUE),
       Net!Option("nic", TRUE), Net!Option("promiscuous", TRUE), Net!Option("spoofing", TRUE),
       Net!Option("routes", TRUE), Net!withAddresses(c), Net!Option("groups", c.groups) >>

\* CreateStack has applied the first k of its options.
Applied(k) ==
    /\ k \in 0 .. Len(Net!Options(cfg)) /\ opts = SubSeq(Net!Options(cfg), k + 1, Len(Net!Options(cfg)))
    /\ \A x \in Names :
           \/ setting[x] = Net!Unset[x] /\ \A j \in 1 .. k : Net!Options(cfg)[j].name # x
           \/ \E j \in 1 .. k :
                 /\ Net!Options(cfg)[j].name = x /\ setting[x] = Net!Options(cfg)[j].value
                 /\ \A m \in j + 1 .. k : Net!Options(cfg)[m].name # x

\* Two sequences put together.
LEMMA Joined ==
    ASSUME NEW S, NEW h \in Seq(S), NEW t \in Seq(S)
    PROVE  /\ h \o t \in Seq(S) /\ Len(h \o t) = Len(h) + Len(t)
           /\ \A i \in 1 .. Len(h) : (h \o t)[i] = h[i]
           /\ \A i \in 1 .. Len(t) : (h \o t)[Len(h) + i] = t[i]
  OBVIOUS

\* A function on 1 .. len is a sequence of that length.
LEMMA FromFunction ==
    ASSUME NEW S, NEW len \in Nat, NEW s \in [1 .. len -> S]
    PROVE  s \in Seq(S) /\ Len(s) = len
  OBVIOUS

\* A sequence is a sequence of its own elements.
LEMMA Ranged ==
    ASSUME NEW S, NEW s \in Seq(S)
    PROVE  s \in Seq({ s[j] : j \in DOMAIN s })
  <1> DEFINE T == { s[j] : j \in DOMAIN s }
  <1>1. s \in [1 .. Len(s) -> T] /\ Len(s) \in Nat
    <2>1. DOMAIN s = 1 .. Len(s) /\ Len(s) \in Nat /\ s = [j \in 1 .. Len(s) |-> s[j]]
      OBVIOUS
    <2> QED
      BY <2>1, Zenon
  <1> HIDE DEF T
  <1>2. s \in Seq(T)
    BY <1>1, FromFunction
  <1> QED
    BY <1>2 DEF T

\* The options of CreateStack are the defaults, those of the configuration and the rest.
LEMMA OptionsAre ==
    ASSUME NEW c \in Configs
    PROVE  /\ Len(c.options) \in Nat /\ DOMAIN c.options = 1 .. Len(c.options)
           /\ Net!Options(c) \in Seq({ Net!Options(c)[j] : j \in DOMAIN Net!Options(c) })
           /\ Len(Net!Options(c)) = 20 + Len(c.options)
           /\ \A j \in 1 .. 11 : Net!Options(c)[j] = Net!WithDefault[j]
           /\ \A j \in 1 .. Len(c.options) : Net!Options(c)[11 + j] = c.options[j]
           /\ \A j \in 1 .. 9 : Net!Options(c)[11 + Len(c.options) + j] = Rest(c)[j]
  <1> DEFINE A == Net!WithDefault
             B == c.options
             C == Rest(c)
             SA == {A[j] : j \in 1 .. 11}
             SB == {B[j] : j \in DOMAIN B}
             SC == {C[j] : j \in 1 .. 9}
             S == SA \cup SB \cup SC
  <1>1. A \in Seq(S) /\ Len(A) = 11
    <2>1. DOMAIN A = 1 .. 11 /\ Len(A) = 11
      BY DEF Net!WithDefault
    <2>2. A = [j \in 1 .. 11 |-> A[j]]
      BY DEF Net!WithDefault
    <2>3. A \in [1 .. 11 -> S] /\ 11 \in Nat
      <3>1. A \in [1 .. 11 -> S]
        BY <2>1, <2>2, Zenon
      <3> QED
        BY <3>1
    <2> HIDE DEF A, S
    <2> QED
      BY <2>3, FromFunction, ZenonT(30)
  <1>2. B \in Seq(S) /\ Len(B) \in Nat /\ DOMAIN B = 1 .. Len(B)
    <2>1. B \in Seq(SB)
      BY PartAssumption DEF Net!StackAssumption
    <2> HIDE DEF SA, SB, SC
    <2> QED
      BY <2>1
  <1>3. C \in Seq(S) /\ Len(C) = 9
    <2>1. DOMAIN C = 1 .. 9 /\ Len(C) = 9
      BY DEF Rest
    <2>2. C = [j \in 1 .. 9 |-> C[j]]
      BY DEF Rest
    <2>3. C \in [1 .. 9 -> S] /\ 9 \in Nat
      <3>1. C \in [1 .. 9 -> S]
        BY <2>1, <2>2, Zenon
      <3> QED
        BY <3>1
    <2> HIDE DEF C, S
    <2> QED
      BY <2>3, FromFunction, ZenonT(30)
  <1>4. Net!Options(c) = (A \o B) \o C
    BY DEF Net!Options, Rest, Net!withTCPHandler, Net!withUDPHandler, Net!withICMPHandler,
           Net!withCreatingNIC, Net!withPromiscuousMode, Net!withSpoofing, Net!withRouteTable,
           Net!withMulticastGroups
  <1> HIDE DEF A, B, C, S
  <1>5. /\ A \o B \in Seq(S) /\ Len(A \o B) = Len(A) + Len(B)
        /\ \A i \in 1 .. Len(A) : (A \o B)[i] = A[i]
        /\ \A i \in 1 .. Len(B) : (A \o B)[Len(A) + i] = B[i]
    <2>1. A \in Seq(S) /\ B \in Seq(S)
      BY <1>1, <1>2
    <2> QED
      BY <2>1, Joined
  <1> DEFINE AB == A \o B
  <1>6. /\ AB \in Seq(S) /\ Len(AB) = 11 + Len(B)
        /\ \A i \in 1 .. 11 : AB[i] = A[i]
        /\ \A i \in 1 .. Len(B) : AB[11 + i] = B[i]
    BY <1>1, <1>5, Zenon
  <1> HIDE DEF AB
  <1>7. /\ AB \o C \in Seq(S) /\ Len(AB \o C) = Len(AB) + Len(C)
        /\ \A i \in 1 .. Len(AB) : (AB \o C)[i] = AB[i]
        /\ \A i \in 1 .. Len(C) : (AB \o C)[Len(AB) + i] = C[i]
    <2>1. AB \in Seq(S) /\ C \in Seq(S)
      BY <1>3, <1>6
    <2> QED
      BY <2>1, Joined
  <1> DEFINE O == Net!Options(c)
  <1>8. O = AB \o C
    BY <1>4 DEF AB
  <1> HIDE DEF O
  <1>9. /\ O \in Seq(S) /\ Len(O) = (11 + Len(B)) + 9
        /\ \A j \in 1 .. 11 + Len(B) : O[j] = AB[j]
        /\ \A j \in 1 .. 9 : O[11 + Len(B) + j] = C[j]
    BY <1>3, <1>6, <1>7, <1>8, Zenon
  <1>10. O \in Seq({O[j] : j \in DOMAIN O})
    BY <1>9, Ranged, ZenonT(30)
  <1>11. /\ \A j \in 1 .. 11 : O[j] = A[j]
         /\ \A j \in 1 .. Len(B) : O[11 + j] = B[j]
         /\ Len(O) = 20 + Len(B)
    <2>1. Len(B) \in Nat
      BY <1>2
    <2>2. ASSUME NEW j \in 1 .. 11 PROVE O[j] = A[j]
      <3>1. j \in 1 .. 11 + Len(B)
        BY <2>1
      <3> QED
        BY <1>6, <1>9, <3>1, Zenon
    <2>3. ASSUME NEW j \in 1 .. Len(B) PROVE O[11 + j] = B[j]
      <3>1. 11 + j \in 1 .. 11 + Len(B)
        BY <2>1
      <3> QED
        BY <1>6, <1>9, <3>1, Zenon
    <2>4. Len(O) = 20 + Len(B)
      <3>1. (11 + Len(B)) + 9 = 20 + Len(B)
        BY <2>1
      <3> QED
        BY <1>9, <3>1, Zenon
    <2> QED
      BY <2>2, <2>3, <2>4, Zenon
  <1> QED
    BY <1>2, <1>9, <1>10, <1>11, Zenon DEF A, B, C, O

\* Which option sets what.
LEMMA NamesAre ==
    ASSUME NEW c \in Configs, NEW U, U = 11 + Len(c.options)
    PROVE  /\ \A j \in 1 .. U : Net!Options(c)[j].name \in Net!Settable
           /\ \A j \in 1 .. 11 : Net!Options(c)[j].name = "sndbuf" => j = 5 /\ Net!Options(c)[j].value = DefaultSize
           /\ \A j \in 1 .. 11 : Net!Options(c)[j].name = "rcvbuf" => j = 6 /\ Net!Options(c)[j].value = DefaultSize
           /\ Net!Options(c)[5].name = "sndbuf" /\ Net!Options(c)[6].name = "rcvbuf"
           /\ Net!Options(c)[U + 1] = Net!Option("tcp", TRUE)
           /\ Net!Options(c)[U + 2] = Net!Option("udp", TRUE)
           /\ Net!Options(c)[U + 3] = Net!Option("icmp", TRUE)
           /\ Net!Options(c)[U + 4] = Net!Option("nic", TRUE)
           /\ Net!Options(c)[U + 5] = Net!Option("promiscuous", TRUE)
           /\ Net!Options(c)[U + 6] = Net!Option("spoofing", TRUE)
           /\ Net!Options(c)[U + 7] = Net!Option("routes", TRUE)
           /\ Net!Options(c)[U + 8] = Net!withAddresses(c)
           /\ Net!Options(c)[U + 9] = Net!Option("groups", c.groups)
  <1> DEFINE O == Net!Options(c)
             B == c.options
  <1>1. /\ Len(B) \in Nat /\ DOMAIN B = 1 .. Len(B)
        /\ \A j \in 1 .. 11 : O[j] = Net!WithDefault[j]
        /\ \A j \in 1 .. Len(B) : O[11 + j] = B[j]
        /\ \A j \in 1 .. 9 : O[11 + Len(B) + j] = Rest(c)[j]
    BY OptionsAre, Zenon
  <1>2. \A j \in 1 .. 11 : Net!WithDefault[j].name \in Net!Settable
    BY DEF Net!WithDefault, Net!Settable, Net!Option
  <1>3. \A j \in DOMAIN B : B[j].name \in Net!Settable
    BY PartAssumption, Zenon DEF Net!StackAssumption
  <1>4. \A j \in 1 .. 11 :
           /\ Net!WithDefault[j].name = "sndbuf" => j = 5 /\ Net!WithDefault[j].value = DefaultSize
           /\ Net!WithDefault[j].name = "rcvbuf" => j = 6 /\ Net!WithDefault[j].value = DefaultSize
    BY DEF Net!WithDefault, Net!Option
  <1>5. Net!WithDefault[5].name = "sndbuf" /\ Net!WithDefault[6].name = "rcvbuf"
    BY DEF Net!WithDefault, Net!Option
  <1>6. /\ Rest(c)[1] = Net!Option("tcp", TRUE) /\ Rest(c)[2] = Net!Option("udp", TRUE)
        /\ Rest(c)[3] = Net!Option("icmp", TRUE) /\ Rest(c)[4] = Net!Option("nic", TRUE)
        /\ Rest(c)[5] = Net!Option("promiscuous", TRUE) /\ Rest(c)[6] = Net!Option("spoofing", TRUE)
        /\ Rest(c)[7] = Net!Option("routes", TRUE) /\ Rest(c)[8] = Net!withAddresses(c)
        /\ Rest(c)[9] = Net!Option("groups", c.groups)
    BY DEF Rest
  <1> HIDE DEF O, B
  <1>7. ASSUME NEW j \in 1 .. U PROVE O[j].name \in Net!Settable
    <2>1. CASE j <= 11
      <3>1. j \in 1 .. 11
        BY <1>1, <2>1 DEF B
      <3> QED
        BY <1>1, <1>2, <3>1, Zenon
    <2>2. CASE j > 11
      <3>1. PICK m \in 1 .. Len(B) : j = 11 + m
        <4>2. Len(B) \in Nat /\ U = 11 + Len(B)
          BY <1>1, Zenon DEF B
        <4>1. j - 11 \in 1 .. Len(B) /\ j = 11 + (j - 11)
          BY <2>2, <4>2
        <4> QED
          BY <4>1, Zenon
      <3> QED
        BY <1>1, <1>3, <3>1, Zenon
    <2> QED
      BY <1>1, <2>1, <2>2 DEF B
  <1>8. \A j \in 1 .. 9 : O[U + j] = Rest(c)[j]
    BY <1>1, Zenon DEF B
  <1>9. /\ \A j \in 1 .. 11 : O[j].name = "sndbuf" => j = 5 /\ O[j].value = DefaultSize
        /\ \A j \in 1 .. 11 : O[j].name = "rcvbuf" => j = 6 /\ O[j].value = DefaultSize
        /\ O[5].name = "sndbuf" /\ O[6].name = "rcvbuf"
    <2>1. 5 \in 1 .. 11 /\ 6 \in 1 .. 11
      OBVIOUS
    <2> QED
      BY <1>1, <1>4, <1>5, <2>1, Zenon
  <1>10. \A j \in {1, 2, 3, 4, 5, 6, 7, 8, 9} : O[U + j] = Rest(c)[j]
    <2>1. \A j \in {1, 2, 3, 4, 5, 6, 7, 8, 9} : j \in 1 .. 9
      OBVIOUS
    <2> QED
      BY <1>8, <2>1, Zenon
  <1> QED
    BY <1>6, <1>7, <1>9, <1>10, Zenon DEF O

\* CreateStack's progress: which options have been applied, and to which effect.
SetInv ==
    /\ cfg \in Configs /\ DOMAIN setting = Names /\ setting = [x \in Names |-> setting[x]]
    /\ setting["sndbuf"] \in Nat /\ setting["rcvbuf"] \in Nat
    /\ result = "ok" => opts = <<>>
    /\ \E k \in Nat : Applied(k)

\* The settings before the first option.
LEMMA UnsetIs ==
    /\ DOMAIN Net!Unset = Names /\ Net!Unset = [x \in Names |-> Net!Unset[x]]
    /\ Net!Unset["sndbuf"] = 0 /\ Net!Unset["rcvbuf"] = 0
    /\ \A x \in {"tcp", "udp", "icmp", "nic", "promiscuous", "spoofing", "routes"} : Net!Unset[x] = FALSE
  <1>1. DOMAIN Net!Unset = Names
    BY DEF Net!Unset, Names, Net!Settable
  <1>2. Net!Unset = [x \in DOMAIN Net!Unset |-> Net!Unset[x]]
    BY Zenon DEF Net!Unset
  <1>3. /\ Net!Unset["sndbuf"] = 0 /\ Net!Unset["rcvbuf"] = 0
        /\ \A x \in {"tcp", "udp", "icmp", "nic", "promiscuous", "spoofing", "routes"} : Net!Unset[x] = FALSE
    BY DEF Net!Unset
  <1> QED
    BY <1>1, <1>2, <1>3, Zenon

\* At the start of CreateStack no option has been applied.
LEMMA SetInit == Net!Init => SetInv
  <1> SUFFICES ASSUME Net!Init PROVE SetInv
    OBVIOUS
  <1>1. cfg \in Configs /\ opts = Net!Options(cfg) /\ setting = Net!Unset /\ result = "none"
    BY DEF Net!Init
  <1>2. Applied(0)
    <2> DEFINE O == Net!Options(cfg)
    <2>1. O \in Seq({ O[j] : j \in DOMAIN O })
      BY <1>1, OptionsAre
    <2> HIDE DEF O
    <2>2. Len(O) \in Nat /\ O = SubSeq(O, 0 + 1, Len(O))
      BY <2>1
    <2> QED
      BY <1>1, <2>2 DEF Applied, O
  <1> QED
    BY <1>1, <1>2, UnsetIs DEF SetInv

\* One more option is applied.
LEMMA ApplySet == ASSUME SetInv, Net!Apply PROVE SetInv'
  <1> DEFINE O == Net!Options(cfg)
  <1>1. cfg \in Configs /\ cfg' = cfg /\ result' = result /\ result = "none" /\ opts # <<>>
    BY DEF SetInv, Net!Apply
  <1>2. PICK k \in Nat : Applied(k)
    BY DEF SetInv
  <1>3. O \in Seq({ O[j] : j \in DOMAIN O }) /\ Len(O) \in Nat
    BY <1>1, OptionsAre
  <1>4. k \in 0 .. Len(O) /\ opts = SubSeq(O, k + 1, Len(O))
    BY <1>2 DEF Applied
  <1>5. O' = O
    BY <1>1
  <1> DEFINE o == O[k + 1]
  <1>6. k < Len(O) /\ Head(opts) = o /\ Tail(opts) = SubSeq(O, (k + 1) + 1, Len(O))
    <2> HIDE DEF O
    <2> QED
      BY <1>1, <1>3, <1>4
  <1>7. opts' = SubSeq(O, (k + 1) + 1, Len(O)) /\ setting' = [setting EXCEPT ![o.name] = o.value] /\ Net!InRange(o)
    BY <1>6, Zenon DEF Net!Apply
  <1>8. o.name \in Names
    <2>1. PICK U : U = 11 + Len(cfg.options)
      OBVIOUS
    <2>2. Len(O) = 20 + Len(cfg.options) /\ Len(cfg.options) \in Nat
      BY <1>1, OptionsAre, Zenon
    <2>3. /\ \A j \in 1 .. U : O[j].name \in Net!Settable
          /\ O[U + 1] = Net!Option("tcp", TRUE) /\ O[U + 2] = Net!Option("udp", TRUE)
          /\ O[U + 3] = Net!Option("icmp", TRUE) /\ O[U + 4] = Net!Option("nic", TRUE)
          /\ O[U + 5] = Net!Option("promiscuous", TRUE) /\ O[U + 6] = Net!Option("spoofing", TRUE)
          /\ O[U + 7] = Net!Option("routes", TRUE) /\ O[U + 8] = Net!withAddresses(cfg)
          /\ O[U + 9] = Net!Option("groups", cfg.groups)
      BY <1>1, <2>1, NamesAre, Zenon
    <2> HIDE DEF O
    <2>4. k + 1 \in 1 .. U \/ \E j \in {1, 2, 3, 4, 5, 6, 7, 8, 9} : k + 1 = U + j
      <3>1. k + 1 \in Nat /\ U \in Nat /\ k + 1 <= U + 9
        BY <1>4, <1>6, <2>1, <2>2
      <3>2. CASE k + 1 > U
        <4>1. (k + 1) - U \in {1, 2, 3, 4, 5, 6, 7, 8, 9} /\ k + 1 = U + ((k + 1) - U)
          BY <3>1, <3>2
        <4> QED
          BY <4>1, Zenon
      <3> QED
        BY <3>1, <3>2
    <2>5. CASE k + 1 \in 1 .. U
      BY <2>3, <2>5 DEF Names
    <2>6. CASE \E j \in {1, 2, 3, 4, 5, 6, 7, 8, 9} : k + 1 = U + j
      BY <2>3, <2>6 DEF Names, Net!Option, Net!withAddresses
    <2> QED
      BY <2>4, <2>5, <2>6
  <1>9. /\ DOMAIN setting' = Names /\ setting' = [x \in Names |-> setting'[x]]
        /\ \A x \in Names : setting'[x] = IF x = o.name THEN o.value ELSE setting[x]
    BY <1>7, <1>8, Zenon DEF SetInv
  <1>10. setting'["sndbuf"] \in Nat /\ setting'["rcvbuf"] \in Nat
    <2>1. o.name \in {"sndbuf", "rcvbuf"} => o.value \in Nat
      BY <1>7, PartAssumption DEF Net!InRange, Net!StackAssumption
    <2>2. "sndbuf" \in Names /\ "rcvbuf" \in Names
      BY DEF Names, Net!Settable
    <2> HIDE DEF o
    <2> QED
      BY <1>9, <2>1, <2>2 DEF SetInv
  <1>11. Applied(k + 1)'
    <2>1. ASSUME NEW x \in Names
          PROVE  \/ setting'[x] = Net!Unset[x] /\ \A j \in 1 .. k + 1 : O[j].name # x
                 \/ \E j \in 1 .. k + 1 :
                       /\ O[j].name = x /\ setting'[x] = O[j].value
                       /\ \A m \in j + 1 .. k + 1 : O[m].name # x
      <3>1. CASE x = o.name
        <4>1. k + 1 \in 1 .. k + 1 /\ \A m \in (k + 1) + 1 .. k + 1 : O[m].name # x
          BY SMTT(30)
        <4> QED
          BY <1>9, <3>1, <4>1
      <3>2. CASE x # o.name
        <4>1. setting'[x] = setting[x]
          BY <1>9, <3>2
        <4>2. \A j \in 1 .. k + 1 : j \in 1 .. k \/ j = k + 1
          OBVIOUS
        <4>3. CASE setting[x] = Net!Unset[x] /\ \A j \in 1 .. k : O[j].name # x
          BY <3>2, <4>1, <4>2, <4>3, Zenon
        <4>4. CASE \E j \in 1 .. k :
                 /\ O[j].name = x /\ setting[x] = O[j].value
                 /\ \A m \in j + 1 .. k : O[m].name # x
          <5>1. PICK j \in 1 .. k :
                 /\ O[j].name = x /\ setting[x] = O[j].value
                 /\ \A m \in j + 1 .. k : O[m].name # x
            BY <4>4
          <5>2. j \in 1 .. k + 1 /\ \A m \in j + 1 .. k + 1 : m \in j + 1 .. k \/ m = k + 1
            OBVIOUS
          <5> QED
            BY <3>2, <4>1, <5>1, <5>2, Zenon
        <4> QED
          BY <1>2, <4>3, <4>4 DEF Applied
      <3> QED
        BY <3>1, <3>2
    <2>2. k + 1 \in 0 .. Len(O)
      BY <1>3, <1>4, <1>6
    <2> HIDE DEF O
    <2> QED
      BY <1>5, <1>7, <2>1, <2>2 DEF Applied, O
  <1>12. k + 1 \in Nat
    OBVIOUS
  <1>13. \E l \in Nat : Applied(l)'
    BY <1>11, <1>12
  <1> QED
    BY <1>1, <1>9, <1>10, <1>13 DEF SetInv

\* Only Apply moves CreateStack on.
LEMMA SetNext == SetInv /\ [Net!Next]_Net!vars => SetInv'
  <1> SUFFICES ASSUME SetInv, [Net!Next]_Net!vars PROVE SetInv'
    OBVIOUS
  <1>1. CASE Net!Apply
    BY <1>1, ApplySet
  <1>2. CASE UNCHANGED <<cfg, opts, setting>> /\ (result' = "ok" => opts = <<>>)
    <2>1. \A k \in Nat : Applied(k) => Applied(k)'
      BY <1>2 DEF Applied
    <2> QED
      BY <1>2, <2>1 DEF SetInv
  <1>3. ASSUME Net!Next, ~Net!Apply PROVE UNCHANGED <<cfg, opts, setting>> /\ (result' = "ok" => opts = <<>>)
    <2>1. CASE Net!ApplyFails \/ Net!Created
      BY <2>1 DEF Net!ApplyFails, Net!Created
    <2>2. CASE UNCHANGED <<cfg, opts, setting, result>>
      BY <2>2 DEF SetInv
    <2>3. ASSUME NEW p \in Packets, Net!Receive(p) \/ Net!Refuse(p) PROVE UNCHANGED <<cfg, opts, setting, result>>
      BY <2>3 DEF Net!Receive, Net!Refuse
    <2>4. ASSUME NEW i \in DOMAIN requests, Net!TCPHandler(i) \/ Net!UDPFails(i) \/ Net!UDPTaken(i) \/ Net!HandlePacket(i)
          PROVE  UNCHANGED <<cfg, opts, setting, result>>
      BY <2>4, Zenon DEF Net!TCPHandler, Net!TCPFails, Net!TCPOpens, Net!TCPTaken, Net!UDPFails,
             Net!UDPTaken, Net!HandlePacket
    <2> QED
      BY <1>3, <2>1, <2>2, <2>3, <2>4, Zenon DEF Net!Next
  <1>4. CASE UNCHANGED Net!vars
    BY <1>2, <1>4 DEF Net!vars, SetInv
  <1> QED
    BY <1>1, <1>2, <1>3, <1>4

-----------------------------------------------------------------------------
(* NetStack: what the settings are once there is a NIC.                      *)

\* An option that follows those of the configuration has been applied.
LEMMA RestApplied ==
    ASSUME SetInv, NEW k \in Nat, Applied(k), NEW j \in {1, 2, 3, 4, 5, 6, 7, 8, 9},
           NEW U, U = 11 + Len(cfg.options), k >= U + j
    PROVE  setting[Net!Options(cfg)[U + j].name] = Net!Options(cfg)[U + j].value
  <1> DEFINE O == Net!Options(cfg)
             x == O[U + j].name
  <1>1. /\ cfg \in Configs
        /\ \A m \in 1 .. U : O[m].name \in Net!Settable
        /\ O[U + 1] = Net!Option("tcp", TRUE) /\ O[U + 2] = Net!Option("udp", TRUE)
        /\ O[U + 3] = Net!Option("icmp", TRUE) /\ O[U + 4] = Net!Option("nic", TRUE)
        /\ O[U + 5] = Net!Option("promiscuous", TRUE) /\ O[U + 6] = Net!Option("spoofing", TRUE)
        /\ O[U + 7] = Net!Option("routes", TRUE) /\ O[U + 8] = Net!withAddresses(cfg)
        /\ O[U + 9] = Net!Option("groups", cfg.groups)
    <2>1. cfg \in Configs
      BY DEF SetInv
    <2> QED
      BY <2>1, NamesAre, ZenonT(30)
  <1>2. Len(cfg.options) \in Nat /\ Len(O) = 20 + Len(cfg.options) /\ k \in 0 .. Len(O)
    BY <1>1, OptionsAre, Zenon DEF Applied
  <1>3. U + j \in 1 .. k
    BY <1>2
  <1> HIDE DEF O
  <1>n. /\ O[U + 1].name = "tcp" /\ O[U + 2].name = "udp" /\ O[U + 3].name = "icmp"
        /\ O[U + 4].name = "nic" /\ O[U + 5].name = "promiscuous" /\ O[U + 6].name = "spoofing"
        /\ O[U + 7].name = "routes" /\ O[U + 8].name = "addresses" /\ O[U + 9].name = "groups"
    BY <1>1 DEF Net!Option, Net!withAddresses
  <1>4. x \in Names \ Net!Settable
    <2>1. x \in {"tcp", "udp", "icmp", "nic", "promiscuous", "spoofing", "routes", "addresses", "groups"}
      BY <1>n, SMTT(30)
    <2> HIDE DEF x
    <2> QED
      BY <2>1 DEF Names, Net!Settable
  <1>5. \A m \in {1, 2, 3, 4, 5, 6, 7, 8, 9} : O[U + m].name = x => m = j
    <2> DEFINE f == [m \in {1, 2, 3, 4, 5, 6, 7, 8, 9} |-> O[U + m].name]
    <2>2. /\ f[1] = "tcp" /\ f[2] = "udp" /\ f[3] = "icmp" /\ f[4] = "nic" /\ f[5] = "promiscuous"
          /\ f[6] = "spoofing" /\ f[7] = "routes" /\ f[8] = "addresses" /\ f[9] = "groups"
      BY <1>n
    <2>3. \A m \in {1, 2, 3, 4, 5, 6, 7, 8, 9} : f[m] = O[U + m].name
      BY Zenon
    <2> HIDE DEF f
    <2>4. \A m \in {1, 2, 3, 4, 5, 6, 7, 8, 9} : f[m] = f[j] => m = j
      BY <2>2, SMTT(30)
    <2> QED
      BY <2>3, <2>4, Zenon
  <1> HIDE DEF x
  <1>6. PICK i \in 1 .. k : O[i].name = x /\ setting[x] = O[i].value
    BY <1>3, <1>4, Zenon DEF Applied, O, x
  <1>7. i = U + j
    <2>1. ~(i \in 1 .. U)
      BY <1>1, <1>4, <1>6
    <2>2. i - U \in {1, 2, 3, 4, 5, 6, 7, 8, 9} /\ i = U + (i - U)
      BY <1>2, <2>1, SMTT(30)
    <2>3. i - U = j
      BY <1>5, <1>6, <2>2, Zenon
    <2> QED
      BY <2>2, <2>3
  <1> QED
    BY <1>6, <1>7 DEF O, x

\* The NIC and its routes exist only when everything before the NIC has been applied.
LEMMA NICLast ==
    ASSUME SetInv, setting["nic"] \/ setting["routes"]
    PROVE  \E k \in Nat : Applied(k) /\ k >= (11 + Len(cfg.options)) + 4
  <1> DEFINE O == Net!Options(cfg)
  <1>1. PICK k \in Nat : Applied(k)
    BY DEF SetInv
  <1>2. PICK U : U = 11 + Len(cfg.options)
    OBVIOUS
  <1>3. cfg \in Configs
    BY DEF SetInv
  <1>4. /\ \A m \in 1 .. U : O[m].name \in Net!Settable
        /\ O[U + 1] = Net!Option("tcp", TRUE) /\ O[U + 2] = Net!Option("udp", TRUE)
        /\ O[U + 3] = Net!Option("icmp", TRUE)
    BY <1>2, <1>3, NamesAre, Zenon
  <1>5. Len(cfg.options) \in Nat /\ Len(O) = 20 + Len(cfg.options) /\ k \in 0 .. Len(O)
    BY <1>1, <1>3, OptionsAre, Zenon DEF Applied
  <1> HIDE DEF O
  <1>6. PICK i \in 1 .. k : O[i].name \in {"nic", "routes"}
    <2>1. /\ "nic" \in Names /\ Net!Unset["nic"] = FALSE
          /\ "routes" \in Names /\ Net!Unset["routes"] = FALSE
      BY UnsetIs DEF Names
    <2> QED
      BY <1>1, <2>1, Zenon DEF Applied, O
  <1>7. ~(i \in 1 .. U) /\ i # U + 1 /\ i # U + 2 /\ i # U + 3
    BY <1>4, <1>6 DEF Net!Settable, Net!Option
  <1>8. k >= U + 4
    BY <1>2, <1>5, <1>7, SMTT(30)
  <1> QED
    BY <1>1, <1>2, <1>8

\* The handlers are in place, and the buffer sizes are those of the configuration.
LEMMA SizeIs ==
    ASSUME SetInv, setting["nic"] \/ setting["routes"], NEW x \in {"sndbuf", "rcvbuf"} PROVE setting[x] = Net!Configured(x)
  <1> DEFINE O == Net!Options(cfg)
             B == cfg.options
  <1>0. PICK U : U = 11 + Len(B)
    OBVIOUS
  <1>1. PICK k \in Nat : Applied(k) /\ k >= U + 4
    BY <1>0, NICLast
  <1>2. cfg \in Configs
    BY DEF SetInv
  <1>3. /\ \A m \in 1 .. 11 : O[m].name = x => O[m].value = DefaultSize
        /\ O[5].name = "sndbuf" /\ O[6].name = "rcvbuf"
        /\ O[U + 1] = Net!Option("tcp", TRUE) /\ O[U + 2] = Net!Option("udp", TRUE)
        /\ O[U + 3] = Net!Option("icmp", TRUE) /\ O[U + 4] = Net!Option("nic", TRUE)
        /\ O[U + 5] = Net!Option("promiscuous", TRUE) /\ O[U + 6] = Net!Option("spoofing", TRUE)
        /\ O[U + 7] = Net!Option("routes", TRUE) /\ O[U + 8] = Net!withAddresses(cfg)
        /\ O[U + 9] = Net!Option("groups", cfg.groups)
    BY <1>0, <1>2, NamesAre, ZenonT(30)
  <1>4. /\ Len(B) \in Nat /\ Len(O) = 20 + Len(B) /\ k \in 0 .. Len(O) /\ DOMAIN B = 1 .. Len(B)
        /\ \A j \in 1 .. Len(B) : O[11 + j] = B[j]
    BY <1>1, <1>2, OptionsAre, Zenon DEF Applied
  <1> HIDE DEF O, B
  <1>5. PICK i \in 1 .. k : O[i].name = x /\ setting[x] = O[i].value /\ \A m \in i + 1 .. k : O[m].name # x
    <2>1. x \in Names
      BY DEF Names, Net!Settable
    <2>2. 5 \in 1 .. k /\ 6 \in 1 .. k
      BY <1>0, <1>1, <1>4
    <2>3. \E l \in 1 .. k : O[l].name = x
      <3>1. CASE x = "sndbuf"
        BY <1>3, <2>2, <3>1, Zenon
      <3>2. CASE x = "rcvbuf"
        BY <1>3, <2>2, <3>2, Zenon
      <3> QED
        BY <3>1, <3>2
    <2> QED
      BY <1>1, <2>1, <2>3, Zenon DEF Applied, O
  <1>6. i \in 1 .. U
    <2>1. CASE i > U
      <3>1. i - U \in {1, 2, 3, 4, 5, 6, 7, 8, 9} /\ i = U + (i - U)
        BY <1>0, <1>4, <2>1
      <3>2. PICK j \in {1, 2, 3, 4, 5, 6, 7, 8, 9} : i = U + j
        BY <3>1, Zenon
      <3>3. O[U + j].name # x
        BY <1>3 DEF Net!Option, Net!withAddresses
      <3> QED
        BY <1>5, <3>2, <3>3, Zenon
    <2> QED
      BY <1>0, <1>4, <2>1
  <1> DEFINE mine == { j \in DOMAIN B : B[j].name = x }
  <1>7. CASE i <= 11
    <2>1. mine = {}
      <3>1. ASSUME NEW j \in 1 .. Len(B), B[j].name = x PROVE FALSE
        <4>1. 11 + j \in i + 1 .. k
          BY <1>0, <1>1, <1>4, <1>7
        <4> QED
          BY <1>4, <1>5, <3>1, <4>1, Zenon
      <3> QED
        BY <1>4, <3>1
    <2>2. setting[x] = DefaultSize
      <3>1. i \in 1 .. 11
        BY <1>7
      <3> QED
        BY <1>3, <1>5, <3>1, Zenon
    <2> QED
      BY <2>1, <2>2, Zenon DEF Net!Configured, B
  <1>8. CASE i > 11
    <2>1. PICK j \in 1 .. Len(B) : i = 11 + j
      <3>1. i - 11 \in 1 .. Len(B) /\ i = 11 + (i - 11)
        BY <1>0, <1>4, <1>6, <1>8
      <3> QED
        BY <3>1, Zenon
    <2>2. B[j].name = x /\ setting[x] = B[j].value
      BY <1>4, <1>5, <2>1, Zenon
    <2>3. \A l \in mine : l <= j
      <3>1. ASSUME NEW l \in 1 .. Len(B), B[l].name = x, l > j PROVE FALSE
        <4>1. 11 + l \in i + 1 .. k
          BY <1>0, <1>1, <1>4, <2>1, <3>1
        <4> QED
          BY <1>4, <1>5, <3>1, <4>1, Zenon
      <3> QED
        BY <1>4, <3>1
    <2>4. j \in mine
      BY <1>4, <2>2
    <2>5. ASSUME NEW l \in mine, \A m \in mine : m <= l PROVE l = j
      BY <1>4, <2>3, <2>4, <2>5
    <2>6. (CHOOSE l \in mine : \A m \in mine : m <= l) = j
      BY <2>3, <2>4, <2>5, Zenon
    <2>7. mine # {}
      BY <2>4
    <2> QED
      BY <2>2, <2>6, <2>7, Zenon DEF Net!Configured, B
  <1> QED
    BY <1>6, <1>7, <1>8

\* With a NIC, or routes to it, there are handlers, and buffer sizes as configured.
LEMMA NICFacts ==
    ASSUME SetInv, setting["nic"] \/ setting["routes"]
    PROVE  /\ setting["tcp"] = TRUE /\ setting["udp"] = TRUE /\ setting["icmp"] = TRUE
           /\ setting["sndbuf"] = Net!Configured("sndbuf") /\ setting["rcvbuf"] = Net!Configured("rcvbuf")
  <1> DEFINE O == Net!Options(cfg)
  <1>1. PICK U : U = 11 + Len(cfg.options)
    OBVIOUS
  <1>2. PICK k \in Nat : Applied(k) /\ k >= U + 4
    BY <1>1, NICLast
  <1>3. cfg \in Configs
    BY DEF SetInv
  <1>4. O[U + 1] = Net!Option("tcp", TRUE) /\ O[U + 2] = Net!Option("udp", TRUE) /\ O[U + 3] = Net!Option("icmp", TRUE)
    BY <1>1, <1>3, NamesAre, Zenon
  <1>5. k >= U + 1 /\ k >= U + 2 /\ k >= U + 3
    BY <1>1, <1>2, <1>3, OptionsAre
  <1>6. \A j \in {1, 2, 3} : setting[O[U + j].name] = O[U + j].value
    BY <1>1, <1>2, <1>5, RestApplied, ZenonT(30)
  <1> QED
    BY <1>4, <1>6, SizeIs DEF Net!Option

\* A stack that CreateStack has returned.
LEMMA ReadyFacts ==
    ASSUME SetInv, result = "ok"
    PROVE  /\ setting["promiscuous"] = TRUE /\ setting["spoofing"] = TRUE /\ setting["routes"] = TRUE
           /\ cfg.groups # {} => setting["addresses"] # {}
  <1> DEFINE O == Net!Options(cfg)
  <1>1. PICK U : U = 11 + Len(cfg.options)
    OBVIOUS
  <1>2. PICK k \in Nat : Applied(k)
    BY DEF SetInv
  <1>3. cfg \in Configs /\ opts = <<>>
    BY DEF SetInv
  <1>4. /\ O[U + 5] = Net!Option("promiscuous", TRUE) /\ O[U + 6] = Net!Option("spoofing", TRUE)
        /\ O[U + 7] = Net!Option("routes", TRUE) /\ O[U + 8] = Net!withAddresses(cfg)
        /\ O[U + 9] = Net!Option("groups", cfg.groups)
    BY <1>1, <1>3, NamesAre, Zenon
  <1>5. /\ O \in Seq({ O[j] : j \in DOMAIN O }) /\ Len(cfg.options) \in Nat
        /\ Len(O) = 20 + Len(cfg.options) /\ k \in 0 .. Len(O) /\ opts = SubSeq(O, k + 1, Len(O))
    BY <1>2, <1>3, OptionsAre, Zenon DEF Applied
  <1>6. k = U + 9
    <2> HIDE DEF O
    <2>1. Len(SubSeq(O, k + 1, Len(O))) = Len(O) - k
      BY <1>5
    <2>2. Len(opts) = 0
      BY <1>3
    <2> QED
      BY <1>1, <1>5, <2>1, <2>2
  <1>7. k >= U + 5 /\ k >= U + 6 /\ k >= U + 7 /\ k >= U + 8 /\ k >= U + 9
    BY <1>1, <1>5, <1>6
  <1>8. \A j \in {5, 6, 7, 8, 9} : setting[O[U + j].name] = O[U + j].value
    BY <1>1, <1>2, <1>7, RestApplied, ZenonT(30)
  <1>9. /\ O[U + 8].name = "addresses"
        /\ cfg.groups # {} => O[U + 8].value = {"ipv4", "ipv6"}
    BY <1>4 DEF Net!Option, Net!withAddresses
  <1>10. cfg.groups # {} => setting["addresses"] # {}
    BY <1>8, <1>9
  <1> QED
    BY <1>4, <1>8, <1>10 DEF Net!Option

-----------------------------------------------------------------------------
(* NetStack: the requests.                                                   *)

States ==
    {"new", "open", "given", "reset", "dropped", "unreachable", "replied", "unsent",
     "unhandled", "custom"}
RequestType ==
    [packet : Packets, state : States, sndbuf : Nat, rcvbuf : Nat, ready : BOOLEAN]

\* Configured, of configuration c.
Size(c, name) ==
    LET mine == { j \in DOMAIN c.options : c.options[j].name = name } IN
    IF mine = {} THEN DefaultSize
    ELSE c.options[CHOOSE j \in mine : \A k \in mine : k <= j].value

\* What the properties say of one request, given CreateStack's argument and result.
Fine(c, ret, r) ==
    /\ r.packet.proto = "tcp" /\ r.state = "open" =>
           r.sndbuf = Size(c, "sndbuf") /\ r.rcvbuf = Size(c, "rcvbuf")
    /\ r.ready => ret = "ok"
    /\ /\ r.ready
       /\ r.packet.dst = "unicast" \/ (r.packet.dst = "multicast" /\ c.groups # {})
       /\ r.packet.proto = "udp" \/ (r.packet.type = "echo" /\ r.packet.net = "ipv4")
       => r.state \in {"new", "given", "replied", "unsent", "custom"}

\* What is known of all requests.
RequestInv ==
    /\ requests \in Seq(RequestType)
    /\ \A i \in 1 .. Len(requests) : Fine(cfg, result, requests[i])

\* CreateStack goes on.
LEMMA CreatingRequests ==
    ASSUME RequestInv, UNCHANGED <<cfg, requests>>, result # "ok" \/ result' = "ok" PROVE RequestInv'
  <1>1. \A r : Fine(cfg, result, r) => Fine(cfg, result', r)
    BY Zenon DEF Fine
  <1> QED
    BY <1>1 DEF RequestInv

\* A request is replaced.
LEMMA Replaced ==
    ASSUME NEW T, NEW q \in Seq(T), NEW i \in DOMAIN q, NEW r \in T
    PROVE  /\ [q EXCEPT ![i] = r] \in Seq(T) /\ Len([q EXCEPT ![i] = r]) = Len(q)
           /\ \A j \in 1 .. Len(q) : [q EXCEPT ![i] = r][j] = IF j = i THEN r ELSE q[j]
  OBVIOUS

\* A handler replaces a request by one that the properties allow.
LEMMA HandledRequest ==
    ASSUME RequestInv, NEW i \in DOMAIN requests, NEW r \in RequestType, Fine(cfg, result, r),
           requests' = [requests EXCEPT ![i] = r], UNCHANGED <<cfg, result>>
    PROVE  RequestInv'
  <1>1. requests \in Seq(RequestType)
    BY DEF RequestInv
  <1>2. /\ requests' \in Seq(RequestType) /\ Len(requests') = Len(requests)
        /\ \A j \in 1 .. Len(requests) : requests'[j] = IF j = i THEN r ELSE requests[j]
    BY <1>1, Replaced
  <1> QED
    BY <1>2 DEF RequestInv

\* A request is added.
LEMMA AddedRequest ==
    ASSUME RequestInv, NEW r \in RequestType, Fine(cfg, result, r),
           requests' = Append(requests, r), UNCHANGED <<cfg, result>>
    PROVE  RequestInv'
  <1>1. requests \in Seq(RequestType)
    BY DEF RequestInv
  <1>2. /\ requests' \in Seq(RequestType) /\ Len(requests') = Len(requests) + 1
        /\ \A j \in 1 .. Len(requests) + 1 : requests'[j] = IF j = Len(requests) + 1 THEN r ELSE requests[j]
    BY <1>1
  <1> QED
    BY <1>1, <1>2 DEF RequestInv

\* A packet that reaches the NIC finds the handler of its protocol.
LEMMA ReceiveRequests ==
    ASSUME SetInv, RequestInv, NEW p \in Packets, Net!Receive(p) \/ Net!Refuse(p) PROVE RequestInv'
  <1>1. p.proto \in {"tcp", "udp", "icmp"} /\ (p.type = "echo" => p.proto = "icmp")
    BY PartAssumption DEF Net!StackAssumption
  <1>2. UNCHANGED <<cfg, result>> /\ setting["nic"]
    BY DEF Net!Receive, Net!Refuse
  <1>3. setting[p.proto]
    BY <1>1, <1>2, NICFacts, Zenon
  <1>4. PICK s : requests' = Append(requests, Net!Request(p, s)) /\ (s = "new" \/ (s = "dropped" /\
                   (p.proto = "tcp" \/ ~setting["promiscuous"])))
    <2>1. CASE Net!Receive(p)
      <3>1. CASE ~setting["promiscuous"] /\ p.dst # "broadcast"
        BY <2>1, <3>1 DEF Net!Receive
      <3>2. CASE ~(~setting["promiscuous"] /\ p.dst # "broadcast")
        BY <1>3, <2>1, <3>2 DEF Net!Receive
      <3> QED
        BY <3>1, <3>2
    <2>2. CASE Net!Refuse(p)
      BY <2>2 DEF Net!Refuse
    <2> QED
      BY <2>1, <2>2
  <1>5. PICK r : r = Net!Request(p, s)
    BY SMTT(30)
  <1>6. /\ r.packet = p /\ r.state = s /\ r.ready = (result = "ok")
        /\ r \in RequestType
    BY <1>4, <1>5 DEF Net!Request, RequestType, States
  <1>7. Fine(cfg, result, r)
    <2>1. result = "ok" => setting["promiscuous"]
      BY ReadyFacts, Zenon
    <2> QED
      BY <1>1, <1>4, <1>6, <2>1, Zenon DEF Fine
  <1>8. requests' = Append(requests, r)
    BY <1>4, <1>5
  <1> QED
    BY <1>2, <1>6, <1>7, <1>8, AddedRequest

\* The handlers keep what the properties say of a request.
LEMMA HandlerRequests ==
    ASSUME SetInv, RequestInv, NEW i \in DOMAIN requests,
           Net!TCPHandler(i) \/ Net!UDPFails(i) \/ Net!UDPTaken(i) \/ Net!HandlePacket(i)
    PROVE  RequestInv'
  <1>1. UNCHANGED <<cfg, result>>
    BY Zenon DEF Net!TCPHandler, Net!TCPFails, Net!TCPOpens, Net!TCPTaken, Net!UDPFails,
           Net!UDPTaken, Net!HandlePacket
  <1>2. PICK q : q = requests[i]
    OBVIOUS
  <1>3. q \in RequestType /\ Fine(cfg, result, q)
    <2>1. requests \in Seq(RequestType) /\ \A j \in 1 .. Len(requests) : Fine(cfg, result, requests[j])
      BY DEF RequestInv
    <2> HIDE DEF RequestType
    <2> QED
      BY <1>2, <2>1
  <1>p. q.packet \in Packets
    BY <1>3 DEF RequestType
  <1>4. /\ q.packet.dst \in {"unicast", "multicast", "broadcast"}
        /\ q.packet.type = "echo" => q.packet.proto = "icmp"
    BY <1>p, PartAssumption DEF Net!StackAssumption
  <1>5. ASSUME q.ready, NEW d \in {"unicast", "multicast", "own"}, d # "unicast" => cfg.groups # {}
        PROVE  Net!FindRoute(d)
    <2>1. result = "ok"
      BY <1>3, <1>5 DEF Fine
    <2> QED
      BY <1>5, <2>1, ReadyFacts, Zenon DEF Net!FindRoute
  <1>6. ASSUME NEW s \in States, requests' = [requests EXCEPT ![i].state = s],
               s # "open",
               \/ q.packet.proto = "tcp" \/ s \in {"given", "replied", "unsent", "custom"}
               \/ (q.packet.proto = "icmp" /\ q.packet.type = "echo" /\ q.packet.net = "ipv4" =>
                      ~q.ready \/ (q.packet.dst # "unicast" /\ (q.packet.dst = "multicast" => cfg.groups = {})))
                  /\ q.packet.proto = "icmp"
               \/ (q.packet.proto = "udp" /\ ~Net!FindRoute(q.packet.dst))
        PROVE  RequestInv'
    <2>1. PICK r : r = [q EXCEPT !.state = s]
      BY Zenon
    <2>2. r \in RequestType /\ r.state = s /\ r.packet = q.packet /\ r.ready = q.ready
      BY <1>3, <2>1 DEF RequestType
    <2>3. requests' = [requests EXCEPT ![i] = r]
      BY <1>2, <1>6, <2>1
    <2>4. Fine(cfg, result, r)
      BY <1>3, <1>4, <1>5, <1>6, <2>2 DEF Fine
    <2> QED
      BY <1>1, <2>2, <2>3, <2>4, HandledRequest, Zenon
  <1>7. CASE Net!TCPFails(i)
    BY <1>2, <1>6, <1>7 DEF Net!TCPFails, Net!Is, States
  <1>8. CASE Net!TCPTaken(i)
    BY <1>2, <1>6, <1>8 DEF Net!TCPTaken, Net!Is, States
  <1>9. CASE Net!UDPFails(i)
    BY <1>2, <1>6, <1>9 DEF Net!UDPFails, Net!Is, States
  <1>10. CASE Net!UDPTaken(i)
    BY <1>6, <1>10 DEF Net!UDPTaken, States
  <1>11. CASE Net!TCPOpens(i)
    <2>1. Net!FindRoute(q.packet.dst) /\ q.packet.proto = "tcp"
      BY <1>2, <1>11 DEF Net!TCPOpens, Net!Is
    <2>2. setting["routes"]
      BY <2>1 DEF Net!FindRoute
    <2>3. PICK a, b : a = setting["sndbuf"] /\ b = setting["rcvbuf"]
      OBVIOUS
    <2>4. a \in Nat /\ b \in Nat /\ a = Size(cfg, "sndbuf") /\ b = Size(cfg, "rcvbuf")
      <3>1. a = Net!Configured("sndbuf") /\ b = Net!Configured("rcvbuf")
        BY <2>2, <2>3, NICFacts
      <3>2. Net!Configured("sndbuf") = Size(cfg, "sndbuf") /\ Net!Configured("rcvbuf") = Size(cfg, "rcvbuf")
        BY Zenon DEF Net!Configured, Size
      <3> QED
        BY <2>3, <3>1, <3>2 DEF SetInv
    <2>5. PICK r : r = [q EXCEPT !.state = "open", !.sndbuf = a, !.rcvbuf = b]
      OBVIOUS
    <2>6. /\ r \in RequestType /\ r.state = "open" /\ r.packet = q.packet /\ r.ready = q.ready
          /\ r.sndbuf = a /\ r.rcvbuf = b
      BY <1>3, <2>4, <2>5, Zenon DEF RequestType, States
    <2>7. requests' = [requests EXCEPT ![i] = r]
      BY <1>2, <1>11, <2>3, <2>5, ZenonT(30) DEF Net!TCPOpens
    <2>8. Fine(cfg, result, r)
      BY <1>3, <1>4, <2>1, <2>4, <2>6 DEF Fine
    <2> QED
      BY <1>1, <2>6, <2>7, <2>8, HandledRequest, Zenon
  <1>12. CASE Net!HandlePacket(i)
    <2>1. q.packet.proto = "icmp"
      BY <1>2, <1>12 DEF Net!HandlePacket, Net!Is
    <2>2. PICK s \in Net!Outcomes(q.packet) : requests' = [requests EXCEPT ![i].state = s]
      BY <1>2, <1>12 DEF Net!HandlePacket
    <2>3. s \in {"custom", "replied", "unsent", "unhandled"}
      BY <2>2 DEF Net!Outcomes, Net!handlePacket4
    <2>4. CASE s = "unhandled"
      <3>1. q.packet.type = "echo" /\ q.packet.net = "ipv4" =>
               ~Net!FindRoute(IF q.packet.dst \in {"broadcast", "multicast"} THEN "own" ELSE q.packet.dst)
        BY <2>2, <2>4 DEF Net!Outcomes, Net!handlePacket4
      <3>2. q.packet.type = "echo" /\ q.packet.net = "ipv4" =>
               ~q.ready \/ (q.packet.dst # "unicast" /\ (q.packet.dst = "multicast" => cfg.groups = {}))
        BY <1>5, <3>1
      <3> QED
        BY <1>6, <2>1, <2>2, <2>4, <3>2 DEF States
    <2>5. CASE s # "unhandled"
      BY <1>6, <2>2, <2>3, <2>5 DEF States
    <2> QED
      BY <2>4, <2>5
  <1> QED
    BY <1>7, <1>8, <1>9, <1>10, <1>11, <1>12 DEF Net!TCPHandler

\* Every step keeps it.
LEMMA RequestsNext == SetInv /\ RequestInv /\ [Net!Next]_Net!vars => RequestInv'
  <1> SUFFICES ASSUME SetInv, RequestInv, [Net!Next]_Net!vars PROVE RequestInv'
    OBVIOUS
  <1>1. CASE Net!Apply \/ Net!ApplyFails \/ Net!Created \/ UNCHANGED Net!vars
    BY <1>1, CreatingRequests DEF Net!Apply, Net!ApplyFails, Net!Created, Net!vars
  <1> QED
    BY <1>1, ReceiveRequests, HandlerRequests DEF Net!Next

\* CreateStack's progress and its requests, along every behaviour.
LEMMA RequestsHold == Net!Spec => [](SetInv /\ RequestInv)
  <1>1. Net!Init => RequestInv
    BY DEF Net!Init, RequestInv
  <1> QED
    BY <1>1, SetInit, SetNext, RequestsNext, PTL DEF Net!Spec

\* What the property says follows from what is known of each request.
LEMMA RequestFacts == RequestInv => ConfiguredFirst
  <1> SUFFICES ASSUME RequestInv PROVE ConfiguredFirst
    OBVIOUS
  <1>1. DOMAIN requests = 1 .. Len(requests) /\ \A i \in DOMAIN requests : requests[i].state # "unexpected"
    <2>1. requests \in Seq(RequestType)
      BY DEF RequestInv
    <2>2. \A r \in RequestType : r.state # "unexpected"
      BY DEF RequestType, States
    <2> QED
      BY <2>1, <2>2
  <1>2. \A i \in DOMAIN requests : Fine(cfg, result, requests[i])
    BY <1>1 DEF RequestInv
  <1>3. \A x : Net!Configured(x) = Size(cfg, x)
    BY Zenon DEF Net!Configured, Size
  <1>4. Net!ConfiguredSizes
    BY <1>2, <1>3, Zenon DEF Net!ConfiguredSizes, Fine, Net!Is
  <1>5. Net!ServedWhenReady
    BY <1>2, Zenon DEF Net!ServedWhenReady, Fine
  <1> QED
    BY <1>1, <1>4, <1>5 DEF ConfiguredFirst, Net!ConfiguredFirst, Net!HandlersFirst

\* stack.go:64, for every configuration and any number of packets: no packet finds
\* the handler of its protocol missing, a connection opened while CreateStack is
\* still applying options has the configured buffer sizes, and on a stack that
\* CreateStack has returned no datagram and no IPv4 echo request to a unicast
\* address, or to a multicast address if there are groups, lacks a route back.
\* Broadcast, ICMP over IPv6 and a failing write of the reply are not promised.
THEOREM StackConfiguredFirst == Net!Spec => []ConfiguredFirst
  BY RequestsHold, RequestFacts, PTL

-----------------------------------------------------------------------------
(* NetStack: the count of connection attempts.                               *)

INSTANCE FiniteSetTheorems

\* The request counts as a connection attempt of the TCP forwarder.
Counts(r) == r.packet.proto = "tcp" /\ r.state \in {"new", "open"}
Attempts(q) == { i \in 1 .. Len(q) : Counts(q[i]) }

\* What the forwarder has counted.
CountInv == inFlight = Cardinality(Attempts(requests))

\* The attempts are finitely many.
LEMMA AttemptsFinite ==
    ASSUME NEW q \in Seq(RequestType)
    PROVE  IsFiniteSet(Attempts(q)) /\ Cardinality(Attempts(q)) \in Nat
  <1>1. IsFiniteSet(1 .. Len(q))
    BY FS_Interval
  <1>2. Attempts(q) \subseteq 1 .. Len(q)
    BY DEF Attempts
  <1>3. IsFiniteSet(Attempts(q))
    BY <1>1, <1>2, FS_Subset
  <1> QED
    BY <1>3, FS_CardinalityType

\* A request that counts is one attempt more.
LEMMA AttemptsAdded ==
    ASSUME NEW q \in Seq(RequestType), NEW r \in RequestType
    PROVE  /\ Counts(r) => Cardinality(Attempts(Append(q, r))) = Cardinality(Attempts(q)) + 1
           /\ ~Counts(r) => Attempts(Append(q, r)) = Attempts(q)
  <1> DEFINE p == Append(q, r)
  <1>1. /\ Len(q) \in Nat /\ Len(p) = Len(q) + 1
        /\ \A j \in 1 .. Len(q) + 1 : p[j] = IF j = Len(q) + 1 THEN r ELSE q[j]
    OBVIOUS
  <1> HIDE DEF p
  <1>2. Counts(r) => Attempts(p) = Attempts(q) \cup {Len(q) + 1}
    BY <1>1 DEF Attempts
  <1>3. ~Counts(r) => Attempts(p) = Attempts(q)
    BY <1>1 DEF Attempts
  <1>4. Len(q) + 1 \notin Attempts(q)
    BY <1>1 DEF Attempts
  <1>5. Counts(r) => Cardinality(Attempts(p)) = Cardinality(Attempts(q)) + 1
    BY <1>2, <1>4, AttemptsFinite, FS_AddElement, SMTT(30)
  <1> QED
    BY <1>3, <1>5 DEF p

\* A request that counts no longer is one attempt less.
LEMMA AttemptsReplaced ==
    ASSUME NEW q \in Seq(RequestType), NEW i \in DOMAIN q, NEW r \in RequestType
    PROVE  /\ Counts(q[i]) /\ ~Counts(r) =>
                 Cardinality(Attempts([q EXCEPT ![i] = r])) = Cardinality(Attempts(q)) - 1
           /\ (Counts(q[i]) <=> Counts(r)) => Attempts([q EXCEPT ![i] = r]) = Attempts(q)
  <1> DEFINE p == [q EXCEPT ![i] = r]
  <1>1. /\ Len(q) \in Nat /\ Len(p) = Len(q) /\ DOMAIN q = 1 .. Len(q)
        /\ \A j \in 1 .. Len(q) : p[j] = IF j = i THEN r ELSE q[j]
    BY Replaced
  <1> HIDE DEF p
  <1>2. Counts(q[i]) /\ ~Counts(r) => Attempts(p) = Attempts(q) \ {i} /\ i \in Attempts(q)
    BY <1>1 DEF Attempts
  <1>3. (Counts(q[i]) <=> Counts(r)) => Attempts(p) = Attempts(q)
    BY <1>1, SMTT(30) DEF Attempts
  <1>4. Counts(q[i]) /\ ~Counts(r) => Cardinality(Attempts(p)) = Cardinality(Attempts(q)) - 1
    BY <1>2, AttemptsFinite, FS_RemoveElement
  <1> QED
    BY <1>3, <1>4 DEF p

\* The forwarder counts up when a request is new, and down when it completes one.
LEMMA CountNext == RequestInv /\ SetInv /\ CountInv /\ [Net!Next]_Net!vars => CountInv'
  <1> SUFFICES ASSUME RequestInv, SetInv, CountInv, [Net!Next]_Net!vars PROVE CountInv'
    OBVIOUS
  <1>0. requests \in Seq(RequestType) /\ Cardinality(Attempts(requests)) \in Nat
    BY AttemptsFinite DEF RequestInv
  <1>1. CASE UNCHANGED <<requests, inFlight>>
    BY <1>1 DEF CountInv
  <1>2. CASE Net!Apply \/ Net!ApplyFails \/ Net!Created \/ UNCHANGED Net!vars
    BY <1>1, <1>2 DEF Net!Apply, Net!ApplyFails, Net!Created, Net!vars
  <1>3. ASSUME NEW p \in Packets, Net!Receive(p) \/ Net!Refuse(p) PROVE CountInv'
    <2>1. PICK s : /\ requests' = Append(requests, Net!Request(p, s)) /\ s \in {"new", "dropped", "unexpected"}
                   /\ inFlight' = IF p.proto = "tcp" /\ s = "new" THEN inFlight + 1 ELSE inFlight
      <3>1. CASE Net!Receive(p)
        BY <3>1, Zenon DEF Net!Receive
      <3>2. CASE Net!Refuse(p)
        BY <3>2, SMTT(30) DEF Net!Refuse
      <3> QED
        BY <1>3, <3>1, <3>2
    <2>2. setting["nic"] /\ p.proto \in {"tcp", "udp", "icmp"}
      BY <1>3, PartAssumption DEF Net!Receive, Net!Refuse, Net!StackAssumption
    <2>3. PICK r : r = Net!Request(p, s)
      BY SMTT(30)
    <2>4. s # "unexpected"
      <3>1. setting[p.proto]
        BY <2>2, NICFacts, ZenonT(30)
      <3> QED
        BY <1>3, <2>1, <3>1, SMTT(30) DEF Net!Receive, Net!Refuse, Net!Request
    <2>5. r \in RequestType /\ (Counts(r) <=> p.proto = "tcp" /\ s = "new")
      BY <2>1, <2>3, <2>4 DEF Net!Request, RequestType, States, Counts
    <2>6. requests' = Append(requests, r)
      BY <2>1, <2>3
    <2> QED
      BY <1>0, <2>1, <2>5, <2>6, AttemptsAdded DEF CountInv
  <1>4. ASSUME NEW i \in DOMAIN requests,
               Net!TCPHandler(i) \/ Net!UDPFails(i) \/ Net!UDPTaken(i) \/ Net!HandlePacket(i)
        PROVE  CountInv'
    <2>1. PICK q : q = requests[i]
      OBVIOUS
    <2>2. q \in RequestType
      BY <1>0, <2>1
    <2>3. RequestInv'
      BY <1>4, HandlerRequests
    <2>4. requests' \in Seq(RequestType)
      BY <2>3 DEF RequestInv
    <2>5. PICK r : r = requests'[i]
      OBVIOUS
    <2>6. requests' = [requests EXCEPT ![i] = r]
      BY <1>0, <1>4, <2>5, Zenon DEF Net!TCPHandler, Net!TCPFails, Net!TCPOpens, Net!TCPTaken,
             Net!UDPFails, Net!UDPTaken, Net!HandlePacket
    <2>7. r \in RequestType
      <3>1. DOMAIN requests' = DOMAIN requests
        BY <2>6
      <3> QED
        BY <2>4, <2>5, <3>1
    <2>8. CASE Net!TCPFails(i) \/ Net!TCPTaken(i)
      <3>1. inFlight' = inFlight - 1 /\ Counts(q)
        BY <2>1, <2>8 DEF Net!TCPFails, Net!TCPTaken, Net!Is, Counts
      <3>2. r.state \in {"reset", "given"}
        <4>1. PICK x \in {"reset", "given"} : requests' = [requests EXCEPT ![i].state = x]
          BY <2>8 DEF Net!TCPFails, Net!TCPTaken
        <4> QED
          BY <1>0, <2>1, <2>2, <2>5, <4>1 DEF RequestType
      <3>3. ~Counts(r)
        BY <3>2 DEF Counts
      <3> QED
        BY <1>0, <2>1, <2>6, <2>7, <3>1, <3>3, AttemptsReplaced, Zenon DEF CountInv
    <2>9. CASE Net!TCPOpens(i)
      <3>1. inFlight' = inFlight /\ Counts(q) /\ q.packet.proto = "tcp"
        BY <2>1, <2>9 DEF Net!TCPOpens, Net!Is, Counts
      <3>2. r.state = "open" /\ r.packet = q.packet
        BY <1>0, <2>1, <2>2, <2>5, <2>9, SMTT(30) DEF Net!TCPOpens, RequestType
      <3>3. Counts(r)
        BY <3>1, <3>2 DEF Counts
      <3> QED
        BY <1>0, <2>1, <2>6, <2>7, <3>1, <3>3, AttemptsReplaced, ZenonT(30) DEF CountInv
    <2>10. CASE Net!UDPFails(i) \/ Net!UDPTaken(i) \/ Net!HandlePacket(i)
      <3>1. inFlight' = inFlight /\ q.packet.proto # "tcp"
        BY <2>1, <2>10 DEF Net!UDPFails, Net!UDPTaken, Net!HandlePacket, Net!Is
      <3>2. r.packet = q.packet
        BY <1>0, <2>1, <2>2, <2>5, <2>10, SMTT(30) DEF Net!UDPFails, Net!UDPTaken,
               Net!HandlePacket, RequestType
      <3>3. ~Counts(q) /\ ~Counts(r)
        BY <3>1, <3>2 DEF Counts
      <3> QED
        BY <1>0, <2>1, <2>6, <2>7, <3>1, <3>3, AttemptsReplaced, ZenonT(30) DEF CountInv
    <2> QED
      BY <1>4, <2>8, <2>9, <2>10 DEF Net!TCPHandler
  <1> QED
    BY <1>2, <1>3, <1>4 DEF Net!Next

\* withTCPHandler's forwarder: for every maxConnAttempts the count in flight is that
\* of the requests being worked on, so no request is completed twice or never counted off.
THEOREM StackAttemptsCounted == Net!Spec => []AttemptsCounted
  <1>1. Net!Init => CountInv
    <2>1. Attempts(<<>>) = {}
      BY DEF Attempts
    <2> QED
      BY <2>1, FS_EmptySet DEF Net!Init, CountInv
  <1>2. RequestInv /\ CountInv => AttemptsCounted
    <2> SUFFICES ASSUME RequestInv, CountInv PROVE AttemptsCounted
      OBVIOUS
    <2>1. DOMAIN requests = 1 .. Len(requests)
      BY DEF RequestInv
    <2>2. Attempts(requests) = { i \in DOMAIN requests : Net!Is(i, "tcp", "new") \/ Net!Is(i, "tcp", "open") }
      BY <2>1 DEF Attempts, Counts, Net!Is
    <2>3. \A s : Net!Cardinality(s) = Cardinality(s)
      BY Zenon DEF Cardinality, Net!Cardinality
    <2> QED
      BY <2>2, <2>3, Zenon DEF CountInv, AttemptsCounted, Net!AttemptsCounted
  <1> QED
    BY <1>1, <1>2, RequestsHold, CountNext, PTL DEF Net!Spec
=============================================================================
