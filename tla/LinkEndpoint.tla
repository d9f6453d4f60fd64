---------------------------- MODULE LinkEndpoint ----------------------------
(***************************************************************************)
(* The link endpoint between a device and the network stack                *)
(* (core/device/iobased) with the TUN device that owns it                  *)
(* (core/device/tun/tun_wireguard.go).  Attach starts two goroutines: one  *)
(* carries packets from the device to the stack, the other from the        *)
(* endpoint's bounded queue to the device.  The queue is gVisor's channel  *)
(* endpoint and is external, as is the stack on the other side.            *)
(***************************************************************************)
EXTENDS Naturals, Sequences

CONSTANTS
    Sizes,        \* lengths Read may return
    MTU,          \* e.mtu
    QueueLen,     \* defaultOutQueueLen
    MaxIn,        \* bound: packets the device delivers
    MaxOut,       \* bound: packets the stack sends
    MaxAttach     \* bound: calls of Attach with a dispatcher

ASSUME LinkAssumption ==
    /\ Sizes \subseteq Nat /\ MTU \in Nat \ {0} /\ QueueLen \in Nat \ {0}
    /\ MaxIn \in Nat /\ MaxOut \in Nat /\ MaxAttach \in Nat

VARIABLES
    device,      \* "open", "failed" (its calls return errors) or "closed"
    attached,    \* the stack's dispatcher is set
    attaches,    \* calls of Attach so far: e.once has run when there was one
    wg,          \* e.wg
    waiter,      \* the caller of Wait: "none", "waiting", "returned"
    cancelled,   \* the context of the outbound loop
    dispatch,    \* dispatchLoop: "none", "read", "check", "ended" or "done"
    n,           \* what its Read returned
    ins,         \* packets read so far
    injected,    \* lengths of the packets handed to the stack
    outbound,    \* outboundLoop: "none", "wait", "write", "ended" or "done"
    pkt,         \* the packet it holds
    written,     \* packets written to the device
    queue, qopen,  \* the channel endpoint
    outs         \* packets the stack has sent so far, numbered from 1

life == <<attached, attaches, wg, waiter>>
inn  == <<dispatch, n, ins, injected>>
out  == <<outbound, pkt, written>>
chan == <<queue, qopen, outs>>
vars == <<device, life, cancelled, inn, out, chan>>

Init ==
    /\ device = "open" /\ cancelled = FALSE
    /\ attached = FALSE /\ attaches = 0 /\ wg = 0 /\ waiter = "none"
    /\ dispatch = "none" /\ n = 0 /\ ins = 0 /\ injected = <<>>
    /\ outbound = "none" /\ pkt = 0 /\ written = <<>>
    /\ queue = <<>> /\ qopen = TRUE /\ outs = 0

\* Attach(dispatcher): the loops start once.
Attach ==
    /\ ~attached /\ waiter = "none" /\ attaches < MaxAttach
    /\ attached' = TRUE /\ attaches' = attaches + 1
    /\ IF attaches = 0 THEN wg' = wg + 2 /\ dispatch' = "read" /\ outbound' = "wait"
                       ELSE UNCHANGED <<wg, dispatch, outbound>>
    /\ UNCHANGED <<device, waiter, cancelled, n, ins, injected, pkt, written, chan>>

\* Attach(nil): the stack lets go of the endpoint, the loops go on.
Detach ==
    /\ attached /\ attached' = FALSE
    /\ UNCHANGED <<device, attaches, wg, waiter, cancelled, inn, out, chan>>

-----------------------------------------------------------------------------
\* dispatchLoop.  The device hands a packet to the pending Read.
ReadPacket(size) ==
    /\ dispatch = "read" /\ device = "open" /\ ins < MaxIn
    /\ ins' = ins + 1 /\ n' = size /\ dispatch' = "check"
    /\ UNCHANGED <<device, life, cancelled, injected, out, chan>>

\* Empty, oversized and unknown packets are dropped, and all of them while unattached.
Inbound ==
    /\ dispatch = "check" /\ dispatch' = "read"
    /\ \/ /\ n # 0 /\ n <= MTU /\ attached
          /\ injected' = Append(injected, n)
       \/ UNCHANGED injected
    /\ UNCHANGED <<device, life, cancelled, n, ins, out, chan>>

\* Mutant: the loop ends without cancel.
ReadErrorNoCancel ==
    /\ dispatch = "read" /\ device # "open"
    /\ dispatch' = "ended"
    /\ UNCHANGED <<device, life, cancelled, n, ins, injected, out, chan>>

\* Read fails: the loop breaks and the deferred cancel runs.
ReadError ==
    /\ dispatch = "read" /\ device # "open"
    /\ dispatch' = "ended" /\ cancelled' = TRUE
    /\ UNCHANGED <<device, life, n, ins, injected, out, chan>>

DispatchDone ==
    /\ dispatch = "ended" /\ dispatch' = "done" /\ wg' = wg - 1
    /\ UNCHANGED <<device, attached, attaches, waiter, cancelled, n, ins, injected, out, chan>>

-----------------------------------------------------------------------------
\* The stack sends a packet: into the queue, or dropped when that is full or closed.
WriteQueue ==
    /\ attached /\ outs < MaxOut /\ outs' = outs + 1
    /\ queue' = IF qopen /\ Len(queue) < QueueLen THEN Append(queue, outs + 1) ELSE queue
    /\ UNCHANGED <<device, life, cancelled, inn, out, qopen>>

\* outboundLoop.  ReadContext returns a packet, even if the context is cancelled too.
Outbound ==
    /\ outbound = "wait" /\ queue # <<>>
    /\ pkt' = Head(queue) /\ queue' = Tail(queue) /\ outbound' = "write"
    /\ UNCHANGED <<device, life, cancelled, inn, written, qopen, outs>>

\* ReadContext returns nil.
OutboundEnd ==
    /\ outbound = "wait" /\ (cancelled \/ (~qopen /\ queue = <<>>))
    /\ outbound' = "ended"
    /\ UNCHANGED <<device, life, cancelled, inn, pkt, written, chan>>

\* Mutant: a packet that could not be written is queued again.
WriteDeviceRequeues ==
    /\ outbound = "write" /\ outbound' = "wait"
    /\ IF device = "open" THEN written' = Append(written, pkt) /\ UNCHANGED queue
                          ELSE queue' = Append(queue, pkt) /\ UNCHANGED written
    /\ UNCHANGED <<device, life, cancelled, inn, pkt, qopen, outs>>

\* writePacket: an error of the device is not looked at.
WriteDevice ==
    /\ outbound = "write" /\ outbound' = "wait"
    /\ written' = IF device = "open" THEN Append(written, pkt) ELSE written
    /\ UNCHANGED <<device, life, cancelled, inn, pkt, chan>>

OutboundDone ==
    /\ outbound = "ended" /\ outbound' = "done" /\ wg' = wg - 1
    /\ UNCHANGED <<device, attached, attaches, waiter, cancelled, inn, pkt, written, chan>>

-----------------------------------------------------------------------------
\* The device fails by itself.
DeviceFails ==
    /\ device = "open" /\ device' = "failed"
    /\ UNCHANGED <<life, cancelled, inn, out, chan>>

\* TUN.Close: the device first, then the queue, which the channel endpoint drains.
CloseDevice ==
    /\ device # "closed" /\ device' = "closed"
    /\ UNCHANGED <<life, cancelled, inn, out, chan>>

CloseQueue ==
    /\ device = "closed" /\ qopen
    /\ qopen' = FALSE /\ queue' = <<>>
    /\ UNCHANGED <<device, life, cancelled, inn, out, outs>>

\* Wait, which the stack calls after it has removed its NIC.
WaitBegins ==
    /\ waiter = "none" /\ attaches > 0 /\ ~attached /\ waiter' = "waiting"
    /\ UNCHANGED <<device, attached, attaches, wg, cancelled, inn, out, chan>>

WaitReturns ==
    /\ waiter = "waiting" /\ wg = 0 /\ waiter' = "returned"
    /\ UNCHANGED <<device, attached, attaches, wg, cancelled, inn, out, chan>>

DispatchLoop == (\E size \in Sizes : ReadPacket(size)) \/ Inbound \/ ReadError \/ DispatchDone
OutboundLoop == Outbound \/ OutboundEnd \/ WriteDevice \/ OutboundDone

Next ==
    \/ Attach \/ Detach \/ DispatchLoop \/ WriteQueue \/ OutboundLoop
    \/ DeviceFails \/ CloseDevice \/ CloseQueue \/ WaitBegins \/ WaitReturns

Spec == Init /\ [][Next]_vars

-----------------------------------------------------------------------------
\* Type invariant.  The queue never exceeds its length, nor the wait group its two loops.
TypeOK ==
    /\ device \in {"open", "failed", "closed"}
    /\ attached \in BOOLEAN /\ cancelled \in BOOLEAN /\ qopen \in BOOLEAN
    /\ attaches \in 0 .. MaxAttach /\ ins \in 0 .. MaxIn /\ outs \in 0 .. MaxOut
    /\ wg \in 0 .. 2 /\ waiter \in {"none", "waiting", "returned"}
    /\ dispatch \in {"none", "read", "check", "ended", "done"} /\ n \in Sizes \cup {0}
    /\ outbound \in {"none", "wait", "write", "ended", "done"} /\ pkt \in 0 .. MaxOut
    /\ injected \in Seq(1 .. MTU)
    /\ queue \in Seq(1 .. MaxOut) /\ Len(queue) <= QueueLen /\ written \in Seq(1 .. MaxOut)

Running(loop) == loop \notin {"none", "done"}

\* Wait returns only when both loops are over, however often the stack attached
\* and detached the endpoint: afterwards nobody touches the device or the stack.
QuietAfterWait ==
    /\ wg = (IF Running(dispatch) THEN 1 ELSE 0) + (IF Running(outbound) THEN 1 ELSE 0)
    /\ waiter = "returned" => ~Running(dispatch) /\ ~Running(outbound)

\* The packets that reach the device are the stack's, each at most once and in
\* the order they were sent, whatever the full queue or the end of the loops drops.
OutboundOrdered ==
    LET line == written \o (IF outbound = "write" THEN <<pkt>> ELSE <<>>) \o queue IN
    \A i, j \in 1 .. Len(line) : i < j => line[i] < line[j]

\* endpoint.go:90 "to ensure outboundLoop exits gracefully after dispatchLoop
\* returns": a device that fails or is closed ends both loops, and Wait returns.
LoopsEnd ==
    /\ (device # "open" /\ attaches > 0) ~> (dispatch = "done" /\ outbound = "done")
    /\ (device # "open" /\ waiter = "waiting") ~> waiter = "returned"
=============================================================================
