----------------------------- MODULE ObfsWriter -----------------------------
(***************************************************************************)
(* TLSObfs.Write on several connections at once.  The first chunk of a     *)
(* connection travels inside a fake ClientHello, later ones in records;    *)
(* both are put together in buffers of the process-wide bufferpool.  Bytes *)
(* of a connection are numbered; a message is the run of bytes it carries. *)
(***************************************************************************)
EXTENDS Naturals, Sequences, FiniteSets

CONSTANTS
    Conns,      \* TLSObfs connections of the process
    Buffers,    \* bytes.Buffers the pool may hand out (it makes new ones when empty)
    ChunkSize,  \* chunkSize
    Lens,       \* lengths callers pass to Write
    MaxBytes    \* bound: bytes written to one connection

ASSUME WriterAssumption ==
    /\ ChunkSize \in Nat \ {0} /\ Lens \subseteq Nat /\ MaxBytes \in Nat
    /\ IsFiniteSet(Buffers) /\ Cardinality(Buffers) >= Cardinality(Conns)

VARIABLES
    pc,             \* per connection: where its Write is
    firstRequest,   \* TLSObfs.firstRequest
    left,           \* bytes of the current Write not yet in a message
    accepted,       \* bytes handed to Write so far
    held,           \* buffer whose bytes the next Conn.Write sends
    pool,           \* buffers in the pool
    content,        \* per buffer: the message last put together in it
    sent            \* per connection: messages on the wire

vars == <<pc, firstRequest, left, accepted, held, pool, content, sent>>

Message == [conn : Conns, hello : BOOLEAN, first : Nat, size : Nat]
Least(a, b) == IF a <= b THEN a ELSE b

Init ==
    /\ pc = [c \in Conns |-> "idle"]
    /\ firstRequest = [c \in Conns |-> TRUE]
    /\ left = [c \in Conns |-> 0] /\ accepted = [c \in Conns |-> 0]
    /\ held \in [Conns -> Buffers]
    /\ pool = Buffers
    /\ content = [b \in Buffers |-> <<>>]
    /\ sent = [c \in Conns |-> <<>>]

Write(c, n) ==
    /\ pc[c] = "idle" /\ accepted[c] + n <= MaxBytes
    /\ pc' = [pc EXCEPT ![c] = IF n = 0 THEN "idle" ELSE "chunk"]
    /\ left' = [left EXCEPT ![c] = n]
    /\ accepted' = [accepted EXCEPT ![c] = @ + n]
    /\ UNCHANGED <<firstRequest, held, pool, content, sent>>

\* The chunk Write's loop is at, put together in buffer b.
Build(c, b) ==
    /\ held' = [held EXCEPT ![c] = b]
    /\ content' = [content EXCEPT ![b] =
          [conn |-> c, hello |-> firstRequest[c],
           first |-> accepted[c] - left[c] + 1, size |-> Least(ChunkSize, left[c])]]

\* Returns buf.Bytes(); the deferred Put has given the buffer back by then.
MakeClientHelloMsg(c) ==
    /\ pc[c] = "chunk" /\ firstRequest[c]
    /\ \E b \in pool : Build(c, b)
    /\ pc' = [pc EXCEPT ![c] = "hello"]
    /\ UNCHANGED <<firstRequest, left, accepted, pool, sent>>

\* The next chunk, or the end of Write.
Advance(c) ==
    /\ left' = [left EXCEPT ![c] = @ - Least(ChunkSize, @)]
    /\ pc' = [pc EXCEPT ![c] = IF left'[c] > 0 THEN "chunk" ELSE "idle"]

\* Conn.Write of the hello, from the bytes the buffer holds now; a failed one
\* ends the connection's writing.
WriteHello(c) ==
    /\ pc[c] = "hello"
    /\ firstRequest' = [firstRequest EXCEPT ![c] = FALSE]
    /\ \/ sent' = [sent EXCEPT ![c] = Append(@, content[held[c]])] /\ Advance(c)
       \/ pc' = [pc EXCEPT ![c] = "failed"] /\ UNCHANGED <<sent, left>>
    /\ UNCHANGED <<accepted, held, pool, content>>

\* Mutant: the record's buffer is given back before it is written, too.
BuildRecordPutEarly(c) ==
    /\ pc[c] = "chunk" /\ ~firstRequest[c]
    /\ \E b \in pool : Build(c, b)
    /\ pc' = [pc EXCEPT ![c] = "record"]
    /\ UNCHANGED <<firstRequest, left, accepted, pool, sent>>

BuildRecord(c) ==
    /\ pc[c] = "chunk" /\ ~firstRequest[c]
    /\ \E b \in pool : Build(c, b) /\ pool' = pool \ {b}
    /\ pc' = [pc EXCEPT ![c] = "record"]
    /\ UNCHANGED <<firstRequest, left, accepted, sent>>

\* Conn.Write of a record; its buffer is given back after it.
WriteRecord(c) ==
    /\ pc[c] = "record"
    /\ \/ sent' = [sent EXCEPT ![c] = Append(@, content[held[c]])] /\ Advance(c)
       \/ pc' = [pc EXCEPT ![c] = "failed"] /\ UNCHANGED <<sent, left>>
    /\ pool' = pool \cup {held[c]}
    /\ UNCHANGED <<firstRequest, accepted, held, content>>

Next ==
    \E c \in Conns :
        \/ \E n \in Lens : Write(c, n)
        \/ MakeClientHelloMsg(c) \/ WriteHello(c)
        \/ BuildRecord(c) \/ WriteRecord(c)

Spec == Init /\ [][Next]_vars

-----------------------------------------------------------------------------
\* Type invariant.
TypeOK ==
    /\ pc \in [Conns -> {"idle", "chunk", "hello", "record", "failed"}]
    /\ firstRequest \in [Conns -> BOOLEAN]
    /\ left \in [Conns -> 0 .. MaxBytes] /\ accepted \in [Conns -> 0 .. MaxBytes]
    /\ held \in [Conns -> Buffers] /\ pool \subseteq Buffers
    /\ content \in [Buffers -> Message \cup {<<>>}]
    /\ sent \in [Conns -> Seq(Message)]

\* The bytes of a connection up to the end of its i-th message.
Upto(c, i) == sent[c][i].first + sent[c][i].size - 1

\* The records behind the hello carry this connection's own bytes, each run
\* going on where the last one ended: chunking loses and repeats nothing, and a
\* record's buffer is never in another connection's hands.  When a Write has
\* returned, the last of them ends with the last byte it accepted.
RecordsInOrder ==
    \A c \in Conns :
        /\ \A i \in 2 .. Len(sent[c]) :
               /\ sent[c][i].conn = c /\ ~sent[c][i].hello
               /\ i > 2 => sent[c][i].first = Upto(c, i - 1) + 1
        /\ pc[c] = "idle" /\ Len(sent[c]) > 1 => Upto(c, Len(sent[c])) = accepted[c]

\* README.md:13 "Transparently routes all network traffic from any application":
\* the ClientHello of a connection carries that connection's first bytes.
HelloIsOwn ==
    \A c \in Conns : sent[c] # <<>> => sent[c][1].conn = c /\ sent[c][1].hello
=============================================================================
