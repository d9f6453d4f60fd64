----------------------------- MODULE AeadStream -----------------------------
(***************************************************************************)
(* One direction of a shadowsocks AEAD stream: a Conn that writes, the     *)
(* TCP connection below it, and a Conn that reads.  A sealed piece of a    *)
(* record (its length, its payload) is one element of the wire; opening    *)
(* it succeeds when it is the expected piece under the expected nonce.     *)
(* Callers stop at the first error, as the relay's copy loops do.          *)
(***************************************************************************)
EXTENDS Naturals, Sequences

CONSTANTS
    PayloadMask,    \* payloadSizeMask: the most bytes one record carries
    NonceSpace,     \* number of nonces before increment wraps around
    Lens,           \* lengths callers pass to Write and to Read
    MaxBytes,       \* bound: bytes handed to the writer
    MaxWire         \* bound: pieces in flight when a call to the writer starts

ASSUME StreamAssumption ==
    /\ PayloadMask \in Nat \ {0}
    /\ NonceSpace \in Nat \ {0}
    /\ Lens \subseteq Nat
    /\ MaxBytes \in Nat /\ MaxWire \in Nat

VARIABLES
    wready,     \* Conn.w has been created: the salt is on the wire
    wop,        \* what the writing caller is inside of
    left,       \* bytes of the current Write still to seal
    wnonce,     \* Writer.nonce
    wstop,      \* the writing caller has seen an error, or closed
    accepted,   \* bytes handed to the writer so far
    wire,       \* pieces written and not yet read
    up,         \* the TCP connection still carries writes
    rready,     \* Conn.r has been created: the salt has been read
    rpc,        \* where the reading caller is
    rop,        \* the reading call: "read" or "writeTo"
    want,       \* len(p) of the current Read
    rnonce,     \* Reader.nonce
    size,       \* payload size the last opened length announced
    buf,        \* Reader.buf[off:], as number of its first byte and length
    rerr,       \* the error the reading caller stopped at, or "none"
    got         \* bytes handed out by the reader, by number

writer == <<wready, wop, left, wnonce, wstop, accepted>>
reader == <<rready, rpc, rop, want, rnonce, size, buf, rerr, got>>
vars   == <<writer, wire, up, reader>>

Least(a, b) == IF a <= b THEN a ELSE b
Bytes(f, n) == [i \in 1 .. n |-> f + i - 1]

Kinds == {"salt", "len", "data"}
Piece == [kind : Kinds, nonce : Nat, first : Nat, size : Nat, whole : BOOLEAN]

Increment(n) == (n + 1) % NonceSpace

Salt == [kind |-> "salt", nonce |-> 0, first |-> 1, size |-> 0, whole |-> TRUE]

Sealed(k, nonce, f, n) ==
    [kind |-> k, nonce |-> nonce, first |-> f, size |-> n, whole |-> TRUE]

\* A record: the sealed length and the sealed payload, each under its own nonce.
Record(nonce, f, n) ==
    <<Sealed("len", nonce, f, n), Sealed("data", Increment(nonce), f, n)>>

-----------------------------------------------------------------------------
Init ==
    /\ wready = FALSE /\ wop = "idle" /\ left = 0 /\ wnonce = 0
    /\ wstop = FALSE /\ accepted = 0
    /\ wire = <<>> /\ up = TRUE
    /\ rready = FALSE /\ rpc = "idle" /\ rop = "read" /\ want = 0
    /\ rnonce = 0 /\ size = 0 /\ buf = [first |-> 1, len |-> 0]
    /\ rerr = "none" /\ got = <<>>

\* A Write on the TCP connection takes everything ...
Sent(pieces) == up /\ wire' = wire \o pieces /\ UNCHANGED up

\* ... or fails, after some pieces and perhaps in the middle of one.
SendFails(pieces) ==
    /\ up' = FALSE
    /\ \/ UNCHANGED wire
       \/ /\ up
          /\ \E j \in 1 .. Len(pieces) :
                wire' = wire \o [SubSeq(pieces, 1, j) EXCEPT ![j].whole = FALSE]

Write(n) ==
    /\ wop = "idle" /\ ~wstop
    /\ Len(wire) <= MaxWire /\ accepted + n <= MaxBytes
    /\ wop' = "write" /\ left' = n /\ accepted' = accepted + n
    /\ UNCHANGED <<wready, wnonce, wstop, wire, up, reader>>

ReadFrom ==
    /\ wop = "idle" /\ ~wstop
    /\ wop' = "readFrom"
    /\ UNCHANGED <<wready, left, wnonce, wstop, accepted, wire, up, reader>>

\* initWriter: the salt goes out in a Write of its own; Conn.w is set after it.
InitWriter ==
    /\ wop \in {"write", "readFrom"} /\ ~wready
    /\ \/ Sent(<<Salt>>) /\ wready' = TRUE /\ UNCHANGED <<wop, wstop, left>>
       \/ /\ SendFails(<<Salt>>)
          /\ wop' = "idle" /\ wstop' = TRUE /\ left' = 0 /\ UNCHANGED wready
    /\ UNCHANGED <<wnonce, accepted, reader>>

\* An empty Write seals a length and no payload: one piece, one nonce.
WriteEmpty ==
    LET piece == <<Sealed("len", wnonce, accepted + 1, 0)>> IN
    /\ wop = "write" /\ wready /\ left = 0
    /\ wnonce' = Increment(wnonce) /\ wop' = "idle"
    /\ \/ Sent(piece) /\ UNCHANGED wstop
       \/ SendFails(piece) /\ wstop' = TRUE
    /\ UNCHANGED <<wready, left, accepted, reader>>

\* Mutant: the nonce is not advanced after the payload.
WriteChunkSameNonce ==
    LET nr  == Least(PayloadMask, left)
        rec == Record(wnonce, accepted - left + 1, nr) IN
    /\ wop = "write" /\ wready /\ left > 0
    /\ wnonce' = Increment(wnonce)
    /\ Sent(rec) /\ left' = left - nr /\ wop' = (IF left' = 0 THEN "idle" ELSE wop)
    /\ UNCHANGED <<wready, wstop, accepted, reader>>

\* One pass of Write's loop.
WriteChunk ==
    LET nr  == Least(PayloadMask, left)
        rec == Record(wnonce, accepted - left + 1, nr) IN
    /\ wop = "write" /\ wready /\ left > 0
    /\ wnonce' = Increment(Increment(wnonce))
    /\ \/ /\ Sent(rec)
          /\ left' = left - nr
          /\ wop' = (IF left' = 0 THEN "idle" ELSE wop)
          /\ UNCHANGED wstop
       \/ SendFails(rec) /\ left' = 0 /\ wop' = "idle" /\ wstop' = TRUE
    /\ UNCHANGED <<wready, accepted, reader>>

\* One pass of ReadFrom's loop: whatever Read returned is sealed, nothing with
\* EOF included, and only then is the end of the input looked at.
ReadFromChunk(n, end) ==
    LET rec == Record(wnonce, accepted + 1, n) IN
    /\ wop = "readFrom" /\ wready /\ n <= PayloadMask
    /\ Len(wire) <= MaxWire /\ accepted + n <= MaxBytes
    /\ accepted' = accepted + n
    /\ wnonce' = Increment(Increment(wnonce))
    /\ \/ Sent(rec) /\ wop' = (IF end THEN "idle" ELSE wop) /\ UNCHANGED wstop
       \/ SendFails(rec) /\ wop' = "idle" /\ wstop' = TRUE
    /\ UNCHANGED <<wready, left, reader>>

\* The writing side closes the connection between two calls.
CloseWriter ==
    /\ wop = "idle" /\ ~wstop
    /\ wstop' = TRUE /\ up' = FALSE
    /\ UNCHANGED <<wready, wop, left, wnonce, accepted, wire, reader>>

-----------------------------------------------------------------------------
\* Entering Read(p) or WriteTo(w): what is left of a record goes out first.
Call(op, n) ==
    /\ rpc = "idle" /\ rerr = "none"
    /\ rop' = op /\ want' = n
    /\ rpc' = CASE ~rready      -> "salt"
                [] buf.len > 0  -> "copy"
                [] OTHER        -> "len"
    /\ UNCHANGED <<writer, wire, up, rready, rnonce, size, buf, rerr, got>>

Arrived == wire # <<>> /\ Head(wire).whole

InitReader ==
    /\ rpc = "salt" /\ Arrived /\ Head(wire).kind = "salt"
    /\ wire' = Tail(wire)
    /\ rready' = TRUE /\ rpc' = "len"
    /\ UNCHANGED <<writer, up, rop, want, rnonce, size, buf, rerr, got>>

Opens(k) == Arrived /\ Head(wire).kind = k /\ Head(wire).nonce = rnonce

\* read: open the length; a zero length is an error of its own.
OpenLen ==
    /\ rpc = "len" /\ Opens("len")
    /\ wire' = Tail(wire)
    /\ rnonce' = Increment(rnonce)
    /\ size' = Head(wire).size
    /\ IF size' = 0 THEN rpc' = "idle" /\ rerr' = "zero chunk"
                    ELSE rpc' = "data" /\ UNCHANGED rerr
    /\ UNCHANGED <<writer, up, rready, rop, want, buf, got>>

OpenData ==
    /\ rpc = "data" /\ Opens("data") /\ Head(wire).size = size
    /\ wire' = Tail(wire)
    /\ rnonce' = Increment(rnonce)
    /\ buf' = [first |-> Head(wire).first, len |-> size]
    /\ rpc' = "copy"
    /\ UNCHANGED <<writer, up, rready, rop, want, size, rerr, got>>

\* Handing out n bytes of the buffered record.
HandOut(n) ==
    /\ got' = got \o Bytes(buf.first, n)
    /\ buf' = [first |-> buf.first + n, len |-> buf.len - n]

\* Mutant: a short Read drops the rest of the record instead of keeping it.
CopyDropsRest ==
    /\ rpc = "copy" /\ rop = "read"
    /\ got' = got \o Bytes(buf.first, Least(want, buf.len))
    /\ buf' = [first |-> buf.first + buf.len, len |-> 0]
    /\ rpc' = "idle"
    /\ UNCHANGED <<writer, wire, up, rready, rop, want, rnonce, size, rerr>>

\* Mutant: a record that does not fit is not handed out in part.
CopyWhole ==
    /\ rpc = "copy" /\ rop = "read"
    /\ HandOut(IF buf.len <= want THEN buf.len ELSE 0)
    /\ rpc' = "idle"
    /\ UNCHANGED <<writer, wire, up, rready, rop, want, rnonce, size, rerr>>

\* Read: copy what fits; the rest of the record stays for the next call.
Copy ==
    /\ rpc = "copy" /\ rop = "read"
    /\ HandOut(Least(want, buf.len))
    /\ rpc' = "idle"
    /\ UNCHANGED <<writer, wire, up, rready, rop, want, rnonce, size, rerr>>

\* WriteTo: the sink takes the record and the loop reads the next one, or it
\* fails after n bytes and the rest stays.
Drain(n) ==
    /\ rpc = "copy" /\ rop = "writeTo" /\ n <= buf.len
    /\ HandOut(n)
    /\ \/ n = buf.len /\ rpc' = "len"
       \/ rpc' = "idle"
    /\ UNCHANGED <<writer, wire, up, rready, rop, want, rnonce, size, rerr>>

\* The Read below fails: the connection ended between two pieces or inside
\* one, a deadline passed, or the piece does not open.
ReadError ==
    /\ rpc \in {"salt", "len", "data"}
    /\ \/ ~up /\ wire = <<>> /\ rerr' = "EOF"
       \/ ~up /\ wire # <<>> /\ ~Arrived /\ rerr' = "unexpected EOF"
       \/ rerr' = "timeout"
       \/ rpc # "salt" /\ Arrived /\ ~Opens(rpc) /\ rerr' = "open"
    /\ rpc' = "idle"
    /\ UNCHANGED <<writer, wire, up, rready, rop, want, rnonce, size, buf, got>>

WriterNext ==
    \/ \E n \in Lens : Write(n)
    \/ ReadFrom \/ InitWriter \/ WriteEmpty \/ WriteChunk
    \/ \E n \in Lens \cup {0}, end \in BOOLEAN : ReadFromChunk(n, end)
    \/ CloseWriter

ReaderNext ==
    \/ \E op \in {"read", "writeTo"}, n \in Lens \ {0} : Call(op, n)
    \/ InitReader \/ OpenLen \/ OpenData \/ Copy
    \/ \E n \in 0 .. PayloadMask : Drain(n)
    \/ ReadError

Next == WriterNext \/ ReaderNext

Spec == Init /\ [][Next]_vars

\* A reading caller keeps calling until an error, and the connection delivers.
Reads ==
    \/ \E n \in Lens \ {0} : Call("read", n)
    \/ InitReader \/ OpenLen \/ OpenData \/ Copy
    \/ Drain(buf.len)

-----------------------------------------------------------------------------
\* Type invariant.  Reader.Read and WriteTo only ever end with these errors.
TypeOK ==
    /\ wready \in BOOLEAN /\ wop \in {"idle", "write", "readFrom"}
    /\ left \in Nat /\ wnonce \in Nat /\ wstop \in BOOLEAN /\ accepted \in Nat
    /\ wire \in Seq(Piece) /\ up \in BOOLEAN
    /\ rready \in BOOLEAN /\ rpc \in {"idle", "salt", "len", "data", "copy"}
    /\ rop \in {"read", "writeTo"} /\ want \in Nat /\ rnonce \in Nat
    /\ size \in Nat /\ buf \in [first : Nat, len : Nat]
    /\ rerr \in {"none", "EOF", "unexpected EOF", "timeout", "open", "zero chunk"}
    /\ got \in Seq(Nat)

Stream == INSTANCE ByteStream

\* Whatever the sizes of the Write, ReadFrom, Read and WriteTo calls, and
\* wherever the connection is cut, the bytes Read and WriteTo hand out are the
\* accepted ones in order: chunking, leftovers and the two ways to read agree.
ImplementsByteStream == Stream!Spec

\* The two nonces stay in step: nothing the Writer seals is ever refused by
\* Reader.read, although an empty Write uses one nonce and a record two.
NoOpenFailure == rerr # "open"

\* While nothing fails, every byte Write or ReadFrom accepted is handed out in
\* the end: no call is left waiting for a piece that is not coming.
EverythingArrives ==
    \A k \in 1 .. MaxBytes :
        accepted >= k ~> (Len(got) >= k \/ ~up \/ rerr # "none")
=============================================================================
