----------------------------- MODULE ObfsReader -----------------------------
(***************************************************************************)
(* What simple-obfs makes of the server's answer: TLSObfs.Read takes the   *)
(* payload out of TLS-looking records, HTTPObfs.Read skips an HTTP header  *)
(* and then gets out of the way.  The obfs server is external; it sends    *)
(* well-formed frames, which TCP delivers in pieces of any size, and the   *)
(* connection may end anywhere.  Callers stop at the first error.          *)
(***************************************************************************)
EXTENDS Naturals, Sequences

CONSTANTS
    Kinds,          \* subset of {"tls", "http"}
    FirstSkip,      \* units before the length of the first TLS record (105 bytes)
    Skip,           \* units before the length of a later one (3 bytes)
    HeaderLen,      \* units of the HTTP response header
    Sizes,          \* payload sizes of the server's records
    Lens,           \* len(b) of a Read
    MaxBytes,       \* bound: payload bytes the server sends
    MaxWire         \* bound: units unread when the server starts a frame

ObfsAssumption ==
    /\ Kinds \subseteq {"tls", "http"}
    /\ Skip \in Nat \ {0} /\ FirstSkip \in Nat /\ FirstSkip > Skip
    /\ HeaderLen \in Nat \ {0}
    /\ Sizes \subseteq Nat /\ Lens \subseteq Nat \ {0} /\ MaxBytes \in Nat /\ MaxWire \in Nat

VARIABLES
    kind,
    first,          \* server: no frame sent yet
    out,            \* units of the current frame TCP has not delivered
    accepted,       \* payload bytes the server has put into frames
    wire,           \* units delivered and not read
    up,             \* the connection may deliver more
    firstResponse,  \* the field of TLSObfs and HTTPObfs
    remain,         \* TLSObfs.remain
    buf,            \* HTTPObfs.buf[offset:]
    pc, want,       \* the reading caller, and len(b) of its call
    skip,           \* TLSObfs.read's discardN
    length,         \* length of the TLS record being read
    rerr, got       \* error the caller stopped at; bytes it was given

server == <<kind, first, out, accepted>>
vars == <<server, wire, up, firstResponse, remain, buf, pc, want, skip, length, rerr, got>>

Least(a, b) == IF a <= b THEN a ELSE b

\* A unit of the wire: part of a header, a length, or a payload byte.
Unit(t, v)   == [t |-> t, v |-> v]
Header(n)    == [i \in 1 .. n |-> Unit("h", 0)]
Payload(f, n) == [i \in 1 .. n |-> Unit("byte", f + i - 1)]
Values(us)   == [i \in 1 .. Len(us) |-> us[i].v]

Init ==
    /\ kind \in Kinds
    /\ first = TRUE /\ out = <<>> /\ accepted = 0 /\ wire = <<>> /\ up = TRUE
    /\ firstResponse = TRUE /\ remain = 0 /\ buf = <<>>
    /\ pc = "idle" /\ want = 0 /\ skip = 0 /\ length = 0
    /\ rerr = "none" /\ got = <<>>

ServerFrame(n) ==
    /\ out = <<>> /\ up /\ Len(wire) <= MaxWire /\ accepted + n <= MaxBytes
    /\ out' = (CASE kind = "tls" -> Header(IF first THEN FirstSkip ELSE Skip)
                                    \o <<Unit("len", n)>>
                 [] kind = "http" /\ first -> Header(HeaderLen - 1) \o <<Unit("end", 0)>>
                 [] OTHER -> <<>>) \o Payload(accepted + 1, n)
    /\ accepted' = accepted + n /\ first' = FALSE
    /\ UNCHANGED <<kind, wire, up, firstResponse, remain, buf, pc, want, skip, length, rerr, got>>

Deliver ==
    /\ up /\ out # <<>>
    /\ \E k \in 1 .. Len(out) :
          /\ wire' = wire \o SubSeq(out, 1, k)
          /\ out' = SubSeq(out, k + 1, Len(out))
    /\ UNCHANGED <<kind, first, accepted, up, firstResponse, remain, buf, pc, want, skip,
                   length, rerr, got>>

EndOfConn ==
    /\ up /\ up' = FALSE
    /\ UNCHANGED <<server, wire, firstResponse, remain, buf, pc, want, skip, length, rerr, got>>

-----------------------------------------------------------------------------
Take(k)  == wire' = SubSeq(wire, k + 1, Len(wire))
Peek(k)  == SubSeq(wire, 1, k)
Return(us) == got' = got \o Values(us) /\ pc' = "idle"

\* Read(b): TLSObfs goes on with a record that did not fit the last time, or
\* starts the next one; HTTPObfs hands out what it kept, or reads.
Read(n) ==
    /\ pc = "idle" /\ rerr = "none"
    /\ want' = n
    /\ IF kind = "http"
       THEN /\ pc' = (CASE buf # <<>>    -> "kept"
                        [] firstResponse -> "header"
                        [] OTHER         -> "raw")
            /\ UNCHANGED <<firstResponse, skip>>
       ELSE /\ pc' = (IF remain > 0 THEN "remain" ELSE "skip")
            /\ IF remain > 0
               THEN UNCHANGED <<firstResponse, skip>>
               ELSE /\ skip' = (IF firstResponse THEN FirstSkip ELSE Skip)
                    /\ firstResponse' = FALSE
    /\ UNCHANGED <<server, wire, up, remain, buf, length, rerr, got>>

TLSRemain ==
    LET n == Least(remain, want) IN
    /\ pc = "remain" /\ Len(wire) >= n
    /\ Take(n) /\ Return(Peek(n))
    /\ remain' = remain - n
    /\ UNCHANGED <<server, up, firstResponse, buf, want, skip, length, rerr>>

\* read: discard, then the two bytes of the length.
TLSLength ==
    /\ pc = "skip" /\ Len(wire) > skip
    /\ Take(skip + 1)
    /\ length' = wire[skip + 1].v
    /\ pc' = "body"
    /\ UNCHANGED <<server, up, firstResponse, remain, buf, want, skip, rerr, got>>

\* A record longer than b: one Read, of whatever is there; the rest remains.
TLSBody ==
    /\ pc = "body"
    /\ IF length > want
       THEN \E n \in 1 .. Least(want, Len(wire)) :
                Take(n) /\ Return(Peek(n)) /\ remain' = length - n
       ELSE Len(wire) >= length /\ Take(length) /\ Return(Peek(length)) /\ UNCHANGED remain
    /\ UNCHANGED <<server, up, firstResponse, buf, want, skip, length, rerr>>

\* The first response: one Read must bring the whole header, else io.EOF.
HTTPHeader ==
    /\ pc = "header"
    /\ \E n \in 1 .. Len(wire) :
          LET ends == {i \in 1 .. n : wire[i].t = "end"} IN
          /\ Take(n)
          /\ \/ /\ ends = {}
                /\ pc' = "idle" /\ rerr' = "no header" /\ UNCHANGED <<firstResponse, buf, got>>
             \/ \E i \in ends :
                   /\ Return(SubSeq(wire, i + 1, Least(i + want, n)))
                   /\ buf' = SubSeq(wire, i + want + 1, n)
                   /\ firstResponse' = FALSE /\ UNCHANGED rerr
    /\ UNCHANGED <<server, up, remain, want, skip, length>>

HTTPKept ==
    LET n == Least(want, Len(buf)) IN
    /\ pc = "kept"
    /\ Return(SubSeq(buf, 1, n)) /\ buf' = SubSeq(buf, n + 1, Len(buf))
    /\ UNCHANGED <<server, wire, up, firstResponse, remain, want, skip, length, rerr>>

HTTPRaw ==
    /\ pc = "raw"
    /\ \E n \in 1 .. Least(want, Len(wire)) : Take(n) /\ Return(Peek(n))
    /\ UNCHANGED <<server, up, firstResponse, remain, buf, want, skip, length, rerr>>

\* Bytes a pending ReadFull still needs; Read needs one.
Needs ==
    CASE pc = "remain" -> Least(remain, want)
      [] pc = "skip"   -> skip + 1
      [] pc = "body" /\ length <= want -> length
      [] OTHER -> 1

\* The connection ended short of what the call needs.  A ReadFull returns what
\* it got with the error; an end inside the length bytes is returned as no
\* bytes and no error, and the next call finds the connection ended.
ReadError ==
    /\ pc \notin {"idle", "kept"} /\ ~up /\ Len(wire) < Needs
    /\ pc' = "idle" /\ wire' = <<>>
    /\ IF pc = "skip" /\ Len(wire) >= skip
       THEN UNCHANGED rerr
       ELSE rerr' = (IF wire = <<>> THEN "EOF" ELSE "unexpected EOF")
    /\ got' = (IF pc = "skip" THEN got ELSE got \o Values(wire))
    /\ remain' = (IF pc = "remain" THEN remain - Len(wire) ELSE remain)
    /\ UNCHANGED <<server, up, firstResponse, buf, want, skip, length>>

Next ==
    \/ \E n \in Sizes : ServerFrame(n)
    \/ \E n \in Lens : Read(n)
    \/ Deliver \/ EndOfConn
    \/ TLSRemain \/ TLSLength \/ TLSBody
    \/ HTTPHeader \/ HTTPKept \/ HTTPRaw
    \/ ReadError

Spec == Init /\ [][Next]_vars

Reads ==
    \/ \E n \in Lens : Read(n)
    \/ TLSRemain \/ TLSLength \/ TLSBody \/ HTTPHeader \/ HTTPKept \/ HTTPRaw
    \/ ReadError

-----------------------------------------------------------------------------

Stream == INSTANCE ByteStream

\* Whatever the server's record sizes, the readers' buffer sizes and the pieces
\* TCP delivers, Read hands out the payload in order and nothing of the framing:
\* remain and the kept part of the first HTTP read lose and repeat no byte.
ImplementsByteStream == Stream!Spec
=============================================================================
