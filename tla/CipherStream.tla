---------------------------- MODULE CipherStream ----------------------------
(***************************************************************************)
(* One direction of a shadowsocks stream-cipher connection (shadowstream): *)
(* no records, a keystream on each side that must be at the same position  *)
(* for a byte to be deciphered.  A byte of the wire carries its number and *)
(* the keystream position it was enciphered at.  Callers stop at the first *)
(* error, as the relay's copy loops do.                                    *)
(***************************************************************************)
EXTENDS Naturals, Sequences

CONSTANTS
    BufSize,    \* bufSize: bytes enciphered, or deciphered, at a time
    IVSize,     \* length of the initialization vector
    Lens,       \* lengths callers pass to Write and to Read
    MaxBytes    \* bound: bytes handed to the writer

CipherAssumption ==
    BufSize \in Nat \ {0} /\ IVSize \in Nat /\ Lens \subseteq Nat /\ MaxBytes \in Nat

VARIABLES
    wready, wop, left, wpos, wstop, accepted,   \* the writing Conn, its keystream and caller
    wire,                                       \* bytes written and not yet read
    up,                                         \* the TCP connection carries writes
    rready, rop, want, rpos, rerr, got          \* the reading Conn, its keystream and caller

writer == <<wready, wop, left, wpos, wstop, accepted>>
reader == <<rready, rop, want, rpos, rerr, got>>
vars   == <<writer, wire, up, reader>>

Least(a, b) == IF a <= b THEN a ELSE b

\* n bytes from byte f on, enciphered from keystream position p on.
Cipher(f, p, n) == [i \in 1 .. n |-> [num |-> f + i - 1, pos |-> p + i]]
IV == [i \in 1 .. IVSize |-> [num |-> 0, pos |-> 0]]

\* What deciphering from position p on yields: 0 is a byte that came out wrong.
Decipher(bs, p) ==
    [i \in 1 .. Len(bs) |-> IF bs[i].pos = p + i THEN bs[i].num ELSE 0]

Init ==
    /\ wready = FALSE /\ wop = "idle" /\ left = 0 /\ wpos = 0
    /\ wstop = FALSE /\ accepted = 0 /\ wire = <<>> /\ up = TRUE
    /\ rready = FALSE /\ rop = "idle" /\ want = 0 /\ rpos = 0
    /\ rerr = "none" /\ got = <<>>

\* A Write on the TCP connection takes bs, or fails after some of it.
Send(bs, ok) ==
    IF ok THEN up /\ wire' = wire \o bs /\ UNCHANGED up
          ELSE /\ up' = FALSE
               /\ \E k \in 0 .. Len(bs) :
                     (up \/ k = 0) /\ wire' = wire \o SubSeq(bs, 1, k)

Call(op, n) ==
    /\ wop = "idle" /\ ~wstop /\ accepted + n <= MaxBytes
    /\ wop' = op
    /\ IF op = "write" THEN left' = n /\ accepted' = accepted + n
                       ELSE UNCHANGED <<left, accepted>>
    /\ UNCHANGED <<wready, wpos, wstop, wire, up, reader>>

InitWriter(ok) ==
    /\ wop # "idle" /\ ~wready
    /\ Send(IV, ok) /\ wready' = ok
    /\ IF ok THEN UNCHANGED <<wop, left, wstop>>
             ELSE wop' = "idle" /\ left' = 0 /\ wstop' = TRUE
    /\ UNCHANGED <<wpos, accepted, reader>>

\* One pass of Write's loop; a failed Write still moved the keystream on.
Write(ok) ==
    LET n == Least(BufSize, left) IN
    /\ wop = "write" /\ wready /\ (ok \/ left > 0)
    /\ IF left = 0 THEN UNCHANGED <<wire, up>>
                   ELSE Send(Cipher(accepted - left + 1, wpos, n), ok)
    /\ wpos' = wpos + n
    /\ left' = (IF ok THEN left - n ELSE 0)
    /\ wop' = (IF left' = 0 THEN "idle" ELSE wop)
    /\ wstop' = ~ok
    /\ UNCHANGED <<wready, accepted, reader>>

\* One pass of ReadFrom's loop.
ReadFrom(n, end, ok) ==
    /\ wop = "readFrom" /\ wready /\ n <= BufSize /\ accepted + n <= MaxBytes
    /\ Send(Cipher(accepted + 1, wpos, n), ok)
    /\ wpos' = wpos + n /\ accepted' = accepted + n
    /\ wop' = (IF end \/ ~ok THEN "idle" ELSE wop)
    /\ wstop' = ~ok
    /\ UNCHANGED <<wready, left, reader>>

CloseWriter ==
    /\ wop = "idle" /\ ~wstop
    /\ wstop' = TRUE /\ up' = FALSE
    /\ UNCHANGED <<wready, wop, left, wpos, accepted, wire, reader>>

ReadCall(op, n) ==
    /\ rop = "idle" /\ rerr = "none"
    /\ rop' = op /\ want' = (IF op = "read" THEN n ELSE BufSize)
    /\ UNCHANGED <<writer, wire, up, rready, rpos, rerr, got>>

InitReader ==
    /\ rop # "idle" /\ ~rready /\ Len(wire) >= IVSize
    /\ wire' = SubSeq(wire, IVSize + 1, Len(wire)) /\ rready' = TRUE
    /\ UNCHANGED <<writer, up, rop, want, rpos, rerr, got>>

\* Read: k bytes have arrived and are deciphered in place.
Read(k) ==
    /\ rop = "read" /\ rready /\ k <= Least(want, Len(wire)) /\ (k = 0 => want = 0)
    /\ got' = got \o Decipher(SubSeq(wire, 1, k), rpos)
    /\ wire' = SubSeq(wire, k + 1, Len(wire)) /\ rpos' = rpos + k
    /\ rop' = "idle"
    /\ UNCHANGED <<writer, up, rready, want, rerr>>

\* One pass of WriteTo's loop.  A sink that fails has taken nw of the k bytes;
\* the others are gone with the call, so its caller may not read on.
WriteTo(k, nw) ==
    /\ rop = "writeTo" /\ rready /\ k \in 1 .. Least(want, Len(wire)) /\ nw <= k
    /\ got' = got \o Decipher(SubSeq(wire, 1, nw), rpos)
    /\ wire' = SubSeq(wire, k + 1, Len(wire)) /\ rpos' = rpos + k
    /\ \/ nw = k /\ UNCHANGED <<rop, rerr>>
       \/ rop' = "idle" /\ rerr' = "sink"
    /\ UNCHANGED <<writer, up, rready, want>>

\* The end of the connection, a deadline, or an end inside the IV.
ReadError ==
    /\ rop # "idle"
    /\ \/ ~up /\ wire = <<>> /\ rerr' = "EOF"
       \/ ~up /\ ~rready /\ Len(wire) < IVSize /\ wire # <<>> /\ rerr' = "unexpected EOF"
       \/ rerr' = "timeout"
    /\ rop' = "idle"
    /\ UNCHANGED <<writer, wire, up, rready, want, rpos, got>>

Next ==
    \/ \E n \in Lens : Call("write", n) \/ ReadCall("read", n)
    \/ Call("readFrom", 0) \/ ReadCall("writeTo", 0)
    \/ \E ok \in BOOLEAN :
          \/ InitWriter(ok) \/ Write(ok)
          \/ \E n \in Lens \cup {0}, end \in BOOLEAN : ReadFrom(n, end, ok)
    \/ CloseWriter \/ InitReader \/ ReadError
    \/ \E k \in 0 .. MaxBytes : Read(k) \/ \E nw \in 0 .. k : WriteTo(k, nw)

Spec == Init /\ [][Next]_vars

\* The steps that fairness of the two callers is about.
Writes == InitWriter(TRUE) \/ Write(TRUE)
Calls  == \E n \in Lens \ {0} : ReadCall("read", n)
Reads  == InitReader \/ \E k \in 0 .. MaxBytes : Read(k) \/ WriteTo(k, k)

Stream == INSTANCE ByteStream

\* However Write, ReadFrom, Read and WriteTo are mixed, and wherever the
\* connection ends, the two keystreams stay at the same byte: what is handed
\* out is the accepted bytes, deciphered, in order.
ImplementsByteStream == Stream!Spec
=============================================================================
