----------------------------- MODULE RelayConn ------------------------------
(***************************************************************************)
(* A connection of the relay proxy (gost's relay protocol), from dial to   *)
(* its end: one goroutine writes, one reads, a relay server answers.  With *)
(* nodelay the request and its response are exchanged while dialling; else *)
(* the request waits in wbuf for the first Write and the response for the  *)
(* first Read.  UDP datagrams travel as a length and a body.  The server   *)
(* and the message formats of gost are external.                           *)
(***************************************************************************)
EXTENDS Naturals, Sequences

CONSTANTS
    Modes,      \* [udp : BOOLEAN, noDelay : BOOLEAN] connections to consider
    MaxLength,  \* math.MaxUint16: the longest datagram a length can announce
    Lens,       \* lengths of writes, of the server's replies, and of Read buffers
    MaxWrites, MaxReplies   \* bounds

RelayConnAssumption ==
    /\ Modes \subseteq [udp : BOOLEAN, noDelay : BOOLEAN]
    /\ MaxLength \in Nat /\ Lens \subseteq Nat /\ MaxWrites \in Nat /\ MaxReplies \in Nat

VARIABLES
    mode,
    phase,      \* of dialContext: "dial", "wait", "open", "failed"
    pending,    \* wbuf.Len() > 0: the request has not been written
    wpc,        \* the writing goroutine: "idle", "body", "stopped"
    lens,       \* lengths of the writes so far
    out,        \* everything written to the server, in order
    up,         \* the TCP connection is whole
    status,     \* the server's answer: "none", "ok", "refused"
    replies,    \* lengths of the server's replies so far
    in,         \* what the server sent and nobody has read
    once,       \* rc.once has run
    rpc, room,  \* the reading goroutine, and len(b) of its Read
    dlen,       \* datagram length read
    rerr, got   \* error the reader stopped at; what its Reads returned

client == <<mode, phase, pending, wpc, lens, out>>
server == <<status, replies>>
reader == <<once, rpc, room, dlen, rerr, got>>
vars   == <<client, up, server, in, reader>>

Least(a, b) == IF a <= b THEN a ELSE b
Request    == [t |-> "request", num |-> 0, len |-> 0]
Response   == [t |-> "response", num |-> 0, len |-> 0]
Length(n)  == [t |-> "length", num |-> 0, len |-> n % (MaxLength + 1)]
Body(i, n) == [t |-> "body", num |-> i, len |-> n]

Init ==
    /\ mode \in Modes /\ phase = "dial" /\ pending = FALSE
    /\ wpc = "idle" /\ lens = <<>> /\ out = <<>> /\ up = TRUE
    /\ status = "none" /\ replies = <<>> /\ in = <<>>
    /\ once = FALSE /\ rpc = "idle" /\ room = 0 /\ dlen = 0
    /\ rerr = "none" /\ got = <<>>

\* A Write on the TCP connection takes everything, or fails after a part.
Sent(units) == up /\ out' = out \o units /\ UNCHANGED up
SendFails(units) ==
    /\ up' = FALSE
    /\ \E k \in 0 .. Len(units) : (up \/ k = 0) /\ out' = out \o SubSeq(units, 1, k)

\* dialContext, the TCP connection to the server being there.
Dial ==
    /\ phase = "dial"
    /\ IF mode.noDelay
       THEN /\ \/ Sent(<<Request>>) /\ phase' = "wait"
               \/ SendFails(<<Request>>) /\ phase' = "failed"
            /\ UNCHANGED pending
       ELSE phase' = "open" /\ pending' = TRUE /\ UNCHANGED <<out, up>>
    /\ UNCHANGED <<mode, wpc, lens, server, in, reader>>

ResponseArrived == in # <<>> /\ Head(in).t = "response"

\* readRelayResponse while dialling; the deferred SafeConnClose closes on error.
DialResponse ==
    /\ phase = "wait"
    /\ IF ResponseArrived
       THEN /\ in' = Tail(in)
            /\ IF status = "ok" THEN phase' = "open" /\ UNCHANGED up
                                ELSE phase' = "failed" /\ up' = FALSE
       ELSE ~up /\ phase' = "failed" /\ UNCHANGED <<in, up>>
    /\ UNCHANGED <<mode, pending, wpc, lens, out, server, reader>>

-----------------------------------------------------------------------------
\* Mutant: the length of a datagram is written without looking at its limit.
WriteUnchecked(n) ==
    LET b == Body(Len(lens) + 1, n)
        units == (IF pending THEN <<Request>> ELSE <<>>)
                 \o (IF mode.udp THEN <<Length(n), b>> ELSE <<b>>) IN
    /\ phase = "open" /\ wpc = "idle" /\ Len(lens) < MaxWrites
    /\ lens' = Append(lens, n) /\ pending' = FALSE
    /\ Sent(units) /\ UNCHANGED <<wpc, mode, phase, server, in, reader>>

\* tcpWrite, udpWrite.  The first Write of a delayed connection sends the
\* request with its data at once; a later datagram's length goes out alone.  A
\* failed first datagram leaves its rest in wbuf, which tcpWrite resets.
Write(n) ==
    LET b == Body(Len(lens) + 1, n)
        units == CASE pending /\ mode.udp  -> <<Request, Length(n), b>>
                   [] pending /\ ~mode.udp -> <<Request, b>>
                   [] ~pending /\ mode.udp -> <<Length(n)>>
                   [] OTHER                -> <<b>> IN
    /\ phase = "open" /\ wpc = "idle" /\ Len(lens) < MaxWrites
    /\ IF mode.udp /\ n > MaxLength
       THEN wpc' = "stopped" /\ UNCHANGED <<lens, pending, out, up>>
       ELSE /\ lens' = Append(lens, n)
            /\ \/ /\ Sent(units) /\ pending' = FALSE
                  /\ wpc' = (IF mode.udp /\ ~pending THEN "body" ELSE "idle")
               \/ SendFails(units) /\ wpc' = "stopped" /\ pending' = (pending /\ mode.udp)
    /\ UNCHANGED <<mode, phase, server, in, reader>>

\* udpWrite's second Write.
WriteBody ==
    LET b == <<Body(Len(lens), lens[Len(lens)])>> IN
    /\ wpc = "body"
    /\ \/ Sent(b) /\ wpc' = "idle"
       \/ SendFails(b) /\ wpc' = "stopped"
    /\ UNCHANGED <<mode, phase, pending, lens, server, in, reader>>

-----------------------------------------------------------------------------
Answer(s) ==
    /\ up /\ status = "none" /\ out # <<>> /\ out[1] = Request
    /\ status' = s /\ in' = Append(in, Response)
    /\ UNCHANGED <<client, up, replies, reader>>

Reply(n) ==
    /\ up /\ status = "ok" /\ Len(replies) < MaxReplies
    /\ (IF mode.udp THEN n <= MaxLength ELSE n = 1)
    /\ replies' = Append(replies, n)
    /\ in' = in \o (IF mode.udp THEN <<Length(n)>> ELSE <<>>)
                \o <<Body(Len(replies) + 1, n)>>
    /\ UNCHANGED <<client, up, status, reader>>

\* The connection breaks; what was in flight is lost.
Break ==
    /\ up /\ up' = FALSE
    /\ \E k \in 0 .. Len(in) : in' = SubSeq(in, 1, k)
    /\ UNCHANGED <<client, server, reader>>

-----------------------------------------------------------------------------
\* Where Read goes once the response is out of the way.
AfterResponse == IF mode.udp THEN "length" ELSE "data"

\* Mutant: every Read of a delayed connection expects a response.
ReadAlwaysAsks(n) ==
    /\ phase = "open" /\ rpc = "idle" /\ rerr = "none"
    /\ room' = n /\ once' = TRUE
    /\ rpc' = IF ~mode.noDelay THEN "response" ELSE AfterResponse
    /\ UNCHANGED <<client, up, server, in, dlen, rerr, got>>

Read(n) ==
    /\ phase = "open" /\ rpc = "idle" /\ rerr = "none"
    /\ room' = n /\ once' = TRUE
    /\ rpc' = IF ~once /\ ~mode.noDelay THEN "response" ELSE AfterResponse
    /\ UNCHANGED <<client, up, server, in, dlen, rerr, got>>

ReadResponse ==
    /\ rpc = "response" /\ ResponseArrived
    /\ in' = Tail(in)
    /\ IF status = "ok" THEN rpc' = AfterResponse /\ UNCHANGED rerr
                        ELSE rpc' = "idle" /\ rerr' = "status"
    /\ UNCHANGED <<client, up, server, once, room, dlen, got>>

\* TCP: whatever is there, at most room bytes.
ReadData ==
    /\ rpc = "data"
    /\ \E k \in 1 .. Least(room, Len(in)) :
          /\ in' = SubSeq(in, k + 1, Len(in))
          /\ got' = got \o [i \in 1 .. k |-> [num |-> in[i].num, len |-> 1, room |-> room]]
    /\ rpc' = "idle"
    /\ UNCHANGED <<client, up, server, once, room, dlen, rerr>>

ReadLength ==
    /\ rpc = "length" /\ in # <<>>
    /\ dlen' = Head(in).len /\ in' = Tail(in) /\ rpc' = "datagram"
    /\ UNCHANGED <<client, up, server, once, room, rerr, got>>

\* Mutant: only what fits b is read off the connection.
ReadDatagramShort ==
    /\ rpc = "datagram" /\ in # <<>>
    /\ got' = Append(got, [num |-> Head(in).num, len |-> Least(room, dlen), room |-> room])
    /\ in' = (IF dlen > room THEN in ELSE Tail(in)) /\ rpc' = "idle"
    /\ UNCHANGED <<client, up, server, once, room, dlen, rerr>>

\* UDP: the whole datagram is read, into b or a pooled buffer; b gets what fits.
ReadDatagram ==
    /\ rpc = "datagram" /\ in # <<>> /\ Head(in).len = dlen
    /\ got' = Append(got, [num |-> Head(in).num, len |-> Least(room, dlen), room |-> room])
    /\ in' = Tail(in) /\ rpc' = "idle"
    /\ UNCHANGED <<client, up, server, once, room, dlen, rerr>>

ReadError ==
    /\ rpc # "idle" /\ in = <<>> /\ ~up
    /\ rpc' = "idle" /\ rerr' = "EOF"
    /\ UNCHANGED <<client, up, server, in, once, room, dlen, got>>

Next ==
    \/ Dial \/ DialResponse \/ Break
    \/ \E n \in Lens : Write(n) \/ Reply(n)
    \/ \E n \in Lens \ {0} : Read(n)
    \/ WriteBody \/ \E s \in {"ok", "refused"} : Answer(s)
    \/ ReadResponse \/ ReadData \/ ReadLength \/ ReadDatagram \/ ReadError

Spec == Init /\ [][Next]_vars

\* The steps of fairness: dialling, the server's answer to a request it has, and
\* the relay's copy loop, which keeps reading.
Dials   == Dial \/ DialResponse
Answers == \E s \in {"ok", "refused"} : Answer(s)
Reads ==
    \/ \E n \in Lens \ {0} : Read(n)
    \/ ReadResponse \/ ReadData \/ ReadLength \/ ReadDatagram \/ ReadError

-----------------------------------------------------------------------------

\* The server can parse what it is sent, however long the writes and wherever
\* the request waited: the request once and first, then every write's bytes in
\* order, a datagram's body directly behind its true length.
StreamParses ==
    \A i \in DOMAIN out :
        /\ (out[i] = Request) <=> (i = 1)
        /\ out[i].t = "body" /\ mode.udp =>
               i > 1 /\ out[i - 1].t = "length" /\ out[i - 1].len = out[i].len
        /\ out[i].t = "body" => out[i].len = lens[out[i].num]
        /\ \A j \in 1 .. i - 1 : out[i].t = "body" => out[j].num < out[i].num

\* What the reader is given is the server's replies in order, each datagram cut
\* to the reader's buffer and the rest of it gone; never the server's response,
\* and nothing at all over a connection the server refused: the status of a
\* response that waited for the first Read is looked at all the same.
RepliesInOrder ==
    /\ \A i \in DOMAIN got :
           /\ got[i].num = i
           /\ got[i].len = (IF mode.udp THEN Least(got[i].room, replies[i]) ELSE 1)
    /\ status = "refused" => rpc \in {"idle", "response"} /\ got = <<>>

\* A reply reaches the reader, unless the connection ends or is refused: the
\* response is read by whoever must, exactly once.
RepliesArrive ==
    \A k \in 1 .. MaxReplies :
        Len(replies) >= k ~> (Len(got) >= k \/ ~up)
=============================================================================
