-------------------------- MODULE AeadStreamProofs --------------------------
(***************************************************************************)
(* Proofs about AeadStream for records, nonces and calls of every size and *)
(* streams of any length.  The pieces on the wire form a chain, each one   *)
(* what the reader expects behind the one before it (Follows); the first   *)
(* piece is what the reader expects now, and the piece the writer would    *)
(* seal next continues the chain.                                          *)
(***************************************************************************)
EXTENDS AeadStream, Integers, TLAPS

\* q is what a reader that has opened p expects next.
Follows(p, q) ==
    /\ p.kind = "salt" => q.kind = "len" /\ q.nonce = 0 /\ q.first = p.first
    /\ p.kind = "len" /\ p.size # 0 =>
           /\ q.kind = "data" /\ q.nonce = Increment(p.nonce)
           /\ q.first = p.first /\ q.size = p.size
    /\ p.kind = "data" =>
           q.kind = "len" /\ q.nonce = Increment(p.nonce) /\ q.first = p.first + p.size

Chain(w) == \A i \in 1 .. Len(w) : \A j \in 1 .. Len(w) : j = i + 1 => Follows(w[i], w[j])
Within(w, n) == \A i \in 1 .. Len(w) : w[i].first + w[i].size <= n + 1

\* q is what the reader expects now.
Expected(q) ==
    /\ ~rready => q.kind = "salt" /\ q.first = 1
    /\ rready /\ rpc = "data" =>
           q.kind = "data" /\ q.nonce = rnonce /\ q.size = size /\ q.first = Len(got) + 1
    /\ rready /\ rpc # "data" =>
           q.kind = "len" /\ q.nonce = rnonce /\ q.first = Len(got) + buf.len + 1

\* The piece the writer seals next, up to its size.
NextPiece == IF wready THEN Sealed("len", wnonce, accepted - left + 1, 0) ELSE Salt

PlaceInv ==
    /\ rpc # "idle" => rerr = "none"
    /\ rpc \in {"salt", "len", "data"} => buf.len = 0
    /\ rpc = "salt" => ~rready
    /\ rpc \in {"len", "data", "copy"} => rready
    /\ ~rready => rnonce = 0 /\ Len(got) = 0 /\ buf.len = 0
    /\ rerr # "open"
    /\ wop # "write" => left = 0
    /\ wop # "idle" => ~wstop
    /\ left <= accepted
    /\ ~wready /\ ~wstop => wire = <<>> /\ wnonce = 0 /\ accepted = left

ByteInv ==
    /\ buf.first = Len(got) + 1 /\ Len(got) + buf.len <= accepted
    /\ \A i \in 1 .. Len(got) : got[i] = i

WireInv ==
    /\ Chain(wire) /\ Within(wire, accepted)
    /\ rerr = "none" /\ wire # <<>> => Expected(wire[1])

LastInv ==
    ~wstop => /\ wire # <<>> => Follows(wire[Len(wire)], NextPiece)
              /\ wire = <<>> /\ rerr = "none" => Expected(NextPiece)

IInv == TypeOK /\ PlaceInv /\ ByteInv /\ WireInv /\ LastInv

\* The empty sequence.
LEMMA EmptyFacts == ASSUME NEW S PROVE <<>> \in Seq(S) /\ Len(<<>>) = 0
  OBVIOUS

LEMMA InitInv == Init => IInv
  <1> SUFFICES ASSUME Init PROVE IInv
    OBVIOUS
  <1>1. wire \in Seq(Piece) /\ got \in Seq(Nat) /\ Len(wire) = 0 /\ Len(got) = 0
    BY EmptyFacts DEF Init
  <1>2. TypeOK
    <2>1. /\ wready \in BOOLEAN /\ wstop \in BOOLEAN /\ up \in BOOLEAN /\ rready \in BOOLEAN
          /\ buf \in [first : Nat, len : Nat]
      BY Zenon DEF Init
    <2>2. /\ wop = "idle" /\ left = 0 /\ wnonce = 0 /\ accepted = 0 /\ rpc = "idle"
          /\ rop = "read" /\ want = 0 /\ rnonce = 0 /\ size = 0 /\ rerr = "none"
      BY DEF Init
    <2> QED
      BY <1>1, <2>1, <2>2 DEF TypeOK
  <1>3. PlaceInv /\ ByteInv
    BY <1>1 DEF Init, PlaceInv, ByteInv
  <1>4. WireInv
    BY <1>1 DEF Init, WireInv, Chain, Within
  <1>5. LastInv
    BY <1>1 DEF Init, LastInv, NextPiece, Salt, Expected
  <1> QED
    BY <1>2, <1>3, <1>4, <1>5 DEF IInv

LEMMA IncrementNat == \A n \in Nat : Increment(n) \in Nat
  BY StreamAssumption DEF Increment

\* Pieces are records, and Follows and Expected look at four of their fields.
Alike(p, q) == p.kind = q.kind /\ p.nonce = q.nonce /\ p.first = q.first /\ p.size = q.size

\* A chain continued by a chain.
LEMMA ConcatChain ==
    ASSUME NEW w \in Seq(Piece), NEW ps \in Seq(Piece), NEW n \in Nat,
           Chain(w), Chain(ps), Within(w, n), Within(ps, n), ps # <<>>,
           w # <<>> => Follows(w[Len(w)], ps[1])
    PROVE  /\ w \o ps \in Seq(Piece) /\ w \o ps # <<>>
           /\ Chain(w \o ps) /\ Within(w \o ps, n)
           /\ (w \o ps)[Len(w \o ps)] = ps[Len(ps)]
           /\ (w \o ps)[1] = IF w = <<>> THEN ps[1] ELSE w[1]
  <1> DEFINE v == w \o ps
  <1>1. /\ v \in Seq(Piece) /\ Len(v) = Len(w) + Len(ps) /\ Len(w) \in Nat /\ Len(ps) \in Nat
        /\ \A i \in 1 .. Len(w) : v[i] = w[i]
        /\ \A i \in 1 .. Len(ps) : v[Len(w) + i] = ps[i]
    OBVIOUS
  <1>2. Len(ps) >= 1 /\ (w = <<>> <=> Len(w) = 0)
    BY <1>1
  <1> HIDE DEF v
  <1>3. \A i \in 1 .. Len(v) : i > Len(w) => i - Len(w) \in 1 .. Len(ps) /\ v[i] = ps[i - Len(w)]
    <2> TAKE i \in 1 .. Len(v)
    <2> HAVE i > Len(w)
    <2>1. i - Len(w) \in 1 .. Len(ps) /\ Len(w) + (i - Len(w)) = i
      BY <1>1
    <2> QED
      BY <1>1, <2>1
  <1>4. Chain(v)
    <2> SUFFICES ASSUME NEW i \in 1 .. Len(v), NEW j \in 1 .. Len(v), j = i + 1
                 PROVE  Follows(v[i], v[j])
      BY DEF Chain
    <2>1. CASE j <= Len(w)
      <3>1. i \in 1 .. Len(w) /\ j \in 1 .. Len(w)
        BY <1>1, <2>1
      <3>2. v[i] = w[i] /\ v[j] = w[j]
        BY <1>1, <3>1
      <3> QED
        BY <3>1, <3>2 DEF Chain
    <2>2. CASE i = Len(w)
      <3>1. w # <<>> /\ i \in 1 .. Len(w) /\ v[i] = w[Len(w)]
        BY <1>1, <1>2, <2>2
      <3>2. 1 \in 1 .. Len(ps) /\ j = Len(w) + 1
        BY <1>1, <1>2, <2>2
      <3>3. v[j] = ps[1]
        BY <1>1, <3>2
      <3> QED
        BY <3>1, <3>3
    <2>3. CASE i > Len(w)
      <3>1. i - Len(w) \in 1 .. Len(ps) /\ v[i] = ps[i - Len(w)]
        BY <1>3, <2>3
      <3>2. j - Len(w) \in 1 .. Len(ps) /\ v[j] = ps[j - Len(w)]
        BY <1>1, <1>3, <2>3
      <3>3. j - Len(w) = (i - Len(w)) + 1
        BY <1>1
      <3> QED
        BY <3>1, <3>2, <3>3 DEF Chain
    <2> QED
      BY <1>1, <2>1, <2>2, <2>3
  <1>5. Within(v, n)
    <2> SUFFICES ASSUME NEW i \in 1 .. Len(v) PROVE v[i].first + v[i].size <= n + 1
      BY DEF Within
    <2>1. CASE i <= Len(w)
      <3>1. i \in 1 .. Len(w) /\ v[i] = w[i]
        BY <1>1, <2>1
      <3> QED
        BY <3>1 DEF Within
    <2>2. CASE i > Len(w)
      BY <1>3, <2>2, Zenon DEF Within
    <2> QED
      BY <1>1, <2>1, <2>2
  <1>6. v[Len(v)] = ps[Len(ps)] /\ v # <<>>
    <2>1. Len(ps) \in 1 .. Len(ps) /\ Len(v) = Len(w) + Len(ps)
      BY <1>1, <1>2
    <2> QED
      BY <1>1, <2>1
  <1>7. v[1] = IF w = <<>> THEN ps[1] ELSE w[1]
    <2>1. CASE w = <<>>
      <3>1. 1 \in 1 .. Len(ps) /\ Len(w) + 1 = 1
        BY <1>1, <1>2, <2>1
      <3> QED
        BY <1>1, <2>1, <3>1
    <2>2. CASE w # <<>>
      <3>1. 1 \in 1 .. Len(w)
        BY <1>1, <1>2, <2>2
      <3> QED
        BY <1>1, <2>2, <3>1
    <2> QED
      BY <2>1, <2>2
  <1> QED
    BY <1>1, <1>4, <1>5, <1>6, <1>7 DEF v

\* A chain without its first piece.
LEMMA TailChain ==
    ASSUME NEW w \in Seq(Piece), NEW n \in Nat, w # <<>>, Chain(w), Within(w, n)
    PROVE  /\ Tail(w) \in Seq(Piece) /\ Chain(Tail(w)) /\ Within(Tail(w), n)
           /\ Head(w) = w[1] /\ w[1] \in Piece /\ w[1].first + w[1].size <= n + 1
           /\ Tail(w) # <<>> => /\ Follows(w[1], Tail(w)[1])
                                /\ Tail(w)[Len(Tail(w))] = w[Len(w)]
           /\ Tail(w) = <<>> => w[Len(w)] = w[1]
  <1> DEFINE t == Tail(w)
  <1>1. /\ t \in Seq(Piece) /\ Len(w) \in Nat \ {0} /\ Len(t) = Len(w) - 1
        /\ Head(w) = w[1] /\ w[1] \in Piece
        /\ \A i \in 1 .. Len(t) : t[i] = w[i + 1]
    OBVIOUS
  <1>2. t = <<>> <=> Len(t) = 0
    BY <1>1
  <1> HIDE DEF t
  <1>3. Chain(t)
    <2> SUFFICES ASSUME NEW i \in 1 .. Len(t), NEW j \in 1 .. Len(t), j = i + 1
                 PROVE  Follows(t[i], t[j])
      BY DEF Chain
    <2>1. /\ i + 1 \in 1 .. Len(w) /\ j + 1 \in 1 .. Len(w) /\ j + 1 = (i + 1) + 1
          /\ t[i] = w[i + 1] /\ t[j] = w[j + 1]
      BY <1>1
    <2> QED
      BY <2>1 DEF Chain
  <1>4. Within(t, n)
    <2> SUFFICES ASSUME NEW i \in 1 .. Len(t) PROVE t[i].first + t[i].size <= n + 1
      BY DEF Within
    <2>1. i + 1 \in 1 .. Len(w) /\ t[i] = w[i + 1]
      BY <1>1
    <2> QED
      BY <2>1 DEF Within
  <1>5. w[1].first + w[1].size <= n + 1
    BY <1>1 DEF Within
  <1>6. ASSUME t # <<>> PROVE Follows(w[1], t[1]) /\ t[Len(t)] = w[Len(w)]
    <2>1. 1 \in 1 .. Len(w) /\ 2 \in 1 .. Len(w) /\ 1 \in 1 .. Len(t) /\ Len(t) \in 1 .. Len(t)
      BY <1>1, <1>2, <1>6
    <2>2. t[1] = w[2] /\ t[Len(t)] = w[Len(w)]
      BY <1>1, <2>1
    <2> QED
      BY <2>1, <2>2 DEF Chain
  <1>7. t = <<>> => w[Len(w)] = w[1]
    <2>1. t = <<>> => Len(w) = 1
      BY <1>1, <1>2
    <2> QED
      BY <2>1, Zenon
  <1> QED
    BY <1>1, <1>3, <1>4, <1>5, <1>6, <1>7 DEF t

\* A function on 1 .. j is a sequence.
LEMMA FunctionSeq == ASSUME NEW S, NEW j \in Nat, NEW c \in [1 .. j -> S] PROVE c \in Seq(S)
  OBVIOUS

\* The first j pieces of a chain, the last of them cut.
LEMMA CutFacts ==
    ASSUME NEW ps \in Seq(Piece), NEW j \in 1 .. Len(ps), NEW n \in Nat, NEW c,
           c = [SubSeq(ps, 1, j) EXCEPT ![j].whole = FALSE],
           Chain(ps), Within(ps, n)
    PROVE  /\ c \in Seq(Piece) /\ c # <<>> /\ Chain(c) /\ Within(c, n) /\ Alike(c[1], ps[1])
  <1> DEFINE s == SubSeq(ps, 1, j)
  <1>1. s \in Seq(Piece) /\ Len(s) = j /\ \A i \in 1 .. j : s[i] = ps[i]
    OBVIOUS
  <1>2. j \in Nat /\ j >= 1 /\ Len(ps) \in Nat /\ j <= Len(ps)
    OBVIOUS
  <1> HIDE DEF s
  <1>3. s \in [1 .. j -> Piece]
    BY <1>1
  <1>4. c = [s EXCEPT ![j] = [s[j] EXCEPT !.whole = FALSE]]
    BY DEF s
  <1>5. [s[j] EXCEPT !.whole = FALSE] \in Piece /\ Alike([s[j] EXCEPT !.whole = FALSE], s[j])
    <2>1. s[j] \in Piece
      BY <1>2, <1>3
    <2> QED
      BY <2>1, Zenon DEF Piece, Alike
  <1>6. c \in [1 .. j -> Piece]
    BY <1>3, <1>4, <1>5, Zenon
  <1>7. c \in Seq(Piece) /\ Len(c) = j
    <2>1. c \in Seq(Piece)
      BY <1>2, <1>6, FunctionSeq, Zenon
    <2>2. Len(c) \in Nat /\ DOMAIN c = 1 .. Len(c) /\ DOMAIN c = 1 .. j
      BY <1>6, <2>1
    <2>3. ASSUME NEW a \in Nat, 1 .. a = 1 .. j PROVE a = j
      <3>1. j \in 1 .. a /\ (a >= 1 => a \in 1 .. j)
        BY <1>2, <2>3
      <3> QED
        BY <1>2, <3>1
    <2> QED
      BY <2>1, <2>2, <2>3, Zenon
  <1>8. \A i \in 1 .. j : Alike(c[i], ps[i]) /\ i \in 1 .. Len(ps)
    <2> TAKE i \in 1 .. j
    <2>1. CASE i = j
      BY <1>1, <1>2, <1>3, <1>4, <1>5, <2>1, Zenon
    <2>2. CASE i # j
      BY <1>1, <1>2, <1>3, <1>4, <2>2 DEF Alike
    <2> QED
      BY <2>1, <2>2, Zenon
  <1>9. Chain(c)
    <2> SUFFICES ASSUME NEW i \in 1 .. Len(c), NEW k \in 1 .. Len(c), k = i + 1
                 PROVE  Follows(c[i], c[k])
      BY Zenon DEF Chain
    <2>1. i \in 1 .. j /\ k \in 1 .. j
      BY <1>7
    <2>2. Follows(ps[i], ps[k]) /\ Alike(c[i], ps[i]) /\ Alike(c[k], ps[k])
      BY <1>8, <2>1, Zenon DEF Chain
    <2> QED
      BY <2>2 DEF Follows, Alike
  <1>10. Within(c, n)
    BY <1>7, <1>8 DEF Within, Alike
  <1>11. c # <<>> /\ 1 \in 1 .. j
    BY <1>2, <1>7
  <1> QED
    BY <1>7, <1>8, <1>9, <1>10, <1>11, Zenon

\* Sending a chain that continues the one on the wire, whole or cut short.
LEMMA SendFacts ==
    ASSUME NEW ps \in Seq(Piece), NEW n \in Nat, ps # <<>>, Chain(ps), Within(ps, n),
           wire \in Seq(Piece), Chain(wire), Within(wire, n), up \in BOOLEAN,
           wire # <<>> => Follows(wire[Len(wire)], ps[1]),
           Sent(ps) \/ SendFails(ps)
    PROVE  /\ wire' \in Seq(Piece) /\ Chain(wire') /\ Within(wire', n) /\ up' \in BOOLEAN
           /\ wire # <<>> => wire' # <<>> /\ wire'[1] = wire[1]
           /\ wire = <<>> /\ wire' # <<>> => Alike(wire'[1], ps[1])
           /\ Sent(ps) => wire' # <<>> /\ wire'[Len(wire')] = ps[Len(ps)]
  <1>1. CASE Sent(ps)
    <2>1. wire' = wire \o ps /\ up' \in BOOLEAN
      BY <1>1 DEF Sent
    <2>2. /\ wire \o ps \in Seq(Piece) /\ wire \o ps # <<>>
          /\ Chain(wire \o ps) /\ Within(wire \o ps, n)
          /\ (wire \o ps)[Len(wire \o ps)] = ps[Len(ps)]
          /\ (wire \o ps)[1] = IF wire = <<>> THEN ps[1] ELSE wire[1]
      BY ConcatChain
    <2> QED
      BY <2>1, <2>2 DEF Alike
  <1>2. CASE UNCHANGED wire /\ up' = FALSE /\ ~Sent(ps)
    BY <1>2, Zenon
  <1>3. CASE ~Sent(ps) /\ ~UNCHANGED wire
    <2>1. PICK j \in 1 .. Len(ps) :
             wire' = wire \o [SubSeq(ps, 1, j) EXCEPT ![j].whole = FALSE]
      BY <1>3, Zenon DEF SendFails
    <2> DEFINE c == [SubSeq(ps, 1, j) EXCEPT ![j].whole = FALSE]
    <2>2. wire' = wire \o c /\ up' \in BOOLEAN
      BY <1>3, <2>1, Zenon DEF SendFails
    <2>3. c \in Seq(Piece) /\ c # <<>> /\ Chain(c) /\ Within(c, n) /\ Alike(c[1], ps[1])
      BY <2>1, CutFacts, Zenon
    <2> HIDE DEF c
    <2>4. wire # <<>> => Follows(wire[Len(wire)], c[1])
      BY <2>3 DEF Follows, Alike
    <2>5. /\ wire \o c \in Seq(Piece) /\ wire \o c # <<>>
          /\ Chain(wire \o c) /\ Within(wire \o c, n)
          /\ (wire \o c)[1] = IF wire = <<>> THEN c[1] ELSE wire[1]
      BY <2>3, <2>4, ConcatChain
    <2> QED
      BY <1>3, <2>2, <2>3, <2>5
  <1> QED
    BY <1>1, <1>2, <1>3, Zenon DEF SendFails

LEMMA WithinMonotonic ==
    ASSUME NEW w \in Seq(Piece), NEW m \in Nat, NEW n \in Nat, m <= n, Within(w, m)
    PROVE  Within(w, n)
  <1> SUFFICES ASSUME NEW i \in 1 .. Len(w) PROVE w[i].first + w[i].size <= n + 1
    BY DEF Within
  <1>1. w[i] \in Piece
    OBVIOUS
  <1>2. w[i].first \in Nat /\ w[i].size \in Nat
    BY <1>1 DEF Piece
  <1>3. w[i].first + w[i].size <= m + 1
    BY DEF Within
  <1> QED
    BY <1>2, <1>3

\* The writer sends pieces that start with the next one.
LEMMA PutInv ==
    ASSUME IInv, NEW ps \in Seq(Piece), ps # <<>>, Chain(ps), Within(ps, accepted'),
           accepted' \in Nat, accepted' >= accepted, ~wstop,
           ps[1].kind = NextPiece.kind, ps[1].nonce = NextPiece.nonce,
           ps[1].first = NextPiece.first,
           UNCHANGED reader, Sent(ps) \/ SendFails(ps)
    PROVE  /\ wire' \in Seq(Piece) /\ up' \in BOOLEAN /\ WireInv'
           /\ Sent(ps) => wire' # <<>> /\ wire'[Len(wire')] = ps[Len(ps)]
  <1>1. NextPiece.kind \in {"salt", "len"}
    BY DEF NextPiece, Sealed, Salt
  <1>2. wire # <<>> => Follows(wire[Len(wire)], ps[1])
    BY <1>1 DEF IInv, LastInv, Follows
  <1>3. wire = <<>> /\ rerr = "none" => Expected(ps[1])
    BY <1>1 DEF IInv, LastInv, Expected
  <1>4. Within(wire, accepted')
    <2>1. wire \in Seq(Piece) /\ Within(wire, accepted) /\ accepted \in Nat
      BY Zenon DEF IInv, TypeOK, WireInv
    <2> QED
      BY <2>1, WithinMonotonic
  <1>5. wire \in Seq(Piece) /\ Chain(wire) /\ up \in BOOLEAN
    BY Zenon DEF IInv, TypeOK, WireInv
  <1>6. /\ wire' \in Seq(Piece) /\ Chain(wire') /\ Within(wire', accepted') /\ up' \in BOOLEAN
        /\ wire # <<>> => wire' # <<>> /\ wire'[1] = wire[1]
        /\ wire = <<>> /\ wire' # <<>> => Alike(wire'[1], ps[1])
        /\ Sent(ps) => wire' # <<>> /\ wire'[Len(wire')] = ps[Len(ps)]
    BY <1>2, <1>4, <1>5, SendFacts
  <1>7. rerr = "none" /\ wire' # <<>> => Expected(wire'[1])
    <2>1. CASE wire # <<>>
      BY <1>6, <2>1 DEF IInv, WireInv
    <2>2. CASE wire = <<>>
      BY <1>3, <1>6, <2>2 DEF Alike, Expected
    <2> QED
      BY <2>1, <2>2
  <1>8. (rerr = "none" /\ wire # <<>> => Expected(wire[1]))'
    BY <1>7 DEF Expected, reader
  <1> QED
    BY <1>6, <1>8 DEF WireInv

\* The three kinds of output: the salt, an empty length, a record.
LEMMA SealedPiece ==
    ASSUME NEW k \in Kinds, NEW nonce \in Nat, NEW f \in Nat, NEW n \in Nat
    PROVE  Sealed(k, nonce, f, n) \in Piece
  BY DEF Sealed, Piece

LEMMA OneChain ==
    ASSUME NEW p \in Piece, NEW n \in Nat, p.first + p.size <= n + 1
    PROVE  <<p>> \in Seq(Piece) /\ <<p>> # <<>> /\ Chain(<<p>>) /\ Within(<<p>>, n)
  BY DEF Chain, Within

LEMMA RecordChain ==
    ASSUME NEW nonce \in Nat, NEW f \in Nat, NEW s \in Nat, NEW n \in Nat, f + s <= n + 1
    PROVE  /\ Record(nonce, f, s) \in Seq(Piece) /\ Record(nonce, f, s) # <<>>
           /\ Chain(Record(nonce, f, s)) /\ Within(Record(nonce, f, s), n)
           /\ Record(nonce, f, s)[1] = Sealed("len", nonce, f, s)
           /\ Record(nonce, f, s)[Len(Record(nonce, f, s))] = Sealed("data", Increment(nonce), f, s)
  <1> DEFINE p == Sealed("len", nonce, f, s)
             q == Sealed("data", Increment(nonce), f, s)
             r == Record(nonce, f, s)
  <1>1. p \in Piece /\ q \in Piece
    BY SealedPiece, IncrementNat DEF Kinds
  <1>2. Follows(p, q) /\ p.first + p.size <= n + 1 /\ q.first + q.size <= n + 1
    BY DEF Follows, Sealed
  <1>3. r = <<p, q>>
    BY DEF Record
  <1> HIDE DEF p, q, r
  <1>4. r \in Seq(Piece) /\ Len(r) = 2 /\ r[1] = p /\ r[2] = q
    BY <1>1, <1>3
  <1>5. Chain(r)
    <2> SUFFICES ASSUME NEW i \in 1 .. Len(r), NEW j \in 1 .. Len(r), j = i + 1
                 PROVE  Follows(r[i], r[j])
      BY DEF Chain
    <2>1. i = 1 /\ j = 2
      BY <1>4
    <2> QED
      BY <1>2, <1>4, <2>1
  <1>6. Within(r, n)
    <2> SUFFICES ASSUME NEW i \in 1 .. Len(r) PROVE r[i].first + r[i].size <= n + 1
      BY DEF Within
    <2>1. i = 1 \/ i = 2
      BY <1>4
    <2> QED
      BY <1>2, <1>4, <2>1
  <1>7. r # <<>> /\ r[Len(r)] = q
    BY <1>4
  <1> QED
    BY <1>4, <1>5, <1>6, <1>7 DEF p, q, r

\* What a step of the writer cannot disturb.
LEMMA WriterKeeps ==
    ASSUME IInv, UNCHANGED reader, accepted' \in Nat, accepted' >= accepted,
           wready' \in BOOLEAN, wop' \in {"idle", "write", "readFrom"}, left' \in Nat,
           wnonce' \in Nat, wstop' \in BOOLEAN, wire' \in Seq(Piece), up' \in BOOLEAN
    PROVE  TypeOK' /\ ByteInv'
  <1>1. TypeOK'
    BY Zenon DEF IInv, TypeOK, reader
  <1>2. ByteInv'
    <2>1. Len(got) \in Nat /\ buf.len \in Nat /\ accepted \in Nat
      <3>1. got \in Seq(Nat) /\ buf \in [first : Nat, len : Nat] /\ accepted \in Nat
        BY Zenon DEF IInv, TypeOK
      <3> QED
        BY <3>1
    <2> QED
      BY <2>1 DEF IInv, ByteInv, reader
  <1> QED
    BY <1>1, <1>2

LEMMA WriterInv == ASSUME IInv, WriterNext PROVE IInv'
  <1> USE DEF IInv
  <1>t. /\ accepted \in Nat /\ left \in Nat /\ wnonce \in Nat /\ left <= accepted
        /\ wready \in BOOLEAN /\ wstop \in BOOLEAN /\ up \in BOOLEAN /\ wire \in Seq(Piece)
        /\ wop \in {"idle", "write", "readFrom"}
    BY Zenon DEF TypeOK, PlaceInv
  <1>n. Increment(wnonce) \in Nat /\ Increment(Increment(wnonce)) \in Nat
    BY <1>t, IncrementNat
  <1>1. ASSUME NEW n \in Lens, Write(n) PROVE IInv'
    <2>1. /\ n \in Nat /\ left = 0 /\ left' = n /\ accepted' = accepted + n /\ wop' = "write"
          /\ UNCHANGED <<wready, wnonce, wstop, wire, up, reader>> /\ ~wstop
      BY <1>1, StreamAssumption DEF Write, PlaceInv
    <2>w. /\ accepted' \in Nat /\ accepted' >= accepted /\ wop' \in {"idle", "write", "readFrom"}
          /\ left' \in Nat /\ wnonce' \in Nat
      BY <1>t, <2>1
    <2>b. wready' \in BOOLEAN /\ wstop' \in BOOLEAN
      BY <1>t, <2>1, Zenon
    <2>2. TypeOK' /\ ByteInv'
      BY <1>t, <2>1, <2>w, <2>b, WriterKeeps
    <2>3. PlaceInv'
      BY <1>t, <2>1 DEF PlaceInv, reader
    <2>4. WireInv'
      <3>1. Within(wire, accepted + n)
        BY <1>t, <2>1, WithinMonotonic DEF WireInv
      <3> QED
        BY <2>1, <3>1 DEF WireInv, Expected, reader
    <2>5. NextPiece' = NextPiece
      BY <1>t, <2>1 DEF NextPiece
    <2>6. LastInv'
      BY <2>1, <2>5 DEF LastInv, Expected, reader
    <2> QED
      BY <2>2, <2>3, <2>4, <2>6
  <1>2. CASE ReadFrom
    <2>1. wop' = "readFrom" /\ UNCHANGED <<wready, left, wnonce, wstop, accepted, wire, up, reader>>
          /\ left = 0 /\ ~wstop
      BY <1>2 DEF ReadFrom, PlaceInv
    <2>w. /\ accepted' \in Nat /\ accepted' >= accepted /\ wop' \in {"idle", "write", "readFrom"}
          /\ left' \in Nat /\ wnonce' \in Nat
      BY <1>t, <2>1
    <2>b. wready' \in BOOLEAN /\ wstop' \in BOOLEAN
      BY <1>t, <2>1, Zenon
    <2>2. TypeOK' /\ ByteInv'
      BY <1>t, <2>1, <2>w, <2>b, WriterKeeps
    <2>3. PlaceInv'
      BY <2>1 DEF PlaceInv, reader
    <2>4. WireInv'
      BY <2>1 DEF WireInv, Expected, reader
    <2>5. LastInv'
      BY <2>1 DEF LastInv, NextPiece, Expected, reader
    <2> QED
      BY <2>2, <2>3, <2>4, <2>5
  <1>3. CASE CloseWriter
    <2>1. /\ wstop' = TRUE /\ up' = FALSE
          /\ UNCHANGED <<wready, wop, left, wnonce, accepted, wire, reader>> /\ wop = "idle"
      BY <1>3 DEF CloseWriter
    <2>w. /\ accepted' \in Nat /\ accepted' >= accepted /\ wop' \in {"idle", "write", "readFrom"}
          /\ left' \in Nat /\ wnonce' \in Nat
      BY <1>t, <2>1
    <2>b. wready' \in BOOLEAN /\ wstop' \in BOOLEAN
      BY <1>t, <2>1, Zenon
    <2>2. TypeOK' /\ ByteInv'
      BY <1>t, <2>1, <2>w, <2>b, WriterKeeps, Zenon
    <2>3. PlaceInv'
      BY <2>1 DEF PlaceInv, reader
    <2>4. WireInv'
      BY <2>1 DEF WireInv, Expected, reader
    <2>5. LastInv'
      BY <2>1 DEF LastInv
    <2> QED
      BY <2>2, <2>3, <2>4, <2>5
  <1>4. CASE InitWriter
    <2>1. /\ wnonce' = wnonce /\ accepted' = accepted /\ UNCHANGED reader /\ ~wready /\ ~wstop
          /\ wop \in {"write", "readFrom"} /\ wire = <<>> /\ wnonce = 0 /\ accepted = left
      BY <1>4 DEF InitWriter, PlaceInv
    <2>2. \/ Sent(<<Salt>>) /\ wready' = TRUE /\ UNCHANGED <<wop, wstop, left>>
          \/ /\ SendFails(<<Salt>>)
             /\ wop' = "idle" /\ wstop' = TRUE /\ left' = 0 /\ UNCHANGED wready
      BY <1>4 DEF InitWriter
    <2>3. Salt \in Piece /\ Salt.first + Salt.size <= accepted + 1
      BY <1>t DEF Salt, Piece, Kinds
    <2>4. <<Salt>> \in Seq(Piece) /\ <<Salt>> # <<>> /\ Chain(<<Salt>>) /\ Within(<<Salt>>, accepted')
      BY <1>t, <2>1, <2>3, OneChain
    <2>5. <<Salt>>[1] = NextPiece /\ <<Salt>>[Len(<<Salt>>)] = Salt
      BY <2>1 DEF NextPiece
    <2>6. /\ wire' \in Seq(Piece) /\ up' \in BOOLEAN /\ WireInv'
          /\ Sent(<<Salt>>) => wire' # <<>> /\ wire'[Len(wire')] = Salt
      BY <1>t, <2>1, <2>2, <2>4, <2>5, PutInv, Zenon
    <2>7. TypeOK' /\ ByteInv'
      BY <1>t, <2>1, <2>2, <2>6, WriterKeeps, Zenon
    <2>8. PlaceInv'
      BY <1>t, <2>1, <2>2 DEF PlaceInv, reader
    <2>9. LastInv'
      <3>1. CASE Sent(<<Salt>>) /\ wready' = TRUE /\ UNCHANGED <<wop, wstop, left>>
        <4>1. NextPiece' = Sealed("len", 0, 1, 0)
          BY <1>t, <2>1, <3>1 DEF NextPiece
        <4>2. Follows(Salt, Sealed("len", 0, 1, 0))
          BY DEF Follows, Salt, Sealed
        <4> QED
          BY <2>6, <3>1, <4>1, <4>2 DEF LastInv
      <3>2. CASE wstop' = TRUE
        BY <3>2 DEF LastInv
      <3> QED
        BY <2>2, <3>1, <3>2, Zenon
    <2> QED
      BY <2>6, <2>7, <2>8, <2>9
  <1>5. CASE WriteEmpty
    <2> DEFINE e == Sealed("len", wnonce, accepted + 1, 0)
    <2>1. /\ wnonce' = Increment(wnonce) /\ wop' = "idle" /\ wop = "write" /\ wready /\ left = 0
          /\ ~wstop /\ UNCHANGED <<wready, left, accepted, reader>>
      BY <1>5 DEF WriteEmpty, PlaceInv
    <2>2. \/ Sent(<<e>>) /\ UNCHANGED wstop
          \/ SendFails(<<e>>) /\ wstop' = TRUE
      BY <1>5 DEF WriteEmpty
    <2>3. e \in Piece /\ e.first + e.size <= accepted + 1
      BY <1>t DEF Sealed, Piece, Kinds
    <2>4. NextPiece = e
      BY <1>t, <2>1 DEF NextPiece
    <2>5. \A q : Follows(e, q)
      BY DEF Follows, Sealed
    <2> HIDE DEF e
    <2>6. <<e>> \in Seq(Piece) /\ <<e>> # <<>> /\ Chain(<<e>>) /\ Within(<<e>>, accepted')
      BY <1>t, <2>1, <2>3, OneChain, Zenon
    <2>7. <<e>>[1] = NextPiece /\ <<e>>[Len(<<e>>)] = e
      BY <2>4
    <2>8. /\ wire' \in Seq(Piece) /\ up' \in BOOLEAN /\ WireInv'
          /\ Sent(<<e>>) => wire' # <<>> /\ wire'[Len(wire')] = e
      <3>1. /\ accepted' \in Nat /\ accepted' >= accepted /\ UNCHANGED reader
            /\ <<e>>[1].kind = NextPiece.kind /\ <<e>>[1].nonce = NextPiece.nonce
            /\ <<e>>[1].first = NextPiece.first /\ (Sent(<<e>>) \/ SendFails(<<e>>))
        BY <1>t, <2>1, <2>2, <2>7
      <3> QED
        BY <2>1, <2>6, <2>7, <3>1, PutInv, Zenon
    <2>w. /\ accepted' \in Nat /\ accepted' >= accepted /\ wop' \in {"idle", "write", "readFrom"}
          /\ left' \in Nat /\ wnonce' \in Nat
      BY <1>t, <1>n, <2>1, <2>2
    <2>b. wready' \in BOOLEAN /\ wstop' \in BOOLEAN
      BY <1>t, <1>n, <2>1, <2>2, Zenon
    <2>9. TypeOK' /\ ByteInv'
      BY <2>1, <2>8, <2>w, <2>b, WriterKeeps
    <2>10. PlaceInv'
      BY <1>t, <2>1, <2>2 DEF PlaceInv, reader
    <2>11. LastInv'
      BY <2>2, <2>5, <2>8 DEF LastInv
    <2> QED
      BY <2>8, <2>9, <2>10, <2>11
  <1>6. CASE WriteChunk
    <2> DEFINE nr == Least(PayloadMask, left)
               f == accepted - left + 1
               r == Record(wnonce, f, nr)
    <2>1. /\ wnonce' = Increment(Increment(wnonce)) /\ wop = "write" /\ wready /\ left > 0
          /\ ~wstop /\ UNCHANGED <<wready, accepted, reader>>
      BY <1>6 DEF WriteChunk, PlaceInv
    <2>2. \/ /\ Sent(r) /\ left' = left - nr /\ wop' = (IF left' = 0 THEN "idle" ELSE wop)
             /\ UNCHANGED wstop
          \/ SendFails(r) /\ left' = 0 /\ wop' = "idle" /\ wstop' = TRUE
      BY <1>6 DEF WriteChunk
    <2>3. nr \in Nat /\ nr <= left /\ f \in Nat /\ f + nr <= accepted + 1
          /\ accepted - (left - nr) + 1 = f + nr /\ left - nr \in Nat
      BY <1>t, StreamAssumption DEF Least
    <2>5. NextPiece = Sealed("len", wnonce, f, 0)
      BY <2>1 DEF NextPiece
    <2>6. left' = left - nr /\ ~wstop' => NextPiece' = Sealed("len", wnonce', f + nr, 0)
      BY <2>1, <2>3 DEF NextPiece
    <2>7. Follows(Sealed("data", Increment(wnonce), f, nr), Sealed("len", wnonce', f + nr, 0))
      BY <2>1 DEF Follows, Sealed
    <2> HIDE DEF nr, f
    <2>4. /\ r \in Seq(Piece) /\ r # <<>> /\ Chain(r) /\ Within(r, accepted)
          /\ r[1] = Sealed("len", wnonce, f, nr)
          /\ r[Len(r)] = Sealed("data", Increment(wnonce), f, nr)
      <3>1. wnonce \in Nat /\ f \in Nat /\ nr \in Nat /\ accepted \in Nat /\ f + nr <= accepted + 1
        BY <1>t, <2>3
      <3> QED
        BY <3>1, RecordChain, Zenon
    <2>8. r[1].kind = NextPiece.kind /\ r[1].nonce = NextPiece.nonce /\ r[1].first = NextPiece.first
      BY <2>4, <2>5 DEF Sealed
    <2> HIDE DEF r
    <2>9. /\ wire' \in Seq(Piece) /\ up' \in BOOLEAN /\ WireInv'
          /\ Sent(r) => wire' # <<>> /\ wire'[Len(wire')] = r[Len(r)]
      BY <1>t, <2>1, <2>2, <2>4, <2>8, PutInv
    <2>w. /\ accepted' \in Nat /\ accepted' >= accepted /\ wop' \in {"idle", "write", "readFrom"}
          /\ left' \in Nat /\ wnonce' \in Nat
      BY <1>t, <1>n, <2>1, <2>2, <2>3
    <2>b. wready' \in BOOLEAN /\ wstop' \in BOOLEAN
      BY <1>t, <1>n, <2>1, <2>2, <2>3, Zenon
    <2>10. TypeOK' /\ ByteInv'
      BY <2>1, <2>9, <2>w, <2>b, WriterKeeps
    <2>11. PlaceInv'
      BY <1>t, <2>1, <2>2, <2>3 DEF PlaceInv, reader
    <2>12. LastInv'
      BY <2>2, <2>4, <2>6, <2>7, <2>9 DEF LastInv
    <2> QED
      BY <2>9, <2>10, <2>11, <2>12
  <1>7. ASSUME NEW n \in Lens \cup {0}, NEW end \in BOOLEAN, ReadFromChunk(n, end) PROVE IInv'
    <2> DEFINE f == accepted + 1
               r == Record(wnonce, f, n)
    <2>1. /\ wnonce' = Increment(Increment(wnonce)) /\ wop = "readFrom" /\ wready /\ left = 0
          /\ ~wstop /\ accepted' = accepted + n /\ UNCHANGED <<wready, left, reader>> /\ n \in Nat
      BY <1>7, StreamAssumption DEF ReadFromChunk, PlaceInv
    <2>2. \/ Sent(r) /\ wop' = (IF end THEN "idle" ELSE wop) /\ UNCHANGED wstop
          \/ SendFails(r) /\ wop' = "idle" /\ wstop' = TRUE
      BY <1>7 DEF ReadFromChunk
    <2>3. f \in Nat /\ f + n <= accepted' + 1 /\ accepted' - left' + 1 = f + n /\ accepted' \in Nat
          /\ accepted - left + 1 = f
      BY <1>t, <2>1
    <2>5. NextPiece = Sealed("len", wnonce, f, 0)
      BY <2>1, <2>3 DEF NextPiece
    <2>6. NextPiece' = Sealed("len", wnonce', f + n, 0)
      BY <2>1, <2>3 DEF NextPiece
    <2>7. Follows(Sealed("data", Increment(wnonce), f, n), Sealed("len", wnonce', f + n, 0))
      BY <2>1 DEF Follows, Sealed
    <2> HIDE DEF f
    <2>4. /\ r \in Seq(Piece) /\ r # <<>> /\ Chain(r) /\ Within(r, accepted')
          /\ r[1] = Sealed("len", wnonce, f, n)
          /\ r[Len(r)] = Sealed("data", Increment(wnonce), f, n)
      <3>1. wnonce \in Nat /\ f \in Nat /\ n \in Nat /\ accepted' \in Nat /\ f + n <= accepted' + 1
        BY <1>t, <2>1, <2>3
      <3> QED
        BY <3>1, RecordChain, Zenon
    <2>8. r[1].kind = NextPiece.kind /\ r[1].nonce = NextPiece.nonce /\ r[1].first = NextPiece.first
      BY <2>4, <2>5 DEF Sealed
    <2> HIDE DEF r
    <2>9. /\ wire' \in Seq(Piece) /\ up' \in BOOLEAN /\ WireInv'
          /\ Sent(r) => wire' # <<>> /\ wire'[Len(wire')] = r[Len(r)]
      BY <1>t, <2>1, <2>2, <2>3, <2>4, <2>8, PutInv
    <2>w. /\ accepted' \in Nat /\ accepted' >= accepted /\ wop' \in {"idle", "write", "readFrom"}
          /\ left' \in Nat /\ wnonce' \in Nat
      BY <1>t, <1>n, <2>1, <2>2, <2>3
    <2>b. wready' \in BOOLEAN /\ wstop' \in BOOLEAN
      BY <1>t, <1>n, <2>1, <2>2, <2>3, Zenon
    <2>10. TypeOK' /\ ByteInv'
      BY <2>1, <2>9, <2>w, <2>b, WriterKeeps
    <2>11. PlaceInv'
      BY <1>t, <2>1, <2>2, <2>3 DEF PlaceInv, reader
    <2>12. LastInv'
      BY <2>2, <2>4, <2>6, <2>7, <2>9 DEF LastInv
    <2> QED
      BY <2>9, <2>10, <2>11, <2>12
  <1> QED
    BY <1>1, <1>2, <1>3, <1>4, <1>5, <1>6, <1>7 DEF WriterNext

\* What a step of the reader cannot disturb.
LEMMA ReaderKeeps ==
    ASSUME IInv, UNCHANGED writer, UNCHANGED up, wire' \in Seq(Piece), rready' \in BOOLEAN,
           rpc' \in {"idle", "salt", "len", "data", "copy"}, rop' \in {"read", "writeTo"},
           want' \in Nat, rnonce' \in Nat, size' \in Nat, buf' \in [first : Nat, len : Nat],
           rerr' \in {"none", "EOF", "unexpected EOF", "timeout", "open", "zero chunk"},
           got' \in Seq(Nat)
    PROVE  TypeOK' /\ NextPiece' = NextPiece
  BY Zenon DEF IInv, TypeOK, writer, NextPiece

\* The reader opens the first piece and goes on; what it expects then is what
\* follows that piece.
LEMMA OpenInv ==
    ASSUME IInv, wire # <<>>, rerr = "none", wire' = Tail(wire), UNCHANGED writer,
           NextPiece' = NextPiece,
           rerr' = "none" => \A q : Follows(wire[1], q) => Expected(q)'
    PROVE  wire' \in Seq(Piece) /\ WireInv' /\ LastInv'
  <1>1. wire \in Seq(Piece) /\ Chain(wire) /\ Within(wire, accepted) /\ accepted \in Nat
    BY DEF IInv, TypeOK, WireInv
  <1>2. /\ Tail(wire) \in Seq(Piece) /\ Chain(Tail(wire)) /\ Within(Tail(wire), accepted)
        /\ Tail(wire) # <<>> => /\ Follows(wire[1], Tail(wire)[1])
                                /\ Tail(wire)[Len(Tail(wire))] = wire[Len(wire)]
        /\ Tail(wire) = <<>> => wire[Len(wire)] = wire[1]
    BY <1>1, TailChain
  <1>3. WireInv'
    <2>1. Chain(wire') /\ Within(wire', accepted')
      BY <1>2 DEF writer
    <2>2. rerr' = "none" /\ wire' # <<>> => Expected(wire[1])'
      BY <1>2
    <2> QED
      BY <2>1, <2>2 DEF WireInv
  <1>4. LastInv'
    <2>1. wstop' = wstop
      BY DEF writer
    <2>2. ~wstop => Follows(wire[Len(wire)], NextPiece)
      BY DEF IInv, LastInv
    <2>3. ~wstop' /\ wire' # <<>> => Follows(wire'[Len(wire')], NextPiece')
      BY <1>2, <2>1, <2>2
    <2>4. ~wstop' /\ wire' = <<>> /\ rerr' = "none" => Expected(NextPiece)'
      BY <1>2, <2>1, <2>2
    <2> QED
      BY <2>3, <2>4 DEF LastInv
  <1> QED
    BY <1>2, <1>3, <1>4

LEMMA BytesFacts ==
    ASSUME NEW f \in Nat \ {0}, NEW n \in Nat
    PROVE  /\ Bytes(f, n) \in Seq(Nat) /\ Len(Bytes(f, n)) = n
           /\ \A i \in 1 .. n : Bytes(f, n)[i] = f + i - 1
  <1>1. Bytes(f, n) \in [1 .. n -> Nat]
    BY DEF Bytes
  <1>2. Bytes(f, n) \in Seq(Nat)
    BY <1>1, FunctionSeq
  <1>3. Len(Bytes(f, n)) = n
    BY DEF Bytes
  <1> QED
    BY <1>2, <1>3 DEF Bytes

LEMMA ConcatFacts ==
    ASSUME NEW S, NEW s \in Seq(S), NEW u \in Seq(S)
    PROVE  /\ s \o u \in Seq(S) /\ Len(s \o u) = Len(s) + Len(u)
           /\ \A i \in 1 .. Len(s) : (s \o u)[i] = s[i]
           /\ \A i \in 1 .. Len(u) : (s \o u)[Len(s) + i] = u[i]
  OBVIOUS

\* Handing out n bytes of the buffer keeps the count.
LEMMA HandOutFacts ==
    ASSUME IInv, NEW n \in Nat, n <= buf.len, HandOut(n)
    PROVE  /\ got' \in Seq(Nat) /\ Len(got') = Len(got) + n
           /\ buf' \in [first : Nat, len : Nat] /\ buf'.first = Len(got') + 1
           /\ Len(got') + buf'.len = Len(got) + buf.len
           /\ buf'.len = buf.len - n
           /\ \A i \in 1 .. Len(got') : got'[i] = i
  <1>1. got \in Seq(Nat) /\ buf \in [first : Nat, len : Nat] /\ buf.first = Len(got) + 1
        /\ \A i \in 1 .. Len(got) : got[i] = i
    BY Zenon DEF IInv, TypeOK, ByteInv
  <1>2. Len(got) \in Nat /\ buf.first \in Nat \ {0} /\ buf.len \in Nat
    BY <1>1
  <1> DEFINE b == Bytes(buf.first, n)
  <1>3. b \in Seq(Nat) /\ Len(b) = n /\ \A i \in 1 .. n : b[i] = buf.first + i - 1
    BY <1>2, BytesFacts, Zenon
  <1> HIDE DEF b
  <1>4. got' = got \o b
    BY DEF HandOut, b
  <1>5. /\ got \o b \in Seq(Nat) /\ Len(got \o b) = Len(got) + n
        /\ \A i \in 1 .. Len(got) : (got \o b)[i] = got[i]
        /\ \A i \in 1 .. n : (got \o b)[Len(got) + i] = b[i]
    BY <1>1, <1>3, ConcatFacts
  <1>6. \A i \in 1 .. Len(got') : got'[i] = i
    <2> TAKE i \in 1 .. Len(got')
    <2>1. CASE i <= Len(got)
      <3>1. i \in 1 .. Len(got)
        BY <1>2, <2>1
      <3> QED
        BY <1>1, <1>4, <1>5, <3>1
    <2>2. CASE i > Len(got)
      <3>1. i - Len(got) \in 1 .. n /\ Len(got) + (i - Len(got)) = i /\ i \in Nat
        BY <1>2, <1>4, <1>5, <2>2
      <3>2. got'[i] = b[i - Len(got)]
        BY <1>4, <1>5, <3>1
      <3>3. b[i - Len(got)] = buf.first + (i - Len(got)) - 1
        BY <1>3, <3>1
      <3> QED
        BY <1>1, <1>2, <3>1, <3>2, <3>3
    <2> QED
      BY <1>2, <1>4, <1>5, <2>1, <2>2
  <1>7. buf' = [first |-> buf.first + n, len |-> buf.len - n]
    BY DEF HandOut
  <1>8. buf' \in [first : Nat, len : Nat] /\ buf'.first = buf.first + n /\ buf'.len = buf.len - n
    BY <1>2, <1>7
  <1>9. Len(got') = Len(got) + n /\ got' \in Seq(Nat)
    BY <1>4, <1>5
  <1> QED
    BY <1>1, <1>2, <1>6, <1>8, <1>9

LEMMA ReaderInv == ASSUME IInv, ReaderNext PROVE IInv'
  <1> USE DEF IInv
  <1>t. /\ wire \in Seq(Piece) /\ rready \in BOOLEAN /\ want \in Nat /\ rnonce \in Nat
        /\ rpc \in {"idle", "salt", "len", "data", "copy"} /\ rop \in {"read", "writeTo"}
        /\ size \in Nat /\ buf \in [first : Nat, len : Nat] /\ got \in Seq(Nat)
        /\ rerr \in {"none", "EOF", "unexpected EOF", "timeout", "open", "zero chunk"}
        /\ accepted \in Nat /\ left \in Nat
    BY Zenon DEF TypeOK
  <1>l. Len(got) \in Nat /\ buf.len \in Nat /\ buf.first \in Nat
    <2>1. got \in Seq(Nat) /\ buf \in [first : Nat, len : Nat]
      BY <1>t, Zenon
    <2> QED
      BY <2>1
  <1>h. ASSUME wire # <<>>
        PROVE  /\ Head(wire) = wire[1] /\ wire[1] \in Piece /\ Tail(wire) \in Seq(Piece)
               /\ wire[1].first + wire[1].size <= accepted + 1
               /\ wire[1].first \in Nat /\ wire[1].size \in Nat
    <2>1. /\ Head(wire) = wire[1] /\ wire[1] \in Piece /\ Tail(wire) \in Seq(Piece)
          /\ wire[1].first + wire[1].size <= accepted + 1
      BY <1>t, <1>h, TailChain, Zenon DEF WireInv
    <2> QED
      BY <2>1 DEF Piece
  <1>1. ASSUME NEW op \in {"read", "writeTo"}, NEW n \in Lens \ {0}, Call(op, n) PROVE IInv'
    <2>1. /\ rpc = "idle" /\ rerr = "none" /\ rop' = op /\ want' = n /\ n \in Nat
          /\ rpc' = CASE ~rready -> "salt" [] buf.len > 0 -> "copy" [] OTHER -> "len"
          /\ UNCHANGED <<writer, wire, up, rready, rnonce, size, buf, rerr, got>>
      BY <1>1, StreamAssumption DEF Call
    <2>2. /\ rpc' \in {"salt", "copy", "len"} /\ (rpc' = "salt" => ~rready) /\ (rpc' # "salt" => rready)
          /\ (rpc' = "len" => buf.len = 0) /\ (rpc' = "salt" => buf.len = 0)
      BY <1>l, <2>1 DEF PlaceInv
    <2>3. TypeOK' /\ NextPiece' = NextPiece
      BY <1>t, <2>1, <2>2, ReaderKeeps
    <2>4. PlaceInv'
      BY <2>1, <2>2 DEF PlaceInv, writer
    <2>5. ByteInv'
      BY <2>1 DEF ByteInv, writer
    <2>6. \A q : Expected(q) => Expected(q)'
      BY <2>1, <2>2 DEF Expected
    <2>7. WireInv' /\ LastInv'
      BY <2>1, <2>3, <2>6 DEF WireInv, LastInv, writer
    <2> QED
      BY <2>3, <2>4, <2>5, <2>7
  <1>2. CASE InitReader
    <2>1. /\ rpc = "salt" /\ wire # <<>> /\ Head(wire).kind = "salt" /\ wire' = Tail(wire)
          /\ rready' = TRUE /\ rpc' = "len" /\ rerr = "none" /\ ~rready /\ buf.len = 0
          /\ rnonce = 0 /\ Len(got) = 0
          /\ UNCHANGED <<writer, up, rop, want, rnonce, size, buf, rerr, got>>
      BY <1>2 DEF InitReader, Arrived, PlaceInv
    <2>2. TypeOK' /\ NextPiece' = NextPiece
      BY <1>t, <1>h, <2>1, ReaderKeeps
    <2>3. PlaceInv'
      BY <2>1 DEF PlaceInv, writer
    <2>4. ByteInv'
      BY <2>1 DEF ByteInv, writer
    <2>5. wire[1].kind = "salt" /\ wire[1].first = 1
      BY <1>h, <2>1 DEF WireInv, Expected
    <2>6. \A q : Follows(wire[1], q) => Expected(q)'
      BY <2>1, <2>5 DEF Expected, Follows
    <2>7. WireInv' /\ LastInv'
      BY <2>1, <2>2, <2>6, OpenInv
    <2> QED
      BY <2>2, <2>3, <2>4, <2>7
  <1>3. CASE OpenLen
    <2>1. /\ rpc = "len" /\ wire # <<>> /\ wire' = Tail(wire) /\ rnonce' = Increment(rnonce)
          /\ size' = Head(wire).size /\ rerr = "none" /\ rready /\ buf.len = 0
          /\ Head(wire).kind = "len" /\ Head(wire).nonce = rnonce
          /\ UNCHANGED <<writer, up, rready, rop, want, buf, got>>
      BY <1>3, Zenon DEF OpenLen, Opens, Arrived, PlaceInv
    <2>2. \/ size' = 0 /\ rpc' = "idle" /\ rerr' = "zero chunk"
          \/ size' # 0 /\ rpc' = "data" /\ rerr' = rerr
      BY <1>3, Zenon DEF OpenLen
    <2>3. TypeOK' /\ NextPiece' = NextPiece
      <3>1. rnonce' \in Nat /\ size' \in Nat /\ wire' \in Seq(Piece)
        BY <1>t, <1>h, <2>1, IncrementNat, Zenon
      <3> QED
        BY <1>t, <2>1, <2>2, <3>1, ReaderKeeps, Zenon
    <2>4. PlaceInv'
      BY <2>1, <2>2, Zenon DEF PlaceInv, writer
    <2>5. ByteInv'
      BY <2>1 DEF ByteInv, writer
    <2>6. /\ wire[1].kind = "len" /\ wire[1].nonce = rnonce /\ wire[1].size = size'
          /\ wire[1].first = Len(got) + 1
      BY <1>h, <1>l, <2>1 DEF WireInv, Expected
    <2>7. rerr' = "none" => \A q : Follows(wire[1], q) => Expected(q)'
      BY <2>1, <2>2, <2>6 DEF Expected, Follows
    <2>8. WireInv' /\ LastInv'
      BY <2>1, <2>3, <2>7, OpenInv
    <2> QED
      BY <2>3, <2>4, <2>5, <2>8
  <1>4. CASE OpenData
    <2>1. /\ rpc = "data" /\ wire # <<>> /\ wire' = Tail(wire) /\ rnonce' = Increment(rnonce)
          /\ buf' = [first |-> Head(wire).first, len |-> size] /\ rpc' = "copy"
          /\ rerr = "none" /\ rready /\ buf.len = 0
          /\ UNCHANGED <<writer, up, rready, rop, want, size, rerr, got>>
      BY <1>4 DEF OpenData, Opens, Arrived, PlaceInv
    <2>2. /\ wire[1].kind = "data" /\ wire[1].nonce = rnonce /\ wire[1].size = size
          /\ wire[1].first = Len(got) + 1
      BY <1>h, <2>1 DEF WireInv, Expected
    <2>3. buf' \in [first : Nat, len : Nat] /\ buf'.first = Len(got) + 1 /\ buf'.len = size
      BY <1>t, <1>h, <2>1, <2>2
    <2>4. TypeOK' /\ NextPiece' = NextPiece
      <3>1. rnonce' \in Nat /\ wire' \in Seq(Piece)
        BY <1>t, <1>h, <2>1, IncrementNat
      <3> QED
        BY <1>t, <2>1, <2>3, <3>1, ReaderKeeps
    <2>5. PlaceInv'
      BY <2>1 DEF PlaceInv, writer
    <2>6. ByteInv'
      <3>1. Len(got) + size <= accepted
        BY <1>h, <1>l, <1>t, <2>1, <2>2
      <3> QED
        BY <2>1, <2>3, <3>1 DEF ByteInv, writer
    <2>7. \A q : Follows(wire[1], q) => Expected(q)'
      <3>1. Len(got) + 1 + size = Len(got) + size + 1
        <4>1. Len(got) \in Nat /\ size \in Nat
          BY <1>l, <1>t, Zenon
        <4> QED
          BY <4>1
      <3> QED
        BY <2>1, <2>2, <2>3, <3>1 DEF Expected, Follows
    <2>8. WireInv' /\ LastInv'
      BY <2>1, <2>4, <2>7, OpenInv
    <2> QED
      BY <2>4, <2>5, <2>6, <2>8
  <1>5. ASSUME NEW n \in Nat, n <= buf.len, HandOut(n), rpc = "copy",
               rpc' = "idle" \/ (rpc' = "len" /\ n = buf.len),
               UNCHANGED <<writer, wire, up, rready, rop, want, rnonce, size, rerr>>
        PROVE  IInv'
    <2>1. /\ got' \in Seq(Nat) /\ Len(got') = Len(got) + n
          /\ buf' \in [first : Nat, len : Nat] /\ buf'.first = Len(got') + 1
          /\ Len(got') + buf'.len = Len(got) + buf.len
          /\ buf'.len = buf.len - n
          /\ \A i \in 1 .. Len(got') : got'[i] = i
      BY <1>5, HandOutFacts
    <2>2. TypeOK' /\ NextPiece' = NextPiece
      BY <1>t, <1>5, <2>1, ReaderKeeps, Zenon
    <2>3. PlaceInv'
      BY <1>5, <1>l, <2>1 DEF PlaceInv, writer
    <2>4. ByteInv'
      BY <1>5, <2>1 DEF ByteInv, writer
    <2>5. \A q : Expected(q) => Expected(q)'
      BY <1>5, <2>1 DEF Expected, PlaceInv
    <2>6. WireInv' /\ LastInv'
      BY <1>5, <2>2, <2>5 DEF WireInv, LastInv, writer
    <2> QED
      BY <2>2, <2>3, <2>4, <2>6
  <1>6. CASE Copy
    <2>1. Least(want, buf.len) \in Nat /\ Least(want, buf.len) <= buf.len
      <3>1. want \in Nat /\ buf.len \in Nat
        BY <1>t, <1>l, Zenon
      <3> QED
        BY <3>1 DEF Least
    <2> QED
      BY <1>5, <1>6, <2>1 DEF Copy
  <1>7. ASSUME NEW n \in 0 .. PayloadMask, Drain(n) PROVE IInv'
    BY <1>5, <1>7, StreamAssumption DEF Drain
  <1>8. CASE ReadError
    <2>1. /\ rpc \in {"salt", "len", "data"} /\ rpc' = "idle" /\ rerr = "none"
          /\ UNCHANGED <<writer, wire, up, rready, rop, want, rnonce, size, buf, got>>
      BY <1>8, Zenon DEF ReadError, PlaceInv
    <2>2. rerr' \in {"EOF", "unexpected EOF", "timeout"}
      <3>1. ASSUME rpc # "salt", Arrived PROVE Opens(rpc)
        <4>1. wire # <<>> /\ rready /\ rpc \in {"len", "data"}
          BY <2>1, <3>1 DEF Arrived, PlaceInv
        <4>2. Expected(wire[1])
          BY <2>1, <4>1 DEF WireInv
        <4> QED
          BY <1>h, <3>1, <4>1, <4>2 DEF Opens, Expected
      <3> QED
        BY <1>8, <3>1, Zenon DEF ReadError
    <2>3. TypeOK' /\ NextPiece' = NextPiece
      BY <1>t, <2>1, <2>2, ReaderKeeps, Zenon
    <2>4. PlaceInv'
      BY <2>1, <2>2, Zenon DEF PlaceInv, writer
    <2>5. ByteInv'
      BY <2>1 DEF ByteInv, writer
    <2>6. WireInv' /\ LastInv'
      BY <2>1, <2>2, <2>3, Zenon DEF WireInv, LastInv, writer
    <2> QED
      BY <2>3, <2>4, <2>5, <2>6
  <1> QED
    BY <1>1, <1>2, <1>3, <1>4, <1>6, <1>7, <1>8 DEF ReaderNext

LEMMA Inductive == IInv /\ [Next]_vars => IInv'
  <1> SUFFICES ASSUME IInv, [Next]_vars PROVE IInv'
    OBVIOUS
  <1>1. CASE WriterNext
    BY <1>1, WriterInv
  <1>2. CASE ReaderNext
    BY <1>2, ReaderInv
  <1>3. CASE UNCHANGED vars
    <2>1. UNCHANGED writer /\ UNCHANGED reader /\ UNCHANGED wire /\ UNCHANGED up
      BY <1>3 DEF vars
    <2>2. TypeOK'
      BY <2>1, ZenonT(30) DEF IInv, TypeOK, writer, reader
    <2>3. PlaceInv'
      BY <2>1 DEF IInv, PlaceInv, writer, reader
    <2>4. ByteInv'
      BY <2>1 DEF IInv, ByteInv, writer, reader
    <2>5. WireInv' /\ LastInv'
      BY <2>1 DEF IInv, WireInv, LastInv, Expected, NextPiece, writer, reader
    <2> QED
      BY <2>2, <2>3, <2>4, <2>5 DEF IInv
  <1> QED
    BY <1>1, <1>2, <1>3 DEF Next

\* The variables of the writer and of the reader keep their types.
THEOREM TypeCorrect == Spec => []TypeOK
  <1>1. IInv => TypeOK
    BY DEF IInv
  <1> QED
    BY <1>1, InitInv, Inductive, PTL DEF Spec

\* Reader.read opens everything Writer seals, whatever the sizes of the calls on
\* either side, wherever the connection is cut, and when the nonces wrap around.
THEOREM NoncesInStep == Spec => []NoOpenFailure
  <1>1. IInv => NoOpenFailure
    BY DEF IInv, PlaceInv, NoOpenFailure
  <1> QED
    BY <1>1, InitInv, Inductive, PTL DEF Spec

\* A step either accepts bytes or hands some out.
LEMMA Monotone ==
    ASSUME IInv, Next
    PROVE  \/ got' = got /\ accepted' >= accepted
           \/ Len(got') >= Len(got) /\ accepted' = accepted
  <1>1. accepted \in Nat /\ want \in Nat
    BY Zenon DEF IInv, TypeOK
  <1>2. Len(got) \in Nat /\ buf.len \in Nat
    <2>1. got \in Seq(Nat) /\ buf \in [first : Nat, len : Nat]
      BY Zenon DEF IInv, TypeOK
    <2> QED
      BY <2>1
  <1>3. CASE WriterNext
    <2>1. \A n \in Lens \cup {0} : n \in Nat
      BY StreamAssumption
    <2>2. got' = got
      BY <1>3 DEF WriterNext, Write, ReadFrom, InitWriter, WriteEmpty, WriteChunk, ReadFromChunk,
                  CloseWriter, reader
    <2>3. accepted' = accepted \/ \E n \in Lens \cup {0} : accepted' = accepted + n
      BY <1>3 DEF WriterNext, Write, ReadFrom, InitWriter, WriteEmpty, WriteChunk, ReadFromChunk,
                  CloseWriter
    <2> QED
      BY <1>1, <2>1, <2>2, <2>3
  <1>4. CASE ReaderNext
    <2>1. accepted' = accepted
      BY <1>4, Zenon DEF ReaderNext, Call, InitReader, OpenLen, OpenData, Copy, Drain, ReadError, writer
    <2>2. ASSUME NEW n \in Nat, n <= buf.len, HandOut(n) PROVE Len(got') >= Len(got)
      BY <1>2, <2>2, HandOutFacts
    <2>3. CASE Copy
      <3>1. Least(want, buf.len) \in Nat /\ Least(want, buf.len) <= buf.len
        BY <1>1, <1>2 DEF Least
      <3> QED
        BY <2>1, <2>2, <2>3, <3>1 DEF Copy
    <2>4. ASSUME NEW n \in 0 .. PayloadMask, Drain(n) PROVE Len(got') >= Len(got)
      BY <2>2, <2>4, StreamAssumption DEF Drain
    <2>5. CASE got' = got
      BY <1>1, <2>1, <2>5
    <2>6. got' = got \/ Copy \/ \E n \in 0 .. PayloadMask : Drain(n)
      BY <1>4, Zenon DEF ReaderNext, Call, InitReader, OpenLen, OpenData, ReadError
    <2> QED
      BY <2>1, <2>3, <2>4, <2>5, <2>6
  <1> QED
    BY <1>3, <1>4 DEF Next

LEMMA ByteStreamStep ==
    ASSUME IInv, IInv', [Next]_vars
    PROVE  [Stream!Next]_Stream!vars
  <1>1. CASE UNCHANGED vars
    BY <1>1 DEF vars, writer, reader, Stream!vars
  <1>2. CASE Next
    <2>1. CASE got' = got /\ accepted' >= accepted
      BY <2>1 DEF Stream!Next, Stream!Accept
    <2>2. CASE Len(got') >= Len(got) /\ accepted' = accepted
      <3>1. /\ got' \in Seq(Nat) /\ Len(got) \in Nat /\ Len(got') \in Nat
            /\ \A i \in 1 .. Len(got') : got'[i] = i
        <4>1. got \in Seq(Nat) /\ got' \in Seq(Nat) /\ \A i \in 1 .. Len(got') : got'[i] = i
          BY Zenon DEF IInv, TypeOK, ByteInv
        <4> QED
          BY <4>1
      <3>2. Len(got') \in Len(got) .. accepted
        <4>1. Len(got') + buf'.len <= accepted' /\ buf' \in [first : Nat, len : Nat] /\ accepted \in Nat
          BY Zenon DEF IInv, TypeOK, ByteInv
        <4>2. buf'.len \in Nat
          BY <4>1
        <4> QED
          BY <2>2, <3>1, <4>1, <4>2
      <3>3. got' = Stream!Bytes(1, Len(got'))
        <4>1. got' = [i \in 1 .. Len(got') |-> got'[i]]
          BY <3>1
        <4>2. \A i \in 1 .. Len(got') : got'[i] = 1 + i - 1
          BY <3>1
        <4> QED
          BY <4>1, <4>2 DEF Stream!Bytes
      <3> QED
        BY <2>2, <3>2, <3>3 DEF Stream!Next, Stream!Deliver
    <2> QED
      BY <1>2, <2>1, <2>2, Monotone
  <1> QED
    BY <1>1, <1>2

\* A shadowsocks AEAD stream is a byte stream: what Read and WriteTo hand out is
\* what Write and ReadFrom accepted, in order, none missing and none twice.
THEOREM AeadImplementsByteStream == Spec => ImplementsByteStream
  <1>1. Init => Stream!Init
    BY DEF Init, Stream!Init
  <1>2. IInv /\ IInv' /\ [Next]_vars => [Stream!Next]_Stream!vars
    BY ByteStreamStep
  <1> QED
    BY <1>1, <1>2, InitInv, Inductive, PTL DEF Spec, ImplementsByteStream, Stream!Spec
=============================================================================
