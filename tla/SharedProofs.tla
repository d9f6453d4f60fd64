---------------------------- MODULE SharedProofs ----------------------------
(***************************************************************************)
(* Proofs about the state that all connections of the process share, for   *)
(* every value of the constants: the message buffers of simple-obfs        *)
(* (ObfsWriter), the pools of relay buffers (Allocator) and the traffic    *)
(* counters (Statistic).                                                   *)
(*                                                                         *)
(* ObfsWriter: OwnInv says who owns a record's buffer, PlaceInv how the    *)
(* messages sent relate to the Write in progress.  Allocator: BuffersInv   *)
(* adds that what is pooled or held exists and has a capacity the pools    *)
(* serve; the rest is arithmetic, what bits.Len32 computes.  Statistic:    *)
(* CountersInv compares the manager's counters with two sums over the      *)
(* trackers, of the bytes moved and of the bytes already in the total.     *)
(***************************************************************************)
EXTENDS Shared, TLAPS

-----------------------------------------------------------------------------
(* ObfsWriter. *)

\* The message connection c is about to put together.
Chunk(c) ==
    [conn |-> c, hello |-> firstRequest[c],
     first |-> accepted[c] - left[c] + 1, size |-> Least(ChunkSize, left[c])]

\* The buffer of a record is out of the pool, in one connection's hands, and
\* holds that connection's chunk.
OwnInv ==
    \A c \in Conns :
        /\ pc[c] = "record" =>
               /\ held[c] \notin pool /\ content[held[c]] = Chunk(c)
               /\ \A d \in Conns : pc[d] = "record" /\ c # d => held[c] # held[d]
        /\ pc[c] = "hello" => content[held[c]] \in Message

PlaceInv ==
    \A c \in Conns :
        /\ left[c] <= accepted[c]
        /\ pc[c] = "idle" => left[c] = 0
        /\ pc[c] = "hello" => firstRequest[c]
        /\ pc[c] = "record" => ~firstRequest[c]
        /\ pc[c] # "failed" => (firstRequest[c] <=> Len(sent[c]) = 0)

\* The records of s are c's, and each one goes on where the last one ended.
Ordered(c, s) ==
    \A i \in 2 .. Len(s) :
        /\ s[i].conn = c /\ ~s[i].hello
        /\ \A j \in 2 .. Len(s) : i = j + 1 => s[i].first = s[j].first + s[j].size

SentInv ==
    \A c \in Conns :
        /\ Ordered(c, sent[c])
        /\ pc[c] # "failed" /\ Len(sent[c]) > 1 =>
               sent[c][Len(sent[c])].first + sent[c][Len(sent[c])].size = accepted[c] - left[c] + 1

IInv == TypeOK /\ OwnInv /\ PlaceInv /\ SentInv

LEMMA EmptyFacts == ASSUME NEW S PROVE <<>> \in Seq(S) /\ Len(<<>>) = 0
  OBVIOUS

LEMMA AppendFacts ==
    ASSUME NEW S, NEW s \in Seq(S), NEW x \in S
    PROVE  /\ Append(s, x) \in Seq(S) /\ Len(Append(s, x)) = Len(s) + 1 /\ Len(s) \in Nat
           /\ \A i \in 1 .. Len(s) : Append(s, x)[i] = s[i]
           /\ Append(s, x)[Len(s) + 1] = x
  OBVIOUS

LEMMA InitInv == Init => IInv
  <1> SUFFICES ASSUME Init PROVE IInv
    OBVIOUS
  <1>1. sent \in [Conns -> Seq(Message)] /\ \A c \in Conns : Len(sent[c]) = 0
    BY EmptyFacts DEF Init
  <1>2. TypeOK
    BY <1>1, WriterAssumption DEF Init, TypeOK
  <1>3. OwnInv /\ PlaceInv
    BY <1>1 DEF Init, OwnInv, PlaceInv
  <1>4. SentInv
    BY <1>1 DEF SentInv, Ordered
  <1> QED
    BY <1>2, <1>3, <1>4 DEF IInv

\* A chunk is a message of its connection.
LEMMA ChunkFacts ==
    ASSUME IInv, NEW c \in Conns
    PROVE  Chunk(c) \in Message /\ Least(ChunkSize, left[c]) \in 0 .. left[c]
  <1>1. left[c] \in Nat /\ accepted[c] \in Nat /\ left[c] <= accepted[c] /\ firstRequest[c] \in BOOLEAN
    BY DEF IInv, TypeOK, PlaceInv
  <1>2. Least(ChunkSize, left[c]) \in 0 .. left[c]
    BY <1>1, WriterAssumption DEF Least
  <1>3. accepted[c] - left[c] + 1 \in Nat
    BY <1>1
  <1> QED
    BY <1>1, <1>2, <1>3 DEF Chunk, Message

LEMMA MessageFacts ==
    ASSUME NEW s \in Seq(Message)
    PROVE  Len(s) \in Nat /\ \A i \in 1 .. Len(s) : s[i].first \in Nat /\ s[i].size \in Nat
  <1>1. \A i \in 1 .. Len(s) : s[i] \in Message
    OBVIOUS
  <1> QED
    BY <1>1 DEF Message

\* A message behind the ordered ones.
LEMMA OrderedAppend ==
    ASSUME NEW c \in Conns, NEW s \in Seq(Message), NEW m \in Message, Ordered(c, s),
           Len(s) > 0 => m.conn = c /\ ~m.hello,
           Len(s) > 1 => m.first = s[Len(s)].first + s[Len(s)].size
    PROVE  Ordered(c, Append(s, m))
  <1> DEFINE t == Append(s, m)
  <1>1. /\ t \in Seq(Message) /\ Len(t) = Len(s) + 1 /\ Len(s) \in Nat
        /\ \A i \in 1 .. Len(s) : t[i] = s[i]
        /\ t[Len(s) + 1] = m
    BY AppendFacts
  <1> HIDE DEF t
  <1>2. ASSUME NEW i \in 2 .. Len(t) PROVE t[i].conn = c /\ ~t[i].hello
    <2>1. CASE i <= Len(s)
      <3>1. i \in 2 .. Len(s) /\ i \in 1 .. Len(s)
        BY <1>1, <2>1
      <3> QED
        BY <1>1, <3>1 DEF Ordered
    <2>2. CASE i = Len(s) + 1
      <3>1. Len(s) > 0
        BY <1>1, <2>2
      <3> QED
        BY <1>1, <2>2, <3>1
    <2> QED
      BY <1>1, <2>1, <2>2
  <1>3. ASSUME NEW i \in 2 .. Len(t), NEW j \in 2 .. Len(t), i = j + 1
        PROVE  t[i].first = t[j].first + t[j].size
    <2>0. j \in 2 .. Len(s) /\ j \in 1 .. Len(s)
      BY <1>1, <1>3
    <2>1. CASE i <= Len(s)
      <3>1. i \in 2 .. Len(s) /\ i \in 1 .. Len(s)
        BY <1>1, <2>1
      <3> QED
        BY <1>1, <1>3, <2>0, <3>1, SMTT(20), ZenonT(30) DEF Ordered
    <2>2. CASE i = Len(s) + 1
      <3>1. j = Len(s) /\ Len(s) > 1
        BY <1>1, <1>3, <2>0, <2>2
      <3> QED
        BY <1>1, <2>0, <2>2, <3>1
    <2> QED
      BY <1>1, <2>1, <2>2
  <1>4. Ordered(c, t)
    BY <1>2, <1>3 DEF Ordered
  <1> QED
    BY <1>4 DEF t

LEMMA WriteInv == ASSUME IInv, NEW c \in Conns, NEW n \in Lens, Write(c, n) PROVE IInv'
  <1> USE DEF IInv
  <1>1. /\ n \in Nat /\ left[c] = 0 /\ accepted[c] \in Nat /\ accepted[c] + n <= MaxBytes
        /\ MaxBytes \in Nat
    BY WriterAssumption DEF Write, PlaceInv, TypeOK
  <1>2. TypeOK'
    BY <1>1 DEF Write, TypeOK
  <1>3. OwnInv'
    BY <1>1 DEF Write, TypeOK, OwnInv, Chunk
  <1>4. PlaceInv'
    BY <1>1 DEF Write, TypeOK, PlaceInv
  <1>5. SentInv'
    <2>1. \A d \in Conns : accepted'[d] - left'[d] = accepted[d] - left[d]
      BY <1>1 DEF Write, TypeOK
    <2>2. \A d \in Conns : pc'[d] # "failed" => pc[d] # "failed"
      BY DEF Write, TypeOK
    <2> QED
      BY <2>1, <2>2 DEF Write, SentInv
  <1> QED
    BY <1>2, <1>3, <1>4, <1>5

\* Putting a message together in a buffer of the pool.
LEMMA BuildInv ==
    ASSUME IInv, NEW c \in Conns, NEW b \in pool, pc[c] = "chunk", Build(c, b),
           \/ pc' = [pc EXCEPT ![c] = "hello"] /\ pool' = pool /\ firstRequest[c]
           \/ pc' = [pc EXCEPT ![c] = "record"] /\ pool' = pool \ {b} /\ ~firstRequest[c],
           UNCHANGED <<firstRequest, left, accepted, sent>>
    PROVE  IInv'
  <1> USE DEF IInv
  <1>1. /\ held' = [held EXCEPT ![c] = b] /\ content' = [content EXCEPT ![b] = Chunk(c)]
        /\ Chunk(c) \in Message /\ b \in Buffers /\ b \in pool
    BY ChunkFacts DEF Build, Chunk, TypeOK
  <1>2. TypeOK'
    BY <1>1, Zenon DEF TypeOK
  <1>3. OwnInv'
    <2> SUFFICES ASSUME NEW d \in Conns
                 PROVE  /\ pc'[d] = "record" =>
                             /\ held'[d] \notin pool' /\ content'[held'[d]] = Chunk(d)'
                             /\ \A e \in Conns : pc'[e] = "record" /\ d # e => held'[d] # held'[e]
                        /\ pc'[d] = "hello" => content'[held'[d]] \in Message
      BY DEF OwnInv
    <2>1. Chunk(d)' = Chunk(d)
      BY DEF Chunk
    <2>2. CASE d = c
      BY <1>1, <2>1, <2>2 DEF TypeOK, OwnInv
    <2>3. CASE d # c
      <3>1. pc'[d] = pc[d] /\ held'[d] = held[d] /\ held[d] \in Buffers
        BY <1>1, <2>3 DEF TypeOK
      <3>2. ASSUME pc[d] = "record"
            PROVE  held[d] # b /\ held[d] \notin pool' /\ content'[held[d]] = Chunk(d)
        BY <1>1, <3>1, <3>2 DEF TypeOK, OwnInv
      <3>3. ASSUME pc[d] = "record", NEW e \in Conns, pc'[e] = "record", d # e
            PROVE  held[d] # held'[e]
        <4>1. CASE e = c
          BY <1>1, <3>2, <3>3, <4>1 DEF TypeOK
        <4>2. CASE e # c
          BY <1>1, <3>3, <4>2 DEF TypeOK, OwnInv
        <4> QED
          BY <4>1, <4>2
      <3>4. pc[d] = "hello" => content'[held[d]] \in Message
        BY <1>1, <3>1 DEF TypeOK, OwnInv
      <3> QED
        BY <2>1, <3>1, <3>2, <3>3, <3>4
    <2> QED
      BY <2>2, <2>3
  <1>4. PlaceInv'
    BY DEF TypeOK, PlaceInv
  <1>5. SentInv'
    BY DEF TypeOK, SentInv
  <1> QED
    BY <1>2, <1>3, <1>4, <1>5

\* A failed Conn.Write ends the connection's writing.
LEMMA FailInv ==
    ASSUME IInv, NEW c \in Conns, pc' = [pc EXCEPT ![c] = "failed"],
           \/ pc[c] = "hello" /\ pool' = pool /\ firstRequest' = [firstRequest EXCEPT ![c] = FALSE]
           \/ pc[c] = "record" /\ pool' = pool \cup {held[c]} /\ firstRequest' = firstRequest,
           UNCHANGED <<sent, left, accepted, held, content>>
    PROVE  IInv'
  <1> USE DEF IInv
  <1>1. TypeOK'
    BY Zenon DEF TypeOK
  <1>2. OwnInv'
    BY DEF TypeOK, OwnInv, Chunk
  <1>3. PlaceInv'
    BY DEF TypeOK, PlaceInv
  <1>4. SentInv'
    BY DEF TypeOK, SentInv
  <1> QED
    BY <1>1, <1>2, <1>3, <1>4

\* A Conn.Write that succeeds: the message is on the wire and Write's loop goes on.
LEMMA SendInv ==
    ASSUME IInv, NEW c \in Conns, sent' = [sent EXCEPT ![c] = Append(@, content[held[c]])], Advance(c),
           \/ pc[c] = "hello" /\ pool' = pool /\ firstRequest' = [firstRequest EXCEPT ![c] = FALSE]
           \/ pc[c] = "record" /\ pool' = pool \cup {held[c]} /\ firstRequest' = firstRequest,
           UNCHANGED <<accepted, held, content>>
    PROVE  IInv'
  <1> USE DEF IInv
  <1> DEFINE m == content[held[c]]
             nr == Least(ChunkSize, left[c])
  <1>1. /\ left[c] \in Nat /\ accepted[c] \in Nat /\ left[c] <= accepted[c] /\ nr \in 0 .. left[c]
        /\ Chunk(c) \in Message /\ left[c] \in 0 .. MaxBytes
    BY ChunkFacts DEF TypeOK, PlaceInv
  <1>2. m \in Message
    BY <1>1 DEF OwnInv
  <1>3. left' = [left EXCEPT ![c] = @ - nr] /\ left'[c] = left[c] - nr /\ left[c] - nr \in 0 .. MaxBytes
    BY <1>1, WriterAssumption DEF Advance, TypeOK
  <1>4. /\ pc' = [pc EXCEPT ![c] = IF left'[c] > 0 THEN "chunk" ELSE "idle"]
        /\ pc'[c] \in {"chunk", "idle"} /\ (pc'[c] = "idle" => left'[c] = 0)
    BY <1>1, <1>3 DEF Advance, TypeOK
  <1>5. /\ Append(sent[c], m) \in Seq(Message) /\ sent'[c] = Append(sent[c], m)
        /\ Len(sent'[c]) = Len(sent[c]) + 1 /\ Len(sent[c]) \in Nat
        /\ sent'[c][Len(sent'[c])] = m /\ sent[c] \in Seq(Message)
    <2>1. sent[c] \in Seq(Message) /\ sent'[c] = Append(sent[c], m)
      BY DEF TypeOK
    <2> QED
      BY <1>2, <2>1, AppendFacts
  <1> HIDE DEF m, nr
  <1>6. TypeOK'
    BY <1>3, <1>4, <1>5, ZenonT(30) DEF TypeOK, m
  <1>7. OwnInv'
    <2> SUFFICES ASSUME NEW d \in Conns
                 PROVE  /\ pc'[d] = "record" =>
                             /\ held'[d] \notin pool' /\ content'[held'[d]] = Chunk(d)'
                             /\ \A e \in Conns : pc'[e] = "record" /\ d # e => held'[d] # held'[e]
                        /\ pc'[d] = "hello" => content'[held'[d]] \in Message
      BY DEF OwnInv
    <2>1. CASE d = c
      BY <1>4, <2>1
    <2>2. CASE d # c
      <3>1. pc'[d] = pc[d] /\ left'[d] = left[d] /\ firstRequest'[d] = firstRequest[d]
        BY <1>3, <1>4, <2>2 DEF TypeOK
      <3>2. Chunk(d)' = Chunk(d)
        BY <3>1 DEF Chunk
      <3>3. \A e \in Conns : pc'[e] = "record" => pc[e] = "record"
        BY <1>4 DEF TypeOK
      <3> QED
        BY <2>2, <3>1, <3>2, <3>3 DEF OwnInv
    <2> QED
      BY <2>1, <2>2
  <1>8. PlaceInv'
    <2> SUFFICES ASSUME NEW d \in Conns
                 PROVE  /\ left'[d] <= accepted'[d]
                        /\ pc'[d] = "idle" => left'[d] = 0
                        /\ pc'[d] = "hello" => firstRequest'[d]
                        /\ pc'[d] = "record" => ~firstRequest'[d]
                        /\ pc'[d] # "failed" => (firstRequest'[d] <=> Len(sent'[d]) = 0)
      BY DEF PlaceInv
    <2>1. CASE d = c
      <3>1. ~firstRequest'[c]
        BY DEF TypeOK, PlaceInv
      <3>2. Len(sent'[c]) # 0
        BY <1>5
      <3>3. left'[c] <= accepted'[c]
        BY <1>1, <1>3
      <3> QED
        BY <1>4, <2>1, <3>1, <3>2, <3>3
    <2>2. CASE d # c
      <3>1. /\ pc'[d] = pc[d] /\ left'[d] = left[d] /\ firstRequest'[d] = firstRequest[d]
            /\ sent'[d] = sent[d] /\ accepted'[d] = accepted[d]
        BY <1>3, <1>4, <2>2 DEF TypeOK
      <3> QED
        BY <3>1, Zenon DEF PlaceInv
    <2> QED
      BY <2>1, <2>2
  <1>9. SentInv'
    <2>1. ASSUME Len(sent[c]) > 0 PROVE m = Chunk(c) /\ ~firstRequest[c]
      BY <1>5, <2>1 DEF OwnInv, PlaceInv, m
    <2>2. Len(sent[c]) > 0 => m.conn = c /\ ~m.hello /\ m.first = accepted[c] - left[c] + 1 /\ m.size = nr
      BY <2>1 DEF Chunk, nr
    <2>3. Len(sent[c]) > 1 => m.first = sent[c][Len(sent[c])].first + sent[c][Len(sent[c])].size
      BY <1>5, <2>2 DEF SentInv
    <2>4. Ordered(c, sent'[c])
      BY <1>2, <1>5, <2>2, <2>3, OrderedAppend DEF SentInv
    <2>5. Len(sent'[c]) > 1 =>
              sent'[c][Len(sent'[c])].first + sent'[c][Len(sent'[c])].size = accepted'[c] - left'[c] + 1
      <3>1. Len(sent'[c]) > 1 => Len(sent[c]) > 0
        BY <1>5
      <3>2. (accepted[c] - left[c] + 1) + nr = accepted[c] - (left[c] - nr) + 1
        BY <1>1
      <3>3. accepted'[c] = accepted[c] /\ left'[c] = left[c] - nr
        BY <1>3
      <3>4. Len(sent[c]) > 0 => m.first + m.size = accepted'[c] - left'[c] + 1
        BY <2>2, <3>2, <3>3
      <3> QED
        BY <1>5, <3>1, <3>4
    <2>6. \A d \in Conns : d # c => /\ pc'[d] = pc[d] /\ left'[d] = left[d] /\ sent'[d] = sent[d]
      BY <1>3, <1>4 DEF TypeOK
    <2> QED
      BY <2>4, <2>5, <2>6 DEF SentInv
  <1> QED
    BY <1>6, <1>7, <1>8, <1>9

LEMMA Inductive == IInv /\ [Next]_vars => IInv'
  <1> SUFFICES ASSUME IInv, [Next]_vars PROVE IInv'
    OBVIOUS
  <1>1. ASSUME NEW c \in Conns, NEW n \in Lens, Write(c, n) PROVE IInv'
    BY <1>1, WriteInv
  <1>2. ASSUME NEW c \in Conns, MakeClientHelloMsg(c) PROVE IInv'
    BY <1>2, BuildInv, Zenon DEF MakeClientHelloMsg
  <1>3. ASSUME NEW c \in Conns, WriteHello(c) PROVE IInv'
    BY <1>3, SendInv, FailInv, Zenon DEF WriteHello
  <1>4. ASSUME NEW c \in Conns, BuildRecord(c) PROVE IInv'
    BY <1>4, BuildInv, ZenonT(30) DEF BuildRecord
  <1>5. ASSUME NEW c \in Conns, WriteRecord(c) PROVE IInv'
    BY <1>5, SendInv, FailInv DEF WriteRecord
  <1>6. CASE UNCHANGED vars
    BY <1>6 DEF vars, IInv, TypeOK, OwnInv, PlaceInv, SentInv, Chunk
  <1> QED
    BY <1>1, <1>2, <1>3, <1>4, <1>5, <1>6 DEF Next

\* The variables of every connection and of the buffer pool keep their types.
THEOREM TypeCorrect == Spec => []TypeOK
  <1>1. IInv => TypeOK
    BY DEF IInv
  <1> QED
    BY <1>1, InitInv, Inductive, PTL DEF Spec

\* However the connections of a process share the bufferpool, and although the
\* hellos may be mixed up, the records behind them are each connection's own, in
\* order, and complete when Write returns.
THEOREM WriterRecordsInOrder == Spec => []RecordsInOrder
  <1>1. IInv => RecordsInOrder
    <2> SUFFICES ASSUME IInv, NEW c \in Conns
                 PROVE  /\ \A i \in 2 .. Len(sent[c]) :
                              /\ sent[c][i].conn = c /\ ~sent[c][i].hello
                              /\ i > 2 => sent[c][i].first = Upto(c, i - 1) + 1
                        /\ pc[c] = "idle" /\ Len(sent[c]) > 1 => Upto(c, Len(sent[c])) = accepted[c]
      BY DEF RecordsInOrder
    <2>1. sent[c] \in Seq(Message) /\ accepted[c] \in Nat /\ left[c] \in Nat /\ Ordered(c, sent[c])
      BY DEF IInv, TypeOK, SentInv
    <2>2. Len(sent[c]) \in Nat
          /\ \A i \in 1 .. Len(sent[c]) : sent[c][i].first \in Nat /\ sent[c][i].size \in Nat
      BY <2>1, MessageFacts
    <2>3. ASSUME NEW i \in 2 .. Len(sent[c]), i > 2 PROVE sent[c][i].first = Upto(c, i - 1) + 1
      <3>1. i - 1 \in 2 .. Len(sent[c]) /\ i - 1 \in 1 .. Len(sent[c]) /\ i = (i - 1) + 1
        BY <2>2, <2>3
      <3>2. sent[c][i].first = sent[c][i - 1].first + sent[c][i - 1].size
        BY <2>1, <3>1 DEF Ordered
      <3> QED
        BY <2>2, <3>1, <3>2, SMTT(20), ZenonT(30) DEF Upto
    <2>4. ASSUME pc[c] = "idle", Len(sent[c]) > 1 PROVE Upto(c, Len(sent[c])) = accepted[c]
      <3>1. left[c] = 0
        BY <2>4 DEF IInv, PlaceInv
      <3>2. sent[c][Len(sent[c])].first + sent[c][Len(sent[c])].size = accepted[c] - left[c] + 1
        BY <2>4 DEF IInv, SentInv
      <3>3. Len(sent[c]) \in 1 .. Len(sent[c])
        BY <2>2, <2>4
      <3>4. sent[c][Len(sent[c])].first \in Nat /\ sent[c][Len(sent[c])].size \in Nat
        BY <2>2, <3>3
      <3>5. \A f, s, a \in Nat : f + s = a - left[c] + 1 => f + s - 1 = a
        BY <3>1
      <3> QED
        BY <2>1, <3>2, <3>4, <3>5, ZenonT(30) DEF Upto
    <2> QED
      BY <2>1, <2>3, <2>4 DEF Ordered
  <1> QED
    BY <1>1, InitInv, Inductive, PTL DEF Spec

-----------------------------------------------------------------------------
(* Numbers, powers of two and sums, by induction: a least counterexample.    *)

INSTANCE FiniteSetTheorems

\* A set of naturals has a least element.
LEMMA LeastNat ==
    ASSUME NEW T, T \subseteq Nat, T # {}
    PROVE  \E x \in T : \A y \in T : x <= y
  <1> DEFINE R == OpToRel(<, Nat)
  <1>1. IsWellFoundedOn(R, Nat)
    BY NatLessThanWellFounded, Zenon
  <1>2. \A y, x \in Nat : y < x => <<y, x>> \in R
    BY DEF OpToRel
  <1> HIDE DEF R
  <1>3. PICK x \in T : \A y \in T : ~ (<<y, x>> \in R)
    BY <1>1, WFMin, Zenon
  <1>4. ASSUME NEW y \in T PROVE x <= y
    <2>1. x \in Nat /\ y \in Nat /\ ~(y < x)
      BY <1>2, <1>3, Zenon
    <2> QED BY <2>1
  <1> QED
    BY <1>4

\* Induction, for a set in place of a predicate.
LEMMA NatInd ==
    ASSUME NEW S, 0 \in S, \A n \in Nat : n \in S => n + 1 \in S
    PROVE  Nat \subseteq S
  <1> SUFFICES ASSUME Nat \ S # {} PROVE FALSE
    OBVIOUS
  <1>1. PICK x \in Nat \ S : \A y \in Nat \ S : x <= y
    BY LeastNat, Zenon
  <1>2. x # 0 /\ x - 1 \in Nat /\ x - 1 \in S
    BY <1>1
  <1> QED
    BY <1>1, <1>2

\* Powers of two, from the number of subsets of a finite set.
LEMMA PowNat ==
    ASSUME NEW k \in Nat
    PROVE  /\ 2^k \in Nat \ {0} /\ 2^k = Cardinality(SUBSET (1 .. k))
           /\ IsFiniteSet(SUBSET (1 .. k))
  <1>1. IsFiniteSet(1 .. k) /\ Cardinality(1 .. k) = k
    BY FS_Interval
  <1>2. IsFiniteSet(SUBSET (1 .. k)) /\ Cardinality(SUBSET (1 .. k)) = 2^k
    BY <1>1, FS_SUBSET
  <1>3. {} \in SUBSET (1 .. k)
    OBVIOUS
  <1>4. Cardinality(SUBSET (1 .. k)) # 0
    BY <1>2, <1>3, FS_EmptySet
  <1> QED
    BY <1>2, <1>4, FS_CardinalityType

\* Half of the subsets of 1..k+1 have k + 1 in them.
LEMMA PowStep == ASSUME NEW k \in Nat PROVE 2^(k + 1) = 2 * 2^k
  <1> DEFINE S == SUBSET (1 .. k)
             T == {s \cup {k + 1} : s \in S}
             f == [s \in S |-> s \cup {k + 1}]
  <1>1. \A s \in S : k + 1 \notin s
    OBVIOUS
  <1>2. f \in Bijection(S, T)
    <2>1. f \in [S -> T]
      OBVIOUS
    <2>2. ASSUME NEW a \in S, NEW b \in S, f[a] = f[b] PROVE a = b
      <3>1. a = f[a] \ {k + 1} /\ b = f[b] \ {k + 1}
        BY <1>1
      <3> QED
        BY <2>2, <3>1
    <2>3. \A t \in T : \E s \in S : f[s] = t
      OBVIOUS
    <2> HIDE DEF f, S, T
    <2>4. f \in Injection(S, T)
      BY <2>1, <2>2 DEF Injection, IsInjective
    <2>5. f \in Surjection(S, T)
      BY <2>1, <2>3 DEF Surjection
    <2> QED
      BY <2>4, <2>5 DEF Bijection
  <1>3. ExistsBijection(S, T)
    BY <1>2, Zenon DEF ExistsBijection
  <1>4. IsFiniteSet(S) /\ Cardinality(S) = 2^k /\ 2^k \in Nat
    BY PowNat, Zenon
  <1>5. IsFiniteSet(T) /\ Cardinality(T) = 2^k
    BY <1>3, <1>4, FS_Bijection
  <1>6. S \cap T = {}
    BY <1>1
  <1>7. SUBSET (1 .. (k + 1)) = S \cup T
    <2>1. ASSUME NEW s \in SUBSET (1 .. (k + 1)) PROVE s \in S \cup T
      <3>1. CASE k + 1 \in s
        <4>1. s \ {k + 1} \in S
          OBVIOUS
        <4>2. s = (s \ {k + 1}) \cup {k + 1}
          BY <3>1
        <4> QED
          BY <4>1, <4>2, Zenon
      <3>2. CASE k + 1 \notin s
        BY <3>2
      <3> QED
        BY <3>1, <3>2
    <2>2. ASSUME NEW s \in S \cup T PROVE s \in SUBSET (1 .. (k + 1))
      OBVIOUS
    <2> QED
      BY <2>1, <2>2, Zenon
  <1> HIDE DEF S, T
  <1>8. Cardinality(S \cup T) = Cardinality(S) + Cardinality(T) - Cardinality(S \cap T)
    BY <1>4, <1>5, FS_Union
  <1>9. Cardinality(S \cap T) = 0
    BY <1>6, FS_EmptySet
  <1>10. 2^(k + 1) = Cardinality(SUBSET (1 .. (k + 1)))
    BY PowNat
  <1>11. ASSUME NEW p \in Nat, Cardinality(S) = p, Cardinality(T) = p
         PROVE  Cardinality(S \cup T) = 2 * p
    BY <1>8, <1>9, <1>11
  <1> QED
    BY <1>4, <1>5, <1>7, <1>10, <1>11, Zenon

\* Of two powers the larger is at least twice the smaller.
LEMMA PowMonotonic ==
    ASSUME NEW j \in Nat, NEW k \in Nat, j < k
    PROVE  2 * 2^j <= 2^k
  <1> DEFINE S == {n \in Nat : 2 * 2^j <= 2^(j + 1 + n)}
  <1>1. 0 \in S
    <2>1. 2^(j + 1) = 2 * 2^j /\ 2^j \in Nat
      BY PowStep, PowNat, Zenon
    <2>2. j + 1 + 0 = j + 1
      OBVIOUS
    <2> QED
      BY <2>1, <2>2
  <1>2. ASSUME NEW n \in Nat, n \in S PROVE n + 1 \in S
    <2>1. j + 1 + n \in Nat /\ (j + 1 + n) + 1 = j + 1 + (n + 1)
      OBVIOUS
    <2>2. 2^((j + 1 + n) + 1) = 2 * 2^(j + 1 + n) /\ 2^(j + 1 + n) \in Nat /\ 2^j \in Nat
      BY <2>1, PowStep, PowNat, Zenon
    <2>3. 2^(j + 1 + (n + 1)) = 2 * 2^(j + 1 + n)
      BY <2>1, <2>2
    <2>4. ASSUME NEW p \in Nat, NEW q \in Nat, 2 * p <= q PROVE 2 * p <= 2 * q
      BY <2>4
    <2>5. 2 * 2^j <= 2 * 2^(j + 1 + n)
      BY <1>2, <2>2, <2>4
    <2> QED
      BY <2>3, <2>5
  <1> HIDE DEF S
  <1>3. Nat \subseteq S
    BY <1>1, <1>2, NatInd
  <1>4. k - j - 1 \in S /\ j + 1 + (k - j - 1) = k
    BY <1>3
  <1> QED
    BY <1>4 DEF S

\* Every positive number lies between two successive powers.
LEMMA LogExists ==
    ASSUME NEW n \in Nat \ {0}
    PROVE  \E k \in Nat : 2^k <= n /\ n < 2^(k + 1)
  <1> DEFINE S == {m \in Nat : m < 2^m}
             T == {m \in Nat : n < 2^m}
  <1>1. 0 \in S
    BY PowNat
  <1>2. ASSUME NEW m \in Nat, m \in S PROVE m + 1 \in S
    <2>1. 2^(m + 1) = 2 * 2^m /\ 2^m \in Nat /\ m < 2^m
      BY <1>2, PowStep, PowNat
    <2>2. ASSUME NEW p \in Nat, m < p PROVE m + 1 < 2 * p
      BY <2>2
    <2> QED
      BY <2>1, <2>2
  <1>3. Nat \subseteq S
    <2> HIDE DEF S
    <2> QED BY <1>1, <1>2, NatInd
  <1>4. n \in T
    BY <1>3
  <1>5. PICK m \in T : \A i \in T : m <= i
    <2> T \subseteq Nat /\ T # {}
      BY <1>4
    <2> HIDE DEF T
    <2> QED BY LeastNat, Zenon
  <1>6. m # 0
    <2>1. ~(n < 2^0)
      OBVIOUS
    <2>2. n < 2^m
      BY <1>5
    <2> QED
      BY <2>1, <2>2, Zenon
  <1>7. m - 1 \in Nat /\ m - 1 \notin T
    BY <1>5, <1>6
  <1>8. 2^(m - 1) \in Nat /\ (m - 1) + 1 = m
    <2>1. 2^(m - 1) \in Nat
      BY <1>7, PowNat, Zenon
    <2> QED
      BY <1>7, <2>1
  <1>9. 2^(m - 1) <= n /\ n < 2^((m - 1) + 1)
    BY <1>5, <1>7, <1>8
  <1> QED
    BY <1>7, <1>9

\* ... and between one pair of them only.
LEMMA LogUnique ==
    ASSUME NEW n \in Nat, NEW j \in Nat, NEW k \in Nat,
           2^j <= n, n < 2^(j + 1), 2^k <= n, n < 2^(k + 1)
    PROVE  j = k
  <1>0. \A i \in Nat : 2^i \in Nat /\ 2^(i + 1) = 2 * 2^i
    BY PowNat, PowStep, Zenon
  <1>1. CASE j < k
    <2>1. 2 * 2^j <= 2^k
      BY <1>1, PowMonotonic
    <2>2. 2^(j + 1) = 2 * 2^j /\ 2^j \in Nat /\ 2^k \in Nat
      BY <1>0
    <2> QED
      BY <2>1, <2>2
  <1>2. CASE k < j
    <2>1. 2 * 2^k <= 2^j
      BY <1>2, PowMonotonic
    <2>2. 2^(k + 1) = 2 * 2^k /\ 2^j \in Nat /\ 2^k \in Nat
      BY <1>0
    <2> QED
      BY <2>1, <2>2
  <1> QED
    BY <1>1, <1>2

\* The exponent of the largest power that n holds.
Log(n) == CHOOSE k \in Nat : 2^k <= n /\ n < 2^(k + 1)
LenBody(g) == [n \in Nat |-> IF n = 0 THEN 0 ELSE 1 + g[n \div 2]]
\* What bits.Len32 is, in closed form.
LenFcn == [n \in Nat |-> IF n = 0 THEN 0 ELSE 1 + Log(n)]

LEMMA LogFacts ==
    ASSUME NEW n \in Nat \ {0}
    PROVE  Log(n) \in Nat /\ 2^Log(n) <= n /\ n < 2^(Log(n) + 1)
  BY LogExists, Zenon DEF Log

\* The bounds of LogFacts determine Log.
LEMMA LogIs ==
    ASSUME NEW n \in Nat \ {0}, NEW k \in Nat, 2^k <= n, n < 2^(k + 1)
    PROVE  Log(n) = k
  BY LogFacts, LogUnique, Zenon

\* The closed form satisfies the recursion of Len32.
LEMMA LenFcnSolves == LenFcn = LenBody(LenFcn)
  <1>1. ASSUME NEW n \in Nat PROVE LenFcn[n] = IF n = 0 THEN 0 ELSE 1 + LenFcn[n \div 2]
    <2>1. CASE n = 0
      BY <2>1 DEF LenFcn
    <2>2. CASE n = 1
      <3>1. 2^0 = 1 /\ 2^(0 + 1) = 2 * 2^0
        BY PowStep
      <3>2. Log(1) = 0
        <4>1. 2^0 <= 1 /\ 1 < 2^(0 + 1) /\ 0 \in Nat /\ 1 \in Nat \ {0}
          BY <3>1
        <4> QED
          BY <4>1, LogIs, Zenon
      <3> QED
        BY <2>2, <3>2 DEF LenFcn
    <2>3. CASE n > 1
      <3> DEFINE m == n \div 2  k == Log(m)
      <3>1. m \in Nat \ {0} /\ (n = 2 * m \/ n = 2 * m + 1)
        BY <2>3
      <3> HIDE DEF m
      <3>2. k \in Nat /\ 2^k <= m /\ m < 2^(k + 1)
        BY <3>1, LogFacts
      <3> HIDE DEF k
      <3>3. /\ 2^k \in Nat /\ 2^(k + 1) \in Nat /\ 2^(k + 1) = 2 * 2^k
            /\ 2^((k + 1) + 1) = 2 * 2^(k + 1)
        <4>1. k \in Nat /\ k + 1 \in Nat
          BY <3>2
        <4> QED
          BY <4>1, PowNat, PowStep, Zenon
      <3>4. ASSUME NEW p \in Nat, NEW q \in Nat, p <= m, m < q PROVE 2 * p <= n /\ n < 2 * q
        BY <3>1, <3>4
      <3>5. 2^(k + 1) <= n /\ n < 2^((k + 1) + 1)
        BY <3>2, <3>3, <3>4
      <3>6. Log(n) = k + 1
        BY <2>3, <3>2, <3>5, LogIs
      <3> QED
        BY <2>3, <3>1, <3>2, <3>6 DEF LenFcn, m, k
    <2> QED
      BY <2>1, <2>2, <2>3
  <1> QED
    BY <1>1 DEF LenFcn, LenBody


\* The element of s that a fold takes first, and the recursion of SumFunction.
Some(s) == CHOOSE x \in s : TRUE
SumBody(f, g) == [s \in SUBSET DOMAIN f |-> IF s = {} THEN 0 ELSE f[Some(s)] + g[s \ {Some(s)}]]

LEMMA SumUnfold ==
    ASSUME NEW f
    PROVE SumFunction(f) = (CHOOSE g : g = SumBody(f, g))[DOMAIN f]
  BY Zenon DEF SumFunction, SumFunctionOnSet, FoldFunctionOnSet, MapThenFoldSet, SumBody, Some

\* Induction over the subsets of a finite set, removing that element.
LEMMA FinInd ==
    ASSUME NEW S, IsFiniteSet(S), NEW T, {} \in T,
           \A s \in SUBSET S : s # {} /\ s \ {Some(s)} \in T => s \in T
    PROVE  SUBSET S \subseteq T
  <1> DEFINE D == (SUBSET S) \ T
             C == {Cardinality(s) : s \in D}
  <1> SUFFICES ASSUME D # {} PROVE FALSE
    OBVIOUS
  <1>0. \A s \in SUBSET S : IsFiniteSet(s) /\ Cardinality(s) \in Nat
    BY FS_Subset, FS_CardinalityType
  <1>1. C \subseteq Nat /\ C # {}
    BY <1>0
  <1>2. PICK n \in C : \A m \in C : n <= m
    <2> HIDE DEF C
    <2> QED BY <1>1, LeastNat, Zenon
  <1>3. PICK s \in D : n = Cardinality(s)
    BY <1>2
  <1>4. s # {} /\ s \in SUBSET S
    BY <1>3, ZenonT(30)
  <1>5. Some(s) \in s
    BY <1>4 DEF Some
  <1>6. Cardinality(s \ {Some(s)}) = n - 1 /\ n \in Nat
    BY <1>0, <1>3, <1>4, <1>5, FS_RemoveElement
  <1>7. s \ {Some(s)} \notin D
    BY <1>2, <1>6
  <1> QED
    BY <1>3, <1>4, <1>7

\* f[x] pairs for every x in s: the sum of f over s is their number.
Pairs(f, s) == {p \in (DOMAIN f) \X Nat : p[1] \in s /\ p[2] < f[p[1]]}

LEMMA PairsAdd ==
    ASSUME NEW S, NEW f \in [S -> Nat], NEW s \in SUBSET S, NEW x \in s,
           IsFiniteSet(Pairs(f, s \ {x}))
    PROVE  /\ IsFiniteSet(Pairs(f, s))
           /\ Cardinality(Pairs(f, s)) = f[x] + Cardinality(Pairs(f, s \ {x}))
  <1> DEFINE n == f[x]
             P == Pairs(f, s \ {x})
             Q == {x} \X (0 .. n - 1)
  <1>0. n \in Nat
    OBVIOUS
  <1>1. Pairs(f, s) = P \cup Q
    <2>1. ASSUME NEW p \in Pairs(f, s) PROVE p \in P \cup Q
      BY <2>1, <1>0 DEF Pairs
    <2>2. ASSUME NEW p \in P PROVE p \in Pairs(f, s)
      BY <2>2 DEF Pairs
    <2>3. ASSUME NEW p \in Q PROVE p \in Pairs(f, s)
      BY <2>3, <1>0 DEF Pairs
    <2> QED
      BY <2>1, <2>2, <2>3
  <1>2. P \cap Q = {}
    BY DEF Pairs
  <1>3. IsFiniteSet(0 .. n - 1) /\ Cardinality(0 .. n - 1) = n
    <2>1. 0 \in Int /\ n - 1 \in Int
      BY <1>0
    <2>2. IsFiniteSet(0 .. n - 1) /\ Cardinality(0 .. n - 1) = IF 0 > n - 1 THEN 0 ELSE (n - 1) - 0 + 1
      BY <2>1, FS_Interval, Zenon
    <2> QED
      BY <1>0, <2>2
  <1>4. IsFiniteSet(Q) /\ Cardinality(Q) = 1 * n
    <2>1. IsFiniteSet({x}) /\ Cardinality({x}) = 1
      BY FS_Singleton, Zenon
    <2>2. ASSUME NEW U, NEW V, IsFiniteSet(U), IsFiniteSet(V)
          PROVE  IsFiniteSet(U \X V) /\ Cardinality(U \X V) = Cardinality(U) * Cardinality(V)
      BY <2>2, FS_Product
    <2>3. IsFiniteSet(Q) /\ Cardinality(Q) = Cardinality({x}) * Cardinality(0 .. n - 1)
      <3> HIDE DEF n
      <3> QED BY <1>3, <2>1, <2>2, Zenon DEF Q
    <2> QED
      BY <1>3, <2>1, <2>3
  <1> HIDE DEF P, Q, n
  <1>5. IsFiniteSet(P \cup Q)
        /\ Cardinality(P \cup Q) = Cardinality(P) + Cardinality(Q) - Cardinality({})
    <2>1. IsFiniteSet(P)
      BY DEF P
    <2>2. IsFiniteSet(P \cup Q)
          /\ Cardinality(P \cup Q) = Cardinality(P) + Cardinality(Q) - Cardinality(P \cap Q)
      BY <1>4, <2>1, FS_Union
    <2> QED
      BY <1>2, <2>2, Zenon
  <1>6. Cardinality(P) \in Nat /\ Cardinality({}) = 0
    BY FS_EmptySet, FS_CardinalityType DEF P
  <1>7. Cardinality(P \cup Q) = n + Cardinality(P)
    BY <1>0, <1>4, <1>5, <1>6
  <1> QED
    BY <1>1, <1>5, <1>7 DEF n, P

LEMMA PairsFinite ==
    ASSUME NEW S, IsFiniteSet(S), NEW f \in [S -> Nat], NEW s \in SUBSET S
    PROVE  IsFiniteSet(Pairs(f, s)) /\ Cardinality(Pairs(f, s)) \in Nat
  <1> DEFINE T == {r \in SUBSET S : IsFiniteSet(Pairs(f, r))}
  <1>1. {} \in T
    <2>1. Pairs(f, {}) = {}
      BY DEF Pairs
    <2> QED
      BY <2>1, FS_EmptySet
  <1>2. ASSUME NEW r \in SUBSET S, r # {}, r \ {Some(r)} \in T PROVE r \in T
    <2>1. Some(r) \in r
      BY <1>2 DEF Some
    <2> QED
      BY <1>2, <2>1, PairsAdd
  <1> HIDE DEF T
  <1>3. SUBSET S \subseteq T
    BY <1>1, <1>2, FinInd
  <1> QED
    BY <1>3, FS_CardinalityType DEF T

\* A sum of naturals over a finite set is a number of pairs, ...
LEMMA SumIs ==
    ASSUME NEW S, IsFiniteSet(S), NEW f \in [S -> Nat]
    PROVE  SumFunction(f) = Cardinality(Pairs(f, S))
  <1> DEFINE h == [s \in SUBSET S |-> Cardinality(Pairs(f, s))]
             g == CHOOSE k : k = SumBody(f, k)
  <1>0. DOMAIN f = S /\ \A s : s # {} => Some(s) \in s
    BY DEF Some
  <1>1. h = SumBody(f, h)
    <2>1. Cardinality(Pairs(f, {})) = 0
      <3>1. Pairs(f, {}) = {}
        BY DEF Pairs
      <3> QED
        BY <3>1, FS_EmptySet
    <2>2. ASSUME NEW s \in SUBSET S, s # {}
          PROVE  h[s] = f[Some(s)] + h[s \ {Some(s)}]
      BY <1>0, <2>2, PairsAdd, PairsFinite
    <2> QED
      BY <1>0, <2>1, <2>2, Zenon DEF SumBody
  <1>2. g = SumBody(f, g)
    <2> HIDE DEF h
    <2> QED BY <1>1, Zenon
  <1> HIDE DEF g
  <1> DEFINE T == {s \in SUBSET S : g[s] = h[s]}
  <1>3. \A s \in SUBSET S : /\ s = {} => g[s] = h[s]
                            /\ s # {} => /\ g[s] = f[Some(s)] + g[s \ {Some(s)}]
                                         /\ h[s] = f[Some(s)] + h[s \ {Some(s)}]
    <2> HIDE DEF h
    <2>1. ASSUME NEW s \in SUBSET S
          PROVE  /\ g[s] = IF s = {} THEN 0 ELSE f[Some(s)] + g[s \ {Some(s)}]
                 /\ h[s] = IF s = {} THEN 0 ELSE f[Some(s)] + h[s \ {Some(s)}]
      BY <1>0, <1>1, <1>2, Zenon DEF SumBody
    <2> QED
      BY <2>1, Zenon
  <1> HIDE DEF h
  <1>4. {} \in T /\ \A s \in SUBSET S : s # {} /\ s \ {Some(s)} \in T => s \in T
    BY <1>3, Zenon
  <1>5. SUBSET S \subseteq T
    <2> HIDE DEF T
    <2> QED BY <1>4, FinInd
  <1>6. g[S] = h[S]
    BY <1>5
  <1> QED
    BY <1>0, <1>6, SumUnfold DEF g, h

\* ... so it is a natural, ...
LEMMA SumNat ==
    ASSUME NEW S, IsFiniteSet(S), NEW f \in [S -> Nat]
    PROVE  SumFunction(f) \in Nat
  BY SumIs, PairsFinite

\* ... follows a change at one place, ...
LEMMA SumExcept ==
    ASSUME NEW S, IsFiniteSet(S), NEW f \in [S -> Nat], NEW t \in S, NEW v \in Nat
    PROVE  SumFunction([f EXCEPT ![t] = v]) = SumFunction(f) - f[t] + v
  <1> DEFINE g == [f EXCEPT ![t] = v]
             s == S \ {t}
  <1>1. g \in [S -> Nat] /\ g[t] = v
    OBVIOUS
  <1>2. Pairs(g, s) = Pairs(f, s)
    BY DEF Pairs
  <1> HIDE DEF g
  <1>3. /\ Cardinality(Pairs(f, S)) = f[t] + Cardinality(Pairs(f, s))
        /\ Cardinality(Pairs(g, S)) = v + Cardinality(Pairs(g, s))
        /\ Cardinality(Pairs(f, s)) \in Nat
    BY <1>1, PairsAdd, PairsFinite
  <1>4. SumFunction(f) = Cardinality(Pairs(f, S)) /\ SumFunction(g) = Cardinality(Pairs(g, S))
    BY <1>1, SumIs, Zenon
  <1>5. SumFunction(g) = SumFunction(f) - f[t] + v
    BY <1>2, <1>3, <1>4
  <1> QED
    BY <1>5 DEF g

\* ... and grows with its terms.
LEMMA SumMonotonic ==
    ASSUME NEW S, IsFiniteSet(S), NEW f \in [S -> Nat], NEW g \in [S -> Nat],
           \A t \in S : f[t] <= g[t]
    PROVE  SumFunction(f) <= SumFunction(g)
  <1>1. Pairs(f, S) \subseteq Pairs(g, S)
    BY DEF Pairs
  <1> QED
    BY <1>1, SumIs, PairsFinite, FS_Subset

LEMMA SumZero ==
    ASSUME NEW S, IsFiniteSet(S)
    PROVE  SumFunction([t \in S |-> 0]) = 0
  <1> DEFINE f == [t \in S |-> 0]
  <1>1. f \in [S -> Nat]
    OBVIOUS
  <1>2. Pairs(f, S) = {}
    BY DEF Pairs
  <1> HIDE DEF f
  <1>3. SumFunction(f) = 0
    BY <1>1, <1>2, SumIs, FS_EmptySet
  <1> QED
    BY <1>3 DEF f

-----------------------------------------------------------------------------
(* Allocator. *)

\* Len32 is defined by recursion; a solution exists, ...
LEMMA Len32Solves == Alloc!Len32 = LenBody(Alloc!Len32)
  <1>1. \E g : g = LenBody(g)
    BY LenFcnSolves
  <1> QED
    BY <1>1, Zenon DEF Alloc!Len32, LenBody

\* ... and there is one only: bits.Len32 is the number of binary digits.
LEMMA Len32Is == ASSUME NEW n \in Nat \ {0} PROVE Alloc!Len32[n] = 1 + Log(n)
  <1> DEFINE T == {m \in Nat : Alloc!Len32[m] # LenFcn[m]}
  <1>0. /\ \A m \in Nat : Alloc!Len32[m] = IF m = 0 THEN 0 ELSE 1 + Alloc!Len32[m \div 2]
        /\ \A m \in Nat : LenFcn[m] = IF m = 0 THEN 0 ELSE 1 + LenFcn[m \div 2]
    BY Len32Solves, LenFcnSolves DEF LenBody
  <1>1. ASSUME T # {} PROVE FALSE
    <2>1. PICK m \in T : \A i \in T : m <= i
      <3> T \subseteq Nat
        OBVIOUS
      <3> HIDE DEF T
      <3> QED BY <1>1, LeastNat, Zenon
    <2>2. m # 0
      BY <1>0, <2>1
    <2>3. m \div 2 \in Nat /\ m \div 2 < m
      BY <2>2
    <2>4. m \div 2 \notin T
      BY <2>1, <2>3
    <2> QED
      BY <1>0, <2>1, <2>2, <2>3, <2>4
  <1> QED
    BY <1>1 DEF LenFcn

\* Sizes that the pools serve have their most significant bit where msb says.
LEMMA MsbIs ==
    ASSUME NEW n \in Nat \ {0}, n <= Alloc!MaxSize
    PROVE  /\ Alloc!msb(n) = Log(n) /\ Alloc!msb(n) \in Alloc!Classes
           /\ 2^Alloc!msb(n) <= n /\ n < 2 * 2^Alloc!msb(n)
  <1> DEFINE k == Log(n)
  <1>1. k \in Nat /\ 2^k <= n /\ n < 2^(k + 1)
    BY LogFacts
  <1> HIDE DEF k
  <1>2. MaxClass \in Nat /\ MaxClass <= 16
    BY PartAssumptions DEF Alloc!AllocatorAssumption
  <1>3. 2^k \in Nat /\ 2^(k + 1) = 2 * 2^k /\ 2^MaxClass \in Nat \ {0}
    BY <1>1, <1>2, PowNat, PowStep, Zenon
  <1>4. k <= MaxClass
    <2> SUFFICES ASSUME MaxClass < k PROVE FALSE
      BY <1>1, <1>2
    <2>1. 2 * 2^MaxClass <= 2^k
      BY <1>1, <1>2, PowMonotonic
    <2> QED
      BY <1>1, <1>3, <2>1 DEF Alloc!MaxSize
  <1>5. Alloc!Len32[n] - 1 = k
    <2>1. Alloc!Len32[n] = 1 + k
      BY Len32Is DEF k
    <2> QED
      BY <1>1, <2>1
  <1>6. k % 2^16 = k
    <2>1. 2^16 = 65536
      OBVIOUS
    <2> QED
      BY <1>1, <1>2, <1>4, <2>1
  <1>7. Alloc!msb(n) = k
    BY <1>5, <1>6 DEF Alloc!msb
  <1>8. k \in Alloc!Classes
    BY <1>1, <1>2, <1>4 DEF Alloc!Classes
  <1>9. n < 2 * 2^k
    BY <1>1, <1>3
  <1> QED
    BY <1>1, <1>7, <1>8, <1>9, Zenon DEF k

\* A power of two that a pool serves goes back to that pool.
LEMMA MsbPower ==
    ASSUME NEW k \in Alloc!Classes
    PROVE  /\ 2^k \in Nat \ {0} /\ 2^k <= Alloc!MaxSize
           /\ Alloc!msb(2^k) = k /\ Alloc!Accepts(2^k)
  <1>1. k \in Nat /\ MaxClass \in Nat /\ k <= MaxClass
    BY PartAssumptions DEF Alloc!AllocatorAssumption, Alloc!Classes
  <1>2. 2^k \in Nat \ {0} /\ 2^(k + 1) = 2 * 2^k /\ 2^MaxClass \in Nat \ {0}
    BY <1>1, PowNat, PowStep, Zenon
  <1>3. 2^k <= Alloc!MaxSize
    <2>1. CASE k = MaxClass
      BY <1>2, <2>1 DEF Alloc!MaxSize
    <2>2. CASE k < MaxClass
      <3>1. 2 * 2^k <= 2^MaxClass
        BY <1>1, <2>2, PowMonotonic
      <3> QED
        BY <1>2, <3>1 DEF Alloc!MaxSize
    <2> QED
      BY <1>1, <2>1, <2>2
  <1>4. 2^k <= 2^k /\ 2^k < 2^(k + 1)
    BY <1>2
  <1>5. Log(2^k) = k
    BY <1>1, <1>2, <1>4, LogIs, Zenon
  <1>6. Alloc!msb(2^k) = k
    BY <1>2, <1>3, <1>5, MsbIs, Zenon
  <1>7. 2^k # 0
    BY <1>2
  <1> QED
    BY <1>2, <1>3, <1>6, <1>7, Zenon DEF Alloc!Accepts

\* The pool that Get chooses is the one of the least power that holds the size.
LEMMA ClassIs ==
    ASSUME NEW n \in Nat \ {0}, n <= Alloc!MaxSize
    PROVE  /\ Alloc!Class(n) \in Alloc!Classes
           /\ 2^Alloc!Class(n) = Alloc!Least(n)
           /\ Alloc!Least(n) < 2 * n
  <1> DEFINE b == Alloc!msb(n)  c == Alloc!Class(n)
  <1>0. MaxClass \in Nat
    BY PartAssumptions DEF Alloc!AllocatorAssumption
  <1>1. b \in Alloc!Classes /\ 2^b <= n /\ n < 2 * 2^b
    BY MsbIs
  <1> HIDE DEF b
  <1>2. b \in Nat /\ b <= MaxClass /\ 2^b \in Nat \ {0} /\ 2^(b + 1) = 2 * 2^b
    <2>1. b \in Nat /\ b <= MaxClass
      BY <1>0, <1>1 DEF Alloc!Classes
    <2> QED
      BY <2>1, PowNat, PowStep, Zenon
  <1>3. c = IF n = 2^b THEN b ELSE b + 1
    BY DEF Alloc!Class, b
  <1> HIDE DEF c
  <1>4. c \in Alloc!Classes /\ n <= 2^c /\ 2^c < 2 * n /\ 2^c \in Nat
    <2>1. CASE n = 2^b
      <3>1. c = b
        BY <1>3, <2>1
      <3> QED
        BY <1>1, <1>2, <2>1, <3>1
    <2>2. CASE n # 2^b
      <3>1. c = b + 1
        BY <1>3, <2>2
      <3>2. b # MaxClass
        BY <1>1, <1>2, <2>2 DEF Alloc!MaxSize
      <3>3. c \in Alloc!Classes
        BY <1>0, <1>2, <3>1, <3>2 DEF Alloc!Classes
      <3>4. 2^c = 2 * 2^b
        BY <1>2, <3>1
      <3> QED
        BY <1>1, <1>2, <2>2, <3>3, <3>4
    <2> QED
      BY <2>1, <2>2
  <1>5. ASSUME NEW j \in Alloc!Classes, n <= 2^j PROVE 2^c <= 2^j
    <2>1. j \in Nat /\ c \in Nat
      BY <1>0, <1>4 DEF Alloc!Classes
    <2>2. 2^j \in Nat /\ 2^c \in Nat
      BY <2>1, PowNat, Zenon
    <2>3. ~(j < c)
      <3> SUFFICES ASSUME j < c PROVE FALSE
        OBVIOUS
      <3>1. 2 * 2^j <= 2^c
        BY <2>1, PowMonotonic
      <3> QED
        BY <1>4, <1>5, <2>2, <3>1
    <2>4. CASE j = c
      BY <2>2, <2>4
    <2>5. CASE c < j
      <3>1. 2 * 2^c <= 2^j
        BY <2>1, <2>5, PowMonotonic
      <3> QED
        BY <2>2, <3>1
    <2> QED
      BY <2>1, <2>3, <2>4, <2>5
  <1>6. Alloc!Least(n) = 2^c
    <2> DEFINE P == {2^k : k \in {j \in Alloc!Classes : n <= 2^j}}
    <2>1. 2^c \in P
      BY <1>4
    <2>2. \A y \in P : 2^c <= y
      BY <1>5
    <2>3. \A x \in P : x \in Nat
      <3>1. \A j \in Alloc!Classes : j \in Nat
        BY <1>0 DEF Alloc!Classes
      <3> QED
        BY <3>1, PowNat
    <2> HIDE DEF P
    <2>4. \A x \in P : (\A y \in P : x <= y) => x = 2^c
      BY <2>1, <2>2, <2>3, <1>4
    <2>5. Alloc!Min(P) = 2^c
      BY <2>1, <2>2, <2>4, Zenon DEF Alloc!Min
    <2> QED
      BY <2>5 DEF Alloc!Least, P
  <1> QED
    BY <1>4, <1>6, Zenon DEF c

\* A buffer is in one pool or with one user, and fits its pool.
OnePlace ==
    /\ \A u, v \in Users : relayHeld[u] = relayHeld[v] /\ relayHeld[u] # Alloc!Nil => u = v
    /\ \A u \in Users, k \in Alloc!Classes : relayHeld[u] \notin relayPool[k]
    /\ \A k, j \in Alloc!Classes : k # j => relayPool[k] \cap relayPool[j] = {}
    /\ Alloc!PooledCapacity

\* What is held or pooled exists; capacities are those of the pools.
BuffersInv ==
    /\ relayPool \in [Alloc!Classes -> SUBSET Bufs]
    /\ capacity \in [Bufs -> {Alloc!Unborn} \cup {2^k : k \in Alloc!Classes}]
    /\ relayHeld \in [Users -> Bufs \cup {Alloc!Nil}]
    /\ len \in [Users -> Int]
    /\ \A u \in Users : relayHeld[u] # Alloc!Nil => capacity[relayHeld[u]] # Alloc!Unborn
    /\ OnePlace

\* No capacity is the mark of a buffer that does not exist.
LEMMA UnbornIs == \A k \in Alloc!Classes : 2^k # Alloc!Unborn
  <1>1. \A k \in Alloc!Classes : 2^k \in Nat
    BY MsbPower
  <1> QED
    BY <1>1 DEF Alloc!Unborn

LEMMA BuffersInit == ASSUME Alloc!Init PROVE BuffersInv
  <1> USE DEF Alloc!Init
  <1>1. relayPool \in [Alloc!Classes -> SUBSET Bufs] /\ \A k \in Alloc!Classes : relayPool[k] = {}
    OBVIOUS
  <1>2. capacity \in [Bufs -> {Alloc!Unborn} \cup {2^k : k \in Alloc!Classes}]
    OBVIOUS
  <1>3. relayHeld \in [Users -> Bufs \cup {Alloc!Nil}] /\ \A u \in Users : relayHeld[u] = Alloc!Nil
    OBVIOUS
  <1>4. len \in [Users -> Int]
    OBVIOUS
  <1> QED
    BY <1>1, <1>2, <1>3, <1>4 DEF BuffersInv, OnePlace, Alloc!PooledCapacity

\* A buffer that moves from a pool or from nowhere to a user that held none.
LEMMA TakeInv ==
    ASSUME BuffersInv, NEW u \in Users, relayHeld[u] = Alloc!Nil, NEW k \in Alloc!Classes,
           NEW b \in Bufs, Alloc!Take(u, k, b) \/ Alloc!Make(u, k, b), len' \in [Users -> Int]
    PROVE  BuffersInv' /\ relayHeld'[u] = b /\ capacity'[b] = 2^k
           /\ \A v \in Users : v # u => relayHeld'[v] = relayHeld[v]
  <1> USE DEF BuffersInv
  <1>0. \A j \in Alloc!Classes : 2^j # Alloc!Unborn
    BY UnbornIs
  <1>a. b # Alloc!Nil
    BY PartAssumptions DEF Alloc!AllocatorAssumption
  <1>b. relayHeld' = [relayHeld EXCEPT ![u] = b]
    BY DEF Alloc!Take, Alloc!Make
  <1>1. CASE Alloc!Take(u, k, b)
    <2>1. b \in relayPool[k] /\ relayPool' = [relayPool EXCEPT ![k] = @ \ {b}] /\ capacity' = capacity
      BY <1>1 DEF Alloc!Take
    <2>2. capacity[b] = 2^k
      BY <2>1 DEF OnePlace, Alloc!PooledCapacity
    <2>3. relayPool' \in [Alloc!Classes -> SUBSET Bufs] /\ relayHeld' \in [Users -> Bufs \cup {Alloc!Nil}]
      BY <1>b, <2>1
    <2>4. \A v \in Users : relayHeld[v] # b
      BY <2>1 DEF OnePlace, Alloc!PooledCapacity
    <2>5. \A j \in Alloc!Classes : relayPool'[j] \subseteq relayPool[j] /\ b \notin relayPool'[j]
      BY <2>1 DEF OnePlace, Alloc!PooledCapacity
    <2>6. OnePlace'
      BY <1>a, <1>b, <2>1, <2>3, <2>4, <2>5, SMTT(40) DEF OnePlace, Alloc!PooledCapacity
    <2>7. \A v \in Users : relayHeld'[v] # Alloc!Nil => capacity'[relayHeld'[v]] # Alloc!Unborn
      BY <1>0, <1>b, <2>1, <2>2
    <2> QED
      BY <1>b, <2>1, <2>2, <2>3, <2>6, <2>7
  <1>2. CASE Alloc!Make(u, k, b)
    <2>1. capacity[b] = Alloc!Unborn /\ capacity' = [capacity EXCEPT ![b] = 2^k] /\ relayPool' = relayPool
      BY <1>2 DEF Alloc!Make
    <2>2. capacity' \in [Bufs -> {Alloc!Unborn} \cup {2^j : j \in Alloc!Classes}]
      BY <2>1
    <2>3. relayHeld' \in [Users -> Bufs \cup {Alloc!Nil}]
      BY <1>b
    <2>4. \A v \in Users : relayHeld[v] # b
      BY <1>a, <2>1
    <2>5. \A j \in Alloc!Classes : b \notin relayPool[j]
      BY <1>0, <2>1 DEF OnePlace, Alloc!PooledCapacity
    <2>6. OnePlace'
      BY <1>a, <1>b, <2>1, <2>3, <2>4, <2>5 DEF OnePlace, Alloc!PooledCapacity
    <2>7. \A v \in Users : relayHeld'[v] # Alloc!Nil => capacity'[relayHeld'[v]] # Alloc!Unborn
      BY <1>0, <1>b, <2>1, <2>4
    <2> QED
      BY <1>b, <2>1, <2>2, <2>3, <2>6, <2>7
  <1> QED
    BY <1>1, <1>2

\* Get: the user has a buffer of the least capacity, and nobody else a new one.
LEMMA GetInv ==
    ASSUME BuffersInv, NEW u \in Users, Alloc!Get(u)
    PROVE  /\ BuffersInv' /\ capacity'[relayHeld'[u]] = Alloc!Least(len'[u]) /\ Alloc!Least(len'[u]) < 2 * len'[u]
           /\ \A v \in Users : v # u => relayHeld'[v] = relayHeld[v]
  <1>1. PICK n \in GetSizes : /\ 0 < n /\ n <= Alloc!MaxSize
                           /\ len' = [len EXCEPT ![u] = n]
                           /\ \E b \in Bufs : Alloc!Take(u, Alloc!Class(n), b) \/ Alloc!Make(u, Alloc!Class(n), b)
    BY Zenon DEF Alloc!Get
  <1>2. n \in Nat \ {0}
    BY <1>1, PartAssumptions DEF Alloc!AllocatorAssumption
  <1>3. Alloc!Class(n) \in Alloc!Classes /\ 2^Alloc!Class(n) = Alloc!Least(n) /\ Alloc!Least(n) < 2 * n
    BY <1>1, <1>2, ClassIs
  <1>4. len' \in [Users -> Int] /\ len'[u] = n
    BY <1>1, <1>2 DEF BuffersInv
  <1>5. PICK b \in Bufs : Alloc!Take(u, Alloc!Class(n), b) \/ Alloc!Make(u, Alloc!Class(n), b)
    BY <1>1
  <1>6. BuffersInv' /\ relayHeld'[u] = b /\ capacity'[b] = 2^Alloc!Class(n) /\ \A v \in Users : v # u => relayHeld'[v] = relayHeld[v]
    BY <1>3, <1>4, <1>5, TakeInv DEF Alloc!Get
  <1> QED
    BY <1>3, <1>4, <1>6, Zenon

\* Put: nobody has a new buffer.
LEMMA PutInv ==
    ASSUME BuffersInv, NEW u \in Users, Alloc!Put(u)
    PROVE  BuffersInv' /\ \A v \in Users : relayHeld'[v] # Alloc!Nil => relayHeld[v] = relayHeld'[v]
  <1> USE DEF BuffersInv
  <1> DEFINE b == relayHeld[u]
  <1>1. b \in Bufs /\ capacity[b] # Alloc!Unborn /\ b # Alloc!Nil
    BY DEF Alloc!Put
  <1>2. PICK k \in Alloc!Classes : capacity[b] = 2^k
    BY <1>1
  <1>3. Alloc!msb(2^k) = k /\ Alloc!Accepts(2^k)
    BY MsbPower
  <1>4. /\ relayPool' = [relayPool EXCEPT ![k] = @ \cup {b}]
        /\ capacity' = capacity
        /\ relayHeld' = [relayHeld EXCEPT ![u] = Alloc!Nil]
        /\ len' = [len EXCEPT ![u] = 0]
    BY <1>2, <1>3 DEF Alloc!Put
  <1>5. /\ relayPool' \in [Alloc!Classes -> SUBSET Bufs] /\ relayHeld' \in [Users -> Bufs \cup {Alloc!Nil}]
        /\ len' \in [Users -> Int]
    BY <1>1, <1>4
  <1>6. \A v \in Users : relayHeld'[v] # Alloc!Nil => relayHeld'[v] = relayHeld[v] /\ v # u
    BY <1>4
  <1>7. \A v \in Users : v # u => relayHeld[v] # b
    BY <1>1 DEF OnePlace, Alloc!PooledCapacity
  <1>8. \A j \in Alloc!Classes : b \notin relayPool[j]
    BY DEF OnePlace, Alloc!PooledCapacity
  <1>9. \A j \in Alloc!Classes : relayPool'[j] = IF j = k THEN relayPool[j] \cup {b} ELSE relayPool[j]
    BY <1>4, ZenonT(30)
  <1>n. \A j \in Alloc!Classes : Alloc!Nil \notin relayPool'[j]
    BY <1>5, PartAssumptions DEF Alloc!AllocatorAssumption
  <1>10. \A v, w \in Users : relayHeld'[v] = relayHeld'[w] /\ relayHeld'[v] # Alloc!Nil => v = w
    BY <1>6 DEF OnePlace, Alloc!PooledCapacity
  <1>11. \A v \in Users, j \in Alloc!Classes : relayHeld'[v] \notin relayPool'[j]
    <2> SUFFICES ASSUME NEW v \in Users, NEW j \in Alloc!Classes, relayHeld'[v] \in relayPool'[j] PROVE FALSE
      OBVIOUS
    <2>1. relayHeld'[v] = relayHeld[v] /\ v # u
      BY <1>6, <1>n
    <2>2. relayHeld[v] \notin relayPool[j]
      BY DEF OnePlace, Alloc!PooledCapacity
    <2> QED
      BY <1>7, <1>9, <2>1, <2>2, ZenonT(30)
  <1>12. \A i, j \in Alloc!Classes : i # j => relayPool'[i] \cap relayPool'[j] = {}
    <2> SUFFICES ASSUME NEW i \in Alloc!Classes, NEW j \in Alloc!Classes, i # j,
                        NEW d \in relayPool'[i], d \in relayPool'[j]
                 PROVE  FALSE
      OBVIOUS
    <2>1. ~(d \in relayPool[i] /\ d \in relayPool[j])
      BY DEF OnePlace, Alloc!PooledCapacity
    <2> QED
      BY <1>8, <1>9, <2>1, ZenonT(30)
  <1>13. \A j \in Alloc!Classes : \A d \in relayPool'[j] : capacity'[d] = 2^j
    BY <1>2, <1>4, <1>9 DEF OnePlace, Alloc!PooledCapacity
  <1>14. OnePlace'
    BY <1>10, <1>11, <1>12, <1>13 DEF OnePlace, Alloc!PooledCapacity
  <1> QED
    BY <1>4, <1>5, <1>6, <1>14

LEMMA PutMadeInv ==
    ASSUME BuffersInv, NEW b \in Bufs, NEW c \in Caps, Alloc!PutMade(b, c)
    PROVE  BuffersInv' /\ UNCHANGED relayHeld
  <1> USE DEF BuffersInv
  <1>1. c \in Nat \ {0} /\ c <= Alloc!MaxSize /\ c = 2^Alloc!msb(c)
    BY PartAssumptions DEF Alloc!PutMade, Alloc!Accepts, Alloc!AllocatorAssumption
  <1> DEFINE k == Alloc!msb(c)
  <1>2. k \in Alloc!Classes
    BY <1>1, MsbIs
  <1>3. /\ capacity[b] = Alloc!Unborn /\ c = 2^k
        /\ capacity' = [capacity EXCEPT ![b] = c]
        /\ relayPool' = [relayPool EXCEPT ![k] = @ \cup {b}]
        /\ relayHeld' = relayHeld /\ len' = len
    BY <1>1 DEF Alloc!PutMade
  <1> HIDE DEF k
  <1>4. \A j \in Alloc!Classes : 2^j # Alloc!Unborn
    BY UnbornIs
  <1>5. \A j \in Alloc!Classes : b \notin relayPool[j]
    BY <1>3, <1>4 DEF OnePlace, Alloc!PooledCapacity
  <1>6. \A v \in Users : relayHeld[v] # b
    BY <1>3, PartAssumptions DEF Alloc!AllocatorAssumption
  <1>7. relayPool' \in [Alloc!Classes -> SUBSET Bufs]
        /\ capacity' \in [Bufs -> {Alloc!Unborn} \cup {2^j : j \in Alloc!Classes}]
    BY <1>2, <1>3
  <1>8. \A j \in Alloc!Classes : relayPool'[j] = IF j = k THEN relayPool[j] \cup {b} ELSE relayPool[j]
    BY <1>2, <1>3, Zenon
  <1>9. \A i, j \in Alloc!Classes : i # j => relayPool'[i] \cap relayPool'[j] = {}
    <2> SUFFICES ASSUME NEW i \in Alloc!Classes, NEW j \in Alloc!Classes, i # j,
                        NEW d \in relayPool'[i], d \in relayPool'[j]
                 PROVE  FALSE
      OBVIOUS
    <2>1. ~(d \in relayPool[i] /\ d \in relayPool[j])
      BY DEF OnePlace, Alloc!PooledCapacity
    <2> QED
      BY <1>5, <1>8, <2>1, ZenonT(30)
  <1>10. \A j \in Alloc!Classes : \A d \in relayPool'[j] : capacity'[d] = 2^j
    BY <1>3, <1>5, <1>8, SMTT(40) DEF OnePlace, Alloc!PooledCapacity
  <1>11. \A v \in Users, j \in Alloc!Classes : relayHeld'[v] \notin relayPool'[j]
    BY <1>3, <1>6, <1>8 DEF OnePlace, Alloc!PooledCapacity
  <1>12. OnePlace'
    BY <1>3, <1>9, <1>10, <1>11 DEF OnePlace, Alloc!PooledCapacity
  <1>13. \A v \in Users : relayHeld'[v] # Alloc!Nil => capacity'[relayHeld'[v]] # Alloc!Unborn
    BY <1>3, <1>6
  <1> QED
    BY <1>3, <1>7, <1>12, <1>13

LEMMA CollectInv ==
    ASSUME BuffersInv, NEW k \in Alloc!Classes, NEW b \in Bufs, Alloc!Collect(k, b)
    PROVE  BuffersInv' /\ UNCHANGED relayHeld
  <1> USE DEF BuffersInv
  <1>1. /\ b \in relayPool[k] /\ relayPool' = [relayPool EXCEPT ![k] = @ \ {b}]
        /\ capacity' = [capacity EXCEPT ![b] = Alloc!Unborn] /\ relayHeld' = relayHeld /\ len' = len
    BY DEF Alloc!Collect
  <1>2. \A j \in Alloc!Classes : relayPool'[j] \subseteq relayPool[j] /\ b \notin relayPool'[j]
    BY <1>1 DEF OnePlace, Alloc!PooledCapacity
  <1>3. relayPool' \in [Alloc!Classes -> SUBSET Bufs]
        /\ capacity' \in [Bufs -> {Alloc!Unborn} \cup {2^j : j \in Alloc!Classes}]
    BY <1>1
  <1>4. OnePlace'
    BY <1>1, <1>2, <1>3, SMTT(40) DEF OnePlace, Alloc!PooledCapacity
  <1>5. \A v \in Users : relayHeld[v] # b
    BY <1>1 DEF OnePlace, Alloc!PooledCapacity
  <1>6. \A v \in Users : relayHeld'[v] # Alloc!Nil => capacity'[relayHeld'[v]] # Alloc!Unborn
    BY <1>1, <1>5
  <1> QED
    BY <1>1, <1>3, <1>4, <1>6

LEMMA BuffersNext == ASSUME BuffersInv, [Alloc!Next]_Alloc!vars PROVE BuffersInv'
  <1>1. ASSUME NEW u \in Users, Alloc!Get(u) PROVE BuffersInv'
    BY <1>1, GetInv
  <1>2. ASSUME NEW u \in Users, Alloc!Put(u) PROVE BuffersInv'
    BY <1>2, PutInv
  <1>3. ASSUME NEW b \in Bufs, NEW c \in Caps, Alloc!PutMade(b, c) PROVE BuffersInv'
    BY <1>3, PutMadeInv
  <1>4. ASSUME NEW k \in Alloc!Classes, NEW b \in Bufs, Alloc!Collect(k, b) PROVE BuffersInv'
    BY <1>4, CollectInv
  <1>5. CASE UNCHANGED Alloc!vars
    BY <1>5 DEF Alloc!vars, BuffersInv, OnePlace, Alloc!PooledCapacity
  <1> QED
    BY <1>1, <1>2, <1>3, <1>4, <1>5 DEF Alloc!Next

\* Allocator.Put accepts and files slices so that every slice in a pool has the
\* pool's capacity: for any number of users, buffers, sizes and adopted slices, and
\* any number of pools up to the code's 17.
THEOREM BuffersFitPools == Alloc!Spec => []PooledCapacity
  <1>1. BuffersInv => PooledCapacity
    BY DEF BuffersInv, OnePlace, PooledCapacity
  <1> QED
    BY <1>1, BuffersInit, BuffersNext, PTL DEF Alloc!Spec

\* Every buffer that Allocator.Get hands out has the least power of two for a
\* capacity that holds the size asked for, less than twice that size.
THEOREM BuffersAppropriate == Alloc!Spec => MostAppropriate
  <1>1. ASSUME BuffersInv, [Alloc!Next]_Alloc!vars
        PROVE  [\A u \in Users : relayHeld[u] = Alloc!Nil /\ relayHeld'[u] # Alloc!Nil =>
                  capacity'[relayHeld'[u]] = Alloc!Least(len'[u]) /\ Alloc!Least(len'[u]) < 2 * len'[u]]_Alloc!vars
    <2> SUFFICES ASSUME Alloc!Next, NEW u \in Users, relayHeld[u] = Alloc!Nil, relayHeld'[u] # Alloc!Nil
                 PROVE  capacity'[relayHeld'[u]] = Alloc!Least(len'[u]) /\ Alloc!Least(len'[u]) < 2 * len'[u]
      BY <1>1
    <2>1. ASSUME NEW v \in Users, Alloc!Get(v) PROVE Alloc!Get(u)
      BY <1>1, <2>1, GetInv
    <2>2. ASSUME NEW v \in Users, Alloc!Put(v) PROVE FALSE
      BY <1>1, <2>2, PutInv
    <2>3. ASSUME NEW b \in Bufs, NEW c \in Caps, Alloc!PutMade(b, c) PROVE FALSE
      BY <1>1, <2>3, PutMadeInv
    <2>4. ASSUME NEW k \in Alloc!Classes, NEW b \in Bufs, Alloc!Collect(k, b) PROVE FALSE
      BY <1>1, <2>4, CollectInv
    <2>5. Alloc!Get(u)
      BY <2>1, <2>2, <2>3, <2>4 DEF Alloc!Next
    <2> QED
      BY <1>1, <2>5, GetInv
  <1> QED
    BY <1>1, BuffersInit, BuffersNext, PTL DEF Alloc!Spec, Alloc!MostAppropriate, MostAppropriate

-----------------------------------------------------------------------------
(* Statistic. *)

\* The operators that Statistic extends are the ones the lemmas above are about.
LEMMA SameOperators ==
    /\ \A s : Stat!IsFiniteSet(s) <=> IsFiniteSet(s)
    /\ \A f : Stat!SumFunction(f) = SumFunction(f)
  <1>1. \A s : Stat!IsFiniteSet(s) <=> IsFiniteSet(s)
    BY Zenon DEF IsFiniteSet, Stat!IsFiniteSet
  <1>2. \A f : Stat!SumFunction(f) = SumFunction(f)
    BY Zenon DEF SumFunction, SumFunctionOnSet, FoldFunctionOnSet, MapThenFoldSet,
                 Stat!SumFunction, Stat!SumFunctionOnSet, Stat!FoldFunctionOnSet, Stat!MapThenFoldSet
  <1> QED
    BY <1>1, <1>2

LEMMA TotalsAre ==
    /\ Stat!AllOwn = SumFunction(own)
    /\ Stat!AllMoved = SumFunction([t \in Trackers |-> Stat!Moved(t)])
    /\ Stat!AllMoved' = SumFunction([t \in Trackers |-> Stat!Moved(t)]')
  <1>1. /\ Stat!AllOwn = Stat!SumFunction(own)
        /\ Stat!AllMoved = Stat!SumFunction([t \in Trackers |-> Stat!Moved(t)])
        /\ Stat!AllMoved' = Stat!SumFunction([t \in Trackers |-> Stat!Moved(t)]')
    BY DEF Stat!AllOwn, Stat!AllMoved
  <1> QED
    BY <1>1, SameOperators, Zenon

LEMMA TrackersFinite ==
    IsFiniteSet(Trackers) /\ PushSizes \subseteq Nat
  <1>1. Stat!IsFiniteSet(Trackers) /\ PushSizes \subseteq Nat
    BY PartAssumptions DEF Stat!StatisticAssumption
  <1> QED
    BY <1>1, SameOperators, Zenon

\* Bytes of t that are in the manager's total.
Counted(t) == own[t] + (IF push[t] = "own" THEN size[t] ELSE 0)
AllCounted == SumFunction([t \in Trackers |-> Counted(t)])

CountersType ==
    /\ temp \in Nat /\ blip \in Nat /\ total \in Nat
    /\ own \in [Trackers -> Nat] /\ size \in [Trackers -> Nat]
    /\ push \in [Trackers -> {"idle", "total", "own"}]
    /\ tick \in {"idle", "load", "store", "clear"} /\ loaded \in Nat /\ reported \in Nat
    /\ reset \in {"idle", "blip", "total"} /\ resets \in Nat
    /\ late \in Nat

\* The total is what was counted, until a reset takes away from it.
TotalInv ==
    /\ \A t \in Trackers : push[t] = "idle" => size[t] = 0
    /\ reset # "idle" => resets # 0
    /\ total <= AllCounted
    /\ resets = 0 => total = AllCounted

\* What is loaded is counted in the rate that is about to be published.
RateInv ==
    /\ Stat!Rated <= Stat!AllMoved
    /\ tick = "store" => reported + loaded <= Stat!AllMoved
    /\ resets = 0 => /\ Stat!AllMoved <= Stat!Rated + late
                     /\ tick = "store" => Stat!AllMoved <= reported + loaded + late

CountersInv == CountersType /\ TotalInv /\ RateInv

LEMMA SumsNat ==
    ASSUME CountersType
    PROVE  Stat!AllMoved \in Nat /\ AllCounted \in Nat /\ Stat!AllOwn \in Nat
  <1>1. IsFiniteSet(Trackers)
    BY TrackersFinite
  <1>2. /\ [t \in Trackers |-> Stat!Moved(t)] \in [Trackers -> Nat]
        /\ [t \in Trackers |-> Counted(t)] \in [Trackers -> Nat]
        /\ own \in [Trackers -> Nat]
    BY DEF CountersType, Stat!Moved, Counted
  <1> QED
    BY <1>1, <1>2, SumNat, TotalsAre, Zenon DEF AllCounted

\* A byte is moved, then counted by the manager, then by its tracker.
LEMMA SumsOrdered ==
    ASSUME CountersType
    PROVE  Stat!AllOwn <= AllCounted /\ AllCounted <= Stat!AllMoved
  <1> DEFINE m == [t \in Trackers |-> Stat!Moved(t)]
             c == [t \in Trackers |-> Counted(t)]
  <1>1. IsFiniteSet(Trackers)
    BY TrackersFinite
  <1>2. m \in [Trackers -> Nat] /\ c \in [Trackers -> Nat] /\ own \in [Trackers -> Nat]
    BY DEF CountersType, Stat!Moved, Counted
  <1>3. \A t \in Trackers : own[t] <= c[t] /\ c[t] <= m[t]
    BY DEF CountersType, Stat!Moved, Counted
  <1> HIDE DEF m, c
  <1>4. SumFunction(own) <= SumFunction(c) /\ SumFunction(c) <= SumFunction(m)
    BY <1>1, <1>2, <1>3, SumMonotonic
  <1> QED
    BY <1>4, TotalsAre DEF AllCounted, m, c

LEMMA CountersInit == ASSUME Stat!Init PROVE CountersInv
  <1>1. CountersType
    BY DEF Stat!Init, CountersType
  <1>2. Stat!AllMoved = 0 /\ AllCounted = 0
    <2>1. /\ [t \in Trackers |-> Stat!Moved(t)] = [t \in Trackers |-> 0]
          /\ [t \in Trackers |-> Counted(t)] = [t \in Trackers |-> 0]
      BY DEF Stat!Init, Stat!Moved, Counted
    <2>2. SumFunction([t \in Trackers |-> 0]) = 0
      BY TrackersFinite, SumZero
    <2> QED
      BY <2>1, <2>2, TotalsAre, Zenon DEF AllCounted
  <1> QED
    BY <1>1, <1>2 DEF Stat!Init, CountersInv, TotalInv, RateInv, Stat!Rated

\* What each step of a push does to the sums.
LEMMA PushTempSums ==
    ASSUME CountersType, TotalInv, NEW t \in Trackers, NEW n \in PushSizes, Stat!PushTemp(t, n)
    PROVE  Stat!AllMoved' = Stat!AllMoved + n /\ AllCounted' = AllCounted /\ n \in Nat
  <1> DEFINE m == [s \in Trackers |-> Stat!Moved(s)]
  <1>1. IsFiniteSet(Trackers) /\ n \in Nat
    BY TrackersFinite
  <1>2. m \in [Trackers -> Nat] /\ size[t] = 0 /\ m[t] \in Nat
    BY DEF CountersType, TotalInv, Stat!Moved, Stat!PushTemp
  <1>3. m' = [m EXCEPT ![t] = m[t] + n]
    <2>1. \A s \in Trackers : Stat!Moved(s)' = IF s = t THEN Stat!Moved(s) + n ELSE Stat!Moved(s)
      BY <1>1, <1>2 DEF CountersType, Stat!Moved, Stat!PushTemp
    <2> QED
      BY <2>1, Zenon
  <1>4. [s \in Trackers |-> Counted(s)]' = [s \in Trackers |-> Counted(s)]
    BY DEF CountersType, Counted, Stat!PushTemp
  <1>5. Stat!AllMoved = SumFunction(m) /\ Stat!AllMoved' = SumFunction(m')
    BY TotalsAre
  <1> HIDE DEF m
  <1>6. SumFunction([m EXCEPT ![t] = m[t] + n]) = SumFunction(m) - m[t] + (m[t] + n)
    <2>1. m[t] + n \in Nat
      BY <1>1, <1>2
    <2> QED
      BY <1>1, <1>2, <2>1, SumExcept, Zenon
  <1>7. SumFunction(m) \in Nat
    BY <1>1, <1>2, SumNat
  <1>8. Stat!AllMoved' = Stat!AllMoved + n
    BY <1>1, <1>2, <1>3, <1>5, <1>6, <1>7
  <1> QED
    BY <1>1, <1>4, <1>8 DEF AllCounted

LEMMA PushTotalSums ==
    ASSUME CountersType, NEW t \in Trackers, Stat!PushTotal(t)
    PROVE  Stat!AllMoved' = Stat!AllMoved /\ AllCounted' = AllCounted + size[t]
  <1> DEFINE c == [s \in Trackers |-> Counted(s)]
  <1>1. IsFiniteSet(Trackers) /\ size[t] \in Nat
    BY TrackersFinite DEF CountersType
  <1>2. c \in [Trackers -> Nat] /\ c[t] \in Nat
    BY DEF CountersType, Counted
  <1>3. c' = [c EXCEPT ![t] = c[t] + size[t]]
    <2>1. \A s \in Trackers : Counted(s)' = IF s = t THEN Counted(s) + size[t] ELSE Counted(s)
      BY DEF CountersType, Counted, Stat!PushTotal
    <2> QED
      BY <2>1, Zenon
  <1>4. [s \in Trackers |-> Stat!Moved(s)]' = [s \in Trackers |-> Stat!Moved(s)]
    BY DEF CountersType, Stat!Moved, Stat!PushTotal
  <1>5. AllCounted = SumFunction(c) /\ AllCounted' = SumFunction(c')
    BY DEF AllCounted
  <1> HIDE DEF c
  <1>6. SumFunction([c EXCEPT ![t] = c[t] + size[t]]) = SumFunction(c) - c[t] + (c[t] + size[t])
    <2>1. c[t] + size[t] \in Nat
      BY <1>1, <1>2
    <2> QED
      BY <1>1, <1>2, <2>1, SumExcept, Zenon
  <1>7. SumFunction(c) \in Nat
    BY <1>1, <1>2, SumNat
  <1>8. AllCounted' = AllCounted + size[t]
    BY <1>1, <1>2, <1>3, <1>5, <1>6, <1>7
  <1> QED
    BY <1>4, <1>8 DEF Stat!AllMoved

LEMMA PushOwnSums ==
    ASSUME CountersType, NEW t \in Trackers, Stat!PushOwn(t)
    PROVE  Stat!AllMoved' = Stat!AllMoved /\ AllCounted' = AllCounted
  <1>1. [s \in Trackers |-> Stat!Moved(s)]' = [s \in Trackers |-> Stat!Moved(s)]
    BY DEF CountersType, Stat!Moved, Stat!PushOwn
  <1>2. [s \in Trackers |-> Counted(s)]' = [s \in Trackers |-> Counted(s)]
    BY DEF CountersType, Counted, Stat!PushOwn
  <1> QED
    BY <1>1, <1>2 DEF Stat!AllMoved, AllCounted

LEMMA SameSums ==
    ASSUME UNCHANGED Stat!tracker
    PROVE  Stat!AllMoved' = Stat!AllMoved /\ AllCounted' = AllCounted
  <1>1. [s \in Trackers |-> Stat!Moved(s)]' = [s \in Trackers |-> Stat!Moved(s)]
    BY DEF Stat!tracker, Stat!Moved
  <1>2. [s \in Trackers |-> Counted(s)]' = [s \in Trackers |-> Counted(s)]
    BY DEF Stat!tracker, Counted
  <1> QED
    BY <1>1, <1>2 DEF Stat!AllMoved, AllCounted

LEMMA CountersNext == ASSUME CountersInv, [Stat!Next]_Stat!vars PROVE CountersInv'
  <1> USE DEF CountersInv
  <1>0. Stat!AllMoved \in Nat /\ AllCounted \in Nat
    BY SumsNat
  <1>1. ASSUME NEW t \in Trackers, Stat!PushTotal(t) PROVE CountersInv'
    <2>1. Stat!AllMoved' = Stat!AllMoved /\ AllCounted' = AllCounted + size[t]
      BY <1>1, PushTotalSums
    <2>2. CountersType'
      BY <1>1 DEF CountersType, Stat!PushTotal, Stat!handler, Stat!resetter
    <2>3. TotalInv'
      BY <1>0, <1>1, <2>1 DEF CountersType, TotalInv, Stat!PushTotal, Stat!handler, Stat!resetter
    <2>4. RateInv'
      BY <1>1, <2>1 DEF RateInv, Stat!Rated, Stat!PushTotal, Stat!handler, Stat!resetter
    <2> QED
      BY <2>2, <2>3, <2>4
  <1>2. ASSUME NEW t \in Trackers, Stat!PushOwn(t) PROVE CountersInv'
    <2>1. Stat!AllMoved' = Stat!AllMoved /\ AllCounted' = AllCounted
      BY <1>2, PushOwnSums
    <2>2. CountersType'
      BY <1>2 DEF CountersType, Stat!PushOwn, Stat!counters, Stat!handler, Stat!resetter
    <2>3. TotalInv'
      BY <1>2, <2>1 DEF CountersType, TotalInv, Stat!PushOwn, Stat!counters, Stat!handler, Stat!resetter
    <2>4. RateInv'
      BY <1>2, <2>1 DEF RateInv, Stat!Rated, Stat!PushOwn, Stat!counters, Stat!handler, Stat!resetter
    <2> QED
      BY <2>2, <2>3, <2>4
  <1>3. ASSUME NEW t \in Trackers, NEW n \in PushSizes, Stat!PushTemp(t, n) PROVE CountersInv'
    <2>1. Stat!AllMoved' = Stat!AllMoved + n /\ AllCounted' = AllCounted /\ n \in Nat
      BY <1>3, PushTempSums
    <2>2. CountersType'
      BY <1>3, <2>1 DEF CountersType, Stat!PushTemp, Stat!handler, Stat!resetter
    <2>3. TotalInv'
      BY <1>3, <2>1 DEF CountersType, TotalInv, Stat!PushTemp, Stat!handler, Stat!resetter
    <2>4. RateInv'
      BY <1>0, <1>3, <2>1 DEF CountersType, RateInv, Stat!Rated, Stat!PushTemp, Stat!handler, Stat!resetter
    <2> QED
      BY <2>2, <2>3, <2>4
  <1>4. ASSUME Stat!Tick \/ Stat!LoadTemp \/ Stat!StoreBlip \/ Stat!ClearTemp PROVE CountersInv'
    <2>1. Stat!AllMoved' = Stat!AllMoved /\ AllCounted' = AllCounted
      BY <1>4, SameSums DEF Stat!Tick, Stat!LoadTemp, Stat!StoreBlip, Stat!ClearTemp
    <2>2. CountersType'
      BY <1>4 DEF CountersType, Stat!Tick, Stat!LoadTemp, Stat!StoreBlip, Stat!ClearTemp, Stat!counters, Stat!tracker, Stat!resetter
    <2>3. TotalInv'
      BY <1>4, <2>1 DEF TotalInv, Stat!Tick, Stat!LoadTemp, Stat!StoreBlip, Stat!ClearTemp, Stat!counters, Stat!tracker, Stat!resetter
    <2>4. RateInv'
      BY <1>0, <1>4, <2>1
         DEF CountersType, RateInv, Stat!Rated, Stat!Tick, Stat!LoadTemp, Stat!StoreBlip, Stat!ClearTemp, Stat!counters, Stat!resetter
    <2> QED
      BY <2>2, <2>3, <2>4
  <1>5. ASSUME Stat!ResetTemp \/ Stat!ResetBlip \/ Stat!ResetTotal PROVE CountersInv'
    <2>1. Stat!AllMoved' = Stat!AllMoved /\ AllCounted' = AllCounted
      BY <1>5, SameSums DEF Stat!ResetTemp, Stat!ResetBlip, Stat!ResetTotal
    <2>2. CountersType'
      BY <1>5 DEF CountersType, Stat!ResetTemp, Stat!ResetBlip, Stat!ResetTotal, Stat!tracker, Stat!handler
    <2>3. TotalInv'
      BY <1>0, <1>5, <2>1 DEF CountersType, TotalInv, Stat!ResetTemp, Stat!ResetBlip, Stat!ResetTotal, Stat!tracker, Stat!handler
    <2>4. RateInv'
      BY <1>0, <1>5, <2>1
         DEF CountersType, TotalInv, RateInv, Stat!Rated, Stat!ResetTemp, Stat!ResetBlip, Stat!ResetTotal, Stat!handler
    <2> QED
      BY <2>2, <2>3, <2>4
  <1>6. CASE UNCHANGED Stat!vars
    <2>1. Stat!AllMoved' = Stat!AllMoved /\ AllCounted' = AllCounted
      BY <1>6, SameSums DEF Stat!vars
    <2>2. CountersType'
      BY <1>6 DEF CountersType, Stat!vars, Stat!counters, Stat!tracker, Stat!handler, Stat!resetter
    <2>3. TotalInv' /\ RateInv'
      BY <1>6, <2>1 DEF TotalInv, RateInv, Stat!Rated, Stat!vars, Stat!counters, Stat!tracker, Stat!handler, Stat!resetter
    <2> QED
      BY <2>2, <2>3
  <1> QED
    BY <1>1, <1>2, <1>3, <1>4, <1>5, <1>6 DEF Stat!Next

\* statistic.Manager counts every byte once: its total and its rates have no byte
\* that was not moved, and before a reset miss none but those pushed between
\* handle's Load and Store(0): for any number of trackers, sizes, ticks and resets.
THEOREM CountersAccountForBytes == Stat!Spec => []CountersAccount
  <1>1. ASSUME CountersInv PROVE CountersAccount
    <2>1. /\ Stat!AllMoved \in Nat /\ AllCounted \in Nat /\ Stat!AllOwn \in Nat
          /\ Stat!AllOwn <= AllCounted /\ AllCounted <= Stat!AllMoved
      BY <1>1, SumsNat, SumsOrdered DEF CountersInv
    <2>2. ASSUME \A t \in Trackers : push[t] = "idle" PROVE AllCounted = Stat!AllOwn
      <3>1. [t \in Trackers |-> Counted(t)] = own
        BY <1>1, <2>2 DEF CountersInv, CountersType, Counted
      <3> QED
        BY <3>1, TotalsAre DEF AllCounted
    <2> QED
      BY <1>1, <2>1, <2>2 DEF CountersInv, CountersType, TotalInv, RateInv, Stat!CountersAccount, CountersAccount
  <1> QED
    BY <1>1, CountersInit, CountersNext, PTL DEF Stat!Spec
=============================================================================
