----------------------------- MODULE ByteStream -----------------------------
(***************************************************************************)
(* What a wrapped connection promises its user in one direction: the bytes *)
(* come out in the order they went in, none missing, none twice.  Bytes    *)
(* are numbered as they are accepted, so a correct reader has received     *)
(* exactly 1, 2, ..., k.  AeadStream, CipherStream and ObfsReader implement*)
(* this.                                                                   *)
(***************************************************************************)
EXTENDS Naturals, Sequences

VARIABLES
    accepted,   \* bytes the writing side has accepted
    got         \* numbers of the bytes the reading side has handed out

vars == <<accepted, got>>

\* n bytes starting with byte number f
Bytes(f, n) == [i \in 1 .. n |-> f + i - 1]

Init == accepted = 0 /\ got = <<>>

Accept == accepted' >= accepted /\ UNCHANGED got

Deliver ==
    /\ \E k \in Len(got) .. accepted : got' = Bytes(1, k)
    /\ UNCHANGED accepted

Next == Accept \/ Deliver

Spec == Init /\ [][Next]_vars
=============================================================================
