------------------------------ MODULE MCShared ------------------------------
(***************************************************************************)
(* Shared for TLC.  Its three parts do not touch each other: a behaviour   *)
(* moves one of them, `part', and leaves the other two as they started.    *)
(***************************************************************************)
EXTENDS Shared, TLC

CONSTANT
    Parts               \* the parts to explore

VARIABLE part

statistic ==
    <<temp, blip, total, own, push, size, tick, loaded, ticks, reset, resets, reported, late>>
allocator == <<relayPool, capacity, relayHeld, len>>

\* Every size that four pools serve, and one out of range on either side.
MCGetSizes == -1 .. 9

MCInit ==
    /\ part \in Parts /\ Init /\ Stat!Init /\ Alloc!Init
    /\ part # "obfs" => \A c, d \in Conns : held[c] = held[d]

MCNext ==
    /\ \/ part = "obfs" /\ Next /\ UNCHANGED <<statistic, allocator>>
       \/ part = "statistic" /\ Stat!Next /\ UNCHANGED <<vars, allocator>>
       \/ part = "allocator" /\ Alloc!Next /\ UNCHANGED <<vars, statistic>>
    /\ UNCHANGED part

MCSpec == MCInit /\ [][MCNext]_<<part, vars, statistic, allocator>>

Symmetry ==
    Permutations(Conns) \cup Permutations(Buffers) \cup Permutations(Trackers)
        \cup Permutations(Bufs)
=============================================================================
