----------------------------- MODULE Allocator ------------------------------
(***************************************************************************)
(* The []byte allocator behind every relay buffer: 17 pools of slices with *)
(* capacities 1, 2, 4 ... 65536, shared by all goroutines.  A buffer is an *)
(* identity with a capacity; contents are left out.  The pools are         *)
(* sync.Pools (external): Get may return any pooled slice or a new one,    *)
(* and the garbage collector may drop pooled slices.                       *)
(***************************************************************************)
EXTENDS Integers, FiniteSetsExt

CONSTANTS
    MaxClass,       \* index of the last pool (16)
    Users,          \* goroutines, each holding at most one buffer
    Bufs,           \* identities of buffers; bounds how many exist at once
    Sizes,          \* sizes asked of Get
    Caps            \* capacities of slices that others made and Put

Nil == "nil"

AllocatorAssumption ==
    MaxClass \in 0..16 /\ Sizes \subseteq Int /\ Caps \subseteq Nat /\ Nil \notin Bufs

VARIABLES
    pool,       \* alloc.buffers: the slices in each pool
    capacity,   \* capacity of a buffer, Unborn if it does not exist
    held,       \* the buffer a user holds, or Nil
    len         \* the size the user asked for

vars == <<pool, capacity, held, len>>

Unborn  == -1
MaxSize == 2^MaxClass
Classes == 0..MaxClass

Init ==
    /\ pool = [k \in Classes |-> {}]
    /\ capacity = [b \in Bufs |-> Unborn]
    /\ held = [u \in Users |-> Nil]
    /\ len = [u \in Users |-> 0]

\* bits.Len32.
Len32[n \in Nat] == IF n = 0 THEN 0 ELSE 1 + Len32[n \div 2]

\* The position of the most significant bit; as a uint16 it wraps for zero.
msb(size) == (Len32[size] - 1) % 2^16

Class(size) == LET b == msb(size) IN IF size = 2^b THEN b ELSE b + 1

\* pool.Get found a slice, ...
Take(u, k, b) ==
    /\ b \in pool[k]
    /\ pool' = [pool EXCEPT ![k] = @ \ {b}]
    /\ held' = [held EXCEPT ![u] = b]
    /\ UNCHANGED capacity

\* ... or made one of the pool's capacity.
Make(u, k, b) ==
    /\ capacity[b] = Unborn
    /\ capacity' = [capacity EXCEPT ![b] = 2^k]
    /\ held' = [held EXCEPT ![u] = b]
    /\ UNCHANGED pool

\* Mutant: always the next larger pool but for the last.
GetNextLarger(u) ==
    /\ held[u] = Nil
    /\ \E size \in Sizes :
        /\ 0 < size /\ size <= MaxSize
        /\ len' = [len EXCEPT ![u] = size]
        /\ LET k == IF size = MaxSize THEN MaxClass ELSE msb(size) + 1
           IN  \E b \in Bufs : Take(u, k, b) \/ Make(u, k, b)

\* Get(size)[:size]; outside 1..MaxSize it returns nil and the user has nothing.
Get(u) ==
    /\ held[u] = Nil
    /\ \E size \in Sizes :
        /\ 0 < size /\ size <= MaxSize
        /\ len' = [len EXCEPT ![u] = size]
        /\ LET k == Class(size) IN \E b \in Bufs : Take(u, k, b) \/ Make(u, k, b)

\* Mutant: a capacity that is no power of two passes.
AcceptsAny(c) == c # 0 /\ c <= MaxSize

\* The check of Put.
Accepts(c) == c # 0 /\ c <= MaxSize /\ c = 2^msb(c)

\* Put(buf) of a slice from Get.  A slice that is rejected is garbage.
Put(u) ==
    /\ held[u] # Nil
    /\ LET c == capacity[held[u]] IN
        IF Accepts(c)
          THEN /\ pool' = [pool EXCEPT ![msb(c)] = @ \cup {held[u]}]
               /\ UNCHANGED capacity
          ELSE /\ capacity' = [capacity EXCEPT ![held[u]] = Unborn]
               /\ UNCHANGED pool
    /\ held' = [held EXCEPT ![u] = Nil]
    /\ len' = [len EXCEPT ![u] = 0]

\* Put(make([]byte, c)): the pools adopt slices that Get never handed out.
PutMade(b, c) ==
    /\ capacity[b] = Unborn
    /\ Accepts(c)
    /\ capacity' = [capacity EXCEPT ![b] = c]
    /\ pool' = [pool EXCEPT ![msb(c)] = @ \cup {b}]
    /\ UNCHANGED <<held, len>>

\* sync.Pool drops a slice.
Collect(k, b) ==
    /\ b \in pool[k]
    /\ pool' = [pool EXCEPT ![k] = @ \ {b}]
    /\ capacity' = [capacity EXCEPT ![b] = Unborn]
    /\ UNCHANGED <<held, len>>

Next ==
    \/ \E u \in Users : Get(u) \/ Put(u)
    \/ \E b \in Bufs, c \in Caps : PutMade(b, c)
    \/ \E k \in Classes, b \in Bufs : Collect(k, b)

Spec == Init /\ [][Next]_vars

-----------------------------------------------------------------------------
(* Properties. *)

\* Every slice in pool k has capacity 2^k, whatever slices Put was given, the ones
\* that Get never made included: Put files a slice by the top bit of its capacity,
\* and a slice shorter than its pool's size would make the [:size] of a later Get
\* panic, in another goroutine.
PooledCapacity == \A k \in Classes : \A b \in pool[k] : capacity[b] = 2^k

\* Get hands out the least power of two that holds the size ("most appropriate
\* cap"), and so wastes less than half of it.
Least(size) == Min({2^k : k \in {j \in Classes : size <= 2^j}})
MostAppropriate ==
    [][\A u \in Users : held[u] = Nil /\ held'[u] # Nil =>
         capacity'[held'[u]] = Least(len'[u]) /\ Least(len'[u]) < 2 * len'[u]]_vars
=============================================================================
