------------------------------- MODULE Shared -------------------------------
(***************************************************************************)
(* The state that all connections of the process share: the pool of        *)
(* message buffers of simple-obfs (ObfsWriter), the pools of relay buffers *)
(* (Allocator) and the traffic counters (Statistic).                       *)
(***************************************************************************)
EXTENDS ObfsWriter, Integers

CONSTANTS
    Trackers, PushSizes, MaxPushed, MaxTicks, MaxResets,    \* of Statistic
    MaxClass, Users, Bufs, GetSizes, Caps                   \* of Allocator

VARIABLES
    temp, blip, total, own, push, size, tick, loaded, ticks, reset, resets, reported, late,
    relayPool, capacity, relayHeld, len

Stat  == INSTANCE Statistic WITH Sizes <- PushSizes
Alloc == INSTANCE Allocator WITH Sizes <- GetSizes, pool <- relayPool, held <- relayHeld

ASSUME PartAssumptions == Stat!StatisticAssumption /\ Alloc!AllocatorAssumption

-----------------------------------------------------------------------------
(* The properties of the instances. *)

\* statistic.Manager counts every byte once, in its total and in one rate at most.
CountersAccount == Stat!CountersAccount

\* Allocator.Put files every slice in the pool of its capacity.
PooledCapacity == Alloc!PooledCapacity

\* Allocator.Get hands out the least power of two that holds the size.
MostAppropriate == Alloc!MostAppropriate
=============================================================================
