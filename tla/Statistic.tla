----------------------------- MODULE Statistic ------------------------------
(***************************************************************************)
(* The byte counters of the statistic manager in one direction; the code   *)
(* repeats every step for the other direction with counters of its own.    *)
(*                                                                         *)
(* Trackers push what they read or write, the handle goroutine turns the   *)
(* counter "temp" into a rate once a second, and ResetStatistic clears the *)
(* three counters.  Each counter is atomic by itself but no two of them    *)
(* together: every Load, Store and Add is a step.                          *)
(***************************************************************************)
EXTENDS Integers, FiniteSets, Functions

CONSTANTS
    Trackers,
    Sizes,          \* byte counts one Read or Write may return
    MaxPushed,      \* bound on the bytes of a tracker
    MaxTicks,       \* bound on the ticks of handle
    MaxResets       \* bound on the calls of ResetStatistic

StatisticAssumption ==
    /\ IsFiniteSet(Trackers) /\ Sizes \subseteq Nat
    /\ MaxPushed \in Nat /\ MaxTicks \in Nat /\ MaxResets \in Nat

VARIABLES
    temp, blip, total,  \* the manager's counters
    own,                \* a tracker's total
    push, size,         \* a tracker's next step, and the size it is pushing
    tick, loaded,       \* next step of handle, and what it has loaded
    ticks,
    reset, resets,      \* next step of ResetStatistic, and its calls so far
    reported,           \* history: sum of the rates handle has published
    late                \* history: bytes pushed between handle's Load and Store(0)

counters == <<temp, blip, total>>
tracker  == <<own, push, size>>
handler  == <<tick, loaded, ticks, reported>>
resetter == <<reset, resets>>
vars == <<counters, tracker, handler, resetter, late>>

Init ==
    /\ temp = 0 /\ blip = 0 /\ total = 0
    /\ own = [t \in Trackers |-> 0]
    /\ push = [t \in Trackers |-> "idle"]
    /\ size = [t \in Trackers |-> 0]
    /\ tick = "idle" /\ loaded = 0 /\ ticks = 0 /\ reported = 0
    /\ reset = "idle" /\ resets = 0
    /\ late = 0

-----------------------------------------------------------------------------
(* A tracker's Read or Write: the manager's push, then the tracker's total.  *)

\* The connection moved n bytes: uploadTemp.Add(n).
PushTemp(t, n) ==
    /\ push[t] = "idle"
    /\ own[t] + n <= MaxPushed
    /\ temp' = temp + n
    /\ size' = [size EXCEPT ![t] = n]
    /\ push' = [push EXCEPT ![t] = "total"]
    /\ late' = IF tick \in {"store", "clear"} THEN late + n ELSE late
    /\ UNCHANGED <<blip, total, own, handler, resetter>>

PushTotal(t) ==
    /\ push[t] = "total"
    /\ total' = total + size[t]
    /\ push' = [push EXCEPT ![t] = "own"]
    /\ UNCHANGED <<temp, blip, own, size, handler, resetter, late>>

PushOwn(t) ==
    /\ push[t] = "own"
    /\ own' = [own EXCEPT ![t] = @ + size[t]]
    /\ size' = [size EXCEPT ![t] = 0]
    /\ push' = [push EXCEPT ![t] = "idle"]
    /\ UNCHANGED <<counters, handler, resetter, late>>

-----------------------------------------------------------------------------
(* handle: blip.Store(temp.Load()), then temp.Store(0).                      *)

Tick ==
    /\ tick = "idle"
    /\ ticks < MaxTicks
    /\ ticks' = ticks + 1
    /\ tick' = "load"
    /\ UNCHANGED <<counters, tracker, loaded, reported, resetter, late>>

LoadTemp ==
    /\ tick = "load"
    /\ loaded' = temp
    /\ tick' = "store"
    /\ UNCHANGED <<counters, tracker, ticks, reported, resetter, late>>

StoreBlip ==
    /\ tick = "store"
    /\ blip' = loaded
    /\ reported' = reported + loaded
    /\ tick' = "clear"
    /\ UNCHANGED <<temp, total, tracker, loaded, ticks, resetter, late>>

\* Mutant: the counter is not cleared.
KeepTemp ==
    /\ tick = "clear"
    /\ loaded' = 0
    /\ tick' = "idle"
    /\ UNCHANGED <<counters, tracker, ticks, reported, resetter, late>>

ClearTemp ==
    /\ tick = "clear"
    /\ temp' = 0
    /\ loaded' = 0
    /\ tick' = "idle"
    /\ UNCHANGED <<blip, total, tracker, ticks, reported, resetter, late>>

-----------------------------------------------------------------------------
(* ResetStatistic. *)

ResetTemp ==
    /\ reset = "idle"
    /\ resets < MaxResets
    /\ resets' = resets + 1
    /\ temp' = 0
    /\ reset' = "blip"
    /\ UNCHANGED <<blip, total, tracker, handler, late>>

ResetBlip ==
    /\ reset = "blip"
    /\ blip' = 0
    /\ reset' = "total"
    /\ UNCHANGED <<temp, total, tracker, handler, resets, late>>

ResetTotal ==
    /\ reset = "total"
    /\ total' = 0
    /\ reset' = "idle"
    /\ UNCHANGED <<temp, blip, tracker, handler, resets, late>>

Next ==
    \/ \E t \in Trackers : PushTotal(t) \/ PushOwn(t) \/ \E n \in Sizes : PushTemp(t, n)
    \/ Tick \/ LoadTemp \/ StoreBlip \/ ClearTemp
    \/ ResetTemp \/ ResetBlip \/ ResetTotal

Spec == Init /\ [][Next]_vars

-----------------------------------------------------------------------------
(* Properties. *)

Moved(t) == own[t] + size[t]
AllOwn   == SumFunction(own)
AllMoved == SumFunction([t \in Trackers |-> Moved(t)])

\* Bytes that are in a rate, published or being collected.
Rated == IF tick = "clear" THEN reported ELSE reported + temp

\* The manager counts every byte once, whatever is pushed or reset between two of
\* handle's steps.  Its total has no byte that was not moved, and agrees with the
\* totals of the connections whenever no push is under way (before any reset, which
\* leaves the trackers alone).  No byte is published in two rates, and the only ones
\* in none are those pushed between the Load and the Store(0) of one tick.
CountersAccount ==
    /\ total <= AllMoved /\ Rated <= AllMoved
    /\ resets = 0 => AllOwn <= total /\ AllMoved <= Rated + late
    /\ resets = 0 /\ (\A t \in Trackers : push[t] = "idle") => total = AllOwn
=============================================================================
