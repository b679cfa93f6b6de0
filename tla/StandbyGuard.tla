------------------------------ MODULE StandbyGuard ------------------------------
(***************************************************************************)
(* What the guard of the downloads promises (downloader.lua, device.lua):  *)
(* the power property is asked to block when the first one takes the guard *)
(* and to let go when the last one gives it back, in whatever order they   *)
(* come and go.  There are no counters here: the guard is the set of its   *)
(* holders, some of which are lost and never give it back.                 *)
(***************************************************************************)
CONSTANTS
    Jobs,
    PowerWorks  \* whether the power property may obey

VARIABLES
    holders,
    lost,       \* holders that raised before their work was scheduled
    blocked,    \* the power property keeps the device awake
    stuck       \* it did not obey when it was to let go

guard == <<holders, lost, blocked, stuck>>

Init == holders = {} /\ lost = {} /\ blocked = FALSE /\ stuck = FALSE

\* The first holder blocks the device, unless it is stuck.
Take(j) ==
    /\ j \notin holders /\ holders' = holders \union {j}
    /\ lost' \in {lost, lost \union {j}}
    /\ blocked' \in IF holders = {} /\ ~stuck THEN PowerWorks ELSE {blocked}
    /\ UNCHANGED stuck

\* Others hold it still, or nothing was blocked.
GiveBack(j) ==
    /\ j \in holders \ lost /\ holders' = holders \ {j}
    /\ holders' = {} => stuck \/ ~blocked
    /\ UNCHANGED <<lost, blocked, stuck>>

\* The last one lets the device sleep.
LetSleep(j) ==
    /\ holders = {j} /\ j \notin lost /\ holders' = {}
    /\ blocked /\ ~stuck
    /\ \E works \in PowerWorks : blocked' = ~works /\ stuck' = ~works
    /\ UNCHANGED lost

\* The application closes, when no one works.
Close ==
    /\ holders = lost
    /\ holders' = {} /\ lost' = {} /\ blocked' = FALSE /\ stuck' = FALSE

Next == Close \/ \E j \in Jobs : Take(j) \/ GiveBack(j) \/ LetSleep(j)

Spec == Init /\ [][Next]_guard
================================================================================
