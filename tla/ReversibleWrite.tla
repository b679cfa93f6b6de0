---------------------------- MODULE ReversibleWrite ----------------------------
(***************************************************************************)
(* What a run of verify_progress_sync.py promises of a reader's position:  *)
(* it moves it to a place nearby at most, and it passes only when one of   *)
(* its writes was taken and the position is again the one it found.  The   *)
(* promise is void once something disturbs the run.                        *)
(***************************************************************************)
CONSTANTS
    Positions,
    Near(_)     \* the positions a run may move this one to

VARIABLES
    origin,     \* the position the run found
    position,   \* the position now
    written,    \* a write of the run was taken
    disturbed,
    verdict

promise == <<origin, position, written, disturbed, verdict>>

Init ==
    /\ origin \in Positions /\ position = origin
    /\ written = FALSE /\ disturbed \in BOOLEAN
    /\ verdict = "open"

\* A write of the run; its answer, or the lack of it, may end the run.
Write ==
    /\ verdict = "open" /\ verdict' \in {"open", "failed"}
    /\ position' \in Near(origin) \/ (disturbed /\ position' \in Positions)
    /\ written' \in {written, TRUE}
    /\ UNCHANGED <<origin, disturbed>>

Disturb ==
    /\ verdict = "open"
    /\ disturbed' = TRUE /\ position' \in Positions
    /\ UNCHANGED <<origin, written, verdict>>

Pass ==
    /\ verdict = "open" /\ verdict' = "passed"
    /\ disturbed' \in {disturbed, TRUE}
    /\ disturbed' \/ (written /\ position = origin)
    /\ UNCHANGED <<origin, position, written>>

Fail ==
    /\ verdict = "open" /\ verdict' = "failed"
    /\ disturbed' \in {disturbed, TRUE}
    /\ UNCHANGED <<origin, position, written>>

Next == Write \/ Disturb \/ Pass \/ Fail

Spec == Init /\ [][Next]_promise
================================================================================
