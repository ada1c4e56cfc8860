--------------------------- MODULE CaptureContract ---------------------------
(***************************************************************************)
(* What CaptureManager promises to those who call run() and read status(): *)
(* one session at a time; counters that start from zero; every packet seen *)
(* is settled, as parsed or as skipped, before the next one is seen and    *)
(* before the session ends; a session ends as stopped or as failed, and    *)
(* only then may the next one begin.                                       *)
(***************************************************************************)
EXTENDS Naturals

VARIABLES
    phase,   \* idle, opening, active, stopped or failed
    seen,    \* packets seen by the session
    settled  \* packets counted as parsed or as skipped

contractVars == <<phase, seen, settled>>

Running == phase \in {"opening", "active"}

Init ==
    /\ phase = "idle"
    /\ seen = 0
    /\ settled = 0

Begin ==
    /\ ~Running
    /\ phase' = "opening"
    /\ UNCHANGED <<seen, settled>>

Ready ==
    /\ phase = "opening"
    /\ phase' = "active"
    /\ seen' = 0
    /\ settled' = 0

See ==
    /\ phase = "active"
    /\ seen = settled
    /\ seen' = seen + 1
    /\ UNCHANGED <<phase, settled>>

Settle ==
    /\ phase = "active"
    /\ settled < seen
    /\ settled' = settled + 1
    /\ UNCHANGED <<phase, seen>>

Finish ==
    /\ phase = "active"
    /\ seen = settled
    /\ phase' \in {"stopped", "failed"}
    /\ UNCHANGED <<seen, settled>>

Next == Begin \/ Ready \/ See \/ Settle \/ Finish

Spec == Init /\ [][Next]_contractVars
=============================================================================
