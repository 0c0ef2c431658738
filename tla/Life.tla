--------------------------------- MODULE Life ---------------------------------
(* The life of a backend as the monitor of pkg/upstream logs it, move by   *)
(* move (slot.go: "healthy -> sick", "sick -> healthy", "sick -> dead",    *)
(* "dead -> sick").  A backend is only killed or cured while it is sick,   *)
(* only resurrected or buried while it is dead, and a cured one comes back *)
(* throttled, never at its full rate.  It is what the code is meant to do  *)
(* step by step, not a document: README.md names the three states only,    *)
(* and the comment of resurrect (slot.go:276) has another move.            *)
EXTENDS Naturals

CONSTANT Backend

VARIABLES
    life,   \* life[b]: "healthy", "sick" or "dead"
    full    \* the backends that may be served at their full rate

Init == life \in [Backend -> {"healthy"}] /\ full = Backend

Move(b, from, to) == life[b] = from /\ life' = [life EXCEPT ![b] = to]

Quarantine(b) == Move(b, "healthy", "sick") /\ UNCHANGED full
Cure(b)       == Move(b, "sick", "healthy") /\ full' = full \ {b}
Kill(b)       == Move(b, "sick", "dead") /\ UNCHANGED full
\* Sick, as slot.go:295 logs, and not healthy, as the comment says.
Resurrect(b)  == Move(b, "dead", "sick") /\ UNCHANGED full
Pace(b)       == UNCHANGED life /\ (full' = full \cup {b} \/ full' = full \ {b})

Next == \E b \in Backend :
            \/ Quarantine(b) \/ Cure(b) \/ Kill(b) \/ Resurrect(b) \/ Pace(b)

Spec == Init /\ [][Next]_<<life, full>>
===============================================================================
