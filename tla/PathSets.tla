------------------------------ MODULE PathSets ------------------------------
(***************************************************************************)
(* What xh_core_refresh_impl and xh_core_clear need of the two trees of    *)
(* xh_core.c: a set of the paths known from the last refresh and a set of  *)
(* those met in this one.                                                  *)
(***************************************************************************)
CONSTANT Path
VARIABLES known, fresh

Init == known = {} /\ fresh = {}

\* A line of the maps: the path is in the set of this refresh from now on.
Meet(p) == known' = known \ {p} /\ fresh' = fresh \cup {p}
\* What was not met is dropped, and the sets change places.
Drop(p) == p \in known /\ known' = known \ {p} /\ fresh' = fresh
Swap == known = {} /\ known' = fresh /\ fresh' = {}

Next == (\E p \in Path : Meet(p) \/ Drop(p)) \/ Swap

Spec == Init /\ [][Next]_<<known, fresh>>
=============================================================================
