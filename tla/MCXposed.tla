------------------------------ MODULE MCXposed ------------------------------
(***************************************************************************)
(* Two or three processes, of which two register under the same name, as   *)
(* all processes with the loader do.                                       *)
(***************************************************************************)
EXTENDS Xposed

CONSTANTS p1, p2, p3, s1

Packages == [p \in Proc |-> IF p = p1 THEN "g1" ELSE "g2"]
Names == [p \in Proc |-> IF p = p3 THEN "other" ELSE "sub_plug_loader"]
\* The name of g1 contains the setting s1; that of g2 contains none.
Containing == [g \in {Packages[p] : p \in Proc} |-> IF g = "g1" THEN {s1} ELSE {}]
=============================================================================
