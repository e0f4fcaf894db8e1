---------------------------- MODULE MCMergedView ----------------------------
(* Instances of MergedView for TLC. *)
EXTENDS MergedView

CONSTANTS r1, r2

\* "a1" and "a2" are made for task "a", "b1" for task "b".
Author == [e \in Edits |-> IF e = "b1" THEN "b" ELSE "a"]
=============================================================================
