------------------------------ MODULE MCTimeline ------------------------------
(* Constants of Timeline for MCTimeline.cfg. *)
EXTENDS Timeline, TLC

CONSTANTS c1, c2, m1, m2

Symmetry == Permutations({c1, c2}) \cup Permutations({m1, m2})
===============================================================================
