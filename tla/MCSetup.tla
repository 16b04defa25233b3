------------------------------- MODULE MCSetup -------------------------------
(* Setup with six-bit integers and megabytes of four bytes, for MCSetup.cfg. *)
EXTENDS Setup, TLC

CONSTANTS p1, p2, small, large

Bytes == small :> 6 @@ large :> 24

\* Below zero; enough for both; and one whose bytes wrap around to four.
Numbers == {-1, 7, 17}

Symmetry == Permutations(Process)
===============================================================================
