------------------------------ MODULE MCRestore ------------------------------
(* Restore with sets small enough for TLC, for MCRestore_*.cfg. *)
EXTENDS Restore, TLC

NoRules == {{}}
SecondMayBeIgnored == {{}, {2}}

Symmetry == Permutations(Content \ Oversize)
=============================================================================
