------------------------------- MODULE MCPrune -------------------------------
(* Prune with sets small enough for TLC, for MCPrune.cfg. *)
EXTENDS Prune

Retention(hours, daily, max) ==
    [keepHours |-> hours, keepDaily |-> daily, max |-> max]

\* Window only, days only, both, a window as long as the days, caps, values
\* below zero, and hours that wrap around.
SomePolicies ==
    {Retention(2, 0, 0), Retention(0, 2, 0), Retention(1, 2, 0),
     Retention(3, 1, 0), Retention(1, 2, 2), Retention(4, 1, 1),
     Retention(-1, -1, -1), Retention(6, 2, 0)}

Symmetry == Permutations(Snapshots)
=============================================================================
