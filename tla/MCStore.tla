------------------------------- MODULE MCStore -------------------------------
(* Store with sets small enough for TLC; see the configurations MCStore_*. *)
EXTENDS StoreHistory, TLC

\* Snapshotting processes are interchangeable and so are contents: no property
\* names one.
Symmetry == Permutations(Snappers) \cup Permutations(Content)
=============================================================================
