----------------------------- MODULE StoreHistory -----------------------------
(* The store implements the history of module History, as long as no command *)
(* overlaps a prune: a snapshot is saved once it is listed and complete.     *)
EXTENDS Store

H == INSTANCE History WITH
        State <- Id,
        saved <- {id \in Listed : Stored(id)},
        newest <- NewestIds

\* Every step of a command, a crash between any two of them included, records
\* one state, forgets some that are not the newest, or changes nothing that
\* can be gone back to (the order of writes in snapshot.go, index.go, gc.go).
ImplementsHistory == H!Spec
=============================================================================
