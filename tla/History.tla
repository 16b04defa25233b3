------------------------------- MODULE History -------------------------------
(***************************************************************************)
(* What the store promises to the person in front of it: a set of past     *)
(* states of the folder that can be gone back to, and which of them is the *)
(* newest.  States are recorded, and all but the newest may be forgotten;  *)
(* nothing else ever happens to them, a crash included.                    *)
(***************************************************************************)
CONSTANT State

VARIABLES
    saved,    \* the states that can be gone back to
    newest    \* the state recorded last: a singleton, or {} before the first

Init == saved = {} /\ newest = {}

\* A snapshot of the state is taken, or taken anew.
Record(s) ==
    /\ saved' = saved \cup {s}
    /\ newest' = {s}

\* A state that was half forgotten when a prune was cut short is back, because
\* the folder is in that state again; it is not yet the newest.
Recover(s) ==
    /\ saved' = saved \cup {s}
    /\ newest' = newest

\* Retention drops some states, never the newest.
Forget(S) ==
    /\ S \cap newest = {}
    /\ saved' = saved \ S
    /\ newest' = newest

Next ==
    \/ \E s \in State : Record(s) \/ Recover(s)
    \/ \E S \in SUBSET saved : Forget(S)

Spec == Init /\ [][Next]_<<saved, newest>>

\* The newest state can be gone back to.
NewestSaved == newest \subseteq saved
=============================================================================
