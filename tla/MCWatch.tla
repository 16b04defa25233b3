------------------------------- MODULE MCWatch -------------------------------
(* Watch with sets small enough for TLC, for MCWatch.cfg. *)
EXTENDS Watch, TLC

CONSTANTS root, sub, deep

\* The folder, a directory in it and one in that.
Chain == (sub :> root) @@ (deep :> sub)
=============================================================================
