------------------------------- MODULE MCDaemon -------------------------------
(* Daemon with few pids and commands, for MCDaemon*.cfg. *)
EXTENDS Daemon, TLC

\* No property names a pid or a command.
Symmetry == Permutations(Pids) \cup Permutations(Commands)
=============================================================================
