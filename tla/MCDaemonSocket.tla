--------------------------- MODULE MCDaemonSocket ---------------------------
(* Three daemons, two commands and a stop, in any order and at the same time. *)
EXTENDS DaemonSocket, TLC

Alike == Permutations(Daemons) \cup Permutations(Commands)
=============================================================================
