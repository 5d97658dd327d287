------------------------------- MODULE MCNotes -------------------------------
(* Two commands, two configs one after another under the name, two tasks.    *)
(* No name of a command or a config is special.                              *)
EXTENDS Notes, TLC

Symmetry == Permutations(Commands) \cup Permutations(Configs)
=============================================================================
