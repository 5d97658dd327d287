------------------------------ MODULE MCTokens ------------------------------
(* Two commands, two ports, and two authorization servers, of which one        *)
(* rotates its refresh tokens.  No name of a command or a port is special, and *)
(* nothing temporal is checked that symmetry would spoil.                      *)
EXTENDS Tokens, TLC

Symmetry == Permutations(Commands) \cup Permutations(Ports)
=============================================================================
