------------------------------- MODULE MCShell -------------------------------
(* Two lists, two resources, a few lines.  No resource is special.           *)
EXTENDS Shell, TLC

Symmetry == Permutations(URIs)
=============================================================================
