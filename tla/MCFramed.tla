------------------------------ MODULE MCFramed ------------------------------
(* Small instances of Framed: a session numbers its requests 1, 2, 3, ... *)
EXTENDS Framed

MCWireId == [c \in Calls |-> c]
=============================================================================
