--------------------------- MODULE MCDaemonRelay ---------------------------
(* Callers of DaemonRelay.  Each numbers its requests from 1. *)
EXTENDS DaemonRelay

\* a: initialize, call.  b: a shell whose initialize is like a's and left out: a
\* call, under the id of a's, and the stop method typed as a raw request.
MixedRequests == 1..4
MixedBy == <<"a", "a", "b", "b">>
MixedWireId == <<1, 2, 2, 3>>
MixedKind == <<"initialize", "call", "call", "stop">>
=============================================================================
