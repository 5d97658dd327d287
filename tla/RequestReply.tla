---------------------------- MODULE RequestReply ----------------------------
(***************************************************************************)
(* What a session promises the commands above it: requests are made one at *)
(* a time, each ends once, and it ends either with the answer the server   *)
(* made for that very request or with a failure - never with the answer to *)
(* another request.                                                        *)
(***************************************************************************)
EXTENDS Naturals

CONSTANT Requests

VARIABLE state   \* how far each request has come

Init == state = [r \in Requests |-> "unsent"]

Issue(r) ==
    /\ state[r] = "unsent"
    /\ \A s \in Requests : state[s] # "inflight"
    /\ state' = [state EXCEPT ![r] = "inflight"]

End(r) ==
    /\ state[r] = "inflight"
    /\ \E fate \in {"answered", "failed"} : state' = [state EXCEPT ![r] = fate]

\* A request the transport could not even send.
Refuse(r) ==
    /\ state[r] = "unsent"
    /\ \A s \in Requests : state[s] # "inflight"
    /\ state' = [state EXCEPT ![r] = "failed"]

Next == \E r \in Requests : Issue(r) \/ End(r) \/ Refuse(r)

Spec == Init /\ [][Next]_state
=============================================================================
