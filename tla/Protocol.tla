------------------------------ MODULE Protocol ------------------------------
(***************************************************************************)
(* The JSON-RPC vocabulary every carrier shares (src/protocol.rs).  A      *)
(* message is what the code reads of it: whether it carries a method, its  *)
(* id (0 stands for an id that is absent or null), whether it is an error. *)
(* "tag" is not on the wire: it says which request an answer was made for, *)
(* or which notification this is, so that properties can speak of it.      *)
(***************************************************************************)
EXTENDS Naturals

\* No id: absent, or JSON null, which classify filters out.
NoId == 0

\* One line off a wire.  json = FALSE is a line no parser accepts.
Line == [json : BOOLEAN, method : BOOLEAN, id : Nat, error : BOOLEAN, tag : Nat]

Reply(id, of) ==
    [json |-> TRUE, method |-> FALSE, id |-> id, error |-> FALSE, tag |-> of]

\* The error a peer sends about something it could not parse: it has no id.
NullError ==
    [json |-> TRUE, method |-> FALSE, id |-> NoId, error |-> TRUE, tag |-> 0]

Ask(id) ==
    [json |-> TRUE, method |-> TRUE, id |-> id, error |-> FALSE, tag |-> 0]

Note(n) ==
    [json |-> TRUE, method |-> TRUE, id |-> NoId, error |-> FALSE, tag |-> n]

NotJson ==
    [json |-> FALSE, method |-> FALSE, id |-> NoId, error |-> FALSE, tag |-> 0]

\* What a message is to a reader blocked on the id "awaiting" (NoId: on none).
Classify(msg, awaiting) ==
    IF msg.method
      THEN IF msg.id # NoId THEN "ServerRequest" ELSE "Notification"
      ELSE IF \/ awaiting # NoId /\ msg.id = awaiting
              \/ awaiting = NoId /\ (msg.id # NoId \/ msg.error)
             THEN "Response"
             ELSE "Foreign"
=============================================================================
