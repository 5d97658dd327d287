------------------------------ MODULE Snapshot ------------------------------
(***************************************************************************)
(* A server's tools as a file, and what has changed since it was written   *)
(* (snapshot.rs).                                                          *)
(*                                                                         *)
(* A tool is its name, a number; the top level of its inputSchema, which   *)
(* is the type of each property, the set of required names and whether it  *)
(* is closed; and one other key.  A difference keeps the tool, the kind    *)
(* and whether it breaks a caller.                                         *)
(***************************************************************************)
EXTENDS Integers, Sequences, SequencesExt, FiniteSets, Functions

Difference(tool, kind, breaking) == [tool |-> tool, kind |-> kind, breaking |-> breaking]

Fields(tool) == DOMAIN tool.props
TypeName(tool, name) == tool.props[name]

(* The file: the tools sorted by name, and the server they came from, which
   nothing compares. *)
Document(server, tools) ==
    [server |-> server,
     tools |-> SortSeq(tools, LAMBDA t, u: t.name < u.name)]

(* What is not a snapshot is an error and no comparison. *)
Read(file) == IF file.is = "snapshot" THEN [ok |-> TRUE, tools |-> file.document.tools]
              ELSE [ok |-> FALSE, tools |-> <<>>]

(* One property that the snapshot has. *)
Kept(was, now, name) ==
    LET needed == name \in was.required
        needs == name \in now.required
    IN IF name \notin Fields(now) THEN {<<"property-removed", needed>>}
       ELSE {k \in {<<"type-changed", TRUE>>}: TypeName(was, name) # TypeName(now, name)}
            \cup {k \in {<<"now-required", TRUE>>}: needs /\ ~needed}
            \cup {k \in {<<"now-optional", FALSE>>}: needed /\ ~needs}

(* One that only the server has. *)
New(now, name) == IF name \in now.required THEN {<<"now-required", TRUE>>} ELSE {<<"property-added", FALSE>>}

(* A slip: a property that only the server has is never held against it. *)
PropertiesKept(was, now, strict) ==
    {Difference(was.name, k[1], k[2] \/ strict):
        k \in UNION {Kept(was, now, n): n \in Fields(was)}}

Properties(was, now, strict) ==
    {Difference(was.name, k[1], k[2] \/ strict):
        k \in (UNION {Kept(was, now, n): n \in Fields(was)})
              \cup (UNION {New(now, n): n \in Fields(now) \ Fields(was)})}

(* What strict adds: each other key, and the schema where nothing has been
   said of it. *)
Keys(was, now, explained) ==
    {Difference(was.name, "differs", TRUE): k \in
        {key \in {"inputSchema", "other"}:
            \/ key = "other" /\ was.other # now.other
            \/ key = "inputSchema" /\ ~explained
               /\ <<was.props, was.required, was.closed>> # <<now.props, now.required, now.closed>>}}

(* The server's tool of a name is the first of that name. *)
Live(live, name) == SelectInSeq(live, LAMBDA t: t.name = name)

OneTool(was, live, strict) ==
    LET at == Live(live, was.name)
    IN IF at = 0 THEN {Difference(was.name, "tool-missing", TRUE)}
       ELSE LET found == Properties(was, live[at], strict)
            IN found \cup IF strict THEN Keys(was, live[at], found # {}) ELSE {}

Compare(snapshot, live, strict) ==
    (UNION {OneTool(snapshot[i], live, strict): i \in DOMAIN snapshot})
    \cup {Difference(t.name, "tool-added", FALSE):
            t \in {u \in ToSet(live): u.name \notin {s.name: s \in ToSet(snapshot)}}}

Ok(differences) == ~\E d \in differences: d.breaking

(* The one tool a call is about, for call --check. *)
Named(tools, name) == SelectSeq(tools, LAMBDA t: t.name = name)

-----------------------------------------------------------------------------
(* What has to hold *)

(* A call the snapshot's tool took: names it had, the required ones of those
   among them. *)
CallsOf(tool) == {c \in SUBSET Fields(tool): tool.required \cap Fields(tool) \subseteq c}

(* The server's tool asks for nothing the call did not give, and takes what
   it gave as the type it was. *)
StillTakes(now, was, call) ==
    /\ now.required \cap Fields(now) \subseteq call
    /\ \A n \in call \cap Fields(now): TypeName(now, n) = TypeName(was, n)

(* What passes the check still takes every call of the tools it named, and
   has each property those had to be given; under strict it is the same tool,
   key for key.  What is not a snapshot passes nothing. *)
KeepsThePromise(snapshot, live, strict) ==
    LET ok == Ok(Compare(snapshot, live, strict))
    IN /\ ok => \A i \in DOMAIN snapshot:
                  LET was == snapshot[i]
                      at == Live(live, was.name)
                  IN /\ at # 0
                     /\ was.required \cap Fields(was) \subseteq Fields(live[at])
                     /\ \A c \in CallsOf(was): StillTakes(live[at], was, c)
       /\ strict => (ok <=> ToSet(snapshot) \subseteq ToSet(live))

(* A server checked against its own snapshot shows no difference, and a check
   of one tool finds what the check of all finds of it. *)
ChecksAgree(snapshot, live, strict) ==
    /\ Compare(Read([is |-> "snapshot", document |-> Document("s", live)]).tools, live, strict) = {}
    /\ \A n \in {t.name: t \in ToSet(snapshot)}:
          Compare(Named(snapshot, n), Named(live, n), strict)
            = {d \in Compare(snapshot, live, strict): d.tool = n}
=============================================================================
