---------------------------- MODULE HttpSession ----------------------------
(***************************************************************************)
(* A command and the HTTP server it talks to: opening a session at the     *)
(* right era (src/session.rs), one POST per request with at most one more  *)
(* attempt (src/transport/retry.rs), the session id a server hands out,    *)
(* the DELETE that gives it back (src/transport/http.rs), and the note of  *)
(* the era that the next command opens with (src/client.rs).               *)
(*                                                                         *)
(* Protocol revisions are numbers in the order of their dates: 1 to        *)
(* Handshakes are the known ones with an initialize handshake, the next is *)
(* the known one without; 0 and the last are revisions only servers know.  *)
(***************************************************************************)
EXTENDS Naturals, FiniteSets

CONSTANTS
    Handshakes,   \* how many revisions with a handshake the client knows
    Servers,      \* the sets of revisions that a server may speak
    Rounds        \* MAX_INPUT_ROUNDS: how often a demand for input is answered

Latest == Handshakes + 1
Known == 1..Latest
Versions == 0..(Latest + 1)

ASSUME HttpConstants ==
    /\ Handshakes \in Nat \ {0} /\ Rounds \in Nat
    /\ Servers \subseteq SUBSET Versions

IsModern(v) == v > Handshakes
Newest(S) == CHOOSE v \in S : \A w \in S : w <= v
EraOf(v) == IF IsModern(v) THEN "discovery" ELSE "handshake"
OpensAt(era) == IF era = "handshake" THEN Handshakes ELSE Latest

Opening == {"server/discover", "initialize", "notifications/initialized"}
Working == {"tools/list", "tools/call", "subscriptions/listen"}

\* At most two openings, an initialize and its second attempt in each.
Ids == 1..4

VARIABLES
    speaks,      \* the revisions the server speaks; none for a retired endpoint
    keeps,       \* whether it keeps sessions for clients that shake hands
    hint,        \* whether it now says that the tool is idempotent
    sessions,    \* the sessions it holds open for this command
    initialized, \* those it has been sent notifications/initialized for
    pc,          \* the method being asked, or what the command is doing
    tries,       \* how often the request at hand has been sent
    mail,        \* the request, or what came of it
    pinned,      \* the revision the caller named, or 0
    expected,    \* the era opened with on the strength of the note
    once,        \* --no-retry, or a wait of the caller's own
    version, negotiated, sid, spoke, idem,
    rounds,      \* how many demands for input have been answered
    err,         \* why the session did not open
    note,        \* the era remembered of this server
    \* What only the properties look at:
    opened,      \* the session has come up
    faulty,      \* something between the two went wrong while it opened
    misled,      \* a request was carried out, and failed as if it had not been
    moved,       \* a refused notifications/initialized passed for a refused initialize
    told,        \* the sessions the server named in the replies that came whole
    glimpsed,    \* and in those that broke off
    declared,    \* whether the last listing to arrive called the tool idempotent
    runs,        \* how often the call or listen at hand has been carried out
    lost         \* the DELETE was

server == <<speaks, keeps, hint, sessions, initialized>>
dialed == <<pinned, expected, once, version, negotiated>>
learnt == <<sid, spoke, idem>>
network == <<faulty, misled, glimpsed, declared>>
vars == <<server, pc, tries, mail, dialed, learnt, rounds, err, note, opened, network,
          moved, told, runs, lost>>

Answers == {"ok", "rpc", "status"}
Losses == {"unreached", "busy", "gateway", "interrupted", "final"}
Errors == {"none", "noMethod", "noRoute", "unsupported", "modern", "rpcOther", "status",
           "transport", "legacy"}

Mail(is, e, named, says) == [is |-> is, err |-> e, named |-> named, says |-> says]
NoMail == Mail("none", "none", 0, 0)
Posted == Mail("sent", "none", 0, 0)
Lost(kind) == Mail(kind, "none", 0, 0)

TypeOK ==
    /\ speaks \subseteq Versions
    /\ {keeps, hint, once, spoke, idem, opened, faulty, misled, moved, declared, lost}
          \subseteq BOOLEAN
    /\ initialized \subseteq Ids /\ sessions \subseteq Ids
    /\ told \subseteq Ids /\ glimpsed \subseteq Ids
    /\ pc \in Opening \cup Working \cup {"off", "ready", "close", "closed"}
    /\ pinned \in Known \cup {0} /\ expected \in {"none", "handshake", "discovery"}
    /\ version \in Known /\ negotiated \in 0..Handshakes /\ sid \in Ids \cup {0}
    /\ tries \in 0..2 /\ rounds \in 0..Rounds /\ runs \in Nat
    /\ mail \in [is : Answers \cup Losses \cup {"none", "sent"}, err : Errors,
                 named : Ids \cup {0}, says : Versions]
    /\ err \in Errors /\ note \in {"none", "handshake", "discovery"}
    /\ mail.is # "none" <=> pc \in Opening \cup Working

Init ==
    /\ speaks \in Servers /\ keeps \in BOOLEAN /\ hint \in BOOLEAN
    /\ sessions = {} /\ initialized = {}
    /\ note \in {"none", "handshake", "discovery"}
    /\ pc = "off" /\ mail = NoMail /\ tries = 0 /\ rounds = 0 /\ err = "none"
    /\ pinned = 0 /\ expected = "none" /\ once = FALSE
    /\ version = Latest /\ negotiated = 0 /\ sid = 0 /\ spoke = FALSE /\ idem = FALSE
    /\ opened = FALSE /\ faulty = FALSE /\ misled = FALSE /\ moved = FALSE
    /\ told = {} /\ glimpsed = {} /\ declared = FALSE /\ runs = 0 /\ lost = FALSE

-----------------------------------------------------------------------------
(* The server, and what is between it and the client.                      *)

\* What can come of a request that was carried out: its answer, or a failure
\* on the way back.  A reply that breaks off has shown its headers, and one
\* with a session in them is not for a second attempt.
Broken(named) == Lost(IF named = 0 THEN "interrupted" ELSE "final")

Returns(answer) ==
    \/ /\ mail' = answer
       /\ declared' = IF pc = "tools/list" /\ answer.is = "ok"
                      THEN answer.says = 1 ELSE declared
       /\ UNCHANGED <<faulty, misled, glimpsed>>
    \/ /\ mail' = Broken(answer.named)
       /\ glimpsed' = glimpsed \cup ({answer.named} \ {0})
       /\ faulty' = (faulty \/ ~opened)
       /\ UNCHANGED <<misled, declared>>
    \/ /\ mail' \in {Lost("unreached"), Lost("final"), Lost("gateway")}
       /\ faulty' = (faulty \/ ~opened)
       /\ misled' = (misled \/ mail'.is = "unreached" \/ (mail'.is = "gateway" /\ sid = 0))
       /\ UNCHANGED <<glimpsed, declared>>

Handle(answer) ==
    /\ mail.is = "sent"
    /\ Returns(answer)
    /\ UNCHANGED <<speaks, keeps, hint, pc, tries, dialed, learnt, rounds, err, note, opened,
                   moved, told, lost>>

Refuse(e) ==
    /\ \E carrier \in IF e \in {"noRoute", "status"} THEN {"status"}
                      ELSE IF e = "rpcOther" THEN {"rpc"} ELSE {"rpc", "status"} :
          Handle(Mail(carrier, e, 0, 0))
    /\ UNCHANGED <<sessions, initialized, runs>>

Handshaken == speaks \cap 0..Handshakes

\* A server from before server/discover has no such method; one that speaks
\* other revisions without a handshake says which it does speak.
HandleDiscover ==
    /\ pc = "server/discover"
    /\ \/ /\ Latest \in speaks
          /\ Handle(Mail("ok", "none", 0, 0))
          /\ UNCHANGED <<sessions, initialized, runs>>
       \/ /\ Latest \notin speaks
          /\ \E e \in IF speaks = {} THEN {"noRoute"}
                      ELSE IF speaks \ Handshaken # {} THEN {"unsupported"}
                      ELSE {"noMethod", "noRoute", "rpcOther"} : Refuse(e)

\* Refusals that say nothing of methods, revisions or routes.
Unforeseen == {"rpcOther", "status"}

\* The server answers with the revision offered if it speaks it, or else with
\* the newest it does.
HandleInitialize ==
    /\ pc = "initialize"
    /\ \/ /\ Handshaken # {}
          /\ LET said == IF version \in speaks THEN version ELSE Newest(Handshaken)
             IN IF keeps
                THEN \E id \in Ids :
                        /\ id \notin sessions \cup told \cup glimpsed
                        /\ \A i \in Ids : i < id => i \in sessions \cup told \cup glimpsed
                        /\ Handle(Mail("ok", "none", id, said))
                        /\ sessions' = sessions \cup {id}
                        /\ UNCHANGED <<initialized, runs>>
                ELSE Handle(Mail("ok", "none", 0, said))
                     /\ UNCHANGED <<sessions, initialized, runs>>
       \/ /\ Handshaken = {}
          /\ \E e \in IF speaks = {} THEN {"noRoute"}
                      ELSE {"noMethod", "noRoute", "unsupported", "modern"} \cup Unforeseen : Refuse(e)

Admits == keeps => IsModern(version) \/ sid \in sessions

HandleInitialized ==
    /\ pc = "notifications/initialized"
    /\ \/ /\ Admits
          /\ Handle(Mail("ok", "none", 0, 0))
          /\ initialized' = initialized \cup ({sid} \ {0})
          /\ UNCHANGED <<sessions, runs>>
       \/ ~Admits /\ Refuse("noRoute")

\* A demand for input is an answer, and the tool has not run.
HandleWork ==
    /\ pc \in Working
    /\ \/ /\ Admits /\ (keeps => IsModern(version) \/ sid \in initialized)
          /\ \E says \in 0..1 :
                /\ pc = "tools/list" => says = (IF hint THEN 1 ELSE 0)
                /\ says = 1 => pc = "tools/list" \/ (pc = "tools/call" /\ IsModern(version))
                /\ runs' = runs + (IF pc = "tools/list" \/ says = 1 THEN 0 ELSE 1)
                /\ Handle(Mail("ok", "none", 0, says))
          /\ UNCHANGED <<sessions, initialized>>
       \/ ~Admits /\ Refuse("noRoute")
       \/ Refuse("rpcOther")

\* No connection, a server or gateway too busy for it, no answer in time, or a
\* status from something that is not the server.
Undelivered ==
    /\ mail.is = "sent"
    /\ mail' \in {Lost(kind) : kind \in Losses \ {"interrupted"}}
          \cup {Mail("status", e, 0, 0) : e \in {"noRoute", "status"}}
    /\ faulty' = (faulty \/ ~opened)
    /\ UNCHANGED <<server, pc, tries, dialed, learnt, rounds, err, note, opened, misled,
                   glimpsed, declared, moved, told, runs, lost>>

Expire ==
    /\ pc # "closed"
    /\ \E id \in sessions : sessions' = sessions \ {id}
    /\ faulty' = (faulty \/ ~opened)
    /\ UNCHANGED <<speaks, keeps, hint, initialized, pc, tries, mail, dialed, learnt, rounds,
                   err, note, opened, misled, glimpsed, declared, moved, told, runs, lost>>

ToolsChange ==
    /\ pc = "ready"
    /\ hint' = ~hint
    /\ UNCHANGED <<speaks, keeps, sessions, initialized, pc, tries, mail, dialed, learnt,
                   rounds, err, note, opened, network, moved, told, runs, lost>>

-----------------------------------------------------------------------------
(* One exchange.                                                           *)

Ask(method) == pc' = method /\ mail' = Posted /\ tries' = 1

IsIdempotent == pc \in {"server/discover", "initialize", "tools/list"}
                \/ (pc = "tools/call" /\ idem)

WorthRetrying ==
    \/ mail.is \in {"unreached", "busy"}
    \/ mail.is = "gateway" /\ (IsIdempotent \/ sid = 0)
    \/ mail.is = "interrupted" /\ IsIdempotent

\* A slip: the second attempt is judged as the first was.
SendsAgainAndAgain == ~once /\ pc # "subscriptions/listen" /\ WorthRetrying

\* subscriptions/listen goes another way, which never sends it twice.
SendsAgain == tries = 1 /\ ~once /\ pc # "subscriptions/listen" /\ WorthRetrying

Retry ==
    /\ SendsAgain
    /\ mail' = Posted /\ tries' = 2
    /\ UNCHANGED <<server, pc, dialed, learnt, rounds, err, note, opened, network, moved, told,
                   runs, lost>>

\* A retired endpoint is told by one GET, and only if nothing else has spoken;
\* discovery does not ask, being what another request will follow.
Probed == /\ speaks = {} /\ mail.err = "noRoute"
          /\ ~spoke /\ pc # "server/discover"

Error ==
    CASE mail.is = "rpc" -> mail.err
      [] mail.is = "status" -> IF Probed THEN "legacy" ELSE mail.err
      [] mail.is \in {"busy", "gateway"} -> "status"
      [] OTHER -> "transport"

Spoken == mail.is \in {"ok", "rpc"}

Spoke == spoke \/ Spoken

\* What the transport keeps of a reply.
Learn ==
    /\ spoke' = Spoke
    /\ sid' = IF mail.named # 0 THEN mail.named ELSE sid
    /\ told' = told \cup ({mail.named} \ {0})

Succeeded == mail.is = "ok"
Failed == /\ mail.is \in Losses \cup {"rpc", "status"}
          /\ ~SendsAgain

-----------------------------------------------------------------------------
(* Opening.                                                                *)

Open ==
    /\ pc = "off"
    /\ once' \in BOOLEAN
    /\ pinned' \in Known \cup {0}
    /\ expected' = IF pinned' = 0 THEN note ELSE "none"
    /\ version' = IF pinned' # 0 THEN pinned' ELSE OpensAt(note)
    /\ Ask(IF IsModern(version') THEN "server/discover" ELSE "initialize")
    /\ UNCHANGED <<server, negotiated, learnt, rounds, err, note, opened, network, moved,
                   told, runs, lost>>

GiveUp(e) ==
    /\ pc' = "close" /\ mail' = NoMail /\ tries' = 0 /\ err' = e
    /\ UNCHANGED <<dialed, moved>>

\* connect notes the era when it is news; a note that cannot be written is
\* left as it was.  What it opened with matters no more.
Ready ==
    /\ pc' = "ready" /\ mail' = NoMail /\ tries' = 0
    /\ opened' = TRUE /\ faulty' = FALSE
    /\ note' \in IF pinned # 0 THEN {note} ELSE {note, EraOf(version)}
    /\ pinned' = 0 /\ expected' = "none"
    /\ UNCHANGED <<server, once, version, negotiated, idem, rounds, err, misled, glimpsed,
                   declared, moved, runs, lost>>

Unopened == UNCHANGED <<server, idem, rounds, note, opened, network, runs, lost>>

Discovered ==
    /\ pc = "server/discover" /\ Succeeded
    /\ Learn /\ Ready

\* The revision to shake hands with after a refused server/discover; 0 for none.
InsteadOfDiscovering(e) ==
    LET named == speaks \cap 1..Handshakes
    IN IF pinned # 0 THEN 0
       ELSE IF e = "unsupported" THEN (IF named = {} THEN 0 ELSE Newest(named))
       ELSE IF e \in {"noMethod", "noRoute", "rpcOther"} THEN Handshakes ELSE 0

DiscoverRefused ==
    /\ pc = "server/discover" /\ Failed
    /\ Learn
    /\ LET v == InsteadOfDiscovering(Error)
       IN IF v = 0
          THEN GiveUp(IF Error = "unsupported" THEN "transport" ELSE Error)
          ELSE /\ version' = v
               /\ Ask("initialize")
               /\ UNCHANGED <<pinned, expected, once, negotiated, err, moved>>
    /\ Unopened

\* A slip: only the JSON-RPC way of saying it is understood.
MovedByCode(e) == e \in {"noMethod", "unsupported", "modern"}

MovedPastTheHandshake(e) == e \in {"noMethod", "unsupported", "modern", "noRoute"}

Initialized ==
    /\ pc = "initialize" /\ Succeeded
    /\ Learn
    /\ IF mail.says \in Known
       THEN /\ version' = mail.says /\ negotiated' = mail.says
            /\ Ask("notifications/initialized")
            /\ UNCHANGED <<pinned, expected, once, err, moved>>
       ELSE GiveUp("transport")
    /\ Unopened

\* Either half of the handshake failed.  An era that was only remembered is
\* worked out after all.
HandshakeRefused ==
    /\ pc \in {"initialize", "notifications/initialized"} /\ Failed
    /\ pc = "notifications/initialized" => mail.is # "rpc"
    /\ Learn
    /\ IF expected = "handshake" /\ MovedPastTheHandshake(Error)
       THEN /\ expected' = "none" /\ version' = Latest
            /\ Ask("server/discover")
            /\ moved' = (moved \/ pc = "notifications/initialized")
            /\ UNCHANGED <<pinned, once, negotiated, err>>
       ELSE GiveUp(Error)
    /\ Unopened

\* Nobody reads what a server answers to a notification.
HandshakeDone ==
    /\ pc = "notifications/initialized" /\ Spoken
    /\ Learn /\ Ready

-----------------------------------------------------------------------------
(* Requests.                                                               *)

Request ==
    /\ pc = "ready"
    /\ \E method \in Working :
          /\ method = "subscriptions/listen" => IsModern(version)
          /\ Ask(method)
    /\ rounds' = 0 /\ runs' = 0
    /\ UNCHANGED <<server, dialed, learnt, err, note, opened, network, moved, told, lost>>

\* The caller has its result, or its error; a shell goes on after either.
Answered ==
    /\ pc' \in {"ready", "close"}
    /\ mail' = NoMail /\ tries' = 0
    /\ runs' = 0 /\ rounds' = 0
    /\ UNCHANGED <<server, dialed, err, note, opened, network, moved, lost>>

\* A slip: a tool once idempotent stays so.
NoteToolsForGood == idem' = (idem \/ (pc = "tools/list" /\ mail.says = 1))

\* note_tools: a tool listed again without the hint is forgotten.
NoteTools == idem' = IF pc = "tools/list" THEN mail.says = 1 ELSE idem

Demanded == pc = "tools/call" /\ IsModern(version) /\ mail.says = 1

Finished ==
    /\ pc \in Working /\ Succeeded
    /\ ~Demanded \/ rounds = Rounds
    /\ Learn /\ NoteTools /\ Answered

\* Nothing can answer the demand, or it is answered with the next request.
Unanswerable ==
    /\ pc \in Working /\ Succeeded /\ Demanded
    /\ Learn /\ NoteTools /\ Answered

AnswerDemand ==
    /\ pc \in Working /\ Succeeded /\ Demanded /\ rounds < Rounds
    /\ Learn /\ NoteTools
    /\ Ask(pc)
    /\ rounds' = rounds + 1
    /\ UNCHANGED <<server, dialed, err, note, opened, network, moved, runs, lost>>

RequestFailed ==
    /\ pc \in Working /\ Failed
    /\ Learn /\ UNCHANGED idem
    /\ Answered

Leave ==
    /\ pc = "ready"
    /\ pc' = "close"
    /\ UNCHANGED <<server, tries, mail, dialed, learnt, rounds, err, note, opened, network,
                   moved, told, runs, lost>>

\* A slip: only a session that came up is closed.
CloseIfOpened ==
    /\ pc = "close"
    /\ sessions' = IF opened THEN sessions \ {sid} ELSE sessions
    /\ pc' = "closed" /\ sid' = 0
    /\ UNCHANGED <<speaks, keeps, hint, initialized, tries, mail, dialed, spoke, idem, rounds,
                   err, note, opened, network, moved, told, runs, lost>>

\* Dropping the session closes the transport.  No answer is waited for, and no
\* failure told.
Close ==
    /\ pc = "close"
    /\ \/ sessions' = sessions \ {sid} /\ UNCHANGED lost
       \/ sid # 0 /\ lost' = TRUE /\ UNCHANGED sessions
    /\ pc' = "closed" /\ sid' = 0
    /\ UNCHANGED <<speaks, keeps, hint, initialized, tries, mail, dialed, spoke, idem, rounds,
                   err, note, opened, network, moved, told, runs>>

\* The command is over, and leaves nothing behind but the note.
Exit ==
    /\ pc = "closed" /\ pc' = "off"
    /\ sessions' = {} /\ initialized' = {}
    /\ err' = "none" /\ pinned' = 0 /\ expected' = "none" /\ once' = FALSE
    /\ version' = Latest /\ negotiated' = 0 /\ spoke' = FALSE /\ idem' = FALSE
    /\ opened' = FALSE /\ faulty' = FALSE /\ misled' = FALSE /\ moved' = FALSE
    /\ told' = {} /\ glimpsed' = {} /\ declared' = FALSE /\ runs' = 0 /\ lost' = FALSE
    /\ UNCHANGED <<speaks, keeps, hint, tries, mail, sid, rounds, note>>

\* Between two commands the server may be replaced.
Upgrade ==
    /\ pc = "off"
    /\ speaks' \in Servers /\ keeps' \in BOOLEAN
    /\ UNCHANGED <<hint, sessions, initialized, pc, tries, mail, dialed, learnt, rounds, err,
                   note, opened, network, moved, told, runs, lost>>

Between == HandleDiscover \/ HandleInitialize \/ HandleInitialized \/ HandleWork \/ Undelivered
Client == \/ Retry \/ Discovered \/ DiscoverRefused \/ Initialized \/ HandshakeRefused
          \/ HandshakeDone \/ Finished \/ Unanswerable \/ AnswerDemand \/ RequestFailed \/ Close \/ Exit
Next == \/ Between \/ Client \/ Open \/ Request \/ Leave \/ Expire \/ ToolsChange \/ Upgrade

\* The client is one thread, and every attempt ends at its timeout.
Fairness == WF_vars(Between) /\ WF_vars(Client)

Spec == Init /\ [][Next]_vars /\ Fairness

-----------------------------------------------------------------------------
(* What must hold.                                                         *)

\* A request that was carried out is sent again only if doing it twice does no
\* harm: the tool was listed as idempotent.  The exception is a failure that
\* reads as if nothing had been carried out (retry.rs, worth_retrying).
RunsOnce == runs > 1 => misled \/ (pc = "tools/call" /\ declared)

\* A client that has been told of a session opens no second beside it
\* (HttpTransport::attempt), unless it took a refused
\* notifications/initialized for a refused initialize.
NoSecondSession == ~moved => Cardinality((told \cup glimpsed) \cap sessions) <= 1

\* Every session that a whole reply named is given back when the command ends,
\* whichever way it ends (HttpTransport::close, from Session::drop).
NoneLeftOpen == pc = "closed" /\ ~lost /\ ~moved => told \cap sessions = {}

\* If nothing goes wrong on the way, a command that names no revision fails to
\* open only where the two have none in common: a stale note costs a round
\* trip and never the command (session.rs, expecting and open).  Left out are
\* a server whose only revision with a handshake is one the client does not
\* know - it answers initialize, and with the wrong note that is the end - and
\* one that refuses initialize in none of the three ways that
\* moved_past_the_handshake reads as a stale note.
NoteCostsNoCommand ==
    (/\ pc \in {"close", "closed"} /\ ~opened /\ ~faulty /\ pinned = 0
     /\ Handshaken # {0} /\ err \notin Unforeseen)
        => speaks \cap Known = {}

\* Opening, a request and closing all come to an end: retries and demands for
\* input are bounded, and a stale note is given up once.
RequestsEnd == (pc \notin {"off", "ready"}) ~> (pc \in {"off", "ready"})
=============================================================================
