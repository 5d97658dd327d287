----------------------------- MODULE ServeProxy -----------------------------
(***************************************************************************)
(* src/serve.rs: one saved server offered to clients over HTTP, or to one  *)
(* host over stdin and stdout.  Each connection is a thread that reads a   *)
(* request, answers what it can by itself and puts the rest, one job at a  *)
(* time, to the one thread that owns the upstream sessions.  There are at  *)
(* most MaxSessions of those; the stalest makes room for a new one.        *)
(*                                                                         *)
(* A client may name any session it was ever given, also one that has been *)
(* ended since.  The bytes of HTTP, and which tools the lists of a server  *)
(* expose (Dialing.tla), are left out.                                    *)
(***************************************************************************)
EXTENDS Naturals, Sequences, FiniteSets

CONSTANTS
    Clients,      \* the connections
    MaxSessions,  \* MAX_SESSIONS
    MaxTurns      \* bound on the requests made

ASSUME ServeConstants == MaxSessions \in Nat \ {0} /\ MaxTurns \in Nat

Ids == 1..MaxTurns
NoSession == 0
Nobody == "nobody"
Shutdown == "shutdown"

ASSUME ServeClients == {Nobody, Shutdown} \cap Clients = {} /\ Clients # {}

\* Over stdin and stdout there is one client.
Host == CHOOSE c \in Clients : TRUE

\* What comes over a connection.  "local" is what the owner thread answers
\* without its sessions: a batch, a ping, a call of a tool that is not exposed,
\* and the notification of the handshake, which the proxy makes itself.
Kinds == {"local", "initialize", "relayed", "note", "delete"}

VARIABLES
    stdio,     \* serving one host on stdin and stdout, and not HTTP
    conn,      \* each connection: "open", "waiting", "left" (and waiting), "closed"
    request,   \* what each asked last
    answer,    \* the session its last answer came through, if it did
    jobs,      \* the channel to the owner thread
    working,   \* the client whose request waits for the upstream server
    sessions,  \* the ids in the map, stalest first
    upstream,  \* the sessions the upstream server holds open for this process
    minted,    \* how many ids have been minted
    implied,   \* the session of a host, which does not name it
    stop,      \* "no", "interrupted", "told", "ended", "exited", "killed"
    turns,     \* how many requests have been made
    given,     \* ghost: the ids each client was given
    since      \* ghost: the sessions used or opened since each was last used

vars == <<stdio, conn, request, answer, jobs, working, sessions, upstream, minted, implied,
          stop, turns, given, since>>

Held == {sessions[i] : i \in 1..Len(sessions)}

Requests == [kind : Kinds, session : Ids \cup {NoSession}]
NoRequest == [kind |-> "local", session |-> NoSession]

TypeOK ==
    /\ stdio \in BOOLEAN
    /\ conn \in [Clients -> {"open", "waiting", "left", "closed"}]
    /\ request \in [Clients -> Requests]
    /\ answer \in [Clients -> Ids \cup {NoSession}]
    /\ jobs \in Seq(Clients \cup {Shutdown})
    /\ working \in Clients \cup {Nobody}
    /\ sessions \in Seq(Ids) /\ Len(sessions) = Cardinality(Held)
    /\ upstream \subseteq Ids /\ minted \in 0..MaxTurns /\ implied \in Ids \cup {NoSession}
    /\ stop \in {"no", "interrupted", "told", "ended", "exited", "killed"}
    /\ turns \in 0..MaxTurns
    /\ given \in [Clients -> SUBSET Ids] /\ since \in [Ids -> SUBSET Ids]

Init ==
    /\ stdio \in BOOLEAN
    /\ conn = [c \in Clients |-> IF stdio /\ c # Host THEN "closed" ELSE "open"]
    /\ request = [c \in Clients |-> NoRequest]
    /\ answer = [c \in Clients |-> NoSession]
    /\ jobs = <<>> /\ working = Nobody
    /\ sessions = <<>> /\ upstream = {} /\ minted = 0 /\ implied = NoSession
    /\ stop = "no" /\ turns = 0
    /\ given = [c \in Clients |-> {}]
    /\ since = [i \in Ids |-> {}]

-----------------------------------------------------------------------------
(* The connections.                                                        *)

\* A process that has exited has no threads left.
Alive == stop \notin {"exited", "killed"}

\* A client is told (respond), and may ask again.  One that has left is not there
\* to be told, and its thread ends.  A connection that is not to be kept alive is
\* one the client leaves now.
Tells(c, via) ==
    /\ answer' = [answer EXCEPT ![c] = via]
    /\ request' = IF via = NoSession THEN [request EXCEPT ![c] = NoRequest] ELSE request
    /\ conn' = [conn EXCEPT ![c] = IF @ = "waiting" THEN "open" ELSE "closed"]

Accept(c) ==
    /\ stop = "no" /\ ~stdio /\ conn[c] = "closed"
    /\ conn' = [conn EXCEPT ![c] = "open"]
    /\ UNCHANGED <<stdio, request, answer, jobs, working, sessions, upstream, minted, implied,
                   stop, turns, given, since>>

\* What a client may ask, in its next turn.
Asks(c, kind, session) ==
    /\ Alive /\ turns < MaxTurns
    /\ turns' = turns + 1
    /\ request' = [request EXCEPT ![c] = [kind |-> kind, session |-> session]]
    /\ answer' = [answer EXCEPT ![c] = NoSession]

\* The thread of the connection answers by itself: 405 to another method, 400 to
\* what is not JSON.  A request that cannot be read, or has no token, is the last
\* one on its connection.
Refuse(c) ==
    /\ ~stdio /\ conn[c] = "open"
    /\ \E next \in {"open", "closed"} : conn' = [conn EXCEPT ![c] = next]
    /\ answer' = [answer EXCEPT ![c] = NoSession] /\ request' = [request EXCEPT ![c] = NoRequest]
    /\ UNCHANGED <<stdio, jobs, working, sessions, upstream, minted, implied, stop, turns,
                   given, since>>

\* A POST or a DELETE is put to the owner thread, which may have gone.
Post(c) ==
    /\ ~stdio /\ conn[c] = "open"
    /\ \E kind \in Kinds, s \in given[c] \cup {NoSession} : Asks(c, kind, s)
    /\ conn' = [conn EXCEPT ![c] = "waiting"]
    /\ jobs' = IF stop \in {"no", "interrupted", "told"} THEN Append(jobs, c) ELSE jobs
    /\ UNCHANGED <<stdio, working, sessions, upstream, minted, implied, stop, given, since>>

\* The channel the answer would come through is closed: the job was never taken
\* (ask, shutting_down).
ToldOfShutdown(c) ==
    /\ Alive /\ stop = "ended" /\ conn[c] \in {"waiting", "left"}
    /\ Tells(c, NoSession)
    /\ UNCHANGED <<stdio, jobs, working, sessions, upstream, minted, implied, stop,
                   turns, given, since>>

\* A client goes away, or says nothing for IDLE; its thread notices when it next
\* reads or writes.
HangUp(c) ==
    /\ ~stdio /\ Alive /\ conn[c] \in {"open", "waiting"}
    /\ conn' = [conn EXCEPT ![c] = IF @ = "open" THEN "closed" ELSE "left"]
    /\ UNCHANGED <<stdio, request, answer, jobs, working, sessions, upstream, minted, implied,
                   stop, turns, given, since>>

\* A host on stdin: one thread reads a line and handles it.  The session is the
\* one last opened, and there is no way to end one.
HostAsks ==
    /\ stdio /\ stop = "no" /\ conn[Host] = "open"
    /\ \E kind \in Kinds \ {"delete"} : Asks(Host, kind, implied)
    /\ conn' = [conn EXCEPT ![Host] = "waiting"]
    /\ jobs' = <<Host>>
    /\ UNCHANGED <<stdio, working, sessions, upstream, minted, implied, stop, given, since>>

\* The end of stdin: the proxy is dropped, and its sessions with it.
HostEnds ==
    /\ stdio /\ stop = "no" /\ conn[Host] = "open"
    /\ sessions' = <<>> /\ upstream' = {}
    /\ stop' = "exited"
    /\ UNCHANGED <<stdio, conn, request, answer, jobs, working, minted, implied, turns, given, since>>

-----------------------------------------------------------------------------
(* The owner thread.                                                       *)

\* The map without a session it holds.
Without(i) ==
    LET at == CHOOSE n \in 1..Len(sessions) : sessions[n] = i
    IN  [n \in 1..(Len(sessions) - 1) |-> sessions[IF n < at THEN n ELSE n + 1]]

\* A slip: only a request keeps a session fresh.
TouchedByRequests(i) == IF request[Head(jobs)].kind = "note" THEN sessions ELSE Append(Without(i), i)

\* session_mut: the session a request names, if it is held, is the last used.
Touched(i) == Append(Without(i), i)

Uses(i) == since' = [j \in Ids |-> IF j = i THEN {} ELSE since[j] \cup {i}]

Takes(c) ==
    /\ stop \in {"no", "interrupted", "told"} /\ working = Nobody
    /\ jobs # <<>> /\ Head(jobs) = c
    /\ jobs' = Tail(jobs)

AnswerLocally(c) ==
    /\ Takes(c) /\ request[c].kind = "local"
    /\ Tells(c, NoSession)
    /\ UNCHANGED <<stdio, working, sessions, upstream, minted, implied, stop, turns, given, since>>

\* What nobody holds: a notification is dropped, the rest is told so.
NotHeld(c) ==
    /\ Takes(c) /\ request[c].kind \in {"relayed", "note", "delete"}
    /\ request[c].session \notin Held
    /\ Tells(c, NoSession)
    /\ UNCHANGED <<stdio, working, sessions, upstream, minted, implied, stop, turns, given, since>>

Relay(c) ==
    /\ Takes(c) /\ request[c].kind \in {"relayed", "note"}
    /\ request[c].session \in Held
    /\ sessions' = Touched(request[c].session) /\ Uses(request[c].session)
    /\ working' = c
    /\ UNCHANGED <<stdio, conn, request, answer, upstream, minted, implied, stop, turns, given>>

\* Dropping a session ends it upstream as well.
Close(c) ==
    /\ Takes(c) /\ request[c].kind = "delete"
    /\ request[c].session \in Held
    /\ sessions' = Without(request[c].session)
    /\ upstream' = upstream \ {request[c].session}
    /\ Tells(c, NoSession)
    /\ UNCHANGED <<stdio, working, minted, implied, stop, turns, given, since>>

\* The stalest make room before the new session is asked for, and are gone
\* whether it comes or not.
Room == SubSeq(sessions, IF Len(sessions) < MaxSessions THEN 1
                         ELSE Len(sessions) - MaxSessions + 2, Len(sessions))

MakeRoom(c) ==
    /\ Takes(c) /\ request[c].kind = "initialize"
    /\ sessions' = Room
    /\ upstream' = {Room[i] : i \in 1..Len(Room)}
    /\ working' = c
    /\ UNCHANGED <<stdio, conn, request, answer, minted, implied, stop, turns, given, since>>

\* The session opened, and the client's name for it minted.
Open ==
    /\ working # Nobody /\ request[working].kind = "initialize"
    /\ minted' = minted + 1
    /\ sessions' = Append(sessions, minted') /\ upstream' = upstream \cup {minted'}
    /\ Uses(minted')
    /\ given' = [given EXCEPT ![working] = @ \cup {minted'}]
    /\ implied' = IF stdio THEN minted' ELSE implied
    /\ Tells(working, minted') /\ working' = Nobody
    /\ UNCHANGED <<stdio, jobs, stop, turns>>

\* A slip: the answer goes to whoever waits first.
RespondToTheNext ==
    /\ working # Nobody
    /\ LET c == IF jobs # <<>> /\ Head(jobs) # Shutdown THEN Head(jobs) ELSE working
       IN Tells(c, request[working].session)
    /\ working' = Nobody
    /\ UNCHANGED <<stdio, jobs, sessions, upstream, minted, implied, stop, turns, given, since>>

\* The answer of the session that was named, or its refusal or failure: 200
\* either way.  A session that could not be opened, or not be named, is an error.
Respond ==
    /\ working # Nobody
    /\ Tells(working, IF request[working].kind = "initialize" THEN NoSession ELSE request[working].session)
    /\ working' = Nobody
    /\ UNCHANGED <<stdio, jobs, sessions, upstream, minted, implied, stop, turns, given, since>>

-----------------------------------------------------------------------------
(* The end.                                                                *)

Interrupt ==
    /\ ~stdio /\ stop = "no" /\ stop' = "interrupted"
    /\ UNCHANGED <<stdio, conn, request, answer, jobs, working, sessions, upstream, minted,
                   implied, turns, given, since>>

\* A slip: the owner thread is left to notice that its channel has closed, which
\* it has not while a connection holds an end of it.
TellNobody ==
    /\ stop = "interrupted" /\ stop' = "told"
    /\ UNCHANGED <<stdio, conn, request, answer, jobs, working, sessions, upstream, minted,
                   implied, turns, given, since>>

TellOwner ==
    /\ stop = "interrupted" /\ stop' = "told"
    /\ jobs' = Append(jobs, Shutdown)
    /\ UNCHANGED <<stdio, conn, request, answer, working, sessions, upstream, minted, implied,
                   turns, given, since>>

\* The owner thread ends every session on its way out, and takes no more jobs.
OwnerEnds ==
    /\ Takes(Shutdown)
    /\ stop' = "ended" /\ sessions' = <<>> /\ upstream' = {}
    /\ UNCHANGED <<stdio, conn, request, answer, working, minted, implied, turns, given, since>>

\* A slip: the process does not wait for the owner thread.
ExitAtOnce ==
    /\ stop \in {"told", "ended"} /\ stop' = "exited"
    /\ UNCHANGED <<stdio, conn, request, answer, jobs, working, sessions, upstream, minted,
                   implied, turns, given, since>>

\* After the join.
Exit ==
    /\ stop = "ended" /\ stop' = "exited"
    /\ UNCHANGED <<stdio, conn, request, answer, jobs, working, sessions, upstream, minted,
                   implied, turns, given, since>>

\* A second interrupt kills.
Kill ==
    /\ stop \in {"interrupted", "told", "ended"} /\ stop' = "killed"
    /\ UNCHANGED <<stdio, conn, request, answer, jobs, working, sessions, upstream, minted,
                   implied, turns, given, since>>

Connection(c) ==
    Accept(c) \/ Refuse(c) \/ Post(c) \/ ToldOfShutdown(c) \/ HangUp(c)

Owner ==
    \/ \E c \in Clients : AnswerLocally(c) \/ NotHeld(c) \/ Relay(c) \/ Close(c) \/ MakeRoom(c)
    \/ Open \/ Respond \/ OwnerEnds

Ends == TellOwner \/ Exit

Next == (\E c \in Clients : Connection(c)) \/ (Alive /\ Owner)
        \/ HostAsks \/ HostEnds \/ Interrupt \/ Ends \/ Kill

\* Each thread runs, and an upstream request ends at its timeout.
Fairness == WF_vars(Alive /\ Owner) /\ WF_vars(Ends) /\ \A c \in Clients : WF_vars(ToldOfShutdown(c))

Spec == Init /\ [][Next]_vars /\ Fairness

-----------------------------------------------------------------------------
(* What must hold.                                                         *)

\* A client is answered for what it asked, through a session it was itself
\* given: requests wait in one channel and answers come back through one owner
\* thread, whatever other clients ask, end or abandon meanwhile.
AnswersAreOwn ==
    \A c \in Clients : answer[c] # NoSession =>
        /\ answer[c] \in given[c]
        /\ request[c].kind # "initialize" => answer[c] = request[c].session

\* There are never more upstream sessions than MAX_SESSIONS, none that no client
\* can reach through the map, and none at all once the process has ended well
\* ("Every upstream session is terminated here, on the way out").
NoSessionLeaks ==
    /\ Cardinality(upstream) <= MaxSessions
    /\ upstream = Held
    /\ stop = "exited" => upstream = {}

\* A session is ended for want of room only when as many others as there is room
\* for have been opened or used since it was.
OnlyTheStalestGo ==
    [][\A i \in upstream \ upstream' :
         (working' # Nobody /\ working' # working) => Cardinality(since[i] \cap Held) >= MaxSessions - 1]_vars

\* Everyone who waits is answered, told of the shutdown, or outlives the process;
\* and an interrupt ends it, whatever waits in the channel.
EveryoneIsTold ==
    /\ \A c \in Clients : conn[c] \in {"waiting", "left"} ~> (conn[c] \notin {"waiting", "left"} \/ ~Alive)
    /\ stop = "interrupted" ~> ~Alive
=============================================================================
