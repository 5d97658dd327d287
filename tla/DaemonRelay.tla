---------------------------- MODULE DaemonRelay ----------------------------
(***************************************************************************)
(* The relay of src/daemon.rs: one server's pipe shared by the commands    *)
(* that come and go at the daemon's socket.  Callers are served one at a   *)
(* time; a caller numbers its requests from 1, and the daemon passes them  *)
(* to the server as they are.  What the server asks during a request is    *)
(* put to the caller being served.                                         *)
(*                                                                         *)
(* A request is a number; Caller and WireId say who makes it and under     *)
(* which id.  Each caller makes its own in increasing order.               *)
(***************************************************************************)
EXTENDS Protocol, Sequences

CONSTANTS
    Callers,        \* the processes that attach
    Requests,       \* the requests they make, a set of positive numbers
    By,             \* who makes each
    WireId,         \* the id it carries, on the socket and on the pipe
    Kind,           \* "initialize", "call" or "stop" (STOP_METHOD)
    MaxTalk         \* bound on what the server says unasked

ASSUME RelayConstants ==
    /\ Requests \subseteq Nat \ {0}
    /\ By \in [Requests -> Callers]
    /\ WireId \in [Requests -> Nat \ {NoId}]
    /\ Kind \in [Requests -> {"initialize", "call", "stop"}]
    /\ MaxTalk \in Nat

None == 0
Nobody == "nobody"

ASSUME NobodyCalls == Nobody \notin Callers

\* A process numbers its requests upward; another's may bear the same numbers.
ASSUME NumbersUpward ==
    \A r, s \in Requests : By[r] = By[s] /\ r < s => WireId[r] < WireId[s]

VARIABLES
    \* the callers
    at,         \* where each one is: "away", "idle", "waiting", "left"
    wants,      \* the request each one waits for, or None
    result,     \* how each request ended
    up,         \* what each one wrote and the daemon has not read
    down,       \* what the daemon wrote and the caller has not read
    \* the daemon
    doing,      \* "accept", "serve", "exchange", "ask", "close", "exited"
    queue,      \* connections accepted and not yet served
    serving,    \* the caller being served
    inFlight,   \* the request forwarded and not yet answered, or None
    asking,     \* the id of the server's request put to the caller, or NoId
    forwarded,  \* the requests that have gone to the server
    lines,      \* the channel from the server
    \* the server
    peer,       \* "up"; "deaf": pipes closed, process running; "dead"
    owed,       \* requests it has read and not answered
    asked,      \* how many requests it has made
    answers,    \* how often each of those has been answered
    talk,       \* what it may still say unasked
    gaveUp      \* ghost: "caller", "daemon", "patience": whose timeout has passed

callerVars == <<at, wants, result, up, down>>
daemonVars == <<doing, queue, serving, inFlight, asking, forwarded, lines>>
serverVars == <<peer, owed, asked, answers, talk>>
vars == <<callerVars, daemonVars, serverVars, gaveUp>>

Outcome == [kind : {"none", "reply", "error", "timeout", "gone"}, of : Nat]
Unfinished == [kind |-> "none", of |-> None]
Failed(kind) == [kind |-> kind, of |-> None]

TypeOK ==
    /\ at \in [Callers -> {"away", "idle", "waiting", "left"}]
    /\ wants \in [Callers -> Requests \cup {None}]
    /\ \A c \in Callers : at[c] = "waiting" <=> wants[c] # None
    /\ result \in [Requests -> Outcome]
    /\ up \in [Callers -> Seq(Line)]
    /\ down \in [Callers -> Seq(Line)]
    /\ doing \in {"accept", "serve", "exchange", "ask", "close", "exited"}
    /\ queue \in Seq(Callers)
    /\ serving \in Callers \cup {Nobody}
    /\ doing \in {"serve", "exchange", "ask"} => serving # Nobody
    /\ inFlight \in Requests \cup {None}
    /\ inFlight # None <=> doing \in {"exchange", "ask"}
    /\ asking \in Nat
    /\ asking # NoId <=> doing = "ask"
    /\ forwarded \subseteq Requests
    /\ lines \in Seq(Line)
    /\ peer \in {"up", "deaf", "dead"}
    /\ owed \subseteq Requests
    /\ asked \in Nat
    /\ answers \in [1..MaxTalk -> Nat]
    /\ talk \in Nat
    /\ gaveUp \subseteq {"caller", "daemon", "patience"}

Init ==
    /\ at = [c \in Callers |-> "away"]
    /\ wants = [c \in Callers |-> None]
    /\ result = [r \in Requests |-> Unfinished]
    /\ up = [c \in Callers |-> <<>>]
    /\ down = [c \in Callers |-> <<>>]
    /\ doing = "accept"
    /\ queue = <<>>
    /\ serving = Nobody
    /\ inFlight = None
    /\ asking = NoId
    /\ forwarded = {}
    /\ lines = <<>>
    /\ peer = "up"
    /\ owed = {}
    /\ asked = 0
    /\ answers = [a \in 1..MaxTalk |-> 0]
    /\ talk = MaxTalk
    /\ gaveUp = {}

-----------------------------------------------------------------------------
\* The callers: SocketTransport, which is the stdio framing on a socket.

RequestLine(r) ==
    [json |-> TRUE, method |-> TRUE, id |-> WireId[r], error |-> FALSE, tag |-> r]

ErrorReply(r) ==
    [json |-> TRUE, method |-> FALSE, id |-> WireId[r], error |-> TRUE, tag |-> r]

\* The answer to what the server asked: the tag is not a request's.
AnswerTo(ask) == Reply(ask, None)

Writes(channel, c, line) == [channel EXCEPT ![c] = Append(@, line)]
Reads(channel, c) == [channel EXCEPT ![c] = Tail(@)]

\* The daemon holds its end of the connection of the caller it serves and of
\* those that queue; it drops the one it served when serve_one returns.
Queued(c) == \E i \in 1..Len(queue) : queue[i] = c
Open(c) == doing # "exited" /\ (serving = c \/ Queued(c))

\* The accept thread keeps taking connections until the process ends.
Connect(c) ==
    /\ at[c] = "away"
    /\ doing # "exited"
    /\ at' = [at EXCEPT ![c] = "idle"]
    /\ queue' = Append(queue, c)
    /\ UNCHANGED <<wants, result, up, down, doing, serving, inFlight, asking,
                   forwarded, lines, serverVars, gaveUp>>

Send(r) ==
    LET c == By[r] IN
    /\ at[c] = "idle"
    /\ result[r] = Unfinished
    /\ \A s \in Requests : By[s] = c /\ s < r => result[s] # Unfinished
    /\ IF Open(c)
         THEN /\ up' = Writes(up, c, RequestLine(r))
              /\ at' = [at EXCEPT ![c] = "waiting"]
              /\ wants' = [wants EXCEPT ![c] = r]
              /\ UNCHANGED result
         ELSE /\ result' = [result EXCEPT ![r] = Failed("gone")]
              /\ UNCHANGED <<at, wants, up>>
    /\ UNCHANGED <<down, daemonVars, serverVars, gaveUp>>

Ends(c, outcome) ==
    /\ result' = [result EXCEPT ![wants[c]] = outcome]
    /\ at' = [at EXCEPT ![c] = "idle"]
    /\ wants' = [wants EXCEPT ![c] = None]

\* One line off the socket while a request waits; what the server asks is
\* answered on the spot.
CallerTakes(c) ==
    /\ at[c] = "waiting"
    /\ down[c] # <<>>
    /\ down' = Reads(down, c)
    /\ LET line == Head(down[c])
           what == Classify(line, WireId[wants[c]])
       IN CASE what = "Response" /\ line.error ->
                 Ends(c, [kind |-> "error", of |-> line.tag]) /\ UNCHANGED up
            [] what = "Response" /\ ~line.error ->
                 Ends(c, [kind |-> "reply", of |-> line.tag]) /\ UNCHANGED up
            [] what = "ServerRequest" ->
                 IF Open(c)
                   THEN /\ up' = Writes(up, c, AnswerTo(line.id))
                        /\ UNCHANGED <<at, wants, result>>
                   ELSE Ends(c, Failed("gone")) /\ UNCHANGED up
            [] OTHER -> UNCHANGED <<at, wants, result, up>>
    /\ UNCHANGED <<daemonVars, serverVars, gaveUp>>

CallerTimesOut(c) ==
    /\ at[c] = "waiting"
    /\ down[c] = <<>>
    /\ Open(c)
    /\ Ends(c, Failed("timeout"))
    /\ gaveUp' = gaveUp \cup {"caller"}
    /\ UNCHANGED <<up, down, daemonVars, serverVars>>

\* The daemon's end of the connection is closed, and all it wrote is read.
CallerIsCutOff(c) ==
    /\ at[c] = "waiting"
    /\ down[c] = <<>>
    /\ ~Open(c)
    /\ Ends(c, Failed("gone"))
    /\ UNCHANGED <<up, down, daemonVars, serverVars, gaveUp>>

\* A caller is done, or is killed in the middle of a request.
HangUp(c) ==
    /\ at[c] \in {"idle", "waiting"}
    /\ at' = [at EXCEPT ![c] = "left"]
    /\ wants' = [wants EXCEPT ![c] = None]
    /\ result' = IF wants[c] = None THEN result
                 ELSE [result EXCEPT ![wants[c]] = Failed("gone")]
    /\ down' = [down EXCEPT ![c] = <<>>]
    /\ UNCHANGED <<up, daemonVars, serverVars, gaveUp>>

-----------------------------------------------------------------------------
\* The daemon.

Accept ==
    /\ doing = "accept"
    /\ queue # <<>>
    /\ serving' = Head(queue)
    /\ queue' = Tail(queue)
    /\ doing' = "serve"
    /\ UNCHANGED <<callerVars, inFlight, asking, forwarded, lines, serverVars, gaveUp>>

\* --idle: nobody has connected for as long as that.
IdleOut ==
    /\ doing = "accept"
    /\ queue = <<>>
    /\ doing' = "close"
    /\ serving' = Nobody
    /\ UNCHANGED <<callerVars, queue, inFlight, asking, forwarded, lines, serverVars, gaveUp>>

Here(c) == at[c] # "left"

\* A line to the caller being served; a caller that has left refuses it.
Tells(line) == down' = IF Here(serving) THEN Writes(down, serving, line) ELSE down

NextCaller == doing' = "accept" /\ serving' = Nobody

\* Back to reading this caller's next line, or to the next caller.
Resume(line) ==
    /\ Tells(line)
    /\ IF Here(serving)
         THEN doing' = "serve" /\ UNCHANGED serving
         ELSE NextCaller
    /\ inFlight' = None
    /\ asking' = NoId

Incoming1 == Head(up[serving])

ReadsLine ==
    /\ doing = "serve"
    /\ up[serving] # <<>>
    /\ up' = Reads(up, serving)

ServeInitialize ==
    /\ ReadsLine
    /\ Incoming1.method /\ Kind[Incoming1.tag] = "initialize"
    /\ Resume(Reply(Incoming1.id, Incoming1.tag))
    /\ UNCHANGED <<at, wants, result, queue, forwarded, lines, serverVars, gaveUp>>

ServeStop ==
    /\ ReadsLine
    /\ Incoming1.method /\ Kind[Incoming1.tag] = "stop"
    /\ Tells(Reply(Incoming1.id, Incoming1.tag))
    /\ doing' = "close"
    /\ serving' = Nobody
    /\ UNCHANGED <<at, wants, result, queue, inFlight, asking, forwarded, lines, serverVars, gaveUp>>

\* Slips: the failure is not reported, or the request is still taken to be open.
RelayErrorSilently(r) ==
    /\ IF peer = "dead"
         THEN doing' = "close" /\ serving' = Nobody
         ELSE doing' = "serve" /\ UNCHANGED serving
    /\ inFlight' = None
    /\ asking' = NoId
    /\ UNCHANGED down

\* The error a failed exchange is reported under, and whether to go on.
RelayError(r) ==
    /\ Tells(ErrorReply(r))
    /\ IF peer = "dead"
         THEN doing' = "close" /\ serving' = Nobody
         ELSE doing' = "serve" /\ UNCHANGED serving
    /\ inFlight' = None
    /\ asking' = NoId

\* Everything else goes to the server as it is.
ServeCall ==
    /\ ReadsLine
    /\ Incoming1.method /\ Kind[Incoming1.tag] = "call"
    /\ IF peer = "up"
         THEN /\ owed' = owed \cup {Incoming1.tag}
              /\ forwarded' = forwarded \cup {Incoming1.tag}
              /\ inFlight' = Incoming1.tag
              /\ doing' = "exchange"
              /\ UNCHANGED <<down, serving, asking>>
         ELSE RelayError(Incoming1.tag) /\ UNCHANGED <<owed, forwarded>>
    /\ UNCHANGED <<at, wants, result, queue, lines, peer, asked, answers, talk, gaveUp>>

\* An answer that comes when nothing is being asked any more goes on as well; one
\* the server will not take has no id to report the failure under.
ServeLateAnswer ==
    /\ ReadsLine
    /\ ~Incoming1.method
    /\ IF peer = "up"
         THEN answers' = [answers EXCEPT ![Incoming1.id] = @ + 1]
         ELSE UNCHANGED answers
    /\ IF peer = "dead"
         THEN doing' = "close" /\ serving' = Nobody
         ELSE UNCHANGED <<doing, serving>>
    /\ UNCHANGED <<at, wants, result, down, queue, inFlight, asking, forwarded, lines,
                   peer, owed, asked, talk, gaveUp>>

\* End of file on the caller's socket.
CallerLeft ==
    /\ doing = "serve"
    /\ up[serving] = <<>>
    /\ ~Here(serving)
    /\ NextCaller
    /\ UNCHANGED <<callerVars, queue, inFlight, asking, forwarded, lines, serverVars, gaveUp>>

\* What the daemon reads from the server while a request is in flight.
Took == Classify(Head(lines), WireId[inFlight])

ReadsServer ==
    /\ doing = "exchange"
    /\ lines # <<>>
    /\ lines' = Tail(lines)

RelayReply ==
    /\ ReadsServer
    /\ Took = "Response"
    /\ Resume(Head(lines))
    /\ UNCHANGED <<at, wants, result, up, queue, forwarded, serverVars, gaveUp>>

\* A slip: the default answer is given at once, and the caller asked as well.
RelayAskTwice ==
    /\ ReadsServer
    /\ Took = "ServerRequest"
    /\ peer = "up"
    /\ Tells(Head(lines))
    /\ answers' = [answers EXCEPT ![Head(lines).id] = @ + 1]
    /\ UNCHANGED <<at, wants, result, up, doing, queue, serving, inFlight, asking,
                   forwarded, peer, owed, asked, talk, gaveUp>>

\* Another: with nobody to ask, the daemon goes on to the next caller at once.
RelayAskNobody ==
    /\ ReadsServer
    /\ Took = "ServerRequest"
    /\ IF Here(serving)
         THEN /\ Tells(Head(lines))
              /\ doing' = "ask"
              /\ asking' = Head(lines).id
              /\ UNCHANGED <<serving, inFlight>>
         ELSE /\ NextCaller
              /\ inFlight' = None
              /\ UNCHANGED <<down, asking>>
    /\ UNCHANGED <<at, wants, result, up, queue, forwarded, serverVars, gaveUp>>

\* A request of the server's is put to the caller; with nobody to put it to the
\* daemon gives the default answer itself.
RelayAsk ==
    /\ ReadsServer
    /\ Took = "ServerRequest"
    /\ IF Here(serving)
         THEN /\ Tells(Head(lines))
              /\ doing' = "ask"
              /\ asking' = Head(lines).id
              /\ UNCHANGED <<serving, inFlight, answers>>
         ELSE IF peer = "up"
                THEN /\ answers' = [answers EXCEPT ![Head(lines).id] = @ + 1]
                     /\ UNCHANGED <<down, doing, serving, inFlight, asking>>
                ELSE RelayError(inFlight) /\ UNCHANGED answers
    /\ UNCHANGED <<at, wants, result, up, queue, forwarded, peer, owed, asked, talk, gaveUp>>

RelayRest ==
    /\ ReadsServer
    /\ Took \in {"Notification", "Foreign"}
    /\ IF Took = "Notification" THEN Tells(Head(lines)) ELSE UNCHANGED down
    /\ UNCHANGED <<at, wants, result, up, doing, queue, serving, inFlight, asking,
                   forwarded, serverVars, gaveUp>>

\* await_answer is over: what it came to, or the default, is written to the
\* server, and the exchange goes on - or is over, if the server will not have it.
AnswerServer ==
    IF peer = "up"
      THEN /\ answers' = [answers EXCEPT ![asking] = @ + 1]
           /\ doing' = "exchange"
           /\ asking' = NoId
           /\ UNCHANGED <<down, serving, inFlight>>
      ELSE RelayError(inFlight) /\ UNCHANGED answers

\* One line from the caller while the server waits for its answer.  A line that
\* is not that answer is passed over, whatever it is.
AwaitAnswer ==
    /\ doing = "ask"
    /\ up[serving] # <<>>
    /\ up' = Reads(up, serving)
    /\ IF Classify(Incoming1, asking) = "Response"
         THEN AnswerServer
         ELSE UNCHANGED <<down, doing, serving, inFlight, asking, answers>>
    /\ UNCHANGED <<at, wants, result, queue, forwarded, lines, peer, owed, asked, talk, gaveUp>>

\* A slip: only silence ends the wait, not the caller's end of file.
NoAnswerFromSilence ==
    /\ doing = "ask"
    /\ up[serving] = <<>>
    /\ Here(serving)
    /\ AnswerServer
    /\ gaveUp' = IF Here(serving) THEN gaveUp \cup {"patience"} ELSE gaveUp
    /\ UNCHANGED <<at, wants, result, up, queue, forwarded, lines, peer, owed, asked, talk>>

\* The caller is gone, or has been silent for CALLER_PATIENCE.
NoAnswer ==
    /\ doing = "ask"
    /\ up[serving] = <<>>
    /\ AnswerServer
    /\ gaveUp' = IF Here(serving) THEN gaveUp \cup {"patience"} ELSE gaveUp
    /\ UNCHANGED <<at, wants, result, up, queue, forwarded, lines, peer, owed, asked, talk>>

DaemonTimesOut ==
    /\ doing = "exchange"
    /\ lines = <<>>
    /\ peer = "up"
    /\ RelayError(inFlight)
    /\ gaveUp' = gaveUp \cup {"daemon"}
    /\ UNCHANGED <<at, wants, result, up, queue, forwarded, lines, serverVars>>

ServerGone ==
    /\ doing = "exchange"
    /\ lines = <<>>
    /\ peer # "up"
    /\ RelayError(inFlight)
    /\ UNCHANGED <<at, wants, result, up, queue, forwarded, lines, serverVars, gaveUp>>

\* session.close, then the socket is removed and the process ends.
Exit ==
    /\ doing = "close"
    /\ doing' = "exited"
    /\ peer' = "dead"
    /\ UNCHANGED <<callerVars, queue, serving, inFlight, asking, forwarded, lines,
                   owed, asked, answers, talk, gaveUp>>

-----------------------------------------------------------------------------
\* The server.

Says(line) ==
    /\ peer = "up"
    /\ lines' = Append(lines, line)
    /\ UNCHANGED <<callerVars, doing, queue, serving, inFlight, asking, forwarded,
                   peer, answers, gaveUp>>

ServerReplies(r) ==
    /\ r \in owed
    /\ owed' = owed \ {r}
    /\ Says(Reply(WireId[r], r))
    /\ UNCHANGED <<asked, talk>>

ServerAsks ==
    /\ talk > 0
    /\ talk' = talk - 1
    /\ asked' = asked + 1
    /\ Says(Ask(asked + 1))
    /\ UNCHANGED owed

ServerNotes ==
    /\ talk > 0
    /\ talk' = talk - 1
    /\ Says(Note(talk))
    /\ UNCHANGED <<owed, asked>>

ServerFails ==
    /\ peer # "dead"
    /\ peer' \in {"deaf", "dead"} \ {peer}
    /\ UNCHANGED <<callerVars, daemonVars, owed, asked, answers, talk, gaveUp>>

-----------------------------------------------------------------------------
Caller(c) ==
    \/ Connect(c)
    \/ CallerTakes(c)
    \/ CallerTimesOut(c)
    \/ CallerIsCutOff(c)
    \/ HangUp(c)

Serve == ServeInitialize \/ ServeStop \/ ServeCall \/ ServeLateAnswer \/ CallerLeft
Relay == RelayReply \/ RelayAsk \/ RelayRest \/ AwaitAnswer \/ NoAnswer \/ ServerGone

Daemon == Accept \/ IdleOut \/ Serve \/ Relay \/ DaemonTimesOut \/ Exit

Server == (\E r \in Requests : ServerReplies(r)) \/ ServerAsks \/ ServerNotes \/ ServerFails

Next ==
    \/ \E c \in Callers : Caller(c)
    \/ \E r \in Requests : Send(r)
    \/ Daemon
    \/ Server

Spec == Init /\ [][Next]_vars

\* The daemon's loop runs; a caller reads its socket and, being a command,
\* ends; the server answers.
FairSpec ==
    /\ Spec
    /\ WF_vars(Accept) /\ WF_vars(Serve) /\ WF_vars(Relay) /\ WF_vars(Exit)
    /\ \A c \in Callers : WF_vars(CallerTakes(c)) /\ WF_vars(CallerIsCutOff(c))
                          /\ SF_vars(at[c] = "idle" /\ HangUp(c))
    /\ \A r \in Requests : WF_vars(ServerReplies(r))

-----------------------------------------------------------------------------
\* A caller that waits has something to wait for: its request is still on the
\* way to the daemon, or is with the server, or its answer is on the way back.
\* Not so once a caller has given up on a request: it may send its next one
\* while the daemon reads for its answer to a question, and drops it.
WaitsForSomething ==
    "caller" \notin gaveUp =>
        \A c \in Callers : at[c] = "waiting" /\ Open(c) =>
            LET r == wants[c] IN
            \/ \E i \in 1..Len(up[c]) : up[c][i].method /\ up[c][i].tag = r
            \/ inFlight = r
            \/ \E i \in 1..Len(down[c]) : ~down[c][i].method /\ down[c][i].id = WireId[r]

\* Though callers number alike and their ids are relayed as they are, a caller that
\* gets an answer gets the one to its own request.  Not so once the daemon has
\* timed out on a request: its reply still comes, and goes to whoever is then
\* waiting under the same id.
EachGetsItsOwn ==
    "daemon" \notin gaveUp =>
        \A r \in Requests : result[r].kind \in {"reply", "error"} => result[r].of = r

\* How far a request has come, as the caller's session sees it.
Fate(r) ==
    CASE result[r].kind = "none" /\ wants[By[r]] = r -> "inflight"
      [] result[r].kind = "none" /\ wants[By[r]] # r -> "unsent"
      [] result[r].kind \in {"reply", "error"} /\ result[r].of = r -> "answered"
      [] result[r].kind \in {"reply", "error"} /\ result[r].of # r -> "misanswered"
      [] result[r].kind \in {"timeout", "gone"} -> "failed"

\* What a session of one's own with the server would promise each caller.
Own(c) == {r \in Requests : By[r] = c}

Alone(c) == INSTANCE RequestReply WITH
    Requests <- Own(c),
    state <- [r \in Own(c) |-> Fate(r)]

\* What the server asks is answered once: by the caller, or by the default that
\* "is owed instead" when the caller is gone.  A caller that was only silent for
\* CALLER_PATIENCE may still answer, and is then passed on as well.
OneAnswerPerAsk == "patience" \notin gaveUp => \A a \in 1..asked : answers[a] <= 1

\* A caller queued behind another is served in the end, or told that the daemon
\* has gone, and one that waits gets its answer, without anybody's timeout having
\* to come to its help: callers that leave, or leave a question of the server's
\* unanswered, do not hold the queue.
CallersAreServed ==
    [](gaveUp = {}) =>
        \A c \in Callers : /\ Queued(c) ~> (~Queued(c) \/ doing = "exited")
                           /\ at[c] = "waiting" ~> at[c] # "waiting"
=============================================================================
