------------------------------- MODULE Framed -------------------------------
(***************************************************************************)
(* Newline-delimited JSON-RPC with one peer: Framed and StdioTransport of  *)
(* src/transport/stdio.rs.  A reader thread moves the peer's lines into a  *)
(* channel; exchange, poll and listen take them out one at a time; a       *)
(* request the peer makes on the way is answered on the spot.              *)
(*                                                                         *)
(* The peer is any server: it answers late, out of order or never, asks    *)
(* questions of its own under ids that collide with ours, talks unasked,   *)
(* prints lines that are not JSON, closes its pipes or dies.               *)
(***************************************************************************)
EXTENDS Protocol, Sequences

CONSTANTS
    N,                 \* how many requests the layer above makes
    WireId,            \* the id each of them carries on the wire
    MostLinesPerPoll,  \* MOST_LINES_PER_POLL
    MostPerListen,     \* MOST_MESSAGES_PER_LISTEN
    MaxBuffered,       \* bound on the channel, which has none in the code
    MaxTalk,           \* bound on the lines the peer writes
    Floods             \* whether lines that mean nothing are free of MaxTalk

Calls == 1..N

ASSUME FramedConstants ==
    /\ N \in Nat
    /\ WireId \in [Calls -> Nat \ {NoId}]
    /\ MostLinesPerPoll \in Nat \ {0}
    /\ MostPerListen \in Nat \ {0}
    /\ MaxBuffered \in Nat
    /\ MaxTalk \in Nat
    /\ Floods \in BOOLEAN

VARIABLES
    \* this process
    pc,        \* what it is doing with the connection
    next,      \* the next request to make
    awaiting,  \* the request in flight, 0 when there is none
    late,      \* the deadline of the exchange in flight has passed
    taken,     \* lines this poll, or messages this listen, has handled
    result,    \* how each request ended
    heard,     \* the notifications handed to the watcher, in order
    writer,    \* whether our end of the peer's stdin is still open
    traced,    \* the peer's exit has been traced
    \* the channel between the reader thread and this one
    lines,
    \* the peer
    peer,      \* "up"; "deaf": pipes closed, process running; "dead"
    owed,      \* requests it has read and not answered
    asked,     \* how many requests it has made of us
    asks,      \* which of those have had no answer
    said,      \* how many notifications it has sent
    talk       \* lines it may still write

clientVars == <<pc, next, awaiting, late, taken, result, heard, writer, traced>>
peerVars == <<peer, owed, asked, asks, said, talk>>
vars == <<clientVars, lines, peerVars>>

Outcome == [kind : {"none", "reply", "timeout", "gone", "bound"}, of : Nat]
Unfinished == [kind |-> "none", of |-> 0]
Answer(of) == [kind |-> "reply", of |-> of]
Failed(kind) == [kind |-> kind, of |-> 0]

TypeOK ==
    /\ pc \in {"idle", "exchange", "poll", "listen", "closing", "closed"}
    /\ next \in 1..(N + 1)
    /\ awaiting \in Calls \cup {0}
    /\ (awaiting # 0) <=> (pc \in {"exchange", "listen"})
    /\ late \in BOOLEAN
    /\ taken \in Nat
    /\ result \in [Calls -> Outcome]
    /\ heard \in Seq(Nat)
    /\ writer \in {"open", "closed"}
    /\ traced \in BOOLEAN
    /\ lines \in Seq(Line)
    /\ peer \in {"up", "deaf", "dead"}
    /\ owed \in SUBSET Calls
    /\ asked \in Nat
    /\ asks \in SUBSET (1..asked)
    /\ said \in Nat
    /\ talk \in Nat

Init ==
    /\ pc = "idle"
    /\ next = 1
    /\ awaiting = 0
    /\ late = FALSE
    /\ taken = 0
    /\ result = [c \in Calls |-> Unfinished]
    /\ heard = <<>>
    /\ writer = "open"
    /\ traced = FALSE
    /\ lines = <<>>
    /\ peer = "up"
    /\ owed = {}
    /\ asked = 0
    /\ asks = {}
    /\ said = 0
    /\ talk = MaxTalk

-----------------------------------------------------------------------------
\* What this process does.

Writable == writer = "open" /\ peer = "up"

\* The channel is disconnected once the peer's stdout is closed and drained.
Disconnected == lines = <<>> /\ peer # "up"

\* A request ends: the caller has its result and the connection is idle again.
Finish(outcome) ==
    /\ result' = [result EXCEPT ![awaiting] = outcome]
    /\ pc' = "idle"
    /\ awaiting' = 0
    /\ late' = FALSE
    /\ taken' = 0

\* Every failed exchange looks whether the process has ended, and traces it once.
NoteExit == traced' = (traced \/ peer = "dead")

\* Put one request on the wire, to wait for its answer or to listen under it.
Request(c, how) ==
    /\ pc = "idle"
    /\ c = next
    /\ Writable
    /\ next' = next + 1
    /\ owed' = owed \cup {c}
    /\ pc' = how
    /\ awaiting' = c
    /\ late' = FALSE
    /\ taken' = 0
    /\ UNCHANGED <<result, heard, writer, traced, lines, peer, asked, asks, said, talk>>

Exchange(c) == Request(c, "exchange")
Listen(c) == Request(c, "listen")

\* The write itself is refused: the peer is gone, or we have closed our end.
RequestRefused(c) ==
    /\ pc = "idle"
    /\ c = next
    /\ ~Writable
    /\ next' = next + 1
    /\ result' = [result EXCEPT ![c] = Failed("gone")]
    /\ NoteExit
    /\ UNCHANGED <<pc, awaiting, late, taken, heard, writer, lines, peerVars>>

\* A message that asks for no answer, put on a wire nobody reads.
NotifyRefused ==
    /\ pc = "idle"
    /\ ~Writable
    /\ NoteExit
    /\ UNCHANGED <<pc, next, awaiting, late, taken, result, heard, writer, lines, peerVars>>

StartPoll ==
    /\ pc = "idle"
    /\ pc' = "poll"
    /\ taken' = 0
    /\ UNCHANGED <<next, awaiting, late, result, heard, writer, traced, lines, peerVars>>

\* recv_timeout hands over a buffered line even when no time is left, so only
\* listen, which looks at the clock first, stops taking lines at its deadline.
MayTake ==
    /\ lines # <<>>
    /\ \/ pc = "exchange"
       \/ pc = "listen" /\ ~late
       \/ pc = "poll" /\ taken < MostLinesPerPoll

\* A slip: any answer at all will do, as it does for a poll.
AnyAnswer == NoId

AwaitedId == IF awaiting = 0 THEN NoId ELSE WireId[awaiting]

\* What take() makes of the line at the head of the channel.
Took == IF Head(lines).json THEN Classify(Head(lines), AwaitedId) ELSE "Nothing"

\* The line was not what the request in flight waits for.  A poll counts every
\* line it took, a listen every message its watcher saw, and stops at its most.
CarryOn(forwarded) ==
    IF pc = "listen" /\ forwarded /\ taken + 1 >= MostPerListen
      THEN Finish(Failed("bound"))
      ELSE /\ taken' = IF pc = "poll" \/ (pc = "listen" /\ forwarded)
                         THEN taken + 1 ELSE taken
           /\ UNCHANGED <<pc, awaiting, late, result>>

\* The peer will not take our reply: the connection is over.
Broken ==
    IF pc = "poll"
      THEN /\ pc' = "idle"
           /\ taken' = 0
           /\ UNCHANGED <<awaiting, late, result, traced>>
      ELSE Finish(Failed("gone")) /\ NoteExit

TakeReply ==
    /\ MayTake
    /\ Took = "Response"
    /\ lines' = Tail(lines)
    /\ IF pc = "poll"
         THEN CarryOn(FALSE)
         ELSE Finish(Answer(Head(lines).tag))
    /\ UNCHANGED <<next, heard, writer, traced, peerVars>>

\* A slip: the peer's request is shown to the watcher and left unanswered.
TakeAskSilently ==
    /\ MayTake
    /\ Took = "ServerRequest"
    /\ lines' = Tail(lines)
    /\ CarryOn(TRUE)
    /\ UNCHANGED <<next, heard, writer, traced, peerVars>>

TakeAsk ==
    /\ MayTake
    /\ Took = "ServerRequest"
    /\ lines' = Tail(lines)
    /\ IF Writable
         THEN asks' = asks \ {Head(lines).id} /\ CarryOn(TRUE) /\ UNCHANGED traced
         ELSE Broken /\ UNCHANGED asks
    /\ UNCHANGED <<next, heard, writer, peer, owed, asked, said, talk>>

TakeNote ==
    /\ MayTake
    /\ Took = "Notification"
    /\ lines' = Tail(lines)
    /\ heard' = Append(heard, Head(lines).tag)
    /\ CarryOn(TRUE)
    /\ UNCHANGED <<next, writer, traced, peerVars>>

TakeNothing ==
    /\ MayTake
    /\ Took \in {"Foreign", "Nothing"}
    /\ lines' = Tail(lines)
    /\ CarryOn(FALSE)
    /\ UNCHANGED <<next, heard, writer, traced, peerVars>>

Take == TakeReply \/ TakeAsk \/ TakeNote \/ TakeNothing

PollDone ==
    /\ pc = "poll"
    /\ lines = <<>> \/ taken = MostLinesPerPoll
    /\ pc' = "idle"
    /\ taken' = 0
    /\ UNCHANGED <<next, awaiting, late, result, heard, writer, traced, lines, peerVars>>

\* The clock reaches the deadline of the exchange in flight.
Deadline ==
    /\ pc \in {"exchange", "listen"}
    /\ ~late
    /\ late' = TRUE
    /\ UNCHANGED <<pc, next, awaiting, taken, result, heard, writer, traced, lines, peerVars>>

\* recv_timeout gives up: nothing is buffered and no time is left.
TimeOut ==
    /\ pc = "exchange"
    /\ late
    /\ lines = <<>>
    /\ ~Disconnected
    /\ Finish(Failed("timeout"))
    /\ NoteExit
    /\ UNCHANGED <<next, heard, writer, lines, peerVars>>

\* Slips: the listen looks at the clock only when nothing is buffered, or
\* throws away what is.
ListenEndsInSilence ==
    /\ pc = "listen"
    /\ late
    /\ lines = <<>>
    /\ Finish(Failed("bound"))
    /\ UNCHANGED <<next, heard, writer, traced, lines, peerVars>>

ListenEndsAndDrains ==
    /\ pc = "listen"
    /\ late
    /\ lines' = <<>>
    /\ Finish(Failed("bound"))
    /\ UNCHANGED <<next, heard, writer, traced, peerVars>>

\* The bound running out is how a listen ordinarily ends.
ListenEnds ==
    /\ pc = "listen"
    /\ late
    /\ Finish(Failed("bound"))
    /\ UNCHANGED <<next, heard, writer, traced, lines, peerVars>>

PeerGone ==
    /\ pc \in {"exchange", "listen"}
    /\ pc = "listen" => ~late
    /\ Disconnected
    /\ Finish(Failed("gone"))
    /\ NoteExit
    /\ UNCHANGED <<next, heard, writer, lines, peerVars>>

\* Closing sends EOF, gives the process five seconds to exit, then kills it.
Close ==
    /\ pc = "idle"
    /\ pc' = "closing"
    /\ writer' = "closed"
    /\ UNCHANGED <<next, awaiting, late, taken, result, heard, traced, lines, peerVars>>

Reap ==
    /\ pc = "closing"
    /\ peer' = "dead"
    /\ pc' = "closed"
    /\ traced' = TRUE
    /\ UNCHANGED <<next, awaiting, late, taken, result, heard, writer, lines,
                   owed, asked, asks, said, talk>>

\* A slip: dropping the transport only closes the pipe.
DropWithoutKill ==
    /\ pc = "idle"
    /\ pc' = "closed"
    /\ writer' = "closed"
    /\ UNCHANGED <<next, awaiting, late, taken, result, heard, traced, lines, peerVars>>

\* A transport nobody closed is dropped: the process is killed, nothing traced.
Drop ==
    /\ pc = "idle"
    /\ pc' = "closed"
    /\ writer' = "closed"
    /\ peer' = "dead"
    /\ UNCHANGED <<next, awaiting, late, taken, result, heard, traced, lines,
                   owed, asked, asks, said, talk>>

-----------------------------------------------------------------------------
\* What the peer does.  Only a peer that is up writes lines.

Writes(line) ==
    /\ peer = "up"
    /\ Len(lines) < MaxBuffered
    /\ lines' = Append(lines, line)
    /\ UNCHANGED <<clientVars, peer>>

Spends == talk > 0 /\ talk' = talk - 1

PeerReply(c) ==
    /\ c \in owed
    /\ owed' = owed \ {c}
    /\ Writes(Reply(WireId[c], c))
    /\ UNCHANGED <<asked, asks, said, talk>>

PeerAsk ==
    /\ Spends
    /\ asked' = asked + 1
    /\ asks' = asks \cup {asked + 1}
    /\ Writes(Ask(asked + 1))
    /\ UNCHANGED <<owed, said>>

PeerNote ==
    /\ Spends
    /\ said' = said + 1
    /\ Writes(Note(said + 1))
    /\ UNCHANGED <<owed, asked, asks>>

\* A log line on stdout, or an error about something it could not parse.
PeerNoise ==
    /\ IF Floods THEN UNCHANGED talk ELSE Spends
    /\ \E line \in {NotJson, NullError} : Writes(line)
    /\ UNCHANGED <<owed, asked, asks, said>>

PeerHangsUp ==
    /\ peer = "up"
    /\ peer' = "deaf"
    /\ UNCHANGED <<clientVars, lines, owed, asked, asks, said, talk>>

PeerDies ==
    /\ peer # "dead"
    /\ peer' = "dead"
    /\ UNCHANGED <<clientVars, lines, owed, asked, asks, said, talk>>

Peer ==
    \/ \E c \in Calls : PeerReply(c)
    \/ PeerAsk
    \/ PeerNote
    \/ PeerNoise
    \/ PeerHangsUp
    \/ PeerDies

-----------------------------------------------------------------------------
Client ==
    \/ \E c \in Calls : Exchange(c) \/ Listen(c) \/ RequestRefused(c)
    \/ NotifyRefused
    \/ StartPoll
    \/ Take
    \/ PollDone
    \/ Deadline
    \/ TimeOut
    \/ ListenEnds
    \/ PeerGone
    \/ Close
    \/ Reap
    \/ Drop

Next == Client \/ Peer

Spec == Init /\ [][Next]_vars

\* The code's own steps are taken when they can be: a thread takes what is in
\* its channel, close() returns.
Fairness ==
    /\ WF_vars(Take)
    /\ WF_vars(PollDone)
    /\ WF_vars(TimeOut)
    /\ WF_vars(ListenEnds)
    /\ WF_vars(PeerGone)
    /\ WF_vars(Reap)

FairSpec == Spec /\ Fairness

\* Assumed by a property where it needs them, never by the specification: that
\* time passes, and that the peer is a server that answers, however much else it
\* writes - but one that does nothing while a question of its own is open.
ClockRuns == WF_vars(Deadline)

PeerAnswers == \A c \in Calls : SF_vars(asks = {} /\ PeerReply(c))

-----------------------------------------------------------------------------
\* What makes it correct.

\* The ids of the requests made are told apart on the wire.
DistinctIds == \A c, d \in Calls : WireId[c] = WireId[d] => c = d

\* A request that was answered was answered by the reply the peer made for it:
\* a reply that comes after its request gave up is never taken for the answer
\* to a later request (take, with classify comparing ids).
OwnReply ==
    \A c \in Calls : result[c].kind = "reply" => result[c].of = c

IsNote(m) == m.json /\ m.method /\ m.id = NoId
Waiting == {i \in 1..Len(lines) : IsNote(lines[i])}

\* Whatever takes the lines - an exchange, a poll, a listen and its bounds -
\* every notification the peer sent has reached the watcher, once and in order,
\* or still waits in the channel ("there is nothing to report and nothing lost").
NothingLost ==
    /\ Len(heard) <= said
    /\ \A i \in 1..Len(heard) : heard[i] = i
    /\ {lines[i].tag : i \in Waiting} = (Len(heard) + 1)..said
    /\ \A i, j \in Waiting : i < j => lines[i].tag < lines[j].tag

\* No server process outlives the transport that spawned it, and an exit that
\* was traced is one that happened.
NoOrphan == (pc = "closed" \/ traced) => peer = "dead"

\* How far a request has come, as the session above sees it.
Fate(c) ==
    CASE result[c].kind = "none" /\ awaiting = c -> "inflight"
      [] result[c].kind = "none" /\ awaiting # c -> "unsent"
      [] result[c].kind = "reply" /\ result[c].of = c -> "answered"
      [] result[c].kind = "reply" /\ result[c].of # c -> "misanswered"
      [] result[c].kind \in {"timeout", "gone", "bound"} -> "failed"

Abstract == INSTANCE RequestReply WITH
    Requests <- Calls,
    state <- [c \in Calls |-> Fate(c)]

\* What the transport does to its requests is what RequestReply promises of
\* them: one in flight at a time, each ending once, each answered by its own
\* reply or failed.
KeepsPromise == Abstract!Spec

\* Neither end waits on the other forever: when the peer answers whenever it is
\* not itself waiting for an answer, and neither dies nor outlasts our patience,
\* an exchange ends with its reply ("waiting quietly for our own id would
\* deadlock both ends").
NoMutualWait ==
    PeerAnswers /\ [](peer = "up" /\ ~late) =>
        \A c \in Calls : (pc = "exchange" /\ awaiting = c) ~> result[c] = Answer(c)

\* A listen ends however much the peer talks, and so does a poll; closing ends,
\* since a process that ignores EOF is killed.  Of an exchange nothing is said
\* here: it compares no clock while lines keep coming.
CallsEnd ==
    /\ ClockRuns => ((pc = "listen") ~> (pc # "listen"))
    /\ (pc = "poll") ~> (pc # "poll")
    /\ (pc = "closing") ~> (pc = "closed")
=============================================================================
