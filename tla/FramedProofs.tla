---------------------------- MODULE FramedProofs ----------------------------
(***************************************************************************)
(* For every number of requests, every bound and every peer: a request is  *)
(* answered by its own reply or not at all, provided the ids on the wire   *)
(* tell the requests apart - which is the hypothesis the daemon's relay    *)
(* does not meet (DaemonRelay.tla).  And no notification is lost on the    *)
(* way to the watcher, whatever takes the lines.                           *)
(***************************************************************************)
EXTENDS Framed, SequenceTheorems, TLAPS

\* A line that parses, carries no method and has an id is a reply the peer made.
IsReply(m) == m.json /\ ~m.method /\ m.id # NoId

\* Every reply in the channel carries the id of the request it was made for.
RepliesNameTheirRequest ==
    \A i \in 1..Len(lines) :
        IsReply(lines[i]) => /\ lines[i].tag \in Calls
                             /\ lines[i].id = WireId[lines[i].tag]

\* Requests are made in order and only the one in flight is unfinished.
InOrder ==
    /\ \A c \in Calls : c >= next => result[c].kind = "none"
    /\ awaiting # 0 => awaiting < next /\ result[awaiting].kind = "none"

IInv == TypeOK /\ RepliesNameTheirRequest /\ InOrder /\ OwnReply

LEMMA InitTypeOK == Init => TypeOK
<1>. SUFFICES ASSUME Init
              PROVE  TypeOK
  OBVIOUS
<1>1. result \in [Calls -> Outcome]
  BY DEF Init, Unfinished, Outcome
<1>2. heard \in Seq(Nat) /\ lines \in Seq(Line)
  BY DEF Init
<1>3. N \in Nat /\ talk \in Nat
  BY FramedConstants DEF FramedConstants, Init
<1>4. next \in 1..(N + 1)
  BY <1>3 DEF Init
<1>5. asked \in Nat /\ asks \in SUBSET (1..asked) /\ said \in Nat
  BY DEF Init
<1>6. QED
  BY <1>1, <1>2, <1>3, <1>4, <1>5 DEF Init, TypeOK

LEMMA HeadAndTail ==
    ASSUME TypeOK, lines # <<>>
    PROVE  /\ Head(lines) \in Line
           /\ Head(lines) = lines[1]
           /\ Tail(lines) \in Seq(Line)
           /\ Len(Tail(lines)) = Len(lines) - 1
           /\ Len(lines) \in Nat \ {0}
           /\ \A i \in 1..Len(Tail(lines)) : Tail(lines)[i] = lines[i + 1]
BY HeadTailProperties DEF TypeOK

LEMMA FinishType ==
    ASSUME TypeOK, pc \in {"exchange", "listen"}, NEW o \in Outcome, Finish(o)
    PROVE  /\ pc' = "idle"
           /\ awaiting' = 0
           /\ late' = FALSE
           /\ taken' = 0
           /\ result' \in [Calls -> Outcome]
           /\ awaiting \in Calls
           /\ \A c \in Calls : result'[c] = IF c = awaiting THEN o ELSE result[c]
BY DEF TypeOK, Finish

\* What Finish leaves behind, as far as types go.
Ended ==
    /\ pc' = "idle"
    /\ awaiting' = 0
    /\ late' = FALSE
    /\ taken' = 0
    /\ result' \in [Calls -> Outcome]

LEMMA FinishEnds ==
    ASSUME TypeOK, pc \in {"exchange", "listen"}, NEW o \in Outcome, Finish(o)
    PROVE  Ended
BY FinishType DEF Ended

LEMMA CarryOnType ==
    ASSUME TypeOK, MayTake, NEW f \in BOOLEAN, CarryOn(f)
    PROVE  /\ pc' \in {"idle", "exchange", "poll", "listen"}
           /\ awaiting' \in Calls \cup {0}
           /\ (awaiting' # 0) <=> (pc' \in {"exchange", "listen"})
           /\ late' \in BOOLEAN
           /\ taken' \in Nat
           /\ result' \in [Calls -> Outcome]
           /\ \/ result' = result /\ awaiting' = awaiting
              \/ /\ awaiting \in Calls
                 /\ awaiting' = 0
                 /\ result' = [result EXCEPT ![awaiting] = Failed("bound")]
<1>1. Failed("bound") \in Outcome
  BY DEF Failed, Outcome
<1>2. CASE pc = "listen" /\ f /\ taken + 1 >= MostPerListen
  <2>1. Finish(Failed("bound"))
    BY <1>2 DEF CarryOn
  <2>2. pc \in {"exchange", "listen"}
    BY <1>2
  <2>3. QED
    BY <1>1, <2>1, <2>2, FinishType DEF Finish
<1>3. CASE ~(pc = "listen" /\ f /\ taken + 1 >= MostPerListen)
  BY <1>3 DEF CarryOn, TypeOK, MayTake
<1>4. QED
  BY <1>2, <1>3

LEMMA OutcomesTyped ==
    /\ \A kind \in {"timeout", "gone", "bound"} : Failed(kind) \in Outcome
    /\ \A of \in Nat : Answer(of) \in Outcome
BY DEF Failed, Answer, Outcome

\* Every line the peer writes is a line.
LEMMA LinesTyped ==
    /\ \A c \in Calls : Reply(WireId[c], c) \in Line
    /\ \A n \in Nat : Ask(n) \in Line /\ Note(n) \in Line
    /\ NotJson \in Line /\ NullError \in Line
<1>1. \A c \in Calls : WireId[c] \in Nat /\ c \in Nat
  BY FramedConstants DEF FramedConstants, Calls
<1>2. QED
  BY <1>1 DEF Reply, Ask, Note, NotJson, NullError, Line, NoId

\* A line the peer writes lands behind the ones in the channel.
LEMMA WritesType ==
    ASSUME TypeOK, NEW line \in Line, Writes(line)
    PROVE  /\ lines' \in Seq(Line)
           /\ Len(lines') = Len(lines) + 1
           /\ \A i \in 1..Len(lines) : lines'[i] = lines[i]
           /\ lines'[Len(lines) + 1] = line
BY DEF TypeOK, Writes

-----------------------------------------------------------------------------
\* Types are kept by what the peer does ...
LEMMA PeerKeepsTypes ==
    ASSUME TypeOK, Peer
    PROVE  TypeOK'
<1>1. ASSUME NEW c \in Calls, PeerReply(c)
      PROVE  TypeOK'
  BY <1>1, WritesType, LinesTyped DEF TypeOK, PeerReply, Writes, clientVars
<1>2. CASE PeerAsk
  <2>1. lines' \in Seq(Line)
    BY <1>2, WritesType, LinesTyped DEF TypeOK, PeerAsk
  <2>2. asked' \in Nat /\ asks' \in SUBSET (1..asked') /\ talk' \in Nat
    BY <1>2 DEF TypeOK, PeerAsk, Spends
  <2>3. QED
    BY <1>2, <2>1, <2>2 DEF TypeOK, PeerAsk, Writes, clientVars
<1>3. CASE PeerNote
  <2>1. lines' \in Seq(Line)
    BY <1>3, WritesType, LinesTyped DEF TypeOK, PeerNote
  <2>2. QED
    BY <1>3, <2>1 DEF TypeOK, PeerNote, Spends, Writes, clientVars
<1>4. CASE PeerNoise
  <2>1. lines' \in Seq(Line)
    BY <1>4, WritesType, LinesTyped DEF TypeOK, PeerNoise
  <2>2. QED
    BY <1>4, <2>1 DEF TypeOK, PeerNoise, Spends, Writes, clientVars
<1>5. CASE PeerHangsUp \/ PeerDies
  BY <1>5 DEF TypeOK, PeerHangsUp, PeerDies, clientVars
<1>6. QED
  BY <1>1, <1>2, <1>3, <1>4, <1>5 DEF Peer

\* ... by taking a line ...
LEMMA TakeKeepsTypes ==
    ASSUME TypeOK, Take
    PROVE  TypeOK'
<1>1. /\ lines' \in Seq(Line)
      /\ Head(lines) \in Line
      /\ MayTake
  BY HeadAndTail DEF Take, TakeReply, TakeAsk, TakeNote, TakeNothing, MayTake
<1>2. CASE TakeReply
  <2>1. Answer(Head(lines).tag) \in Outcome
    BY <1>1, OutcomesTyped DEF Line
  <2>2. CASE pc = "poll"
    BY <1>1, <1>2, <2>2, CarryOnType DEF TypeOK, TakeReply, peerVars
  <2>3. CASE pc # "poll"
    <3>1. pc \in {"exchange", "listen"} /\ Finish(Answer(Head(lines).tag))
      BY <1>1, <1>2, <2>3 DEF TakeReply, MayTake
    <3>2. Ended
      BY <2>1, <3>1, FinishEnds
    <3>3. QED
      BY <1>1, <1>2, <3>2 DEF Ended, TypeOK, TakeReply, peerVars
  <2>4. QED
    BY <2>2, <2>3
<1>3. CASE TakeAsk
  <2>1. CASE Writable
    <3>1. asks' \in SUBSET (1..asked)
      BY <1>3, <2>1 DEF TypeOK, TakeAsk
    <3>2. CarryOn(TRUE)
      BY <1>3, <2>1 DEF TakeAsk
    <3>3. QED
      BY <1>1, <1>3, <2>1, <3>1, <3>2, CarryOnType DEF TypeOK, TakeAsk
  <2>2. CASE ~Writable
    <3>1. Broken /\ asks' = asks
      BY <1>3, <2>2 DEF TakeAsk
    <3>2. CASE pc = "poll"
      BY <1>1, <1>3, <3>1, <3>2 DEF TypeOK, TakeAsk, Broken
    <3>3. CASE pc # "poll"
      <4>1. pc \in {"exchange", "listen"} /\ Finish(Failed("gone"))
        BY <1>1, <3>1, <3>3 DEF Broken, MayTake
      <4>2. traced' \in BOOLEAN
        BY <3>1, <3>3 DEF Broken, NoteExit, TypeOK
      <4>3. Ended
        BY <4>1, FinishEnds, OutcomesTyped
      <4>4. QED
        BY <1>1, <1>3, <3>1, <4>2, <4>3 DEF Ended, TypeOK, TakeAsk
    <3>4. QED
      BY <3>2, <3>3
  <2>3. QED
    BY <2>1, <2>2
<1>4. CASE TakeNote
  <2>1. Head(lines).tag \in Nat
    BY <1>1 DEF Line
  <2>2. heard' \in Seq(Nat)
    BY <1>4, <2>1, AppendProperties DEF TypeOK, TakeNote
  <2>3. CarryOn(TRUE)
    BY <1>4 DEF TakeNote
  <2>4. QED
    BY <1>1, <1>4, <2>2, <2>3, CarryOnType DEF TypeOK, TakeNote, peerVars
<1>5. CASE TakeNothing
  <2>1. CarryOn(FALSE)
    BY <1>5 DEF TakeNothing
  <2>2. QED
    BY <1>1, <1>5, <2>1, CarryOnType DEF TypeOK, TakeNothing, peerVars
<1>6. QED
  BY <1>2, <1>3, <1>4, <1>5 DEF Take

\* ... and by everything else this process does.
LEMMA ClientKeepsTypes ==
    ASSUME TypeOK, Client
    PROVE  TypeOK'
<1>. USE DEF TypeOK, peerVars
<1>1. ASSUME NEW c \in Calls, Exchange(c) \/ Listen(c)
      PROVE  TypeOK'
  <2>1. ASSUME NEW how \in {"exchange", "listen"}, Request(c, how)
        PROVE  TypeOK'
    <3>1. next' \in 1..(N + 1) /\ c # 0
      BY <2>1, FramedConstants DEF FramedConstants, Request, Calls
    <3>2. owed' \in SUBSET Calls
      BY <2>1 DEF Request
    <3>3. /\ awaiting' \in Calls \cup {0}
          /\ awaiting' # 0
          /\ pc' \in {"exchange", "listen"}
          /\ late' \in BOOLEAN
          /\ taken' \in Nat
      BY <2>1, <3>1 DEF Request
    <3>4. QED
      BY <2>1, <3>1, <3>2, <3>3 DEF Request
  <2>2. QED
    BY <1>1, <2>1 DEF Exchange, Listen
<1>2. ASSUME NEW c \in Calls, RequestRefused(c)
      PROVE  TypeOK'
  <2>1. next' \in 1..(N + 1)
    BY <1>2, FramedConstants DEF FramedConstants, RequestRefused, Calls
  <2>2. result' \in [Calls -> Outcome]
    BY <1>2, OutcomesTyped DEF RequestRefused
  <2>3. QED
    BY <1>2, <2>1, <2>2 DEF RequestRefused, NoteExit
<1>3. CASE StartPoll
  BY <1>3 DEF StartPoll
<1>12. CASE NotifyRefused
  <2>1. traced' \in BOOLEAN
    BY <1>12 DEF NotifyRefused, NoteExit
  <2>2. QED
    BY <1>12, <2>1 DEF NotifyRefused
<1>10. CASE PollDone
  BY <1>10 DEF PollDone
<1>4. CASE Take
  BY <1>4, TakeKeepsTypes
<1>5. CASE Deadline
  BY <1>5 DEF Deadline
<1>6. CASE TimeOut
  <2>1. pc \in {"exchange", "listen"} /\ Finish(Failed("timeout"))
    BY <1>6 DEF TimeOut
  <2>2. Ended
    BY <2>1, FinishEnds, OutcomesTyped
  <2>3. QED
    BY <1>6, <2>2 DEF Ended, TimeOut, NoteExit
<1>7. CASE ListenEnds
  <2>1. pc \in {"exchange", "listen"} /\ Finish(Failed("bound"))
    BY <1>7 DEF ListenEnds
  <2>2. Ended
    BY <2>1, FinishEnds, OutcomesTyped
  <2>3. QED
    BY <1>7, <2>2 DEF Ended, ListenEnds
<1>8. CASE PeerGone
  <2>1. pc \in {"exchange", "listen"} /\ Finish(Failed("gone"))
    BY <1>8 DEF PeerGone
  <2>2. Ended
    BY <2>1, FinishEnds, OutcomesTyped
  <2>3. QED
    BY <1>8, <2>2 DEF Ended, PeerGone, NoteExit
<1>9. CASE Close \/ Reap \/ Drop
  BY <1>9 DEF Close, Reap, Drop
<1>11. QED
  BY <1>1, <1>2, <1>3, <1>4, <1>5, <1>6, <1>7, <1>8, <1>9, <1>10,
     <1>12 DEF Client

LEMMA TypesKept == TypeOK /\ [Next]_vars => TypeOK'
<1>1. CASE UNCHANGED vars
  BY <1>1 DEF TypeOK, vars, clientVars, peerVars
<1>2. QED
  BY <1>1, PeerKeepsTypes, ClientKeepsTypes DEF Next

\* Every variable keeps its type, whatever the server sends and whenever.
THEOREM TypeCorrect == Spec => []TypeOK
<1>1. QED
  BY InitTypeOK, TypesKept, PTL DEF Spec

\* No server process outlives the transport that spawned it, whether the
\* transport was closed or dropped, and a traced exit is one that happened.
THEOREM NoServerLeftBehind == Spec => []NoOrphan
<1>1. Init => NoOrphan
  BY DEF Init, NoOrphan
<1>2. NoOrphan /\ [Next]_vars => NoOrphan'
  <2>. SUFFICES ASSUME NoOrphan, [Next]_vars
                PROVE  NoOrphan'
    OBVIOUS
  <2>. USE DEF NoOrphan, peerVars, clientVars
  <2>1. ASSUME NEW c \in Calls, Exchange(c) \/ Listen(c) \/ RequestRefused(c)
        PROVE  NoOrphan'
    BY <2>1 DEF Exchange, Listen, Request, RequestRefused, NoteExit
  <2>2. CASE Take
    <3>1. /\ MayTake
          /\ peer' = peer
          /\ pc' # "closed" \/ pc' = pc
      BY <2>2 DEF Take, TakeReply, TakeAsk, TakeNote, TakeNothing, MayTake,
                  CarryOn, Broken, Finish
    <3>2. traced' => traced \/ peer = "dead"
      BY <2>2 DEF Take, TakeReply, TakeAsk, TakeNote, TakeNothing, Broken, NoteExit
    <3>3. QED
      BY <3>1, <3>2
  <2>3. CASE NotifyRefused \/ StartPoll \/ PollDone \/ Deadline \/ Close \/ Reap \/ Drop
    BY <2>3 DEF NotifyRefused, NoteExit, StartPoll, PollDone, Deadline, Close, Reap, Drop
  <2>4. CASE TimeOut \/ ListenEnds \/ PeerGone
    BY <2>4 DEF TimeOut, ListenEnds, PeerGone, Finish, NoteExit
  <2>5. CASE Peer
    BY <2>5 DEF Peer, PeerReply, PeerAsk, PeerNote, PeerNoise, PeerHangsUp,
                PeerDies, Writes
  <2>6. CASE UNCHANGED vars
    BY <2>6 DEF vars
  <2>7. QED
    BY <2>1, <2>2, <2>3, <2>4, <2>5, <2>6 DEF Next, Client
<1>3. QED
  BY <1>1, <1>2, PTL DEF Spec

-----------------------------------------------------------------------------
\* The channel: replies go in under the id of the request they are for, and
\* come out as they went in.
LEMMA RepliesKept ==
    ASSUME TypeOK, RepliesNameTheirRequest, [Next]_vars
    PROVE  RepliesNameTheirRequest'
<1>1. CASE UNCHANGED lines
  BY <1>1 DEF RepliesNameTheirRequest
<1>2. CASE Take
  <2>1. lines # <<>> /\ lines' = Tail(lines)
    BY <1>2 DEF Take, TakeReply, TakeAsk, TakeNote, TakeNothing, MayTake
  <2>2. QED
    BY <2>1, HeadAndTail DEF RepliesNameTheirRequest
<1>3. ASSUME NEW line \in Line, Writes(line),
             IsReply(line) => line.tag \in Calls /\ line.id = WireId[line.tag]
      PROVE  RepliesNameTheirRequest'
  <2>1. Len(lines) \in Nat
    BY DEF TypeOK
  <2>2. QED
    BY <1>3, <2>1, WritesType DEF RepliesNameTheirRequest
<1>4. CASE Peer
  <2>1. ASSUME NEW c \in Calls, PeerReply(c)
        PROVE  RepliesNameTheirRequest'
    BY <1>3, <2>1, LinesTyped DEF PeerReply, Reply
  <2>2. CASE PeerAsk
    BY <1>3, <2>2, LinesTyped DEF PeerAsk, Ask, IsReply, TypeOK
  <2>3. CASE PeerNote
    BY <1>3, <2>3, LinesTyped DEF PeerNote, Note, IsReply, TypeOK
  <2>4. CASE PeerNoise
    BY <1>3, <2>4, LinesTyped DEF PeerNoise, NotJson, NullError, IsReply
  <2>5. CASE PeerHangsUp \/ PeerDies
    BY <1>1, <2>5 DEF PeerHangsUp, PeerDies
  <2>6. QED
    BY <1>4, <2>1, <2>2, <2>3, <2>4, <2>5 DEF Peer
<1>5. CASE Client /\ ~Take
  BY <1>1, <1>5 DEF Client, Exchange, Listen, Request, RequestRefused, NotifyRefused, StartPoll,
                    PollDone, Deadline, TimeOut, ListenEnds, PeerGone, Close, Reap, Drop
<1>6. QED
  BY <1>1, <1>2, <1>4, <1>5 DEF Next, vars

-----------------------------------------------------------------------------
\* What a step can do to the requests: nothing, make the next one, see it
\* refused, or end the one in flight - with its own reply, if with a reply.
Quiet == UNCHANGED <<result, awaiting, next>>

Sent ==
    /\ awaiting = 0
    /\ next \in Calls
    /\ next' = next + 1
    /\ awaiting' = next
    /\ result' = result

Refused ==
    /\ awaiting = 0
    /\ next \in Calls
    /\ next' = next + 1
    /\ awaiting' = 0
    /\ result' = [result EXCEPT ![next] = Failed("gone")]

Over ==
    /\ awaiting \in Calls
    /\ next' = next
    /\ awaiting' = 0
    /\ \E o \in Outcome :
         /\ o.kind # "none"
         /\ o.kind = "reply" => o.of = awaiting
         /\ result' = [result EXCEPT ![awaiting] = o]

LEMMA FinishIsOver ==
    ASSUME TypeOK, pc \in {"exchange", "listen"}, next' = next,
           NEW o \in Outcome, o.kind # "none", o.kind = "reply" => o.of = awaiting,
           Finish(o)
    PROVE  Over
BY DEF TypeOK, Finish, Over

LEMMA FailureIsOver ==
    ASSUME TypeOK, pc \in {"exchange", "listen"}, next' = next,
           NEW kind \in {"timeout", "gone", "bound"}, Finish(Failed(kind))
    PROVE  Over
<1>1. /\ Failed(kind) \in Outcome
      /\ Failed(kind).kind \notin {"none", "reply"}
  BY DEF Failed, Outcome
<1>2. QED
  BY <1>1, FinishIsOver

LEMMA CarryOnIsQuiet ==
    ASSUME TypeOK, MayTake, next' = next, NEW f \in BOOLEAN, CarryOn(f)
    PROVE  Quiet \/ Over
<1>1. CASE pc = "listen" /\ f /\ taken + 1 >= MostPerListen
  BY <1>1, FailureIsOver DEF CarryOn
<1>2. CASE ~(pc = "listen" /\ f /\ taken + 1 >= MostPerListen)
  BY <1>2 DEF CarryOn, Quiet
<1>3. QED
  BY <1>1, <1>2

\* The heart of it: what classify takes for the answer is the answer, because
\* the ids tell the requests apart.
LEMMA AnswersAreOwn ==
    ASSUME DistinctIds, TypeOK, RepliesNameTheirRequest,
           MayTake, pc # "poll", Took = "Response"
    PROVE  Head(lines).tag = awaiting
<1>1. /\ pc \in {"exchange", "listen"}
      /\ lines # <<>>
  BY DEF MayTake
<1>2. /\ awaiting \in Calls
      /\ WireId[awaiting] \in Nat \ {NoId}
  BY <1>1, FramedConstants DEF FramedConstants, TypeOK
<1>3. 0 \notin Calls
  BY FramedConstants DEF FramedConstants, Calls
<1>4. /\ Head(lines).json
      /\ ~Head(lines).method
      /\ Head(lines).id = WireId[awaiting]
  BY <1>2, <1>3 DEF Took, AwaitedId, Classify, NoId
<1>5. 1 \in 1..Len(lines) /\ Head(lines) = lines[1]
  BY <1>1, HeadAndTail
<1>6. /\ Head(lines).tag \in Calls
      /\ Head(lines).id = WireId[Head(lines).tag]
  BY <1>2, <1>4, <1>5 DEF RepliesNameTheirRequest, IsReply
<1>7. QED
  BY <1>2, <1>4, <1>6 DEF DistinctIds

LEMMA TakeShape ==
    ASSUME DistinctIds, TypeOK, RepliesNameTheirRequest, Take
    PROVE  Quiet \/ Over
<1>1. MayTake /\ next' = next
  BY DEF Take, TakeReply, TakeAsk, TakeNote, TakeNothing
<1>2. CASE TakeReply
  <2>1. CASE pc = "poll"
    BY <1>1, <1>2, <2>1, CarryOnIsQuiet DEF TakeReply
  <2>2. CASE pc # "poll"
    <3>1. Head(lines).tag = awaiting
      BY <1>1, <1>2, <2>2, AnswersAreOwn DEF TakeReply
    <3>2. pc \in {"exchange", "listen"} /\ Finish(Answer(awaiting))
      BY <1>1, <1>2, <2>2, <3>1 DEF TakeReply, MayTake
    <3>3. awaiting \in Nat
      BY FramedConstants DEF FramedConstants, TypeOK, Calls
    <3>4. /\ Answer(awaiting) \in Outcome
          /\ Answer(awaiting).kind = "reply"
          /\ Answer(awaiting).of = awaiting
      BY <3>3 DEF Answer, Outcome
    <3>5. QED
      BY <1>1, <3>2, <3>4, FinishIsOver
  <2>3. QED
    BY <2>1, <2>2
<1>3. CASE TakeAsk
  <2>1. CASE Writable
    BY <1>1, <1>3, <2>1, CarryOnIsQuiet DEF TakeAsk
  <2>2. CASE ~Writable /\ pc = "poll"
    BY <1>1, <1>3, <2>2 DEF TakeAsk, Broken, Quiet
  <2>3. CASE ~Writable /\ pc # "poll"
    <3>1. pc \in {"exchange", "listen"} /\ Finish(Failed("gone"))
      BY <1>1, <1>3, <2>3 DEF TakeAsk, Broken, MayTake
    <3>2. QED
      BY <1>1, <3>1, FailureIsOver
  <2>4. QED
    BY <2>1, <2>2, <2>3
<1>4. CASE TakeNote
  BY <1>1, <1>4, CarryOnIsQuiet DEF TakeNote
<1>5. CASE TakeNothing
  BY <1>1, <1>5, CarryOnIsQuiet DEF TakeNothing
<1>6. QED
  BY <1>2, <1>3, <1>4, <1>5 DEF Take

LEMMA StepShape ==
    ASSUME DistinctIds, TypeOK, RepliesNameTheirRequest, [Next]_vars
    PROVE  Quiet \/ Sent \/ Refused \/ Over
<1>0. ASSUME pc \notin {"exchange", "listen"}
      PROVE  awaiting = 0
  BY <1>0 DEF TypeOK
<1>1. ASSUME NEW c \in Calls, Exchange(c) \/ Listen(c)
      PROVE  Sent
  BY <1>0, <1>1 DEF Exchange, Listen, Request, Sent
<1>2. ASSUME NEW c \in Calls, RequestRefused(c)
      PROVE  Refused
  BY <1>0, <1>2 DEF RequestRefused, Refused
<1>3. CASE Take
  BY <1>3, TakeShape
<1>4. CASE TimeOut
  BY <1>4, FailureIsOver DEF TimeOut
<1>5. CASE ListenEnds
  BY <1>5, FailureIsOver DEF ListenEnds
<1>6. CASE PeerGone
  BY <1>6, FailureIsOver DEF PeerGone
<1>7. CASE NotifyRefused \/ StartPoll \/ PollDone \/ Deadline \/ Close \/ Reap \/ Drop
  BY <1>7 DEF NotifyRefused, NoteExit, StartPoll, PollDone, Deadline, Close, Reap, Drop, Quiet
<1>8. CASE Peer
  BY <1>8 DEF Peer, PeerReply, PeerAsk, PeerNote, PeerNoise, PeerHangsUp, PeerDies,
              Writes, clientVars, Quiet
<1>9. CASE UNCHANGED vars
  BY <1>9 DEF vars, clientVars, Quiet
<1>10. QED
  BY <1>1, <1>2, <1>3, <1>4, <1>5, <1>6, <1>7, <1>8, <1>9 DEF Next, Client

-----------------------------------------------------------------------------
LEMMA OrderAndAnswersKept ==
    ASSUME DistinctIds, IInv, [Next]_vars
    PROVE  InOrder' /\ OwnReply'
<1>. USE DEF IInv, InOrder, OwnReply
<1>1. /\ next \in Nat
      /\ Calls \subseteq Nat \ {0}
      /\ DOMAIN result = Calls
  BY FramedConstants DEF FramedConstants, TypeOK, Calls
<1>2. CASE Quiet
  BY <1>2 DEF Quiet
<1>3. CASE Sent
  <2>1. \A c \in Calls : c >= next' => c >= next
    BY <1>1, <1>3 DEF Sent
  <2>2. awaiting' < next' /\ result'[awaiting'].kind = "none"
    BY <1>1, <1>3 DEF Sent
  <2>3. QED
    BY <1>3, <2>1, <2>2 DEF Sent
<1>4. CASE Refused
  <2>1. \A c \in Calls : c >= next' => c >= next /\ c # next
    BY <1>1, <1>4 DEF Refused
  <2>2. \A c \in Calls : result'[c] = IF c = next THEN Failed("gone") ELSE result[c]
    BY <1>1, <1>4 DEF Refused
  <2>3. Failed("gone").kind # "reply"
    BY DEF Failed
  <2>4. QED
    BY <1>4, <2>1, <2>2, <2>3 DEF Refused
<1>5. CASE Over
  <2>1. PICK o \in Outcome :
              /\ o.kind = "reply" => o.of = awaiting
              /\ result' = [result EXCEPT ![awaiting] = o]
    BY <1>5 DEF Over
  <2>2. /\ awaiting \in Calls /\ awaiting # 0
        /\ awaiting' = 0 /\ next' = next
    BY <1>1, <1>5 DEF Over
  <2>3. \A c \in Calls : result'[c] = IF c = awaiting THEN o ELSE result[c]
    BY <1>1, <2>1, <2>2
  <2>4. InOrder'
    BY <1>1, <2>2, <2>3
  <2>5. OwnReply'
    BY <2>1, <2>2, <2>3
  <2>6. QED
    BY <2>4, <2>5
<1>6. QED
  BY <1>2, <1>3, <1>4, <1>5, StepShape

LEMMA InitIInv == Init => IInv
<1>. SUFFICES ASSUME Init
              PROVE  IInv
  OBVIOUS
<1>1. RepliesNameTheirRequest
  BY DEF Init, RepliesNameTheirRequest
<1>2. InOrder /\ OwnReply
  BY DEF Init, InOrder, OwnReply, Unfinished
<1>3. QED
  BY <1>1, <1>2, InitTypeOK DEF IInv

LEMMA IInvKept == DistinctIds /\ IInv /\ [Next]_vars => IInv'
BY TypesKept, RepliesKept, OrderAndAnswersKept DEF IInv

\* A request is never answered by another request's reply, however late, out of
\* order or unasked the replies come, as long as no two requests share an id.
THEOREM RepliesAreOwn ==
    ASSUME DistinctIds
    PROVE  Spec => []OwnReply
<1>1. Init => IInv
  BY InitIInv
<1>2. IInv /\ [Next]_vars => IInv'
  BY DistinctIds, IInvKept
<1>3. IInv => OwnReply
  BY DEF IInv
<1>4. QED
  BY <1>1, <1>2, <1>3, PTL DEF Spec

LEMMA Invariance ==
    ASSUME DistinctIds
    PROVE  Spec => []IInv
<1>1. Init => IInv
  BY InitIInv
<1>2. IInv /\ [Next]_vars => IInv'
  BY DistinctIds, IInvKept
<1>3. QED
  BY <1>1, <1>2, PTL DEF Spec

-----------------------------------------------------------------------------
\* The refinement: what a step does to the requests is a step of RequestReply.
States == [c \in Calls |-> Fate(c)]

LEMMA NothingInFlight ==
    ASSUME IInv, awaiting = 0
    PROVE  /\ \A c \in Calls : Fate(c) # "inflight"
           /\ next \in Calls => Fate(next) = "unsent"
<1>1. \A c \in Calls : c # 0
  BY FramedConstants DEF FramedConstants, Calls
<1>2. \A c \in Calls : c \in Nat /\ result[c].kind \in {"none", "reply", "timeout", "gone", "bound"}
  BY FramedConstants DEF FramedConstants, Calls, IInv, TypeOK, Outcome
<1>3. next \in Calls => result[next].kind = "none"
  BY <1>2 DEF IInv, InOrder
<1>4. \A c \in Calls : Fate(c) # "inflight"
  BY <1>1, <1>2 DEF Fate
<1>5. next \in Calls => Fate(next) = "unsent"
  BY <1>1, <1>3 DEF Fate
<1>6. QED
  BY <1>4, <1>5

LEMMA StepRefines ==
    ASSUME IInv, IInv', Quiet \/ Sent \/ Refused \/ Over
    PROVE  Abstract!Next \/ States' = States
<1>1. /\ next \in Nat
      /\ Calls \subseteq Nat \ {0}
      /\ DOMAIN result = Calls
  BY FramedConstants DEF FramedConstants, IInv, TypeOK, Calls
<1>2. CASE Quiet
  BY <1>2 DEF Quiet, States, Fate
<1>3. CASE Sent
  <2>1. PICK r \in Calls : r = next
    BY <1>3 DEF Sent
  <2>2. Fate(r) = "unsent" /\ \A c \in Calls : Fate(c) # "inflight"
    BY <1>3, <2>1, NothingInFlight DEF Sent
  <2>3. /\ awaiting' = r
        /\ result' = result
        /\ result[r].kind = "none"
    BY <1>1, <1>3, <2>1 DEF Sent, IInv, InOrder
  <2>4. Fate(r)' = "inflight"
    BY <2>3 DEF Fate
  <2>5. ASSUME NEW c \in Calls, c # r
        PROVE  Fate(c)' = Fate(c)
    BY <1>1, <1>3, <2>3, <2>5 DEF Sent, Fate
  <2>6. Abstract!Issue(r)
    BY <2>2, <2>4, <2>5 DEF Abstract!Issue
  <2>7. QED
    BY <2>6 DEF Abstract!Next
<1>4. CASE Refused
  <2>1. PICK r \in Calls : r = next
    BY <1>4 DEF Refused
  <2>2. Fate(r) = "unsent" /\ \A c \in Calls : Fate(c) # "inflight"
    BY <1>4, <2>1, NothingInFlight DEF Refused
  <2>3. /\ awaiting = 0 /\ awaiting' = 0
        /\ \A c \in Calls : result'[c] = IF c = r THEN Failed("gone") ELSE result[c]
    BY <1>1, <1>4, <2>1 DEF Refused
  <2>4. Fate(r)' = "failed"
    BY <2>3 DEF Failed, Fate
  <2>5. ASSUME NEW c \in Calls, c # r
        PROVE  Fate(c)' = Fate(c)
    BY <2>3, <2>5 DEF Fate
  <2>6. Abstract!Refuse(r)
    BY <2>2, <2>4, <2>5 DEF Abstract!Refuse
  <2>7. QED
    BY <2>6 DEF Abstract!Next
<1>5. CASE Over
  <2>1. PICK r \in Calls : r = awaiting
    BY <1>5 DEF Over
  <2>2. PICK o \in Outcome :
              /\ o.kind # "none"
              /\ o.kind = "reply" => o.of = r
              /\ result' = [result EXCEPT ![r] = o]
    BY <1>5, <2>1 DEF Over
  <2>3. /\ r # 0 /\ awaiting' = 0
        /\ \A c \in Calls : result'[c] = IF c = r THEN o ELSE result[c]
    BY <1>1, <1>5, <2>2 DEF Over
  <2>4. Fate(r) = "inflight"
    BY <2>1, <2>3 DEF IInv, InOrder, Fate
  <2>5. Fate(r)' \in {"answered", "failed"}
    <3>1. o.kind \in {"reply", "timeout", "gone", "bound"}
      BY <2>2 DEF Outcome
    <3>2. CASE o.kind = "reply"
      BY <2>2, <2>3, <3>2 DEF Fate
    <3>3. CASE o.kind # "reply"
      BY <2>3, <3>1, <3>3 DEF Fate
    <3>4. QED
      BY <3>2, <3>3
  <2>6. ASSUME NEW c \in Calls, c # r
        PROVE  Fate(c)' = Fate(c)
    BY <1>1, <2>1, <2>3, <2>6 DEF Fate
  <2>7. Abstract!End(r)
    BY <2>4, <2>5, <2>6 DEF Abstract!End
  <2>8. QED
    BY <2>7 DEF Abstract!Next
<1>6. QED
  BY <1>2, <1>3, <1>4, <1>5

\* The transport keeps the promise the session relies on: RequestReply, for any
\* number of requests, any bounds and any peer.
THEOREM Refinement ==
    ASSUME DistinctIds
    PROVE  Spec => KeepsPromise
<1>1. Init => Abstract!Init
  <2>1. \A c \in Calls : c # 0
    BY FramedConstants DEF FramedConstants, Calls
  <2>2. QED
    BY <2>1 DEF Init, Abstract!Init, Fate, Unfinished
<1>2. IInv /\ IInv' /\ [Next]_vars => [Abstract!Next]_States
  BY DistinctIds, StepShape, StepRefines DEF IInv
<1>3. Spec => []IInv
  BY DistinctIds, Invariance
<1>4. QED
  BY <1>1, <1>2, <1>3, PTL DEF Spec, KeepsPromise, Abstract!Spec, States

-----------------------------------------------------------------------------
LEMMA TagsTyped ==
    ASSUME TypeOK
    PROVE  \A i \in 1..Len(lines) : lines[i].tag \in Nat
<1>1. ASSUME NEW i \in 1..Len(lines) PROVE lines[i].tag \in Nat
  <2>1. lines[i] \in Line
    BY DEF TypeOK
  <2> QED
    BY <2>1 DEF Line
<1> QED
  BY <1>1

\* A line taken from the channel is heard if it is a notification, and it is
\* the next one there is to hear.
LEMMA TakingLosesNothing ==
    ASSUME TypeOK, NothingLost, lines # <<>>,
           lines' = Tail(lines), said' = said,
           heard' = IF IsNote(Head(lines)) THEN Append(heard, Head(lines).tag) ELSE heard
    PROVE  NothingLost'
<1>1. /\ Head(lines) = lines[1] /\ Len(lines) \in Nat \ {0}
      /\ Len(lines') = Len(lines) - 1
      /\ \A i \in 1..Len(lines') : lines'[i] = lines[i + 1]
  BY HeadAndTail
<1>2. /\ Len(heard) \in Nat /\ said \in Nat
      /\ \A i \in 1..Len(lines) : lines[i].tag \in Nat
      /\ heard \in Seq(Nat)
  BY TagsTyped DEF TypeOK
<1>3. \A i \in Waiting' : i + 1 \in Waiting /\ lines'[i].tag = lines[i + 1].tag
  BY <1>1 DEF Waiting
<1>4. \A i \in Waiting : i # 1 => i - 1 \in Waiting' /\ lines'[i - 1].tag = lines[i].tag
  <2>1. ASSUME NEW i \in Waiting, i # 1
        PROVE  i - 1 \in Waiting' /\ lines'[i - 1].tag = lines[i].tag
    <3>1. i \in 1..Len(lines) /\ IsNote(lines[i]) /\ i - 1 \in 1..Len(lines') /\ (i - 1) + 1 = i
      BY <1>1, <2>1 DEF Waiting
    <3>2. lines'[i - 1] = lines[i]
      BY <1>1, <3>1
    <3> QED
      BY <3>1, <3>2 DEF Waiting
  <2> QED
    BY <2>1
<1>5. \A i, j \in Waiting' : i < j => lines'[i].tag < lines'[j].tag
  <2>1. ASSUME NEW i \in Waiting', NEW j \in Waiting', i < j
        PROVE  lines'[i].tag < lines'[j].tag
    <3>1. /\ i + 1 \in Waiting /\ j + 1 \in Waiting /\ i + 1 < j + 1
          /\ lines'[i].tag = lines[i + 1].tag /\ lines'[j].tag = lines[j + 1].tag
      BY <1>1, <1>3, <2>1 DEF Waiting
    <3> QED
      BY <3>1 DEF NothingLost
  <2> QED
    BY <2>1
<1>6. CASE ~IsNote(Head(lines))
  <2>1. 1 \notin Waiting /\ heard' = heard
    BY <1>1, <1>6 DEF Waiting
  <2>2. {lines'[i].tag : i \in Waiting'} = {lines[i].tag : i \in Waiting}
    <3>1. ASSUME NEW i \in Waiting' PROVE \E j \in Waiting : lines[j].tag = lines'[i].tag
      BY <1>3
    <3>2. ASSUME NEW i \in Waiting PROVE \E j \in Waiting' : lines'[j].tag = lines[i].tag
      BY <1>4, <2>1
    <3>3. {lines'[i].tag : i \in Waiting'} \subseteq {lines[i].tag : i \in Waiting}
      BY <3>1
    <3>4. {lines[i].tag : i \in Waiting} \subseteq {lines'[i].tag : i \in Waiting'}
      BY <3>2
    <3> QED
      BY <3>3, <3>4
  <2> QED
    BY <1>5, <2>1, <2>2 DEF NothingLost
<1>7. CASE IsNote(Head(lines))
  <2>1. 1 \in Waiting /\ \A i \in Waiting : i \in 1..Len(lines)
    BY <1>1, <1>7 DEF Waiting
  <2>2. lines[1].tag = Len(heard) + 1 /\ Len(heard) + 1 <= said
    <3>1. lines[1].tag \in (Len(heard) + 1)..said
      BY <2>1 DEF NothingLost
    <3>2. Len(heard) + 1 \in (Len(heard) + 1)..said
      BY <1>2, <3>1
    <3>3. PICK j \in Waiting : lines[j].tag = Len(heard) + 1
      BY <3>2 DEF NothingLost
    <3>4. j = 1 \/ lines[1].tag < lines[j].tag
      BY <2>1 DEF NothingLost
    <3> QED
      BY <1>2, <3>1, <3>3, <3>4
  <2>3. /\ Len(heard') = Len(heard) + 1
        /\ \A i \in 1..Len(heard') : heard'[i] = i
    <3>1. heard' = Append(heard, Len(heard) + 1)
      BY <1>1, <1>7, <2>2
    <3> QED
      BY <1>2, <3>1, AppendProperties DEF NothingLost
  <2>4. {lines'[i].tag : i \in Waiting'} = (Len(heard') + 1)..said'
    <3>1. ASSUME NEW i \in Waiting'
          PROVE  lines'[i].tag \in (Len(heard') + 1)..said'
      <4>1. /\ i + 1 \in Waiting /\ 1 < i + 1 /\ lines'[i].tag = lines[i + 1].tag
            /\ i + 1 \in 1..Len(lines)
        BY <1>1, <1>3, <2>1, <3>1 DEF Waiting
      <4>2. lines[1].tag < lines[i + 1].tag
        BY <2>1, <4>1 DEF NothingLost
      <4>3. PICK t \in Nat : t = lines[i + 1].tag
        BY <1>2, <4>1
      <4>4. Len(heard) + 1 < t
        BY <2>2, <4>2, <4>3
      <4>5. t \in (Len(heard) + 1)..said
        BY <4>1, <4>3 DEF NothingLost
      <4>6. t \in (Len(heard') + 1)..said'
        BY <1>2, <2>3, <4>4, <4>5
      <4> QED
        BY <4>1, <4>3, <4>6
    <3>2. ASSUME NEW n \in (Len(heard') + 1)..said'
          PROVE  \E i \in Waiting' : lines'[i].tag = n
      <4>1. n \in (Len(heard) + 1)..said /\ n # lines[1].tag
        BY <1>2, <2>2, <2>3
      <4>2. PICK i \in Waiting : lines[i].tag = n
        BY <4>1 DEF NothingLost
      <4>3. i # 1
        BY <4>1, <4>2
      <4> QED
        BY <1>4, <4>2, <4>3
    <3> QED
      BY <3>1, <3>2
  <2> QED
    BY <1>2, <1>5, <2>2, <2>3, <2>4 DEF NothingLost
<1> QED
  BY <1>6, <1>7

\* A line that is written lands behind the others, and a notification is the
\* last one that was said.
LEMMA WritingLosesNothing ==
    ASSUME TypeOK, NothingLost, NEW line \in Line, Writes(line),
           IF IsNote(line) THEN line.tag = said + 1 /\ said' = said + 1 ELSE said' = said
    PROVE  NothingLost'
<1>1. /\ Len(lines') = Len(lines) + 1 /\ Len(lines) \in Nat
      /\ \A i \in 1..Len(lines) : lines'[i] = lines[i]
      /\ lines'[Len(lines) + 1] = line
  BY WritesType DEF TypeOK
<1>2. /\ heard' = heard /\ Len(heard) \in Nat /\ said \in Nat
      /\ \A i \in 1..Len(lines) : lines[i].tag \in Nat
  BY TagsTyped DEF TypeOK, Writes, clientVars
<1>3. /\ \A i \in Waiting : i \in Waiting' /\ lines'[i].tag = lines[i].tag
      /\ \A i \in Waiting' : i \in Waiting \/ (i = Len(lines) + 1 /\ IsNote(line))
  BY <1>1 DEF Waiting
<1>4. \A i \in Waiting : i < Len(lines) + 1 /\ lines[i].tag <= said
  <2>1. ASSUME NEW i \in Waiting PROVE i < Len(lines) + 1 /\ lines[i].tag <= said
    <3>1. lines[i].tag \in (Len(heard) + 1)..said /\ i \in 1..Len(lines)
      BY DEF NothingLost, Waiting
    <3> QED
      BY <1>1, <1>2, <3>1
  <2> QED
    BY <2>1
<1>5. CASE ~IsNote(line)
  <2>1. Waiting' = Waiting /\ said' = said
    BY <1>3, <1>5
  <2>2. {lines'[i].tag : i \in Waiting'} = {lines[i].tag : i \in Waiting}
    BY <1>3, <2>1
  <2>3. \A i, j \in Waiting' : i < j => lines'[i].tag < lines'[j].tag
    BY <1>3, <2>1 DEF NothingLost
  <2> QED
    BY <1>2, <2>1, <2>2, <2>3 DEF NothingLost
<1>6. CASE IsNote(line)
  <2> DEFINE last == Len(lines) + 1
  <2>1. last \in Waiting' /\ lines'[last].tag = said + 1 /\ said' = said + 1
    BY <1>1, <1>6 DEF Waiting
  <2>2. \A i \in Waiting' : i \in Waiting \/ i = last
    BY <1>3
  <2> HIDE DEF last
  <2>3. {lines'[i].tag : i \in Waiting'} = (Len(heard) + 1)..said'
    <3>1. ASSUME NEW i \in Waiting' PROVE lines'[i].tag \in (Len(heard) + 1)..said'
      <4>1. i \in Waiting => lines[i].tag \in (Len(heard) + 1)..said
        BY DEF NothingLost
      <4>2. Len(heard) <= said
        BY DEF NothingLost
      <4>3. CASE i = last
        BY <1>2, <2>1, <4>2, <4>3
      <4>4. CASE i \in Waiting
        <5>1. lines'[i].tag = lines[i].tag
          BY <1>3, <4>4
        <5> QED
          BY <1>2, <2>1, <4>1, <4>4, <5>1
      <4> QED
        BY <2>2, <4>3, <4>4
    <3>2. ASSUME NEW n \in (Len(heard) + 1)..said' PROVE \E i \in Waiting' : lines'[i].tag = n
      <4>1. CASE n = said + 1
        BY <2>1, <4>1
      <4>2. CASE n # said + 1
        <5>1. n \in (Len(heard) + 1)..said
          BY <1>2, <2>1, <4>2
        <5>2. PICK i \in Waiting : lines[i].tag = n
          BY <5>1 DEF NothingLost
        <5> QED
          BY <1>3, <5>2
      <4> QED
        BY <4>1, <4>2
    <3> QED
      BY <3>1, <3>2
  <2>4. ASSUME NEW i \in Waiting', NEW j \in Waiting', i < j
        PROVE  lines'[i].tag < lines'[j].tag
    <3>1. i \in Waiting
      <4>1. last \in Nat /\ \A k \in Waiting : k \in Nat /\ k < last
        BY <1>1, <1>4 DEF last, Waiting
      <4>2. i # last
        BY <2>2, <2>4, <4>1
      <4> QED
        BY <2>2, <4>2
    <3>2. CASE j \in Waiting
      BY <1>3, <2>4, <3>1, <3>2 DEF NothingLost
    <3>3. CASE j = last
      <4>1. lines'[i].tag = lines[i].tag /\ lines[i].tag <= said /\ lines[i].tag \in Nat
        BY <1>2, <1>3, <1>4, <3>1 DEF Waiting
      <4> QED
        BY <1>2, <2>1, <3>3, <4>1
    <3> QED
      BY <2>2, <3>2, <3>3
  <2>5. Len(heard') <= said'
    BY <1>2, <2>1 DEF NothingLost
  <2> QED
    BY <1>2, <2>3, <2>4, <2>5 DEF NothingLost
<1> QED
  BY <1>5, <1>6

LEMMA NothingLostKept == TypeOK /\ NothingLost /\ [Next]_vars => NothingLost'
<1> SUFFICES ASSUME TypeOK, NothingLost, [Next]_vars PROVE NothingLost'
  OBVIOUS
<1>1. CASE Take
  <2>1. lines # <<>> /\ lines' = Tail(lines) /\ said' = said
    BY <1>1 DEF Take, TakeReply, TakeAsk, TakeNote, TakeNothing, MayTake, peerVars
  <2>2. Took = "Notification" <=> IsNote(Head(lines))
    BY DEF Took, Classify, IsNote
  <2>3. heard' = IF Took = "Notification" THEN Append(heard, Head(lines).tag) ELSE heard
    BY <1>1 DEF Take, TakeReply, TakeAsk, TakeNote, TakeNothing
  <2>4. heard' = IF IsNote(Head(lines)) THEN Append(heard, Head(lines).tag) ELSE heard
    BY <2>2, <2>3
  <2> QED
    BY <2>1, <2>4, TakingLosesNothing
<1>2. ASSUME NEW c \in Calls, PeerReply(c) PROVE NothingLost'
  BY <1>2, LinesTyped, WritingLosesNothing DEF PeerReply, Reply, IsNote
<1>3. CASE PeerAsk
  <2>1. Ask(asked + 1) \in Line /\ ~IsNote(Ask(asked + 1))
    BY LinesTyped DEF TypeOK, Ask, IsNote, NoId
  <2> QED
    BY <1>3, <2>1, WritingLosesNothing DEF PeerAsk
<1>4. CASE PeerNote
  <2>1. Note(said + 1) \in Line /\ IsNote(Note(said + 1)) /\ Note(said + 1).tag = said + 1
    BY LinesTyped DEF TypeOK, Note, IsNote
  <2> QED
    BY <1>4, <2>1, WritingLosesNothing DEF PeerNote
<1>5. CASE PeerNoise
  <2>1. PICK line \in {NotJson, NullError} : Writes(line)
    BY <1>5 DEF PeerNoise
  <2>2. line \in Line /\ ~IsNote(line)
    <3>1. NotJson \in Line /\ NullError \in Line
      BY LinesTyped
    <3>2. ~IsNote(NotJson) /\ ~IsNote(NullError)
      BY DEF NotJson, NullError, IsNote
    <3> QED
      BY <2>1, <3>1, <3>2
  <2> QED
    BY <1>5, <2>1, <2>2, WritingLosesNothing DEF PeerNoise
<1>6. CASE UNCHANGED <<lines, heard, said>>
  BY <1>6 DEF NothingLost, Waiting
<1>7. ASSUME NEW c \in Calls, Exchange(c) \/ Listen(c) \/ RequestRefused(c)
      PROVE  UNCHANGED <<lines, heard, said>>
  BY <1>7 DEF Exchange, Listen, Request, RequestRefused, peerVars
<1>8. NotifyRefused \/ StartPoll \/ PollDone \/ Deadline \/ TimeOut \/ ListenEnds \/ PeerGone
        => UNCHANGED <<lines, heard, said>>
  BY DEF NotifyRefused, StartPoll, PollDone, Deadline, TimeOut, ListenEnds, PeerGone, peerVars
<1>9. Close \/ Reap \/ Drop \/ PeerHangsUp \/ PeerDies => UNCHANGED <<lines, heard, said>>
  BY DEF Close, Reap, Drop, PeerHangsUp, PeerDies, peerVars, clientVars
<1>10. UNCHANGED vars => UNCHANGED <<lines, heard, said>>
  BY DEF vars, clientVars, peerVars
<1> QED
  BY <1>1, <1>2, <1>3, <1>4, <1>5, <1>6, <1>7, <1>8, <1>9, <1>10 DEF Next, Client, Peer

\* Every notification is heard once and in order, or still waits: whatever the
\* bounds of a poll or a listen, and whatever else the peer writes.
THEOREM NoNoteIsLost == Spec => []NothingLost
<1>1. Init => NothingLost
  BY DEF Init, NothingLost, Waiting
<1> QED
  BY <1>1, TypeCorrect, TypesKept, NothingLostKept, PTL DEF Spec

=============================================================================
