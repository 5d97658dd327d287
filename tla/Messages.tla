------------------------------ MODULE Messages ------------------------------
(***************************************************************************)
(* What a request carries and what is made of the bytes that come back:    *)
(* the rounds of a request that is answered with a demand for input, the   *)
(* pages of a listing, the framing of a reply (session.rs, protocol.rs,    *)
(* transport/http.rs), and the notifications on the way (notify.rs).       *)
(***************************************************************************)
EXTENDS Protocol, Integers, Sequences, SequencesExt, FiniteSets, FiniteSetsExt

-----------------------------------------------------------------------------
(* Parameters: none, a list, or an object of named fields; an object's _meta *)
(* is absent, a text, or an object.                                          *)

NoParams == [kind |-> "none", fields |-> <<>>, metaKind |-> "none", meta |-> <<>>]
EmptyObject == [NoParams EXCEPT !.kind = "object"]
OrEmpty(params) == IF params.kind = "none" THEN EmptyObject ELSE params

(* f, where it says nothing filled in from g. *)
Else(f, g) == [k \in DOMAIN f \cup DOMAIN g |-> IF k \in DOMAIN f THEN f[k] ELSE g[k]]

(* A token of the caller's own is kept, and a _meta that is no object. *)
WithProgressToken(params, id) ==
    LET p == OrEmpty(params)
    IN IF p.kind # "object" \/ p.metaKind = "text" THEN p
       ELSE [p EXCEPT !.metaKind = "object", !.meta = Else(p.meta, [progressToken |-> id])]

ClientMeta(version, capabilities) == [protocolVersion |-> version, clientCapabilities |-> capabilities]

WithClientMeta(params, version, capabilities) ==
    LET p == OrEmpty(params)
    IN IF p.kind # "object" THEN p
       ELSE [p EXCEPT !.metaKind = "object", !.meta = Else(p.meta, ClientMeta(version, capabilities))]

WithInputResponses(params, answers, state) ==
    LET p == OrEmpty(params)
        answered == IF answers = {} THEN <<>> ELSE [inputResponses |-> answers]
        echoed == IF state = "none" THEN <<>> ELSE [requestState |-> {state}]
    IN IF p.kind # "object" THEN p
       ELSE [p EXCEPT !.fields = Else(answered, Else(echoed, p.fields))]

-----------------------------------------------------------------------------
(* A request and its rounds.  A session is its era, whether anything answers *)
(* for it and what that can answer; a result is a demand (the methods asked, *)
(* by key, and the state to echo) or it is final.                            *)

MaxInputRounds == 4

Final == [demand |-> FALSE, asks |-> <<>>, state |-> "none"]

Declares(session) == IF session.answering THEN session.serves ELSE {}

(* One round trip as it goes out under its id. *)
Sent(session, params, wants, id) ==
    LET told == IF wants THEN WithProgressToken(params, id) ELSE params
    IN IF session.modern THEN WithClientMeta(told, "2026-07-28", Declares(session)) ELSE told

AskedForInput(session, result) == session.modern /\ result.demand

Refused(session, asked) ==
    DOMAIN asked.asks # {} /\ \/ ~session.answering
                              \/ \E k \in DOMAIN asked.asks: asked.asks[k] \notin session.serves

(* Every round starts from the caller's own parameters. *)
Again(params, asked) == WithInputResponses(params, DOMAIN asked.asks, asked.state)

(* The rounds against a server that answers the n-th with results[n], the
   last over and over. *)
RequestWatching(session, params, wants, results) ==
    LET Answered(n) == results[IF n <= Len(results) THEN n ELSE Len(results)]
        go[n \in 1 .. MaxInputRounds + 1] ==
            LET before == IF n = 1 THEN [sent |-> <<>>, now |-> params, outcome |-> "goes on"] ELSE go[n - 1]
                result == Answered(n)
                sent == Append(before.sent, Sent(session, before.now, wants, n))
            IN IF before.outcome # "goes on" THEN before
               ELSE [sent |-> sent,
                     now |-> Again(params, result),
                     outcome |-> IF ~AskedForInput(session, result) THEN "result"
                                 ELSE IF n = MaxInputRounds + 1 THEN "stopped"
                                 ELSE IF Refused(session, result) THEN "refused"
                                 ELSE "goes on"]
    IN go[MaxInputRounds + 1]

-----------------------------------------------------------------------------
(* A listing: the server has a page for no cursor (0) and one per cursor,    *)
(* with its items and the cursor of the next; -1 names none.  "most" stands   *)
(* for MAX_PAGES, here, and below for MOST_MESSAGES_PER_LISTEN,              *)
(* LEGACY_PROBE_LIMIT and MOST_COMPLETIONS.                                  *)

ListPaginated(pages, most) ==
    LET read[n \in 0 .. most] ==
            IF n = 0 THEN [items |-> <<>>, seen |-> {}, cursor |-> 0, asked |-> <<>>, more |-> TRUE]
            ELSE LET was == read[n - 1]
                     page == pages[was.cursor]
                     further == page.next # -1 /\ page.next \notin was.seen
                 IN IF ~was.more THEN was
                    ELSE [items |-> was.items \o page.items,
                          seen |-> was.seen \cup {page.next},
                          cursor |-> IF further THEN page.next ELSE was.cursor,
                          asked |-> Append(was.asked, was.cursor),
                          more |-> further]
    IN read[most]

-----------------------------------------------------------------------------
(* A reply as an event stream.  A line is blank, or data - a whole message,  *)
(* its head, its tail, or nothing - or anything else; a message is what      *)
(* Protocol reads of it.                                                     *)

NoMessage == NotJson
Joined(data) ==
    IF Len(data) = 1 /\ data[1].part = "whole" THEN data[1].of
    ELSE IF Len(data) = 2 /\ data[1].part = "head" /\ data[2].part = "tail" /\ data[1].of = data[2].of
    THEN data[1].of
    ELSE NotJson
Taken(data, line) == IF line.kind = "data" /\ line.part # "empty" THEN Append(data, line) ELSE data
IsAnswer(message) == message.json /\ Classify(message, NoId) = "Response"

(* The body read whole. *)
SseEvents(lines) ==
    LET Step(was, line) ==
            IF line.kind # "blank" THEN [was EXCEPT !.data = Taken(was.data, line)]
            ELSE IF was.data = <<>> THEN was
            ELSE [events |-> Append(was.events, Joined(was.data)), data |-> <<>>]
    IN FoldLeft(Step, [events |-> <<>>, data |-> <<>>], Append(lines, [kind |-> "blank"])).events

DecodeSse(lines) ==
    LET events == SseEvents(lines)
        at == SelectInSeq(events, IsAnswer)
    IN IF at > 0 THEN [kind |-> "reply", message |-> events[at]]
       ELSE IF \E i \in DOMAIN events: ~events[i].json THEN [kind |-> "malformed", message |-> NoMessage]
       ELSE [kind |-> "nothing", message |-> NoMessage]

(* A slip: what was read is not taken when the event is not an answer. *)
StepKeeping(was, line, most) ==
    IF was.over THEN was
    ELSE IF line.kind # "blank" THEN [was EXCEPT !.data = Taken(was.data, line)]
    ELSE LET message == Joined(was.data)
         IN IF ~message.json THEN was
            ELSE IF IsAnswer(message) THEN [was EXCEPT !.data = <<>>, !.found = message, !.over = TRUE]
            ELSE [was EXCEPT !.data = <<>>, !.heard = Append(was.heard, message), !.over = Len(was.heard) + 1 >= most]

(* The stream read as it comes, the watcher hearing at most "most" messages. *)
Step(was, line, most) ==
    IF was.over THEN was
    ELSE IF line.kind # "blank" THEN [was EXCEPT !.data = Taken(was.data, line)]
    ELSE LET message == Joined(was.data)
             rest == [was EXCEPT !.data = <<>>]
         IN IF ~message.json THEN rest
            ELSE IF IsAnswer(message) THEN [rest EXCEPT !.found = message, !.over = TRUE]
            ELSE [rest EXCEPT !.heard = Append(was.heard, message), !.over = Len(was.heard) + 1 >= most]

ReadStream(lines, most) ==
    FoldLeft(LAMBDA was, line: Step(was, line, most),
             [data |-> <<>>, heard |-> <<>>, found |-> NoMessage, over |-> FALSE],
             Append(lines, [kind |-> "blank"]))

(* A request's reply: what the stream had, or else what the body decodes to. *)
Attempted(lines) ==
    LET read == ReadStream(lines, Len(lines) + 1)
    IN IF read.found # NoMessage THEN [kind |-> "reply", message |-> read.found] ELSE DecodeSse(lines)

(* A subscription: TRUE when the server itself closed it. *)
Listen(lines, most) ==
    LET read == ReadStream(lines, most)
    IN [heard |-> read.heard, closed |-> read.found # NoMessage /\ ~read.found.error]

-----------------------------------------------------------------------------
(* notify::read.  A notification is its method and what it carries.          *)

ListMethods == {"tools/list_changed", "resources/list_changed", "prompts/list_changed"}
LevelNames == {"debug", "info", "notice", "warning", "error", "critical", "alert", "emergency"}
LevelOf(level) == IF level \in LevelNames THEN level ELSE "info"

NoticeOf(message, token) ==
    CASE message.method = "progress" ->
           IF token # 0 /\ message.token = token /\ message.number THEN "progress" ELSE "none"
      [] message.method = "message" -> "log"
      [] message.method = "resources/updated" -> IF message.uri THEN "updated" ELSE "none"
      [] message.method = "subscriptions/acknowledged" -> "acknowledged"
      [] message.method \in ListMethods -> "changed"
      [] OTHER -> "none"

(* A server's text as one line; a control character is spelled out. *)
Blank == {" ", "\n", "\t"}
Spelled(c) == CASE c \in {"\n", "\t"} -> <<" ">> [] c = "\r" -> <<"\\", "r">> [] OTHER -> <<c>>
Trim(text) ==
    LET solid == {i \in DOMAIN text: text[i] \notin Blank}
    IN IF solid = {} THEN <<>> ELSE SubSeq(text, Min(solid), Max(solid))
OneLine(text) == Trim(FlattenSeq([i \in DOMAIN text |-> Spelled(text[i])]))

-----------------------------------------------------------------------------
(* Header values.  A value's letters are printable, not printable ("e'"), or *)
(* the two halves of the sentinel; "=" after the opening half closes it.     *)

StartsEncoded(value) == value # <<>> /\ value[1] = "=?base64?"
EndsEncoded(value) ==
    LET n == Len(value)
    IN n > 0 /\ \/ value[n] = "?="
                \/ n > 1 /\ value[n] = "=" /\ value[n - 1] = "=?base64?"
GoesAsItIs(value) ==
    /\ "e'" \notin ToSet(value) /\ Trim(value) = value
    /\ ~(StartsEncoded(value) /\ EndsEncoded(value))
HeaderValue(value) == [encoded |-> ~GoesAsItIs(value), text |-> value]

SubjectOf(method, params) ==
    CASE method \in {"tools/call", "prompts/get"} /\ "name" \in DOMAIN params.fields -> params.fields["name"]
      [] method = "resources/read" /\ "uri" \in DOMAIN params.fields -> params.fields["uri"]
      [] OTHER -> <<>>

MirroredHeaders(method, params) ==
    IF "protocolVersion" \notin DOMAIN params.meta THEN <<>>
    ELSE [version |-> params.meta["protocolVersion"], method |-> method,
          name |-> HeaderValue(SubjectOf(method, params))]

-----------------------------------------------------------------------------
(* The retired transport's opening, read in chunks up to a limit.            *)

(* The lines of a text; what follows the last newline is one too. *)
LinesOf(text) ==
    LET ends == {i \in DOMAIN text: text[i] = "\n"} \cup {Len(text) + 1}
        Start(e) == Max({0} \cup {i \in ends: i < e}) + 1
    IN {SubSeq(text, Start(e), e - 1): e \in ends}
IsEndpointEvent(line) == line = <<"event:", "endpoint">>
NamesAPostEndpoint(chunks, limit) ==
    \E n \in DOMAIN chunks:
        /\ Len(FlattenSeq(SubSeq(chunks, 1, n - 1))) < limit
        /\ \E line \in LinesOf(FlattenSeq(SubSeq(chunks, 1, n))): IsEndpointEvent(line)

(* What completion/complete answered: the values that are texts, up to most. *)
ReadCompletion(values, claimed, most) ==
    LET texts == SelectSeq(values, LAMBDA v: v # 0)
    IN [values |-> IF Len(texts) <= most THEN texts ELSE SubSeq(texts, 1, most),
        more |-> claimed \/ Len(values) > most]

-----------------------------------------------------------------------------
(* What is promised of each. *)

(* A field the caller gave is sent as it was given, but for the two a demand
   fills in; so is everything of a _meta of its own. *)
KeepsWhatWasGiven(params, sent) ==
    /\ params.kind = "list" => sent = params
    /\ \A f \in DOMAIN params.fields \ {"inputResponses", "requestState"}: sent.fields[f] = params.fields[f]
    /\ \A f \in DOMAIN params.meta: sent.meta[f] = params.meta[f]

(* A round carries what the last demand asked for, and nothing of the one
   before it; it goes out under a token of its own. *)
RoundsAreAnswered(session, params, wants, results) ==
    LET r == RequestWatching(session, params, wants, results)
        Result(n) == results[Min({n, Len(results)})]
        Given(f) == IF f \in DOMAIN params.fields THEN params.fields[f] ELSE {}
        Carries(sent, f) == IF f \in DOMAIN sent.fields THEN sent.fields[f] ELSE {}
        object == params.kind # "list"
        Methods(asked) == {asked.asks[k]: k \in DOMAIN asked.asks}
        Declared(sent) == sent.meta["clientCapabilities"]
    IN /\ \A n \in DOMAIN r.sent: KeepsWhatWasGiven(params, r.sent[n])
       /\ \A n \in 2 .. Len(r.sent): LET asked == Result(n - 1) IN
            /\ session.modern /\ asked.demand
            /\ object => Methods(asked) \subseteq Declared(r.sent[n])
            /\ object => Carries(r.sent[n], "inputResponses") =
                            (IF DOMAIN asked.asks # {} THEN DOMAIN asked.asks ELSE Given("inputResponses"))
            /\ object => Carries(r.sent[n], "requestState") =
                            (IF asked.state # "none" THEN {asked.state} ELSE Given("requestState"))
       /\ \A n \in DOMAIN r.sent:
            object /\ "progressToken" \notin DOMAIN params.meta /\ params.metaKind # "text" =>
                IF wants THEN r.sent[n].meta["progressToken"] = n ELSE "progressToken" \notin DOMAIN r.sent[n].meta
       /\ LET last == Len(r.sent) IN
            CASE r.outcome = "result" -> ~(session.modern /\ Result(last).demand)
              [] r.outcome = "stopped" -> last = MaxInputRounds + 1 /\ Result(last).demand
              [] r.outcome = "refused" -> DOMAIN Result(last).asks # {}

(* Every page up to the cap is read, once, and nothing is read after a cursor
   that was followed before. *)
PagesAreReadOnce(pages, most) ==
    LET r == ListPaginated(pages, most)
        n == Len(r.asked)
        next == pages[r.asked[n]].next
    IN /\ r.asked[1] = 0 /\ IsInjective(r.asked)
       /\ \A i \in 2 .. n: r.asked[i] = pages[r.asked[i - 1]].next
       /\ r.items = FlattenSeq([i \in 1 .. n |-> pages[r.asked[i]].items])
       /\ n = most \/ next = -1 \/ next \in ToSet(r.asked)

(* A stream read as it comes answers what its whole body would, and tells its
   watcher what came before the answer, in order, and nothing else. *)
StreamIsItsBody(lines, most) ==
    LET events == SseEvents(lines)
        at == SelectInSeq(events, IsAnswer)
        before == SelectSeq(IF at = 0 THEN events ELSE SubSeq(events, 1, at - 1), LAMBDA e: e.json)
        listened == Listen(lines, most)
    IN /\ Attempted(lines) = DecodeSse(lines)
       /\ ReadStream(lines, Len(lines) + 1).heard = before
       /\ listened.heard = SubSeq(before, 1, Min({most, Len(before)}))
       /\ listened.closed <=> at > 0 /\ Len(before) < most /\ ~events[at].error

(* Progress is shown under the token of its own round; a notification that
   lacks what it is about is not shown; what is shown is one line. *)
NoticesAreOurs(message, token, text) ==
    LET shown == NoticeOf(message, token)
    IN /\ shown = "progress" => message.token = token /\ token # 0
       /\ shown \in {"log", "none"} \/ message.method # "message"
       /\ LevelOf(message.level) \in LevelNames
       /\ LET line == OneLine(text) IN
            /\ ToSet(line) \cap {"\n", "\t", "\r"} = {}
            /\ OneLine(line) = line

(* A name reads back from its header as it was, and the headers say what the
   body they stand before says. *)
HeadersReadBack(method, params) ==
    LET h == MirroredHeaders(method, params)
        Decoded(v) == IF v.encoded THEN v.text
                      ELSE IF StartsEncoded(v.text) /\ EndsEncoded(v.text) THEN <<"garbled">> ELSE Trim(v.text)
    IN h # <<>> => /\ h.version = params.meta["protocolVersion"] /\ h.method = method
                   /\ Decoded(h.name) = SubjectOf(method, params)
                   /\ ~h.name.encoded => "e'" \notin ToSet(h.name.text)

(* However its stream is cut up, an endpoint event that begins and ends inside
   the limit is seen, and a stream with nothing of the kind has none. *)
EndpointIsSeen(chunks, limit) ==
    LET text == FlattenSeq(chunks)
        Says(t) == \E line \in LinesOf(t): IsEndpointEvent(line)
        found == NamesAPostEndpoint(chunks, limit)
    IN /\ (\E e \in DOMAIN text: e <= limit /\ text[e] = "\n" /\ Says(SubSeq(text, 1, e))) => found
       /\ found => \E n \in 0 .. Len(text): Says(SubSeq(text, 1, n))

(* A completion that says it has everything has it. *)
CompletionIsCounted(values, claimed, most) ==
    LET c == ReadCompletion(values, claimed, most)
    IN /\ Len(c.values) <= most
       /\ ~c.more => c.values = SelectSeq(values, LAMBDA v: v # 0)
=============================================================================
