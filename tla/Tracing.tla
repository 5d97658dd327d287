------------------------------ MODULE Tracing ------------------------------
(***************************************************************************)
(* What is said of the transports: the line -v writes and the record       *)
(* --trace keeps of each event (transport/trace.rs), with the secrets of   *)
(* an OAuth exchange left out of both (redact), and the date of a record.  *)
(***************************************************************************)
EXTENDS Integers, Sequences, SequencesExt, FiniteSets

(* A message: a text, or fields with keys; those of a list have none. *)
Leaf(text) == [text |-> text, fields |-> <<>>]
Fields(fields) == [text |-> "", fields |-> fields]

SecretFields == {"access_token", "refresh_token", "client_secret", "code"}
Hidden == Leaf("****")

RECURSIVE Redact(_)
Redact(value) ==
    [value EXCEPT !.fields = [i \in DOMAIN value.fields |->
        [value.fields[i] EXCEPT !.value = IF value.fields[i].key \in SecretFields THEN Hidden ELSE Redact(@)]]]

ShownAs(wire, message) == IF wire = "oauth" THEN Redact(message) ELSE message

Transport(wire) == IF wire = "oauth" THEN "http" ELSE wire
Outbound(wire) == CASE wire \in {"http", "oauth"} -> "POST" [] wire = "stdio" -> "stdin" [] OTHER -> "socket"
Inbound(wire) == CASE wire \in {"http", "oauth"} -> "HTTP" [] wire = "stdio" -> "stdout" [] OTHER -> "socket"

-----------------------------------------------------------------------------
(* An event has a kind, a wire, and the message, body or line that goes with *)
(* it, a sequence of none or one; spawned and exited are a process's.        *)

Kinds == {"sent", "received", "not json", "request", "reply", "failed", "retrying", "spawned", "exited"}
Event(kind, wire, with) == [kind |-> kind, wire |-> wire, with |-> with]
Said(mark, name, shows) == [mark |-> mark, name |-> name, shows |-> shows]

Describe(event) ==
    LET shown == [i \in DOMAIN event.with |-> ShownAs(event.wire, event.with[i])]
    IN CASE event.kind = "sent" -> <<Said("->", Outbound(event.wire), shown)>>
         [] event.kind = "received" /\ event.wire = "http" -> <<>>
         [] event.kind = "received" /\ event.wire = "oauth" -> <<Said("", "", shown)>>
         [] event.kind \in {"received", "not json"} /\ event.wire \notin {"http", "oauth"} ->
              <<Said("<-", Inbound(event.wire), event.with)>>
         [] event.kind = "request" -> <<Said("->", event.wire, <<>>)>>
         [] event.kind = "reply" -> <<Said("<-", "HTTP", event.with)>>
         [] event.kind = "failed" -> <<Said("<-", "failed", <<>>)>>
         [] OTHER -> <<Said("", event.kind, <<>>)>>

(* A record, or none: a request is recorded with its outcome. *)
Line(event) ==
    LET Record(dir, name, shows) == <<[dir |-> dir, event |-> name, shows |-> shows,
                                       transport |-> IF event.kind \in {"spawned", "exited"} THEN "stdio"
                                                     ELSE Transport(event.wire)]>>
        shown == [i \in DOMAIN event.with |-> ShownAs(event.wire, event.with[i])]
    IN CASE event.kind = "sent" -> Record("send", "message", shown)
         [] event.kind = "received" -> Record("recv", "message", shown)
         [] event.kind = "not json" -> Record("event", "not_json", event.with)
         [] event.kind = "request" -> <<>>
         [] event.kind \in {"reply", "failed"} -> Record("event", "http", <<>>)
         [] event.kind = "retrying" -> Record("event", "retry", <<>>)
         [] event.kind = "spawned" -> Record("event", "spawn", <<>>)
         [] OTHER -> Record("event", "exit", <<>>)

(* Where they go: nowhere, on stderr, into the file, or both. *)
Logged(events, verbose, trace) ==
    [stderr |-> IF verbose THEN FlattenSeq([i \in DOMAIN events |-> Describe(events[i])]) ELSE <<>>,
     file |-> IF trace THEN FlattenSeq([i \in DOMAIN events |-> Line(events[i])]) ELSE <<>>]

(* What a transport tells of one exchange: a POST with its reply's bytes shown
   or only decoded, a GET, a line each way, or no answer, tried again or not. *)
Exchange(wire, how, sent, received) ==
    CASE how = "post" -> <<Event("sent", wire, <<sent>>),
                           Event("reply", wire, IF wire = "http" THEN <<received>> ELSE <<>>),
                           Event("received", wire, <<received>>)>>
      [] how = "get" -> <<Event("request", wire, <<>>), Event("reply", wire, <<>>), Event("received", wire, <<received>>)>>
      [] how = "pipe" -> <<Event("sent", wire, <<sent>>), Event("received", wire, <<received>>)>>
      [] how = "noise" -> <<Event("sent", wire, <<sent>>), Event("not json", wire, <<received>>)>>
      [] how = "fails" -> <<Event("sent", wire, <<sent>>), Event("failed", wire, <<>>)>>
      [] OTHER -> <<Event("sent", wire, <<sent>>), Event("failed", wire, <<>>), Event("retrying", wire, <<>>),
                    Event("sent", wire, <<sent>>), Event("failed", wire, <<>>)>>

-----------------------------------------------------------------------------
(* civil_from_days: 400 years are an era of 146097 days, from a first of March. *)

CivilFromDays(days) ==
    LET shifted == days + 719468
        era == shifted \div 146097
        doe == shifted % 146097
        yoe == (doe - doe \div 1460 + doe \div 36524 - doe \div 146096) \div 365
        doy == doe - (365 * yoe + yoe \div 4 - yoe \div 100)
        month == (5 * doy + 2) \div 153
        m == IF month < 10 THEN month + 3 ELSE month - 9
    IN [year |-> yoe + era * 400 + (IF m <= 2 THEN 1 ELSE 0), month |-> m, day |-> doy - (153 * month + 2) \div 5 + 1]

(* The calendar itself. *)
Leap(y) == y % 4 = 0 /\ (y % 100 # 0 \/ y % 400 = 0)
LengthOf(y, m) == IF m = 2 THEN IF Leap(y) THEN 29 ELSE 28 ELSE IF m \in {4, 6, 9, 11} THEN 30 ELSE 31
NextDay(date) ==
    IF date.day < LengthOf(date.year, date.month) THEN [date EXCEPT !.day = @ + 1]
    ELSE IF date.month < 12 THEN [date EXCEPT !.month = @ + 1, !.day = 1]
    ELSE [year |-> date.year + 1, month |-> 1, day |-> 1]

-----------------------------------------------------------------------------
(* What is promised. *)

RECURSIVE Secrets(_)
Secrets(value) == UNION {IF f.key \in SecretFields THEN {f.value} \ {Hidden} ELSE Secrets(f.value):
                           f \in ToSet(value.fields)}
RECURSIVE Public(_)
Public(value) == {<<value.text>>} \cup UNION {{<<f.key>> \o p: p \in Public(f.value)}:
                           f \in {g \in ToSet(value.fields): g.key \notin SecretFields}}

(* No secret of an OAuth exchange reaches either place, at any depth; all that
   is not one does, once on stderr and once in the file; no other wire is touched. *)
TraceIsWhole(wire, how, sent, received) ==
    LET all == Exchange(wire, how, sent, received)
        log == Logged(all, TRUE, TRUE)
        Shows(lines) == FlattenSeq([i \in DOMAIN lines |-> lines[i].shows])
        told == CASE how = "get" -> <<received>>
                  [] how \in {"post", "pipe", "noise"} -> <<sent, received>>
                  [] how = "fails" -> <<sent>>
                  [] OTHER -> <<sent, sent>>
        Told(lines) == /\ Len(Shows(lines)) = Len(told)
                       /\ \A i \in DOMAIN told: Public(Shows(lines)[i]) = Public(told[i])
                       /\ wire # "oauth" => Shows(lines) = told
                       /\ wire = "oauth" => \A i \in DOMAIN told: Secrets(Shows(lines)[i]) = {}
    IN /\ Told(log.stderr) /\ Told(log.file)
       /\ Logged(all, FALSE, TRUE).file = log.file /\ Logged(all, FALSE, FALSE) = [stderr |-> <<>>, file |-> <<>>]
       /\ \A i \in DOMAIN log.file: log.file[i].transport = Transport(wire)

(* Each day is the one after the day before. *)
DatesFollow(days) ==
    /\ CivilFromDays(0) = [year |-> 1970, month |-> 1, day |-> 1]
    /\ CivilFromDays(days + 1) = NextDay(CivilFromDays(days))
=============================================================================
