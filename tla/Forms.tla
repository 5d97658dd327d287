------------------------------- MODULE Forms -------------------------------
(***************************************************************************)
(* elicit.rs: the answer to a server's elicitation/create.  A form is      *)
(* filled from the values given ahead of time, or put to the person at the *)
(* terminal one property at a time, or declined; a url is accepted at      *)
(* once; what nobody can answer is declined and never waited for.          *)
(*                                                                         *)
(* A form is a sequence of properties                                      *)
(*   [type, choices, items, required, default, min, max]                   *)
(* where choices and items count the options an enum names, None without   *)
(* one, and a bound the schema leaves open is None.  A JSON value is       *)
(* [is, n, items]: a number is given as twice its value, so that halves    *)
(* exist, a string by its length, a chosen option and the items of a list  *)
(* by their number.  A typed line is a member of Lines, and the tables     *)
(* below read it as Rust's parsers do.                                     *)
(***************************************************************************)
EXTENDS Integers, Sequences, SequencesExt, FiniteSets

None == -1
JsonValue(is, n, items) == [is |-> is, n |-> n, items |-> items]
Bad == JsonValue("error", 0, <<>>)
Absent == JsonValue("absent", 0, <<>>)

(* What a property takes; "none" is a type nobody can fill in. *)
KindOf(spec) ==
    CASE spec.choices # None -> "choice"
      [] spec.type = "array" /\ spec.items # None -> "multi"
      [] spec.type \in {"string", "number", "integer", "boolean"} -> spec.type
      [] OTHER -> "none"

Options(spec) == IF spec.choices # None THEN spec.choices ELSE spec.items

Within(n, spec) ==
    (spec.min = None \/ n >= spec.min) /\ (spec.max = None \/ n <= spec.max)

(* The constraints of a property. *)
Allowed(spec, v) ==
    CASE KindOf(spec) = "string" -> v.is = "string" /\ Within(v.n, spec)
      [] KindOf(spec) = "number" ->
            v.is = "number" /\ (spec.min = None \/ v.n >= 2 * spec.min)
                            /\ (spec.max = None \/ v.n <= 2 * spec.max)
      [] KindOf(spec) = "integer" -> v.is = "number" /\ v.n % 2 = 0 /\ Within(v.n \div 2, spec)
      [] KindOf(spec) = "boolean" -> v.is = "boolean"
      [] KindOf(spec) = "choice" -> v.is = "chosen" /\ v.n \in 1 .. spec.choices
      [] KindOf(spec) = "multi" -> v.is = "list" /\ Within(Len(v.items), spec)
                                   /\ ToSet(v.items) \subseteq 1 .. spec.items

Check(spec, v) == IF Allowed(spec, v) THEN v ELSE Bad

(* What can be typed: nothing, a whole and a half number, a yes, two choices
   at once, and a word that is none of these. *)
Lines == {"", "1", "2", "0.5", "yes", "1,2", "word"}

AsNumber == [l \in {"1", "2", "0.5"} |-> CASE l = "1" -> 2 [] l = "2" -> 4 [] l = "0.5" -> 1]

Split(line) == IF line = "1,2" THEN <<"1", "2">> ELSE <<line>>

(* A word against the options, by its number in the list, then by its value
   or title: "word" is the title of the first, and "2" its value, which only
   a list of one lets through. *)
Pick(spec, word) ==
    CASE word = "1" /\ Options(spec) >= 1 -> 1
      [] word = "2" /\ Options(spec) >= 2 -> 2
      [] word \in {"word", "2"} /\ Options(spec) >= 1 -> 1
      [] OTHER -> 0

(* One line of typing turned into a value. *)
Typed(spec, line) ==
    LET picked == [i \in DOMAIN Split(line) |-> Pick(spec, Split(line)[i])]
    IN CASE KindOf(spec) = "string" -> JsonValue("string", Len(line), <<>>)
         [] KindOf(spec) \in {"number", "integer"} ->
               IF line \in DOMAIN AsNumber THEN JsonValue("number", AsNumber[line], <<>>) ELSE Bad
         [] KindOf(spec) = "boolean" ->
               IF line \in {"1", "yes"} THEN JsonValue("boolean", 1, <<>>) ELSE Bad
         [] KindOf(spec) = "choice" -> JsonValue("chosen", Pick(spec, line), <<>>)
         [] KindOf(spec) = "multi" ->
               IF 0 \in ToSet(picked) THEN Bad ELSE JsonValue("list", 0, picked)

(* Then checked as any other value is. *)
ReadLine(spec, line) == Check(spec, Typed(spec, line))

-----------------------------------------------------------------------------
(* The replies *)

Reply(action, content) == [action |-> action, content |-> content]
Declined == Reply("decline", <<>>)
Cancelled == Reply("cancel", <<>>)

(* A property nobody can fill in is left out when it is optional, and refuses
   the form when it is required. *)
Fillable(form) == {f \in DOMAIN form: KindOf(form[f]) # "none"}
CannotFill(form) == \E f \in DOMAIN form: KindOf(form[f]) = "none" /\ form[f].required

(* Filled from values given ahead of time: every required property covered,
   every value checked. *)
FillForm(form, given) ==
    LET here == {f \in Fillable(form): given[f] # Absent}
    IN IF \E f \in Fillable(form): IF f \in here THEN Check(form[f], given[f]) = Bad
                                   ELSE form[f].required
       THEN Declined
       ELSE Reply("accept", [f \in here |-> Check(form[f], given[f])])

(* Whether a line settles the question for one property, or it is put again. *)
Settles(spec, line) ==
    IF line = "" THEN spec.default # Absent \/ ~spec.required
    ELSE ReadLine(spec, line) # Bad

(* Enter alone takes the default as it stands, or leaves the property out. *)
Answered(spec, line) ==
    IF line = "" THEN spec.default ELSE ReadLine(spec, line)

(* Put to the person, one property at a time; the end of the lines cancels. *)
AskForm(form, lines) ==
    LET Ask(so, f) ==
            LET at == SelectInSeq(so.rest, LAMBDA line: Settles(form[f], line))
                value == Answered(form[f], so.rest[at])
            IN IF ~so.ok \/ at = 0 THEN [so EXCEPT !.ok = FALSE]
               ELSE [ok |-> TRUE, rest |-> SubSeq(so.rest, at + 1, Len(so.rest)),
                     content |-> IF value = Absent THEN so.content
                                 ELSE (f :> value) @@ so.content]
        asked == FoldLeft(Ask, [ok |-> TRUE, rest |-> lines, content |-> <<>>],
                          SetToSeq(Fillable(form)))
    IN IF asked.ok THEN Reply("accept", asked.content) ELSE Cancelled

(* who: what this invocation answers with, [given, values, asks, later]. *)
RespondForm(form, who, lines) ==
    IF CannotFill(form) THEN Declined
    ELSE IF who.given THEN FillForm(form, who.values)
    ELSE IF who.asks THEN AskForm(form, lines)
    ELSE Declined

(* The answer to one request: its mode, and the form it carries. *)
Respond(mode, hasUrl, form, who, lines) ==
    CASE mode = "form" -> RespondForm(form, who, lines)
      [] mode = "url" -> IF hasUrl THEN Reply("accept", <<>>) ELSE Declined
      [] OTHER -> Declined

(* The modes initialize declares: url always, form when something can fill
   one in, or may later. *)
Capabilities(who) ==
    {"url"} \cup IF who.asks \/ who.given \/ who.later THEN {"form"} ELSE {}

-----------------------------------------------------------------------------
(* What has to hold of an answer: an accepted form has a value for every
   required property, nothing that was not asked for, and no value its
   schema refuses, a default taken with Enter apart; only an accepted form
   carries content; what was not offered in the handshake is never accepted;
   and cancel is a person's answer alone. *)
AnswersWhatWasAsked(mode, hasUrl, form, who, lines) ==
    LET reply == Respond(mode, hasUrl, form, who, lines)
        content == reply.content
    IN /\ reply.action = "accept" /\ mode = "form" =>
            /\ \A f \in DOMAIN form: form[f].required => f \in DOMAIN content
            /\ DOMAIN content \subseteq Fillable(form)
            /\ \A f \in DOMAIN content:
                 Allowed(form[f], content[f]) \/ (content[f] = form[f].default /\ ~who.given)
       /\ reply.action = "accept" => mode \in Capabilities(who)
       /\ content # <<>> => reply.action = "accept" /\ mode = "form"
       /\ reply.action = "cancel" => who.asks /\ ~who.given
=============================================================================
