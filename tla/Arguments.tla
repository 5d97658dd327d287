----------------------------- MODULE Arguments -----------------------------
(***************************************************************************)
(* How the arguments of a call are written, read and asked for: the pairs  *)
(* of args.rs, the schema reading of schema.rs they are coerced by, and    *)
(* the questions of prompt.rs that fill in what a command line left out.   *)
(*                                                                         *)
(* A word is a sequence of the characters the forms are told apart by; a   *)
(* character that means nothing to them is one letter, and the words true  *)
(* and false are one token each.  A schema is a record                     *)
(*   [props |-> [name |-> spec], required |-> set of names, closed]        *)
(* and a spec [type, values, first]: its declared type (or "none"), the    *)
(* values an enum or const names, and the type of the first alternative of *)
(* an anyOf ("none" without one).                                          *)
(***************************************************************************)
EXTENDS Integers, Sequences, SequencesExt, FiniteSets

Value(is, text) == [is |-> is, text |-> text]
Fail == Value("error", <<>>)
Ok(v) == v.is # "error"

Digits == {"1", "2"}
Word == {<<"true">>, <<"false">>}

(* serde_json's reading of a text, and its writing of a value. *)
FromJson(text) ==
    IF text # <<>> /\ ToSet(text) \subseteq Digits THEN Value("number", text)
    ELSE IF text \in Word THEN Value("boolean", text)
    ELSE IF text = <<"[]">> THEN Value("array", text)
    ELSE IF Len(text) > 1 /\ Head(text) = "\"" /\ Last(text) = "\""
            /\ "\"" \notin ToSet(SubSeq(text, 2, Len(text) - 1))
         THEN Value("string", SubSeq(text, 2, Len(text) - 1))
    ELSE Fail

ToJson(v) == IF v.is = "string" THEN <<"\"">> \o v.text \o <<"\"">> ELSE v.text

(* schema::plain: a string without its quotes. *)
Plain(v) == v.text

-----------------------------------------------------------------------------
(* The two forms *)

IsJsonForm(word) == (word # <<>> /\ Head(word) \in {"{", "@"}) \/ word = <<"-">>

FirstEq(word) == SelectInSeq(word, LAMBDA c: c = "=")

NotAPair == [ok |-> FALSE, key |-> <<>>, json |-> FALSE, value |-> Fail]

(* One word as its key and what follows the first "=", the value parsed
   already where the key ends in a colon. *)
SplitPair(word) ==
    LET at == FirstEq(word)
        left == SubSeq(word, 1, at - 1)
        text == SubSeq(word, at + 1, Len(word))
        json == left # <<>> /\ Last(left) = ":"
        key == IF json THEN Front(left) ELSE left
        value == IF json THEN FromJson(text) ELSE Value("text", text)
    IN IF at = 0 \/ key = <<>> \/ ~Ok(value) THEN NotAPair
       ELSE [ok |-> TRUE, key |-> key, json |-> json, value |-> value]

LooksLikePair(word) ==
    LET left == SubSeq(word, 1, FirstEq(word) - 1)
    IN ~IsJsonForm(word) /\ FirstEq(word) > 0 /\ left # <<>> /\ left # <<":">>

(* Which form the words after a tool name take. *)
Form(words) ==
    IF words = <<>> THEN "json"
    ELSE IF IsJsonForm(Head(words)) THEN IF Len(words) = 1 THEN "json" ELSE "error"
    ELSE IF Len(words) = 1 /\ ~LooksLikePair(Head(words)) THEN "json"
    ELSE IF \E w \in ToSet(words): IsJsonForm(w) \/ ~SplitPair(w).ok THEN "error"
    ELSE "pairs"

NoSpec == [type |-> "none", values |-> <<>>, first |-> "none"]

(* A schema that was never fetched. *)
NoSchema == [props |-> <<>>, required |-> {}, closed |-> FALSE]

SpecOf(schema, key) ==
    IF key \in DOMAIN schema.props THEN schema.props[key] ELSE NoSpec

(* Text as the one type a schema declares; a union is left a string. *)
Coerce(text, spec) ==
    CASE spec.type \in {"integer", "number"} ->
            IF FromJson(text).is = "number" THEN FromJson(text) ELSE Fail
      [] spec.type = "boolean" -> IF text \in Word THEN Value("boolean", text) ELSE Fail
      [] spec.type \in {"array", "object"} -> Fail
      [] OTHER -> Value("string", text)

NoObject == [ok |-> FALSE, object |-> <<>>]

Pair(so, pair, schema) ==
    LET known == pair.key \in DOMAIN schema.props \/ ~schema.closed
        value == IF pair.json THEN pair.value
                 ELSE Coerce(pair.value.text, SpecOf(schema, pair.key))
    IN IF so.ok /\ pair.ok /\ known /\ Ok(value)
       THEN [ok |-> TRUE, object |-> (pair.key :> value) @@ so.object]
       ELSE NoObject

ParsePairs(words, schema) ==
    FoldLeft(LAMBDA so, word: Pair(so, SplitPair(word), schema), [ok |-> TRUE, object |-> <<>>], words)

(* What one argument came to. *)
Argument(read, key) == IF read.ok /\ key \in DOMAIN read.object THEN read.object[key] ELSE Fail

(* A pair reads its schema unless its value is JSON already. *)
NeedsSchema(words) == \E w \in ToSet(words): ~SplitPair(w).ok \/ ~SplitPair(w).json

(* What a line of the shell makes of its words: pairs where it opens with
   one, the schema fetched only when a pair needs it. *)
ShellArguments(words, schema) ==
    IF words = <<>> \/ ~LooksLikePair(Head(words)) THEN NoObject
    ELSE ParsePairs(words, IF NeedsSchema(words) THEN schema ELSE NoSchema)

PlainPair(object, key) == key \o <<"=">> \o Plain(object[key])
JsonPair(object, key) == key \o <<":", "=">> \o ToJson(object[key])

(* A slip: a text that holds nothing to quote is written plainly, whatever
   type it would be read back as. *)
WrittenPlainly(object, schema, key) ==
    IF "=" \notin ToSet(Plain(object[key])) THEN PlainPair(object, key) ELSE JsonPair(object, key)

(* One argument of a finished call as a word: the plain form where that reads
   back as the same value, JSON otherwise. *)
Written(object, schema, key) ==
    IF Argument(ParsePairs(<<PlainPair(object, key)>>, schema), key) = object[key]
    THEN PlainPair(object, key) ELSE JsonPair(object, key)

AsPairs(object, schema) == SetToSeq({Written(object, schema, k): k \in DOMAIN object})

(* The words a usage line shows for the required arguments. *)
ExampleType(spec) == IF spec.type = "none" THEN spec.first ELSE spec.type

-----------------------------------------------------------------------------
(* What is asked for, and how it is read *)

Asked(spec) ==
    CASE spec.values # <<>> -> "choice"
      [] ExampleType(spec) = "boolean" -> "boolean"
      [] ExampleType(spec) \in {"number", "integer"} -> "number"
      [] ExampleType(spec) \in {"array", "object"} -> "json"
      [] OTHER -> "text"

(* The number in the list first, then the line itself. *)
Numbered(shown, answer) ==
    LET n == CASE answer = <<"1">> -> 1 [] answer = <<"2">> -> 2 [] OTHER -> 0
    IN IF n \in DOMAIN shown THEN n ELSE SelectInSeq(shown, LAMBDA s: s = answer)

YesOrNo(answer) ==
    CASE answer \in {<<"y">>, <<"true">>} -> <<"true">>
      [] answer \in {<<"n">>, <<"false">>} -> <<"false">>
      [] OTHER -> <<>>

(* One typed line as the value the schema declares, read as the pair with
   that text would be. *)
ValueOf(key, answer, schema) ==
    LET spec == SpecOf(schema, key)
        shown == [i \in DOMAIN spec.values |-> Plain(spec.values[i])]
        read(text) == Argument(ParsePairs(<<key \o text>>, schema), key)
    IN CASE Asked(spec) = "choice" ->
                IF Numbered(shown, answer) = 0 THEN Fail ELSE spec.values[Numbered(shown, answer)]
         [] Asked(spec) = "json" -> read(<<":", "=">> \o answer)
         [] Asked(spec) = "boolean" ->
                IF YesOrNo(answer) = <<>> THEN Fail ELSE read(<<"=">> \o YesOrNo(answer))
         [] OTHER -> read(<<"=">> \o answer)

(* The parameters a call lacks, the required ones first. *)
Missing(schema, object) ==
    LET lacking == DOMAIN schema.props \ DOMAIN object
    IN SetToSeq(lacking \cap schema.required) \o SetToSeq(lacking \ schema.required)

(* The questions, one parameter after another: a line the schema cannot take
   is asked for again, an empty one leaves an optional parameter out, and the
   end of the lines gives up the call. *)
Takes(schema, key, line) ==
    IF line = <<>> THEN key \notin schema.required ELSE Ok(ValueOf(key, line, schema))

TakeLine(so, key, schema, at) ==
    IF ~so.ok \/ at = 0 THEN [so EXCEPT !.ok = FALSE]
    ELSE [ok |-> TRUE, rest |-> SubSeq(so.rest, at + 1, Len(so.rest)),
          object |-> IF so.rest[at] = <<>> THEN so.object
                     ELSE (key :> ValueOf(key, so.rest[at], schema)) @@ so.object]

AskEach(schema, object, missing, lines) ==
    FoldLeft(LAMBDA so, key:
                 TakeLine(so, key, schema, SelectInSeq(so.rest, LAMBDA line: Takes(schema, key, line))),
             [ok |-> TRUE, rest |-> lines, object |-> object], missing)

(* Nothing is asked unless a required parameter is missing. *)
Fill(schema, object, lines) ==
    LET missing == Missing(schema, object)
    IN IF ToSet(missing) \cap schema.required = {}
       THEN [ok |-> TRUE, rest |-> lines, object |-> object]
       ELSE AskEach(schema, object, missing, lines)

-----------------------------------------------------------------------------
(* What has to hold of a call *)

(* The type a parameter is asked for as is the type it is sent as, for every
   parameter whose schema declares one type. *)
SentAsAsked(schema, object) ==
    \A key \in DOMAIN schema.props \cap DOMAIN object:
        LET spec == schema.props[key]
        IN CASE Asked(spec) = "choice" -> object[key] \in ToSet(spec.values)
             [] spec.type \in {"boolean", "string"} -> object[key].is = spec.type
             [] spec.type = "integer" -> object[key].is = "number"
             [] OTHER -> TRUE

(* A call that was filled in has every required argument its schema has a
   property for, keeps what it was given, and sends the rest as it was asked
   for. *)
FilledIn(schema, object, filled) ==
    LET answers == [k \in DOMAIN filled.object \ DOMAIN object |-> filled.object[k]]
    IN filled.ok =>
        /\ schema.required \cap DOMAIN schema.props \subseteq DOMAIN filled.object
        /\ \A key \in DOMAIN object: filled.object[key] = object[key]
        /\ SentAsAsked(schema, answers)

(* Names that hold none of the characters the two forms are told apart by. *)
Nameable(schema, object) ==
    \A key \in DOMAIN object: key # <<>> /\ ToSet(key) \cap {"=", ":", "@", "{"} = {}
                              /\ (key \in DOMAIN schema.props \/ ~schema.closed)

(* The line a finished call is echoed as makes that call again. *)
EchoIsTheCall(schema, object, words) ==
    Nameable(schema, object) =>
        /\ Form(words) = IF object = <<>> THEN "json" ELSE "pairs"
        /\ ParsePairs(words, schema) = [ok |-> TRUE, object |-> object]

(* Every word checked for its shape before anything is dialed is one the
   schema can still refuse but the reading cannot stumble over; and a line of
   the shell, whose schema is only fetched when a pair needs it, makes the
   object the same words make on the command line. *)
WordsMeanOneThing(schema, words) ==
    /\ Form(words) = "pairs" => \A w \in ToSet(words): SplitPair(w).ok
    /\ Form(words) = "pairs" /\ ParsePairs(words, schema).ok =>
            ShellArguments(words, schema) = ParsePairs(words, schema)
=============================================================================
