---------------------------- MODULE Completion ----------------------------
(***************************************************************************)
(* What Tab offers inside the arguments of a call and inside a URI that    *)
(* follows a template (shell/complete.rs).                                 *)
(*                                                                         *)
(* The arguments before the cursor are tokens: the punctuation of JSON,    *)
(* the names and values that are whole, and last the one being typed, or   *)
(* Nothing.  A schema maps a property to the values it allows and to the   *)
(* properties of the object it may hold.                                   *)
(***************************************************************************)
EXTENDS Integers, Sequences, SequencesExt, FiniteSets, Functions

Nothing == "nothing"
Nesting == 1

(* Whether a name begins with what was typed of it. *)
StartsWith(name, typed) == typed \in {"", name} \/ <<typed, name>> = <<"a", "ab">>

Frame(kind, of) == [kind |-> kind, of |-> of, settled |-> {}, key |-> Nothing, after |-> FALSE]

(* The scan: which objects are open, what each already has, and the token
   that was closed last. *)
ScanStep(so, token) ==
    LET top == Last(so.stack)
        inObject == so.stack # <<>> /\ top.kind = "object"
        to(stack) == [so EXCEPT !.stack = stack, !.closed = Nothing]
    IN CASE token = "{" -> to(Append(so.stack, Frame("object", IF inObject /\ top.after THEN top.key ELSE Nothing)))
         [] token = "[" -> to(Append(so.stack, Frame("array", Nothing)))
         [] token \in {"}", "]"} -> IF so.stack = <<>> THEN [so EXCEPT !.ok = FALSE] ELSE to(Front(so.stack))
         [] token = ":" -> to(IF inObject THEN Append(Front(so.stack), [top EXCEPT !.key = so.closed, !.after = TRUE])
                              ELSE so.stack)
         [] token = "," -> to(IF inObject
                              THEN Append(Front(so.stack), [top EXCEPT !.settled = @ \cup ({top.key} \ {Nothing}),
                                                                       !.key = Nothing, !.after = FALSE])
                              ELSE so.stack)
         [] OTHER -> [so EXCEPT !.closed = token]

NoOpening == [ok |-> FALSE, typed |-> "", path |-> <<>>, valueOf |-> Nothing, settled |-> {}]

(* Where the scan leaves the cursor, or nothing to offer: in an array, below
   the nesting that is completed, past a token that is whole. *)
Read(tokens, typing) ==
    LET end == FoldLeft(ScanStep, [ok |-> TRUE, stack |-> <<>>, closed |-> Nothing], tokens)
        top == Last(end.stack)
        path == SelectSeq([i \in DOMAIN end.stack |-> end.stack[i].of], LAMBDA of: of # Nothing)
    IN IF ~end.ok \/ end.stack = <<>> \/ (\E i \in DOMAIN end.stack: end.stack[i].kind = "array")
          \/ Len(path) > Nesting \/ (top.after /\ top.key = Nothing)
          \/ (typing = Nothing /\ end.closed # Nothing)
       THEN NoOpening
       ELSE [ok |-> TRUE, typed |-> IF typing = Nothing THEN "" ELSE typing, path |-> path,
             valueOf |-> IF top.after THEN top.key ELSE Nothing, settled |-> top.settled]

(* The properties of the object the cursor is in. *)
Enclosing(path, schema) ==
    FoldLeft(LAMBDA props, key: IF key \in DOMAIN props THEN props[key].props ELSE <<>>, schema, path)

Unwritten(opening, names) == {<<n, ":">>: n \in {m \in names \ opening.settled: StartsWith(m, opening.typed)}}

Fill(opening, props) ==
    IF opening.valueOf = Nothing THEN Unwritten(opening, DOMAIN props)
    ELSE IF opening.valueOf \notin DOMAIN props THEN {}
    ELSE {<<v>>: v \in {w \in props[opening.valueOf].values: StartsWith(w, opening.typed)}}

(* What Tab offers; before anything of the object is written, each name comes
   with the brace that opens it. *)
InsideCall(tokens, typing, schema) ==
    IF tokens = <<>> /\ typing = Nothing
    THEN {<<"{", n, ":">>: n \in DOMAIN schema}
    ELSE LET opening == Read(tokens, typing)
         IN IF opening.ok THEN Fill(opening, Enclosing(opening.path, schema)) ELSE {}

-----------------------------------------------------------------------------
(* Templates: a sequence of pieces, each a literal or a variable; a text is  *)
(* a sequence of letters.                                                    *)

Text(letters) == [is |-> "text", text |-> letters]
Variable(name) == [is |-> "variable", text |-> <<name>>]

(* The first place a text holds another, counted from 0; -1 is none. *)
FindIn(text, part) ==
    LET places == {i \in 0 .. Len(text) - Len(part): SubSeq(text, i + 1, i + Len(part)) = part}
    IN IF places = {} THEN -1 ELSE CHOOSE i \in places: \A j \in places: i <= j

NoAhead == [is |-> "none", before |-> <<>>, typed |-> <<>>, rest |-> <<>>, settled |-> <<>>]

RECURSIVE Follow(_, _, _, _)
Follow(pieces, done, left, settled) ==
    IF pieces = <<>> THEN NoAhead
    ELSE LET piece == Head(pieces)
             rest == Tail(pieces)
             next == IF rest = <<>> THEN <<>> ELSE rest[1].text
             ends == IF rest = <<>> THEN -1 ELSE FindIn(left, next)
         IN IF piece.is = "text"
            THEN IF IsPrefix(piece.text, left)
                 THEN Follow(rest, done \o piece.text, SubSeq(left, Len(piece.text) + 1, Len(left)), settled)
                 ELSE IF IsPrefix(left, piece.text)
                 THEN [NoAhead EXCEPT !.is = "literal", !.before = done \o piece.text, !.settled = settled]
                 ELSE NoAhead
            ELSE IF rest # <<>> /\ rest[1].is = "variable" THEN NoAhead
            ELSE IF ends < 0
            THEN [is |-> "variable", before |-> done, typed |-> left, rest |-> rest, settled |-> settled]
            ELSE Follow(rest, done \o SubSeq(left, 1, ends), SubSeq(left, ends + 1, Len(left)),
                        Append(settled, SubSeq(left, 1, ends)))

Ahead(template, typed) == Follow(template, <<>>, typed, <<>>)

-----------------------------------------------------------------------------
(* What has to hold *)

(* The beginning of an object as JSON has it, read one token at a time: keys
   once each and of the schema, values of those it allows, or an object where
   the property holds one. *)
Begun(schema) == [mode |-> "start", inside |-> <<[props |-> schema, keys |-> {}]>>, key |-> Nothing, ok |-> TRUE]

BeginStep(so, token) ==
    LET top == Last(so.inside)
        fail == [so EXCEPT !.ok = FALSE]
    IN CASE so.mode = "start" -> IF token = "{" THEN [so EXCEPT !.mode = "first"] ELSE fail
         [] so.mode \in {"first", "key"} /\ token \in DOMAIN top.props \ top.keys ->
              [so EXCEPT !.mode = "colon", !.key = token,
                         !.inside = Append(Front(@), [top EXCEPT !.keys = @ \cup {token}])]
         [] so.mode = "colon" /\ token = ":" -> [so EXCEPT !.mode = "value"]
         [] so.mode = "value" /\ token \in top.props[so.key].values -> [so EXCEPT !.mode = "next"]
         [] so.mode = "value" /\ token = "{" /\ DOMAIN top.props[so.key].props # {} ->
              [so EXCEPT !.mode = "first", !.inside = Append(@, [props |-> top.props[so.key].props, keys |-> {}])]
         [] so.mode = "next" /\ token = "," -> [so EXCEPT !.mode = "key"]
         [] so.mode \in {"first", "next"} /\ token = "}" ->
              IF Len(so.inside) = 1 THEN [so EXCEPT !.mode = "done"]
              ELSE [so EXCEPT !.mode = "next", !.inside = Front(@)]
         [] OTHER -> fail

Begin(tokens, schema) ==
    FoldLeft(LAMBDA so, t: IF so.ok THEN BeginStep(so, t) ELSE so, Begun(schema), tokens)

(* Whatever Tab writes goes on being the beginning of an object its tool
   takes: no key twice, no value that is not allowed; and every key the
   object does not have yet is offered where one can stand. *)
OffersWhatFits(tokens, typing, schema) ==
    LET so == Begin(tokens, schema)
        offered == InsideCall(tokens, typing, schema)
        top == Last(so.inside)
    IN so.ok /\ (typing # Nothing => so.mode \in {"first", "key", "value"}) =>
         /\ \A c \in offered: Begin(tokens \o c, schema).ok
         /\ so.mode \in {"first", "key"} =>
              offered = {<<n, ":">>: n \in {m \in DOMAIN top.props \ top.keys:
                                              typing = Nothing \/ StartsWith(m, typing)}}

RECURSIVE Expand(_, _)
Expand(pieces, values) ==
    IF pieces = <<>> THEN <<>>
    ELSE IF Head(pieces).is = "text" THEN Head(pieces).text \o Expand(Tail(pieces), values)
    ELSE Head(values) \o Expand(Tail(pieces), Tail(values))

(* What is offered for a template begins with what was typed and is the
   template with the values that were typed into it; and whatever begins an
   expansion has something offered, but for two variables with nothing
   between them and values that hold a letter of the template's own. *)
FollowsTheTemplate(template, typed, values) ==
    LET ahead == Ahead(template, typed)
        upto(n) == SubSeq(template, 1, n)
        variables(n) == {i \in 1 .. n: template[i].is = "variable"}
        letters == UNION {ToSet(template[i].text): i \in DOMAIN template \ variables(Len(template))}
        whole == Expand(template, values)
    IN /\ ahead.is = "literal" => /\ IsPrefix(typed, ahead.before) /\ typed # ahead.before
                                  /\ \E n \in DOMAIN template:
                                       /\ Cardinality(variables(n)) = Len(ahead.settled)
                                       /\ Expand(upto(n), ahead.settled) = ahead.before
       /\ ahead.is = "variable" =>
            /\ ahead.before \o ahead.typed = typed
            /\ Expand(upto(Len(template) - Len(ahead.rest) - 1), ahead.settled) = ahead.before
       /\ /\ \A i \in variables(Len(template) - 1): i + 1 \notin variables(Len(template))
          /\ \A i \in DOMAIN values: ToSet(values[i]) \cap letters = {}
          /\ IsPrefix(typed, whole) /\ typed # whole
          => ahead.is # "none"
=============================================================================
