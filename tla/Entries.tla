------------------------------ MODULE Entries ------------------------------
(***************************************************************************)
(* registry.rs and catalog.rs: a registry entry turned into the config     *)
(* that is saved.  An entry lists remotes and packages; what it leaves to  *)
(* the user are slots, filled in the order they are met from the values    *)
(* given (--arg, or the answers browse prompts for), else from the entry's *)
(* default.                                                                *)
(*                                                                         *)
(* An input is [name, required, default, choices], choices empty when any  *)
(* value will do.  A piece of an entry (a URL, an argument, a header, a    *)
(* variable) is the sequence of inputs its text names, in the order they   *)
(* appear; its value is the sequence of theirs, and a piece with an input  *)
(* that got no value is a Hole.  A remote or package is sound when its     *)
(* URL, identifier and version are ones a config can hold.                 *)
(***************************************************************************)
EXTENDS Integers, Sequences, SequencesExt, FiniteSets

NoValue == "no value"
Hole == <<NoValue>>

Runnable == {"npm", "pypi", "oci"}

SlotsOf(given) == [given |-> given, seen |-> <<>>, missing |-> <<>>, refused |-> FALSE]

(* One slot: the next value given, else the default; a required one without
   either is missing, and a value that is not one of the choices refused. *)
Take(slots, input) ==
    LET next == IF slots.given = <<>> THEN NoValue ELSE Head(slots.given)
        value == IF next = NoValue THEN input.default ELSE next
        lacking == value = NoValue /\ input.required
    IN [value |-> value,
        slots |-> [given |-> IF slots.given = <<>> THEN <<>> ELSE Tail(slots.given),
                   seen |-> Append(slots.seen, input.name),
                   missing |-> slots.missing \o IF lacking THEN <<input.name>> ELSE <<>>,
                   refused |-> slots.refused \/ (value # NoValue /\ input.choices # {}
                                                 /\ value \notin input.choices)]]

(* The inputs of one piece, one after another; the first that gets no value
   leaves the whole piece out, and the inputs behind it are not met. *)
FillPiece(slots, piece) ==
    FoldLeft(LAMBDA so, input:
               IF so.value = Hole THEN so
               ELSE LET taken == Take(so.slots, input)
                    IN [slots |-> taken.slots,
                        value |-> IF taken.value = NoValue THEN Hole
                                  ELSE Append(so.value, taken.value)],
             [slots |-> slots, value |-> <<>>], piece)

Then(so, filled) == [slots |-> filled.slots, values |-> Append(so.values, filled.value)]

FillPieces(slots, pieces) ==
    FoldLeft(LAMBDA so, piece: Then(so, FillPiece(so.slots, piece)),
             [slots |-> slots, values |-> <<>>], pieces)

(* A variable or a header: filled in where the entry gives a text, else a
   placeholder when it is required, or has a default (a variable only). *)
Placeholder == <<"${VAR}">>
DefaultPlaceholder == <<"${VAR:-default}">>

Environment(slots, vars) ==
    FoldLeft(LAMBDA so, var:
               LET filled == FillPiece(so.slots, var.text)
                   value == CASE var.text # <<>> -> filled.value
                              [] var.required -> Placeholder
                              [] var.default -> DefaultPlaceholder
                              [] OTHER -> Hole
               IN [slots |-> IF var.text # <<>> THEN filled.slots ELSE so.slots,
                   values |-> Append(so.values, value)],
             [slots |-> slots, values |-> <<>>], vars)

NoConfig == [ok |-> FALSE, kind |-> "none", location |-> <<>>, words |-> <<>>, env |-> <<>>,
             missing |-> <<>>, seen |-> <<>>]

Config(kind, location, words, env, slots) ==
    IF slots.given # <<>> \/ slots.refused THEN NoConfig
    ELSE [ok |-> TRUE, kind |-> kind, location |-> location, words |-> words, env |-> env,
          missing |-> slots.missing, seen |-> slots.seen]

(* A URL with a hole is kept as the template where a required input of it is
   missing, and is the entry's fault otherwise. *)
Remote(r, given) ==
    LET url == FillPiece(SlotsOf(given), r.url)
        headers == Environment(url.slots, r.headers)
    IN IF ~r.sound \/ (url.value = Hole /\ url.slots.missing = <<>>) THEN NoConfig
       ELSE Config("http", url.value, <<>>, headers.values, headers.slots)

(* The runtime's words, then the variables, then the package's own. *)
Package(p, given) ==
    LET runtime == FillPieces(SlotsOf(given), p.runtime)
        vars == Environment(runtime.slots, p.env)
        args == FillPieces(vars.slots, p.args)
    IN IF p.kind \notin Runnable \/ ~p.sound THEN NoConfig
       ELSE Config("stdio", <<>>, runtime.values \o args.values, vars.values, args.slots)

(* What of an entry is saved: the remote (streamable before sse), the first
   package of one type, or whichever of these there is first. *)
Picked(entry, pick) ==
    LET streamable == SelectInSeq(entry.remotes, LAMBDA r: r.type = "streamable-http")
        sse == SelectInSeq(entry.remotes, LAMBDA r: r.type = "sse")
        ofKind == SelectInSeq(entry.packages, LAMBDA p: p.stdio /\ p.kind = pick)
        runnable == SelectInSeq(entry.packages, LAMBDA p: p.stdio /\ p.kind \in Runnable)
        of(from, at) == [from |-> IF at = 0 THEN "nothing" ELSE from, at |-> at]
    IN CASE pick \in Runnable -> of("package", ofKind)
         [] pick \notin Runnable /\ streamable > 0 -> of("remote", streamable)
         [] pick \notin Runnable /\ streamable = 0 /\ pick # "remote" /\ runnable > 0 -> of("package", runnable)
         [] OTHER -> of("remote", sse)

Fill(entry, picked, given) ==
    CASE picked.from = "remote" -> Remote(entry.remotes[picked.at], given)
      [] picked.from = "package" -> Package(entry.packages[picked.at], given)
      [] OTHER -> NoConfig

Convert(entry, pick, given) == Fill(entry, Picked(entry, pick), given)

(* The catalog's choice, so that what is saved has the transport promised. *)
CatalogPick(transport, entry) ==
    LET kind == SelectInSeq(entry.packages, LAMBDA p: p.kind \in Runnable)
    IN IF transport = "http" THEN "remote"
       ELSE IF kind > 0 THEN entry.packages[kind].kind ELSE "any"

-----------------------------------------------------------------------------
(* What browse saves: the entry converted with nothing, the blanks asked
   for slot by slot (a required one until it is answered), and converted
   again with the answers. *)
Answers(resolved, required, optional) ==
    [i \in DOMAIN resolved.seen |->
        IF resolved.seen[i] \in ToSet(resolved.missing) THEN required ELSE optional]

AnswerBlanks(entry, pick, bare, required, optional) ==
    IF ~bare.ok \/ bare.missing = <<>> THEN bare
    ELSE Convert(entry, pick, Answers(bare, required, optional))

SaveOne(entry, pick, required, optional) ==
    AnswerBlanks(entry, pick, Convert(entry, pick, <<>>), required, optional)

(* add: a config with a value missing is refused. *)
Complete(resolved) == IF resolved.missing # <<>> THEN NoConfig ELSE resolved
Add(entry, pick, given) == Complete(Convert(entry, pick, given))

-----------------------------------------------------------------------------
(* What has to hold of a config *)

AllRequired(piece) == \A i \in DOMAIN piece: piece[i].required

(* A config add saves has no hole where its entry requires a value: in the
   URL, in an argument, a header or a variable all of whose inputs are
   required.  (The entry has one remote and one package at most.) *)
SavedIsWhole(entry, config) ==
    LET words == IF config.kind = "http" THEN <<>>
                 ELSE entry.packages[1].runtime \o entry.packages[1].args
        vars == IF config.kind = "http" THEN entry.remotes[1].headers ELSE entry.packages[1].env
    IN config.ok =>
        /\ config.location # Hole
        /\ \A i \in DOMAIN words: AllRequired(words[i]) => config.words[i] # Hole
        /\ \A i \in DOMAIN vars: vars[i].required /\ AllRequired(vars[i].text) => config.env[i] # Hole

(* Browse too, unless a piece has a second blank behind the first: that one is
   met only when the entry is converted again, and nobody asks about it. *)
BrowseSavesWhole(entry, bare, saved) ==
    Len(saved.seen) = Len(bare.seen) => SavedIsWhole(entry, saved)

(* Values given land in order: where every slot got one, the filled words end
   to end are the values given. *)
ValuesInOrder(config, given) ==
    config.ok /\ config.kind = "stdio" /\ config.env = <<>> /\ Len(given) = Len(config.seen)
        /\ NoValue \notin ToSet(given)
        => FlattenSeq(config.words) = given

(* The transport a catalog entry promises is the one saved, as long as the
   registry's entry has a package that runs. *)
PromiseKept(transport, entry, config) ==
    config.ok /\ (transport = "stdio" => \E i \in DOMAIN entry.packages: entry.packages[i].kind \in Runnable)
        => config.kind = transport
=============================================================================
