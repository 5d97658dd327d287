------------------------------ MODULE Looking ------------------------------
(***************************************************************************)
(* Finding things: one pass over what every saved server offers (grep.rs), *)
(* the ranked search of the registry's copy (search.rs), and the path or   *)
(* the jq that a line of the shell puts its result through (path.rs).      *)
(***************************************************************************)
EXTENDS Integers, Sequences, SequencesExt, FiniteSets, FiniteSetsExt

-----------------------------------------------------------------------------
(* grep.  A server is what it said it has, which of its answers fail, and    *)
(* its listings; an item of a listing maps its fields to texts; a text is a  *)
(* letter, in either case.                                                   *)

Listings == <<"tools", "resources", "templates", "prompts">>
FieldsOf(listing) ==
    CASE listing = "tools" -> <<"name", "title", "description", "parameter">>
      [] listing = "prompts" -> <<"name", "description", "argument">>
      [] OTHER -> <<"uri", "name", "description", "mimeType">>

Everything == {"tools", "resources", "prompts", "instructions"}
Wanted(flags) == IF flags = {} THEN Everything ELSE flags

Lower(letter) == IF letter = "A" THEN "a" ELSE letter
Matches(pattern, ignoreCase, letter) ==
    IF ignoreCase THEN Lower(pattern) = Lower(letter) ELSE pattern = letter

(* What is asked of a server: what is wanted of what it says it has; the
   templates are asked for beside the resources and may fail alone. *)
Asked(server, wanted) == wanted \cap server.caps

Failed(server, wanted) ==
    "connect" \in server.fails \/ server.fails \cap Asked(server, wanted) # {}

Offered(server, wanted, listing) ==
    IF listing = "templates"
    THEN IF "resources" \in Asked(server, wanted) /\ "templates" \notin server.fails
         THEN server.items["templates"] ELSE <<>>
    ELSE IF listing \in Asked(server, wanted) THEN server.items[listing] ELSE <<>>

(* The first of an item's fields the pattern is in, as its place; 0 is none. *)
FirstField(listing, item, pattern, ignoreCase) ==
    SelectInSeq(FieldsOf(listing), LAMBDA f: Matches(pattern, ignoreCase, item[f]))

Hits(at, server, listing, items, pattern, ignoreCase) ==
    LET found == [i \in DOMAIN items |-> [server |-> at, kind |-> listing, item |-> i,
                                          field |-> FirstField(listing, items[i], pattern, ignoreCase)]]
    IN SelectSeq(found, LAMBDA m: m.field > 0)

(* The instructions are read by the line: the first that matches. *)
Instructed(at, server, wanted, pattern, ignoreCase) ==
    LET line == SelectInSeq(server.instructions, LAMBDA l: Matches(pattern, ignoreCase, l))
    IN IF "instructions" \notin wanted \/ line = 0 THEN <<>>
       ELSE <<[server |-> at, kind |-> "instructions", item |-> 0, field |-> line]>>

Searched(at, server, wanted, pattern, ignoreCase) ==
    FlattenSeq([l \in DOMAIN Listings |->
        Hits(at, server, Listings[l], Offered(server, wanted, Listings[l]), pattern, ignoreCase)])
    \o Instructed(at, server, wanted, pattern, ignoreCase)

(* Every saved server in the store's order; one that fails is skipped; most
   matches, 0 is all.  A target named on the line that fails fails the run. *)
Grep(servers, flags, pattern, ignoreCase, most) ==
    LET wanted == Wanted(flags)
        all == FlattenSeq([i \in DOMAIN servers |->
                  IF Failed(servers[i], wanted) THEN <<>>
                  ELSE Searched(i, servers[i], wanted, pattern, ignoreCase)])
    IN [matches |-> IF most = 0 \/ Len(all) <= most THEN all ELSE SubSeq(all, 1, most),
        skipped |-> {i \in DOMAIN servers: Failed(servers[i], wanted)}]

-----------------------------------------------------------------------------
(* search.  A query is a sequence of words; an entry is the words of its     *)
(* vendor, short name, title and description, the repository it names, when  *)
(* it was published and how it is dialed; names order as numbers.            *)

NameOf(e) == <<e.vendor>> \o e.short
InSome(e, word) == word \in ToSet(NameOf(e)) \cup ToSet(e.title) \cup ToSet(e.description)
MatchesAll(e, words) == \A i \in DOMAIN words: InSome(e, words[i])

HitsIn(field, words) == Cardinality({i \in DOMAIN words: words[i] \in ToSet(field)})
Bit(condition) == IF condition THEN 1 ELSE 0
Dialable(e) == CASE e.dial = "easily" -> 100 [] e.dial = "setup" -> 50 [] OTHER -> 0

Score(e, words) ==
    10000000 * Bit(e.listed)
    + 1000000 * Bit(NameOf(e) = words \/ e.title = words)
    + 100000 * Bit(e.vendor \in ToSet(words))
    + (10000 * HitsIn(e.title, words)) \div Len(words)
    + (1000 * HitsIn(e.short, words)) \div Len(words)
    + Dialable(e) - 10 * Bit(e.crowded)

(* One listing per repository, the newest of those that match, and the first
   of those as new. *)
NewestPerRepository(hits) ==
    LET drop(i) == hits[i].repository # "none" /\ \E j \in DOMAIN hits:
                      /\ j # i
                      /\ hits[j].repository = hits[i].repository
                      /\ \/ hits[j].published > hits[i].published
                         \/ hits[j].published = hits[i].published /\ j < i
        kept == SetToSortSeq({i \in DOMAIN hits: ~drop(i)}, <)
    IN [k \in DOMAIN kept |-> hits[kept[k]]]

Rank(words, entries) ==
    IF words = <<>> THEN <<>>
    ELSE LET hits == NewestPerRepository(SelectSeq(entries, LAMBDA e: MatchesAll(e, words)))
         IN SortSeq(hits, LAMBDA a, b: \/ Score(a, words) > Score(b, words)
                                       \/ Score(a, words) = Score(b, words) /\ a.id < b.id)

-----------------------------------------------------------------------------
(* Paths.  A value is a scalar, an array or an object of values; a path is   *)
(* its characters' tokens: a key, ".", "[]", or an index in brackets.        *)

NotAPath == [ok |-> FALSE, steps |-> <<>>]
Keys == {"a", "b"}

(* The steps so far and the token before: a key stands after a dot, a dot
   before a key, before a bracket or at the end. *)
ParseStep(so, token) ==
    CASE ~so.ok -> so
      [] token = "." -> IF so.before = "." THEN [so EXCEPT !.ok = FALSE] ELSE [so EXCEPT !.before = "."]
      [] token \in Keys -> IF so.before = "." THEN [so EXCEPT !.steps = Append(@, token), !.before = "key"]
                           ELSE [so EXCEPT !.ok = FALSE]
      [] OTHER -> [so EXCEPT !.steps = Append(@, token), !.before = "bracket"]

ParsePath(tokens) ==
    IF tokens = <<>> \/ Head(tokens) # "." THEN NotAPath
    ELSE LET end == FoldLeft(ParseStep, [ok |-> TRUE, steps |-> <<>>, before |-> "start"], tokens)
         IN IF end.ok THEN [ok |-> TRUE, steps |-> end.steps] ELSE NotAPath

(* What one step finds in one value. *)
StepInto(value, step) ==
    CASE step = "[]" -> IF value.is = "scalar" THEN <<>> ELSE value.items
      [] step = "[0]" -> IF value.is = "array" /\ value.items # <<>> THEN <<value.items[1]>> ELSE <<>>
      [] OTHER -> LET at == SelectInSeq(value.keys, LAMBDA k: k = step)
                  IN IF at = 0 THEN <<>> ELSE <<value.items[at]>>

Select(steps, value) ==
    FoldLeft(LAMBDA found, step: FlattenSeq([i \in DOMAIN found |-> StepInto(found[i], step)]), <<value>>, steps)

-----------------------------------------------------------------------------
(* jq: the document goes in from a thread of its own while the answer is     *)
(* read.  unsent counts the document's blocks, a pipe holds one block, and   *)
(* next is what jq does next: it takes a block or the end of its input,      *)
(* gives one, stops reading, or exits.                                       *)

JqStarted(document, next) ==
    [unsent |-> document, stdin |-> 0, reading |-> TRUE, stdout |-> 0, gave |-> 0, next |-> next,
     got |-> 0, done |-> FALSE]

CanFeed(j) == j.unsent > 0 /\ (j.stdin = 0 \/ ~j.reading)
Feed(j) == IF j.reading THEN [j EXCEPT !.unsent = @ - 1, !.stdin = 1] ELSE [j EXCEPT !.unsent = 0]

CanRead(j) == ~j.done /\ j.stdout = 1
ReadOut(j) == [j EXCEPT !.stdout = 0, !.got = @ + 1]

CanEnd(j) == j.next = "exited" /\ j.stdout = 0 /\ j.unsent = 0 /\ ~j.done
End(j) == [j EXCEPT !.done = TRUE]

CanJq(j) == CASE j.next = "take" -> j.stdin = 1 \/ j.unsent = 0
              [] j.next = "give" -> j.stdout = 0
              [] OTHER -> j.next # "exited"

(* jq does what it was about to and turns to the next; one that stops or
   exits reads no more. *)
Jq(j, next) ==
    LET did == CASE j.next = "take" -> [j EXCEPT !.stdin = 0]
                 [] j.next = "give" -> [j EXCEPT !.stdout = 1, !.gave = @ + 1]
                 [] OTHER -> j
        reads == j.reading /\ next \notin {"stop", "exited"}
    IN [did EXCEPT !.next = next, !.reading = reads, !.stdin = IF reads THEN @ ELSE 0]

-----------------------------------------------------------------------------
(* What has to hold *)

(* Every item that holds the pattern anywhere is found once, of every server
   that answers what it says it has; the others are reported, and a server is
   one or the other; a bound keeps the first. *)
SearchIsWhole(servers, flags, pattern, ignoreCase, most) ==
    LET wanted == Wanted(flags)
        answer == Grep(servers, flags, pattern, ignoreCase, most)
        all == Grep(servers, flags, pattern, ignoreCase, 0)
        has(s, l) == s.caps \cap wanted \cap {IF l = "templates" THEN "resources" ELSE l} # {}
                     /\ l \notin s.fails
        holds(item) == \E f \in DOMAIN item: item[f] = pattern \/ (ignoreCase /\ Lower(item[f]) = Lower(pattern))
    IN /\ answer.skipped = {i \in DOMAIN servers: "connect" \in servers[i].fails
                              \/ servers[i].fails \cap servers[i].caps \cap wanted # {}}
       /\ IsPrefix(answer.matches, all.matches)
       /\ Len(answer.matches) = IF most = 0 THEN Len(all.matches)
                                ELSE Min({most, Len(all.matches)})
       /\ {<<m.server, m.kind, m.item>>: m \in {n \in ToSet(all.matches): n.kind # "instructions"}}
            = UNION {{<<i, l, k>>: k \in {n \in DOMAIN servers[i].items[l]: holds(servers[i].items[l][n])}}:
                       i \in DOMAIN servers \ answer.skipped,
                       l \in ToSet(Listings)}
              \cap {t \in (DOMAIN servers) \X ToSet(Listings) \X (1 .. 2): has(servers[t[1]], t[2])}
       /\ IsInjective([i \in DOMAIN all.matches |-> <<all.matches[i].server, all.matches[i].kind, all.matches[i].item>>])

(* The signals in the order the ranking gives them, each of which decides
   before any that follow it. *)
Tiers(e, words) ==
    <<Bit(e.listed), Bit(NameOf(e) = words \/ e.title = words), Bit(e.vendor \in ToSet(words)),
      HitsIn(e.title, words), HitsIn(e.short, words), Dialable(e), Bit(~e.crowded)>>

Before(a, b, words) ==
    LET x == Tiers(a, words)
        y == Tiers(b, words)
    IN \E i \in DOMAIN x: x[i] > y[i] /\ \A k \in 1 .. i - 1: x[k] = y[k]

(* Better signals come first whatever the weaker ones say; each repository
   shows once, as the newest of its listings that match. *)
RanksByTier(words, entries) ==
    LET ranked == Rank(words, entries)
        matching == {e \in ToSet(entries): words # <<>> /\ MatchesAll(e, words)}
    IN /\ \A i, j \in DOMAIN ranked: Before(ranked[i], ranked[j], words) => i < j
       /\ \A e \in matching: \E i \in DOMAIN ranked:
              \/ ranked[i] = e
              \/ e.repository # "none" /\ ranked[i].repository = e.repository
                                       /\ ranked[i].published >= e.published
       /\ \A i, j \in DOMAIN ranked: i # j /\ ranked[i].repository # "none"
                                      => ranked[i].repository # ranked[j].repository
       /\ ToSet(ranked) \subseteq matching

(* A path finds in a value what its first step finds and the rest finds in
   those; what is written with a dot before each key is a path. *)
PathsFind(tokens, value) ==
    LET path == ParsePath(tokens)
        written == <<".">> \o FlattenSeq([i \in DOMAIN path.steps |->
                       IF path.steps[i] \in Keys /\ i > 1 THEN <<".", path.steps[i]>> ELSE <<path.steps[i]>>])
    IN path.ok => /\ ParsePath(written) = path
                  /\ path.steps # <<>> =>
                        LET first == StepInto(value, Head(path.steps))
                        IN Select(path.steps, value)
                             = FlattenSeq([i \in DOMAIN first |-> Select(Tail(path.steps), first[i])])

(* Until jq's answer is had, the feeding thread, the reading one or jq can
   step; then all that jq gave has been read. *)
NobodyWaitsForever(j) ==
    /\ CanFeed(j) \/ CanRead(j) \/ CanEnd(j) \/ CanJq(j) \/ j.done
    /\ j.done => j.got = j.gave
=============================================================================
