----------------------------- MODULE MCFunctions -----------------------------
(* The decisions the program makes without waiting for anybody: each state   *)
(* is one input to one of them, and the invariants say what its result must  *)
(* be.  The inputs are small enough to take every branch together with every *)
(* other, and are named beside the decision they are for.                    *)
EXTENDS Integers, Sequences, SequencesExt, FiniteSets, FiniteSetsExt

A == INSTANCE Arguments
F == INSTANCE Forms
E == INSTANCE Entries
C == INSTANCE Catalogue
L == INSTANCE Checklist
T == INSTANCE CommandLine
H == INSTANCE Hosts
S == INSTANCE Snapshot
R == INSTANCE Results
G == INSTANCE Media
K == INSTANCE Looking
W == INSTANCE Completion
M == INSTANCE Messages
D == INSTANCE Dialing
V == INSTANCE Discovery
U == INSTANCE Tracing
X == INSTANCE Commands
P == INSTANCE Picking

CONSTANT Areas

VARIABLES area, case

vars == <<area, case>>

Undecided == <<>>

Init == area \in Areas /\ case = Undecided

Decide(which) == area = which /\ case = Undecided /\ UNCHANGED area

Upto(set, n) == UNION {[1 .. m -> set]: m \in 0 .. n}

-----------------------------------------------------------------------------
(* Arguments: one parameter k of every shape, and one more that is required. *)

Text(t) == A!Value("string", t)
Specs == {[type |-> t, values |-> <<>>, first |-> "none"]:
              t \in {"none", "string", "integer", "boolean", "array"}}
         \cup {[type |-> "none", values |-> <<>>, first |-> "boolean"],
               [type |-> "string", values |-> <<Text(<<"2">>), Text(<<"a">>)>>, first |-> "none"]}
Schemas == {[props |-> (<<"k">> :> s) @@ (<<"n">> :> [type |-> "integer", values |-> <<>>, first |-> "none"]),
             required |-> r, closed |-> c]:
               s \in Specs, r \in {{}, {<<"k">>}, {<<"k">>, <<"n">>}}, c \in BOOLEAN}
Objects == {<<>>, <<"x">> :> Text(<<"1">>), <<"n">> :> Text(<<"1">>)}
           \cup {<<"k">> :> v:
                          v \in {Text(<<"1">>), Text(<<"a", "=">>), Text(<<"true">>), Text(<<>>),
                                 A!Value("number", <<"1">>), A!Value("boolean", <<"true">>),
                                 A!Value("array", <<"[]">>)}}
Answers == Upto({<<>>, <<"1">>, <<"a">>, <<"y">>, <<"[]">>}, 3)
Characters == {"k", ":", "=", "1", "\"", "@"}

FillCall == Decide("call") /\ \E s \in Schemas, o \in Objects, l \in Answers:
                case' = [schema |-> s, object |-> o, lines |-> l, words |-> <<>>]

ReadWords == Decide("words") /\ \E s \in Schemas, w \in Upto(Characters, 4), v \in {<<>>, <<"n", "=", "1">>}:
                /\ v # <<>> => Len(w) <= 3
                /\ case' = [schema |-> s, object |-> <<>>, lines |-> <<>>,
                            words |-> IF v = <<>> THEN <<w>> ELSE <<w, v>>]

(* A call that was filled in has what its tool requires, keeps what it was
   given and sends each argument as the type it was asked for; the line it is
   echoed as makes it again; and a line of the shell means what the command
   line's words mean, though the schema is only fetched when a pair needs it
   (args.rs, prompt.rs). *)
CallsAreAsWritten ==
    /\ area = "call" /\ case # Undecided =>
         /\ A!FilledIn(case.schema, case.object, A!Fill(case.schema, case.object, case.lines))
         /\ A!EchoIsTheCall(case.schema, case.object, A!AsPairs(case.object, case.schema))
    /\ area = "words" /\ case # Undecided => A!WordsMeanOneThing(case.schema, case.words)

-----------------------------------------------------------------------------
(* Forms: two properties of every type, bounded or not, with and without a   *)
(* default, and one that cannot be filled in.                                *)

Property(type, choices, items, min, max) ==
    [type |-> type, choices |-> choices, items |-> items, min |-> min, max |-> max]
Properties == {Property("string", -1, -1, 2, 3), Property("number", -1, -1, 1, 1),
               Property("integer", -1, -1, -1, 1), Property("boolean", -1, -1, -1, -1),
               Property("string", 2, -1, -1, -1), Property("array", -1, 1, 1, 1),
               Property("array", -1, 2, 2, -1), Property("object", -1, -1, -1, -1)}
Fields == {[type |-> p.type, choices |-> p.choices, items |-> p.items, min |-> p.min, max |-> p.max,
            required |-> r, default |-> d]:
              p \in Properties, r \in BOOLEAN, d \in {F!Absent, F!JsonValue("string", 4, <<>>)}}
GivenValues == {F!Absent, F!JsonValue("string", 2, <<>>), F!JsonValue("number", 2, <<>>),
                F!JsonValue("boolean", 1, <<>>), F!JsonValue("chosen", 2, <<>>),
                F!JsonValue("list", 0, <<2>>), F!JsonValue("list", 0, <<1, 2>>)}
Typing == Upto({"", "1", "2", "0.5", "1,2", "word"}, 2)
Nobody == [given |-> FALSE, values |-> <<>>, asks |-> FALSE, later |-> FALSE]
People == {[Nobody EXCEPT !.asks = a, !.later = l]: a \in BOOLEAN, l \in BOOLEAN}
          \cup {[Nobody EXCEPT !.given = TRUE, !.values = v, !.asks = a]:
                   v \in [1 .. 2 -> GivenValues], a \in BOOLEAN}

AnswerForm == Decide("form") /\ \E f \in Fields, second \in Properties, mode \in {"form", "url", "audio"},
                                  w \in People, l \in Typing:
                /\ w.given \/ ~w.asks \/ mode # "form" => l = <<>>
                /\ case' = [form |-> <<f, [type |-> second.type, choices |-> second.choices,
                                          items |-> second.items, min |-> second.min, max |-> second.max,
                                          required |-> TRUE, default |-> F!Absent]>>,
                             mode |-> mode, who |-> w, lines |-> l]

(* The answer to an elicitation is one its server can use, and offers what
   the handshake offered (elicit.rs). *)
FormsAreAnswered ==
    area = "form" /\ case # Undecided =>
        F!AnswersWhatWasAsked(case.mode, case.mode = "url" /\ case.lines = <<>>, case.form, case.who, case.lines)

-----------------------------------------------------------------------------
(* Entries: a remote or a package, each with pieces of up to two inputs that *)
(* are required or not, with or without a default.                           *)

Input(name, required, default) ==
    [name |-> name, required |-> required, default |-> default, choices |-> {}]
Inputs == {Input("a", TRUE, E!NoValue), Input("b", FALSE, E!NoValue), Input("c", TRUE, "dc"),
           Input("e", TRUE, E!NoValue),
           [Input("d", FALSE, E!NoValue) EXCEPT !.choices = {"x"}]}
Pieces == {<<i>>: i \in Inputs} \cup {p \in {<<i, j>>: i \in Inputs, j \in Inputs}: p[1] # p[2]}
Vars == {<<>>} \cup {<<[text |-> t, required |-> r, default |-> d]>>:
                        t \in {<<>>, <<Input("a", TRUE, E!NoValue)>>}, r \in BOOLEAN, d \in BOOLEAN}
Remotes == {[type |-> t, url |-> u, headers |-> h, sound |-> o]:
              t \in {"streamable-http", "sse"}, u \in {<<>>} \cup Pieces, h \in Vars, o \in BOOLEAN}
Packages == {[kind |-> k, stdio |-> TRUE, runtime |-> r, args |-> a, env |-> e, sound |-> TRUE]:
               k \in {"npm"}, r \in {<<>>} \cup {<<<<i>>>>: i \in Inputs},
               a \in {<<p>>: p \in Pieces}, e \in {<<>>} \cup Vars}
            \cup {[kind |-> "nuget", stdio |-> TRUE, runtime |-> <<>>, args |-> <<>>, env |-> <<>>, sound |-> TRUE]}
RegistryEntries == {[remotes |-> <<r>>, packages |-> <<>>]: r \in Remotes}
                   \cup {[remotes |-> <<>>, packages |-> <<p>>]: p \in Packages}
ArgValues == Upto({"x", "y"}, 3)

ConvertEntry == Decide("entry") /\ \E e \in RegistryEntries, g \in ArgValues, t \in {"http", "stdio"}:
                    case' = [entry |-> e, given |-> g, transport |-> t]

(* What add saves of a registry entry is whole, holds the values given in the
   order they were given, and is of the transport the catalog promised; what
   browse saves is whole, unless filling one blank in uncovers another
   (registry.rs, catalog.rs, browse.rs). *)
EntriesAreSavedWhole ==
    area = "entry" /\ case # Undecided =>
        /\ E!SavedIsWhole(case.entry, E!Add(case.entry, "any", case.given))
        /\ E!ValuesInOrder(E!Add(case.entry, "any", case.given), case.given)
        /\ E!PromiseKept(case.transport, case.entry,
                         E!Convert(case.entry, E!CatalogPick(case.transport, case.entry), case.given))
        /\ E!BrowseSavesWhole(case.entry, E!Convert(case.entry, "any", <<>>),
                              E!SaveOne(case.entry, "any", "x", "y"))

-----------------------------------------------------------------------------
(* The catalogue: two names updated and deleted over four changes, synced    *)
(* three times from one of two registries; a listing read in two pages; and  *)
(* the catalog's own sources.                                                *)

Histories == [1 .. 3 -> [name: {"s", "t"}, deleted: BOOLEAN]]
OneSync(now) == [mode: {"auto", "refresh", "offline"}, base: {"r1", "r2"}, now: {now}, answered: BOOLEAN]

SyncThrice == Decide("sync") /\ \E h \in Histories, s1 \in {s \in OneSync(1) : s.mode = "auto"}, s2 \in OneSync(2), s3 \in OneSync(3):
                  case' = [history |-> h, syncs |-> <<s1, s2, [s3 EXCEPT !.now = 3]>>]

ReadPages == Decide("pages") /\ \E h \in [1 .. 4 -> [name: {"s", "t"}, deleted: BOOLEAN]], t, u \in 1 .. 4:
                  t <= u /\ case' = [history |-> h, times |-> <<t, u>>]

LoadCatalog == Decide("load") /\ \E file \in BOOLEAN, good \in BOOLEAN, offline \in BOOLEAN,
                                    from \in {"u", "v"}, age \in 0 .. 2, sound \in BOOLEAN,
                                    fetched \in {"good", "bad", "none"}:
                  case' = [source |-> [file |-> file, url |-> "u", good |-> good], offline |-> offline,
                           cache |-> [source |-> from, age |-> age, good |-> sound], fetched |-> fetched]

(* A search runs over what its registry held when the copy was last brought
   up to date, and the copy is no older than the sync it was asked for allows;
   what changed while its pages were read is in the next one, unless it changed
   behind the reader and before what the reader came to;
   the catalog is the one its source names (registry.rs, catalog.rs). *)
CopiesAreHonest ==
    /\ area = "sync" /\ case # Undecided => C!SyncsAreHonest(case.history, case.syncs)
    /\ area = "pages" /\ case # Undecided => C!PagesAreWhole(case.history, <<"s", "t">>, case.times, 4)
    /\ area = "load" /\ case # Undecided =>
            C!LoadsWhatWasNamed(case.source, case.offline, case.cache, case.fetched)

-----------------------------------------------------------------------------
(* The checklist: four entries in two categories, one of them saved, and a  *)
(* screen of two rows.                                                       *)

Item(key, category, words, installed) ==
    [key |-> key, category |-> category, words |-> words, installed |-> installed, wanted |-> "q"]
Items == <<Item("p", "docs", <<"j", "a">>, "p"), Item("q", "docs", <<"b">>, L!Nowhere),
           Item("r", "web", <<"a", "b">>, L!Nowhere), Item("s", "web", <<"a">>, "old")>>
Keys == {"up", "down", "space", "/", "enter", "esc", "backspace", "a", "j"}
FilterLength == 3

Browse == Decide("browse") /\ case' = L!Opened(Items)

PressKey == /\ area = "browse" /\ case # Undecided /\ case.p.done = "no"
            /\ UNCHANGED area
            /\ \E k \in Keys: /\ k \in {"a", "j", "/"} => Len(case.p.filter) < FilterLength
                              /\ case' = L!Pressed(Items, case, k, 2)

(* Rows of three entries, servers saved from them, and marks made in fzf.     *)
RowEntries == {[id |-> i, registry |-> r]: i \in {"", "e", "f"}, r \in {"", "r"}} \ {[id |-> "", registry |-> ""]}
SavedFrom(n) == {[name |-> n, id |-> i, registry |-> r]: i \in {"", "e"}, r \in {"", "r"}}
MarkRows == Decide("marks") /\ \E e \in [1 .. 3 -> RowEntries], s \in SavedFrom("m") \X SavedFrom("n"), m \in SUBSET (1 .. 3),
                                 c \in {0, 1, 2}:
                case' = [entries |-> e, servers |-> s, marked |-> m, code |-> c]

DeclareNeeds == Decide("needs") /\ \E p, r \in Upto(Upto(BOOLEAN, 2), 2): case' = [packages |-> p, remotes |-> r]
BrowseWith == Decide("browse with") /\ \E w \in [{"preview", "all", "fzf", "interactive", "rich", "loads"} -> BOOLEAN]: case' = w

(* Applying: two entries that would have one name, on a store that has it or  *)
(* not, while other commands save and remove servers twice.                   *)
Stores == {("p" :> "p") @@ ("old" :> "s"), ("p" :> "p") @@ ("q" :> "mine") @@ ("old" :> "s")}
TouchedNames == {"q", "q-2", "old"}
MaxTouches == 2

StartApplying == Decide("apply") /\ \E checked \in [DOMAIN Items -> BOOLEAN], before \in Stores:
                     case' = [checked |-> checked, acts |-> 0, on |-> L!Apply(Items, checked, before)]

KeepApplying == /\ area = "apply" /\ case # Undecided /\ case.on.stage # "done" /\ UNCHANGED area
                /\ \E on \in L!Goes(Items, case.on): case' = [case EXCEPT !.on = on]

ActElsewhere == /\ area = "apply" /\ case # Undecided /\ case.acts < MaxTouches /\ UNCHANGED area
                /\ \E n \in TouchedNames: \E on \in {L!SavedElsewhere(case.on, n), L!RemovedElsewhere(case.on, n)}:
                       case' = [case EXCEPT !.on = on, !.acts = @ + 1]

(* Keys act on the row a person sees, and applying the checklist adds what
   was ticked and removes, by name, what was unticked and agreed on, and changes
   nothing else that other commands made of the servers meanwhile, except a
   server saved under a name between its being found free and its being taken
   (browse.rs). *)
ChecklistIsApplied ==
    /\ area = "browse" /\ case # Undecided => L!ActsOnWhatIsSeen(case)
    /\ area = "apply" /\ case # Undecided => L!AppliesWhatWasTicked(Items, case.checked, case.on)
    /\ area = "marks" /\ case # Undecided =>
         LET rows == L!Rows(case.entries, case.servers)
             ticked == [i \in DOMAIN rows |-> rows[i].installed # L!Nowhere]
         IN /\ L!MarksAreReadBack(rows, ticked, case.marked, case.code)
            /\ L!ReopensAsLeft(case.entries, case.servers, [i \in DOMAIN rows |-> ticked[i] # (i \in case.marked)])
    /\ area = "needs" /\ case # Undecided => L!NeedsAreShown(case)
    /\ area = "browse with" /\ case # Undecided => L!PicksWhereItCan(case)

-----------------------------------------------------------------------------
(* Texts: command lines of two words, placeholders of five characters, and   *)
(* files of four lines.                                                      *)

WordCharacters == {"a", " ", "'", "\"", "\\", "$"}
TextCharacters == {"$", "{", "}", ":-", "a"}
Environments == {<<>>, <<"a">> :> <<"$", "{", "a", "}">>, <<"a">> :> <<>>}
Headers == {T!Header(<<"mcp_servers", "s">>), T!Header(<<"mcp_servers", "s", "env">>),
            T!Header(<<"mcp_servers", "t">>), T!Header(<<"mcp_servers">>), T!Header(<<"ui">>)}
FileLines == Headers \cup {T!Key(<<"command">>, 1), T!Key(<<"k">>, 1), T!Key(<<"s", "k">>, 1)}

SaveCommand == Decide("command") /\ \E first \in Upto(WordCharacters, 3), second \in Upto(WordCharacters, 2):
                   case' = <<first, second>>

FillText == Decide("text") /\ \E text \in Upto(TextCharacters, 5), env \in Environments:
                case' = [text |-> text, env |-> env]

WriteString == Decide("string") /\ case' \in Upto({"a", "\"", "\\", "newline", "bell", "n"}, 4)

MergeCodex == Decide("codex") /\ \E lines \in Upto(FileLines, 4), env \in BOOLEAN:
                  case' = [lines |-> lines, env |-> env]

(* A text written by one part of the program is read by another as what it
   was: a command line as its words, an escaped placeholder as itself, a
   merged Codex file as its servers (import_config.rs, export_config.rs,
   stdio.rs, config.rs). *)
TextsReadBack ==
    /\ area = "command" /\ case # Undecided => T!SplitsAsJoined(case)
    /\ area = "text" /\ case # Undecided => T!FillsOnce(case.text, case.env)
    /\ area = "string" /\ case # Undecided => T!ReadsAsWritten(case)
    /\ area = "codex" /\ case # Undecided => T!MergesOneServer(case.lines, "s", 2, case.env)

-----------------------------------------------------------------------------
(* Hosts: a server of either transport with one of each of its parts, and    *)
(* two files of two entries under two names.                                 *)

Plain == <<H!Piece("text", "x")>>
Asks == <<H!Piece("text", "x"), H!Piece("input", "a-b")>>
Texts == {Plain, Asks}
HttpServers == {[H!NoServer EXCEPT !.http = u, !.headers = h, !.tokenEnv = t, !.timeout = s]:
                  u \in Texts, h \in {<<>>, "Authorization" :> Plain, "X" :> Asks},
                  t \in {"none", "VAR"}, s \in {0, 30}}
StdioServers == {[H!NoServer EXCEPT !.stdio = a, !.env = e, !.cwd = d, !.timeout = s]:
                   a \in {<<Plain>>, <<Plain, Asks>>}, e \in {<<>>, "K" :> Plain, "K" :> Asks},
                   d \in {H!Nothing, Plain, Asks}, s \in {0, 30}}
HostEntries == {H!ToHostEntry(c): c \in StdioServers} \cup {"type" :> "none"}
OneEntry == {<<[name |-> n, entry |-> e]>>: n \in {"s", "t"}, e \in {"command" :> <<Plain>>, "command" :> <<Asks>>}}
HostFiles == {[H!NoDoc EXCEPT !.mcpServers = m, !.project = p]: m \in {<<>>} \cup OneEntry, p \in {<<>>} \cup OneEntry}
Kept == [H!NoServer EXCEPT !.stdio = <<Plain, Plain>>]

ExportServer == Decide("export") /\ \E c \in {d \in HttpServers \cup StdioServers: H!InputsOf(d) = {}},
                                     f \in {"mcpservers", "vscode", "codex"}:
                    case' = [config |-> c, format |-> f]

ImportFiles == Decide("import") /\ \E one \in HostFiles, two \in HostFiles, force \in BOOLEAN, invalid \in {{}, {"t"}}:
                   case' = [docs |-> <<one, two>>, force |-> force, invalid |-> invalid]

ImportVsCode == Decide("vscode") /\ \E e \in HostEntries, f \in {<<>>, "K" :> "secret", "L" :> "secret"}:
                    case' = [H!NoDoc EXCEPT !.servers = <<[name |-> "s", entry |-> e]>>, !.envFile = f]

(* What export writes is read back as the same server; import overwrites
   nothing it was not told to, and saves what can be dialed from here
   (import_config.rs, export_config.rs, cmd/servers.rs). *)
HostsAreRead ==
    /\ area = "export" /\ case # Undecided => H!ReadsBack("s", case.config, case.format)
    /\ area = "import" /\ case # Undecided => H!ImportsSafely("s" :> Kept, case.docs, case.force, case.invalid)
    /\ area = "vscode" /\ case # Undecided => H!DialableHere(case)

-----------------------------------------------------------------------------
(* Snapshots: one tool of two properties that are there or not, of either    *)
(* type, and another that comes or goes.                                     *)

Tool(name, props, required, more) ==
    [name |-> name, props |-> props, required |-> required, closed |-> more = "closed", other |-> more]
PropertyMaps == UNION {[d -> {"string", "integer"}]: d \in SUBSET {"a", "b"}}
ToolsNow == {Tool(1, p, r, o): p \in PropertyMaps, r \in SUBSET {"a", "b"}, o \in {"plain", "closed", "other"}}
Second == Tool(2, "a" :> "string", {"a"}, "other")
ToolLists == {<<t>>: t \in ToolsNow} \cup {<<Second, t>>: t \in ToolsNow} \cup {<<Second>>, <<>>}
Snapshots == {<<t>>: t \in ToolsNow} \cup {<<t, Second>>: t \in {u \in ToolsNow: u.other = "plain"}}

CompareLists == Decide("snapshot") /\ \E was \in Snapshots, now \in ToolLists:
                    case' = [was |-> was, now |-> now]

(* What passes a check still takes the calls written for the snapshot, and a
   server passes its own (snapshot.rs). *)
ChecksKeepThePromise ==
    area = "snapshot" /\ case # Undecided =>
        \A strict \in BOOLEAN: /\ S!KeepsThePromise(case.was, case.now, strict)
                               /\ S!ChecksAgree(case.was, case.now, strict)

-----------------------------------------------------------------------------
(* Results: up to five of a session's, and its --output file, which another  *)
(* process may make first.                                                   *)

Longest == 5
Weights == {1, 2, 5}

StartSession == Decide("results") /\ R!Reserve(R!Started.file)
                /\ case' = [s |-> R!Started, weights |-> <<>>, calls |-> <<>>, theirs |-> FALSE]

InSession == area = "results" /\ case # Undecided /\ UNCHANGED area

PrintResult == InSession /\ Len(case.weights) < Longest
               /\ \E w \in Weights: case' = [case EXCEPT !.s = R!Record(@, w), !.weights = Append(@, w)]

SendCall == InSession /\ Len(case.calls) < 3
            /\ \E t \in {"t", "u"}: case' = [case EXCEPT !.s = R!Sending(@, t), !.calls = Append(@, t)]

WriteOutput == InSession /\ Len(case.weights) < 2 /\ case.calls = <<>>
               /\ \E b \in R!Outputs, room \in BOOLEAN: case' = [case EXCEPT !.s = R!Write(@, b, room).s]

AnotherWrites == InSession /\ case.s.file = R!NoFile /\ Len(case.weights) < 2 /\ case.calls = <<>>
                 /\ case' = [case EXCEPT !.s.file = "theirs", !.theirs = TRUE]

CutPayload == Decide("payload") /\ \E bodies \in Upto({[is |-> i, chars |-> c]: i \in {"text", "bytes"}, c \in 0 .. 3}, 2),
                                    limit \in 0 .. 6:
                  case' = [bodies |-> bodies, limit |-> limit]

(* And media: two blocks of a result, beside files that are there already.   *)

Mimes == {[subtype |-> s, plain |-> p]: s \in {"jpeg", "png"}, p \in {TRUE}} \cup {[subtype |-> "x+y", plain |-> FALSE]}
MediaBlocks == {[type |-> t, text |-> FALSE, payload |-> p, mime |-> m]:
                  t \in {"image", "resource"}, p \in {"none", "bad", "one"}, m \in Mimes}
ToolBlocks == {b \in MediaBlocks: b.type = "resource" \/ b.payload # "none"}
              \cup {[type |-> t, text |-> t = "text", payload |-> "none", mime |-> [subtype |-> "png", plain |-> TRUE]]:
                      t \in {"text", "resource_link"}}
ResourceEntries == {[type |-> "none", text |-> x, payload |-> IF x THEN "none" ELSE p, mime |-> m]:
                      x \in BOOLEAN, p \in {"none", "bad", "one", "two"}, m \in Mimes}
MediaResults == {[kind |-> k, blocks |-> b, structured |-> s]:
                   k \in {"tool", "prompt"}, b \in Upto(ToolBlocks, 2), s \in BOOLEAN}
                \cup {[kind |-> "resource", blocks |-> b, structured |-> FALSE]: b \in Upto(ResourceEntries, 2)}
Stem == <<"a">>
Saved == {[f \in {<<Stem, n, x>>: n \in ns} |-> "theirs"]: ns \in SUBSET (1 .. 3), x \in {"jpg", "png"}}

SaveMedia == Decide("media") /\ \E r \in MediaResults, j \in BOOLEAN, d \in Saved, f \in BOOLEAN:
                 case' = [result |-> r, json |-> j, dir |-> d, save |-> [files |-> f, stem |-> Stem]]

NameFile == Decide("stem") /\ \E n \in Upto({"a", ".", "/", "?", " "}, 5): case' = [name |-> n]

(* The numbers on the screen name the results they were printed with, retry
   sends the newest call, and what goes to a file or is cut is all of it or
   says that it is not (history.rs, output.rs, media.rs). *)
ResultsAreFound ==
    /\ area = "results" /\ case # Undecided =>
         /\ R!HoldsTheLast(case.s, case.weights)
         /\ R!RetriesTheNewest(case.s, case.calls)
         /\ R!WritesItsOwn(case.s, case.theirs)
    /\ area = "payload" /\ case # Undecided => R!CutsWhatIsText(case.bodies, case.limit)
    /\ area = "media" /\ case # Undecided =>
         /\ G!FilesAreNew(case.result, case.json, case.dir, case.save)
         /\ G!FailsWhereMangled(case.result, case.json, case.dir, case.save)
         /\ G!NothingIsDropped(case.result, case.json, case.dir, case.save)
    /\ area = "stem" /\ case # Undecided => G!NamesStayInside(case.name)

-----------------------------------------------------------------------------
(* Looking: a healthy server beside one that has, and fails, any of its      *)
(* parts; three entries of the registry; paths of four tokens; and jq.       *)

OneHit(at, letter) ==
    [l \in ToSet(K!Listings) |->
        <<[f \in ToSet(K!FieldsOf(l)) |-> IF f = K!FieldsOf(l)[at] THEN letter ELSE "b"],
          [f \in ToSet(K!FieldsOf(l)) |-> "b"]>>]
Healthy == [caps |-> K!Everything, fails |-> {}, items |-> OneHit(2, "a"), instructions |-> <<"b", "a">>]
Parts == {"tools", "resources", "prompts"}
Partial == {[caps |-> c, fails |-> f, items |-> OneHit(n, l), instructions |-> <<l>>]:
              c \in SUBSET Parts, f \in SUBSET (Parts \cup {"connect", "templates"}), n \in 1 .. 3, l \in {"a", "A"}}

GrepServers == Decide("grep") /\ \E s \in Partial, flags \in {{}, {"tools"}, {"resources", "instructions"}},
                                      pattern \in {"a", "A"}, ignore \in BOOLEAN:
                   case' = [servers |-> <<Healthy, s>>, flags |-> flags, pattern |-> pattern, ignore |-> ignore]

Entry(id, vendor, short, title, place, kind) ==
    [id |-> id, vendor |-> vendor, short |-> short, title |-> title, description |-> <<"g", "h">>,
     repository |-> place.repository, published |-> place.published,
     dial |-> kind.dial, listed |-> kind.listed, crowded |-> kind.crowded]
Places == {[repository |-> "none", published |-> 1]} \cup {[repository |-> "r", published |-> n]: n \in 1 .. 2}
Kinds == {[dial |-> "easily", listed |-> FALSE, crowded |-> FALSE], [dial |-> "none", listed |-> TRUE, crowded |-> FALSE],
          [dial |-> "setup", listed |-> FALSE, crowded |-> TRUE]}
Entries3(id) == {Entry(id, v, s, t, p, k): v \in {"g", "v"}, s \in {<<"g">>, <<"x">>},
                                           t \in {<<>>, <<"h">>, <<"g", "h">>}, p \in Places, k \in Kinds}
Mirror == Entry(3, "m", <<"g">>, <<>>, [repository |-> "r", published |-> 1],
                [dial |-> "easily", listed |-> FALSE, crowded |-> TRUE])

SearchEntries == Decide("search") /\ \E one \in Entries3(1), two \in Entries3(2):
                     case' = <<one, Mirror, two>>

Scalar == [is |-> "scalar", keys |-> <<>>, items |-> <<>>]
Nested == {Scalar, [is |-> "array", keys |-> <<>>, items |-> <<Scalar, Scalar>>],
           [is |-> "object", keys |-> <<"a">>, items |-> <<Scalar>>]}
Values == Nested \cup {[is |-> "array", keys |-> <<>>, items |-> <<x, y>>]: x \in Nested, y \in Nested}
          \cup {[is |-> "object", keys |-> <<"a", "b">>, items |-> <<x, y>>]: x \in Nested, y \in Nested}

FollowPath == Decide("path") /\ \E tokens \in Upto(K!Keys \cup {".", "[]", "[0]"}, 5):
                  case' = tokens

MostGiven == 4
RunJq == Decide("jq") /\ \E n \in 0 .. 3, next \in {"take", "give"}: case' = K!JqStarted(n, next)
InJq == area = "jq" /\ case # Undecided /\ UNCHANGED area
JqSteps == InJq /\ \/ K!CanFeed(case) /\ case' = K!Feed(case)
                   \/ K!CanRead(case) /\ case' = K!ReadOut(case)
                   \/ K!CanEnd(case) /\ case' = K!End(case)
JqItself == InJq /\ K!CanJq(case)
            /\ \E next \in {"take", "give", "stop", "exited"}:
                  /\ next = "give" => K!Jq(case, next).gave < MostGiven
                  /\ next = "take" => case.reading
                  /\ case' = K!Jq(case, next)

(* A search over servers and one over the registry find everything there is,
   in the order that is promised; a path names what it says; and a filter's
   program and the program that feeds it never wait for each other (grep.rs,
   search.rs, path.rs). *)
LooksThroughAll ==
    /\ area = "grep" /\ case # Undecided =>
         \A most \in 0 .. 2: K!SearchIsWhole(case.servers, case.flags, case.pattern, case.ignore, most)
    /\ area = "search" /\ case # Undecided =>
         \A words \in {<<>>, <<"g">>, <<"g", "h">>, <<"v", "x">>}: K!RanksByTier(words, case)
    /\ area = "path" /\ case # Undecided => \A v \in Values: K!PathsFind(case, v)
    /\ area = "jq" /\ case # Undecided => K!NobodyWaitsForever(case)

-----------------------------------------------------------------------------
(* Completion: two properties and an object with one, and templates of four *)
(* pieces.                                                                   *)

Leaf(values) == [values |-> values, props |-> <<>>]
CallSchema == ("a" :> Leaf({"x"})) @@ ("ab" :> Leaf({"x", "a"}))
              @@ ("n" :> [values |-> {}, props |-> ("a" :> Leaf({"x"})) @@ ("ab" :> Leaf({}))])
Tokens == {"{", "}", "[", ":", ",", "a", "ab", "n", "x"}
Began(tokens) == W!Begin(tokens, CallSchema).ok
Unreadable == 4

PressTab == Decide("tab") /\ case' = [tokens |-> <<>>]
TypeToken == /\ area = "tab" /\ case # Undecided /\ UNCHANGED area
             /\ \E t \in Tokens: LET typed == Append(case.tokens, t)
                                IN /\ Began(typed) \/ Len(typed) < Unreadable
                                   /\ case' = [tokens |-> typed]

Templates == {t \in Upto({W!Text(<<"/">>), W!Text(<<"/", "y">>), W!Text(<<"y">>), W!Variable("v")}, 4):
                 t # <<>> /\ \A i \in 1 .. Len(t) - 1: t[i].is = "text" => t[i + 1].is = "variable"}
FollowTemplate == Decide("template") /\ \E template \in Templates, typed \in Upto({"x", "/", "y"}, 4):
                      case' = [template |-> template, typed |-> typed]

(* What Tab writes goes on being what the line was the beginning of
   (complete.rs). *)
TabGoesOn ==
    /\ area = "tab" /\ case # Undecided =>
         \A typing \in {W!Nothing, "", "a", "ab", "x"}: W!OffersWhatFits(case.tokens, typing, CallSchema)
    /\ area = "template" /\ case # Undecided =>
         \A values \in [1 .. Cardinality({i \in DOMAIN case.template: case.template[i].is = "variable"})
                          -> {<<>>, <<"x">>, <<"x", "x">>, <<"/">>}]:
             W!FollowsTheTemplate(case.template, case.typed, values)

-----------------------------------------------------------------------------
(* Messages: rounds against every short script of results, listings over     *)
(* every graph of three cursors, and every short stream.                     *)

Sessions == {[modern |-> m, answering |-> a, serves |-> IF a THEN {"elicit"} ELSE {}]: m \in BOOLEAN, a \in BOOLEAN}
GivenParams ==
    {M!NoParams, M!EmptyObject, [M!NoParams EXCEPT !.kind = "list"],
     [M!EmptyObject EXCEPT !.fields = ("name" :> {"t"}) @@ ("requestState" :> {"own"})],
     [M!EmptyObject EXCEPT !.metaKind = "text"],
     [M!EmptyObject EXCEPT !.metaKind = "object", !.meta = "progressToken" :> 9],
     [M!EmptyObject EXCEPT !.metaKind = "object", !.meta = "protocolVersion" :> "own"]}
RoundResults == {M!Final, [M!Final EXCEPT !.state = "s1"]}
                \cup {[demand |-> TRUE, asks |-> a, state |-> s]:
                        a \in {<<>>, "k1" :> "elicit", "k2" :> "elicit", "k1" :> "sample"}, s \in {"none", "s1"}}

GoRound == Decide("rounds") /\ \E s \in Sessions, p \in GivenParams, w \in BOOLEAN,
                                 r \in Upto(RoundResults, 3) \ {<<>>}:
               case' = [session |-> s, params |-> p, wants |-> w, results |-> r]

ListPages == Decide("listing") /\ \E next \in [0 .. 3 -> -1 .. 3], most \in 1 .. 5:
                 /\ 0 \notin {next[c]: c \in 0 .. 3}
                 /\ case' = [pages |-> [c \in 0 .. 3 |-> [items |-> <<c>>, next |-> next[c]]], most |-> most]

StreamMessages == {M!Reply(1, 1), M!NullError, M!Note(1), M!Ask(1), M!NotJson}
StreamLines == {[kind |-> "blank"], [kind |-> "other"], [kind |-> "data", part |-> "empty"]}
               \cup {[kind |-> "data", part |-> p, of |-> m]:
                       p \in {"whole"}, m \in StreamMessages}
               \cup {[kind |-> "data", part |-> p, of |-> m]:
                       p \in {"head", "tail"}, m \in {M!Reply(1, 1), M!Note(1)}}

ReadReply == Decide("stream") /\ \E lines \in Upto(StreamLines, 4), most \in 1 .. 2:
                 case' = [lines |-> lines, most |-> most]

HearNotice == Decide("notice") /\ \E m \in M!ListMethods \cup {"progress", "message", "resources/updated",
                                                "subscriptions/acknowledged", "cancelled"},
                                   own \in 0 .. 2, token \in 0 .. 2, whole \in BOOLEAN, l \in {"error", "shouty"},
                                   t \in Upto({"a", " ", "\n", "\r", "\t"}, 3):
                  case' = [message |-> [method |-> m, token |-> token, number |-> whole, uri |-> whole, level |-> l],
                           token |-> own, text |-> t]

HeaderLetters == {"a", "e'", " ", "=?base64?", "?=", "="}
SendHeaders == Decide("header") /\ \E m \in {"tools/call", "resources/read", "tools/list"},
                                    f \in {"name", "uri"}, v \in Upto(HeaderLetters, 4),
                                    meta \in {<<>>, "protocolVersion" :> "2026-07-28"}:
                   case' = [method |-> m, params |-> [M!EmptyObject EXCEPT !.fields = f :> v, !.meta = meta]]

Chunks == Upto({"event:", "endpoint", "x", "\n"}, 2) \ {<<>>}
ProbeStream == Decide("probe") /\ \E c \in Upto(Chunks, 3), limit \in 1 .. 5:
                   case' = [chunks |-> c, limit |-> limit]

ReadValues == Decide("values") /\ \E v \in Upto(0 .. 2, 4), claimed \in BOOLEAN, most \in 1 .. 3:
                  case' = [values |-> v, claimed |-> claimed, most |-> most]

(* A request says what its caller and the last demand gave it, a listing reads
   every page once, and a reply means the same whether it is read as it comes
   or whole (session.rs, protocol.rs, notify.rs, transport/http.rs). *)
MessagesAreWhole ==
    /\ area = "rounds" /\ case # Undecided =>
         M!RoundsAreAnswered(case.session, case.params, case.wants, case.results)
    /\ area = "listing" /\ case # Undecided => M!PagesAreReadOnce(case.pages, case.most)
    /\ area = "stream" /\ case # Undecided => M!StreamIsItsBody(case.lines, case.most)
    /\ area = "notice" /\ case # Undecided => M!NoticesAreOurs(case.message, case.token, case.text)
    /\ area = "header" /\ case # Undecided => M!HeadersReadBack(case.method, case.params)
    /\ area = "probe" /\ case # Undecided => M!EndpointIsSeen(case.chunks, case.limit)
    /\ area = "values" /\ case # Undecided => M!CompletionIsCounted(case.values, case.claimed, case.most)

-----------------------------------------------------------------------------
(* Dialing: every short pattern and name, two lists, every config of two     *)
(* fields, and every server with every credential and every refusal.         *)

MatchGlob == Decide("glob") /\ \E p \in Upto({"a", "b", "*", "?"}, 4), n \in Upto({"a", "b"}, 5):
                 case' = [pattern |-> p, name |-> n]

Patterns == {<<"a">>, <<"*">>, <<"a", "*">>, <<" ", "b">>, <<" ">>}
ToolNames == {<<"a">>, <<"b">>, <<"a", "b">>}
FilterTools == Decide("lists") /\ \E a \in Upto(Patterns, 2), d \in Upto(Patterns, 2), t \in Upto(ToolNames, 2):
                   case' = [lists |-> [allow |-> a, deny |-> d], tools |-> t]

ReadHeader == Decide("headers") /\ \E i \in Upto({"a", ":", " "}, 5): case' = [item |-> i]

FieldTexts == Upto({D!Word("http://"), D!Word("a"), D!Word(" "), D!Word("/"), D!Reference("V", FALSE),
                    D!Reference("W", TRUE)}, 2) \ {<<>>}
FillConfig == Decide("fill") /\ \E f \in {"http", "stdio"}, t \in FieldTexts, h \in FieldTexts,
                                   e \in SUBSET {"V", "W"}:
                  case' = [config |-> [fields |-> (f :> t) @@ ("headers" :> h)],
                           env |-> [v \in e |-> "set"]]

SavedCredentials == {[kind |-> "none", token |-> "none", expired |-> FALSE, refreshes |-> FALSE]}
    \cup [kind : {"oauth"}, token : {"none", "old"}, expired : BOOLEAN, refreshes : BOOLEAN]
Refusals == {D!Refusal(k, c): k \in {"401", "403", "500"}, c \in BOOLEAN}
            \cup {D!Refusal(k, FALSE): k \in {"retired", "unreachable", "rpc"}}
Behaving == {[stdio |-> FALSE, accepts |-> a, refuses |-> r, grants |-> g]:
               a \in {{}, {"none"}, {"old", "env"}, {"renewed"}}, r \in Refusals, g \in BOOLEAN}
            \cup {[stdio |-> TRUE, accepts |-> a, refuses |-> D!Refusal("unreachable", FALSE), grants |-> FALSE]:
               a \in {{}, {"socket"}, {"process"}}}
Setting(v, t, e) == [version |-> v, timeout |-> t, expands |-> e]
Settings == {Setting("none", "none", TRUE), Setting("unknown", "none", TRUE), Setting("known", "negative", TRUE),
             Setting("none", "seconds", FALSE)}
Targets == [name : {"saved", ""}, form : {"http", "stdio"}, empty : {FALSE}]
Known(target) == D!Resolve("saved" :> [kind |-> target.form], target).saved
DialServer == Decide("dial") /\ \E b \in Behaving, c \in SavedCredentials, s \in Settings,
                                   t \in {"none", "env", "unset"},
                                   f \in {"none", "known"}, e \in {"none", "env"}, n \in BOOLEAN,
                                   lists \in BOOLEAN, target \in Targets:
    /\ n => b.stdio
    /\ target.form = "stdio" <=> b.stdio
    /\ ~Known(target) => /\ c.kind = "none" /\ t = "none" /\ s = Setting("none", "none", TRUE)
    /\ case' = [server |-> [stdio |-> b.stdio, accepts |-> b.accepts, refuses |-> b.refuses, grants |-> b.grants,
                            credential |-> c, tokenEnv |-> t, version |-> s.version, timeout |-> s.timeout,
                            expands |-> s.expands, saved |-> Known(target), daemon |-> lists, lists |-> lists],
                flags |-> [version |-> f, timeout |-> IF f = "none" THEN f ELSE "seconds", tokenEnv |-> e, noDaemon |-> n]]

ProbeRecords == [key : {1, 2}, status : {"unread", "connected"}, auth : {"none"}, checked : {0, 200, 900}]
ListServer == Decide("rows") /\ \E r \in {{}} \cup {{p}: p \in ProbeRecords}, now \in {100, 400, 500, 2000},
                                   f \in {"connected", "error"}, live \in BOOLEAN:
                  case' = [records |-> r, now |-> now, fresh |-> [status |-> f, auth |-> "saved"], live |-> live]

(* A server is dialed as it was saved, and what is shown of it is what it did
   (config.rs, validate.rs, client.rs). *)
DialsAsSaved ==
    /\ area = "glob" /\ case # Undecided => D!GlobIsItsPattern(case.pattern, case.name)
    /\ area = "lists" /\ case # Undecided => D!ListsAgree(case.lists, case.tools)
    /\ area = "headers" /\ case # Undecided => D!HeaderIsWhole(case.item)
    /\ area = "fill" /\ case # Undecided => D!DialsWhatWasSaved(case.config, case.env)
    /\ area = "dial" /\ case # Undecided => D!StatusIsTheirs(case.server, case.flags)
    /\ area = "rows" /\ case # Undecided =>
         D!RowsAreOfThisServer(case.records, 1, case.now, case.fresh, case.live)

-----------------------------------------------------------------------------
(* Discovery: a server with a path or none, a hint or none, three answers to *)
(* each address, and a form, a challenge and an address of few characters.   *)

Servers == [origin : {"auth"}, path : {"", "p"}, slash : BOOLEAN]
ResourceDocuments == [servers : {<<>>} \cup {<<s>>: s \in Servers}, scopes : {{}, {"read"}}]
ServerDocuments == [token : {"", "token"}, issuer : {V!NotStated} \cup Servers, scopes : {{"all"}}]
Once(r) == <<r, "missing">>
Answering == {Once("document"), Once("missing"), <<"busy", "document">>, <<"cut", "busy">>, <<"unreachable", "unreachable">>}
Lately == {Once("document"), Once("missing"), <<"cut", "busy">>}
Hint == V!Address("mcp", "hint", "")
FindServer == Decide("discover") /\ \E path \in {"", "p"}, hint \in {<<>>, <<Hint>>}, d \in ResourceDocuments,
                                       m \in ServerDocuments, a \in Answering, b \in Lately, s \in Answering, o \in Lately:
    LET mcp == [origin |-> "mcp", path |-> path]
        issuer == IF d.servers = <<>> THEN [origin |-> "mcp", path |-> "", slash |-> FALSE] ELSE d.servers[1]
        first == Head(V!ResourceUrls(mcp, hint))
        asked == ToSet(V!ResourceUrls(mcp, hint)) \cup ToSet(V!ServerUrls(issuer))
    IN case' = [mcp |-> mcp, hint |-> hint,
                net |-> [u \in asked |->
                    [document |-> IF u.place \in {"hint", "resource"} THEN d ELSE m,
                     replies |-> IF u = first THEN a ELSE IF u.place \in {"hint", "resource"} THEN b
                                 ELSE IF u.place = "server" THEN s ELSE o]]]

Machine == [port : {V!Nothing, "8080"}, host : {V!Nothing}, browser : BOOLEAN,
            id : {V!Nothing, "client"}, secret : {V!Nothing, "secret"}, scope : {V!Nothing, "read"}]
Responses == [status : {200, 400}, access : {V!Nothing, "", "token"}, refresh : {V!Nothing, "more"},
              expires : {V!Nothing, "60"}, scope : {V!Nothing, "less"}]
AskGrant == Decide("grant") /\ \E f \in Machine, r \in Responses,
                                  g \in {{}, {"client_credentials"}, {"authorization_code"}},
                                  m \in SUBSET {"client_secret_basic", "client_secret_post"}, s \in {V!Nothing, "all"}:
                case' = [flags |-> f, response |-> r, meta |-> [grants |-> g, methods |-> m, scopes |-> s]]
KeepSecret == Decide("secret") /\ \E i \in {V!Nothing, "client", "other"}, s \in {V!Nothing, "secret"},
                                     m \in {V!Nothing, "client_secret_basic", "client_secret_post"},
                                     f \in {V!Nothing, "given"}, id \in {"client", "other"}:
                case' = [credential |-> [id |-> i, secret |-> s, method |-> m, refresh |-> "old", resource |-> "mcp"],
                         flag |-> f, id |-> id]
Registering == [status : {0, 201, 400}, mentions : {"redirect", "other"}, id : {V!Nothing, "client"}]
RegisterClient == Decide("register") /\ \E a \in Registering, b \in Registering, o \in BOOLEAN,
                                           asked \in {V!Nothing, "localhost"}, kept \in {V!Nothing, "localhost"}:
                case' = [offered |-> o, replies |-> ("127.0.0.1" :> a) @@ ("localhost" :> b), asked |-> asked, kept |-> kept]

ChallengeParams == {[key |-> k, quoted |-> q, value |-> v]: k \in {"K", "realm"}, q \in {TRUE},
                       v \in Upto({"u", ",", " ", "="}, 2)}
                   \cup {[key |-> k, quoted |-> FALSE, value |-> <<"u">>]: k \in {"K", "realm"}}
ReadChallenge == Decide("challenge") /\ \E p \in Upto(ChallengeParams, 2), s \in {0, 200, 302, 401, 403}:
                     case' = [params |-> p, status |-> s]
CutUrl == Decide("address") /\ \E h \in {<<"h">>, <<"h", "h">>}, p \in {<<>>} \cup {<<"/">> \o q: q \in Upto({"/", "p"}, 3)},
                                  q \in {<<>>} \cup {<<"?">> \o r: r \in Upto({"/", "q", "#"}, 2)}:
              case' = [host |-> h, path |-> p, query |-> q]
FormTexts == Upto({"a", "2", "%", "&", "=", "+", " "}, 2)
SendForm == Decide("form body") /\ \E a \in FormTexts, b \in FormTexts, c \in {<<>>, <<"a">>, <<"%", "2">>}:
                case' = [params |-> <<<<a, b>>, <<c, b>>>>]

(* The server that is found is the one that was named, and what is sent to it
   is read as it was meant (oauth.rs). *)
ServersAreTheirs ==
    /\ area = "discover" /\ case # Undecided => 
         V!DiscoveryIsTheirs(case.net, case.mcp, case.hint, V!Discover(case.net, case.mcp, case.hint))
    /\ area = "grant" /\ case # Undecided => V!RenewsAsGranted(case.meta, case.flags, case.response)
    /\ area = "secret" /\ case # Undecided => V!SecretIsItsOwn(case.credential, case.flag, case.id)
    /\ area = "register" /\ case # Undecided => V!HostsAreTried(case.offered, case.replies, case.asked, case.kept)
    /\ area = "challenge" /\ case # Undecided => V!ChallengeIsRead(case.status, case.params)
    /\ area = "address" /\ case # Undecided => V!UrlIsSplit(case.host, case.path, case.query)
    /\ area = "form body" /\ case # Undecided => V!FormReadsBack(case.params)

-----------------------------------------------------------------------------
(* Tracing: messages with a secret at the top, below, in a list, or none;   *)
(* days about the ends of years, leap years and centuries.                  *)

TraceLeaves == {[key |-> k, value |-> U!Leaf("t")]: k \in {"access_token", "code", "name"}}
TraceInner == {U!Fields(<<f>>): f \in TraceLeaves} \cup {U!Leaf("u")}
TraceMessages == {U!Fields(<<[key |-> k, value |-> v], f>>):
                    k \in {"", "client_secret", "params"}, v \in TraceInner, f \in TraceLeaves}
WatchWire == Decide("trace") /\ \E w \in {"http", "oauth", "stdio", "socket"}, h \in {"post", "get", "pipe", "noise", "fails", "twice"},
                                   s \in TraceMessages, r \in TraceMessages:
                 /\ h \in {"pipe", "noise"} <=> w \notin {"http", "oauth"}
                 /\ h = "get" => w = "oauth"
                 /\ h = "twice" => w = "http"
                 /\ case' = [wire |-> w, how |-> h, sent |-> s, received |-> r]
Days == (0 .. 1200) \cup (10900 .. 11100) \cup (19700 .. 19900) \cup (47400 .. 47600)
ReadDate == Decide("date") /\ \E d \in Days: case' = [days |-> d]

(* What is traced is all there was, without its secrets (transport/trace.rs). *)
TracesAreWhole ==
    /\ area = "trace" /\ case # Undecided => U!TraceIsWhole(case.wire, case.how, case.sent, case.received)
    /\ area = "date" /\ case # Undecided => U!DatesFollow(case.days)

-----------------------------------------------------------------------------
(* Commands: every refusal a call may meet, before it is sent and after.     *)

EchoTool == <<"e", "c", "h", "o">>
OfferedTools == {<<EchoTool>>, <<<<"o", "t", "h">>>>, <<>>}
ToolReplies == {[error |-> X!NoError, failed |-> f, text |-> t]: f \in BOOLEAN, t \in {"", "validation error"}}
               \cup {[error |-> X!Error("rpc", c, t), failed |-> FALSE, text |-> ""]:
                       c \in {X!MethodNotFound, X!InvalidParams, -32000}, t \in {"", "invalid arguments"}}
               \cup {[error |-> X!Transport, failed |-> FALSE, text |-> ""]}
TaskReplies == {[error |-> X!NoError, id |-> i, ends |-> e]: i \in {"none", "id"}, e \in {"completed", "failed", "input_required"}}
               \cup {[error |-> X!Error("rpc", c, ""), id |-> "none", ends |-> "completed"]: c \in {X!MethodNotFound, -32000}}
Before == [check : {"none", "unreadable"}, elicit : {"ok", "bad"}, arguments : {"object", "both forms", "bad object", "words"},
           known : BOOLEAN, denied : BOOLEAN]
Plans == {X!Planned(FALSE, FALSE), X!Planned(TRUE, FALSE), X!Planned(FALSE, TRUE)}
CallTool == Decide("call tool") /\ \E tools \in OfferedTools, l \in BOOLEAN, p \in Plans, s \in {"required", "optional"},
        o \in BOOLEAN, v \in {"2025-11-25", "2025-06-18"}, r \in ToolReplies, t \in TaskReplies, asks \in BOOLEAN,
        a \in {"object", "pairs"}, f \in BOOLEAN, c \in {"none", "same", "drifted"}, d \in {"http", "process", "daemon"}:
    /\ p = "now" => d = "http"
    /\ p # "now" => r = [error |-> X!NoError, failed |-> FALSE, text |-> ""]
    /\ ~(p # "now" \/ (s = "required" /\ o)) => t.id = "id" /\ t.ends = "completed"
    /\ f \/ asks \/ a = "pairs"
    /\ case' = [tools |-> tools, tool |-> EchoTool, lists |-> l, plan |-> p, support |-> s, offersTasks |-> o, version |-> v,
                reply |-> r, task |-> t, asks |-> asks, arguments |-> a, fits |-> f, filled |-> f, check |-> c, elicit |-> "ok",
                known |-> TRUE, denied |-> FALSE, opens |-> TRUE, stdio |-> d # "http", daemon |-> d = "daemon"]
BeforeDialing == Decide("call tool") /\ \E b \in Before, opens \in BOOLEAN, p \in {"now", "detach"}:
    case' = [tools |-> <<EchoTool>>, tool |-> EchoTool, lists |-> TRUE, plan |-> p, support |-> "optional", offersTasks |-> FALSE,
             version |-> "2025-11-25", reply |-> [error |-> X!NoError, failed |-> FALSE, text |-> ""],
             task |-> [error |-> X!NoError, id |-> "id", ends |-> "completed"], asks |-> FALSE, arguments |-> b.arguments,
             fits |-> TRUE, filled |-> TRUE, check |-> b.check, elicit |-> b.elicit, known |-> b.known, denied |-> b.denied,
             opens |-> opens, stdio |-> FALSE, daemon |-> FALSE]

MisspellTool == Decide("near") /\ \E w \in Upto({"a", "b", "c"}, 3) \cup [1 .. 5 -> {"a", "b"}], n \in Upto({"a", "b", "c"}, 2):
                    case' = [word |-> w, names |-> <<n, <<"c", "a", "b", "a">>>>]
ListServers == Decide("listings") /\ \E s \in {"none", "free", "taken"}, c \in {"none", "unreadable", "same", "drifted"},
        o \in BOOLEAN, l \in BOOLEAN, k \in BOOLEAN, d \in BOOLEAN, tools \in OfferedTools, a \in {"object", "both forms", "bad object"},
        e \in {X!NoError, X!Transport} \cup {X!Error("rpc", n, ""): n \in {-32601, -32602, -32002, -32000}}:
    case' = [snapshot |-> s, check |-> c, opens |-> o, lists |-> l, resources |-> e, known |-> k, denied |-> d, tools |-> tools,
             tool |-> EchoTool, arguments |-> a]
SearchRegistry == Decide("searched") /\ \E q \in {<<>>, <<"w">>}, h \in 0 .. 4, n \in 0 .. 3, r \in BOOLEAN, o \in BOOLEAN:
    ~(r /\ o) /\ case' = [query |-> q, hits |-> h, limit |-> n, refresh |-> r, offline |-> o]
PlainWords == {<<"k">>, <<"/", "k">>}
TypeObject == Decide("requote") /\ \E k \in PlainWords, v \in PlainWords \cup {<<"k", ":", "/">>}, n \in 1 .. 2,
                                     t \in Upto({"{", "}", ":", ",", " ", "k", "\""}, 3):
    case' = [object |-> [i \in 1 .. n |-> <<k, v>>], text |-> <<"{">> \o t]

(* And pick: two servers and up to two tools of three rows.                  *)

PickRows == {[name |-> n, about |-> a, denied |-> d]:
               n \in Upto({"a", " "}, 2) \ {<<>>}, a \in Upto({"a", " "}, 2), d \in {FALSE}}
PickTools == Upto({[name |-> <<"a">>, about |-> <<"b">>, denied |-> d]: d \in BOOLEAN}
                  \cup {[name |-> <<"1">>, about |-> <<>>, denied |-> FALSE]}, 2)
Typed == {[number |-> 1, text |-> <<"1">>], [number |-> 2, text |-> <<"2">>], [number |-> 3, text |-> <<"3">>],
          [number |-> 0, text |-> <<"a", " ", " ", "b">>]}
Offered == {[fzf |-> "quit", text |-> <<>>, typed |-> <<>>],
            [fzf |-> "picked", text |-> <<"a", " ", " ", "b">>, typed |-> <<>>]}
           \cup {[fzf |-> "absent", text |-> <<>>, typed |-> t]: t \in Upto(Typed, 2)}
PickedServer == {[fzf |-> "quit", text |-> <<>>, typed |-> <<>>], [fzf |-> "picked", text |-> <<"s", " ", " ", "-">>, typed |-> <<>>],
                 [fzf |-> "absent", text |-> <<>>, typed |-> <<[number |-> 3, text |-> <<"3">>], [number |-> 2, text |-> <<"2">>]>>]}

PickACall == Decide("pick") /\ \E a \in BOOLEAN, ss \in {<<>>, <<<<"s">>, <<"t">>>>}, s \in PickedServer, o \in {"open", "fails"},
        l \in BOOLEAN, ts \in PickTools, t \in Offered, f \in BOOLEAN, r \in {"ok", "failed", "refused"}:
    case' = [asks |-> a, servers |-> ss, server |-> s, opens |-> o, lists |-> l, tools |-> ts, tool |-> t, filled |-> f, reply |-> r]

ShowRows == Decide("pick rows") /\ \E t \in Upto(PickRows, 2) \ {<<>>}: case' = t

(* A command sends what it must and no more, and says why it failed
   (cmd/invoke.rs, cmd/discover.rs, tasks.rs, diagnose.rs, pick.rs). *)
CommandsRunOnce ==
    /\ area = "call tool" /\ case # Undecided => X!CallRunsOnce(case, X!Call(case)) /\ X!HintsFit(case, X!Call(case))
    /\ area = "near" /\ case # Undecided => X!NearestIsOffered(case.word, case.names)
    /\ area = "listings" /\ case # Undecided => X!ListingsAsk(case)
    /\ area = "searched" /\ case # Undecided => X!SearchShows(case)
    /\ area = "requote" /\ case # Undecided => X!QuotesComeBack(case.object, case.text)
    /\ area = "pick" /\ case # Undecided => P!OnlyThePicked(case, P!Run(case))
    /\ area = "pick rows" /\ case # Undecided => P!LinesTellRows(case)

-----------------------------------------------------------------------------
Next == \/ FillCall \/ ReadWords
        \/ AnswerForm
        \/ ConvertEntry
        \/ SyncThrice \/ ReadPages \/ LoadCatalog
        \/ Browse \/ PressKey \/ StartApplying \/ KeepApplying \/ ActElsewhere \/ MarkRows \/ DeclareNeeds \/ BrowseWith
        \/ SaveCommand \/ FillText \/ WriteString \/ MergeCodex
        \/ ExportServer \/ ImportFiles \/ ImportVsCode
        \/ CompareLists
        \/ StartSession \/ PrintResult \/ SendCall \/ WriteOutput \/ AnotherWrites \/ CutPayload
        \/ SaveMedia \/ NameFile
        \/ GrepServers \/ SearchEntries \/ FollowPath \/ RunJq \/ JqSteps \/ JqItself
        \/ PressTab \/ TypeToken \/ FollowTemplate
        \/ GoRound \/ ListPages \/ ReadReply \/ HearNotice \/ SendHeaders \/ ProbeStream \/ ReadValues
        \/ MatchGlob \/ FilterTools \/ ReadHeader \/ FillConfig \/ DialServer \/ ListServer
        \/ FindServer \/ AskGrant \/ KeepSecret \/ RegisterClient \/ ReadChallenge \/ CutUrl \/ SendForm
        \/ WatchWire \/ ReadDate
        \/ CallTool \/ BeforeDialing \/ MisspellTool \/ ListServers \/ SearchRegistry \/ TypeObject
        \/ PickACall \/ ShowRows
Spec == Init /\ [][Next]_vars

-----------------------------------------------------------------------------
(* What is checked together.                                               *)

(* What is typed is what is taken: as arguments on a command line or at a
   prompt, in the form of a question, and after Tab (args.rs, prompt.rs,
   elicit.rs, shell/complete.rs). *)
TypedIsTaken == CallsAreAsWritten /\ FormsAreAnswered /\ TabGoesOn

(* What is saved of a registry is whole, the copy kept of it says what the
   registry says of the names it was asked about, and the checklist over them
   does what was ticked (registry.rs, catalog.rs, browse.rs). *)
CatalogueIsHonest == EntriesAreSavedWhole /\ CopiesAreHonest /\ ChecklistIsApplied

(* What is written into another program's file, a command line or a variable
   reads back as it was (import_config.rs, export_config.rs, config.rs). *)
ConfigsReadBack == TextsReadBack /\ HostsAreRead

(* What was printed, written or listed is found again: by its number, in a file
   of its own, in every listing that was looked through (shell/history.rs,
   output.rs, media.rs, grep.rs, search.rs, path.rs). *)
KeptIsFound == ResultsAreFound /\ LooksThroughAll

(* What goes over the wire and what is told of it is whole: pages, rounds,
   streams and headers, and the trace with its secrets out (session.rs,
   transport/http.rs, notify.rs, transport/trace.rs). *)
WireIsWhole == MessagesAreWhole /\ TracesAreWhole
=============================================================================
