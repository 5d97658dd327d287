---------------------------- MODULE CommandLine ----------------------------
(***************************************************************************)
(* Texts that are written in one place and read back in another: the       *)
(* command line a stdio server is saved as (shell_join of import_config.rs *)
(* and split_command of transport/stdio.rs), the ${VAR} placeholders of a  *)
(* saved config (config.rs, substitute), and the strings and keys of       *)
(* Codex's TOML (export_config.rs, toml_string; import_config.rs, toml).   *)
(*                                                                         *)
(* A text is a sequence of the characters these readers tell apart; "a",   *)
(* "b" stand for every character that means nothing to them.               *)
(***************************************************************************)
EXTENDS Integers, Sequences, SequencesExt, FiniteSets

Spaces == {" ", "\t"}
Quotes == {"'", "\"", "\\"}

(* One word quoted: within single quotes, a single quote closes them, is
   escaped and opens them again. *)
QuoteWord(word) ==
    IF word = <<>> THEN <<"'", "'">>
    ELSE IF ToSet(word) \cap (Spaces \cup Quotes) = {} THEN word
    ELSE <<"'">> \o FlattenSeq([i \in DOMAIN word |->
             IF word[i] = "'" THEN <<"'", "\\", "'", "'">> ELSE <<word[i]>>]) \o <<"'">>

ShellJoin(argv) ==
    FlattenSeq([i \in DOMAIN argv |-> (IF i > 1 THEN <<" ">> ELSE <<>>) \o QuoteWord(argv[i])])

(* The splitter, one character at a time: mode is what the character stands
   in, word whether a word has begun, even an empty one. *)
SplitStep(so, c) ==
    LET push(x, mode) == [so EXCEPT !.cur = @ \o x, !.word = TRUE, !.mode = mode]
    IN CASE so.mode = "single" -> IF c = "'" THEN push(<<>>, "plain") ELSE push(<<c>>, "single")
         [] so.mode = "double" -> IF c = "\"" THEN push(<<>>, "plain")
                                  ELSE IF c = "\\" THEN push(<<>>, "double escape")
                                  ELSE push(<<c>>, "double")
         [] so.mode = "double escape" ->
                IF c \in {"\"", "\\", "$"} THEN push(<<c>>, "double") ELSE push(<<"\\", c>>, "double")
         [] so.mode = "escape" -> push(<<c>>, "plain")
         [] c = "'" -> push(<<>>, "single")
         [] c = "\"" -> push(<<>>, "double")
         [] c = "\\" -> push(<<>>, "escape")
         [] c \in Spaces -> IF so.word
                            THEN [so EXCEPT !.out = Append(@, so.cur), !.cur = <<>>, !.word = FALSE]
                            ELSE so
         [] OTHER -> push(<<c>>, "plain")

NoWords == [ok |-> FALSE, argv |-> <<>>]

(* An open quote and a line without a word are errors; a backslash at the end
   escapes nothing. *)
SplitCommand(text) ==
    LET end == FoldLeft(SplitStep, [out |-> <<>>, cur |-> <<>>, word |-> FALSE, mode |-> "plain"], text)
        argv == IF end.word THEN Append(end.out, end.cur) ELSE end.out
    IN IF end.mode \in {"single", "double", "double escape"} \/ argv = <<>> THEN NoWords
       ELSE [ok |-> TRUE, argv |-> argv]

-----------------------------------------------------------------------------
(* Placeholders.  env maps a name to its value; an empty value is unset.     *)

Name(inner) ==
    LET at == SelectInSeq(inner, LAMBDA c: c = ":-")
    IN IF at = 0 THEN inner ELSE SubSeq(inner, 1, at - 1)
HasDefault(inner) == ":-" \in ToSet(inner)
Default(inner) == SubSeq(inner, SelectInSeq(inner, LAMBDA c: c = ":-") + 1, Len(inner))

Filled(ok, text) == [ok |-> ok, text |-> text]

RECURSIVE Substitute(_, _)
Substitute(text, env) ==
    LET then(out, rest) ==
            LET r == Substitute(rest, env) IN IF r.ok THEN Filled(TRUE, out \o r.text) ELSE r
        close == SelectInSeq(text, LAMBDA c: c = "}")
        inner == SubSeq(text, 3, close - 1)
        set == Name(inner) \in DOMAIN env /\ env[Name(inner)] # <<>>
    IN CASE text = <<>> -> Filled(TRUE, <<>>)
         [] Head(text) # "$" -> then(<<Head(text)>>, Tail(text))
         [] Len(text) > 1 /\ text[2] = "$" -> then(<<"$">>, SubSeq(text, 3, Len(text)))
         [] Len(text) > 1 /\ text[2] = "{" /\ close > 0 /\ Name(inner) # <<>> ->
                IF set THEN then(env[Name(inner)], SubSeq(text, close + 1, Len(text)))
                ELSE IF HasDefault(inner) THEN then(Default(inner), SubSeq(text, close + 1, Len(text)))
                ELSE Filled(FALSE, Name(inner))
         [] OTHER -> then(<<"$">>, Tail(text))

Doubled(text) == FlattenSeq([i \in DOMAIN text |-> IF text[i] = "$" THEN <<"$", "$">> ELSE <<text[i]>>])

-----------------------------------------------------------------------------
(* TOML's basic strings: what has an escape is written with it, any other    *)
(* control character by its number.                                          *)

Escapes == [c \in {"\"", "\\", "newline", "tab"} |->
              CASE c = "newline" -> "n" [] c = "tab" -> "t" [] OTHER -> c]

TomlString(text) ==
    <<"\"">> \o FlattenSeq([i \in DOMAIN text |->
        IF text[i] \in DOMAIN Escapes THEN <<"\\", Escapes[text[i]]>>
        ELSE IF text[i] = "bell" THEN <<"\\", "u", "0007">>
        ELSE <<text[i]>>]) \o <<"\"">>

(* The characters after the opening quote; a bare newline or an escape that
   TOML has not ends the reading. *)
BasicStep(so, c) ==
    LET unescaped(e) == CHOOSE d \in DOMAIN Escapes: Escapes[d] = e
    IN CASE so.mode \in {"done", "failed"} -> [so EXCEPT !.mode = "failed"]
         [] so.mode = "code" -> [so EXCEPT !.mode = "text",
                                          !.out = Append(@, IF c = "0007" THEN "bell" ELSE c)]
         [] so.mode = "escape" ->
               IF c \in {Escapes[d]: d \in DOMAIN Escapes}
               THEN [so EXCEPT !.mode = "text", !.out = Append(@, unescaped(c))]
               ELSE [so EXCEPT !.mode = IF c = "u" THEN "code" ELSE "failed"]
         [] c = "\"" -> [so EXCEPT !.mode = "done"]
         [] c = "\\" -> [so EXCEPT !.mode = "escape"]
         [] c = "newline" -> [so EXCEPT !.mode = "failed"]
         [] OTHER -> [so EXCEPT !.out = Append(@, c)]

BasicString(text) ==
    LET end == FoldLeft(BasicStep, [mode |-> "text", out |-> <<>>], Tail(text))
    IN [ok |-> end.mode = "done", text |-> end.out]

-----------------------------------------------------------------------------
(* Codex's file: a sequence of lines, a header [path] or a key under the     *)
(* last header; a path is a sequence of names.                               *)

Header(path) == [is |-> "header", path |-> path, value |-> 0]
Key(path, value) == [is |-> "key", path |-> path, value |-> value]

Unreadable == [ok |-> FALSE, keys |-> <<>>, tables |-> {}, table |-> <<>>]

(* toml::parse: each line into the tree, its tables made on the way; a key
   defined twice, or one that stands where a table is wanted, is refused. *)
TomlStep(so, line) ==
    LET path == IF line.is = "header" THEN line.path ELSE so.table \o line.path
        parents == Prefixes(IF line.is = "header" THEN path ELSE Front(path))
        blocked == parents \cap DOMAIN so.keys # {}
        twice == line.is = "key" /\ path \in so.tables \cup DOMAIN so.keys
        made == [so EXCEPT !.tables = @ \cup parents]
    IN IF ~so.ok \/ blocked \/ twice THEN Unreadable
       ELSE IF line.is = "header" THEN [made EXCEPT !.table = line.path]
       ELSE [made EXCEPT !.keys = (path :> line.value) @@ @]

TomlParse(lines) ==
    FoldLeft(TomlStep, [ok |-> TRUE, keys |-> <<>>, tables |-> {}, table |-> <<>>], lines)

(* The lines of every table of an exported name go, its sub-tables too. *)
CodexWithout(lines, exported) ==
    FoldLeft(LAMBDA so, line:
               LET dropping == IF line.is = "header"
                               THEN Len(line.path) > 1 /\ line.path[1] = "mcp_servers"
                                                       /\ line.path[2] \in exported
                               ELSE so.dropping
               IN [dropping |-> dropping,
                   out |-> IF dropping THEN so.out ELSE Append(so.out, line)],
             [dropping |-> FALSE, out |-> <<>>], lines).out

(* One table, and a sub-table for env where the server has one. *)
CodexTable(name, value, env) ==
    <<Header(<<"mcp_servers", name>>), Key(<<"command">>, value)>>
    \o IF env THEN <<Header(<<"mcp_servers", name, "env">>), Key(<<"k">>, value)>> ELSE <<>>

CodexDocument(lines, name, value, env) == CodexWithout(lines, {name}) \o CodexTable(name, value, env)

-----------------------------------------------------------------------------
(* What has to hold *)

(* A saved command line is run as the argv it was made of. *)
SplitsAsJoined(argv) ==
    argv # <<>> => SplitCommand(ShellJoin(argv)) = [ok |-> TRUE, argv |-> argv]

(* A string written into Codex's file is the string read out of it. *)
ReadsAsWritten(text) == BasicString(TomlString(text)) = [ok |-> TRUE, text |-> text]

(* A text with its dollars doubled is itself again whatever the environment
   holds, nothing is filled in twice, and what is missing is named. *)
FillsOnce(text, env) ==
    LET filled == Substitute(text, env)
    IN /\ Substitute(Doubled(text), env) = Filled(TRUE, text)
       /\ "$" \notin ToSet(text) => filled = Filled(TRUE, text)
       /\ text = <<"$", "{", "a", "}">> /\ filled.ok => filled.text = env[<<"a">>]
       /\ ~filled.ok => (filled.text \notin DOMAIN env \/ env[filled.text] = <<>>)

(* A file that could be read before, its exported server written as tables
   where it has it at all, can be read after the merge: it holds the server
   as exported and every key that was not the server's, unchanged. *)
MergesOneServer(lines, name, value, env) ==
    LET before == TomlParse(lines)
        after == TomlParse(CodexDocument(lines, name, value, env))
        ours(p) == IsPrefix(<<"mcp_servers", name>>, p)
        written == {<<"mcp_servers", name, "command">>}
                   \cup IF env THEN {<<"mcp_servers", name, "env", "k">>} ELSE {}
        spelledOut == \A i \in DOMAIN lines: lines[i].is = "key" =>
                        ~\E h \in {<<>>, <<"mcp_servers">>}: ours(h \o lines[i].path)
                                                            \/ IsPrefix(h \o lines[i].path, <<"mcp_servers", name>>)
    IN before.ok /\ spelledOut =>
         /\ after.ok
         /\ {p \in DOMAIN after.keys: ours(p)} = written
         /\ \A p \in DOMAIN before.keys: ~ours(p) => p \in DOMAIN after.keys /\ after.keys[p] = before.keys[p]
         /\ \A p \in written: after.keys[p] = value
=============================================================================
