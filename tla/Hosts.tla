------------------------------- MODULE Hosts -------------------------------
(***************************************************************************)
(* Servers moved in and out of other hosts' config files: what import      *)
(* reads of a file in any of the four shapes (import_config.rs), what it   *)
(* saves (cmd/servers.rs), and what export writes for a host to read       *)
(* (export_config.rs).                                                     *)
(*                                                                         *)
(* A text is a sequence of pieces [is, name]: plain text, a ${VAR} of the  *)
(* environment, VS Code's ${input:ID} or its ${env:VAR}.  A config is      *)
(*   [http, stdio, headers, env, cwd, timeout, tokenEnv]                   *)
(* with Nothing for what it has not; stdio is the argv of its line, which  *)
(* CommandLine shows the line keeps.  An entry of a file is a function     *)
(* from the names of its fields.                                           *)
(***************************************************************************)
EXTENDS Integers, Sequences, SequencesExt, FiniteSets

Nothing == <<>>
Piece(is, name) == [is |-> is, name |-> name]
Env(var) == Piece("env", var)

NoServer == [http |-> Nothing, stdio |-> <<>>, headers |-> <<>>, env |-> <<>>, cwd |-> Nothing,
             timeout |-> 0, tokenEnv |-> "none"]

Field(name, value, present) == IF present THEN name :> value ELSE <<>>
Get(entry, name, default) == IF name \in DOMAIN entry THEN entry[name] ELSE default

-----------------------------------------------------------------------------
(* Reading *)

(* One entry of any shape; the shapes differ in spelling alone.  An entry
   with neither a url nor a command is no server. *)
Convert(entry) ==
    LET argv == Get(entry, "command", <<>>) \o Get(entry, "args", <<>>)
        http == [NoServer EXCEPT !.http = entry["url"],
                   !.headers = Get(entry, "headers", Get(entry, "http_headers", <<>>)),
                   !.tokenEnv = Get(entry, "bearer_token_env_var", "none")]
        stdio == [NoServer EXCEPT !.stdio = argv,
                   !.env = Get(entry, "env", Get(entry, "environment", <<>>)),
                   !.cwd = Get(entry, "cwd", Nothing)]
    IN CASE "url" \in DOMAIN entry -> <<[http EXCEPT !.timeout = Get(entry, "timeout", 0)]>>
         [] "url" \notin DOMAIN entry /\ Get(entry, "command", <<>>) # <<>> ->
                <<[stdio EXCEPT !.timeout = Get(entry, "timeout", 0)]>>
         [] OTHER -> <<>>

Found(name, config, used) == [name |-> name, config |-> config, used |-> used]

(* The servers of one object, in its order. *)
Table(object) ==
    FlattenSeq([i \in DOMAIN object |->
        LET c == Convert(object[i].entry)
        IN IF c = <<>> THEN <<>> ELSE <<Found(object[i].name, c[1], {})>>])

(* The variable an input becomes: two ids that differ in punctuation alone
   share one. *)
InputVar(id) == IF id \in {"a-b", "a_b"} THEN "MCPDIAL_INPUT_A_B" ELSE "MCPDIAL_INPUT_" \o id

RewriteInputs(text) ==
    [i \in DOMAIN text |-> IF text[i].is = "input" THEN Env(InputVar(text[i].name)) ELSE text[i]]

(* A slip: the working directory is left as it is. *)
RenameMost(c) ==
    LET all(texts) == [k \in DOMAIN texts |-> RewriteInputs(texts[k])]
    IN [c EXCEPT !.http = RewriteInputs(@), !.stdio = all(@), !.headers = all(@), !.env = all(@)]

(* Everywhere VS Code would have put what it prompted for. *)
RenameInputs(c) ==
    LET all(texts) == [k \in DOMAIN texts |-> RewriteInputs(texts[k])]
    IN [c EXCEPT !.http = RewriteInputs(@), !.stdio = all(@), !.cwd = RewriteInputs(@),
                 !.headers = all(@), !.env = all(@)]

TextsOf(c) == {c.http, c.cwd} \cup Range(c.stdio) \cup Range(c.headers) \cup Range(c.env)
InputsOf(c) == {p.name: p \in {q \in UNION {ToSet(t): t \in TextsOf(c)}: q.is = "input"}}

(* An env file is read for its keys alone; an explicit env entry wins. *)
ReadEnvFile(c, file) == [c EXCEPT !.env = @ @@ [k \in DOMAIN file |-> <<Env(k)>>]]

VsCodeServers(object, envFile) ==
    LET found == Table(object)
    IN [i \in DOMAIN found |->
          Found(found[i].name, ReadEnvFile(RenameInputs(found[i].config), envFile),
                InputsOf(found[i].config))]

(* One file: mcpServers, the same object of each project, VS Code's servers,
   OpenCode's mcp; or Codex's tables. *)
Extract(doc) ==
    Table(doc.mcpServers) \o Table(doc.project) \o VsCodeServers(doc.servers, doc.envFile)
    \o Table(doc.mcp) \o Table(doc.codex)

NoDoc == [mcpServers |-> <<>>, project |-> <<>>, servers |-> <<>>, envFile |-> <<>>, mcp |-> <<>>,
          codex |-> <<>>]

(* What is saved: the list of the servers saved before decides what is
   skipped, and a name the store refuses is skipped too. *)
Import(saved, docs, force, invalid) ==
    LET found == FlattenSeq([i \in DOMAIN docs |-> Extract(docs[i])])
        taken(f) == (f.name \in DOMAIN saved /\ ~force) \/ f.name \in invalid
    IN FoldLeft(LAMBDA servers, f: IF taken(f) THEN servers ELSE (f.name :> f.config) @@ servers,
                saved, found)

-----------------------------------------------------------------------------
(* Writing *)

ToHostEntry(c) ==
    (IF c.http # Nothing
     THEN ("type" :> "http") @@ ("url" :> c.http) @@ Field("headers", c.headers, c.headers # <<>>)
     ELSE ("command" :> <<Head(c.stdio)>>) @@ Field("args", Tail(c.stdio), Len(c.stdio) > 1)
          @@ Field("env", c.env, c.env # <<>>) @@ Field("cwd", c.cwd, c.cwd # Nothing))
    @@ Field("timeout", c.timeout, c.timeout # 0)

Reference(c, format) == Piece(IF format = "vscode" THEN "hostenv" ELSE "env", c.tokenEnv)
Bearer(c, format) == <<Piece("text", "Bearer"), Reference(c, format)>>

(* VS Code names the transport on every entry; a token's variable becomes a
   header, where the entry has none of its own. *)
JsonEntry(c, format) ==
    LET headers == c.headers @@ ("Authorization" :> Bearer(c, format))
    IN Field("headers", headers, c.tokenEnv # "none") @@ ToHostEntry(c)
       @@ Field("type", "stdio", format = "vscode" /\ c.http = Nothing)

CodexEntry(c) ==
    LET e == ToHostEntry(c)
    IN [f \in DOMAIN e \ {"type", "headers"} |-> e[f]]
       @@ Field("http_headers", c.headers, c.headers # <<>>)
       @@ Field("bearer_token_env_var", c.tokenEnv, c.tokenEnv # "none")

Entry(c, format) == IF format = "codex" THEN CodexEntry(c) ELSE JsonEntry(c, format)

Table1(name, c, format) == <<[name |-> name, entry |-> Entry(c, format)]>>

Document(name, c, format) ==
    CASE format = "mcpservers" -> [NoDoc EXCEPT !.mcpServers = Table1(name, c, format)]
      [] format = "vscode" -> [NoDoc EXCEPT !.servers = Table1(name, c, format)]
      [] format = "codex" -> [NoDoc EXCEPT !.codex = Table1(name, c, format)]

-----------------------------------------------------------------------------
(* What has to hold *)

(* The server a host's file describes after an export: in a JSON shape the
   token's variable is a header. *)
AsRead(c, format) ==
    IF format = "codex" \/ c.tokenEnv = "none" THEN c
    ELSE [c EXCEPT !.tokenEnv = "none", !.headers = @ @@ ("Authorization" :> Bearer(c, format))]

(* What export writes import reads back as the same server. *)
ReadsBack(name, c, format) ==
    Extract(Document(name, c, format)) = <<Found(name, AsRead(c, format), {})>>

(* Import leaves what was saved alone unless it was told to overwrite, saves
   each name it found and may, and what it saves can be dialed from here: no
   input of VS Code's is left in it, each is listed as a variable to set, and
   every key of an env file is a placeholder unless it has a value. *)
ImportsSafely(saved, docs, force, invalid) ==
    LET after == Import(saved, docs, force, invalid)
        found == FlattenSeq([i \in DOMAIN docs |-> Extract(docs[i])])
        names == {found[i].name: i \in DOMAIN found}
    IN /\ \A n \in DOMAIN saved: ~force \/ n \notin names \/ n \in invalid => after[n] = saved[n]
       /\ DOMAIN after = DOMAIN saved \cup (names \ invalid)
       /\ \A n \in DOMAIN after \ DOMAIN saved: \E i \in DOMAIN found: found[i].config = after[n]

DialableHere(doc) ==
    LET found == VsCodeServers(doc.servers, doc.envFile)
        plain == Table(doc.servers)
    IN \A i \in DOMAIN found:
         /\ InputsOf(found[i].config) = {}
         /\ \A p \in UNION {ToSet(t): t \in TextsOf(plain[i].config)}:
                p.is = "input" => p.name \in found[i].used
         /\ \A k \in DOMAIN doc.envFile: found[i].config.env[k] =
                IF k \in DOMAIN plain[i].config.env THEN RewriteInputs(plain[i].config.env[k])
                ELSE <<Env(k)>>
=============================================================================
