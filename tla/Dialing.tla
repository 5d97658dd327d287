------------------------------ MODULE Dialing ------------------------------
(***************************************************************************)
(* From what is saved under a name to a session: which tools its lists     *)
(* permit, what its ${VAR}s are filled in with (config.rs), how it is      *)
(* checked when it is saved (validate.rs), and how it is dialed, probed    *)
(* and listed (client.rs).                                                 *)
(***************************************************************************)
EXTENDS Integers, Sequences, SequencesExt, FiniteSets, FiniteSetsExt

-----------------------------------------------------------------------------
(* matches_glob: the loop.  star is the place of the last *, 0 for none, and *)
(* reached how far into the name it has been widened.                        *)

Literal(pattern, p, name, n) == p <= Len(pattern) /\ pattern[p] \in {"?", name[n]}

(* A slip: the loop gives up where a * could have been widened. *)
WidenOnce(at, pattern, name) ==
    IF at.p <= Len(pattern) /\ pattern[at.p] = "*" THEN [at EXCEPT !.star = at.p, !.reached = at.n, !.p = at.p + 1]
    ELSE IF Literal(pattern, at.p, name, at.n) THEN [at EXCEPT !.p = at.p + 1, !.n = at.n + 1]
    ELSE IF at.star # 0 /\ at.p = at.star + 1
         THEN [at EXCEPT !.p = at.star + 1, !.n = at.reached + 1, !.reached = at.reached + 1]
    ELSE [at EXCEPT !.failed = TRUE]

Widen(at, pattern, name) ==
    IF at.p <= Len(pattern) /\ pattern[at.p] = "*" THEN [at EXCEPT !.star = at.p, !.reached = at.n, !.p = at.p + 1]
    ELSE IF Literal(pattern, at.p, name, at.n) THEN [at EXCEPT !.p = at.p + 1, !.n = at.n + 1]
    ELSE IF at.star # 0
         THEN [at EXCEPT !.p = at.star + 1, !.n = at.reached + 1, !.reached = at.reached + 1]
    ELSE [at EXCEPT !.failed = TRUE]

GlobStart == [p |-> 1, n |-> 1, star |-> 0, reached |-> 0, failed |-> FALSE]
GlobEnds(at, name) == at.failed \/ at.n > Len(name)
GlobMatches(at, pattern) == ~at.failed /\ \A i \in at.p .. Len(pattern): pattern[i] = "*"

MatchesGlob(pattern, name) ==
    LET Goes[at \in [p: Nat, n: Nat, star: Nat, reached: Nat, failed: BOOLEAN]] ==
            IF GlobEnds(at, name) THEN at ELSE Goes[Widen(at, pattern, name)]
    IN GlobMatches(Goes[GlobStart], pattern)

(* What a pattern says from its p-th character on of a name from its n-th: each
   has a place in the name, a * any number of places. *)
DescribesFrom(pattern, name, p, n) ==
    \E at \in [p .. Len(pattern) + 1 -> 1 .. Len(name) + 1]:
        /\ at[p] = n /\ at[Len(pattern) + 1] = Len(name) + 1
        /\ \A i \in p .. Len(pattern):
             IF pattern[i] = "*" THEN at[i] <= at[i + 1]
             ELSE at[i + 1] = at[i] + 1 /\ pattern[i] \in {"?", name[at[i]]}
Describes(pattern, name) == DescribesFrom(pattern, name, 1, 1)

(* Deny wins; an empty allow list permits what is not denied. *)
Denial(lists, tool) ==
    LET Hits(patterns) == \E i \in DOMAIN patterns: MatchesGlob(patterns[i], tool)
    IN IF Hits(lists.deny) THEN "deny list"
       ELSE IF lists.allow # <<>> /\ ~Hits(lists.allow) THEN "allow list"
       ELSE "none"

PermittedTools(tools, lists) == SelectSeq(tools, LAMBDA t: Denial(lists, t) = "none")
MarkedTools(tools, lists) == [i \in DOMAIN tools |-> [name |-> tools[i], denied |-> Denial(lists, tools[i]) # "none"]]

(* --allow and --deny as they are saved: trimmed, and none of them empty. *)
Trimmed(text) ==
    LET solid == {i \in DOMAIN text: text[i] # " "}
    IN IF solid = {} THEN <<>> ELSE SubSeq(text, Min(solid), Max(solid))
ValidatePatterns(patterns) ==
    LET trimmed == [i \in DOMAIN patterns |-> Trimmed(patterns[i])]
    IN [ok |-> <<>> \notin ToSet(trimmed), patterns |-> trimmed]

(* --header 'Name: value', cut at its first colon. *)
ParseHeader(item) ==
    LET colon == SelectInSeq(item, LAMBDA c: c = ":")
        name == Trimmed(SubSeq(item, 1, colon - 1))
    IN IF colon = 0 \/ name = <<>> THEN [ok |-> FALSE, name |-> <<>>, value |-> <<>>]
       ELSE [ok |-> TRUE, name |-> name, value |-> Trimmed(SubSeq(item, colon + 1, Len(item)))]

-----------------------------------------------------------------------------
(* A saved server: its fields, in the order they are filled in, each a text  *)
(* of words and references to a variable, with a default or without one.     *)

Word(w) == [var |-> "", default |-> FALSE, word |-> w]
Reference(v, d) == [var |-> v, default |-> d, word |-> "default"]
IsUnset(piece, env) == piece.var # "" /\ ~piece.default /\ piece.var \notin DOMAIN env
Fill(piece, env) ==
    IF piece.var = "" THEN piece
    ELSE Word(IF piece.var \in DOMAIN env THEN env[piece.var] ELSE piece.word)

FieldOrder == <<"headers", "env", "http", "stdio", "cwd">>

(* What is dialed, or the first variable that is not set and where. *)
Expanded(config, env) ==
    LET Unset(f) == f \in DOMAIN config.fields /\ \E i \in DOMAIN config.fields[f]: IsUnset(config.fields[f][i], env)
        at == SelectInSeq(FieldOrder, Unset)
    IN IF at > 0 THEN [ok |-> FALSE, fails |-> FieldOrder[at], config |-> config]
       ELSE [ok |-> TRUE, fails |-> "",
             config |-> [config EXCEPT !.fields = [f \in DOMAIN config.fields |->
                            [i \in DOMAIN config.fields[f] |-> Fill(config.fields[f][i], env)]]]]

(* Where add was told a server lives, with every variable set to a word. *)
HasScheme(text) == text # <<>> /\ text[1].word = "http://"
HasHost(text) == Len(text) > 1 /\ text[2].word # "/"
NamesACommand(text) == \E i \in DOMAIN text: text[i].word # " "
ValidateLocation(config) ==
    LET vars == UNION {{t[i].var: i \in DOMAIN t}: t \in {config.fields[f]: f \in DOMAIN config.fields}}
        filled == Expanded(config, [v \in vars |-> "var"]).config.fields
    IN /\ "http" \in DOMAIN filled => HasScheme(filled["http"]) /\ HasHost(filled["http"])
       /\ "stdio" \in DOMAIN filled => NamesACommand(filled["stdio"])

(* A target is a saved name, or a URL or a command written out. *)
Resolve(saved, target) ==
    CASE target.name \in DOMAIN saved -> [kind |-> saved[target.name].kind, saved |-> TRUE]
      [] target.form = "http" -> [kind |-> "http", saved |-> FALSE]
      [] target.form = "stdio" /\ ~target.empty -> [kind |-> "stdio", saved |-> FALSE]
      [] OTHER -> [kind |-> "unknown", saved |-> FALSE]

-----------------------------------------------------------------------------
(* Dialing.  A server has what is saved of it, and behaves: which tokens it  *)
(* accepts and how it refuses the others, and whether a refresh is granted.  *)

(* The flag, or what is saved, which may not be something that can be sent. *)
Chosen(flag, saved) == IF flag # "none" THEN flag ELSE saved
SettingsAreSound(server, flags) ==
    /\ Chosen(flags.version, server.version) # "unknown"
    /\ Chosen(flags.timeout, server.timeout) # "negative"

CanRefresh(credential) == credential.kind # "none" /\ credential.refreshes
HasToken(credential) == credential.kind # "none" /\ credential.token # "none"

Refusal(kind, challenge) == [kind |-> kind, challenge |-> challenge]
NoRefusal == Refusal("none", FALSE)
IsAuthChallenge(error) == error.kind \in {"401", "403", "500"} /\ (error.challenge \/ error.kind = "401")

Failure(kind, sent, auth) == [error |-> Refusal(kind, FALSE), sent |-> sent, auth |-> auth]
Handshake(server, token, sent, auth) ==
    [error |-> IF token \in server.accepts THEN NoRefusal ELSE server.refuses,
     sent |-> Append(sent, token), auth |-> auth]

(* The token, and what it came from; a saved one that has expired is renewed. *)
SelectToken(server, flags) ==
    LET env == Chosen(flags.tokenEnv, server.tokenEnv)
        c == server.credential
    IN CASE env # "none" -> [auth |-> "env", token |-> env]
         [] env = "none" /\ c.kind = "none" -> [auth |-> "none", token |-> "none"]
         [] env = "none" /\ c.kind # "none" /\ c.expired /\ CanRefresh(c) ->
              [auth |-> "saved", token |-> IF server.grants THEN "renewed" ELSE "refused"]
         [] OTHER -> [auth |-> "saved", token |-> c.token]

(* connect: settings and variables, then a daemon that runs or the process,
   or the endpoint with its token and one more handshake after a challenge. *)
Dial(server, flags) ==
    LET picked == SelectToken(server, flags)
        first == Handshake(server, picked.token, <<>>, picked.auth)
    IN CASE ~server.expands \/ ~SettingsAreSound(server, flags) -> Failure("config", <<>>, "none")
         [] server.expands /\ SettingsAreSound(server, flags) /\ server.stdio ->
              Handshake(server, IF server.saved /\ server.daemon /\ ~flags.noDaemon THEN "socket" ELSE "process",
                        <<>>, "none")
         [] OTHER ->
              IF picked.token = "unset" THEN Failure("usage", <<>>, "none")
              ELSE IF picked.token = "refused" THEN Failure("auth", <<>>, "none")
              ELSE IF IsAuthChallenge(first.error) /\ picked.auth = "saved" /\ CanRefresh(server.credential)
              THEN IF server.grants THEN Handshake(server, "renewed", first.sent, "saved")
                   ELSE Failure("auth", first.sent, "none")
              ELSE first

-----------------------------------------------------------------------------
(* What a probe makes of it. *)

HadCredential(server, flags) ==
    server.tokenEnv # "none" \/ flags.tokenEnv # "none" \/ HasToken(server.credential)

Classify(error, hadCredential) ==
    CASE error.kind \in {"401", "403", "500"} ->
           IF IsAuthChallenge(error) THEN IF hadCredential THEN "token rejected" ELSE "auth required"
           ELSE IF error.kind = "403" THEN "blocked" ELSE "http"
      [] error.kind = "retired" -> "legacy sse"
      [] error.kind = "unreachable" -> "unreachable"
      [] OTHER -> "error"

Probe(server, flags) ==
    LET dialed == Dial(server, flags)
    IN [status |-> IF dialed.error # NoRefusal THEN Classify(dialed.error, HadCredential(server, flags))
                   ELSE IF server.lists THEN "connected" ELSE "error",
        auth |-> IF dialed.error = NoRefusal THEN dialed.auth ELSE "none"]

(* Rows: what is remembered of a server is a record, its key what it was of. *)
StatusTtl == 300
NoRow == [status |-> "unread", auth |-> "none", checked |-> 0, age |-> 0]
Remembered(record, now) ==
    IF record.status = "unread" THEN NoRow
    ELSE [status |-> record.status, auth |-> record.auth, checked |-> record.checked,
          age |-> IF now > record.checked THEN now - record.checked ELSE 0]
Record(row, key) == [key |-> key, status |-> row.status, auth |-> row.auth, checked |-> row.checked]
StillCurrent(record, key, now) == record.key = key /\ now - record.checked < StatusTtl
ProbedRow(probe, now) == [status |-> probe.status, auth |-> probe.auth, checked |-> now, age |-> 0]

(* One row of ls, given what is remembered under the name: {} or one record. *)
Row(records, key, now, fresh, live) ==
    LET usable == {r \in records: ~live /\ StillCurrent(r, key, now) /\ Remembered(r, now) # NoRow}
    IN IF usable # {} THEN [row |-> Remembered(CHOOSE r \in usable: TRUE, now), dialed |-> FALSE]
       ELSE [row |-> ProbedRow(fresh, now), dialed |-> TRUE]

(* status without dialing: however old, but of this server. *)
SavedRow(records, key, now) ==
    LET mine == {r \in records: r.key = key /\ Remembered(r, now) # NoRow}
    IN IF mine = {} THEN NoRow ELSE Remembered(CHOOSE r \in mine: TRUE, now)

-----------------------------------------------------------------------------
(* What is promised of each. *)

(* The loop decides what the pattern says, whatever * it has to go back to. *)
GlobIsItsPattern(pattern, name) == MatchesGlob(pattern, name) <=> Describes(pattern, name)

(* What is listed is what may be called; nothing that is hidden is lost from
   the full list; a pattern as saved says what it says without its margins. *)
ListsAgree(lists, tools) ==
    /\ ToSet(PermittedTools(tools, lists)) =
         {tools[i]: i \in {j \in DOMAIN tools: ~MarkedTools(tools, lists)[j].denied}}
    /\ \A i \in DOMAIN tools: (\E p \in ToSet(lists.deny): Describes(p, tools[i])) => Denial(lists, tools[i]) # "none"
    /\ LET v == ValidatePatterns(lists.allow \o lists.deny) IN
         v.ok => \A i \in DOMAIN v.patterns: v.patterns[i] # <<>> /\ Trimmed(v.patterns[i]) = v.patterns[i]

HeaderIsWhole(item) ==
    LET h == ParseHeader(item)
    IN h.ok => /\ ":" \notin ToSet(h.name) /\ Trimmed(h.name) = h.name /\ h.name # <<>>
               /\ ParseHeader(h.name \o <<":", " ">> \o h.value) = h

(* Nothing dialed holds a variable; a server that add let in has a place to
   dial, and the same one once its variables are set. *)
DialsWhatWasSaved(config, env) ==
    LET e == Expanded(config, env)
    IN /\ e.ok => \A f \in DOMAIN e.config.fields: \A i \in DOMAIN e.config.fields[f]: e.config.fields[f][i].var = ""
       /\ ~e.ok => \E i \in DOMAIN config.fields[e.fails]: IsUnset(config.fields[e.fails][i], env)
       /\ e.ok => Expanded(e.config, <<>>) = e
       /\ ValidateLocation(config) /\ e.ok =>
            /\ "http" \in DOMAIN config.fields => config.fields["http"][1] = Word("http://")
            /\ "stdio" \in DOMAIN config.fields => config.fields["stdio"] # <<>>

(* A setting that cannot be sent sends nothing; a token of the environment is
   the only one its server sees; a saved one is renewed at most once for each
   reason, and the row says whose fault a refusal is.  A credential without a
   token is the exception: what it is renewed to is offered, yet a refusal of
   that reads as if nothing had been. *)
StatusIsTheirs(server, flags) ==
    LET d == Dial(server, flags)
        p == Probe(server, flags)
        offered == d.sent # <<>> /\ Last(d.sent) # "none"
    IN /\ ~server.expands \/ ~SettingsAreSound(server, flags) => d.sent = <<>> /\ p.status = "error"
       /\ Len(d.sent) <= 2
       /\ server.stdio => d.auth = "none" /\ ToSet(d.sent) \subseteq {"socket", "process"}
       /\ Chosen(flags.tokenEnv, server.tokenEnv) # "none" /\ ~server.stdio =>
            ToSet(d.sent) \subseteq {Chosen(flags.tokenEnv, server.tokenEnv)}
       /\ p.status = "connected" => d.sent # <<>> /\ Last(d.sent) \in server.accepts
       /\ ~server.stdio /\ p.status = "token rejected" => offered
       /\ ~server.stdio /\ p.status = "auth required" =>
            ~offered \/ (server.credential.kind # "none" /\ ~HasToken(server.credential))
       /\ p.status = "blocked" => ~server.refuses.challenge
       /\ d.error # NoRefusal => p.auth = "none"

(* A remembered row is one of this server, no older than it may be, and reads
   back as it was noted; ls --live dials. *)
RowsAreOfThisServer(records, key, now, fresh, live) ==
    LET r == Row(records, key, now, fresh, live)
        s == SavedRow(records, key, now)
    IN /\ ~r.dialed => /\ ~live /\ r.row.age < StatusTtl
                       /\ \E n \in records: n.key = key /\ Record(r.row, key) = n
       /\ r.dialed => r.row.age = 0 /\ Remembered(Record(r.row, key), now) = r.row
       /\ s # NoRow => \E n \in records: n.key = key /\ Record(s, key) = n
       /\ ~r.dialed => s = r.row
=============================================================================
