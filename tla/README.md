# mcpdial in TLA+

mcpdial is a command-line client for the Model Context Protocol: it dials a
server over a pipe or over HTTP, keeps a registry of servers, their credentials
and tasks on disk, holds connections open in daemons, serves a saved server to
others, and looks for servers in catalogues.  This directory models it in two
ways.  Where a server, a second process, a crash or a clock may step in between
two lines of code, there is a state machine, with everything those may do.  Where
the code is an algorithm over texts and lists, there is a module of operators,
checked against a definition of what it promises over every small input.  Paths
below are relative to the crate's `src/`.

Contents: [The system](#the-system), [Modules](#modules), [Runs](#runs),
[Findings](#findings), [Proofs](#proofs), [Not modelled](#not-modelled),
[Plan](#plan).

## The system

| Component | Source | State it keeps | Operations | Interacts with |
|---|---|---|---|---|
| Stdio transport | `transport/stdio.rs`, `transport/mod.rs` | child process, channel of lines, request in flight, deadline | exchange, poll, listen, close, drop | reader thread, server process, session |
| HTTP transport | `transport/http.rs`, `transport/retry.rs` | session id, negotiated version, legacy endpoint, tokens, idempotent tools | send with at most one more attempt, hold a stream open, close | server, token source |
| Session | `session.rs`, `protocol.rs`, `notify.rs` | next id, era, capabilities, mechanism of subscription | open (handshake or discover), request, listen, paginate, answer demands for input | transport, commands |
| Daemon relay | `daemon.rs` (serve, serve_one, await_answer, SocketTransport) | queue of callers, request in flight, idle clock, session with a server | attach, relay, ask back, stop, idle out | foreground processes, server |
| Daemon socket | `daemon.rs` (start, bind, attach, stop) | one socket file per server name | start, attach, replace what is stale, remove | every process that names the server |
| Serve (proxy) | `serve.rs` | upstream sessions by id, jobs, shutdown | open, relay, answer alone, evict, delete, shut down | its clients, the saved server |
| Credential store | `config.rs`, `keychain.rs` | credentials in a file or the keychain, `config.json` | save, remove, move between stores | every process of the user |
| Files and their lock | `config.rs` (FileLock, write_json) | each file of the config directory, its lock, its siblings being written | lock, read, rewrite, rename | every process of the user |
| Tokens | `oauth.rs`, `client.rs`, `cmd/auth.rs` | one credential per server, a login under way | log in, refresh, renew after a 401, set, log out | browser callback, authorization server, store |
| Notes | `config.rs`, `client.rs`, `tasks.rs`, `cmd/servers.rs` | servers.json, probes.json, tasks.json | add, rm, ls, login, remember an era, note, list, cancel and forget a task | session, store, server |
| Shell and subscriptions | `shell/`, `subscribe.rs` | lists of what the server has, followed resources, answers for elicitation, numbered results | a line, drain and act on notifications, redial | session, terminal |
| Arguments, forms | `args.rs`, `schema.rs`, `prompt.rs`, `elicit.rs` | none | read, coerce, ask for, echo; answer a form | commands, session, person |
| Catalogue and registry | `registry.rs`, `catalog.rs`, `browse.rs`, `search.rs` | a copy of the registry, a cached catalog, the checklist | sync, convert an entry, tick, apply, search | registry, servers.json |
| Hosts' files | `import_config.rs`, `export_config.rs` | files of other programs | import, export, merge | servers.json |
| Checks | `snapshot.rs` | a file of tools | compare | commands |
| Output | `output.rs`, `media.rs`, `path.rs`, `transport/trace.rs` | files it made | write, cut, save blobs, follow a path, trace | commands |
| Commands | `cmd/`, `tasks.rs`, `diagnose.rs`, `failure.rs`, `validate.rs`, `grep.rs`, `pick.rs` | none | refuse, dial, list, call, explain, exit | all of the above |

A command is one process with one thread that talks to one server, plus a reader
thread for a pipe.  It reaches the server through a `Session` over one of three
transports: its own child process (stdio), HTTP, or the socket of a daemon, which
is itself a process with a `Session` over stdio.  What commands share is on disk:
the registry, the credentials, the notes, the daemon's socket.  Nothing
coordinates them but file locks and what a connect to the socket says.

What makes each component correct, and what makes that hard:

* **Stdio transport.**  A request gets its own reply or a failure, whatever the
  server writes meanwhile; nothing else it writes is lost; a server that asks
  before it answers is answered; every loop ends; no process is left behind.
  Hard because the pipe has no order: replies come late, after their request
  timed out, with questions in between, and a server may hang up at any line.
* **HTTP transport and session.**  A call is carried out once; one session per
  command, and it is given back; a remembered era never costs a command.  Hard
  because a lost reply looks like a lost request, and every step of opening may
  fail at the network, at the gateway and at the server, each with its own
  meaning.
* **Daemon relay.**  Callers queued behind one another are all served, and what a
  caller waits for can still come, and is the answer to its own request; a
  question of the server's is answered once.
  Hard because three parties give up independently, and the socket carries
  requests and answers to questions alike.
* **Daemon socket.**  A live daemon's path is left alone and a stopped one's is
  closed.  Hard because looking is five system calls.
* **Serve.**  A client gets the answer to what it asked, through a session it was
  given; no session is left open; eviction takes the stalest; a shutdown tells
  everyone.  Hard because many threads put jobs to one, clients leave without a
  word, and the map is bounded.
* **Credentials, files, tokens, notes.**  No save is lost, no half of a file is
  read, a move loses nothing wherever it is interrupted; a rotated refresh token
  is the one saved; a client id goes to nobody but its issuer; what is remembered
  of a server is never believed of the next one saved under its name.  Hard
  because it is concurrency of processes over files, with kills, and because what
  a command read before it dialed it still uses after.
* **Shell.**  What it completes from, and what it shows of a followed resource, is
  no older than what it was told.  Hard because notifications come at any time, are
  taken in batches, and a session drops and is dialed again under it.
* **The algorithms.**  What is written reads back as what it was; what is typed is
  what is taken; what is compared, searched or looked up is all that there is.
  Hard because of the corners: blanks, quotes, placeholders, two things of one
  name, bounds that are met exactly.

## Modules

Some definitions come with a mutated twin just before them, under the comment
"A slip": it is what the definition would be after a plausible mistake in the
code, and each property is broken by one of them.  No action refers to a slip.

### State machines

| Module | Models |
|---|---|
| `Protocol` | the lines of a pipe and `classify` |
| `RequestReply` | abstract: requests made one at a time, each ended once, by its own answer or a failure |
| `Framed` | `transport/stdio.rs`; implements `RequestReply` |
| `DaemonRelay` | the inside of `daemon.rs`: callers, the daemon, the server's pipe |
| `DaemonSocket` | the outside of `daemon.rs`: the path, and who looks at it |
| `HttpSession` | `transport/http.rs` and `retry.rs` under `session.rs`'s opening and requests |
| `CredentialStore` | credentials in `config.rs` and `keychain.rs`, with the commands that change them |
| `Files` | one file of `config.rs` and its lock, with `flock` and without |
| `ServeProxy` | `serve.rs` |
| `Tokens` | `oauth.rs` (login, refresh), `client.rs` (select, renew, challenge), `cmd/auth.rs` |
| `Notes` | statuses, eras and tasks: `config.rs`, `client.rs`, `tasks.rs`, `cmd/servers.rs` |
| `Shell` | `shell/` and `subscribe.rs` |
| `FramedProofs`, `HttpSessionProofs`, `CredentialStoreProofs`, `FilesProofs`, `ServeProxyProofs`, `TokensProofs` | theorems, each about the module it is named for |
| `LongLivedProofs` | theorems about `DaemonRelay`, `DaemonSocket` and `Shell`; it extends all three, so the definitions the last two would share with the first carry a prefix (`SocketSpec`, `ShellSpec`) |
| `CommandProofs` | theorems about `Notes`, and about seven modules of [algorithms](#algorithms) for every input |
| `MC...` | the constants of the runs; `CredentialStore`, `Files` and `ServeProxy` need none of their own |

#### Framed

One client process, one reader thread, one server.  `pc` says which loop of the
code runs (`exchange`, `poll`, `listen`), `lines` is the channel between the
threads, `result` what each request came to.  `Request` is a write to the child
followed by the loop's start; one action takes one line (`Framed::take`) with all
the surrounding loop then does about it: `TakeReply`, `TakeAsk` (answered on the
spot, and the exchange broken if that write fails), `TakeNote`, `TakeNothing`.
`Deadline` is the clock and `TimeOut` the loop noticing it, which the code does
only when `recv_timeout` finds the channel empty; `ListenEnds` and `PollDone` are
the two other bounds.  `Close`, `Reap` and `Drop` are the ends of the child.  The
peer may answer late, out of order or never, ask under ids that collide with
ours, notify, write what is not JSON, close its pipes and die.

A message is a record with an id, whether it has a method, and a `tag` the code
cannot see: which request the peer meant the reply for.  `OwnReply` is about the
tag, so that an id that is used twice shows.  `Fate` maps a request to the state
`RequestReply` gives it, with a value outside that specification for a request
answered by another's reply, and `KeepsPromise` is the refinement.

#### DaemonRelay

The daemon's loop is `doing`: accepting, reading the caller being served,
waiting in an exchange, waiting for the caller's answer to a question of the
server's (`await_answer`), closing.  `up` and `down` are the socket of each
caller, `queue` the connections that were accepted and not yet served.  The
pipe's side is `Framed` reduced to what the relay can tell apart: one request in
flight, lines classified against its id, three ways for it to fail.  Callers
send, take what comes, give up, are cut off and leave; `ServeInitialize` answers
from the daemon's own handshake without the server, `ServeStop` ends it,
`ServeLateAnswer` drops an answer nobody waits for any more.

`gaveUp` is history: whose timeout has passed - a caller's, the daemon's on the
server, or `CALLER_PATIENCE`.  `WaitsForSomething` holds until a caller has given
up: it may send its next request while the daemon reads for its answer to a
question, and the daemon drops it.  `OneAnswerPerAsk` holds until
`CALLER_PATIENCE` has run out: the default answer goes to the server, and the
caller's own, when it comes, as well.  `EachGetsItsOwn` holds until the daemon
has timed out on a request, whose reply may then be given to another caller.
`Alone(c)` is the abstract `RequestReply` of the requests of one caller, as `Abstract`
of `Framed` is of those of a pipe.  `NumbersUpward` assumes of the callers what a
session provides: its ids go up, and another's may be the same.

#### DaemonSocket

The path names a daemon or nothing (`file`), and a daemon's socket accepts or
does not (`open`): a killed daemon leaves a path that no longer accepts.  Each of
exists, connect, remove, bind and listen is an action of its own, for `start`
(through `bind`), `attach` and `stop`, and any other process may step between any
two of them; nothing in the code prevents it.  So a live socket is not always left
alone (see [Findings](#findings)), and the properties say exactly when it is:
`upThen` is history, who was listening when each process found the path stale, and
`lost` is, which daemons had their path removed by a process that had tried it
before they listened, or by a daemon that had lost its own and removed the path as
it ended.  `LiveLeftAlone` and `StoppedMeansClosed` except the daemons in `lost` and
no others: not one that was listening when it was tried, and not one that only
another's kill or restart happened beside.
Connecting while the daemon is between bind and listen fails like connecting to
a stale socket.

#### HttpSession

One command at a time against one server, and again, with the server replaced
between two (`Upgrade`) while the note of its era stays.  A command is: `Open`,
the exchanges of the opening, `Request`s, `Leave`, `Close`, `Exit`.  An exchange
is a POST (`Ask`), the server carrying it out and its reply coming whole or
broken (`Handle...`), or its being lost before that (`Undelivered`), and then
`Retry` - `worth_retrying` - or the outcome for that method.  The faults are
those `Transient` and `Attempt` tell apart: refused, reset after the server was
done, timed out, 429, 502 to 504, a stray status, a reply broken off after its
headers, and a session the server has forgotten (`Expire`).  Opening follows
`expecting` and `open`: the era of the note or of the pinned revision first,
`discover`, then `initialize` and `notifications/initialized`, with
`expectation_was_wrong` and the probe for a retired endpoint.

A protocol revision is a number in the order of the dates; a server is the set
of those it speaks, `{}` for one that has only the retired SSE endpoint.

* `RunsOnce` excepts `misled`: a call that was carried out and whose failure
  reads as though it had not been (see [Findings](#findings)).
* `NoneLeftOpen` excepts `moved`: when a server accepts `initialize` and refuses
  `notifications/initialized` with a code that means the wrong era, `open`
  (session.rs:469) starts again while the transport still carries the first
  session's id and version.  That session is never closed, and what comes after
  is sent under its id, though the comment at http.rs:53-59 has a session of the
  newer era stay without one.  It is about sessions named by a whole reply: one
  glimpsed in the headers of an initialize reply that broke off is not kept, and
  not closed.
* `NoteCostsNoCommand` excepts a server whose only revision with a handshake is
  one the client has never heard of: under a stale note that it shakes hands, its
  answer to `initialize` ends the command though `discover` would have worked; and
  a server that refuses `initialize` in a way that says nothing of methods, revisions
  or routes (`Unforeseen`), for the same note is not given up then.

Each of these conditions is needed: without it TLC finds a violation.

#### CredentialStore

`file` and `keychain` are the two stores, `backend` what `config.json` records.
A command is a process: `Begin` says what it is, `Work` is its next file or
keychain operation, `Stop` its death or the failure of a call.  The lock of
`credentials.json` is a `flock`: it goes with the process.  Saving to the file is
a lock, a read of the whole (`LockAndRead`) and a rename of the whole
(`Rewrite`); saving to the keychain is one call; which of them is read from
`config.json` before either (`ReadBackend`).  A move is `MoveLooks`, `MoveLocks`,
`CopyOne` for each name, `Copied`, `Record` (the switch) and the removal of the
old copies.  `servers.json` is rewritten under a lock that covers nothing else,
so its rewrites are one step.

Ghosts: `kept` is what was last saved for each name and not forgotten, `moves`
that a move has begun, `overlap` that two commands have run at once.  `Current`
(the store in use holds exactly what was last saved) excludes moves: a save reads
`backend` before it takes the lock, and writes to the old store if a move comes in
between.  `NeverInNeither` excludes overlap, for the same reason and because a
keychain save takes no lock a move would wait for.

#### Files

What `CredentialStore` takes for granted of a rewrite.  Every process adds one
entry of its own to one file: it takes the lock (`Take`), reads, writes a sibling
and renames it (`Rewrite`), or fails or is killed at any step.  `flock` and
`writable` are chosen at the start.  Where there is no flock the lock is a file,
`age` says how long it has been untouched, a process that finds it abandoned
removes it in two steps (`removing`: it looked, another may have removed it and
made its own since), and one that is not let create it gives up after three
tries.  `Leaving` is a lock file whose deletion has not finished, which platforms
without flock have.  `Tick` is the clock.

`WholeFiles` and `NothingLost` are about all of this at once, `seized` excepting
from the second the lock that was taken away from a live holder.  `WritersEnd`:
everyone gets the lock, or an error, in the time that was promised.

#### ServeProxy

Connections are threads (`conn`, `request`, `answer`), `jobs` their channel to the
owner thread, `working` the request whose upstream reply the owner waits for.
`sessions` is the map in the order of use and `upstream` what the server holds
open: `make_room` ends the stalest before the new one is known to open.  A client
may name any id it was ever given, leave while it waits, delete its session.  Over
stdin and stdout there is one client, the session is implied, and a second
initialize opens a second.  `Interrupt` sends a shutdown through the channel; the
owner ends every session and the process exits, or is killed.

#### Tokens

`saved` is the one credential of a server, `held` the copy a process works with,
and nothing is locked between reading one and saving the other.  A call is
`SelectToken`, `Renew` (or `RenewRefused`, `RenewLost`), `Save`, `Dial` and
`Challenged`, which reads the credential again.  A login is `Prepare` (the flags,
the port that could be bound, the client that may be used again, the registration
and its fall-back host), `Callback` (what arrives on the listener, from whomever,
whoever it says it is) and `Redeem`.  The servers are external: `token` says how
each access token fares, `good` which refresh tokens work, `Rotating` which
servers replace them, `home` which authorization server the MCP server names; the
last may `Move`.  Ghosts: `code`, who sent the code a login is to redeem; `alone`,
the calls that nothing interferes with, about which `RenewsWhenRefused` is;
`spoiled`, that a reply with a rotated token was lost, or `token set` wrote back
what it had read before a rotation, after which `RotationIsFollowed` says nothing.

#### Notes

One name, the config saved under it (`server`), and what is remembered of it:
`probe` (a status and an era, each keyed by what it was found out about) and
`noted` (task ids).  Commands replace and remove the config, log in and out, list
servers (which dials and then saves the statuses), connect (which dials and then
notes the era) and start, list, cancel and collect tasks, every read and write of
a file a step of its own with the dialing in between.  `of` is a ghost in each
note: what was really dialed.  `mixed` excepts a credential that came or went
while a listing dialed: the key is made from the one before, the status from the
one after.

#### Shell

`server.at` numbers the versions of each list and resource, `unread` the
notifications that were sent and not yet read, `lists` what the shell has,
`subs` the `Subscriptions`, `acting` the events taken and not yet acted on.  A
line is an action (`Call`, `Read`, `List`, `Raw`, `Subscribe`, `Elicit`, ...);
before the prompt the shell drains (`Poll`), rereads what it follows (`Reread`),
drops what changed (`Refresh`).  `Dies` is a session lost at any time and
`Redial` what the next line does about it, which registers again what was
followed.  `heard`, `failed` and `refused` are history.

### Algorithms

Each is a module of operators named for the functions they model, ending in what
has to hold of them.  `MCFunctions` instantiates them all: its state is an area
and one case of it, an action picks the case, and a property looks at every case.
The inputs are the characters, names and records the code tells apart - never
more than a few - in every combination up to a length.

| Module | Models | What has to hold |
|---|---|---|
| `Arguments` | `args.rs`, `schema.rs`, `prompt.rs` | a call that was filled in has what its tool requires and keeps what it was given, as the type it was asked for; the line it is echoed as makes it again; a shell line means what the same words on a command line do |
| `Forms` | `elicit.rs` | a form is answered with what its schema allows; what nobody can answer is declined at once |
| `Entries` | `registry.rs`, `catalog.rs`, `browse.rs` | a registry entry is saved whole, with the values in the order given, as the transport the catalog promised |
| `Catalogue` | `registry.rs`, `catalog.rs` | the copy of the registry keeps nothing that is gone and loses nothing that is not, over syncs that fail, are cut short or go elsewhere, and over pages read while the registry changes, but for a change behind the reader; the catalog is that of its source |
| `Checklist` | `browse.rs` | keys act on the row that is shown; applying saves all that was ticked and removes, if agreed on, what was unticked, and of what other commands save and remove between its steps touches nothing but a server saved in the window before its own (see [Findings](#findings)) |
| `CommandLine` | `transport/stdio.rs`, `import_config.rs`, `export_config.rs`, `config.rs` | a joined command line splits into its words; an escaped `${VAR}` is itself; a TOML string and a merged Codex file read back |
| `Hosts` | `import_config.rs`, `export_config.rs`, `cmd/servers.rs` | what is exported is imported as the same server; nothing is overwritten unasked |
| `Snapshot` | `snapshot.rs` | what passes a check takes the calls written for the snapshot; a server passes its own |
| `Results` | `shell/history.rs`, `output.rs` | a number finds the result printed under it; a file holds all of the output or is not ours |
| `Media` | `media.rs`, `session.rs` | every blob is in a file of its own, nobody else's is overwritten |
| `Looking` | `grep.rs`, `search.rs`, `path.rs` | every listing is looked through or reported; ranks are as promised; feeding `jq` ends |
| `Completion` | `shell/complete.rs` | what Tab writes is the beginning of something the schema or template allows |
| `Messages` | `session.rs`, `protocol.rs`, `notify.rs`, `transport/http.rs` | a request says what its caller and the last demand gave; every page is read once and the listing ends; a reply is the same whole or as it streams |
| `Dialing` | `client.rs`, `config.rs`, `validate.rs` | a glob matches what it describes; a denied tool is never permitted; what is dialed is what was saved; a status is that server's |
| `Discovery` | `oauth.rs` | the authorization server found is the one named; its issuer is the one looked for; a secret goes once, to its server; forms and addresses read back |
| `Tracing` | `transport/trace.rs` | every message is told, without its secrets; dates follow one another |
| `Commands` | `cmd/invoke.rs`, `cmd/discover.rs`, `tasks.rs`, `diagnose.rs`, `failure.rs`, `validate.rs` | a tool runs once at the most, and not at all for exit 2 or 3; hints fit; the nearest name is the nearest |
| `Picking` | `pick.rs`, `main.rs` | nothing is called that was not picked to the end; a line given back is its row |

## Runs

| Run | Question | Instance | States |
|---|---|---|---|
| `framed` | does the transport lose nothing, leave no process, and implement `RequestReply`; does every call end? | 2 requests with ids 1 and 2, 2 lines per poll, 2 messages per listen, a channel of 2, 2 lines the server writes unasked and any number of meaningless ones | 96,000 |
| `relay` | can what a caller waits for still come, is it the answer to its own request, is a question answered once, is everyone served? | 2 callers that number alike: initialize and a call, a call and a stop; 1 line unasked | 396,000 |
| `socket` | is a live socket left alone, and a stopped daemon's closed, whoever looks meanwhile? | 3 daemons, 2 commands, 1 stop, 2 kills; daemons and commands symmetric | 324,000 |
| `http` | does a call run once, is every session given back, can a note do harm, does a command end? | 2 revisions with a handshake and 1 without, 1 older and 1 newer than the client knows, 15 kinds of server, 1 demand for input answered | 688,000 |
| `store` | is a save or a move ever lost? | 2 processes, 2 names, 3 commands, 1 interruption | 174,000 |
| `files` | is a file ever torn, an entry lost, a writer stuck, with flock or without? | 3 writers, 1 killed, a lock that is stale after 1 tick and waited for 2 | 58,000 |
| `serve` | are answers one's own, sessions bounded and given back, evictions fair, shutdowns told? | 2 clients or a host, 2 sessions, 4 requests | 208,000 |
| `tokens` | do client ids, codes and rotated tokens go where they belong, and is what can be renewed renewed? | 2 processes, 2 authorization servers of which 1 rotates, 2 ports, 3 tokens, 1 revoked early, 3 commands | 1,121,000 |
| `notes` | is what is remembered believed of another server, or a task's note dropped early? | 2 processes, 2 configs, 2 tasks, 3 commands | 1,427,000 |
| `shell` | are lists and followed resources as new as what was said of them, over drops? | 2 lists, 2 resources, 2 changes, 3 lines, 1 drop | 1,463,000 |
| `functions` | the nine promises of the algorithms | 59 areas of cases | 1,332,000 |
| `shell_answers` | are the answers last typed with `elicit` the ones used? | 1 list, 1 resource, 3 lines, 1 drop | violation |

### Why the bounds are enough

* `framed`: two requests are what a late reply needs (one that gave up, one that
  waits).  The limits of poll and listen are 2, so that both "reached" and "not
  reached" happen with lines still in the channel; in the code they are larger
  and only counted.  The channel is unbounded in the code: `MaxBuffered` bounds
  it, and a line more would add only lines behind those two.  `MaxTalk` bounds
  what the server says that means something; noise is unbounded, which liveness
  needs.
* `relay`: two callers are the least in which one waits, one is queued, and a
  question is open.  The calls of both bear the same id, so that an answer could go
  to the wrong one; the last request of one is the stop that ends it all.
* `socket`: two processes race for the path of a third, which a late try of either
  can take; the third daemon is also the one started after one was killed and its
  successor ended.  Commands and stops only ever look once.
* `http`: two revisions with a handshake, so that a server may offer another than
  the client proposed; both ends of the range of the unknown ones.  There are at
  most two openings and two attempts, so four session ids: that is the code's
  bound, not the model's.  `Rounds` is `MAX_INPUT_ROUNDS`, and is counted only.
* `store`: three commands are a save, a move and a change beside or after it; an
  interruption is followed by up to two more.  Two names, so that a move can be
  between them and a rewrite can lose another's entry.
* `files`: three processes are a holder, one that finds the lock abandoned and one
  that takes it from under that one; stale after 1 and give up after 2 keep the
  order of the code's 30 s and its longer wait.
* `serve`: the map is full with two sessions, and the third evicts; four requests
  let each client open, be evicted and come back.  `MAX_SESSIONS` is larger, and
  only compared with.
* `tokens`: a login, its renewal, and one more by a process that raced; three
  commands are two that race and the one that made what they race for.
* `notes`: a config, what replaces it and back again; two commands that write one
  file.  A third would only be another writer of the same.
* `shell`: two changes let a list change once more while the first change is acted
  on; with two lists and two resources one may fail while the other is read.
* `functions`: the lengths are those at which every branch of a function is taken
  with something before and behind it; each area's alphabet has every character
  the function looks at and one it does not.

`CHECK_DEADLOCK FALSE` stands where the system does stop: every request made,
every caller gone, every command run, every case decided.  The HTTP commands go
on for ever.

### Fairness

* `Framed!Fairness`: weak fairness of this process's own steps - a loop that can
  take a line takes one, `close` goes on.  That is the scheduler.  Nothing is
  assumed of the server.  The clock and a server that answers are assumed by the
  properties that need them (`ClockRuns`, `PeerAnswers`), as antecedents;
  `PeerAnswers` lets the server wait whenever a question of its own is open,
  which is the deadlock `NoMutualWait` excludes.
* `DaemonRelay!FairSpec`: weak fairness of the daemon's loop and of a caller's
  reading; strong fairness of an idle caller leaving, because a caller is a
  command or a shell somebody ends; a server that answers in the end.
  `CallersAreServed` is about the runs where no timeout has passed: with them, it
  would hold for the wrong reason.
* `HttpSession!Fairness`: weak fairness of the exchange, because every attempt
  has a timeout, and of the command, which is one thread.  That it makes a
  request, leaves, or meets an upgrade is not assumed.
* `Files!Spec`: weak fairness of the clock, of a deletion that goes through, and
  of each process: it tries again as long as it waits, and its calls on files
  return.  That it ever gets the lock is not assumed; `WritersEnd` needs only that
  it notices how long it has waited.
* `ServeProxy!Fairness`: weak fairness of the owner thread as long as the process
  lives (each upstream request has a timeout), of the process ending once told,
  and of a waiting connection that hears of it.  Nothing of the clients.
* `CredentialStore`, `DaemonSocket`, `Tokens`, `Notes`, `Shell` and `MCFunctions`
  state no fairness, and no property of theirs needs it.

## Findings

`shell_answers` is a run in which the code does what the model says and its
documentation says it does not.  The answers typed with `elicit` are put into the
connection's `Answers`; redialing hands those on (shell/mod.rs:225), but what
answers the fresh session was installed at its handshake (client.rs:440) over
`Answers` of its own.  So what was set before the drop is used no more, and what is
set after it never reaches the session, though the comment above the line has a new
socket unask nothing and docs/reference.md:710 has `elicit` set the answers for
every call after it.

Others were met while modelling.  The runs do not look for them: each is an
exception a property names, or is outside what it is about.

**Transports and daemon**

* stdio.rs:149 - `exchange` notices its deadline only when the channel is empty:
  `recv_timeout(0)` still hands over a buffered line, so a server that is never
  silent holds a call open, though the comment at stdio.rs:120 bounds it.
  `CallsEnd` assumes a server that answers; `listen` looks at the clock itself.
* daemon.rs:456 - every caller counts from 1 and ids are relayed as they are: after
  the daemon timed out on one caller, the late reply is taken for the next caller's
  of the same id.  `EachGetsItsOwn` excepts it; `OwnReply` of `Framed` is proved for
  distinct ids only.
* daemon.rs:148 - a command, a start and a stop take any failed connect for a stale
  socket, and remove the path, which by then may be that of a daemon that has bound
  it since, and serves; daemon.rs:388 - such a daemon, as it ends, removes the path
  of whoever has it then.  The comment at daemon.rs:392 has a live socket left
  alone.  `LiveLeftAlone` and `StoppedMeansClosed` except these (`lost`).
* daemon.rs:506 - `await_answer` drops every line that is not the answer, among them
  the next request of a caller that gave up on the one before.
* retry.rs:122 - a connection reset after the server ran the call counts as proof
  that it did not, and the call is sent again (`misled`).
* session.rs:757 - a server that refuses `initialize` with a code or status other
  than those `moved_past_the_handshake` lists ends the command under a stale note
  (`Unforeseen`).
* session.rs:469 - an opening that starts again keeps the first session's id
  (`moved`); a session glimpsed in a broken reply to `initialize` is not closed.
* http.rs - on a legacy session a raw call that brings its own protocol version
  sends the header twice.  session.rs:569 - a listing that reaches `MAX_PAGES` or a
  repeated cursor ends without a word.

**Files, credentials, notes**

* config.rs:685 - a move interrupted after the switch returns at once when run
  again and leaves the old copies; config.rs:724 - a logout then removes only the
  new one, and a move back brings the other one back.
* config.rs:1338 - without flock, the lock file found abandoned need not be the one
  removed: two may hold the lock (`seized`).  A holder that was suspended for
  longer than the limit loses it.
* config.rs - what a save reads of `backend` it read before the lock (`Current`
  excludes moves; `NeverInNeither` excludes overlap).  config.rs:569 - `rm` removes
  the server first and its credential after.
* client.rs - between reading a credential and saving the renewed one nothing is
  locked: of two commands that renew, the loser of the race fails where the server
  rotates; a logout may be undone by a renewal that began before it; `token set`
  writes back the copy it read (`spoiled`).
* config.rs:778 - an era noted after `rm` leaves an entry of no server.
* tasks.rs:358 - any failure to ask about a task drops its note; tasks.rs:279 - the
  note is dropped although fetching the result failed.

**Login and discovery**

* oauth.rs - a pre-registered client is silently replaced by a registered one when
  its port is taken; any callback with a wrong state ends the login; metadata of
  the resource without authorization servers ends the search with the origin as
  the issuer; a challenge's parameter is the first that reads `key=`, even inside
  another's value.

**Serve**

* serve.rs:238 - the stalest session is ended before the new one is known to open;
  pings and denied calls do not count as use; notifications pass unfiltered; jobs
  behind a shutdown are answered 500; over stdio a second `initialize` leaves the
  first session to the limit.

**Shell**

* input.rs:69 - a request made while no one watches reads notifications and drops
  them; a failed fetch of what Tab offers is remembered as an empty list;
  the lists are not read again after a redial; how changes are subscribed to and
  when the token expires are not renewed by it.
* history.rs - a `read` with nothing in it, saved, makes an empty file.

**Algorithms**

* args.rs, schema.rs - a line with nothing but `:=` pairs skips the schema; a
  required name that has no property is never asked for; an array or object asked
  for as JSON takes any JSON.  elicit.rs - Enter takes the schema's default
  unchecked; a number always means the row, even for an option that is that number.
* browse.rs - blanks are told apart by their description; rows with one key flip
  the first; registry.rs:367 - what is still missing is saved all the same by
  `save_one`, and later answers move up (`BrowseSavesWhole` excepts it); a stdio
  entry of the catalog with no package that runs may be saved as its remote.
* browse.rs:855 - the names are read without the lock, and `add_server` then
  replaces whatever has the name: a server that another command saved in between
  is overwritten (`late`).  browse.rs:813 - what was unticked is removed by name after
  the dial and the question: a server saved anew under that name meanwhile is
  removed.  browse.rs:800, :813 - a listing or a removal that fails ends it all, with
  nothing, or not all, of what was unticked removed.
* registry.rs:298 - while pages are read the registry may change behind the reader;
  if a newer listing is on a later page the watermark passes that change, and no
  sync brings it before the name changes again or `--refresh` (`PagesAreWhole`
  excepts it).
* import_config.rs, export_config.rs - `${env:VAR}` in VS Code's authorization does
  not read back; input ids `a-b` and `a_b` are one; an import replaces a server of
  the same name from an earlier file of the same import; tables of Codex written
  inline are left.
* snapshot.rs - a newly required name without a property is not a change; an
  optional property whose type changes breaks, though only required ones are said
  to; two tools of one name fail a server's strict check against itself.
* pick.rs - a row that begins with a blank reads as nothing picked, two rows that
  read the same pick the first.  grep.rs - when every server was skipped it says
  there are none; a failed listing of resources loses the tools already listed.
* output.rs - a file begun and not finished stays; media.rs - with `--json` a blob
  that cannot be decoded fails the command after others were filed.
* failure.rs - the usage exit says nothing was sent, and some usage errors come after
  the handshake and a listing.  trace.rs - four names are taken for secrets, and no
  others.
* complete.rs - behind a value that closed, the cursor is taken as still in it.

## Proofs

All theorems hold for every value of the constants that the `ASSUME`s allow.

| Theorem | Says | By |
|---|---|---|
| `FramedProofs!TypeCorrect` | `TypeOK` | inductive itself |
| `FramedProofs!NoServerLeftBehind` | `NoOrphan` | inductive with the types |
| `FramedProofs!NoNoteIsLost` | `NothingLost` | inductive with the types |
| `FramedProofs!RepliesAreOwn` | `OwnReply`, if no two requests share an id | `IInv` |
| `FramedProofs!Refinement` | `KeepsPromise`, under the same hypothesis | `IInv`, and one step of `RequestReply` or none for each action |
| `LongLivedProofs!RelayTypeCorrect` | `TypeOK` of `DaemonRelay` | `RelayInv` |
| `LongLivedProofs!AnsweredOnce` | `OneAnswerPerAsk` | `AskInv` |
| `LongLivedProofs!OwnAnswers` | `EachGetsItsOwn` | `OwnInv` |
| `LongLivedProofs!AsIfAlone` | each caller is promised `RequestReply`, until the daemon gives up on a request | `OwnAnswers`, and one step of `RequestReply` or none for each action |
| `LongLivedProofs!NoneWaitsInVain` | `WaitsForSomething` | `WaitInv` |
| `LongLivedProofs!SocketTypeCorrect` | `SocketTypeOK` | with `Linked`, inductive |
| `LongLivedProofs!LiveIsLeftAlone`, `StopIsTrue` | `LiveLeftAlone`, `StoppedMeansClosed`, in whatever order processes look | `Inv` |
| `LongLivedProofs!OneDaemonOfAName` | of the daemons of a name that live at once all but one have lost the path | `Inv` |
| `LongLivedProofs!StopIsHeeded` | who acknowledged a stop serves nobody again | `ReachInv` |
| `LongLivedProofs!ShellTypeCorrect` | `ShellTypeOK` | inductive itself |
| `LongLivedProofs!NoListIsStale`, `FollowedStaysSo` | `ListsAreCurrent`, `FollowedIsKept` | `ShellInv` |
| `HttpSessionProofs!HttpTypeCorrect` | `TypeOK` | `TypeInv` |
| `HttpSessionProofs!RunsTwiceOnlyHarmlessly` | `RunsOnce` | `OnceInv` |
| `HttpSessionProofs!SessionsGivenBack`, `OneSession` | `NoneLeftOpen`, `NoSecondSession` | `SessionInv` |
| `HttpSessionProofs!AStaleNoteIsHarmless` | `NoteCostsNoCommand` | `NoteInv` |
| `CredentialStoreProofs!TypeCorrect` | `TypeOK` | inductive itself |
| `CredentialStoreProofs!NoSaveIsLost` | `Current` | `CurrentInv` |
| `CredentialStoreProofs!NeverLost`, `SwitchUnseen` | `NeverInNeither`, `SwitchKeepsAll` | `InTurnInv` |
| `FilesProofs!FilesTypeCorrect` | `TypeOK` | with `WholeInv`, inductive |
| `FilesProofs!NeverTorn` | `WholeFiles` | `WholeInv` |
| `FilesProofs!NoEntryIsLost` | `NothingLost` | `LockInv` |
| `FilesProofs!FailuresAreTrue` | who says that it could not save has nothing in the file | `WholeInv`, `Entered` |
| `FilesProofs!RewritesAtomically` | `AtomicSpec`: a rewrite is one step, with `flock` or until a lock is seized | `LockInv`, `Entered` |
| `ServeProxyProofs!TypeCorrect` | `TypeOK` | `OrderInv` |
| `ServeProxyProofs!AnswersReachTheirs` | `AnswersAreOwn` | `OwnInv` |
| `ServeProxyProofs!NothingLeaks` | `NoSessionLeaks` | `Inv` |
| `ServeProxyProofs!TheStalestGo` | `OnlyTheStalestGo` | `OrderInv` |
| `TokensProofs!TypeCorrect` | `TypeOK` | `TypeInv` |
| `TokensProofs!SavedStillWorks` | `RotationIsFollowed` | `RotationInv` |
| `TokensProofs!EachItsOwn` | `PresentsItsOwn` | `CoherentInv` |
| `TokensProofs!AloneIsRenewed` | `RenewsWhenRefused` | `AloneInv` |
| `CommandProofs!NotesTypeCorrect` | `TypeOK` of `Notes` | `Inv`, `NotedTasks`, `Tells` |
| `CommandProofs!BelievedOfWhatItIs`, `NotesStay` | `BelievedOfItself`, `NotesAreKept` | `Inv` |
| `CommandProofs!JqNeverHangs` | `Looking!NobodyWaitsForever`, for any document and any `jq` | `FilterInv` |
| `CommandProofs!SearchesAreHonest` | a search runs over what its registry held at the last sync, as new as was asked for | `CopyInv`, `MergeIsWhole` |
| `CommandProofs!PassingIsAPromise` | `Snapshot!KeepsThePromise`, if the server names no two tools alike | `StillTaken`, `TheSameTool` |
| `CommandProofs!GivenAnswersFit` | `Forms!AnswersWhatWasAsked`, unless a person is asked | cases of the reply |
| `CommandProofs!NamesReadBack` | `Messages!HeadersReadBack` | cases of the header |
| `CommandProofs!SavedHeadersReadBack` | `Dialing!HeaderIsWhole` | `TrimmedIsTrim`, `CutOnce`, `ReadBack` |
| `CommandProofs!GlobsSayWhatTheyMean` | where the loop of a glob ends, it says what `Dialing!Describes` says, for any pattern and name | `GlobInv` |
| `CommandProofs!EachSeesItsOwnToken` | `Dialing!StatusIsTheirs` | `DialEnds`: the ways a dial ends |
| `CommandProofs!SavedIsDialed`, `RowsAreTheirs` | `Dialing!DialsWhatWasSaved`, `RowsAreOfThisServer` | `ExpandedIsFilled`; cases of what is noted |
| `CommandProofs!SecretsAreTheirOwn`, `MachinesRenewAsGranted` | `Discovery!SecretIsItsOwn`, `RenewsAsGranted` | `SecretOnce`, `GrantIsWhole` |
| `CommandProofs!TheServerIsTheirs` | `Discovery!DiscoveryIsTheirs` | `AskedUntilAnswered`, `AskedInTurn` |

The arguments:

* **Own replies.**  `OwnReply` is not inductive: the reply about to be taken might
  be anyone's.  `RepliesNameTheirRequest` adds that each reply in the channel has
  the id of the request it was made for, and `InOrder` that requests are made in
  order and only the one in flight is unfinished.  `take` compares ids; with
  `DistinctIds` the same id is the same request.  `DistinctIds` is a hypothesis
  and not an assumption of the module, because it is what the daemon's callers
  do not provide: a session counts its ids up, two sessions count from 1 both.
* **Notifications.**  `NothingLost`: what was heard is the first of what the server
  sent, in order, and the channel holds the rest, each once and in order.  It is
  inductive with the types, because every loop takes from the front and each end
  of a loop leaves what it has not taken.
* **The relay.**  `RelayInv`: each line on a caller's socket is of a request of its
  own.  `AskInv` counts: a question put to a caller is on its way there once, or its
  answer is on the way back once, or the caller has left (`Put`), and what the
  server has asked and the daemon not yet read is not answered (`Owing`); the
  daemon's own patience is the one exception, and a hypothesis of the property.
  `WaitInv`: of a caller that waits exactly one thing is about - its line, the
  server's work on it, or the reply (`Attended`) - as long as no caller gave up,
  after which ids may meet again.
* **The relay's answers.**  Ids do not tell callers apart, since each numbers from 1
  and the daemon passes ids on as they are; what does is that the daemon has one
  request in flight.  `OwnInv`: until it gives up on one, the replies it has not
  read and the one still owed are to the request in flight (`Due`), hence those
  it passes on are to the request of the caller it serves (`RepliesTold`).
  `AsIfAlone` then maps the requests of one caller to `RequestReply`: what the others
  do leaves them as they are.  Its hypothesis, that the daemon has not given up,
  is the one under which it is true, as daemon.rs:456 shows.
* **Running twice.**  `OnceInv` follows the request at hand: as long as it may be
  sent again whatever its method, it has not been carried out, or the failure was
  misleading, or the tool was listed as idempotent.  `Noted` ties what the
  transport believes of the tool to the last listing that arrived.
* **Sessions.**  `SessionInv`: no session is known until the one `initialize`;
  from then on at most the one the transport keeps, or the one it glimpsed and
  gave up over.
* **A stale note.**  `NoteInv` follows an opening that nothing hinders (`Fits`): what
  the server can say to each request is known from the revisions it speaks, and a
  handshake tried without a note comes after a discovery that was refused; only a
  refusal of `initialize` that is `Unforeseen` ends an opening that could go on.  That
  the newest of a set of revisions exists and is one of them (`NewestIsOne`) is
  shown by a least counterexample, from the well-foundedness of `<`.
* **Revisions.**  That `version` stays among those the client knows needs `Offers`: an
  `initialize` only ever offers, and is only ever answered with, a revision that
  has handshakes.
* **Saves.**  While nothing moves, every process between its look at `config.json`
  and its end writes to the same store, and what it has read under the lock is
  still what the file holds (`ReadIsFresh`), because the lock has one holder:
  `TypeOK` says the holder is the process between reading and its end.
* **Moves.**  For commands in turn: while copying, the names already gone through
  are the same in both stores (`Copying`); after it all are (`CopiedAll`), so that
  recording the switch changes nothing that is found (`SwitchUnseen`).  What was
  saved and not forgotten is found (`KeptIsFound`); the converse is not
  invariant, since an interrupted move leaves copies.
* **Rewriting.**  `WholeInv`: who renames a sibling into place has filled it, and
  nobody else touches it, because its name is its process's.  `LockInv` holds with
  `flock`, or until a lock file is first taken for abandoned: who is at the file
  is who the lock names (`Exclusive`), so what it read is still there when it
  writes (`ReadIsFresh`), and what it wrote is there when it says so (`Landed`).
  Under the same condition the steps of a rewrite implement the one step of
  `AtomicSpec`, which joins an entry to those that are there: it is taken at the
  rename, and everything before and after stutters.  `Entered` says of any lock
  that an entry in the file is of a process past its rename, so that who fails, at
  whatever step, tells the truth (`FailuresAreTrue`).
* **The path.**  Processes look in any order, and no lock is assumed, because `start`,
  `attach` and `stop` take none.  Who finds the path stale has not tried the path of
  a daemon that listened then, and as only a new bind names a path, the path will
  never be that daemon's again (`TriedOthers`); so what it removes later is nobody's,
  or belongs to a daemon that began to listen after the try, which is what `lost`
  records.  Hence whoever lives and has not lost the path is who the path names
  (`PathKept`), from which the three theorems follow: a daemon keeps its path but for
  that race, one whose path is gone has closed its session or lost the path (`Told`),
  and two that live cannot both have it.  What holds even of those that lost it is
  between processes that reached each other (`ReachInv`): who is linked to somebody is
  linked to a daemon that has served, and one that heard a stop never serves again.
* **The map of `serve`.**  A session is opened only after room was made for it
  (`Bounded`), the map holds each session once (`Distinct`), and each client waits
  for one job at most (`Queued`), so the session a job was about is still the
  client's when its answer comes.
* **Order.**  `OrderInv`: of two sessions in the map the later one was used or opened
  since the earlier one was last used (`Ordered`), so that the front is the stalest;
  `Counted` bounds the ids by the requests made, one pending at a time for each
  client, and `Known` says that what is held or given has been minted.
* **Rotation.**  What a command is about to save after a renewal works, and if it
  replaced another token nobody else knows it yet (`AtSave`); so two that race for
  one rotation cannot both win, the one that lost is refused before it saves
  anything, and what is saved works or is about to be replaced (`Followed`).
  `OneIssuer` is why a server that rotates and one that does not are never about
  the same refresh token.
* **Alone.**  `AloneInv`: as long as a call runs alone, what it holds is what is saved
  and works (`Undisturbed`), step by step from reading to the second dial; a
  refusal is remembered only until the renewal that answers it (`ChallengedWhile`).
* **Clients.**  `CoherentInv`: what is saved, and what any command holds, pairs a
  client with the server that issued it and a registered one with its redirect;
  a login keeps a saved client only for that server and that very redirect.
* **Notes.**  What a command dials is the config it read, and what it notes is keyed
  by that same reading (`DialsWhatItRead`, `KeyedByItself`), whatever is saved
  meanwhile; that is why the note is believed of nothing else.  `ToldBefore`: a
  command that is about to drop a note has told somebody.  `mixed` excepts only the
  credential, which is read again when dialing.
* **The shell.**  `ShellInv`: a list, or a followed resource, that is behind what was
  heard of it is pending or about to be acted on (`ListsFollow`,
  `ResourcesFollow`), both of which are empty at a prompt (`Settled`); nothing is
  heard that has not happened (`HeardOfWhatIs`); and with `resources/subscribe`
  whatever is followed is registered with the session there is now, or was refused
  (`RegisteredOrRefused`), which the drop of a session and the redial must keep.

* **The filter.**  `FilterInv`: what `jq` gave is in the pipe or read, one that
  has exited reads no more, and the end of its output is seen after the last of it.
  The document is fed by a thread of its own, so that there is no state in which
  each waits for the other; `jq` may take, give, stop reading and exit as it likes.
* **The copy.**  Of a registry that went through any updates, the copy after a sync
  holds for each name the latest of the updates up to then, unless that deleted it
  (`MergeIsWhole`): from nothing by the whole listing, and from an older copy of the
  same registry by the updates since.  `CopyInv` says that the copy on disk is such
  a copy, of some registry, at some time that has passed.
* **The check.**  A difference that breaks a caller of one tool is among those of the
  whole (`OkOfOne`), so a check that passes found none, and each call of the tool as
  it was is one the tool as it is takes (`StillTaken`).  Strictly, no difference
  means the same tool (`TheSameTool`), and a tool does not differ from itself
  (`NoDifference`).  The hypothesis that names differ is needed: of two tools of one
  name a server fails its own strict check (see [Findings](#findings)).
* **The saved header.**  A text is trimmed from its first to its last character that is no
  space (`TrimmedWithin`), so a trimmed one stays as it is (`TrimStays`) and loses a
  space put before it (`SpaceIsTrimmed`).  It is cut at its first colon (`CutOnce`), so
  that the name holds none, and the first colon of what is written out is the one
  between the two (`ReadBack`).
* **The glob.**  `GlobInv`: before the first star what the whole pattern says of the name is
  what is left of it says of what is left of the name; after one, the name matches
  exactly if what follows the last star matches from where that star is or from further on
  (`Compared`), and every such place is one the comparison so far allows.  That is why
  only the last star needs widening: giving more to an earlier one finds no match the
  last one does not.  A star, a letter and a widening keep it (`StarKeeps`,
  `LetterKeeps`, `WideningKeeps`), and at the end of the name only stars may be left
  (`StarsAreLeft`).  The theorem is of the loop as a state machine; that the recursive
  `MatchesGlob` is where the loop ends is induction over data, and `DialsAsSaved`
  compares it with `Describes`.
* **The token.**  `DialEnds` lists the ways a dial can end, with what was presented in
  each; a status, and whose fault it is, follows from how the one dial ended.
* **The fields and the rows.**  `ExpandedIsFilled`: either no field holds a variable nothing
  is said of, or the one that is named does (the first, which `LeastExists` gives).  What
  is filled in holds words only, so filling it in again changes nothing; an address
  whose scheme would be a variable is refused by `add`, which fills in a word for
  each.  A row is noted under the key it is looked for with, and its age is counted
  from the time that was noted with it.
* **The secret.**  Of a request's fields only `AuthenticateClient` adds a secret, at
  the end of fields that are none (`PlainHasNoSecret`, `SecretOnce`); the optional
  fields before it lose none of those that are there (`OptionalIsPlain`).
* **The search for a server.**  `AskedUntilAnswered`: of a list of addresses the first
  that stops it ends it, so one that failed is the last that was asked.  The two
  searches are appended (`AskedInTurn`): the addresses of a resource and those of a
  server differ by their place, none of either list is there twice unless a
  challenge hinted at it, and all of the second are at the issuer's origin, which is
  the one the resource's document named.

Sequences are gone through by their first index that fits, which exists because `<`
is well-founded on the naturals (`LeastExists`); no theorem assumes a bound on a
length or an alphabet.

Every invariant and action property that the runs of the state machines check is
stated by one of the theorems, but for `LastAnswersUsed`, which does not hold; and
each state machine has a theorem that its types hold.

Only model-checked: every liveness property (`CallsEnd`, `NoMutualWait`,
`CallersAreServed`, `RequestsEnd`, `WritersEnd`, `EveryoneIsTold`), since the
prover does not reason about fairness and `ENABLED`; and what of `MCFunctions` the
theorems of `CommandProofs` do not state.  Its nine invariants are conjunctions
over all the algorithms, and many of these fold or recur over what they are given:
arguments and command lines, configurations written and read back, completion,
pages and event streams, form bodies and challenges, traces, the keys of the
checklist and the list of `pick`, a form that a person fills in.  Proofs about them
would be inductions over data.  Of `DialsAsSaved` only `ListsAgree`, which selects from a
sequence, and the recursion of `MatchesGlob` are left to TLC.

## Not modelled

Left out of the modules above: the wording of errors, hints and prompts; the
stderr tail of a server; the bytes of HTTP and the encoding of headers; the
permissions of the run directory and the pipe on which `start` learns that its
daemon is ready; the environment variable that forces a backend; the formats a
string of a form may be required to have; the catalog's own checks of its entries;
the comparison of the shared secret of `serve`; where each host keeps its files;
the menu of completions and the words of the shell's commands.

Not modelled at all:

* parsing of the command line, which a library does, and one call per command into
  the parts above;
* line editing: keys, read by a library;
* presentation: colours, columns and wording, with no state;
* the keychains of the platforms, whose get, set and delete are single steps of
  `CredentialStore`.

## Plan

What is left, in the order of what it would tell:

1. **Composition.**  `CredentialStore` over `Files`: `RewritesAtomically` justifies its
   one-step rewrites for a file of entries that are only added; that it removes
   them too is left.  `Tokens` over `CredentialStore`, with a move beside a renewal.
2. **Theorems.**  Of `MCFunctions`, the algorithms that go through a text or a list
   once, as the escaping of `CommandLine` and the bounds of `Results`.
3. **Functions** not yet written: the formats of `elicit.rs`, the checks of
   `catalog.rs`, the words of `shell/command.rs`, the rest of `tasks.rs` and
   `cmd/servers.rs`, reading one entry of the registry.
