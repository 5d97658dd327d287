-------------------------------- MODULE Notes --------------------------------
(***************************************************************************)
(* src/config.rs, src/client.rs, src/cmd/servers.rs and src/tasks.rs: what *)
(* the store remembers of a saved server between commands - the status a   *)
(* listing found, the era a connection settled on, the tasks that were     *)
(* started - while other commands replace, remove and log in to it.        *)
(*                                                                         *)
(* One name is followed.  A file is read and written under its lock in one *)
(* step, which CredentialStore.tla justifies; what a command read earlier  *)
(* it keeps while it dials.  The server and its tasks are external.        *)
(***************************************************************************)
EXTENDS Naturals, FiniteSets

CONSTANTS
    Commands,   \* the processes
    Configs,    \* what may be saved under the name
    MaxTasks,   \* bound on the tasks started
    MaxStarts   \* bound on the commands run

ASSUME NotesBounds == MaxTasks \in Nat /\ MaxStarts \in Nat

Tasks == 1..MaxTasks
NoServer == "no server"
Eras == {"legacy", "modern"}

ASSUME NotesConfigs == NoServer \notin Configs

\* A status is keyed by the config and by whether a credential is saved, an era
\* by the config alone.  "of" is ghost: what was dialed to find out.
Saved == [config : Configs \cup {NoServer}, credential : BOOLEAN]
Nothing == [config |-> NoServer, credential |-> FALSE]
StatusNote == [key : Saved, of : Saved, old : BOOLEAN]
NoStatus == [key |-> Nothing, of |-> Nothing, old |-> TRUE]
EraNote == [era : Eras, key : Configs \cup {NoServer}, of : Configs \cup {NoServer}, old : BOOLEAN]
NoEra == [era |-> "legacy", key |-> NoServer, of |-> NoServer, old |-> TRUE]

VARIABLES
    server,     \* servers.json: the config under the name, or NoServer
    credential, \* whether a credential is saved for it
    probe,      \* probes.json: the status and the era remembered for it
    noted,      \* tasks.json: the ids noted
    speaks,     \* the era each config's server speaks
    task,       \* the server's tasks: "unborn", "working", "completed", "cancelled", "gone"
    expired,    \* the tasks whose ttl has passed
    pc,         \* where each command is
    read,       \* what each read of the store: a config, and the key it made of that
    dialed,     \* what each dialed, and the era it opened with and found
    ids,        \* the tasks each asks about, and those it found to be over
    starts,     \* how many commands were started
    answered,   \* ghost: the tasks somebody was told are over, or failed to be told about
    mixed       \* ghost: a credential came or went while a listing dialed

vars == <<server, credential, probe, noted, speaks, task, expired, pc, read, dialed, ids, starts,
          answered, mixed>>

store == <<server, credential, probe, noted>>
world == <<speaks, task, expired>>

TypeOK ==
    /\ server \in Configs \cup {NoServer} /\ credential \in BOOLEAN
    /\ probe \in [status : {NoStatus} \cup StatusNote, era : {NoEra} \cup EraNote]
    /\ noted \subseteq Tasks /\ expired \subseteq Tasks
    /\ task \in [Tasks -> {"unborn", "working", "completed", "cancelled", "gone"}]
    /\ read \in [Commands -> Saved] /\ dialed \in [Commands -> Saved]
    /\ ids \in [Commands -> [asked : SUBSET Tasks, over : SUBSET Tasks]]
    /\ starts \in 0..MaxStarts /\ answered \subseteq Tasks /\ mixed \in BOOLEAN

NoIds == [asked |-> {}, over |-> {}]

Init ==
    /\ server \in Configs \cup {NoServer} /\ credential = FALSE
    /\ probe = [status |-> NoStatus, era |-> NoEra] /\ noted = {}
    /\ speaks \in [Configs -> Eras]
    /\ task = [i \in Tasks |-> "unborn"] /\ expired = {}
    /\ pc = [p \in Commands |-> "idle"]
    /\ read = [p \in Commands |-> Nothing] /\ dialed = [p \in Commands |-> Nothing]
    /\ ids = [p \in Commands |-> NoIds]
    /\ starts = 0 /\ answered = {} /\ mixed = FALSE

Goes(p, step) == pc' = [pc EXCEPT ![p] = step]

\* A command begins with what it reads.
Begins(p, step) ==
    /\ pc[p] = "idle" /\ starts < MaxStarts /\ starts' = starts + 1
    /\ Goes(p, step)
    /\ read' = [read EXCEPT ![p] = [config |-> server, credential |-> credential]]

Rests(p) ==
    /\ Goes(p, "idle")
    /\ read' = [read EXCEPT ![p] = Nothing] /\ dialed' = [dialed EXCEPT ![p] = Nothing]
    /\ ids' = [ids EXCEPT ![p] = NoIds]

-----------------------------------------------------------------------------
(* add, set, import, rm, login and logout.                                 *)

\* add, set and import read the entry, check it, and write it later under the
\* lock: add and import where there was none or with --force, set where there was.
Add(p) ==
    /\ \/ Begins(p, "add") /\ server = NoServer
       \/ Begins(p, "replace")
    /\ UNCHANGED <<store, world, dialed, ids, answered, mixed>>

Set(p) ==
    /\ server # NoServer /\ Begins(p, "set")
    /\ UNCHANGED <<store, world, dialed, ids, answered, mixed>>

\* import has no probe to show, and forgets none.
Import(p) ==
    /\ Begins(p, "set")
    /\ UNCHANGED <<store, world, dialed, ids, answered, mixed>>

\* set writes back what it read, but for its lists; it ends here, and so do
\* import and add with --no-probe.
AddServer(p) ==
    /\ pc[p] \in {"add", "replace", "set"}
    /\ \E c \in Configs : server' = c
    /\ \/ pc[p] = "replace" /\ Goes(p, "forget")
       \/ pc[p] = "add" /\ Goes(p, "listing one")
       \/ pc[p] # "replace" /\ Goes(p, "over")
    /\ UNCHANGED <<credential, probe, noted, world, read, dialed, ids, starts, answered, mixed>>

\* forget_probe, for a server that was replaced.
ForgetProbe(p) ==
    /\ pc[p] = "forget"
    /\ probe' = [status |-> NoStatus, era |-> NoEra]
    /\ \/ Goes(p, "listing one") \/ Goes(p, "over")
    /\ UNCHANGED <<server, credential, noted, world, read, dialed, ids, starts, answered, mixed>>

\* remove_server, and then the credential under a lock of its own.  What was
\* remembered is left for the next listing to drop.
Remove(p) ==
    /\ Begins(p, "remove") /\ server # NoServer
    /\ server' = NoServer
    /\ UNCHANGED <<credential, probe, noted, world, dialed, ids, answered, mixed>>

Listing == {"dial", "dialed", "save"}
Mixes == mixed' = (mixed \/ \E q \in Commands : pc[q] \in Listing)

RemoveCredential(p) ==
    /\ pc[p] = "remove"
    /\ credential' = FALSE /\ Mixes /\ Goes(p, "over")
    /\ UNCHANGED <<server, probe, noted, world, read, dialed, ids, starts, answered>>

\* login and logout, which need no server of that name.
Credential(p) ==
    /\ Begins(p, "over")
    /\ credential' \in BOOLEAN \ {credential} /\ Mixes
    /\ UNCHANGED <<server, probe, noted, world, dialed, ids, answered>>

-----------------------------------------------------------------------------
(* A connection, and what it notes (connect, note_era).                    *)

Connect(p) ==
    /\ Begins(p, "connect") /\ server # NoServer
    /\ UNCHANGED <<store, world, dialed, ids, answered, mixed>>

\* opening_for: an era is believed that was noted of this config, and not too
\* long ago.
Remembered(config) == probe.era.key = config /\ ~probe.era.old

\* dial, with the config that was read and whatever credential there is now.
\* The handshake finds the era, or fails; a pinned revision notes nothing.
Opened(p, step) ==
    /\ dialed' = [dialed EXCEPT ![p] = [config |-> read[p].config, credential |-> credential]]
    /\ \/ probe' = [probe EXCEPT !.era = [era |-> speaks[read[p].config], key |-> read[p].config,
                                          of |-> read[p].config, old |-> FALSE]]
          /\ ~(Remembered(read[p].config) /\ probe.era.era = speaks[read[p].config])
       \/ UNCHANGED probe
    /\ Goes(p, step)

\* Between the reading of the note and the writing of the new one, others may
\* read and write; remember_era itself replaces one field under the lock.
Dial(p) ==
    /\ pc[p] = "connect" /\ Opened(p, "over")
    /\ UNCHANGED <<server, credential, noted, world, read, ids, starts, answered, mixed>>

-----------------------------------------------------------------------------
(* ls, and the row add shows (listing, listing_named).                     *)

\* A slip: the key is made when the row is saved.
KeyThen(p) == [config |-> server, credential |-> credential]

\* The key a row is saved under is of what was read before anything was dialed.
Key(p) == read[p]

\* still_current, or ls --refresh: then it is dialed again.
StillCurrent == probe.status.key = [config |-> server, credential |-> credential] /\ ~probe.status.old

Ls(p) ==
    /\ server # NoServer
    /\ \/ Begins(p, "dial")
       \/ StillCurrent /\ Begins(p, "over")
    /\ UNCHANGED <<store, world, dialed, ids, answered, mixed>>

\* The server may have been removed since it was added: the command says so.
ListingOne(p) ==
    /\ pc[p] = "listing one"
    /\ read' = [read EXCEPT ![p] = [config |-> server, credential |-> credential]]
    /\ Goes(p, IF server = NoServer THEN "over" ELSE "dial")
    /\ UNCHANGED <<store, world, dialed, ids, starts, answered, mixed>>

Probe(p) ==
    /\ pc[p] = "dial" /\ Opened(p, "dialed")
    /\ UNCHANGED <<server, credential, noted, world, read, ids, starts, answered, mixed>>

\* save_probes reads which servers there are before it takes the lock.  A record
\* keeps the era that is noted, and what belongs to no server is dropped.
ReadServers(p) ==
    /\ pc[p] = "dialed"
    /\ Goes(p, IF server = NoServer THEN "drop" ELSE "save")
    /\ UNCHANGED <<store, world, read, dialed, ids, starts, answered, mixed>>

SaveProbes(p) ==
    /\ pc[p] \in {"save", "drop"}
    /\ probe' = IF pc[p] = "drop" THEN [status |-> NoStatus, era |-> NoEra]
                ELSE [probe EXCEPT !.status = [key |-> Key(p), of |-> dialed[p], old |-> FALSE]]
    /\ Goes(p, "over")
    /\ UNCHANGED <<server, credential, noted, world, read, dialed, ids, starts, answered, mixed>>

-----------------------------------------------------------------------------
(* Tasks.                                                                  *)

Terminal == {"completed", "cancelled"}
Live == {i \in Tasks : task[i] \notin {"unborn", "gone"}}

\* A slip: what is forgotten is taken from what was read when the command began.
ForgetsFromRead(p, over) == noted' = (ids[p].asked \ over) \ expired

\* forget_tasks takes them from what is noted now, and sweeps what has expired.
Forgets(p, over) == noted' = (noted \ over) \ expired

\* call --task or --detach, or a tool that only runs as a task.  The plain call
\* that such a tool refuses has run nothing.
StartTask(p) ==
    /\ \E i \in Tasks :
         /\ task[i] = "unborn" /\ \A j \in Tasks : j < i => task[j] # "unborn"
         /\ task' = [task EXCEPT ![i] = "working"]
         /\ ids' = [ids EXCEPT ![p].asked = {i}]
    /\ Begins(p, "remember")
    /\ UNCHANGED <<store, speaks, expired, dialed, answered, mixed>>

\* The note is written once the id is known.  Then the task is left running, or
\* seen through.
RememberTask(p) ==
    /\ pc[p] = "remember"
    /\ noted' = noted \cup ids[p].asked
    /\ \/ Goes(p, "over") \/ Goes(p, "poll")
    /\ UNCHANGED <<server, credential, probe, world, read, dialed, ids, starts, answered, mixed>>

\* The state of the task that was asked for is a terminal one.
Polled(p) ==
    /\ \E i \in ids[p].asked : task[i] \in Terminal
    /\ answered' = answered \cup ids[p].asked
    /\ Goes(p, "collect")

\* tasks get, result and cancel name one id, noted here or not.
AskAbout(p) ==
    /\ \E i \in Tasks : task[i] # "unborn" /\ ids' = [ids EXCEPT ![p].asked = {i}]
    /\ \/ Begins(p, "get") \/ Begins(p, "result") \/ Begins(p, "cancel")
    /\ UNCHANGED <<store, world, dialed, answered, mixed>>

\* Whatever the reason that there is no answer, but that there are no tasks at
\* all, the note is dropped (fetched, gone).
Refused(p) ==
    /\ pc[p] \in {"get", "result"}
    /\ \/ answered' = answered \cup ids[p].asked /\ Forgets(p, ids[p].asked)
       \/ UNCHANGED <<answered, noted>>
    /\ Goes(p, "over")
    /\ UNCHANGED <<server, credential, probe, world, read, dialed, ids, starts, mixed>>

\* get keeps the note even of a task that is over; result waits for what is not.
Fetched(p) ==
    /\ pc[p] \in {"get", "result"} /\ ids[p].asked \subseteq Live
    /\ \/ pc[p] = "get" /\ Goes(p, "over") /\ UNCHANGED answered
       \/ pc[p] = "result" /\ Polled(p)
       \/ pc[p] = "result" /\ Goes(p, "poll") /\ UNCHANGED answered
    /\ UNCHANGED <<store, world, read, dialed, ids, starts, mixed>>

\* seen_through: asked again and again until it is over.  It gives up, and leaves
\* the note, when it is not answered or the task wants an input.
Poll(p) ==
    /\ pc[p] = "poll"
    /\ \/ Goes(p, "over") /\ UNCHANGED answered
       \/ Polled(p)
    /\ UNCHANGED <<store, world, read, dialed, ids, starts, mixed>>

\* The result is asked for, and the note dropped whether it comes or not.
Collect(p) ==
    /\ pc[p] = "collect" /\ Forgets(p, ids[p].asked)
    /\ Goes(p, "over")
    /\ UNCHANGED <<server, credential, probe, world, read, dialed, ids, starts, answered, mixed>>

Cancel(p) ==
    /\ pc[p] = "cancel" /\ ids[p].asked \subseteq Live
    /\ task' = [i \in Tasks |-> IF i \in ids[p].asked /\ task[i] = "working" THEN "cancelled" ELSE task[i]]
    /\ answered' = answered \cup ids[p].asked
    /\ Goes(p, "collect")
    /\ UNCHANGED <<store, speaks, expired, read, dialed, ids, starts, mixed>>

\* tasks: what is noted and has not expired is read first.
ListTasks(p) ==
    /\ Begins(p, "list") /\ ids' = [ids EXCEPT ![p].asked = noted \ expired]
    /\ UNCHANGED <<store, world, dialed, answered, mixed>>

\* The server lists what it will of its tasks, and is asked about each of the
\* others that is noted, one by one; those may fail for any reason.
Listed(p) ==
    /\ pc[p] = "list"
    /\ \E listed \in SUBSET Live :
         LET asked == ids[p].asked \ listed
         IN \E failed \in SUBSET asked :
              /\ asked \ failed \subseteq Live
              /\ ids' = [ids EXCEPT ![p].over =
                           failed \cup {i \in listed \cup asked : task[i] \in Terminal}]
    /\ answered' = answered \cup ids'[p].over
    /\ Goes(p, "drop tasks")
    /\ UNCHANGED <<store, world, read, dialed, starts, mixed>>

DropTasks(p) ==
    /\ pc[p] = "drop tasks" /\ Forgets(p, ids[p].over)
    /\ Goes(p, "over")
    /\ UNCHANGED <<server, credential, probe, world, read, dialed, ids, starts, answered, mixed>>

-----------------------------------------------------------------------------

\* A process is over, or is killed.
Ends(p) ==
    /\ pc[p] # "idle" /\ Rests(p)
    /\ UNCHANGED <<store, world, starts, answered, mixed>>

\* The clock: STATUS_TTL, ERA_TTL, and what the server promised for a task.
Ages ==
    /\ \/ /\ ~probe.status.old /\ probe' = [probe EXCEPT !.status.old = TRUE]
          /\ UNCHANGED expired
       \/ /\ ~probe.era.old /\ probe' = [probe EXCEPT !.era.old = TRUE]
          /\ UNCHANGED expired
       \/ /\ \E i \in noted \ expired : expired' = expired \cup {i}
          /\ UNCHANGED probe
    /\ UNCHANGED <<server, credential, noted, speaks, task, pc, read, dialed, ids, starts, answered,
                   mixed>>

\* A task ends, or is swept away or lost with its server; a server is upgraded.
ServerMoves ==
    /\ \/ /\ \E i \in Tasks :
               \/ task[i] = "working" /\ task' = [task EXCEPT ![i] = "completed"]
               \/ task[i] \notin {"unborn", "gone"} /\ task' = [task EXCEPT ![i] = "gone"]
          /\ UNCHANGED speaks
       \/ /\ \E c \in Configs : speaks[c] = "legacy" /\ speaks' = [speaks EXCEPT ![c] = "modern"]
          /\ UNCHANGED task
    /\ UNCHANGED <<store, expired, pc, read, dialed, ids, starts, answered, mixed>>

Command(p) ==
    \/ Add(p) \/ Set(p) \/ Import(p) \/ AddServer(p) \/ ForgetProbe(p) \/ Remove(p) \/ RemoveCredential(p) \/ Credential(p)
    \/ Connect(p) \/ Dial(p) \/ Ls(p) \/ ListingOne(p) \/ Probe(p) \/ ReadServers(p) \/ SaveProbes(p)
    \/ StartTask(p) \/ RememberTask(p) \/ AskAbout(p) \/ Refused(p) \/ Fetched(p) \/ Poll(p)
    \/ Collect(p) \/ Cancel(p) \/ ListTasks(p) \/ Listed(p) \/ DropTasks(p) \/ Ends(p)

Next == (\E p \in Commands : Command(p)) \/ Ages \/ ServerMoves

Spec == Init /\ [][Next]_vars

-----------------------------------------------------------------------------
(* What must hold.                                                         *)

\* What is remembered is believed only of what it was found out about: a status
\* that a listing would show again was found by dialing the config that is saved
\* now, with or without a credential as now (unless that changed while it was
\* dialed), and an era that would be believed was found on that config - whatever
\* was added, replaced and removed under the name in between.
BelievedOfItself ==
    server # NoServer =>
      /\ StillCurrent => /\ probe.status.of.config = server
                         /\ mixed \/ probe.status.of.credential = credential
      /\ Remembered(server) => probe.era.of = server

\* The note of a task is dropped only when its time is up, or somebody was told
\* that the task is over or had no answer about it: never because two commands
\* wrote the notes at once, or because one read them before the task was noted.
NotesAreKept ==
    [][noted \ noted' \subseteq expired \cup answered']_vars
=============================================================================
