--------------------------- MODULE CredentialStore ---------------------------
(***************************************************************************)
(* Where credentials are kept (src/config.rs, the Store): a file that is   *)
(* rewritten whole under a lock, or a keychain with an item for each name, *)
(* whichever config.json records, and the commands that change them - a    *)
(* login or a refresh saves, logout forgets, rm forgets with the server,   *)
(* `config credentials` moves everything to the other store.  Commands are *)
(* processes of their own and any of their steps may fail or be the last.  *)
(*                                                                         *)
(* servers.json is rewritten under a lock nothing else is done under, so   *)
(* its rewrites are one step here.                                         *)
(***************************************************************************)
EXTENDS Naturals, FiniteSets

CONSTANTS
    Processes,
    Names,
    NoOne,        \* nobody holds the lock
    MaxCommands,  \* how many commands are run
    MaxStops      \* how many of those are killed, or fail, part of the way

NoCred == 0

ASSUME StoreConstants ==
    /\ NoOne \notin Processes
    /\ MaxCommands \in Nat
    /\ MaxStops \in Nat

Backends == {"file", "keychain"}

\* Every save saves a credential of its own.
Credentials == 0..MaxCommands

Contents == [Names -> Credentials]

Commands ==
    [kind : {"save", "forget", "add", "rm"}, name : Names]
        \cup [kind : {"move"}, to : Backends]

VARIABLES
    servers,   \* the names in servers.json
    backend,   \* the store config.json records
    file,      \* what credentials.json holds; all NoCred when there is none
    keychain,  \* what the keychain holds
    lock,      \* who holds the lock of credentials.json
    at,        \* how far each process has come
    command,   \* what each process is doing, or did last
    cred,      \* what it saves
    memory,    \* the file as each process has read, and perhaps changed, it
    names,     \* what a move found in the store it moves from
    left,      \* and the names it has yet to go through
    begun, stops,
    kept,      \* ghost: what was last saved for each name and not forgotten
    moves,     \* ghost: a move has begun
    overlap    \* ghost: a command has begun before another had ended

process == <<at, command, cred, memory, names, left>>
history == <<moves, overlap>>
vars == <<servers, backend, file, keychain, lock, process, begun, stops, kept, history>>

Inside == {"read", "copying", "copied", "recorded"}

TypeOK ==
    /\ servers \subseteq Names
    /\ backend \in Backends
    /\ file \in Contents /\ keychain \in Contents /\ kept \in Contents
    /\ lock \in Processes \cup {NoOne}
    /\ at \in [Processes -> {"idle", "begun", "file", "keychain", "moving"} \cup Inside]
    /\ command \in [Processes -> Commands \cup {NoOne}]
    /\ \A p \in Processes :
        /\ at[p] = "begun" => command[p] \in Commands
        /\ at[p] \in {"file", "keychain", "read"} =>
              command[p] \in [kind : {"save", "forget"}, name : Names]
        /\ at[p] \in {"moving", "copying", "copied", "recorded"} =>
              command[p] \in [kind : {"move"}, to : Backends]
    /\ cred \in [Processes -> Credentials]
    /\ memory \in [Processes -> Contents]
    /\ names \in [Processes -> SUBSET Names]
    /\ left \in [Processes -> SUBSET Names]
    /\ begun \in 0..MaxCommands /\ stops \in 0..MaxStops
    /\ moves \in BOOLEAN /\ overlap \in BOOLEAN
    /\ \A p \in Processes : lock = p <=> at[p] \in Inside

Nothing == [n \in Names |-> NoCred]

Init ==
    /\ servers = Names
    /\ backend \in Backends
    /\ file = Nothing /\ keychain = Nothing /\ kept = Nothing
    /\ lock = NoOne
    /\ at = [p \in Processes |-> "idle"]
    /\ command = [p \in Processes |-> NoOne]
    /\ cred = [p \in Processes |-> NoCred]
    /\ memory = [p \in Processes |-> Nothing]
    /\ names = [p \in Processes |-> {}]
    /\ left = [p \in Processes |-> {}]
    /\ begun = 0 /\ stops = 0
    /\ moves = FALSE /\ overlap = FALSE

\* What a command that asks for the credential of a name is given.
Found(n) == IF backend = "file" THEN file[n] ELSE keychain[n]

Held(contents) == {n \in Names : contents[n] # NoCred}

Goes(p, where) == at' = [at EXCEPT ![p] = where]

\* What the store is to hold for the name once the command is done.
Wanted(p) == IF command[p].kind = "save" THEN cred[p] ELSE NoCred

Done(p) == kept' = [kept EXCEPT ![command[p].name] = Wanted(p)]

-----------------------------------------------------------------------------
\* login and token set save for a name that is a server's; any name can be
\* logged out of or removed.
Begin(p) ==
    /\ at[p] = "idle"
    /\ begun < MaxCommands
    /\ \E c \in Commands :
        /\ c.kind = "save" => c.name \in servers
        /\ command' = [command EXCEPT ![p] = c]
        /\ moves' = (moves \/ c.kind = "move")
    /\ overlap' = (overlap \/ \E q \in Processes : at[q] # "idle")
    /\ begun' = begun + 1
    /\ cred' = [cred EXCEPT ![p] = begun + 1]
    /\ Goes(p, "begun")
    /\ UNCHANGED <<servers, backend, file, keychain, lock, memory, names, left, stops, kept>>

AddServer(p) ==
    /\ at[p] = "begun" /\ command[p].kind = "add"
    /\ servers' = servers \cup {command[p].name}
    /\ Goes(p, "idle")
    /\ UNCHANGED <<backend, file, keychain, lock, command, cred, memory, names, left,
                   begun, stops, kept, history>>

\* The server goes first, and its credential as in a logout.
RemoveServer(p) ==
    /\ at[p] = "begun" /\ command[p].kind = "rm"
    /\ servers' = servers \ {command[p].name}
    /\ IF command[p].name \in servers
         THEN command' = [command EXCEPT ![p] = [kind |-> "forget", name |-> command[p].name]]
              /\ UNCHANGED at
         ELSE Goes(p, "idle") /\ UNCHANGED command
    /\ UNCHANGED <<backend, file, keychain, lock, cred, memory, names, left, begun, stops, kept, history>>

\* Which store it is to be is read before there is any lock.
ReadBackend(p) ==
    /\ at[p] = "begun" /\ command[p].kind \in {"save", "forget"}
    /\ Goes(p, backend)
    /\ UNCHANGED <<servers, backend, file, keychain, lock, command, cred, memory, names, left,
                   begun, stops, kept, history>>

\* A slip: the file is read without its lock.
ReadUnlocked(p) ==
    /\ at[p] = "file"
    /\ memory' = [memory EXCEPT ![p] = file]
    /\ Goes(p, "read")
    /\ UNCHANGED <<servers, backend, file, keychain, lock, command, cred, names, left,
                   begun, stops, kept, history>>

LockAndRead(p) ==
    /\ at[p] = "file"
    /\ lock = NoOne
    /\ lock' = p
    /\ memory' = [memory EXCEPT ![p] = file]
    /\ Goes(p, "read")
    /\ UNCHANGED <<servers, backend, file, keychain, command, cred, names, left,
                   begun, stops, kept, history>>

\* The new file is renamed into place whole.
Rewrite(p) ==
    /\ at[p] = "read"
    /\ file' = [memory[p] EXCEPT ![command[p].name] = Wanted(p)]
    /\ Done(p)
    /\ lock' = NoOne
    /\ Goes(p, "idle")
    /\ UNCHANGED <<servers, backend, keychain, command, cred, memory, names, left, begun, stops, history>>

ChangeKeychain(p) ==
    /\ at[p] = "keychain"
    /\ keychain' = [keychain EXCEPT ![command[p].name] = Wanted(p)]
    /\ Done(p)
    /\ Goes(p, "idle")
    /\ UNCHANGED <<servers, backend, file, lock, command, cred, memory, names, left, begun, stops, history>>

-----------------------------------------------------------------------------
\* use_backend: everything to the other store.

MoveLooks(p) ==
    /\ at[p] = "begun" /\ command[p].kind = "move"
    /\ Goes(p, IF backend = command[p].to THEN "idle" ELSE "moving")
    /\ UNCHANGED <<servers, backend, file, keychain, lock, command, cred, memory, names, left,
                   begun, stops, kept, history>>

MoveLocks(p) ==
    /\ at[p] = "moving"
    /\ lock = NoOne
    /\ lock' = p
    /\ memory' = [memory EXCEPT ![p] = file]
    /\ LET found == Held(IF command[p].to = "keychain" THEN file ELSE keychain)
       IN  /\ names' = [names EXCEPT ![p] = found]
           /\ left' = [left EXCEPT ![p] = found]
    /\ Goes(p, "copying")
    /\ UNCHANGED <<servers, backend, file, keychain, command, cred, begun, stops, kept, history>>

\* A slip: an item leaves the keychain as soon as it has been read.
CopyOneTaking(p, n) ==
    /\ at[p] = "copying"
    /\ left' = [left EXCEPT ![p] = @ \ {n}]
    /\ IF command[p].to = "keychain"
         THEN keychain' = [keychain EXCEPT ![n] = memory[p][n]] /\ UNCHANGED memory
         ELSE /\ memory' = [memory EXCEPT ![p][n] = keychain[n]]
              /\ keychain' = [keychain EXCEPT ![n] = NoCred]
    /\ UNCHANGED <<servers, backend, file, lock, at, command, cred, names, begun, stops, kept, history>>

\* One name: into the keychain, or into the file as it will be written.  An item
\* that has gone since is no reason to drop what the file had.
CopyOne(p, n) ==
    /\ at[p] = "copying"
    /\ left' = [left EXCEPT ![p] = @ \ {n}]
    /\ keychain' = IF command[p].to = "keychain"
                     THEN [keychain EXCEPT ![n] = memory[p][n]] ELSE keychain
    /\ memory' = IF command[p].to = "file" /\ keychain[n] # NoCred
                   THEN [memory EXCEPT ![p][n] = keychain[n]] ELSE memory
    /\ UNCHANGED <<servers, backend, file, lock, at, command, cred, names, begun, stops, kept, history>>

Copy(p) == \E n \in left[p] : CopyOne(p, n)

Copied(p) ==
    /\ at[p] = "copying"
    /\ left[p] = {}
    /\ file' = IF command[p].to = "file" THEN memory[p] ELSE file
    /\ Goes(p, "copied")
    /\ UNCHANGED <<servers, backend, keychain, lock, command, cred, memory, names, left,
                   begun, stops, kept, history>>

Record(p) ==
    /\ at[p] = "copied"
    /\ backend' = command[p].to
    /\ left' = [left EXCEPT ![p] = names[p]]
    /\ Goes(p, "recorded")
    /\ UNCHANGED <<servers, file, keychain, lock, command, cred, memory, names,
                   begun, stops, kept, history>>

\* The old file goes at once, the old items of the keychain one by one.
RemoveFile(p) ==
    /\ at[p] = "recorded" /\ command[p].to = "keychain"
    /\ file' = Nothing
    /\ lock' = NoOne
    /\ Goes(p, "idle")
    /\ UNCHANGED <<servers, backend, keychain, command, cred, memory, names, left,
                   begun, stops, kept, history>>

DeleteOne(p, n) ==
    /\ at[p] = "recorded" /\ command[p].to = "file"
    /\ left' = [left EXCEPT ![p] = @ \ {n}]
    /\ keychain' = [keychain EXCEPT ![n] = NoCred]
    /\ UNCHANGED <<servers, backend, file, lock, at, command, cred, memory, names,
                   begun, stops, kept, history>>

DeleteItem(p) == \E n \in left[p] : DeleteOne(p, n)

Moved(p) ==
    /\ at[p] = "recorded" /\ command[p].to = "file"
    /\ left[p] = {}
    /\ lock' = NoOne
    /\ Goes(p, "idle")
    /\ UNCHANGED <<servers, backend, file, keychain, command, cred, memory, names, left,
                   begun, stops, kept, history>>

-----------------------------------------------------------------------------
\* The process is killed, or a call fails and the command returns its error;
\* either way the lock is given back.
Stop(p) ==
    /\ at[p] # "idle"
    /\ stops < MaxStops
    /\ stops' = stops + 1
    /\ lock' = IF lock = p THEN NoOne ELSE lock
    /\ Goes(p, "idle")
    /\ UNCHANGED <<servers, backend, file, keychain, command, cred, memory, names, left,
                   begun, kept, history>>

Change(p) ==
    \/ AddServer(p) \/ RemoveServer(p)
    \/ ReadBackend(p) \/ LockAndRead(p) \/ Rewrite(p) \/ ChangeKeychain(p)

Move(p) ==
    \/ MoveLooks(p) \/ MoveLocks(p) \/ Copy(p) \/ Copied(p) \/ Record(p)
    \/ RemoveFile(p) \/ DeleteItem(p) \/ Moved(p)

Work(p) == Change(p) \/ Move(p)

Next == \E p \in Processes : Begin(p) \/ Work(p) \/ Stop(p)

Spec == Init /\ [][Next]_vars

-----------------------------------------------------------------------------
\* "Insert or replace one credential, leaving every other entry alone even if
\* another thread or another mcpdial is saving at the same moment": whatever runs
\* beside what, the store holds for each name what was saved for it last - until
\* something moves, which what chose its store before the move does not notice.
Current == ~moves => \A n \in Names : Found(n) = kept[n]

\* "A failure anywhere leaves a credential in at least one of the two, never in
\* neither" - of one command at a time: a save during a move to the file can be.
NeverInNeither ==
    ~overlap => \A n \in Names : kept[n] # NoCred => kept[n] \in {file[n], keychain[n]}

\* The switch from one store to the other is not seen: what was found before it
\* is found after it, and is the same, as long as commands are run one at a time.
SwitchKeepsAll ==
    [][~overlap /\ backend' # backend =>
         \A n \in Names : Found(n) # NoCred => Found(n)' = Found(n)]_vars

=============================================================================
