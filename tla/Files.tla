-------------------------------- MODULE Files --------------------------------
(***************************************************************************)
(* How one file of the config directory is rewritten (src/config.rs,       *)
(* FileLock and write_json): under a lock, as a sibling that is renamed    *)
(* into place.  Where there is flock the lock goes with its holder; else   *)
(* it is a file, which outlives the one that made it and is removed by     *)
(* whoever finds it untouched for too long.  Every process adds one entry  *)
(* of its own, may be killed between any two steps, and any of its calls   *)
(* on files may fail.  Readers take no lock: they see the file as it is.   *)
(***************************************************************************)
EXTENDS Naturals, FiniteSets

CONSTANTS
    Processes,
    NoOne,     \* nobody has the lock, and there is no lock file
    Leaving,   \* a lock file whose deletion has not finished
    Stale,     \* a lock file untouched for longer than this is abandoned
    GiveUp,    \* how long a process waits for one
    MaxKills   \* how many processes are killed

ASSUME FilesConstants ==
    /\ NoOne \notin Processes /\ Leaving \notin Processes /\ NoOne # Leaving
    /\ {Stale, GiveUp, MaxKills} \subseteq Nat
    /\ Stale < GiveUp

VARIABLES
    flock,     \* whether the platform has flock
    writable,  \* whether the directory can be written to
    lock,      \* whose lock it is
    age,       \* how long the lock file has been untouched
    file,      \* the file
    temps,     \* the siblings that are being written
    at,        \* how far each process has come
    memory,    \* the entries each process read, with its own
    waited,    \* for how long each has been waiting
    denied,    \* and for how long it has not been let create the lock file
    kills,
    saved,     \* ghost: the entries of the commands that said they had saved
    seized     \* ghost: some process has found a lock file abandoned

process == <<at, memory, waited, denied>>
files == <<file, temps>>
platform == <<flock, writable>>
vars == <<platform, lock, age, files, process, kills, saved, seized>>

Ended == {"saved", "gave up", "refused", "failed", "killed"}
Holding == {"locked", "read", "making", "written", "renamed", "failing"}

\* The text of a file, which may be there in part.
Texts == [entries : SUBSET Processes, whole : BOOLEAN]
Text(entries) == [entries |-> entries, whole |-> TRUE]
Part(text) == [text EXCEPT !.whole = FALSE]

TypeOK ==
    /\ flock \in BOOLEAN /\ writable \in BOOLEAN /\ seized \in BOOLEAN
    /\ lock \in Processes \cup {NoOne, Leaving}
    /\ age \in 0..(Stale + 1)
    /\ file \in Texts
    /\ \E made \in SUBSET Processes : temps \in [made -> Texts]
    /\ at \in [Processes -> {"asking", "looking", "removing"} \cup Holding \cup Ended]
    /\ memory \in [Processes -> SUBSET Processes]
    /\ waited \in [Processes -> 0..GiveUp]
    /\ denied \in [Processes -> 0..2]
    /\ kills \in 0..MaxKills
    /\ saved \subseteq Processes

Init ==
    /\ flock \in BOOLEAN /\ writable \in BOOLEAN
    /\ flock => writable
    /\ lock = NoOne /\ age = 0
    /\ file = Text({}) /\ temps = [made \in {} |-> Text({})]
    /\ at = [p \in Processes |-> "asking"]
    /\ memory = [p \in Processes |-> {}]
    /\ waited = [p \in Processes |-> 0]
    /\ denied = [p \in Processes |-> 0]
    /\ kills = 0 /\ saved = {} /\ seized = FALSE

Goes(p, where) == at' = [at EXCEPT ![p] = where]

\* How long it waited is known to FileLock::take alone.
Forgets(p) ==
    /\ waited' = [waited EXCEPT ![p] = 0]
    /\ denied' = [denied EXCEPT ![p] = 0]

\* The lock, or the lock file, goes, and with it how old it is.
Leaves(who) == lock' = who /\ age' = 0

\* The sibling's name is of the process, the clock and a counter.
temp_path(p) == p

-----------------------------------------------------------------------------
\* A slip: the lock is taken whoever has it.
TakeAnyway(p) ==
    /\ flock
    /\ at[p] = "asking"
    /\ lock' = p
    /\ Goes(p, "locked") /\ Forgets(p)
    /\ UNCHANGED <<platform, age, files, memory, kills, saved, seized>>

\* flock waits for the lock, and the kernel hands it over.
Take(p) ==
    /\ flock
    /\ at[p] = "asking" /\ lock = NoOne
    /\ lock' = p
    /\ Goes(p, "locked") /\ Forgets(p)
    /\ UNCHANGED <<platform, age, files, memory, kills, saved, seized>>

\* Without it the file is created, if there is none.
Create(p) ==
    /\ ~flock /\ writable
    /\ at[p] = "asking" /\ lock = NoOne
    /\ lock' = p
    /\ Goes(p, "locked") /\ Forgets(p)
    /\ UNCHANGED <<platform, age, files, memory, kills, saved, seized>>

\* There is one: how old is it?
AlreadyExists(p) ==
    /\ ~flock /\ writable
    /\ at[p] = "asking" /\ lock \in Processes
    /\ denied' = [denied EXCEPT ![p] = 0]
    /\ Goes(p, "looking")
    /\ UNCHANGED <<platform, lock, age, files, memory, waited, kills, saved, seized>>

\* A lock file that is leaving and a directory that is not to be written to
\* are told apart by time alone.
PermissionDenied(p) ==
    /\ ~flock
    /\ at[p] = "asking" /\ (lock = Leaving \/ ~writable)
    /\ IF denied[p] = 2
         THEN Goes(p, "refused") /\ Forgets(p)
         ELSE /\ Goes(p, "looking")
              /\ denied' = [denied EXCEPT ![p] = IF @ = 0 THEN 1 ELSE @]
              /\ UNCHANGED waited
    /\ UNCHANGED <<platform, lock, age, files, memory, kills, saved, seized>>

Abandoned == lock \in Processes /\ age > Stale

\* A slip: a lock file is never abandoned, and is waited for.
LookAgain(p) ==
    /\ at[p] = "looking"
    /\ Goes(p, "asking")
    /\ UNCHANGED <<platform, lock, age, files, memory, waited, denied, kills, saved, seized>>

Look(p) ==
    /\ at[p] = "looking"
    /\ IF ~Abandoned /\ waited[p] = GiveUp
         THEN Goes(p, "gave up") /\ Forgets(p)
         ELSE Goes(p, IF Abandoned THEN "removing" ELSE "asking") /\ UNCHANGED <<waited, denied>>
    /\ seized' = (seized \/ Abandoned)
    /\ UNCHANGED <<platform, lock, age, files, memory, kills, saved>>

\* A file is removed at once, or as soon as nobody has it open.
Gone == {NoOne, Leaving}

\* The file of that name is removed, be it the one that was looked at or not.
RemoveStale(p) ==
    /\ at[p] = "removing"
    /\ \E left \in IF lock \in Processes THEN Gone ELSE {lock} : Leaves(left)
    /\ Goes(p, "asking")
    /\ UNCHANGED <<platform, files, memory, waited, denied, kills, saved, seized>>

\* A lock file's deletion takes no time that counts.
Leave ==
    /\ lock = Leaving
    /\ lock' = NoOne
    /\ UNCHANGED <<platform, age, files, process, kills, saved, seized>>

-----------------------------------------------------------------------------
ReadFile(p) ==
    /\ at[p] = "locked"
    /\ memory' = [memory EXCEPT ![p] = file.entries \cup {p}]
    /\ Goes(p, "read")
    /\ UNCHANGED <<platform, lock, age, files, waited, denied, kills, saved, seized>>

Temp(p, text) ==
    temps' = [t \in DOMAIN temps \cup {temp_path(p)} |->
                 IF t = temp_path(p) THEN text ELSE temps[t]]

Without(p) ==
    temps' = [t \in DOMAIN temps \ {temp_path(p)} |-> temps[t]]

MakeTemp(p) ==
    /\ at[p] = "read"
    /\ Temp(p, Part(Text(memory[p])))
    /\ Goes(p, "making")
    /\ UNCHANGED <<platform, lock, age, file, memory, waited, denied, kills, saved, seized>>

FillTemp(p) ==
    /\ at[p] = "making"
    /\ Temp(p, Text(memory[p]))
    /\ Goes(p, "written")
    /\ UNCHANGED <<platform, lock, age, file, memory, waited, denied, kills, saved, seized>>

\* A slip: the sibling is renamed as soon as it has been made.
RenameFirst(p) ==
    /\ at[p] \in {"making", "written"}
    /\ file' = temps[temp_path(p)]
    /\ Without(p)
    /\ Goes(p, "renamed")
    /\ UNCHANGED <<platform, lock, age, memory, waited, denied, kills, saved, seized>>

RenameTemp(p) ==
    /\ at[p] = "written"
    /\ file' = temps[temp_path(p)]
    /\ Without(p)
    /\ Goes(p, "renamed")
    /\ UNCHANGED <<platform, lock, age, memory, waited, denied, kills, saved, seized>>

\* Making it, filling it or renaming it fails, and the sibling is removed.
WriteFails(p) ==
    /\ at[p] \in {"read", "making", "written"}
    /\ Without(p)
    /\ Goes(p, "failing")
    /\ UNCHANGED <<platform, lock, age, file, memory, waited, denied, kills, saved, seized>>

\* The lock is let go of when the command is done with the file, whatever
\* came of it.  Without flock that removes the file there is.
Release(p) ==
    /\ at[p] \in {"renamed", "failing"}
    /\ \E left \in IF flock THEN {NoOne} ELSE IF lock \in Processes THEN Gone ELSE {lock} :
        Leaves(left)
    /\ memory' = [memory EXCEPT ![p] = {}]
    /\ saved' = saved \cup IF at[p] = "renamed" THEN {p} ELSE {}
    /\ Goes(p, IF at[p] = "renamed" THEN "saved" ELSE "failed")
    /\ UNCHANGED <<platform, files, waited, denied, kills, seized>>

\* Killed: the kernel takes back a flock, and nobody a lock file or a sibling.
Kill(p) ==
    /\ at[p] \notin Ended /\ kills < MaxKills
    /\ kills' = kills + 1
    /\ IF flock /\ at[p] \in Holding THEN Leaves(NoOne) ELSE UNCHANGED <<lock, age>>
    /\ memory' = [memory EXCEPT ![p] = {}]
    /\ Goes(p, "killed") /\ Forgets(p)
    /\ UNCHANGED <<platform, files, saved, seized>>

\* Time passes.  How long anything is held is up to its holder.
Tick ==
    /\ ~flock
    /\ lock # Leaving
    /\ \E p \in Processes : at[p] \notin Ended
    /\ age' = IF lock = NoOne \/ age > Stale THEN age ELSE age + 1
    /\ waited' = [p \in Processes |->
                     IF at[p] \in Ended \cup Holding \/ waited[p] = GiveUp THEN waited[p]
                     ELSE waited[p] + 1]
    /\ denied' = [p \in Processes |-> IF denied[p] = 1 THEN 2 ELSE denied[p]]
    /\ UNCHANGED <<platform, lock, files, at, memory, kills, saved, seized>>

-----------------------------------------------------------------------------
Wait(p) ==
    \/ Create(p)
    \/ AlreadyExists(p)
    \/ PermissionDenied(p)
    \/ Look(p)
    \/ RemoveStale(p)

Rewrite(p) ==
    \/ ReadFile(p)
    \/ MakeTemp(p)
    \/ FillTemp(p)
    \/ RenameTemp(p)
    \/ Release(p)

Fails(p) == WriteFails(p) \/ Kill(p)

Next ==
    \/ Leave
    \/ Tick
    \/ \E p \in Processes :
        \/ Take(p)
        \/ Wait(p)
        \/ Rewrite(p)
        \/ Fails(p)

\* Every process that is not killed goes on, a flock that is free goes to who
\* waits for it, and time passes.
Spec ==
    /\ Init /\ [][Next]_vars
    /\ WF_vars(Leave) /\ WF_vars(Tick)
    /\ \A p \in Processes :
        /\ WF_vars(Take(p)) /\ WF_vars(Wait(p)) /\ WF_vars(Rewrite(p))

-----------------------------------------------------------------------------
(* Whenever anybody reads the file, killed writers and failed writes or    *)
(* not, and even while two hold the lock, it is whole: the sibling is      *)
(* filled before it is renamed and nobody else's (write_json, temp_path).  *)
WholeFiles == file.whole

(* With flock, a command that said it had saved finds its entry in the     *)
(* file for as long as nobody takes it out: two commands that both read    *)
(* before either writes would lose one (FileLock).  Without flock the same *)
(* holds until the first lock file is taken for abandoned: from then on    *)
(* the file removed need not be the one that was looked at, and two may    *)
(* hold the lock.                                                          *)
NothingLost == flock \/ ~seized => saved \subseteq file.entries

(* Whoever is killed, with the lock or waiting for it, every other command *)
(* ends, and with flock it ends with its entry saved or its own write      *)
(* failed, never by giving up (the loops of FileLock::take).               *)
WritersEnd ==
    \A p \in Processes :
        /\ <>(at[p] \in Ended)
        /\ [](flock => at[p] \notin {"gave up", "refused"})

=============================================================================
