------------------------ MODULE CredentialStoreProofs ------------------------
(***************************************************************************)
(* Two arguments about where credentials are kept.  Whatever runs beside   *)
(* what, as long as nothing moves from one store to the other, no change   *)
(* is lost; and when commands run one at a time, a move may be interrupted *)
(* anywhere and no credential is lost or changed by it.                    *)
(***************************************************************************)
EXTENDS CredentialStore, TLAPS

USE DEF NoCred, history

-----------------------------------------------------------------------------
LEMMA TypeInit == Init => TypeOK
<1> SUFFICES ASSUME Init PROVE TypeOK
  OBVIOUS
<1>1. Nothing \in Contents /\ 0 \in Credentials
  BY StoreConstants DEF Nothing, Contents, Credentials
<1>2. /\ servers \subseteq Names /\ backend \in Backends
      /\ file \in Contents /\ keychain \in Contents /\ kept \in Contents
      /\ lock \in Processes \cup {NoOne}
      /\ begun \in 0..MaxCommands /\ stops \in 0..MaxStops
  BY <1>1, StoreConstants DEF Init
<1>3. /\ at \in [Processes -> {"idle", "begun", "file", "keychain", "moving"} \cup Inside]
      /\ \A p \in Processes : at[p] = "idle"
      /\ \A p \in Processes : lock = p <=> at[p] \in Inside
  BY StoreConstants DEF Init, Inside
<1>4. /\ command \in [Processes -> Commands \cup {NoOne}]
      /\ cred \in [Processes -> Credentials]
      /\ memory \in [Processes -> Contents]
  BY <1>1 DEF Init
<1>5. names \in [Processes -> SUBSET Names] /\ left \in [Processes -> SUBSET Names]
  BY DEF Init
<1>6. moves \in BOOLEAN /\ overlap \in BOOLEAN
  BY DEF Init
<1> QED
  BY <1>2, <1>3, <1>4, <1>5, <1>6 DEF TypeOK

\* What each process is doing is typed, whoever holds the lock.
LEMMA TypeStep == TypeOK /\ [Next]_vars => TypeOK'
<1> SUFFICES ASSUME TypeOK, [Next]_vars PROVE TypeOK'
  OBVIOUS
<1> USE StoreConstants
<1>0. ASSUME NEW f \in Contents, NEW n, NEW c \in Credentials
      PROVE  [f EXCEPT ![n] = c] \in Contents
  BY DEF Contents
<1>1. ASSUME NEW p \in Processes PROVE Wanted(p) \in Credentials
  BY DEF TypeOK, Wanted, Credentials
<1>2. Nothing \in Contents
  BY DEF Nothing, Contents, Credentials
<1>a. CASE UNCHANGED vars
  BY <1>a DEF TypeOK, vars, process
<1>b. ASSUME NEW p \in Processes, Begin(p) PROVE TypeOK'
  <2>1. PICK c \in Commands : command' = [command EXCEPT ![p] = c]
    BY <1>b DEF Begin
  <2>2. moves' \in BOOLEAN /\ overlap' \in BOOLEAN
    BY <1>b DEF Begin, TypeOK
  <2>3. begun' \in 0..MaxCommands /\ begun + 1 \in Credentials
    BY <1>b DEF Begin, TypeOK, Credentials
  <2> QED
    BY <1>b, <2>1, <2>2, <2>3 DEF Begin, Goes, TypeOK, Inside
<1>c. ASSUME NEW p \in Processes, AddServer(p) PROVE TypeOK'
  <2>1. command[p].name \in Names
    BY <1>c DEF AddServer, TypeOK, Commands
  <2> QED
    BY <1>c, <2>1 DEF AddServer, Goes, TypeOK, Inside
<1>d. ASSUME NEW p \in Processes, RemoveServer(p) PROVE TypeOK'
  <2>1. command[p].name \in Names
    BY <1>d DEF RemoveServer, TypeOK, Commands
  <2>2. [kind |-> "forget", name |-> command[p].name] \in Commands
    BY <2>1 DEF Commands
  <2> QED
    BY <1>d, <2>2 DEF RemoveServer, Goes, TypeOK, Inside
<1>e. ASSUME NEW p \in Processes, ReadBackend(p) PROVE TypeOK'
  <2>1. command[p] \in [kind : {"save", "forget"}, name : Names]
    BY <1>e DEF ReadBackend, TypeOK, Commands
  <2> QED
    BY <1>e, <2>1 DEF ReadBackend, Goes, TypeOK, Inside, Backends
<1>f. ASSUME NEW p \in Processes, LockAndRead(p) PROVE TypeOK'
  BY <1>f DEF LockAndRead, Goes, TypeOK, Inside
<1>g. ASSUME NEW p \in Processes, Rewrite(p) PROVE TypeOK'
  <2>1. file' \in Contents /\ kept' \in Contents
    BY <1>0, <1>1, <1>g DEF Rewrite, Done, TypeOK
  <2> QED
    BY <1>g, <2>1 DEF Rewrite, Goes, TypeOK, Inside
<1>h. ASSUME NEW p \in Processes, ChangeKeychain(p) PROVE TypeOK'
  <2>1. keychain' \in Contents /\ kept' \in Contents
    BY <1>0, <1>1, <1>h DEF ChangeKeychain, Done, TypeOK
  <2> QED
    BY <1>h, <2>1 DEF ChangeKeychain, Goes, TypeOK, Inside
<1>i. ASSUME NEW p \in Processes, MoveLooks(p) PROVE TypeOK'
  <2>1. command[p] \in [kind : {"move"}, to : Backends]
    BY <1>i DEF MoveLooks, TypeOK, Commands
  <2> QED
    BY <1>i, <2>1 DEF MoveLooks, Goes, TypeOK, Inside
<1>j. ASSUME NEW p \in Processes, MoveLocks(p) PROVE TypeOK'
  BY <1>j DEF MoveLocks, Goes, TypeOK, Inside, Held
<1>k. ASSUME NEW p \in Processes, Copy(p) PROVE TypeOK'
  <2>1. PICK n \in left[p] : CopyOne(p, n)
    BY <1>k DEF Copy
  <2>2. n \in Names /\ memory[p] \in Contents /\ keychain \in Contents
    BY <2>1 DEF TypeOK
  <2>3. memory[p][n] \in Credentials /\ keychain[n] \in Credentials
    BY <2>2 DEF Contents
  <2>4. keychain' \in Contents
    BY <1>0, <2>1, <2>2, <2>3 DEF CopyOne
  <2>5. memory' \in [Processes -> Contents]
    <3>1. [memory[p] EXCEPT ![n] = keychain[n]] \in Contents
      BY <1>0, <2>2, <2>3
    <3> QED
      BY <2>1, <3>1 DEF CopyOne, TypeOK
  <2>6. left' \in [Processes -> SUBSET Names]
    BY <2>1 DEF CopyOne, TypeOK
  <2> QED
    BY <2>1, <2>4, <2>5, <2>6 DEF CopyOne, TypeOK
<1>l. ASSUME NEW p \in Processes, Copied(p) PROVE TypeOK'
  BY <1>l DEF Copied, Goes, TypeOK, Inside
<1>m. ASSUME NEW p \in Processes, Record(p) PROVE TypeOK'
  BY <1>m DEF Record, Goes, TypeOK, Inside
<1>n. ASSUME NEW p \in Processes, RemoveFile(p) PROVE TypeOK'
  BY <1>n, <1>2 DEF RemoveFile, Goes, TypeOK, Inside
<1>o. ASSUME NEW p \in Processes, DeleteItem(p) PROVE TypeOK'
  <2>1. PICK n \in left[p] : DeleteOne(p, n)
    BY <1>o DEF DeleteItem
  <2>a. left' \in [Processes -> SUBSET Names]
    BY <2>1 DEF DeleteOne, TypeOK
  <2>b. NoCred \in Credentials
    BY DEF Credentials
  <2>2. left' \in [Processes -> SUBSET Names] /\ keychain' \in Contents
    BY <1>0, <2>1, <2>a, <2>b DEF DeleteOne, TypeOK
  <2> QED
    BY <2>1, <2>2 DEF DeleteOne, TypeOK
<1>p. ASSUME NEW p \in Processes, Moved(p) PROVE TypeOK'
  BY <1>p DEF Moved, Goes, TypeOK, Inside
<1>q. ASSUME NEW p \in Processes, Stop(p) PROVE TypeOK'
  BY <1>q DEF Stop, Goes, TypeOK, Inside
<1> QED
  BY <1>a, <1>b, <1>c, <1>d, <1>e, <1>f, <1>g, <1>h, <1>i, <1>j, <1>k, <1>l, <1>m,
     <1>n, <1>o, <1>p, <1>q DEF Next, Work, Change, Move

\* The state of the store and of every process stays what its type says, and the
\* lock is held by the one process that is between reading the file and its end.
THEOREM TypeCorrect == Spec => []TypeOK
  BY TypeInit, TypeStep, PTL DEF Spec

-----------------------------------------------------------------------------
\* No change is lost, as long as nothing has moved.  The store is then always the
\* one each process has read in config.json, and what a process has read of the
\* file under the lock is what the file still holds.
SameStore ==
    \A p \in Processes :
        /\ at[p] \in {"file", "read"} => backend = "file"
        /\ at[p] = "keychain" => backend = "keychain"

ReadIsFresh == \A p \in Processes : at[p] = "read" => memory[p] = file

Still ==
    \A p \in Processes : /\ at[p] \notin {"moving", "copying", "copied", "recorded"}
                         /\ at[p] = "begun" => command[p].kind # "move"

AllFound == \A n \in Names : Found(n) = kept[n]

StillInv == Still /\ SameStore /\ ReadIsFresh /\ AllFound

CurrentInv == TypeOK /\ (~moves => StillInv)

LEMMA CurrentInit == Init => CurrentInv
BY TypeInit DEF Init, CurrentInv, StillInv, Still, SameStore, ReadIsFresh, AllFound, Found, Nothing

LEMMA MovesStay == TypeOK /\ [Next]_vars /\ ~moves' => ~moves
BY DEF Next, Work, Change, Move, Begin, AddServer, RemoveServer, ReadBackend, LockAndRead,
       Rewrite, ChangeKeychain, MoveLooks, MoveLocks, Copy, CopyOne, Copied, Record, RemoveFile,
       DeleteItem, DeleteOne, Moved, Stop, vars

LEMMA StillStep == ASSUME TypeOK, StillInv, [Next]_vars, ~moves' PROVE StillInv'
<1> USE DEF StillInv
<1>2. Still'
  <2>1. ASSUME NEW p \in Processes, Begin(p) PROVE Still'
    <3>1. PICK c \in Commands : /\ command' = [command EXCEPT ![p] = c]
                                /\ moves' = (moves \/ c.kind = "move")
      BY <2>1 DEF Begin
    <3>2. c.kind # "move"
      BY <3>1
    <3> QED
      BY <2>1, <3>1, <3>2 DEF Begin, Goes, Still, TypeOK
  <2>2. ASSUME NEW p \in Processes, Change(p) PROVE Still'
    BY <2>2 DEF Change, AddServer, RemoveServer, ReadBackend, LockAndRead, Rewrite,
                ChangeKeychain, Goes, Still, TypeOK, Backends
  <2>3. ASSUME NEW p \in Processes, Move(p) PROVE FALSE
    BY <2>3 DEF Move, MoveLooks, MoveLocks, Copy, CopyOne, Copied, Record, RemoveFile,
                DeleteItem, DeleteOne, Moved, Still
  <2>4. ASSUME NEW p \in Processes, Stop(p) PROVE Still'
    BY <2>4 DEF Stop, Goes, Still, TypeOK
  <2>5. CASE UNCHANGED vars
    BY <2>5 DEF vars, process, Still
  <2> QED
    BY <2>1, <2>2, <2>3, <2>4, <2>5 DEF Next, Work
<1>3. ASSUME NEW p \in Processes, Move(p) PROVE FALSE
  BY <1>3 DEF Move, MoveLooks, MoveLocks, Copy, CopyOne, Copied, Record, RemoveFile,
              DeleteItem, DeleteOne, Moved, Still
<1>4. backend' = backend
  BY <1>3 DEF Next, Work, Change, Begin, AddServer, RemoveServer, ReadBackend, LockAndRead,
              Rewrite, ChangeKeychain, Stop, vars
<1>5. SameStore'
  <2>1. ASSUME NEW p \in Processes, Begin(p) \/ Stop(p) PROVE SameStore'
    BY <1>4, <2>1 DEF Begin, Stop, Goes, SameStore, TypeOK
  <2>2. ASSUME NEW p \in Processes, Change(p) PROVE SameStore'
    BY <1>4, <2>2 DEF Change, AddServer, RemoveServer, ReadBackend, LockAndRead, Rewrite,
                      ChangeKeychain, Goes, SameStore, TypeOK, Backends
  <2>3. CASE UNCHANGED vars
    BY <1>4, <2>3 DEF vars, process, SameStore
  <2> QED
    BY <1>3, <2>1, <2>2, <2>3 DEF Next, Work
<1>6. ReadIsFresh'
  <2>1. ASSUME NEW p \in Processes, Begin(p) \/ Stop(p) PROVE ReadIsFresh'
    BY <2>1 DEF Begin, Stop, Goes, ReadIsFresh, TypeOK
  <2>2. ASSUME NEW p \in Processes,
               AddServer(p) \/ RemoveServer(p) \/ ReadBackend(p) \/ ChangeKeychain(p)
        PROVE  ReadIsFresh'
    BY <2>2 DEF AddServer, RemoveServer, ReadBackend, ChangeKeychain, Goes, ReadIsFresh,
                TypeOK, Backends
  <2>3. ASSUME NEW p \in Processes, LockAndRead(p) PROVE ReadIsFresh'
    BY <2>3 DEF LockAndRead, Goes, ReadIsFresh, TypeOK
  <2>4. ASSUME NEW p \in Processes, Rewrite(p) PROVE ReadIsFresh'
    <3>1. ASSUME NEW q \in Processes PROVE at'[q] # "read"
      BY <2>4 DEF Rewrite, Goes, TypeOK, Inside
    <3> QED
      BY <3>1 DEF ReadIsFresh
  <2>5. CASE UNCHANGED vars
    BY <2>5 DEF vars, process, ReadIsFresh
  <2> QED
    BY <1>3, <2>1, <2>2, <2>3, <2>4, <2>5 DEF Next, Work, Change
<1>7. AllFound'
  <2>1. ASSUME NEW p \in Processes,
               \/ Begin(p) \/ Stop(p)
               \/ AddServer(p) \/ RemoveServer(p) \/ ReadBackend(p) \/ LockAndRead(p)
        PROVE  AllFound'
    BY <2>1 DEF Begin, Stop, AddServer, RemoveServer, ReadBackend, LockAndRead, AllFound, Found
  <2>2. ASSUME NEW p \in Processes, Rewrite(p) PROVE AllFound'
    <3>1. memory[p] = file /\ backend = "file"
      BY <2>2 DEF Rewrite, ReadIsFresh, SameStore
    <3> QED
      BY <2>2, <3>1 DEF Rewrite, Done, AllFound, Found, TypeOK, Contents
  <2>3. ASSUME NEW p \in Processes, ChangeKeychain(p) PROVE AllFound'
    <3>1. backend = "keychain"
      BY <2>3 DEF ChangeKeychain, SameStore
    <3> QED
      BY <2>3, <3>1 DEF ChangeKeychain, Done, AllFound, Found, TypeOK, Contents
  <2>4. CASE UNCHANGED vars
    BY <2>4 DEF vars, AllFound, Found
  <2> QED
    BY <1>3, <2>1, <2>2, <2>3, <2>4 DEF Next, Work, Change
<1> QED
  BY <1>2, <1>5, <1>6, <1>7

LEMMA CurrentStep == CurrentInv /\ [Next]_vars => CurrentInv'
BY TypeStep, MovesStay, StillStep DEF CurrentInv

\* However many commands save and forget at once, and whichever of them are
\* killed half way, the store holds what was last saved for each name: the lock
\* of credentials.json makes a rewrite of the whole file as good as a change of
\* one entry.
THEOREM NoSaveIsLost == Spec => []Current
<1>1. Init => CurrentInv
  BY CurrentInit
<1>2. CurrentInv /\ [Next]_vars => CurrentInv'
  BY CurrentStep
<1>3. CurrentInv => Current
  BY DEF CurrentInv, StillInv, AllFound, Current
<1> QED
  BY <1>1, <1>2, <1>3, PTL DEF Spec

-----------------------------------------------------------------------------
\* A move, as long as commands run one at a time.  The process that moves is the only
\* one that runs; what it has copied so far is what it has read.
Alone == \A p, q \in Processes : at[p] # "idle" /\ at[q] # "idle" => p = q

From(p) == IF command[p].to = "keychain" THEN file ELSE keychain

\* Half of the way, nothing but the new store is changed.
Copying(p) ==
    /\ backend # command[p].to
    /\ names[p] = Held(From(p))
    /\ left[p] \subseteq names[p]
    /\ command[p].to = "keychain" =>
          /\ memory[p] = file
          /\ \A n \in names[p] \ left[p] : keychain[n] = file[n]
    /\ command[p].to = "file" =>
          \A n \in names[p] \ left[p] : memory[p][n] = keychain[n]

\* Then both stores hold the same for every name the old one held.
CopiedAll(p) ==
    /\ backend # command[p].to
    /\ \A n \in Held(From(p)) : keychain[n] = file[n]
    /\ names[p] = Held(From(p))

MoveInv ==
    \A p \in Processes :
        /\ at[p] = "moving" => backend # command[p].to
        /\ at[p] = "copying" => Copying(p)
        /\ at[p] = "copied" => CopiedAll(p)
        /\ at[p] = "recorded" => backend = command[p].to

\* A process that changes one entry changes it in the store in use.
ChangeInv ==
    \A p \in Processes :
        /\ at[p] \in {"file", "read"} => backend = "file"
        /\ at[p] = "keychain" => backend = "keychain"
        /\ at[p] = "read" => memory[p] = file

\* What has been saved and not forgotten is found.  The converse is not
\* invariant: an interrupted move leaves copies that a later one brings back.
KeptIsFound == \A n \in Names : kept[n] # NoCred => Found(n) = kept[n]

InTurn == Alone /\ MoveInv /\ ChangeInv /\ KeptIsFound

InTurnInv == TypeOK /\ (~overlap => InTurn)

LEMMA InTurnInit == Init => InTurnInv
BY TypeInit DEF Init, InTurnInv, InTurn, Alone, MoveInv, ChangeInv, KeptIsFound, Found, Nothing

LEMMA OverlapStays == TypeOK /\ [Next]_vars /\ ~overlap' => ~overlap
BY DEF Next, Work, Change, Move, Begin, AddServer, RemoveServer, ReadBackend, LockAndRead,
       Rewrite, ChangeKeychain, MoveLooks, MoveLocks, Copy, CopyOne, Copied, Record, RemoveFile,
       DeleteItem, DeleteOne, Moved, Stop, vars

LEMMA AloneStep == ASSUME TypeOK, Alone, [Next]_vars, ~overlap' PROVE Alone'
<1>1. ASSUME NEW p \in Processes, Begin(p) PROVE Alone'
  BY <1>1 DEF Begin, Goes, Alone, TypeOK
<1>2. ASSUME NEW p \in Processes, at[p] # "idle", NEW w, at' = [at EXCEPT ![p] = w]
      PROVE  Alone'
  BY <1>2 DEF Alone, TypeOK
<1>3. ASSUME NEW p \in Processes, Work(p) \/ Stop(p) PROVE Alone'
  <2>1. at' = at \/ (at[p] # "idle" /\ \E w : at' = [at EXCEPT ![p] = w])
    BY <1>3 DEF Work, Change, Move, AddServer, RemoveServer, ReadBackend, LockAndRead, Rewrite,
                ChangeKeychain, MoveLooks, MoveLocks, Copy, CopyOne, Copied, Record, RemoveFile,
                DeleteItem, DeleteOne, Moved, Stop, Goes
  <2> QED
    BY <1>2, <2>1 DEF Alone
<1>4. CASE UNCHANGED vars
  BY <1>4 DEF vars, process, Alone
<1> QED
  BY <1>1, <1>3, <1>4 DEF Next

\* What a process that is not idle does leaves the others idle, so each step is
\* judged by the one process that takes it.
LEMMA OnlyOne ==
  ASSUME TypeOK, Alone, NEW p \in Processes, at[p] # "idle", NEW w, at' = [at EXCEPT ![p] = w]
  PROVE  \A q \in Processes \ {p} : at'[q] = "idle"
BY DEF TypeOK, Alone

LEMMA OthersIdle ==
  ASSUME TypeOK, Alone, NEW p \in Processes, at[p] # "idle"
  PROVE  \A q \in Processes \ {p} : at[q] = "idle"
BY DEF Alone

\* The four parts that matter, for the process that runs.
Here(p) ==
    /\ at[p] = "moving" => backend # command[p].to
    /\ at[p] = "copying" => Copying(p)
    /\ at[p] = "copied" => CopiedAll(p)
    /\ at[p] = "recorded" => backend = command[p].to
    /\ at[p] \in {"file", "read"} => backend = "file"
    /\ at[p] = "keychain" => backend = "keychain"
    /\ at[p] = "read" => memory[p] = file

LEMMA HereStep ==
  ASSUME TypeOK, InTurn, NEW p \in Processes, Work(p)
  PROVE  Here(p)' /\ KeptIsFound'
<1> USE DEF InTurn
<1>0. Here(p)
  BY DEF MoveInv, ChangeInv, Here
<1>1. CASE AddServer(p) \/ RemoveServer(p)
  BY <1>0, <1>1 DEF AddServer, RemoveServer, Goes, Here, KeptIsFound, Found, TypeOK
<1>2. CASE ReadBackend(p)
  BY <1>2 DEF ReadBackend, Goes, Here, KeptIsFound, Found, TypeOK, Backends
<1>3. CASE LockAndRead(p)
  BY <1>0, <1>3 DEF LockAndRead, Goes, Here, KeptIsFound, Found, TypeOK
<1>4. CASE Rewrite(p)
  <2>1. memory[p] = file /\ backend = "file"
    BY <1>0, <1>4 DEF Rewrite, Here
  <2> QED
    BY <1>4, <2>1 DEF Rewrite, Done, Goes, Here, KeptIsFound, Found, TypeOK, Contents
<1>5. CASE ChangeKeychain(p)
  <2>1. backend = "keychain"
    BY <1>0, <1>5 DEF ChangeKeychain, Here
  <2> QED
    BY <1>5, <2>1 DEF ChangeKeychain, Done, Goes, Here, KeptIsFound, Found, TypeOK, Contents
<1>6. CASE MoveLooks(p)
  BY <1>6 DEF MoveLooks, Goes, Here, KeptIsFound, Found, TypeOK
<1>7. CASE MoveLocks(p)
  <2>1. command[p].to \in Backends /\ backend # command[p].to
    BY <1>0, <1>7 DEF MoveLocks, Here, TypeOK
  <2>2. names'[p] = Held(From(p)) /\ left'[p] = names'[p] /\ memory'[p] = file
    BY <1>7 DEF MoveLocks, From, TypeOK
  <2>3. Copying(p)'
    BY <1>7, <2>1, <2>2 DEF MoveLocks, Copying, From, Held, Backends
  <2> QED
    BY <1>7, <2>3 DEF MoveLocks, Goes, Here, KeptIsFound, Found, TypeOK
<1>8. CASE Copy(p)
  <2>1. PICK n \in left[p] : CopyOne(p, n)
    BY <1>8 DEF Copy
  <2>2. Copying(p) /\ command[p].to \in Backends
    BY <1>0, <2>1 DEF CopyOne, Here, TypeOK
  <2>3. n \in names[p] /\ n \in Names /\ left'[p] = left[p] \ {n}
    BY <2>1, <2>2 DEF CopyOne, Copying, TypeOK
  <2>4. CASE command[p].to = "keychain"
    <3>1. keychain' = [keychain EXCEPT ![n] = file[n]] /\ memory' = memory /\ file' = file
      BY <2>1, <2>2, <2>4 DEF CopyOne, Copying
    <3>2. Copying(p)'
      BY <2>1, <2>2, <2>3, <2>4, <3>1 DEF CopyOne, Copying, From, Held, TypeOK, Contents
    <3>3. backend = "file"
      BY <2>2, <2>4 DEF Copying, TypeOK, Backends
    <3> QED
      BY <2>1, <3>1, <3>2, <3>3 DEF CopyOne, Here, KeptIsFound, Found
  <2>5. CASE command[p].to = "file"
    <3>1. keychain[n] # NoCred
      BY <2>2, <2>3, <2>5 DEF Copying, From, Held
    <3>2. memory'[p] = [memory[p] EXCEPT ![n] = keychain[n]] /\ keychain' = keychain
      BY <2>1, <2>5, <3>1 DEF CopyOne, TypeOK
    <3>3. \A m \in names[p] \ left'[p] : memory'[p][m] = keychain[m]
      BY <2>2, <2>3, <2>5, <3>2 DEF Copying, TypeOK, Contents
    <3>4. Copying(p)'
      BY <2>1, <2>2, <2>3, <2>5, <3>2, <3>3 DEF CopyOne, Copying, From, Held
    <3> QED
      BY <2>1, <3>2, <3>4 DEF CopyOne, Here, KeptIsFound, Found
  <2> QED
    BY <2>2, <2>4, <2>5 DEF Backends
<1>9. CASE Copied(p)
  <2>1. Copying(p) /\ command[p].to \in Backends /\ left[p] = {}
    BY <1>0, <1>9 DEF Copied, Here, TypeOK
  <2>2. CopiedAll(p)'
    BY <1>9, <2>1 DEF Copied, Copying, CopiedAll, From, Held, Backends
  <2>3. KeptIsFound'
    BY <1>9, <2>1 DEF Copied, Copying, KeptIsFound, Found, Backends
  <2> QED
    BY <1>9, <2>2, <2>3 DEF Copied, Goes, Here, TypeOK
<1>10. CASE Record(p)
  <2>1. CopiedAll(p) /\ command[p].to \in Backends
    BY <1>0, <1>10 DEF Record, Here, TypeOK
  <2>2. KeptIsFound'
    BY <1>10, <2>1 DEF Record, CopiedAll, From, Held, KeptIsFound, Found, Backends, TypeOK
  <2> QED
    BY <1>10, <2>2 DEF Record, Goes, Here, TypeOK
<1>11. CASE RemoveFile(p) \/ DeleteItem(p) \/ Moved(p)
  <2>1. backend = command[p].to
    BY <1>0, <1>11 DEF RemoveFile, DeleteItem, DeleteOne, Moved, Here
  <2> QED
    BY <1>11, <2>1 DEF RemoveFile, DeleteItem, DeleteOne, Moved, Goes, Here, KeptIsFound, Found,
                       TypeOK
<1> QED
  BY <1>1, <1>2, <1>3, <1>4, <1>5, <1>6, <1>7, <1>8, <1>9, <1>10, <1>11
     DEF Work, Change, Move

LEMMA AllStep == ASSUME TypeOK, InTurn, [Next]_vars, ~overlap' PROVE InTurn'
<1> USE DEF InTurn
<1>1. Alone'
  BY AloneStep
<1>2. ASSUME NEW p \in Processes, Begin(p) PROVE InTurn'
  <2>1. \A q \in Processes : at'[q] \in {"idle", "begun"}
    BY <1>2 DEF Begin, Goes, TypeOK
  <2> QED
    BY <1>1, <1>2, <2>1 DEF Begin, MoveInv, ChangeInv, KeptIsFound, Found
<1>3. ASSUME NEW p \in Processes, Work(p) PROVE InTurn'
  <2>1. Here(p)' /\ KeptIsFound'
    BY <1>3, HereStep
  <2>2. \A q \in Processes \ {p} : at'[q] = "idle"
    <3>1. at[p] # "idle" /\ (at' = at \/ \E w : at' = [at EXCEPT ![p] = w])
      BY <1>3 DEF Work, Change, Move, AddServer, RemoveServer, ReadBackend, LockAndRead,
                  Rewrite, ChangeKeychain, MoveLooks, MoveLocks, Copy, CopyOne, Copied, Record,
                  RemoveFile, DeleteItem, DeleteOne, Moved, Goes
    <3> QED
      BY <3>1, OnlyOne, OthersIdle
  <2> QED
    BY <1>1, <2>1, <2>2 DEF Here, MoveInv, ChangeInv
<1>4. ASSUME NEW p \in Processes, Stop(p) PROVE InTurn'
  <2>1. \A q \in Processes : at'[q] = "idle"
    BY <1>4, OthersIdle DEF Stop, Goes, TypeOK
  <2> QED
    BY <1>1, <1>4, <2>1 DEF Stop, MoveInv, ChangeInv, KeptIsFound, Found
<1>5. CASE UNCHANGED vars
  BY <1>1, <1>5 DEF vars, process, MoveInv, ChangeInv, KeptIsFound, Found, Copying, CopiedAll, From
<1> QED
  BY <1>2, <1>3, <1>4, <1>5 DEF Next

LEMMA InTurnStep == InTurnInv /\ [Next]_vars => InTurnInv'
BY TypeStep, OverlapStays, AllStep DEF InTurnInv

\* A move may be interrupted anywhere: as long as commands run one at a time, a
\* credential that was saved and not forgotten is in at least one of the stores.
THEOREM NeverLost == Spec => []NeverInNeither
<1>1. InTurnInv => NeverInNeither
  BY DEF InTurnInv, InTurn, KeptIsFound, NeverInNeither, Found
<1> QED
  BY <1>1, InTurnInit, InTurnStep, PTL DEF Spec

\* And the switch is not seen, whatever has been interrupted before it.
THEOREM SwitchUnseen == Spec => SwitchKeepsAll
<1> DEFINE Unseen == ~overlap /\ backend' # backend =>
                      \A n \in Names : Found(n) # NoCred => Found(n)' = Found(n)
<1>1. ASSUME InTurnInv, [Next]_vars PROVE [Unseen]_vars
  <2>1. ASSUME NEW p \in Processes, Record(p), ~overlap PROVE Unseen
    <3>1. CopiedAll(p) /\ command[p].to \in Backends
      BY <1>1, <2>1 DEF InTurnInv, InTurn, MoveInv, Record, TypeOK
    <3> QED
      BY <1>1, <2>1, <3>1 DEF InTurnInv, Record, CopiedAll, From, Held, Found, Backends, TypeOK
  <2>2. ASSUME NEW p \in Processes, Begin(p) \/ Stop(p) \/ Change(p) PROVE backend' = backend
    BY <2>2 DEF Begin, Stop, Change, AddServer, RemoveServer, ReadBackend, LockAndRead, Rewrite,
                ChangeKeychain
  <2>3. ASSUME NEW p \in Processes, Move(p), ~Record(p) PROVE backend' = backend
    BY <2>3 DEF Move, MoveLooks, MoveLocks, Copy, CopyOne, Copied, RemoveFile, DeleteItem,
                DeleteOne, Moved
  <2> QED
    BY <1>1, <2>1, <2>2, <2>3 DEF Next, Work
<1>2. Spec => []InTurnInv
  BY InTurnInit, InTurnStep, PTL DEF Spec
<1> QED
  BY <1>1, <1>2, PTL DEF Spec, SwitchKeepsAll
=============================================================================
