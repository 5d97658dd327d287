----------------------------- MODULE FilesProofs -----------------------------
(***************************************************************************)
(* What the rewriting of a file keeps, for any number of processes, any    *)
(* age at which a lock file is abandoned, any time it is waited for and    *)
(* any number of kills: the file is always whole, and no entry that was    *)
(* saved is lost while the lock has one holder.                            *)
(***************************************************************************)
EXTENDS Files, TLAPS

-----------------------------------------------------------------------------
(* The variables the arguments are about have their types.                 *)
Typed ==
    /\ at \in [Processes -> {"asking", "looking", "removing"} \cup Holding \cup Ended]
    /\ memory \in [Processes -> SUBSET Processes]
    /\ file \in Texts
    /\ saved \subseteq Processes

(* A sibling is there from the moment it is made until it is renamed or    *)
(* removed, and once it is filled it is all of what its process means to   *)
(* write.                                                                  *)
Filled ==
    \A p \in Processes :
        /\ at[p] \in {"making", "written"} => p \in DOMAIN temps
        /\ at[p] = "written" => temps[p] = Text(memory[p])

WholeInv == Typed /\ Filled /\ WholeFiles

(* Where the lock goes with its holder nobody looks how old it is; where   *)
(* it is a file nobody removes it as long as none was found abandoned.     *)
NobodySeizes ==
    \A p \in Processes :
        /\ flock => at[p] \notin {"looking", "removing"}
        /\ ~flock /\ ~seized => at[p] # "removing"

(* Who is at the file has the lock, and so is alone there.                 *)
Exclusive == \A p \in Processes : at[p] \in Holding => lock = p

(* What was read under the lock is still what the file holds.              *)
ReadIsFresh ==
    \A p \in Processes :
        at[p] \in {"read", "making", "written"} => memory[p] = file.entries \cup {p}

(* An entry that was renamed into place is there.                          *)
Landed == \A p \in Processes : at[p] = "renamed" => p \in file.entries

LockInv ==
    flock \/ ~seized => Exclusive /\ ReadIsFresh /\ Landed /\ saved \subseteq file.entries

Inv == WholeInv /\ NobodySeizes /\ LockInv

-----------------------------------------------------------------------------
LEMMA InitInv == Init => Inv
<1> SUFFICES ASSUME Init PROVE Inv
  OBVIOUS
<1>1. file \in Texts /\ file.whole
  BY DEF Init, Texts, Text
<1>2. at \in [Processes -> {"asking", "looking", "removing"} \cup Holding \cup Ended]
  BY DEF Init
<1>3. memory \in [Processes -> SUBSET Processes] /\ saved = {}
  BY DEF Init
<1>4. \A p \in Processes : at[p] = "asking"
  BY DEF Init
<1> QED
  BY <1>1, <1>2, <1>3, <1>4
     DEF Inv, WholeInv, Typed, Filled, WholeFiles, NobodySeizes, LockInv, Exclusive,
         ReadIsFresh, Landed, Holding

\* The steps that leave the file, the siblings and what was read alone.
Asks(p) ==
    \/ Take(p) \/ Create(p) \/ AlreadyExists(p) \/ PermissionDenied(p)
    \/ Look(p) \/ RemoveStale(p)

LEMMA Cases ==
    ASSUME Next
    PROVE  \/ Leave \/ Tick
           \/ \E p \in Processes :
                \/ Asks(p)
                \/ ReadFile(p) \/ MakeTemp(p) \/ FillTemp(p) \/ RenameTemp(p) \/ Release(p)
                \/ WriteFails(p) \/ Kill(p)
  BY DEF Next, Wait, Rewrite, Fails, Asks

\* Asking for the lock ends in having it, asking again, or giving up.
LEMMA AskingMoves ==
    ASSUME NEW p \in Processes, Typed, Asks(p)
    PROVE  /\ at' \in [Processes -> {"asking", "looking", "removing"} \cup Holding \cup Ended]
           /\ \A q \in Processes : q # p => at'[q] = at[q]
           /\ at'[p] \in {"asking", "looking", "removing", "locked", "gave up", "refused"}
           /\ UNCHANGED <<flock, file, temps, memory, saved>>
  <1>1. CASE Take(p) \/ Create(p)
    BY <1>1 DEF Typed, Take, Create, Goes, platform, files, Holding
  <1>2. CASE AlreadyExists(p) \/ RemoveStale(p)
    BY <1>2 DEF Typed, AlreadyExists, RemoveStale, Goes, platform, files
  <1>3. CASE PermissionDenied(p)
    BY <1>3 DEF Typed, PermissionDenied, Goes, platform, files, Ended
  <1>4. CASE Look(p)
    BY <1>4 DEF Typed, Look, Goes, platform, files, Ended
  <1> QED
    BY <1>1, <1>2, <1>3, <1>4 DEF Asks

-----------------------------------------------------------------------------
LEMMA WholeStep == WholeInv /\ [Next]_vars => WholeInv'
<1> SUFFICES ASSUME WholeInv, [Next]_vars PROVE WholeInv'
  OBVIOUS
<1> USE DEF WholeInv, WholeFiles
<1>1. CASE UNCHANGED vars
  BY <1>1 DEF vars, files, process, Typed, Filled
<1>2. CASE Leave \/ Tick
  BY <1>2 DEF Leave, Tick, files, process, Typed, Filled
<1>3. ASSUME NEW p \in Processes, Asks(p) PROVE WholeInv'
  <2>1. Typed'
    BY <1>3, AskingMoves DEF Typed
  <2>2. Filled'
    BY <1>3, AskingMoves DEF Filled
  <2> QED
    BY <1>3, <2>1, <2>2, AskingMoves
<1>4. ASSUME NEW p \in Processes, ReadFile(p) PROVE WholeInv'
  <2>1. file.entries \subseteq Processes
    BY DEF Typed, Texts
  <2>2. Typed'
    BY <1>4, <2>1 DEF ReadFile, Goes, Typed, files, Holding
  <2>3. Filled'
    BY <1>4 DEF ReadFile, Goes, Typed, Filled, files
  <2> QED
    BY <1>4, <2>2, <2>3 DEF ReadFile, files
<1>5. ASSUME NEW p \in Processes, MakeTemp(p) PROVE WholeInv'
  <2>1. Typed'
    BY <1>5 DEF MakeTemp, Goes, Typed, Holding
  <2>2. /\ DOMAIN temps' = DOMAIN temps \cup {p}
        /\ \A q \in DOMAIN temps : q # p => temps'[q] = temps[q]
    BY <1>5 DEF MakeTemp, Temp, temp_path
  <2>3. Filled'
    BY <1>5, <2>2 DEF MakeTemp, Goes, Typed, Filled
  <2> QED
    BY <1>5, <2>1, <2>3 DEF MakeTemp
<1>6. ASSUME NEW p \in Processes, FillTemp(p) PROVE WholeInv'
  <2>1. Typed'
    BY <1>6 DEF FillTemp, Goes, Typed, Holding
  <2>2. /\ DOMAIN temps' = DOMAIN temps \cup {p}
        /\ temps'[p] = Text(memory[p])
        /\ \A q \in DOMAIN temps : q # p => temps'[q] = temps[q]
    BY <1>6 DEF FillTemp, Temp, temp_path
  <2>3. Filled'
    BY <1>6, <2>2 DEF FillTemp, Goes, Typed, Filled
  <2> QED
    BY <1>6, <2>1, <2>3 DEF FillTemp
<1>7. ASSUME NEW p \in Processes, RenameTemp(p) PROVE WholeInv'
  <2>1. file' = Text(memory[p])
    BY <1>7 DEF RenameTemp, Filled, temp_path
  <2>2. file' \in Texts /\ file'.whole
    BY <2>1 DEF Typed, Text, Texts
  <2>3. Typed'
    BY <1>7, <2>2 DEF RenameTemp, Goes, Typed, Holding
  <2>4. /\ DOMAIN temps' = DOMAIN temps \ {p}
        /\ \A q \in DOMAIN temps : q # p => temps'[q] = temps[q]
    BY <1>7 DEF RenameTemp, Without, temp_path
  <2>5. Filled'
    BY <1>7, <2>4 DEF RenameTemp, Goes, Typed, Filled
  <2> QED
    BY <2>2, <2>3, <2>5
<1>8. ASSUME NEW p \in Processes, Release(p) PROVE WholeInv'
  <2>1. /\ at' \in [Processes -> {"asking", "looking", "removing"} \cup Holding \cup Ended]
        /\ at'[p] \in {"saved", "failed"}
        /\ \A q \in Processes : q # p => at'[q] = at[q]
    BY <1>8 DEF Release, Goes, Typed, Ended
  <2>2. /\ memory' \in [Processes -> SUBSET Processes]
        /\ \A q \in Processes : q # p => memory'[q] = memory[q]
    BY <1>8 DEF Release, Typed
  <2>3. saved' \subseteq Processes /\ UNCHANGED <<file, temps>>
    BY <1>8 DEF Release, Typed, files
  <2> QED
    BY <2>1, <2>2, <2>3 DEF Typed, Filled
<1>9. ASSUME NEW p \in Processes, WriteFails(p) PROVE WholeInv'
  <2>1. Typed'
    BY <1>9 DEF WriteFails, Goes, Typed, Holding
  <2>2. /\ DOMAIN temps' = DOMAIN temps \ {p}
        /\ \A q \in DOMAIN temps : q # p => temps'[q] = temps[q]
    BY <1>9 DEF WriteFails, Without, temp_path
  <2>3. Filled'
    BY <1>9, <2>2 DEF WriteFails, Goes, Typed, Filled
  <2> QED
    BY <1>9, <2>1, <2>3 DEF WriteFails
<1>10. ASSUME NEW p \in Processes, Kill(p) PROVE WholeInv'
  <2>1. /\ at' \in [Processes -> {"asking", "looking", "removing"} \cup Holding \cup Ended]
        /\ at'[p] = "killed"
        /\ \A q \in Processes : q # p => at'[q] = at[q]
    BY <1>10 DEF Kill, Goes, Typed, Ended
  <2>2. /\ memory' \in [Processes -> SUBSET Processes]
        /\ \A q \in Processes : q # p => memory'[q] = memory[q]
    BY <1>10 DEF Kill, Typed
  <2>3. UNCHANGED <<saved, file, temps>>
    BY <1>10 DEF Kill, files
  <2> QED
    BY <2>1, <2>2, <2>3 DEF Typed, Filled
<1> QED
  BY <1>1, <1>2, <1>3, <1>4, <1>5, <1>6, <1>7, <1>8, <1>9, <1>10, Cases

-----------------------------------------------------------------------------
LEMMA SeizesStep == Typed /\ NobodySeizes /\ [Next]_vars => NobodySeizes'
<1> SUFFICES ASSUME Typed, NobodySeizes, [Next]_vars PROVE NobodySeizes'
  OBVIOUS
<1> USE DEF NobodySeizes, Typed, platform, process
<1>1. CASE UNCHANGED vars
  BY <1>1 DEF vars
<1>2. CASE Leave \/ Tick
  BY <1>2 DEF Leave, Tick
<1>3. ASSUME NEW p \in Processes, Take(p) \/ Create(p) PROVE NobodySeizes'
  BY <1>3 DEF Take, Create, Goes
<1>4. ASSUME NEW p \in Processes, AlreadyExists(p) \/ PermissionDenied(p) PROVE NobodySeizes'
  BY <1>4 DEF AlreadyExists, PermissionDenied, Goes
<1>5. ASSUME NEW p \in Processes, Look(p) PROVE NobodySeizes'
  <2>1. /\ at[p] = "looking" /\ UNCHANGED flock
        /\ seized \/ Abandoned => seized'
        /\ seized' => seized \/ Abandoned
    BY <1>5 DEF Look
  <2>2. CASE Abandoned
    BY <2>1, <2>2
  <2>3. CASE ~Abandoned
    <3>1. at'[p] \in {"gave up", "asking"} /\ \A q \in Processes : q # p => at'[q] = at[q]
      BY <1>5, <2>3 DEF Look, Goes
    <3> QED
      BY <2>1, <2>3, <3>1
  <2> QED
    BY <2>2, <2>3
<1>6. ASSUME NEW p \in Processes, RemoveStale(p) PROVE NobodySeizes'
  BY <1>6 DEF RemoveStale, Goes
<1>7. ASSUME NEW p \in Processes, ReadFile(p) \/ MakeTemp(p) \/ FillTemp(p) PROVE NobodySeizes'
  BY <1>7 DEF ReadFile, MakeTemp, FillTemp, Goes
<1>8. ASSUME NEW p \in Processes, RenameTemp(p) \/ Release(p) PROVE NobodySeizes'
  BY <1>8 DEF RenameTemp, Release, Goes
<1>9. ASSUME NEW p \in Processes, WriteFails(p) \/ Kill(p) PROVE NobodySeizes'
  BY <1>9 DEF WriteFails, Kill, Goes
<1> QED
  BY <1>1, <1>2, <1>3, <1>4, <1>5, <1>6, <1>7, <1>8, <1>9, Cases DEF Asks

LEMMA LockStep == Inv /\ [Next]_vars => LockInv'
<1> SUFFICES ASSUME Inv, [Next]_vars, (flock \/ ~seized)'
             PROVE  (Exclusive /\ ReadIsFresh /\ Landed /\ saved \subseteq file.entries)'
  BY DEF LockInv
<1> DEFINE Goal == (Exclusive /\ ReadIsFresh /\ Landed /\ saved \subseteq file.entries)'
<1> USE FilesConstants
\* What was seized stays seized, and what has flock keeps it.
<1>0. /\ Exclusive /\ ReadIsFresh /\ Landed /\ saved \subseteq file.entries
      /\ Typed /\ Filled /\ NobodySeizes
  <2>1. flock' = flock /\ (seized => seized')
    <3>1. CASE UNCHANGED vars
      BY <3>1 DEF vars, platform
    <3>2. CASE Leave \/ Tick
      BY <3>2 DEF Leave, Tick, platform
    <3>3. ASSUME NEW p \in Processes, Asks(p) PROVE flock' = flock /\ (seized => seized')
      <4>1. CASE Look(p)
        BY <4>1 DEF Look, platform
      <4>2. CASE ~Look(p)
        BY <3>3, <4>2 DEF Asks, Take, Create, AlreadyExists, PermissionDenied, RemoveStale, platform
      <4> QED
        BY <4>1, <4>2
    <3>4. ASSUME NEW p \in Processes,
                 ReadFile(p) \/ MakeTemp(p) \/ FillTemp(p) \/ RenameTemp(p) \/ Release(p)
                 \/ WriteFails(p) \/ Kill(p)
          PROVE  flock' = flock /\ (seized => seized')
      BY <3>4 DEF ReadFile, MakeTemp, FillTemp, RenameTemp, Release, WriteFails, Kill, platform
    <3> QED
      BY <3>1, <3>2, <3>3, <3>4, Cases
  <2> QED
    BY <2>1 DEF Inv, LockInv, WholeInv
<1>1. CASE UNCHANGED vars
  BY <1>0, <1>1 DEF vars, files, process, Exclusive, ReadIsFresh, Landed
<1>2. CASE Leave
  <2>1. \A p \in Processes : at[p] \notin Holding
    BY <1>0, <1>2 DEF Leave, Exclusive
  <2> QED
    BY <1>0, <1>2, <2>1 DEF Leave, files, process, Exclusive, ReadIsFresh, Landed
<1>3. CASE Tick
  BY <1>0, <1>3 DEF Tick, files, Exclusive, ReadIsFresh, Landed
<1>4. ASSUME NEW p \in Processes, Asks(p) PROVE Goal
  <2>1. /\ \A q \in Processes : q # p => at'[q] = at[q]
        /\ at'[p] \in {"asking", "looking", "removing", "locked", "gave up", "refused"}
        /\ UNCHANGED <<file, memory, saved>>
    BY <1>0, <1>4, AskingMoves
  <2>2. Exclusive'
    <3>1. CASE Take(p) \/ Create(p)
      <4>1. \A q \in Processes : at[q] \notin Holding
        BY <1>0, <3>1 DEF Take, Create, Exclusive
      <4> QED
        BY <2>1, <3>1, <4>1 DEF Take, Create, Exclusive
    <3>2. CASE AlreadyExists(p) \/ PermissionDenied(p) \/ Look(p)
      <4>1. lock' = lock /\ at'[p] \notin Holding
        BY <1>0, <3>2 DEF Typed, AlreadyExists, PermissionDenied, Look, Goes, Holding
      <4> QED
        BY <1>0, <2>1, <4>1 DEF Exclusive
    <3>3. CASE RemoveStale(p)
      <4>1. at[p] = "removing" /\ flock' = flock /\ seized' = seized
        BY <3>3 DEF RemoveStale, platform
      <4> QED
        BY <1>0, <4>1 DEF NobodySeizes
    <3> QED
      BY <1>4, <3>1, <3>2, <3>3 DEF Asks
  <2>3. ReadIsFresh' /\ Landed'
    BY <1>0, <2>1 DEF ReadIsFresh, Landed
  <2> QED
    BY <1>0, <2>1, <2>2, <2>3
<1>5. ASSUME NEW p \in Processes, ReadFile(p) PROVE Goal
  <2>1. /\ at[p] = "locked" /\ at'[p] = "read" /\ memory'[p] = file.entries \cup {p}
        /\ \A q \in Processes : q # p => at'[q] = at[q] /\ memory'[q] = memory[q]
        /\ UNCHANGED <<lock, file, saved>>
    BY <1>0, <1>5 DEF ReadFile, Goes, Typed, files
  <2> QED
    BY <1>0, <2>1 DEF Exclusive, ReadIsFresh, Landed, Holding
<1>6. ASSUME NEW p \in Processes, MakeTemp(p) \/ FillTemp(p) PROVE Goal
  <2>1. /\ at[p] \in {"read", "making"} /\ at'[p] \in {"making", "written"}
        /\ \A q \in Processes : q # p => at'[q] = at[q]
        /\ UNCHANGED <<lock, file, memory, saved>>
    BY <1>0, <1>6 DEF MakeTemp, FillTemp, Goes, Typed
  <2> QED
    BY <1>0, <2>1 DEF Exclusive, ReadIsFresh, Landed, Holding
<1>7. ASSUME NEW p \in Processes, RenameTemp(p) PROVE Goal
  <2>1. /\ at[p] = "written" /\ at'[p] = "renamed"
        /\ \A q \in Processes : q # p => at'[q] = at[q]
        /\ UNCHANGED <<lock, memory, saved>>
    BY <1>0, <1>7 DEF RenameTemp, Goes, Typed
  <2>2. \A q \in Processes : q # p => at[q] \notin Holding
    BY <1>0, <2>1 DEF Exclusive, Holding
  <2>3. file'.entries = file.entries \cup {p}
    <3>1. file' = Text(memory[p])
      BY <1>0, <1>7 DEF RenameTemp, Filled, temp_path
    <3> QED
      BY <1>0, <2>1, <3>1 DEF ReadIsFresh, Text
  <2>4. Exclusive'
    BY <1>0, <2>1 DEF Exclusive, Holding
  <2>5. ReadIsFresh' /\ Landed'
    BY <2>1, <2>2, <2>3 DEF ReadIsFresh, Landed, Holding
  <2> QED
    BY <1>0, <2>1, <2>3, <2>4, <2>5
<1>8. ASSUME NEW p \in Processes, Release(p) PROVE Goal
  <2>1. /\ at[p] \in {"renamed", "failing"} /\ at'[p] \in {"saved", "failed"}
        /\ \A q \in Processes : q # p => at'[q] = at[q] /\ memory'[q] = memory[q]
        /\ UNCHANGED file
    BY <1>0, <1>8 DEF Release, Goes, Typed, files
  <2>2. \A q \in Processes : q # p => at[q] \notin Holding
    BY <1>0, <2>1 DEF Exclusive, Holding
  <2>3. saved' \subseteq file.entries
    BY <1>0, <1>8 DEF Release, Landed
  <2> QED
    BY <2>1, <2>2, <2>3 DEF Exclusive, ReadIsFresh, Landed, Holding
<1>9. ASSUME NEW p \in Processes, WriteFails(p) PROVE Goal
  <2>1. /\ at[p] \in Holding /\ at'[p] = "failing"
        /\ \A q \in Processes : q # p => at'[q] = at[q]
        /\ UNCHANGED <<lock, file, memory, saved>>
    BY <1>0, <1>9 DEF WriteFails, Goes, Typed, Holding
  <2> QED
    BY <1>0, <2>1 DEF Exclusive, ReadIsFresh, Landed
<1>10. ASSUME NEW p \in Processes, Kill(p) PROVE Goal
  <2>1. /\ at'[p] = "killed"
        /\ \A q \in Processes : q # p => at'[q] = at[q] /\ memory'[q] = memory[q]
        /\ UNCHANGED <<file, saved>>
    BY <1>0, <1>10 DEF Kill, Goes, Typed, files
  <2>2. Exclusive'
    <3>1. CASE at[p] \in Holding
      <4>1. \A q \in Processes : q # p => at[q] \notin Holding
        BY <1>0, <3>1 DEF Exclusive
      <4> QED
        BY <2>1, <4>1 DEF Exclusive, Holding
    <3>2. CASE at[p] \notin Holding
      <4>1. lock' = lock
        BY <1>10, <3>2 DEF Kill
      <4> QED
        BY <1>0, <2>1, <4>1 DEF Exclusive, Holding
    <3> QED
      BY <3>1, <3>2
  <2>3. ReadIsFresh' /\ Landed'
    BY <1>0, <2>1 DEF ReadIsFresh, Landed
  <2> QED
    BY <1>0, <2>1, <2>2, <2>3
<1> QED
  BY <1>1, <1>2, <1>3, <1>4, <1>5, <1>6, <1>7, <1>8, <1>9, <1>10, Cases

-----------------------------------------------------------------------------
LEMMA InvStep == Inv /\ [Next]_vars => Inv'
  BY WholeStep, SeizesStep, LockStep DEF Inv, WholeInv

(* Whoever reads the file at any moment, without a lock, reads all of what *)
(* some command wrote: whatever fails, whoever is killed, and even while   *)
(* two hold the lock (write_json).                                         *)
THEOREM NeverTorn == Spec => []WholeFiles
<1>1. Inv => WholeFiles
  BY DEF Inv, WholeInv
<1> QED
  BY <1>1, InitInv, InvStep, PTL DEF Spec

(* An entry a command said it had saved is in the file from then on, with  *)
(* flock always, and without it as long as no lock file was ever taken for *)
(* abandoned (FileLock, write_json).                                       *)
THEOREM NoEntryIsLost == Spec => []NothingLost
<1>1. Inv => NothingLost
  BY DEF Inv, LockInv, NothingLost
<1> QED
  BY <1>1, InitInv, InvStep, PTL DEF Spec

-----------------------------------------------------------------------------
(* What a rewrite promises: one atomic step.                               *)

\* An entry gets into a file in one step that leaves the others there, and whose
\* command then says so.
Adds(p) ==
    /\ p \notin file.entries
    /\ file' = Text(file.entries \cup {p}) /\ saved' = saved

Tells(p) ==
    /\ p \in file.entries \ saved
    /\ saved' = saved \cup {p} /\ file' = file

AtomicInit == file = Text({}) /\ saved = {}
AtomicNext == \E p \in Processes : Adds(p) \/ Tells(p)
AtomicSpec == AtomicInit /\ [][AtomicNext]_<<file, saved>>

(* An entry is in the file, or in what another has read, only if its       *)
(* process got as far as the rename.                                       *)
Past == {"renamed", "saved", "killed"}

Entered ==
    \A p \in Processes :
        /\ p \in file.entries => at[p] \in Past
        /\ p \in saved => at[p] = "saved"
        /\ \A q \in Processes : q # p /\ p \in memory[q] => at[p] \in Past

\* No command that says it could not save has its entry in the file.
NoFailureIsFalse ==
    \A p \in Processes : at[p] \in {"gave up", "refused", "failed"} => p \notin file.entries

LEMMA EnteredInit == Init => Entered
  BY DEF Init, Entered, Text

LEMMA EnteredStep == WholeInv /\ Entered /\ [Next]_vars => Entered'
<1> SUFFICES ASSUME WholeInv, Entered, [Next]_vars PROVE Entered'
  OBVIOUS
<1> USE DEF Entered, Past
<1>0. Typed /\ Filled
  BY DEF WholeInv
<1>1. CASE UNCHANGED vars
  BY <1>1 DEF vars, files, process
<1>2. CASE Leave \/ Tick
  BY <1>2 DEF Leave, Tick, files, process
<1>3. ASSUME NEW p \in Processes, Asks(p) PROVE Entered'
  <2>1. at[p] \in {"asking", "looking", "removing"}
    BY <1>3 DEF Asks, Take, Create, AlreadyExists, PermissionDenied, Look, RemoveStale
  <2> QED
    BY <1>0, <1>3, <2>1, AskingMoves
<1>4. ASSUME NEW p \in Processes, ReadFile(p) PROVE Entered'
  <2>1. /\ at[p] = "locked" /\ at'[p] = "read" /\ memory'[p] = file.entries \cup {p}
        /\ \A q \in Processes : q # p => at'[q] = at[q] /\ memory'[q] = memory[q]
        /\ UNCHANGED <<file, saved>>
    BY <1>0, <1>4 DEF ReadFile, Goes, Typed, files
  <2> QED
    BY <2>1
<1>5. ASSUME NEW p \in Processes, MakeTemp(p) \/ FillTemp(p) \/ WriteFails(p) PROVE Entered'
  <2>1. /\ at[p] \in {"read", "making", "written"} /\ at'[p] \in {"making", "written", "failing"}
        /\ \A q \in Processes : q # p => at'[q] = at[q]
        /\ UNCHANGED <<file, memory, saved>>
    BY <1>0, <1>5 DEF MakeTemp, FillTemp, WriteFails, Goes, Typed
  <2> QED
    BY <2>1
<1>6. ASSUME NEW p \in Processes, RenameTemp(p) PROVE Entered'
  <2>1. /\ at[p] = "written" /\ at'[p] = "renamed"
        /\ \A q \in Processes : q # p => at'[q] = at[q]
        /\ UNCHANGED <<memory, saved>>
    BY <1>0, <1>6 DEF RenameTemp, Goes, Typed
  <2>2. file' = Text(memory[p])
    BY <1>0, <1>6 DEF RenameTemp, Filled, temp_path
  <2> QED
    BY <2>1, <2>2 DEF Text
<1>7. ASSUME NEW p \in Processes, Release(p) PROVE Entered'
  <2>1. /\ at[p] = "renamed" => at'[p] = "saved" /\ saved' = saved \cup {p}
        /\ at[p] # "renamed" => at[p] = "failing" /\ saved' = saved
        /\ \A q \in Processes : q # p => at'[q] = at[q] /\ memory'[q] = memory[q]
        /\ memory'[p] = {} /\ UNCHANGED file
    BY <1>0, <1>7 DEF Release, Goes, Typed, files
  <2> QED
    BY <2>1
<1>8. ASSUME NEW p \in Processes, Kill(p) PROVE Entered'
  <2>1. /\ at[p] # "saved" /\ at'[p] = "killed"
        /\ \A q \in Processes : q # p => at'[q] = at[q] /\ memory'[q] = memory[q]
        /\ memory'[p] = {} /\ UNCHANGED <<file, saved>>
    BY <1>0, <1>8 DEF Kill, Goes, Typed, files, Ended
  <2> QED
    BY <2>1
<1> QED
  BY <1>1, <1>2, <1>3, <1>4, <1>5, <1>6, <1>7, <1>8, Cases

(* A command that ends saying that it could not save has saved nothing:    *)
(* its entry is not in the file, whatever the lock did meanwhile           *)
(* (FileLock::take, write_json).                                           *)
THEOREM FailuresAreTrue == Spec => []NoFailureIsFalse
<1>1. Entered => NoFailureIsFalse
  BY DEF Entered, Past, NoFailureIsFalse
<1>2. Inv => WholeInv
  BY DEF Inv
<1> QED
  BY <1>1, <1>2, EnteredInit, EnteredStep, InitInv, InvStep, PTL DEF Spec

LEMMA AtomicStep ==
    ASSUME Inv, Entered, flock \/ ~seized, [Next]_vars
    PROVE  [AtomicNext]_<<file, saved>>
<1>0. /\ Typed /\ Filled /\ ReadIsFresh /\ Landed
  BY DEF Inv, WholeInv, LockInv
<1>1. CASE UNCHANGED vars
  BY <1>1 DEF vars, files
<1>2. CASE Leave \/ Tick
  BY <1>2 DEF Leave, Tick, files
<1>3. ASSUME NEW p \in Processes, Asks(p) PROVE UNCHANGED <<file, saved>>
  BY <1>0, <1>3, AskingMoves
<1>4. ASSUME NEW p \in Processes,
             ReadFile(p) \/ MakeTemp(p) \/ FillTemp(p) \/ WriteFails(p) \/ Kill(p)
      PROVE  UNCHANGED <<file, saved>>
  BY <1>4 DEF ReadFile, MakeTemp, FillTemp, WriteFails, Kill, files
<1>5. ASSUME NEW p \in Processes, RenameTemp(p) PROVE Adds(p)
  <2>1. at[p] = "written" /\ file' = Text(memory[p]) /\ saved' = saved
    BY <1>0, <1>5 DEF RenameTemp, Filled, temp_path
  <2>2. memory[p] = file.entries \cup {p}
    BY <1>0, <2>1 DEF ReadIsFresh
  <2>3. p \notin file.entries
    BY <2>1 DEF Entered, Past
  <2> QED
    BY <2>1, <2>2, <2>3 DEF Adds
<1>6. ASSUME NEW p \in Processes, Release(p) PROVE Tells(p) \/ UNCHANGED <<file, saved>>
  <2>1. CASE at[p] = "renamed"
    <3>1. p \in file.entries /\ p \notin saved
      BY <1>0, <2>1 DEF Landed, Entered
    <3> QED
      BY <1>6, <2>1, <3>1 DEF Release, Tells, files
  <2>2. CASE at[p] # "renamed"
    BY <1>6, <2>2 DEF Release, files
  <2> QED
    BY <2>1, <2>2
<1> QED
  BY <1>1, <1>2, <1>3, <1>4, <1>5, <1>6, Cases DEF AtomicNext

(* With flock, and without it as long as no lock file was taken for        *)
(* abandoned, locking, reading, writing a sibling and renaming it are      *)
(* together one step: the entry joins those that are there, once, and the  *)
(* command says so afterwards if at all (FileLock, write_json).            *)
THEOREM RewritesAtomically == Spec /\ [](flock \/ ~seized) => AtomicSpec
<1>1. Init => AtomicInit
  BY DEF Init, AtomicInit
<1>2. Inv => WholeInv
  BY DEF Inv
<1>3. Inv /\ Entered /\ (flock \/ ~seized) /\ [Next]_vars => [AtomicNext]_<<file, saved>>
  BY AtomicStep
<1> QED
  BY <1>1, <1>2, <1>3, EnteredInit, EnteredStep, InitInv, InvStep, PTL DEF Spec, AtomicSpec

-----------------------------------------------------------------------------
\* What TypeOK says of the rest: the lock, the clocks and the siblings.
LEMMA ClocksTyped == TypeOK /\ WholeInv /\ [Next]_vars => TypeOK'
<1> SUFFICES ASSUME TypeOK, WholeInv, WholeInv', [Next]_vars PROVE TypeOK'
  BY WholeStep
<1> DEFINE Rest == /\ flock \in BOOLEAN /\ writable \in BOOLEAN /\ seized \in BOOLEAN
                   /\ lock \in Processes \cup {NoOne, Leaving}
                   /\ age \in 0..(Stale + 1)
                   /\ waited \in [Processes -> 0..GiveUp]
                   /\ denied \in [Processes -> 0..2]
                   /\ kills \in 0..MaxKills
           Siblings == \E made \in SUBSET Processes : temps \in [made -> Texts]
<1>1. Rest /\ Siblings
  BY DEF TypeOK
<1>2. SUFFICES Rest' /\ Siblings'
  BY DEF TypeOK, WholeInv, Typed
<1>3. Stale \in Nat /\ GiveUp \in Nat /\ MaxKills \in Nat
  BY FilesConstants
<1>4. /\ memory \in [Processes -> SUBSET Processes]
      /\ file \in Texts
  BY DEF WholeInv, Typed
<1> USE DEF platform, files, process, temp_path, Forgets, Leaves
<1>5. CASE UNCHANGED vars
  BY <1>1, <1>5 DEF vars
<1>6. CASE Leave
  BY <1>1, <1>6 DEF Leave
<1>7. CASE Tick
  <2>1. age' \in 0..(Stale + 1)
    BY <1>1, <1>3, <1>7 DEF Tick
  <2>2. waited' \in [Processes -> 0..GiveUp]
    BY <1>1, <1>3, <1>7 DEF Tick
  <2>3. denied' \in [Processes -> 0..2]
    BY <1>1, <1>7 DEF Tick
  <2> QED
    BY <1>1, <1>7, <2>1, <2>2, <2>3 DEF Tick
<1>8. ASSUME NEW p \in Processes, Asks(p) PROVE Rest' /\ Siblings'
  <2>1. UNCHANGED <<flock, writable, temps, kills>>
    BY <1>8 DEF Asks, Take, Create, AlreadyExists, PermissionDenied, Look, RemoveStale
  <2>2. CASE Take(p) \/ Create(p)
    BY <1>1, <1>3, <2>1, <2>2 DEF Take, Create
  <2>3. CASE AlreadyExists(p)
    BY <1>1, <2>1, <2>3 DEF AlreadyExists
  <2>4. CASE PermissionDenied(p)
    <3>1. UNCHANGED <<lock, age, seized>>
      BY <2>4 DEF PermissionDenied
    <3>2. \/ waited' = waited
          \/ waited' = [waited EXCEPT ![p] = 0]
      BY <2>4 DEF PermissionDenied
    <3>3. \/ denied' = [denied EXCEPT ![p] = 0]
          \/ denied' = [denied EXCEPT ![p] = 1]
          \/ denied' = [denied EXCEPT ![p] = denied[p]]
      BY <2>4 DEF PermissionDenied
    <3>4. waited' \in [Processes -> 0..GiveUp] /\ denied' \in [Processes -> 0..2]
      BY <1>1, <1>3, <3>2, <3>3
    <3> QED
      BY <1>1, <2>1, <3>1, <3>4
  <2>5. CASE Look(p)
    <3>1. UNCHANGED <<lock, age>> /\ seized' \in BOOLEAN
      BY <2>5 DEF Look
    <3>2. \/ UNCHANGED <<waited, denied>>
          \/ waited' = [waited EXCEPT ![p] = 0] /\ denied' = [denied EXCEPT ![p] = 0]
      BY <2>5 DEF Look
    <3>3. waited' \in [Processes -> 0..GiveUp] /\ denied' \in [Processes -> 0..2]
      BY <1>1, <1>3, <3>2
    <3> QED
      BY <1>1, <2>1, <3>1, <3>3
  <2>6. CASE RemoveStale(p)
    <3>1. lock' \in Processes \cup {NoOne, Leaving} /\ age' \in 0..(Stale + 1)
      BY <1>1, <1>3, <2>6 DEF RemoveStale, Gone
    <3> QED
      BY <1>1, <2>1, <2>6, <3>1 DEF RemoveStale
  <2> QED
    BY <1>8, <2>2, <2>3, <2>4, <2>5, <2>6 DEF Asks
<1>9. ASSUME NEW p \in Processes, ReadFile(p) PROVE Rest' /\ Siblings'
  BY <1>1, <1>9 DEF ReadFile
<1>10. ASSUME NEW p \in Processes, MakeTemp(p) \/ FillTemp(p) PROVE Rest' /\ Siblings'
  <2>1. Text(memory[p]) \in Texts /\ Part(Text(memory[p])) \in Texts
    BY <1>4 DEF Text, Texts, Part
  <2>2. Siblings'
    <3>1. PICK made \in SUBSET Processes : temps \in [made -> Texts]
      BY <1>1
    <3>2. temps' \in [made \cup {p} -> Texts]
      BY <1>10, <2>1, <3>1 DEF MakeTemp, FillTemp, Temp
    <3> QED
      BY <3>2
  <2> QED
    BY <1>1, <1>10, <2>2 DEF MakeTemp, FillTemp
<1>11. ASSUME NEW p \in Processes, RenameTemp(p) \/ WriteFails(p) PROVE Rest' /\ Siblings'
  <2>1. Siblings'
    <3>1. PICK made \in SUBSET Processes : temps \in [made -> Texts]
      BY <1>1
    <3>2. temps' \in [made \ {p} -> Texts]
      BY <1>11, <3>1 DEF RenameTemp, WriteFails, Without
    <3> QED
      BY <3>2
  <2> QED
    BY <1>1, <1>11, <2>1 DEF RenameTemp, WriteFails
<1>12. ASSUME NEW p \in Processes, Release(p) PROVE Rest' /\ Siblings'
  <2>1. UNCHANGED <<flock, writable, seized, temps, waited, denied, kills>>
    BY <1>12 DEF Release
  <2>2. lock' \in Processes \cup {NoOne, Leaving} /\ age' \in 0..(Stale + 1)
    BY <1>1, <1>3, <1>12 DEF Release, Gone
  <2> QED
    BY <1>1, <2>1, <2>2
<1>13. ASSUME NEW p \in Processes, Kill(p) PROVE Rest' /\ Siblings'
  <2>1. UNCHANGED <<flock, writable, seized, temps>>
    BY <1>13 DEF Kill
  <2>2. lock' \in Processes \cup {NoOne, Leaving} /\ age' \in 0..(Stale + 1)
    BY <1>1, <1>3, <1>13 DEF Kill
  <2>3. kills' \in 0..MaxKills
    BY <1>1, <1>3, <1>13 DEF Kill
  <2>4. waited' \in [Processes -> 0..GiveUp] /\ denied' \in [Processes -> 0..2]
    BY <1>1, <1>3, <1>13 DEF Kill
  <2> QED
    BY <1>1, <2>1, <2>2, <2>3, <2>4
<1> HIDE DEF Rest, Siblings
<1> QED
  BY <1>5, <1>6, <1>7, <1>8, <1>9, <1>10, <1>11, <1>12, <1>13, Cases

(* Every variable of the rewriting keeps its type: nobody's age, wait or   *)
(* denials run past the bound at which the code looks at them, and what    *)
(* a sibling holds is always a text (FileLock::take, write_json).          *)
THEOREM FilesTypeCorrect == Spec => []TypeOK
<1>1. Init => TypeOK
  <2> SUFFICES ASSUME Init PROVE TypeOK
    OBVIOUS
  <2>1. /\ file \in Texts /\ temps \in [{} -> Texts]
    BY DEF Init, Texts, Text
  <2>2. /\ age \in 0..(Stale + 1) /\ kills \in 0..MaxKills
        /\ waited \in [Processes -> 0..GiveUp] /\ denied \in [Processes -> 0..2]
    BY FilesConstants DEF Init
  <2>3. /\ at \in [Processes -> {"asking", "looking", "removing"} \cup Holding \cup Ended]
        /\ memory \in [Processes -> SUBSET Processes] /\ saved \subseteq Processes
        /\ flock \in BOOLEAN /\ writable \in BOOLEAN /\ seized \in BOOLEAN
        /\ lock \in Processes \cup {NoOne, Leaving}
    BY DEF Init
  <2> QED
    BY <2>1, <2>2, <2>3 DEF TypeOK
<1>2. Inv => WholeInv
  BY DEF Inv
<1> QED
  BY <1>1, <1>2, ClocksTyped, InitInv, InvStep, PTL DEF Spec
=============================================================================
