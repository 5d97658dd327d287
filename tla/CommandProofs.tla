---------------------------- MODULE CommandProofs ----------------------------
(***************************************************************************)
(* What holds of one command.                                              *)
(*                                                                         *)
(* First what it remembers of a saved server (Notes), for any number of    *)
(* commands, configs and tasks: a note is believed only of what it was     *)
(* found out about, and a task's is dropped only when somebody knows how   *)
(* it fared.                                                               *)
(*                                                                         *)
(* Then the algorithms it runs, for every input: the filter a result goes  *)
(* through, a registry's copy, a snapshot's check, the answer to a form,   *)
(* the headers of a request, a header and a glob that are saved, the token *)
(* a server sees, how it is filled in and listed, how a client names       *)
(* itself and where its server is found.  MCFunctions runs them over small *)
(* sets.                                                                   *)
(***************************************************************************)
EXTENDS Notes, Sequences, SequenceTheorems, FiniteSetTheorems, WellFoundedInduction, TLAPS

USE DEF store, world

-----------------------------------------------------------------------------
Steps == {"idle", "add", "replace", "set", "forget", "listing one", "over", "remove",
          "connect", "dial", "dialed", "save", "drop", "remember", "get", "result", "cancel",
          "list", "poll", "collect", "drop tasks"}

(* The variables the arguments are about have their types.                 *)
Typed ==
    /\ server \in Configs \cup {NoServer} /\ credential \in BOOLEAN
    /\ probe \in [status : StatusNote, era : EraNote]
    /\ speaks \in [Configs -> Eras]
    /\ pc \in [Commands -> Steps]
    /\ read \in [Commands -> Saved] /\ dialed \in [Commands -> Saved]
    /\ ids \in [Commands -> [asked : SUBSET Tasks, over : SUBSET Tasks]]
    /\ mixed \in BOOLEAN

(* Only a config that is saved is dialed.                                  *)
Dialable == \A p \in Commands : pc[p] \in {"connect", "dial"} => read[p].config \in Configs

(* What a listing dials is what it read, and what it found is of that.     *)
DialsWhatItRead ==
    \A p \in Commands :
        /\ pc[p] = "dial" => mixed \/ read[p].credential = credential
        /\ pc[p] \in {"dialed", "save"} =>
             /\ dialed[p].config = read[p].config
             /\ mixed \/ dialed[p].credential = read[p].credential

(* What is noted is of what it is keyed by.                                *)
KeyedByItself ==
    /\ probe.status.key.config # NoServer =>
         /\ probe.status.of.config = probe.status.key.config
         /\ mixed \/ probe.status.of.credential = probe.status.key.credential
    /\ probe.era.key # NoServer => probe.era.of = probe.era.key

(* What is about to be forgotten somebody was told about.                  *)
ToldBefore ==
    \A p \in Commands :
        /\ pc[p] = "collect" => ids[p].asked \subseteq answered
        /\ pc[p] = "drop tasks" => ids[p].over \subseteq answered

Inv == Typed /\ Dialable /\ DialsWhatItRead /\ KeyedByItself /\ ToldBefore

NotedTasks == noted \subseteq Tasks

-----------------------------------------------------------------------------
LEMMA RecordsTyped ==
    /\ Nothing \in Saved /\ NoStatus \in StatusNote /\ NoEra \in EraNote
    /\ NoIds \in [asked : SUBSET Tasks, over : SUBSET Tasks]
    /\ NoStatus.key.config = NoServer /\ NoEra.key = NoServer
  BY DEF Nothing, Saved, NoStatus, StatusNote, NoEra, EraNote, NoIds, Eras

LEMMA InitInv == Init => Inv
<1> SUFFICES ASSUME Init PROVE Inv
  OBVIOUS
<1>1. Typed
  BY RecordsTyped DEF Init, Typed, Steps
<1>2. KeyedByItself
  BY RecordsTyped DEF Init, KeyedByItself
<1>3. \A p \in Commands : pc[p] = "idle"
  BY DEF Init
<1> QED
  BY <1>1, <1>2, <1>3 DEF Inv, Dialable, DialsWhatItRead, ToldBefore

\* A command that begins reads what is saved, and was idle.
LEMMA BeginsOne ==
    ASSUME Typed, NEW p \in Commands, NEW step \in Steps, Begins(p, step)
    PROVE  /\ pc[p] = "idle" /\ pc' \in [Commands -> Steps] /\ pc'[p] = step
           /\ read' \in [Commands -> Saved]
           /\ read'[p] = [config |-> server, credential |-> credential]
           /\ \A q \in Commands : q # p => pc'[q] = pc[q] /\ read'[q] = read[q]
  BY DEF Typed, Begins, Goes, Saved

\* Beginning to do what no argument is about yet.
LEMMA BeginsKeep ==
    ASSUME Inv, NEW p \in Commands,
           NEW step \in {"add", "replace", "set", "remove", "over", "connect", "dial",
                         "remember", "get", "result", "cancel", "list"},
           Begins(p, step), step \in {"connect", "dial"} => server # NoServer,
           UNCHANGED <<credential, probe, speaks, dialed, mixed, answered>>,
           server' \in Configs \cup {NoServer},
           ids' \in [Commands -> [asked : SUBSET Tasks, over : SUBSET Tasks]],
           \A q \in Commands : q # p => ids'[q] = ids[q]
    PROVE  Inv'
<1>1. step \in Steps
  BY DEF Steps
<1>2. Typed'
  BY <1>1, BeginsOne DEF Inv, Typed
<1>3. Dialable'
  BY <1>1, BeginsOne DEF Inv, Dialable, Typed
<1>4. DialsWhatItRead'
  BY <1>1, BeginsOne DEF Inv, DialsWhatItRead
<1>5. KeyedByItself'
  BY DEF Inv, KeyedByItself
<1>6. ToldBefore'
  <2>1. pc'[p] = step /\ \A q \in Commands : q # p => pc'[q] = pc[q]
    BY <1>1, BeginsOne DEF Inv
  <2>2. step # "collect" /\ step # "drop tasks"
    OBVIOUS
  <2> QED
    BY <2>1, <2>2 DEF Inv, ToldBefore
<1> QED
  BY <1>2, <1>3, <1>4, <1>5, <1>6 DEF Inv

\* Going on to a step no argument is about, with nothing read or dialed anew.
LEMMA GoesKeep ==
    ASSUME Inv, NEW p \in Commands,
           NEW step \in {"over", "forget", "listing one", "poll", "drop"},
           Goes(p, step), UNCHANGED <<credential, speaks, read, dialed, ids, mixed>>,
           server' \in Configs \cup {NoServer}, answered \subseteq answered',
           probe' \in [status : StatusNote, era : EraNote], KeyedByItself'
    PROVE  Inv'
<1>1. /\ pc' \in [Commands -> Steps] /\ pc'[p] = step
      /\ \A q \in Commands : q # p => pc'[q] = pc[q]
  BY DEF Inv, Typed, Goes, Steps
<1>2. Typed'
  BY <1>1 DEF Inv, Typed
<1>3. Dialable' /\ DialsWhatItRead'
  BY <1>1 DEF Inv, Dialable, DialsWhatItRead
<1>4. ToldBefore'
  BY <1>1 DEF Inv, ToldBefore
<1> QED
  BY <1>2, <1>3, <1>4 DEF Inv

\* The era that is noted is the dialed config's.
LEMMA OpenedKeeps ==
    ASSUME Inv, NEW p \in Commands, NEW step \in Steps, Opened(p, step),
           read[p].config \in Configs, UNCHANGED mixed
    PROVE  /\ probe' \in [status : StatusNote, era : EraNote]
           /\ KeyedByItself'
           /\ dialed' \in [Commands -> Saved]
           /\ dialed'[p] = [config |-> read[p].config, credential |-> credential]
           /\ \A q \in Commands : q # p => dialed'[q] = dialed[q]
<1>1. /\ dialed' = [dialed EXCEPT ![p] = [config |-> read[p].config, credential |-> credential]]
      /\ \/ probe' = [probe EXCEPT !.era = [era |-> speaks[read[p].config], key |-> read[p].config,
                                          of |-> read[p].config, old |-> FALSE]]
         \/ UNCHANGED probe
  BY DEF Opened
<1>2. [config |-> read[p].config, credential |-> credential] \in Saved
  BY DEF Inv, Typed, Saved
<1>3. [era |-> speaks[read[p].config], key |-> read[p].config,
       of |-> read[p].config, old |-> FALSE] \in EraNote
  BY DEF Inv, Typed, EraNote
<1>4. probe' \in [status : StatusNote, era : EraNote]
  BY <1>1, <1>3 DEF Inv, Typed
<1>5. KeyedByItself'
  <2>1. probe'.status = probe.status
    BY <1>1 DEF Inv, Typed
  <2>2. probe'.era = probe.era \/ probe'.era.of = probe'.era.key
    BY <1>1 DEF Inv, Typed
  <2> QED
    BY <2>1, <2>2 DEF Inv, KeyedByItself
<1> QED
  BY <1>1, <1>2, <1>4, <1>5 DEF Inv, Typed

LEMMA Cases ==
    ASSUME Next
    PROVE  \/ Ages \/ ServerMoves
           \/ \E p \in Commands :
                \/ Add(p) \/ Set(p) \/ Import(p) \/ AddServer(p) \/ ForgetProbe(p)
                \/ Remove(p) \/ RemoveCredential(p) \/ Credential(p)
                \/ Connect(p) \/ Dial(p) \/ Ls(p) \/ ListingOne(p) \/ Probe(p)
                \/ ReadServers(p) \/ SaveProbes(p)
                \/ StartTask(p) \/ RememberTask(p) \/ AskAbout(p) \/ Refused(p) \/ Fetched(p)
                \/ Poll(p) \/ Collect(p) \/ Cancel(p) \/ ListTasks(p) \/ Listed(p)
                \/ DropTasks(p) \/ Ends(p)
  BY DEF Next, Command

LEMMA OthersStay ==
    ASSUME Next
    PROVE  \/ UNCHANGED noted
           \/ \E p \in Commands : RememberTask(p) \/ Refused(p) \/ Collect(p) \/ DropTasks(p)
<1>1. CASE Ages \/ ServerMoves
  BY <1>1 DEF Ages, ServerMoves
<1>2. ASSUME NEW p \in Commands,
             \/ Add(p) \/ Set(p) \/ Import(p) \/ AddServer(p) \/ ForgetProbe(p)
             \/ Remove(p) \/ RemoveCredential(p) \/ Credential(p)
             \/ Connect(p) \/ Dial(p) \/ Ls(p) \/ ListingOne(p) \/ Probe(p)
             \/ ReadServers(p) \/ SaveProbes(p)
      PROVE  UNCHANGED noted
  BY <1>2 DEF Add, Set, Import, AddServer, ForgetProbe, Remove, RemoveCredential, Credential,
              Connect, Dial, Ls, ListingOne, Probe, ReadServers, SaveProbes
<1>3. ASSUME NEW p \in Commands,
             \/ StartTask(p) \/ AskAbout(p) \/ Fetched(p) \/ Poll(p) \/ Cancel(p)
             \/ ListTasks(p) \/ Listed(p) \/ Ends(p)
      PROVE  UNCHANGED noted
  BY <1>3 DEF StartTask, AskAbout, Fetched, Poll, Cancel, ListTasks, Listed, Ends
<1> QED
  BY <1>1, <1>2, <1>3, Cases

-----------------------------------------------------------------------------
LEMMA InvStep == Inv /\ NotedTasks /\ [Next]_vars => Inv'
<1> SUFFICES ASSUME Inv, NotedTasks, [Next]_vars PROVE Inv'
  OBVIOUS
<1> USE RecordsTyped
<1>1. CASE UNCHANGED vars
  BY <1>1 DEF vars, Inv, Typed, Dialable, DialsWhatItRead, KeyedByItself, ToldBefore
<1>2. ASSUME NEW p \in Commands, Add(p) \/ Set(p) \/ Import(p) \/ Connect(p) \/ Ls(p) PROVE Inv'
  <2>1. PICK step \in {"add", "replace", "set", "connect", "dial", "over"} :
            Begins(p, step) /\ (step \in {"connect", "dial"} => server # NoServer)
    BY <1>2 DEF Add, Set, Import, Connect, Ls
  <2>2. UNCHANGED <<server, credential, probe, speaks, dialed, mixed, answered, ids>>
    BY <1>2 DEF Add, Set, Import, Connect, Ls
  <2> QED
    BY <2>1, <2>2, BeginsKeep DEF Inv, Typed
<1>3. ASSUME NEW p \in Commands, Remove(p) PROVE Inv'
  <2>1. /\ Begins(p, "remove") /\ server' = NoServer
        /\ UNCHANGED <<credential, probe, speaks, dialed, mixed, answered, ids>>
    BY <1>3 DEF Remove
  <2> QED
    BY <2>1, BeginsKeep DEF Inv, Typed
<1>4. ASSUME NEW p \in Commands, StartTask(p) \/ AskAbout(p) \/ ListTasks(p) PROVE Inv'
  <2>1. PICK step \in {"remember", "get", "result", "cancel", "list"} : Begins(p, step)
    BY <1>4 DEF StartTask, AskAbout, ListTasks
  <2>2. UNCHANGED <<server, credential, probe, speaks, dialed, mixed, answered>>
    BY <1>4 DEF StartTask, AskAbout, ListTasks
  <2>3. \E some \in SUBSET Tasks : ids' = [ids EXCEPT ![p].asked = some]
    <3>1. CASE ListTasks(p)
      BY <3>1 DEF ListTasks, NotedTasks
    <3>2. CASE StartTask(p) \/ AskAbout(p)
      <4>1. PICK i \in Tasks : ids' = [ids EXCEPT ![p].asked = {i}]
        BY <3>2 DEF StartTask, AskAbout
      <4> QED
        BY <4>1
    <3> QED
      BY <1>4, <3>1, <3>2
  <2>4. /\ ids' \in [Commands -> [asked : SUBSET Tasks, over : SUBSET Tasks]]
        /\ \A q \in Commands : q # p => ids'[q] = ids[q]
    BY <2>3 DEF Inv, Typed
  <2> QED
    BY <2>1, <2>2, <2>4, BeginsKeep DEF Inv, Typed
<1>5. ASSUME NEW p \in Commands, Credential(p) PROVE Inv'
  <2>1. /\ Begins(p, "over") /\ credential' \in BOOLEAN /\ Mixes
        /\ UNCHANGED <<server, probe, speaks, dialed, ids, answered>>
    BY <1>5 DEF Credential
  <2>2. mixed' \in BOOLEAN /\ (mixed => mixed')
    BY <2>1 DEF Mixes, Inv, Typed
  <2>3. \A q \in Commands : pc[q] \in Listing => mixed'
    BY <2>1 DEF Mixes
  <2>4. /\ pc' \in [Commands -> Steps] /\ pc'[p] = "over" /\ read' \in [Commands -> Saved]
        /\ \A q \in Commands : q # p => pc'[q] = pc[q] /\ read'[q] = read[q]
    BY <2>1, BeginsOne DEF Inv, Steps
  <2>5. Typed'
    BY <2>1, <2>2, <2>4 DEF Inv, Typed
  <2>6. Dialable' /\ ToldBefore'
    BY <2>1, <2>4 DEF Inv, Dialable, ToldBefore
  <2>7. DialsWhatItRead'
    BY <2>1, <2>2, <2>3, <2>4 DEF Inv, DialsWhatItRead, Listing
  <2>8. KeyedByItself'
    BY <2>1, <2>2 DEF Inv, KeyedByItself
  <2> QED
    BY <2>5, <2>6, <2>7, <2>8 DEF Inv
<1>6. ASSUME NEW p \in Commands, RemoveCredential(p) PROVE Inv'
  <2>1. /\ Goes(p, "over") /\ credential' = FALSE /\ Mixes
        /\ UNCHANGED <<server, probe, speaks, read, dialed, ids, answered>>
    BY <1>6 DEF RemoveCredential
  <2>2. mixed' \in BOOLEAN /\ (mixed => mixed')
    BY <2>1 DEF Mixes, Inv, Typed
  <2>3. \A q \in Commands : pc[q] \in Listing => mixed'
    BY <2>1 DEF Mixes
  <2>4. /\ pc' \in [Commands -> Steps] /\ pc'[p] = "over"
        /\ \A q \in Commands : q # p => pc'[q] = pc[q]
    BY <2>1 DEF Inv, Typed, Goes, Steps
  <2>5. Typed'
    BY <2>1, <2>2, <2>4 DEF Inv, Typed
  <2>6. Dialable' /\ ToldBefore'
    BY <2>1, <2>4 DEF Inv, Dialable, ToldBefore
  <2>7. DialsWhatItRead' /\ KeyedByItself'
    BY <2>1, <2>2, <2>3, <2>4 DEF Inv, DialsWhatItRead, KeyedByItself, Listing
  <2> QED
    BY <2>5, <2>6, <2>7 DEF Inv
<1>7. ASSUME NEW p \in Commands, AddServer(p) PROVE Inv'
  <2>1. PICK step \in {"over", "forget", "listing one"} : Goes(p, step)
    BY <1>7 DEF AddServer
  <2>2. /\ server' \in Configs
        /\ UNCHANGED <<credential, probe, speaks, read, dialed, ids, answered, mixed>>
    BY <1>7 DEF AddServer
  <2>3. KeyedByItself' /\ probe' \in [status : StatusNote, era : EraNote]
    BY <2>2 DEF Inv, KeyedByItself, Typed
  <2> QED
    BY <2>1, <2>2, <2>3, GoesKeep
<1>8. ASSUME NEW p \in Commands, ForgetProbe(p) PROVE Inv'
  <2>1. PICK step \in {"over", "listing one"} : Goes(p, step)
    BY <1>8 DEF ForgetProbe
  <2>2. /\ probe' = [status |-> NoStatus, era |-> NoEra]
        /\ UNCHANGED <<server, credential, speaks, read, dialed, ids, answered, mixed>>
    BY <1>8 DEF ForgetProbe
  <2>3. KeyedByItself' /\ probe' \in [status : StatusNote, era : EraNote]
    BY <2>2 DEF KeyedByItself
  <2> QED
    BY <2>1, <2>2, <2>3, GoesKeep DEF Inv, Typed
<1>9. ASSUME NEW p \in Commands, Dial(p) PROVE Inv'
  <2>1. /\ pc[p] = "connect" /\ Opened(p, "over") /\ Goes(p, "over")
        /\ UNCHANGED <<server, credential, speaks, read, ids, answered, mixed>>
    BY <1>9 DEF Dial, Opened
  <2>2. read[p].config \in Configs
    BY <2>1 DEF Inv, Dialable
  <2>3. /\ pc' \in [Commands -> Steps] /\ pc'[p] = "over"
        /\ \A q \in Commands : q # p => pc'[q] = pc[q]
    BY <2>1 DEF Inv, Typed, Goes, Steps
  <2>4. Typed' /\ KeyedByItself'
    BY <2>1, <2>2, <2>3, OpenedKeeps DEF Inv, Typed, Steps
  <2>5. Dialable' /\ ToldBefore'
    BY <2>1, <2>3 DEF Inv, Dialable, ToldBefore
  <2>6. \A q \in Commands : q # p => dialed'[q] = dialed[q]
    BY <2>1, <2>2, OpenedKeeps DEF Steps
  <2>7. DialsWhatItRead'
    BY <2>1, <2>3, <2>6 DEF Inv, DialsWhatItRead
  <2> QED
    BY <2>4, <2>5, <2>7 DEF Inv
<1>10. ASSUME NEW p \in Commands, ListingOne(p) PROVE Inv'
  <2>1. PICK step \in {"over", "dial"} : Goes(p, step) /\ (step = "dial" => server # NoServer)
    BY <1>10 DEF ListingOne
  <2>2. /\ read' = [read EXCEPT ![p] = [config |-> server, credential |-> credential]]
        /\ UNCHANGED <<server, credential, probe, speaks, dialed, ids, answered, mixed>>
    BY <1>10 DEF ListingOne
  <2>3. /\ pc' \in [Commands -> Steps] /\ pc'[p] = step
        /\ \A q \in Commands : q # p => pc'[q] = pc[q]
    BY <2>1 DEF Inv, Typed, Goes, Steps
  <2>4. [config |-> server, credential |-> credential] \in Saved
    BY DEF Inv, Typed, Saved
  <2>5. Typed'
    BY <2>2, <2>3, <2>4 DEF Inv, Typed
  <2>6. Dialable' /\ ToldBefore'
    BY <2>1, <2>2, <2>3 DEF Inv, Typed, Dialable, ToldBefore
  <2>7. DialsWhatItRead' /\ KeyedByItself'
    BY <2>1, <2>2, <2>3 DEF Inv, Typed, DialsWhatItRead, KeyedByItself
  <2> QED
    BY <2>5, <2>6, <2>7 DEF Inv
<1>11. ASSUME NEW p \in Commands, Probe(p) PROVE Inv'
  <2>1. /\ pc[p] = "dial" /\ Opened(p, "dialed") /\ Goes(p, "dialed")
        /\ UNCHANGED <<server, credential, speaks, read, ids, answered, mixed>>
    BY <1>11 DEF Probe, Opened
  <2>2. read[p].config \in Configs /\ (mixed \/ read[p].credential = credential)
    BY <2>1 DEF Inv, Dialable, DialsWhatItRead
  <2>3. /\ pc' \in [Commands -> Steps] /\ pc'[p] = "dialed"
        /\ \A q \in Commands : q # p => pc'[q] = pc[q]
    BY <2>1 DEF Inv, Typed, Goes, Steps
  <2>4. Typed' /\ KeyedByItself'
    BY <2>1, <2>2, <2>3, OpenedKeeps DEF Inv, Typed, Steps
  <2>5. Dialable' /\ ToldBefore'
    BY <2>1, <2>3 DEF Inv, Dialable, ToldBefore
  <2>6. /\ dialed'[p] = [config |-> read[p].config, credential |-> credential]
        /\ \A q \in Commands : q # p => dialed'[q] = dialed[q]
    BY <2>1, <2>2, OpenedKeeps DEF Steps
  <2>7. DialsWhatItRead'
    BY <2>1, <2>2, <2>3, <2>6 DEF Inv, DialsWhatItRead
  <2> QED
    BY <2>4, <2>5, <2>7 DEF Inv
<1>12. ASSUME NEW p \in Commands, ReadServers(p) PROVE Inv'
  <2>1. /\ pc[p] = "dialed" /\ pc' \in [Commands -> Steps] /\ pc'[p] \in {"save", "drop"}
        /\ \A q \in Commands : q # p => pc'[q] = pc[q]
        /\ UNCHANGED <<server, credential, probe, speaks, read, dialed, ids, answered, mixed>>
    BY <1>12 DEF Inv, Typed, ReadServers, Goes, Steps
  <2>2. Typed' /\ KeyedByItself'
    BY <2>1 DEF Inv, Typed, KeyedByItself
  <2>3. Dialable' /\ DialsWhatItRead' /\ ToldBefore'
    BY <2>1 DEF Inv, Dialable, DialsWhatItRead, ToldBefore
  <2> QED
    BY <2>2, <2>3 DEF Inv
<1>13. ASSUME NEW p \in Commands, SaveProbes(p) PROVE Inv'
  <2>1. /\ Goes(p, "over")
        /\ UNCHANGED <<server, credential, speaks, read, dialed, ids, answered, mixed>>
    BY <1>13 DEF SaveProbes
  <2>2. KeyedByItself' /\ probe' \in [status : StatusNote, era : EraNote]
    <3>1. CASE pc[p] = "drop"
      <4>1. probe' = [status |-> NoStatus, era |-> NoEra]
        BY <1>13, <3>1 DEF SaveProbes
      <4> QED
        BY <4>1 DEF KeyedByItself
    <3>2. CASE pc[p] = "save"
      <4>1. probe' = [probe EXCEPT !.status = [key |-> read[p], of |-> dialed[p], old |-> FALSE]]
        BY <1>13, <3>2 DEF SaveProbes, Key
      <4>2. [key |-> read[p], of |-> dialed[p], old |-> FALSE] \in StatusNote
        BY DEF Inv, Typed, StatusNote
      <4>3. probe' \in [status : StatusNote, era : EraNote]
        BY <4>1, <4>2 DEF Inv, Typed
      <4>4. /\ probe'.era = probe.era
            /\ probe'.status.key = read[p] /\ probe'.status.of = dialed[p]
        BY <4>1 DEF Inv, Typed
      <4>5. dialed[p].config = read[p].config /\ (mixed \/ dialed[p].credential = read[p].credential)
        BY <3>2 DEF Inv, DialsWhatItRead
      <4> QED
        BY <2>1, <4>3, <4>4, <4>5 DEF Inv, KeyedByItself
    <3> QED
      BY <1>13, <3>1, <3>2 DEF SaveProbes
  <2> QED
    BY <2>1, <2>2, GoesKeep DEF Inv, Typed
<1>14. ASSUME NEW p \in Commands,
              NEW step \in {"over", "poll"}, Goes(p, step),
              UNCHANGED <<server, credential, probe, speaks, read, dialed, ids, mixed>>,
              answered \subseteq answered'
       PROVE  Inv'
  <2>1. KeyedByItself' /\ probe' \in [status : StatusNote, era : EraNote]
    BY <1>14 DEF Inv, KeyedByItself, Typed
  <2> QED
    BY <1>14, <2>1, GoesKeep DEF Inv, Typed
\* What is collected somebody was just told about.
<1>15. ASSUME NEW p \in Commands, Goes(p, "collect"),
              answered' = answered \cup ids[p].asked,
              UNCHANGED <<server, credential, probe, speaks, read, dialed, ids, mixed>>
       PROVE  Inv'
  <2>1. /\ pc' \in [Commands -> Steps] /\ pc'[p] = "collect"
        /\ \A q \in Commands : q # p => pc'[q] = pc[q]
    BY <1>15 DEF Inv, Typed, Goes, Steps
  <2>2. Typed' /\ KeyedByItself'
    BY <1>15, <2>1 DEF Inv, Typed, KeyedByItself
  <2>3. Dialable' /\ DialsWhatItRead' /\ ToldBefore'
    BY <1>15, <2>1 DEF Inv, Dialable, DialsWhatItRead, ToldBefore
  <2> QED
    BY <2>2, <2>3 DEF Inv
<1>16. ASSUME NEW p \in Commands, RememberTask(p) \/ Refused(p) \/ Collect(p) \/ DropTasks(p)
       PROVE  Inv'
  <2>1. PICK step \in {"over", "poll"} : Goes(p, step)
    BY <1>16 DEF RememberTask, Refused, Collect, DropTasks
  <2>2. /\ answered \subseteq answered'
        /\ UNCHANGED <<server, credential, probe, speaks, read, dialed, ids, mixed>>
    BY <1>16 DEF RememberTask, Refused, Collect, DropTasks
  <2> QED
    BY <1>14, <2>1, <2>2
<1>17. ASSUME NEW p \in Commands, Fetched(p) \/ Poll(p) PROVE Inv'
  <2>1. UNCHANGED <<server, credential, probe, speaks, read, dialed, ids, mixed>>
    BY <1>17 DEF Fetched, Poll
  <2>2. CASE Goes(p, "collect") /\ answered' = answered \cup ids[p].asked
    BY <1>15, <2>1, <2>2
  <2>3. CASE (Goes(p, "over") \/ Goes(p, "poll")) /\ UNCHANGED answered
    BY <1>14, <2>1, <2>3
  <2> QED
    BY <1>17, <2>2, <2>3 DEF Fetched, Poll, Polled
<1>18. ASSUME NEW p \in Commands, Cancel(p) PROVE Inv'
  BY <1>15, <1>18 DEF Cancel
<1>19. ASSUME NEW p \in Commands, Listed(p) PROVE Inv'
  <2>1. \E over \in SUBSET Tasks : ids' = [ids EXCEPT ![p].over = over]
    <3>1. PICK listed \in SUBSET Live :
            LET asked == ids[p].asked \ listed
            IN \E failed \in SUBSET asked :
              /\ asked \ failed \subseteq Live
              /\ ids' = [ids EXCEPT ![p].over =
                           failed \cup {i \in listed \cup asked : task[i] \in Terminal}]
      BY <1>19 DEF Listed
    <3>2. ids[p].asked \subseteq Tasks /\ Live \subseteq Tasks
      BY DEF Inv, Typed, Live
    <3> QED
      BY <3>1, <3>2
  <2>2. /\ ids' \in [Commands -> [asked : SUBSET Tasks, over : SUBSET Tasks]]
        /\ \A q \in Commands : q # p => ids'[q] = ids[q]
    BY <2>1 DEF Inv, Typed
  <2>3. /\ answered' = answered \cup ids'[p].over
        /\ UNCHANGED <<server, credential, probe, speaks, read, dialed, mixed>>
    BY <1>19 DEF Listed
  <2>4. /\ pc' \in [Commands -> Steps] /\ pc'[p] = "drop tasks"
        /\ \A q \in Commands : q # p => pc'[q] = pc[q]
    BY <1>19 DEF Inv, Typed, Listed, Goes, Steps
  <2>5. Typed' /\ KeyedByItself'
    BY <2>2, <2>3, <2>4 DEF Inv, Typed, KeyedByItself
  <2>6. Dialable' /\ DialsWhatItRead'
    BY <2>3, <2>4 DEF Inv, Dialable, DialsWhatItRead
  <2>7. ToldBefore'
    BY <2>2, <2>3, <2>4 DEF Inv, ToldBefore
  <2> QED
    BY <2>5, <2>6, <2>7 DEF Inv
<1>20. ASSUME NEW p \in Commands, Ends(p) PROVE Inv'
  <2>1. /\ pc' \in [Commands -> Steps] /\ pc'[p] = "idle"
        /\ read' \in [Commands -> Saved] /\ dialed' \in [Commands -> Saved]
        /\ ids' \in [Commands -> [asked : SUBSET Tasks, over : SUBSET Tasks]]
        /\ \A q \in Commands : q # p => /\ pc'[q] = pc[q] /\ read'[q] = read[q]
                                        /\ dialed'[q] = dialed[q] /\ ids'[q] = ids[q]
    BY <1>20 DEF Inv, Typed, Ends, Rests, Goes, Steps
  <2>2. UNCHANGED <<server, credential, probe, speaks, answered, mixed>>
    BY <1>20 DEF Ends
  <2>3. Typed' /\ KeyedByItself'
    BY <2>1, <2>2 DEF Inv, Typed, KeyedByItself
  <2>4. Dialable' /\ DialsWhatItRead' /\ ToldBefore'
    BY <2>1, <2>2 DEF Inv, Dialable, DialsWhatItRead, ToldBefore
  <2> QED
    BY <2>3, <2>4 DEF Inv
<1>21. CASE Ages
  <2>1. UNCHANGED <<server, credential, speaks, pc, read, dialed, ids, answered, mixed>>
    BY <1>21 DEF Ages
  <2>2. \/ probe' = [probe EXCEPT !.status.old = TRUE]
        \/ probe' = [probe EXCEPT !.era.old = TRUE]
        \/ probe' = probe
    BY <1>21 DEF Ages
  <2>3. /\ probe'.status.key = probe.status.key /\ probe'.status.of = probe.status.of
        /\ probe'.era.key = probe.era.key /\ probe'.era.of = probe.era.of
        /\ probe' \in [status : StatusNote, era : EraNote]
    <3>1. CASE probe' = probe
      BY <3>1 DEF Inv, Typed
    <3>2. CASE probe' = [probe EXCEPT !.status.old = TRUE]
      <4>1. probe'.era = probe.era /\ probe'.status = [probe.status EXCEPT !.old = TRUE]
        BY <3>2 DEF Inv, Typed
      <4>2. probe'.status \in StatusNote
        BY <4>1 DEF Inv, Typed, StatusNote
      <4>3. probe'.status.key = probe.status.key /\ probe'.status.of = probe.status.of
        BY <4>1 DEF Inv, Typed, StatusNote
      <4>4. probe' \in [status : StatusNote, era : EraNote]
        BY <3>2, <4>1, <4>2 DEF Inv, Typed
      <4> QED
        BY <4>1, <4>3, <4>4
    <3>3. CASE probe' = [probe EXCEPT !.era.old = TRUE]
      <4>1. probe'.status = probe.status /\ probe'.era = [probe.era EXCEPT !.old = TRUE]
        BY <3>3 DEF Inv, Typed
      <4>2. probe'.era \in EraNote
        BY <4>1 DEF Inv, Typed, EraNote
      <4>3. probe'.era.key = probe.era.key /\ probe'.era.of = probe.era.of
        BY <4>1 DEF Inv, Typed, EraNote
      <4>4. probe' \in [status : StatusNote, era : EraNote]
        BY <3>3, <4>1, <4>2 DEF Inv, Typed
      <4> QED
        BY <4>1, <4>3, <4>4
    <3> QED
      BY <2>2, <3>1, <3>2, <3>3
  <2>4. Typed' /\ KeyedByItself'
    BY <2>1, <2>3 DEF Inv, Typed, KeyedByItself
  <2>5. Dialable' /\ DialsWhatItRead' /\ ToldBefore'
    BY <2>1 DEF Inv, Dialable, DialsWhatItRead, ToldBefore
  <2> QED
    BY <2>4, <2>5 DEF Inv
<1>22. CASE ServerMoves
  <2>1. UNCHANGED <<server, credential, probe, pc, read, dialed, ids, answered, mixed>>
    BY <1>22 DEF ServerMoves
  <2>2. speaks' \in [Configs -> Eras]
    BY <1>22 DEF ServerMoves, Inv, Typed, Eras
  <2>3. Typed' /\ KeyedByItself'
    BY <2>1, <2>2 DEF Inv, Typed, KeyedByItself
  <2>4. Dialable' /\ DialsWhatItRead' /\ ToldBefore'
    BY <2>1 DEF Inv, Dialable, DialsWhatItRead, ToldBefore
  <2> QED
    BY <2>3, <2>4 DEF Inv
<1> QED
  BY <1>1, <1>2, <1>3, <1>4, <1>5, <1>6, <1>7, <1>8, <1>9, <1>10, <1>11, <1>12, <1>13, <1>16,
     <1>17, <1>18, <1>19, <1>20, <1>21, <1>22, Cases

LEMMA NotedStep == Inv /\ NotedTasks /\ [Next]_vars => NotedTasks'
<1> SUFFICES ASSUME Inv, NotedTasks, [Next]_vars PROVE NotedTasks'
  OBVIOUS
<1>1. CASE UNCHANGED vars
  BY <1>1 DEF vars, NotedTasks
<1>2. CASE Next
  <2>1. CASE UNCHANGED noted
    BY <2>1 DEF NotedTasks
  <2>2. ASSUME NEW p \in Commands,
               RememberTask(p) \/ Refused(p) \/ Collect(p) \/ DropTasks(p)
        PROVE  NotedTasks'
    <3>1. noted' \subseteq noted \cup ids[p].asked
      BY <2>2 DEF RememberTask, Refused, Collect, DropTasks, Forgets
    <3>2. ids[p].asked \subseteq Tasks
      BY DEF Inv, Typed
    <3> QED
      BY <3>1, <3>2 DEF NotedTasks
  <2> QED
    BY <1>2, <2>1, <2>2, OthersStay
<1> QED
  BY <1>1, <1>2

LEMMA InvHolds == Spec => []Inv
<1>1. Init => NotedTasks
  BY DEF Init, NotedTasks
<1> QED
  BY <1>1, InitInv, InvStep, NotedStep, PTL DEF Spec

-----------------------------------------------------------------------------
(* What is remembered is believed only of what it was found out about: a   *)
(* status and an era are keyed by what a command read before it dialed,    *)
(* and that is what it dials (save_probes, note_era).                      *)
THEOREM BelievedOfWhatItIs == Spec => []BelievedOfItself
<1>1. Inv => BelievedOfItself
  <2> SUFFICES ASSUME Inv, server # NoServer
               PROVE  /\ StillCurrent => /\ probe.status.of.config = server
                                         /\ mixed \/ probe.status.of.credential = credential
                      /\ Remembered(server) => probe.era.of = server
    BY DEF BelievedOfItself
  <2>1. ASSUME StillCurrent
        PROVE  /\ probe.status.of.config = server
               /\ mixed \/ probe.status.of.credential = credential
    <3>1. probe.status.key.config = server /\ probe.status.key.credential = credential
      BY <2>1 DEF StillCurrent
    <3> QED
      BY <3>1 DEF Inv, KeyedByItself
  <2>2. ASSUME Remembered(server) PROVE probe.era.of = server
    BY <2>2 DEF Remembered, Inv, KeyedByItself
  <2> QED
    BY <2>1, <2>2
<1> QED
  BY <1>1, InvHolds, PTL

(* A task's note is dropped only when its time is up, or when somebody was *)
(* told that it is over or had no answer about it (forget_tasks).          *)
THEOREM NotesStay == Spec => NotesAreKept
<1>1. Inv /\ [Next]_vars => [noted \ noted' \subseteq expired \cup answered']_vars
  <2> SUFFICES ASSUME Inv, Next PROVE noted \ noted' \subseteq expired \cup answered'
    OBVIOUS
  <2>1. CASE UNCHANGED noted
    BY <2>1
  <2>4. ASSUME NEW p \in Commands, RememberTask(p) \/ Refused(p)
        PROVE  noted \ noted' \subseteq expired \cup answered'
    BY <2>4 DEF RememberTask, Refused, Forgets
  <2>5. ASSUME NEW p \in Commands, Collect(p) \/ DropTasks(p)
        PROVE  noted \ noted' \subseteq expired \cup answered'
    BY <2>5 DEF Collect, DropTasks, Forgets, Inv, ToldBefore
  <2> QED
    BY <2>1, <2>4, <2>5, OthersStay
<1> QED
  BY <1>1, InvHolds, PTL DEF Spec, NotesAreKept

-----------------------------------------------------------------------------
TaskStates == {"unborn", "working", "completed", "cancelled", "gone"}

\* The tasks, and who was told about them.
Tells == task \in [Tasks -> TaskStates] /\ expired \subseteq Tasks /\ answered \subseteq Tasks

\* Every start is counted, and nothing else is.
LEMMA StartsCounted ==
    ASSUME starts \in 0..MaxStarts, [Next]_vars
    PROVE  starts' \in 0..MaxStarts
<1>1. starts' = starts \/ (starts < MaxStarts /\ starts' = starts + 1)
  <2>1. CASE UNCHANGED vars \/ Ages \/ ServerMoves
    BY <2>1 DEF vars, Ages, ServerMoves
  <2>2. ASSUME NEW p \in Commands,
               \/ Add(p) \/ Set(p) \/ Import(p) \/ Remove(p) \/ Credential(p) \/ Connect(p)
               \/ Ls(p) \/ StartTask(p) \/ AskAbout(p) \/ ListTasks(p)
        PROVE  starts < MaxStarts /\ starts' = starts + 1
    BY <2>2 DEF Add, Set, Import, Remove, Credential, Connect, Ls, StartTask, AskAbout,
                ListTasks, Begins
  <2>3. ASSUME NEW p \in Commands,
               \/ AddServer(p) \/ ForgetProbe(p) \/ RemoveCredential(p) \/ Dial(p)
               \/ ListingOne(p) \/ Probe(p) \/ ReadServers(p) \/ SaveProbes(p)
        PROVE  starts' = starts
    BY <2>3 DEF AddServer, ForgetProbe, RemoveCredential, Dial, ListingOne, Probe, ReadServers,
                SaveProbes
  <2>4. ASSUME NEW p \in Commands,
               \/ RememberTask(p) \/ Refused(p) \/ Fetched(p) \/ Poll(p) \/ Collect(p)
               \/ Cancel(p) \/ Listed(p) \/ DropTasks(p) \/ Ends(p)
        PROVE  starts' = starts
    BY <2>4 DEF RememberTask, Refused, Fetched, Poll, Collect, Cancel, Listed, DropTasks, Ends
  <2> QED
    BY <2>1, <2>2, <2>3, <2>4, Cases
<1> QED
  BY <1>1, NotesBounds

LEMMA TellsStep == Inv /\ NotedTasks /\ Tells /\ [Next]_vars => Tells'
<1> SUFFICES ASSUME Inv, NotedTasks, Tells, [Next]_vars PROVE Tells'
  OBVIOUS
<1>0. ids \in [Commands -> [asked : SUBSET Tasks, over : SUBSET Tasks]]
  BY DEF Inv, Typed
<1>1. CASE UNCHANGED vars
  BY <1>1 DEF vars, Tells
<1>2. CASE Ages
  BY <1>2 DEF Ages, Tells, NotedTasks
<1>3. CASE ServerMoves
  <2>1. \/ task' = task
        \/ \E i \in Tasks : \E state \in TaskStates : task' = [task EXCEPT ![i] = state]
    BY <1>3 DEF ServerMoves, TaskStates
  <2>2. task' \in [Tasks -> TaskStates]
    BY <2>1 DEF Tells
  <2> QED
    BY <1>3, <2>2 DEF ServerMoves, Tells
<1>4. ASSUME NEW p \in Commands,
             \/ Add(p) \/ Set(p) \/ Import(p) \/ AddServer(p) \/ ForgetProbe(p)
             \/ Remove(p) \/ RemoveCredential(p) \/ Credential(p)
             \/ Connect(p) \/ Dial(p) \/ Ls(p) \/ ListingOne(p) \/ Probe(p)
             \/ ReadServers(p) \/ SaveProbes(p)
      PROVE  Tells'
  <2>1. UNCHANGED <<task, expired, answered>>
    BY <1>4 DEF Add, Set, Import, AddServer, ForgetProbe, Remove, RemoveCredential, Credential,
                Connect, Dial, Ls, ListingOne, Probe, ReadServers, SaveProbes
  <2> QED
    BY <2>1 DEF Tells
<1>5. ASSUME NEW p \in Commands, StartTask(p) PROVE Tells'
  <2>1. \E i \in Tasks : task' = [task EXCEPT ![i] = "working"]
    BY <1>5 DEF StartTask
  <2>2. task' \in [Tasks -> TaskStates]
    BY <2>1 DEF Tells, TaskStates
  <2> QED
    BY <1>5, <2>2 DEF StartTask, Tells
<1>6. ASSUME NEW p \in Commands,
             \/ RememberTask(p) \/ AskAbout(p) \/ Collect(p) \/ ListTasks(p) \/ DropTasks(p)
             \/ Ends(p)
      PROVE  Tells'
  <2>1. UNCHANGED <<task, expired, answered>>
    BY <1>6 DEF RememberTask, AskAbout, Collect, ListTasks, DropTasks, Ends
  <2> QED
    BY <2>1 DEF Tells
<1>7. ASSUME NEW p \in Commands, Refused(p) \/ Fetched(p) \/ Poll(p) PROVE Tells'
  <2>1. UNCHANGED <<task, expired>> /\ answered' \subseteq answered \cup ids[p].asked
    BY <1>7 DEF Refused, Fetched, Poll, Polled
  <2> QED
    BY <1>0, <2>1 DEF Tells
<1>8. ASSUME NEW p \in Commands, Cancel(p) PROVE Tells'
  <2>1. task' \in [Tasks -> TaskStates]
    BY <1>8 DEF Cancel, Tells, TaskStates
  <2> QED
    BY <1>0, <1>8, <2>1 DEF Cancel, Tells
<1>9. ASSUME NEW p \in Commands, Listed(p) PROVE Tells'
  <2>1. UNCHANGED <<task, expired>> /\ answered' = answered \cup ids'[p].over
    BY <1>9 DEF Listed
  <2>2. Inv'
    BY InvStep
  <2> QED
    BY <2>1, <2>2 DEF Tells, Inv, Typed
<1> QED
  BY <1>1, <1>2, <1>3, <1>4, <1>5, <1>6, <1>7, <1>8, <1>9, Cases

(* Every variable of the notes keeps its type: what is remembered is       *)
(* always a whole note or none, and what is noted, asked about or told     *)
(* of are tasks (config.rs, tasks.rs).                                     *)
THEOREM NotesTypeCorrect == Spec => []TypeOK
<1> DEFINE Counted == starts \in 0..MaxStarts
<1>1. Init => NotedTasks /\ Tells /\ Counted
  BY NotesBounds DEF Init, NotedTasks, Tells, TaskStates
<1>2. Inv /\ NotedTasks /\ Tells /\ Counted => TypeOK
  BY RecordsTyped DEF Inv, Typed, NotedTasks, Tells, TaskStates, TypeOK
<1>3. Counted /\ [Next]_vars => Counted'
  BY StartsCounted
<1> HIDE DEF Counted
<1> QED
  BY <1>1, <1>2, <1>3, InitInv, InvStep, NotedStep, TellsStep, PTL DEF Spec

-----------------------------------------------------------------------------
(* The algorithms a command runs.                                          *)
Look == INSTANCE Looking
Cat == INSTANCE Catalogue
Snap == INSTANCE Snapshot
Form == INSTANCE Forms
Msg == INSTANCE Messages
Call == INSTANCE Dialing
Auth == INSTANCE Discovery

VARIABLES
    filter,     \* what a result is filtered through
    copied,     \* the copy of a registry on disk
    today,      \* the time of the last sync
    glob        \* a glob and a name, as far as they are compared

(* The filter (Looking).                                                   *)

(* What a filter goes through, whatever jq does: the pipe to it is fed, the *)
(* pipe from it read, and jq itself takes, gives, stops reading or exits.  *)
FilterInit == \E document \in Nat, next \in {"take", "give"} : filter = Look!JqStarted(document, next)

JqTurns ==
    /\ Look!CanJq(filter)
    /\ \E next \in {"take", "give", "stop", "exited"} :
        /\ next = "take" => filter.reading
        /\ filter' = Look!Jq(filter, next)

FilterNext ==
    \/ Look!CanFeed(filter) /\ filter' = Look!Feed(filter)
    \/ Look!CanRead(filter) /\ filter' = Look!ReadOut(filter)
    \/ Look!CanEnd(filter) /\ filter' = Look!End(filter)
    \/ JqTurns

FilterSpec == FilterInit /\ [][FilterNext]_filter

Filters == [unsent : Nat, stdin : {0, 1}, reading : BOOLEAN, stdout : {0, 1}, gave : Nat,
            next : {"take", "give", "stop", "exited"}, got : Nat, done : BOOLEAN]

(* What jq gave is read or in the pipe; one that has exited reads no more, *)
(* and the end of its output is seen after it.                             *)
FilterInv ==
    /\ filter \in Filters
    /\ filter.gave = filter.got + filter.stdout
    /\ filter.next = "exited" => ~filter.reading
    /\ filter.done => filter.next = "exited" /\ filter.stdout = 0

LEMMA FilterStep == FilterInv /\ [FilterNext]_filter => FilterInv'
<1> SUFFICES ASSUME FilterInv, [FilterNext]_filter PROVE FilterInv'
  OBVIOUS
<1> USE DEF FilterInv, Filters
<1>1. CASE UNCHANGED filter
  BY <1>1
<1>2. CASE Look!CanFeed(filter) /\ filter' = Look!Feed(filter)
  <2>1. \A n \in Nat : n > 0 => n - 1 \in Nat
    OBVIOUS
  <2>2. filter.unsent - 1 \in Nat
    BY <1>2, <2>1 DEF Look!CanFeed
  <2>3. CASE filter.reading
    <3>1. filter' = [unsent |-> filter.unsent - 1, stdin |-> 1, reading |-> TRUE,
                      stdout |-> filter.stdout, gave |-> filter.gave, next |-> filter.next,
                      got |-> filter.got, done |-> filter.done]
      BY <1>2, <2>3 DEF Look!Feed
    <3> QED
      BY <2>2, <2>3, <3>1
  <2>4. CASE ~filter.reading
    BY <1>2, <2>4 DEF Look!Feed
  <2> QED
    BY <2>3, <2>4
<1>3. CASE Look!CanRead(filter) /\ filter' = Look!ReadOut(filter)
  <2>1. filter.stdout = 1 /\ ~filter.done
    BY <1>3 DEF Look!CanRead
  <2>2. filter' = [unsent |-> filter.unsent, stdin |-> filter.stdin, reading |-> filter.reading,
                    stdout |-> 0, gave |-> filter.gave, next |-> filter.next,
                    got |-> filter.got + 1, done |-> filter.done]
    BY <1>3 DEF Look!ReadOut
  <2> QED
    BY <2>1, <2>2
<1>4. CASE Look!CanEnd(filter) /\ filter' = Look!End(filter)
  BY <1>4 DEF Look!CanEnd, Look!End
<1>5. CASE JqTurns
  <2>1. PICK next \in {"take", "give", "stop", "exited"} : filter' = Look!Jq(filter, next)
    BY <1>5 DEF JqTurns
  <2>2. Look!CanJq(filter)
    BY <1>5 DEF JqTurns
  <2>3. CASE filter.next = "take"
    BY <2>1, <2>3 DEF Look!Jq
  <2>4. CASE filter.next = "give"
    <3>1. filter.stdout = 0
      BY <2>2, <2>4 DEF Look!CanJq
    <3>2. /\ filter'.stdout = 1 /\ filter'.gave = filter.gave + 1 /\ filter'.got = filter.got
          /\ filter'.next = next /\ filter'.done = filter.done /\ filter'.unsent = filter.unsent
          /\ filter'.reading \in BOOLEAN /\ (next = "exited" => ~filter'.reading)
          /\ filter'.stdin \in {0, 1}
      BY <2>1, <2>4 DEF Look!Jq
    <3>3. filter' = [unsent |-> filter.unsent, stdin |-> filter'.stdin, reading |-> filter'.reading,
                      stdout |-> 1, gave |-> filter.gave + 1, next |-> next,
                      got |-> filter.got, done |-> filter.done]
      BY <2>1, <2>4 DEF Look!Jq
    <3> QED
      BY <2>4, <3>1, <3>2, <3>3
  <2>5. CASE filter.next = "stop"
    BY <2>1, <2>5 DEF Look!Jq
  <2>6. filter.next # "exited"
    BY <2>2 DEF Look!CanJq
  <2> QED
    BY <2>3, <2>4, <2>5, <2>6
<1> QED
  BY <1>1, <1>2, <1>3, <1>4, <1>5 DEF FilterNext

(* However large the document and whatever jq does - take it, ignore it,   *)
(* stop in the middle, exit at once -, somebody can go on until its answer *)
(* is had, and then all of it is (path.rs, jq: the document is fed from a      *)
(* thread of its own).                                                     *)
THEOREM JqNeverHangs == FilterSpec => []Look!NobodyWaitsForever(filter)
<1>1. FilterInit => FilterInv
  BY DEF FilterInit, FilterInv, Filters, Look!JqStarted
<1>2. FilterInv => Look!NobodyWaitsForever(filter)
  BY DEF FilterInv, Filters, Look!NobodyWaitsForever, Look!CanFeed, Look!CanRead, Look!CanEnd, Look!CanJq
<1> QED
  BY <1>1, <1>2, FilterStep, PTL DEF FilterSpec

-----------------------------------------------------------------------------
(* The copy of a registry (Catalogue).                                     *)

(* The latest update of a name there is.                                   *)
LEMMA LatestExists ==
    ASSUME NEW h, NEW now \in Nat, NEW i \in 1..now
    PROVE  \E j \in i..now : /\ h[j].name = h[i].name
                             /\ \A k \in j + 1..now : h[k].name # h[i].name
<1> DEFINE Back == {b \in Nat : b <= now /\ now - b \in i..now /\ h[now - b].name = h[i].name}
<1>1. Back # {} /\ Back \subseteq Nat
  <2>1. now - i \in Nat /\ now - i <= now /\ now - (now - i) = i /\ i \in i..now
    OBVIOUS
  <2>2. now - i \in Back
    BY <2>1
  <2> QED
    BY <2>2
<1>2. PICK b \in Back : \A a \in Back : ~(<<a, b>> \in OpToRel(<, Nat))
  <2> HIDE DEF Back
  <2> QED
    BY <1>1, NatLessThanWellFounded, WFMin
<1>3. \A a \in Back : b <= a
  <2> SUFFICES ASSUME NEW a \in Back PROVE b <= a
    OBVIOUS
  <2>1. ~(<<a, b>> \in OpToRel(<, Nat)) /\ a \in Nat /\ b \in Nat
    BY <1>2
  <2> HIDE DEF Back
  <2> QED
    BY <2>1 DEF OpToRel
<1>4. b \in Nat /\ b <= now /\ now - b \in i..now /\ h[now - b].name = h[i].name
  BY <1>2
<1>5. ASSUME NEW k \in (now - b) + 1..now PROVE h[k].name # h[i].name
  <2> HIDE DEF Back
  <2>1. k \in Nat /\ k <= now /\ k \in i..now /\ now - k < b
    BY <1>4
  <2>2. now - k \in Nat /\ now - k <= now /\ now - (now - k) = k
    BY <1>4, <2>1
  <2>3. now - k \notin Back
    BY <1>3, <1>4, <2>1, <2>2
  <2> QED
    <3> USE DEF Back
    <3> QED
      BY <2>1, <2>2, <2>3
<1> QED
  <2> HIDE DEF Back
  <2> QED
    BY <1>4, <1>5

(* A copy of one registry, as it was at a time and whole.                  *)
CopyAt(h, base, time) ==
    [base |-> base, synced |-> time, through |-> time, servers |-> Cat!Copied(h, time)]

(* Of each name one update is the latest.                                  *)
LEMMA OneLatest ==
    ASSUME NEW h, NEW now \in Nat, NEW since \in Nat, NEW i \in Cat!Listed(h, now, since),
           NEW j \in Cat!Listed(h, now, since), h[i].name = h[j].name
    PROVE  i = j
  BY DEF Cat!Listed

(* What has changed since the last sync, merged into what the copy had     *)
(* then, is what the registry holds now.                                   *)
LEMMA MergeIsWhole ==
    ASSUME NEW h, NEW now \in Nat, NEW since \in 0..now, NEW base,
           \A i \in 1..now : h[i].deleted \in BOOLEAN
    PROVE  Cat!Merge(CopyAt(h, base, since), h, Cat!Listed(h, now, since), now) = CopyAt(h, base, now)
<1> DEFINE changed == Cat!Listed(h, now, since)
           all == Cat!Listed(h, now, 0)
           here == {i \in changed : ~h[i].deleted}
           whole == {i \in all : ~h[i].deleted}
           before == {i \in Cat!Listed(h, since, 0) : ~h[i].deleted}
           held == [n \in {h[i].name : i \in before} |-> CHOOSE i \in before : h[i].name = n]
           gone == {h[i].name : i \in {j \in changed : h[j].deleted}}
           names == ({h[i].name : i \in before} \cup {h[i].name : i \in here}) \ gone
           newest == CHOOSE n \in changed \cup {since} : \A m \in changed \cup {since} : n >= m
           merged == [n \in names |-> IF \E i \in here : h[i].name = n
                                      THEN CHOOSE i \in here : h[i].name = n
                                      ELSE held[n]]
<1>1. since \in Nat /\ now \in Nat /\ 0 \in Nat /\ since <= now
  OBVIOUS
<1>2. changed = {i \in all : i >= since} /\ all \subseteq 1..now /\ Cat!Listed(h, since, 0) \subseteq 1..since
  BY DEF Cat!Listed
<1>3. \A i \in all : i < since => i \in Cat!Listed(h, since, 0)
  BY DEF Cat!Listed
<1>4. \A i, j \in all : h[i].name = h[j].name => i = j
  BY <1>1, OneLatest
<1>5. \A i, j \in Cat!Listed(h, since, 0) : h[i].name = h[j].name => i = j
  BY <1>1, OneLatest
<1>a. ASSUME NEW i \in 1..now
      PROVE  \E j \in i..now : h[j].name = h[i].name /\ \A k \in j + 1..now : h[k].name # h[i].name
  BY <1>1, LatestExists
\* What the copy had and nothing has changed is still there.
<1>6. ASSUME NEW i \in before, h[i].name \notin gone, h[i].name \notin {h[j].name : j \in here}
      PROVE  i \in whole
  <2>1. i \in Nat /\ i \in 1..since /\ i \in 1..now /\ \A k \in i + 1..since : h[k].name # h[i].name
    BY <1>1 DEF Cat!Listed
  <2>2. PICK j \in i..now : /\ h[j].name = h[i].name
                            /\ \A k \in j + 1..now : h[k].name # h[i].name
    BY <1>a, <2>1
  <2>3. j \in all
    BY <1>1, <2>1, <2>2 DEF Cat!Listed
  <2>4. CASE j >= since
    <3>1. j \in changed
      BY <1>2, <2>3, <2>4
    <3> HIDE DEF changed, all, before
    <3> QED
      BY <1>6, <2>2, <3>1
  <2>5. CASE j < since
    <3>1. j = i
      BY <2>1, <2>2, <2>5
    <3> HIDE DEF all
    <3> QED
      BY <2>3, <3>1
  <2> QED
    BY <1>1, <2>1, <2>4, <2>5
<1> HIDE DEF changed, all
<1>7. names = {h[i].name : i \in whole}
  <2>1. ASSUME NEW n \in names PROVE n \in {h[i].name : i \in whole}
    <3>1. CASE n \in {h[i].name : i \in here}
      BY <1>2, <3>1
    <3>2. CASE n \notin {h[i].name : i \in here}
      <4>1. PICK i \in before : n = h[i].name
        BY <2>1, <3>2
      <4> QED
        BY <1>6, <2>1, <3>2, <4>1
    <3> QED
      BY <3>1, <3>2
  <2>2. ASSUME NEW i \in whole PROVE h[i].name \in names
    <3>1. h[i].name \notin gone
      BY <1>2, <1>4
    <3>2. CASE i >= since
      BY <1>2, <3>1, <3>2
    <3>3. CASE i < since
      BY <1>3, <3>1, <3>3
    <3> QED
      BY <1>1, <1>2, <3>2, <3>3
  <2> QED
    BY <2>1, <2>2
<1>8. ASSUME NEW n \in names PROVE merged[n] = CHOOSE i \in whole : h[i].name = n
  <2> DEFINE now_ == CHOOSE i \in whole : h[i].name = n
  <2>1. now_ \in whole /\ h[now_].name = n
    BY <1>7
  <2>2. CASE \E i \in here : h[i].name = n
    <3>1. merged[n] = CHOOSE i \in here : h[i].name = n
      BY <2>2
    <3>2. merged[n] \in here /\ h[merged[n]].name = n
      BY <2>2, <3>1
    <3>3. merged[n] \in all /\ now_ \in all
      BY <1>2, <2>1, <3>2
    <3> HIDE DEF merged, now_, here, whole
    <3> QED
      BY <1>4, <2>1, <3>2, <3>3
  <2>3. CASE ~\E i \in here : h[i].name = n
    <3>1. n \notin gone /\ n \notin {h[i].name : i \in here} /\ n \in {h[i].name : i \in before}
      BY <2>3
    <3>2. merged[n] = CHOOSE i \in before : h[i].name = n
      BY <2>3, <3>1
    <3>3. merged[n] \in before /\ h[merged[n]].name = n
      BY <3>1, <3>2
    <3> HIDE DEF merged, now_, gone, here
    <3>4. merged[n] \in whole
      BY <1>6, <3>1, <3>3
    <3> QED
      BY <1>4, <2>1, <3>3, <3>4
  <2> QED
    BY <2>2, <2>3
<1>9. newest = now
  <2>1. now \in changed \cup {since}
    BY <1>1 DEF changed, Cat!Listed
  <2>2. \A m \in changed \cup {since} : now >= m /\ m \in Nat
    BY <1>1, <1>2
  <2>3. newest \in changed \cup {since} /\ \A m \in changed \cup {since} : newest >= m
    BY <1>1, <2>1, <2>2
  <2> HIDE DEF newest
  <2> QED
    BY <1>1, <2>1, <2>2, <2>3
<1>10. merged = Cat!Copied(h, now)
  <2>1. Cat!Copied(h, now) = [n \in {h[i].name : i \in whole} |-> CHOOSE i \in whole : h[i].name = n]
    BY DEF all, Cat!Copied
  <2>2. DOMAIN merged = names /\ merged = [n \in names |-> merged[n]]
    OBVIOUS
  <2> DEFINE latest(n) == CHOOSE i \in whole : h[i].name = n
  <2>3. \A n \in names : merged[n] = latest(n)
    BY <1>8
  <2>4. Cat!Copied(h, now) = [n \in names |-> latest(n)]
    BY <1>7, <2>1
  <2> HIDE DEF merged, names, whole, latest
  <2> QED
    BY <2>2, <2>3, <2>4
<1>11. held = Cat!Copied(h, since)
  BY DEF Cat!Copied
<1>12. DOMAIN held = {h[i].name : i \in before}
  OBVIOUS
<1>13. gone = Cat!Gone(h, changed)
  BY DEF Cat!Gone
<1>14. Cat!Merge(CopyAt(h, base, since), h, changed, now)
         = [base |-> base, synced |-> now, through |-> newest, servers |-> merged]
  <2> DEFINE copy == CopyAt(h, base, since)
  <2>1. copy.servers = held /\ copy.through = since
    BY <1>11 DEF CopyAt
  <2>2. Cat!Merge(copy, h, changed, now)
          = [copy EXCEPT !.servers = merged, !.through = newest, !.synced = now]
    <3> HIDE DEF held, gone, copy
    <3> QED
      BY <1>12, <1>13, <2>1 DEF Cat!Merge
  <2> HIDE DEF merged, newest
  <2> QED
    BY <2>2 DEF CopyAt
<1> HIDE DEF merged, newest
<1> QED
  BY <1>9, <1>10, <1>14 DEF changed, CopyAt

(* The copy on disk and the syncs of one command after another, each of    *)
(* the registry it names, at a time of its own, whether that one answers.  *)
Syncs(Bases) == [mode : {"auto", "refresh", "offline"}, base : Bases, now : Nat, answered : BOOLEAN]
Synced(registry, s) == Cat!Sync(s.mode, s.base, copied, registry[s.base], s.now, s.answered)

CopySpec(Bases, registry) ==
    /\ copied = Cat!NoCopy /\ today = 0
    /\ [][\E s \in Syncs(Bases) : /\ s.now >= today
                                  /\ today' = s.now
                                  /\ copied' = Synced(registry, s).disk]_<<copied, today>>

CopyInv(Bases, registry) ==
    /\ today \in Nat
    /\ \/ copied = Cat!NoCopy
       \/ \E base \in Bases, time \in 0..today : copied = CopyAt(registry[base], base, time)

(* What is searched is what that registry held when the copy was last      *)
(* brought up to date, which is now unless the copy is young, the registry *)
(* does not answer or nothing may be fetched; and a sync that fails leaves *)
(* the disk as it was.                                                     *)
IsHonest(registry, s) ==
    LET r == Synced(registry, s)
    IN /\ r.ok => /\ r.copy.base = s.base
                  /\ r.copy.servers = Cat!Copied(registry[s.base], r.copy.synced)
                  /\ \/ r.copy.synced = s.now
                     \/ s.mode = "offline"
                     \/ s.mode = "auto" /\ (~s.answered \/ s.now - r.copy.synced < Cat!IndexMaxAge)
       /\ ~r.ok => r.disk = copied

Registries(Bases, Names) == [Bases -> [Nat -> [name : Names, deleted : BOOLEAN]]]

LEMMA EmptyIsWhole == \A h, base : Cat!Empty(base) = CopyAt(h, base, 0)
<1> SUFFICES ASSUME NEW h, NEW base PROVE Cat!Empty(base) = CopyAt(h, base, 0)
  OBVIOUS
<1>1. Cat!Copied(h, 0) = <<>>
  <2>1. {i \in Cat!Listed(h, 0, 0) : ~h[i].deleted} = {}
    BY DEF Cat!Listed
  <2> QED
    BY <2>1 DEF Cat!Copied
<1> QED
  BY <1>1 DEF CopyAt, Cat!Empty, Cat!NoCopy

(* One sync, from a copy that is whole.                                    *)
LEMMA SyncIsHonest ==
    ASSUME NEW Bases, "none" \notin Bases, NEW Names, NEW registry \in Registries(Bases, Names),
           CopyInv(Bases, registry), NEW s \in Syncs(Bases), s.now >= today
    PROVE  /\ IsHonest(registry, s)
           /\ \/ Synced(registry, s).disk = Cat!NoCopy
              \/ \E base \in Bases, time \in 0..s.now :
                    Synced(registry, s).disk = CopyAt(registry[base], base, time)
<1> DEFINE h == registry[s.base]
           mine == IF copied.base = s.base THEN copied ELSE Cat!NoCopy
           fetched == CopyAt(h, s.base, s.now)
<1>1. /\ s.mode \in {"auto", "refresh", "offline"} /\ s.base \in Bases /\ s.now \in Nat
      /\ s.answered \in BOOLEAN /\ today \in Nat /\ s.base # "none"
  BY DEF Syncs, CopyInv
<1>2. \A i \in 1..s.now : h[i].deleted \in BOOLEAN
  BY <1>1 DEF Registries
<1>3. \/ mine = Cat!NoCopy
      \/ \E time \in 0..s.now : mine = CopyAt(h, s.base, time)
  <2>1. CASE copied = Cat!NoCopy
    BY <1>1, <2>1 DEF Cat!NoCopy
  <2>2. CASE copied # Cat!NoCopy
    <3>1. PICK base \in Bases, time \in 0..today : copied = CopyAt(registry[base], base, time)
      BY <2>2 DEF CopyInv
    <3>2. time \in 0..s.now
      BY <1>1
    <3>3. copied.base = base
      BY <3>1 DEF CopyAt
    <3> QED
      BY <3>1, <3>2, <3>3
  <2> QED
    BY <2>1, <2>2
<1>4. ASSUME NEW time \in 0..s.now
      PROVE  Cat!Merge(CopyAt(h, s.base, time), h, Cat!Listed(h, s.now, time), s.now) = fetched
  <2> HIDE DEF h
  <2> QED
    BY <1>1, <1>2, MergeIsWhole
<1>5. ASSUME NEW time, NEW base PROVE CopyAt(h, base, time).through = time /\ CopyAt(h, base, time).synced = time
  BY DEF CopyAt
<1>6. mine # Cat!NoCopy => Cat!Merge(mine, h, Cat!Listed(h, s.now, mine.through), s.now) = fetched
  <2> HIDE DEF mine, h, fetched
  <2> QED
    BY <1>3, <1>4, <1>5
<1>7. Cat!Merge(Cat!Empty(s.base), h, Cat!Listed(h, s.now, Cat!Empty(s.base).through), s.now) = fetched
  <2>1. 0 \in 0..s.now
    BY <1>1
  <2> HIDE DEF h, fetched
  <2> QED
    BY <1>4, <1>5, <2>1, EmptyIsWhole
<1> DEFINE Out(r) == \/ r = [ok |-> TRUE, copy |-> mine, disk |-> copied] /\ mine # Cat!NoCopy
                        /\ \/ s.mode = "offline"
                           \/ s.mode = "auto" /\ (~s.answered \/ s.now - mine.synced < Cat!IndexMaxAge)
                     \/ r = [ok |-> TRUE, copy |-> mine, disk |-> mine] /\ mine # Cat!NoCopy
                        /\ s.mode = "auto" /\ (~s.answered \/ s.now - mine.synced < Cat!IndexMaxAge)
                     \/ r = [ok |-> FALSE, copy |-> mine, disk |-> copied]
                     \/ r = [ok |-> FALSE, copy |-> Cat!NoCopy, disk |-> copied]
                     \/ r = [ok |-> TRUE, copy |-> fetched, disk |-> fetched]
<1>8. Out(Synced(registry, s))
  <2> HIDE DEF h, fetched
  <2>1. CASE s.mode = "offline"
    BY <2>1 DEF Synced, Cat!Sync, h
  <2>2. CASE s.mode = "auto" /\ mine # Cat!NoCopy /\ s.now - mine.synced < Cat!IndexMaxAge
    BY <2>2 DEF Synced, Cat!Sync, h
  <2>3. CASE s.mode = "auto" /\ mine # Cat!NoCopy /\ ~(s.now - mine.synced < Cat!IndexMaxAge)
    BY <1>6, <2>3 DEF Synced, Cat!Sync, h
  <2>4. CASE s.mode # "offline" /\ ~(s.mode = "auto" /\ mine # Cat!NoCopy)
    BY <1>7, <2>4 DEF Synced, Cat!Sync, h
  <2> QED
    BY <2>1, <2>2, <2>3, <2>4
<1>9. fetched.base = s.base /\ fetched.servers = Cat!Copied(h, s.now) /\ fetched.synced = s.now
  BY DEF CopyAt
<1>10. mine # Cat!NoCopy => mine.base = s.base /\ mine.servers = Cat!Copied(h, mine.synced) /\ mine = copied
  <2>1. mine # Cat!NoCopy => mine = copied
    OBVIOUS
  <2> HIDE DEF h, mine
  <2> QED
    BY <1>3, <2>1 DEF CopyAt
<1>11. IsHonest(registry, s)
  <2> HIDE DEF mine, fetched
  <2> QED
    BY <1>8, <1>9, <1>10 DEF IsHonest
<1>12. s.now \in 0..s.now /\ 0..today \subseteq 0..s.now
  BY <1>1
<1>13. \/ copied = Cat!NoCopy
       \/ \E base \in Bases, time \in 0..s.now : copied = CopyAt(registry[base], base, time)
  BY <1>12 DEF CopyInv
<1>14. Synced(registry, s).disk \in {copied, fetched}
  <2> HIDE DEF mine, fetched
  <2> QED
    BY <1>8, <1>10
<1> QED
  <2>1. \E base \in Bases, time \in 0..s.now : fetched = CopyAt(registry[base], base, time)
    BY <1>1, <1>12
  <2> HIDE DEF fetched
  <2> QED
    BY <1>11, <1>13, <1>14, <2>1

(* For any registries, whatever commands are given and whenever: a search  *)
(* runs over what its registry held when the copy was last brought up to   *)
(* date, and the copy is no older than the sync it was asked for allows    *)
(* (registry.rs, sync).                                                    *)
THEOREM SearchesAreHonest ==
    ASSUME NEW Bases, "none" \notin Bases, NEW Names, NEW registry \in Registries(Bases, Names)
    PROVE  CopySpec(Bases, registry) =>
             [](\A s \in Syncs(Bases) : s.now >= today => IsHonest(registry, s))
<1> DEFINE Turn == \E s \in Syncs(Bases) : /\ s.now >= today
                                           /\ today' = s.now
                                           /\ copied' = Synced(registry, s).disk
           Good == CopyInv(Bases, registry)
           Honest == \A s \in Syncs(Bases) : s.now >= today => IsHonest(registry, s)
<1>1. copied = Cat!NoCopy /\ today = 0 => Good
  BY DEF CopyInv
<1>2. Good /\ [Turn]_<<copied, today>> => Good'
  <2>1. CASE UNCHANGED <<copied, today>>
    BY <2>1 DEF CopyInv
  <2>2. ASSUME Good, NEW s \in Syncs(Bases), s.now >= today, today' = s.now, copied' = Synced(registry, s).disk
        PROVE  Good'
    <3>1. \/ copied' = Cat!NoCopy
          \/ \E base \in Bases, time \in 0..today' : copied' = CopyAt(registry[base], base, time)
      BY <2>2, SyncIsHonest
    <3>2. today' \in Nat
      BY <2>2 DEF Syncs
    <3> QED
      BY <3>1, <3>2 DEF CopyInv
  <2> QED
    BY <2>1, <2>2
<1>3. Good => Honest
  BY SyncIsHonest
<1> QED
  BY <1>1, <1>2, <1>3, PTL DEF CopySpec, Turn

-----------------------------------------------------------------------------
(* The check of a snapshot (Snapshot).                                     *)

(* What has a least member. *)
LEMMA LeastExists ==
    ASSUME NEW S, S \subseteq Nat, S # {}
    PROVE  \E n \in S : \A m \in S : n <= m
<1>1. PICK n \in S : \A m \in S : ~(<<m, n>> \in OpToRel(<, Nat))
  BY NatLessThanWellFounded, WFMin
<1>2. ASSUME NEW m \in S PROVE n <= m
  <2>1. ~(<<m, n>> \in OpToRel(<, Nat)) /\ m \in Nat /\ n \in Nat
    BY <1>1
  <2> QED
    BY <2>1 DEF OpToRel
<1> QED
  BY <1>2

(* The server's tool of a name is the first of that name, if there is one. *)
LEMMA LiveIsFirst ==
    ASSUME NEW live, Len(live) \in Nat, NEW name
    PROVE  LET at == Snap!Live(live, name)
           IN /\ at # 0 => at \in 1..Len(live) /\ live[at].name = name
              /\ at = 0 => \A i \in 1..Len(live) : live[i].name # name
              /\ \A i \in 1..Len(live) : live[i].name = name => at # 0 /\ at <= i
<1> DEFINE I == {i \in 1..Len(live) : live[i].name = name}
           least == CHOOSE n \in I : \A m \in I : n <= m
<1>1. Snap!Live(live, name) = IF I # {} THEN least ELSE 0
  BY DEF Snap!Live, Snap!SelectInSeq, Snap!Min
<1>2. CASE I = {}
  BY <1>1, <1>2
<1>3. CASE I # {}
  <2>1. I \subseteq Nat
    OBVIOUS
  <2>2. least \in I /\ \A m \in I : least <= m
    <3> HIDE DEF I
    <3> QED
      BY <1>3, <2>1, LeastExists
  <2>3. Snap!Live(live, name) = least
    BY <1>1, <1>3
  <2> HIDE DEF least
  <2> QED
    BY <2>2, <2>3
<1> QED
  BY <1>2, <1>3

(* Tools, whatever their names, properties and types are. *)
Tools(Names, Props, Types, Others) ==
    [name : Names, props : UNION {[fields -> Types] : fields \in SUBSET Props},
     required : SUBSET Props, closed : BOOLEAN, other : Others]

(* What breaks a caller of one tool is among the differences of the whole.  *)
LEMMA OkOfOne ==
    ASSUME NEW snapshot, NEW live, NEW strict \in BOOLEAN, NEW i \in DOMAIN snapshot,
           Snap!Ok(Snap!Compare(snapshot, live, strict)),
           NEW d \in Snap!OneTool(snapshot[i], live, strict)
    PROVE  ~d.breaking
<1>1. d \in UNION {Snap!OneTool(snapshot[j], live, strict) : j \in DOMAIN snapshot}
  OBVIOUS
<1>2. d \in Snap!Compare(snapshot, live, strict)
  BY <1>1 DEF Snap!Compare
<1> QED
  BY <1>2 DEF Snap!Ok

(* What passes for one tool: the server has it, and of its properties      *)
(* nothing that breaks a caller has changed, under strict nothing at all.  *)
LEMMA PassesForOne ==
    ASSUME NEW was, NEW now, NEW strict \in BOOLEAN,
           \A d \in Snap!Properties(was, now, strict) : ~d.breaking
    PROVE  /\ \A n \in Snap!Fields(was) : \A k \in Snap!Kept(was, now, n) : ~(k[2] \/ strict)
           /\ \A n \in Snap!Fields(now) \ Snap!Fields(was) : \A k \in Snap!New(now, n) : ~(k[2] \/ strict)
<1> DEFINE Changed == UNION {Snap!Kept(was, now, n) : n \in Snap!Fields(was)}
           Came == UNION {Snap!New(now, n) : n \in Snap!Fields(now) \ Snap!Fields(was)}
           Found == Changed \cup Came
<1>1. ASSUME NEW k \in Found PROVE ~(k[2] \/ strict)
  <2> DEFINE d == Snap!Difference(was.name, k[1], k[2] \/ strict)
  <2>a. Snap!Properties(was, now, strict) = {Snap!Difference(was.name, j[1], j[2] \/ strict) : j \in Found}
    BY DEF Snap!Properties
  <2>1. d \in Snap!Properties(was, now, strict)
    <3> HIDE DEF Found
    <3> QED
      BY <2>a
  <2>2. ~d.breaking
    BY <2>1
  <2>3. d.breaking = (k[2] \/ strict)
    BY DEF Snap!Difference
  <2> HIDE DEF d
  <2> QED
    BY <2>2, <2>3
<1>2. ASSUME NEW n \in Snap!Fields(was), NEW k \in Snap!Kept(was, now, n) PROVE k \in Found
  OBVIOUS
<1>3. ASSUME NEW n \in Snap!Fields(now) \ Snap!Fields(was), NEW k \in Snap!New(now, n) PROVE k \in Found
  <2> DEFINE news == {Snap!New(now, m) : m \in Snap!Fields(now) \ Snap!Fields(was)}
  <2>1. Snap!New(now, n) \in news
    OBVIOUS
  <2>2. k \in UNION news
    <3> HIDE DEF news
    <3> QED
      BY <2>1
  <2>3. k \in Came
    BY <2>2
  <2> HIDE DEF Came, Changed
  <2> QED
    BY <2>3
<1> HIDE DEF Found
<1> QED
  BY <1>1, <1>2, <1>3

LEMMA StillTaken ==
    ASSUME NEW was, NEW now, NEW strict \in BOOLEAN,
           \A d \in Snap!Properties(was, now, strict) : ~d.breaking
    PROVE  /\ was.required \cap Snap!Fields(was) \subseteq Snap!Fields(now)
           /\ \A c \in Snap!CallsOf(was) : Snap!StillTakes(now, was, c)
<1>1. ASSUME NEW n \in Snap!Fields(was), NEW k \in Snap!Kept(was, now, n) PROVE ~k[2]
  BY PassesForOne
<1>a. ASSUME NEW n \in Snap!Fields(now) \ Snap!Fields(was), NEW k \in Snap!New(now, n) PROVE ~k[2]
  BY PassesForOne
<1>2. ASSUME NEW n \in Snap!Fields(was), n \in was.required PROVE n \in Snap!Fields(now)
  <2> SUFFICES ASSUME n \notin Snap!Fields(now) PROVE FALSE
    OBVIOUS
  <2>1. <<"property-removed", n \in was.required>> \in Snap!Kept(was, now, n)
    BY DEF Snap!Kept
  <2> QED
    BY <1>1, <1>2, <2>1
<1>3. ASSUME NEW n \in Snap!Fields(now), n \in now.required PROVE n \in Snap!Fields(was) /\ n \in was.required
  <2>1. ASSUME n \notin Snap!Fields(was) PROVE FALSE
    <3>1. <<"now-required", TRUE>> \in Snap!New(now, n)
      BY <1>3 DEF Snap!New
    <3> QED
      <4>1. ~(<<"now-required", TRUE>>[2])
        BY <1>a, <1>3, <2>1, <3>1
      <4> QED
        BY <4>1
  <2>2. ASSUME n \in Snap!Fields(was), n \notin was.required PROVE FALSE
    <3>1. <<"now-required", TRUE>> \in Snap!Kept(was, now, n)
      BY <1>3, <2>2 DEF Snap!Kept
    <3> QED
      BY <1>1, <2>2, <3>1
  <2> QED
    BY <2>1, <2>2
<1>4. ASSUME NEW n \in Snap!Fields(was), n \in Snap!Fields(now)
      PROVE  Snap!TypeName(now, n) = Snap!TypeName(was, n)
  <2> SUFFICES ASSUME Snap!TypeName(was, n) # Snap!TypeName(now, n) PROVE FALSE
    OBVIOUS
  <2>1. <<"type-changed", TRUE>> \in Snap!Kept(was, now, n)
    BY <1>4 DEF Snap!Kept
  <2> QED
    BY <1>1, <2>1
<1> QED
  BY <1>2, <1>3, <1>4 DEF Snap!CallsOf, Snap!StillTakes

(* Under strict no difference at all passes, so the tool is the same one.  *)
LEMMA TheSameTool ==
    ASSUME NEW Names, NEW Props, NEW Types, NEW Others,
           NEW was \in Tools(Names, Props, Types, Others), NEW now \in Tools(Names, Props, Types, Others),
           was.name = now.name,
           \A d \in Snap!Properties(was, now, TRUE) : ~d.breaking,
           \A d \in Snap!Keys(was, now, Snap!Properties(was, now, TRUE) # {}) : ~d.breaking
    PROVE  was = now
<1>1. Snap!Properties(was, now, TRUE) = {}
  <2> SUFFICES ASSUME NEW d \in Snap!Properties(was, now, TRUE) PROVE FALSE
    OBVIOUS
  <2>1. PICK k : d = Snap!Difference(was.name, k[1], k[2] \/ TRUE)
    BY DEF Snap!Properties
  <2>2. (k[2] \/ TRUE) = TRUE
    OBVIOUS
  <2>3. d = Snap!Difference(was.name, k[1], TRUE)
    BY <2>1, <2>2, Zenon
  <2> QED
    BY <2>3 DEF Snap!Difference
<1>2. \A d \in Snap!Keys(was, now, FALSE) : ~d.breaking
  BY <1>1
<1>3. was.other = now.other
  <2> SUFFICES ASSUME was.other # now.other PROVE FALSE
    OBVIOUS
  <2>1. Snap!Difference(was.name, "differs", TRUE) \in Snap!Keys(was, now, FALSE)
    BY DEF Snap!Keys
  <2> QED
    BY <1>2, <2>1 DEF Snap!Difference
<1>4. <<was.props, was.required, was.closed>> = <<now.props, now.required, now.closed>>
  <2> SUFFICES ASSUME <<was.props, was.required, was.closed>> # <<now.props, now.required, now.closed>>
               PROVE FALSE
    OBVIOUS
  <2>1. Snap!Difference(was.name, "differs", TRUE) \in Snap!Keys(was, now, FALSE)
    BY DEF Snap!Keys
  <2> QED
    BY <1>2, <2>1 DEF Snap!Difference
<1> QED
  BY <1>3, <1>4 DEF Tools

LEMMA NoDifference ==
    ASSUME NEW was, NEW strict \in BOOLEAN
    PROVE  Snap!Properties(was, was, strict) = {} /\ Snap!Keys(was, was, FALSE) = {}
<1>1. \A n \in Snap!Fields(was) : Snap!Kept(was, was, n) = {}
  BY DEF Snap!Kept
<1>2. Snap!Properties(was, was, strict) = {}
  BY <1>1 DEF Snap!Properties
<1>3. Snap!Keys(was, was, FALSE) = {}
  BY DEF Snap!Keys
<1> QED
  BY <1>2, <1>3

(* Whatever a snapshot and a server list: a check that passes means that   *)
(* every call of the tools it names is still taken, and a strict one       *)
(* passes exactly if the server, which names no two tools alike, has each  *)
(* of them key for key (snapshot.rs, compare).                             *)
THEOREM PassingIsAPromise ==
    ASSUME NEW Names, NEW Props, NEW Types, NEW Others,
           NEW snapshot \in Seq(Tools(Names, Props, Types, Others)),
           NEW live \in Seq(Tools(Names, Props, Types, Others)),
           \A i, j \in DOMAIN live : live[i].name = live[j].name => i = j,
           NEW strict \in BOOLEAN
    PROVE  Snap!KeepsThePromise(snapshot, live, strict)
<1> DEFINE ok == Snap!Ok(Snap!Compare(snapshot, live, strict))
           Same == Snap!ToSet(snapshot) \subseteq Snap!ToSet(live)
           Tool == Tools(Names, Props, Types, Others)
           At(i) == Snap!Live(live, snapshot[i].name)
<1>1. /\ Len(live) \in Nat /\ DOMAIN live = 1..Len(live)
      /\ \A i \in DOMAIN live : live[i] \in Tool
      /\ \A i \in DOMAIN snapshot : snapshot[i] \in Tool
  OBVIOUS
<1>2. ASSUME NEW i \in DOMAIN snapshot
      PROVE  /\ At(i) # 0 => At(i) \in DOMAIN live /\ live[At(i)].name = snapshot[i].name
             /\ \A j \in DOMAIN live : live[j].name = snapshot[i].name => At(i) # 0 /\ At(i) <= j
  BY <1>1, LiveIsFirst
<1>3. ASSUME ok, NEW i \in DOMAIN snapshot
      PROVE  /\ At(i) # 0
             /\ \A d \in Snap!Properties(snapshot[i], live[At(i)], strict) : ~d.breaking
             /\ strict => \A d \in Snap!Keys(snapshot[i], live[At(i)],
                                             Snap!Properties(snapshot[i], live[At(i)], strict) # {}) : ~d.breaking
  <2>1. \A d \in Snap!OneTool(snapshot[i], live, strict) : ~d.breaking
    BY <1>3, OkOfOne
  <2>2. ASSUME At(i) = 0 PROVE FALSE
    <3>1. Snap!Difference(snapshot[i].name, "tool-missing", TRUE) \in Snap!OneTool(snapshot[i], live, strict)
      BY <2>2 DEF Snap!OneTool
    <3> QED
      BY <2>1, <3>1 DEF Snap!Difference
  <2>3. Snap!OneTool(snapshot[i], live, strict)
          = Snap!Properties(snapshot[i], live[At(i)], strict)
            \cup IF strict THEN Snap!Keys(snapshot[i], live[At(i)],
                                          Snap!Properties(snapshot[i], live[At(i)], strict) # {}) ELSE {}
    BY <2>2 DEF Snap!OneTool
  <2> QED
    BY <2>1, <2>2, <2>3
<1>4. ASSUME ok, NEW i \in DOMAIN snapshot
      PROVE  /\ At(i) # 0
             /\ snapshot[i].required \cap Snap!Fields(snapshot[i]) \subseteq Snap!Fields(live[At(i)])
             /\ \A c \in Snap!CallsOf(snapshot[i]) : Snap!StillTakes(live[At(i)], snapshot[i], c)
  <2> HIDE DEF ok
  <2> QED
    BY <1>3, <1>4, StillTaken
<1>5. ASSUME strict, ok PROVE Same
  <2> SUFFICES ASSUME NEW i \in DOMAIN snapshot PROVE snapshot[i] \in Snap!ToSet(live)
    BY DEF Snap!ToSet
  <2>1. strict = TRUE
    BY <1>5
  <2>2. At(i) \in DOMAIN live /\ live[At(i)].name = snapshot[i].name
    BY <1>2, <1>3, <1>5
  <2>3. snapshot[i] = live[At(i)]
    <3> DEFINE now == live[At(i)]
               was == snapshot[i]
    <3>1. /\ \A d \in Snap!Properties(was, now, strict) : ~d.breaking
          /\ \A d \in Snap!Keys(was, now, Snap!Properties(was, now, strict) # {}) : ~d.breaking
      BY <1>3, <1>5
    <3>2. /\ \A d \in Snap!Properties(was, now, TRUE) : ~d.breaking
          /\ \A d \in Snap!Keys(was, now, Snap!Properties(was, now, TRUE) # {}) : ~d.breaking
      BY <2>1, <3>1
    <3>3. was \in Tool /\ now \in Tool /\ was.name = now.name
      BY <1>1, <2>2
    <3> HIDE DEF was, now
    <3>4. was = now
      BY <3>2, <3>3, TheSameTool
    <3> QED
      BY <3>4 DEF was, now
  <2> QED
    BY <2>2, <2>3 DEF Snap!ToSet
<1>6. ASSUME Same PROVE ok
  <2>1. ASSUME NEW i \in DOMAIN snapshot PROVE Snap!OneTool(snapshot[i], live, strict) = {}
    <3>1. PICK j \in DOMAIN live : live[j] = snapshot[i]
      BY <1>6 DEF Snap!ToSet
    <3>2. At(i) \in DOMAIN live /\ live[At(i)].name = snapshot[i].name /\ At(i) # 0
      BY <1>2, <3>1
    <3>3. At(i) = j
      <4> HIDE DEF At
      <4> QED
        BY <3>1, <3>2
    <3>4. Snap!OneTool(snapshot[i], live, strict)
            = Snap!Properties(snapshot[i], snapshot[i], strict)
              \cup IF strict THEN Snap!Keys(snapshot[i], snapshot[i],
                                            Snap!Properties(snapshot[i], snapshot[i], strict) # {}) ELSE {}
      BY <3>1, <3>2, <3>3 DEF Snap!OneTool
    <3> QED
      BY <3>4, NoDifference
  <2>2. ASSUME NEW d \in Snap!Compare(snapshot, live, strict) PROVE ~d.breaking
    <3> DEFINE added == {Snap!Difference(t.name, "tool-added", FALSE) :
                           t \in {u \in Snap!ToSet(live) : u.name \notin {s.name : s \in Snap!ToSet(snapshot)}}}
               found == UNION {Snap!OneTool(snapshot[i], live, strict) : i \in DOMAIN snapshot}
    <3>1. d \notin found
      BY <2>1
    <3>2. Snap!Compare(snapshot, live, strict) = found \cup added
      BY DEF Snap!Compare
    <3>3. d \in added
      <4> HIDE DEF added, found
      <4> QED
        BY <2>2, <3>1, <3>2
    <3>4. PICK t \in Snap!ToSet(live) : d = Snap!Difference(t.name, "tool-added", FALSE)
      BY <3>3
    <3> QED
      BY <3>4 DEF Snap!Difference
  <2> QED
    BY <2>2 DEF Snap!Ok
<1>7. ok => \A i \in DOMAIN snapshot :
              LET was == snapshot[i]
                  at == Snap!Live(live, was.name)
              IN /\ at # 0
                 /\ was.required \cap Snap!Fields(was) \subseteq Snap!Fields(live[at])
                 /\ \A c \in Snap!CallsOf(was) : Snap!StillTakes(live[at], was, c)
  <2> HIDE DEF ok
  <2> QED
    BY <1>4
<1>8. strict => (ok <=> Same)
  <2> HIDE DEF ok, Same
  <2> QED
    BY <1>5, <1>6
<1> HIDE DEF Tool
<1> QED
  BY <1>7, <1>8, Zenon DEF Snap!KeepsThePromise

-----------------------------------------------------------------------------
(* The answer to a form (Forms) and the headers of a request (Messages).   *)

(* Whatever form a server asks for and whatever values were given ahead:   *)
(* what is accepted has every required property, nothing that was not      *)
(* asked for and no value its schema refuses; nobody cancels but a person, *)
(* and what was not declared in the handshake is not accepted.             *)
THEOREM GivenAnswersFit ==
    ASSUME NEW form, NEW who, who.given \in BOOLEAN, who.asks \in BOOLEAN, who.given \/ ~who.asks,
           \A f \in DOMAIN form : form[f].required \in BOOLEAN,
           NEW mode, NEW hasUrl \in BOOLEAN, NEW lines
    PROVE  Form!AnswersWhatWasAsked(mode, hasUrl, form, who, lines)
<1> DEFINE values == who.values
           fits == Form!Fillable(form)
           here == {f \in fits : values[f] # Form!Absent}
           reply == Form!Respond(mode, hasUrl, form, who, lines)
           filled == [f \in here |-> Form!Check(form[f], values[f])]
           misses == \E f \in fits : IF f \in here THEN Form!Check(form[f], values[f]) = Form!Bad ELSE form[f].required
           whole == /\ reply = Form!Reply("accept", filled) /\ mode = "form"
                    /\ who.given /\ ~Form!CannotFill(form) /\ ~misses
           byUrl == reply = Form!Reply("accept", <<>>) /\ mode = "url"
<1>1. reply = Form!Declined \/ whole \/ byUrl
  <2>1. CASE mode = "form"
    <3>1. reply = Form!RespondForm(form, who, lines)
      BY <2>1 DEF Form!Respond
    <3>2. CASE who.given /\ ~Form!CannotFill(form)
      <4>1. reply = Form!FillForm(form, who.values)
        BY <3>1, <3>2 DEF Form!RespondForm
      <4>2. Form!FillForm(form, who.values) = IF misses THEN Form!Declined ELSE Form!Reply("accept", filled)
        BY DEF Form!FillForm
      <4> HIDE DEF filled, misses, reply
      <4> QED
        BY <2>1, <3>2, <4>1, <4>2
    <3>3. CASE ~(who.given /\ ~Form!CannotFill(form))
      BY <3>1, <3>3 DEF Form!RespondForm
    <3> QED
      BY <3>2, <3>3
  <2>2. CASE mode # "form"
    BY <2>2 DEF Form!Respond
  <2> QED
    BY <2>1, <2>2
<1>2. CASE reply = Form!Declined
  <2> HIDE DEF reply
  <2> QED
    BY <1>2 DEF Form!AnswersWhatWasAsked, Form!Declined, Form!Reply, reply
<1>3. CASE byUrl
  BY <1>3 DEF Form!AnswersWhatWasAsked, Form!Capabilities, Form!Reply
<1>4. CASE whole
  <2>1. reply.action = "accept" /\ reply.content = filled /\ DOMAIN filled = here
    BY <1>4 DEF Form!Reply
  <2>2. ASSUME NEW f \in DOMAIN form, form[f].required PROVE f \in here
    <3>1. f \in fits
      BY <1>4, <2>2 DEF Form!CannotFill, Form!Fillable
    <3> QED
      BY <1>4, <2>2, <3>1
  <2>3. ASSUME NEW f \in here PROVE Form!Allowed(form[f], filled[f])
    <3>1. filled[f] # Form!Bad /\ filled[f] = Form!Check(form[f], values[f])
      BY <1>4
    <3> QED
      BY <3>1 DEF Form!Check
  <2>4. here \subseteq fits /\ "form" \in Form!Capabilities(who)
    BY <1>4 DEF Form!Capabilities
  <2> HIDE DEF reply, filled, here
  <2> QED
    BY <1>4, <2>1, <2>2, <2>3, <2>4 DEF Form!AnswersWhatWasAsked, reply
<1> QED
  BY <1>1, <1>2, <1>3, <1>4

(* Any name, in the letters of a header, reads back from its header as it  *)
(* was: one that a reader would take apart goes encoded.                   *)
THEOREM NamesReadBack ==
    ASSUME NEW method, NEW params
    PROVE  Msg!HeadersReadBack(method, params)
<1> DEFINE subject == Msg!SubjectOf(method, params)
           h == Msg!MirroredHeaders(method, params)
           Decoded(v) == IF v.encoded THEN v.text
                         ELSE IF Msg!StartsEncoded(v.text) /\ Msg!EndsEncoded(v.text) THEN <<"garbled">>
                         ELSE Msg!Trim(v.text)
<1>1. CASE "protocolVersion" \notin DOMAIN params.meta
  BY <1>1 DEF Msg!HeadersReadBack, Msg!MirroredHeaders
<1>2. CASE "protocolVersion" \in DOMAIN params.meta
  <2>1. /\ h.version = params.meta["protocolVersion"] /\ h.method = method
        /\ h.name.encoded = ~Msg!GoesAsItIs(subject) /\ h.name.text = subject
    BY <1>2 DEF Msg!MirroredHeaders, Msg!HeaderValue
  <2>2. Decoded(h.name) = subject
    <3>1. CASE Msg!GoesAsItIs(subject)
      <4>1. ~h.name.encoded
        BY <2>1, <3>1
      <4> HIDE DEF h, subject
      <4> QED
        BY <2>1, <3>1, <4>1 DEF Msg!GoesAsItIs
    <3>2. CASE ~Msg!GoesAsItIs(subject)
      <4>1. h.name.encoded
        BY <2>1, <3>2
      <4> HIDE DEF h, subject
      <4> QED
        BY <2>1, <4>1
    <3> QED
      BY <3>1, <3>2
  <2>3. ~h.name.encoded => "e'" \notin Msg!ToSet(h.name.text)
    <3> HIDE DEF h, subject
    <3> QED
      BY <2>1 DEF Msg!GoesAsItIs
  <2> HIDE DEF h, subject
  <2> QED
    BY <2>1, <2>2, <2>3 DEF Msg!HeadersReadBack, h, subject
<1> QED
  BY <1>1, <1>2

-----------------------------------------------------------------------------
(* A header as it is given, and as it is saved (Dialing).                  *)

LEMMA GreatestExists ==
    ASSUME NEW n \in Nat, NEW S, S \subseteq 1..n, S # {}
    PROVE  \E k \in S : \A m \in S : k >= m
<1> DEFINE T == {i \in 0..n : n - i \in S}
<1>1. T \subseteq Nat
  OBVIOUS
<1>2. PICK s \in S : TRUE
  OBVIOUS
<1>3. n - s \in 0..n /\ n - (n - s) = s
  BY <1>2
<1>4. T # {}
  BY <1>2, <1>3
<1>5. \E i \in T : \A j \in T : i <= j
  <2> HIDE DEF T
  <2> QED
    BY <1>1, <1>4, LeastExists
<1>6. PICK i \in T : \A j \in T : i <= j
  BY <1>5
<1>7. i \in 0..n /\ n - i \in S
  BY <1>6
<1>8. ASSUME NEW m \in S PROVE n - i >= m
  <2>1. m \in 1..n /\ n - m \in 0..n /\ n - (n - m) = m
    BY <1>8
  <2>2. n - m \in T
    BY <2>1
  <2>3. i <= n - m
    BY <1>6, <2>2
  <2> QED
    BY <1>7, <2>1, <2>3
<1> QED
  BY <1>7, <1>8

(* The character that is trimmed.                                          *)
Blank == " "

(* The margins of a text: from its first to its last character that is no  *)
(* space.                                                                  *)
Within(s, a, b) ==
    /\ a \in 1..Len(s) /\ b \in a..Len(s) /\ s[a] # Blank /\ s[b] # Blank
    /\ \A i \in 1..Len(s) : s[i] # Blank => a <= i /\ i <= b

IsTrim(s) == s = <<>> \/ (s # <<>> /\ s[1] # Blank /\ s[Len(s)] # Blank)

LEMMA TrimmedWithin ==
    ASSUME NEW L, NEW s \in Seq(L), NEW a, NEW b, Within(s, a, b)
    PROVE  Call!Trimmed(s) = SubSeq(s, a, b)
<1> DEFINE solid == {i \in DOMAIN s : s[i] # Blank}
<1>1. Len(s) \in Nat /\ DOMAIN s = 1..Len(s)
  OBVIOUS
<1>2. a \in solid /\ b \in solid /\ solid \subseteq Nat /\ a \in Nat /\ b \in Nat /\ solid # {}
      /\ \A i \in solid : a <= i /\ i <= b
  BY <1>1 DEF Within
<1>3. Call!Trimmed(s) = SubSeq(s, Call!Min(solid), Call!Max(solid))
  BY <1>2, Zenon DEF Call!Trimmed, Blank
<1> HIDE DEF solid
<1>4. Call!Min(solid) = a
  <2>1. \A i \in solid : (\A j \in solid : i <= j) => i = a
    BY <1>2
  <2> QED
    BY <1>2, <2>1 DEF Call!Min
<1>5. Call!Max(solid) = b
  <2>1. \A i \in solid : (\A j \in solid : i >= j) => i = b
    BY <1>2
  <2>2. \A i \in solid : b >= i
    BY <1>2
  <2> QED
    BY <1>2, <2>1, <2>2 DEF Call!Max
<1> QED
  BY <1>3, <1>4, <1>5

LEMMA AllSpaces ==
    ASSUME NEW L, NEW s \in Seq(L), \A i \in 1..Len(s) : s[i] = Blank
    PROVE  Call!Trimmed(s) = <<>>
<1>1. {i \in DOMAIN s : s[i] # Blank} = {}
  OBVIOUS
<1> QED
  BY <1>1, Zenon DEF Call!Trimmed, Blank

LEMMA HasMargins ==
    ASSUME NEW L, NEW s \in Seq(L), NEW k \in 1..Len(s), s[k] # Blank
    PROVE  \E a, b : Within(s, a, b)
<1> DEFINE solid == {i \in 1..Len(s) : s[i] # Blank}
<1>1. Len(s) \in Nat /\ solid # {} /\ solid \subseteq Nat /\ solid \subseteq 1..Len(s)
  OBVIOUS
<1>2. \A i : i \in solid <=> i \in 1..Len(s) /\ s[i] # Blank
  OBVIOUS
<1> HIDE DEF solid
<1>3. PICK a \in solid : \A i \in solid : a <= i
  BY <1>1, LeastExists
<1>4. PICK b \in solid : \A i \in solid : b >= i
  BY <1>1, GreatestExists
<1>5. a \in 1..Len(s) /\ b \in 1..Len(s) /\ a <= b /\ s[a] # Blank /\ s[b] # Blank
  BY <1>2, <1>3, <1>4
<1>6. b \in a..Len(s)
  BY <1>1, <1>5
<1>7. ASSUME NEW i \in 1..Len(s), s[i] # Blank PROVE a <= i /\ i <= b
  <2>1. i \in solid
    BY <1>2, <1>7
  <2> QED
    BY <1>1, <1>3, <1>4, <1>5, <2>1
<1> QED
  BY <1>5, <1>6, <1>7 DEF Within

(* A trimmed text has no margins, and its characters are those of the text.*)
LEMMA TrimmedIsTrim ==
    ASSUME NEW L, NEW s \in Seq(L)
    PROVE  /\ Call!Trimmed(s) \in Seq(L) /\ IsTrim(Call!Trimmed(s))
           /\ \A i \in 1..Len(Call!Trimmed(s)) : \E k \in 1..Len(s) : Call!Trimmed(s)[i] = s[k]
<1>1. CASE \A i \in 1..Len(s) : s[i] = Blank
  <2>1. Call!Trimmed(s) = <<>>
    BY <1>1, AllSpaces
  <2> QED
    BY <2>1 DEF IsTrim
<1>2. CASE ~\A i \in 1..Len(s) : s[i] = Blank
  <2>1. PICK a, b : Within(s, a, b)
    BY <1>2, HasMargins
  <2> DEFINE t == SubSeq(s, a, b)
  <2>2. Call!Trimmed(s) = t
    BY <2>1, TrimmedWithin
  <2>3. /\ a \in 1..Len(s) /\ b \in a..Len(s) /\ s[a] # Blank /\ s[b] # Blank /\ Len(s) \in Nat
        /\ a \in Int /\ b \in Int /\ a <= b /\ \A i \in a..b : i \in 1..Len(s) /\ s[i] \in L
    BY <2>1 DEF Within
  <2>4. t \in Seq(L) /\ Len(t) = b - a + 1 /\ \A i \in 1..b - a + 1 : t[i] = s[a + i - 1]
    BY <2>3, SubSeqProperties
  <2> HIDE DEF t
  <2>5. 1 \in 1..b - a + 1 /\ b - a + 1 \in 1..b - a + 1 /\ a + 1 - 1 = a /\ a + (b - a + 1) - 1 = b
    BY <2>3
  <2>6. t[1] = s[a] /\ t[Len(t)] = s[b] /\ t # <<>>
    BY <2>4, <2>5
  <2>7. ASSUME NEW i \in 1..Len(t) PROVE \E k \in 1..Len(s) : t[i] = s[k]
    <3>1. a + i - 1 \in 1..Len(s)
      BY <2>3, <2>4
    <3> QED
      BY <2>4, <3>1
  <2> QED
    BY <2>2, <2>3, <2>4, <2>6, <2>7 DEF IsTrim
<1> QED
  BY <1>1, <1>2

LEMMA TrimStays ==
    ASSUME NEW L, NEW s \in Seq(L), IsTrim(s)
    PROVE  Call!Trimmed(s) = s
<1>1. CASE s = <<>>
  <2>1. \A i \in 1..Len(s) : s[i] = Blank
    BY <1>1
  <2> QED
    BY <1>1, <2>1, AllSpaces
<1>2. CASE s # <<>>
  <2>1. Len(s) \in Nat /\ Len(s) # 0
    BY <1>2
  <2>2. Within(s, 1, Len(s))
    BY <1>2, <2>1 DEF Within, IsTrim
  <2> QED
    BY <2>2, TrimmedWithin, SubSeqFull
<1> QED
  BY <1>1, <1>2

(* A space before it is trimmed again.                                     *)
LEMMA SpaceIsTrimmed ==
    ASSUME NEW L, NEW s \in Seq(L), IsTrim(s), NEW t \in Seq(L), Len(t) = Len(s) + 1, t[1] = Blank,
           \A i \in 1..Len(s) : t[i + 1] = s[i]
    PROVE  Call!Trimmed(t) = s
<1> DEFINE N == Len(s)
<1>1. N \in Nat /\ Len(t) = N + 1
  OBVIOUS
<1>2. CASE s = <<>>
  <2>1. N = 0
    BY <1>2
  <2>2. \A i \in 1..Len(t) : t[i] = Blank
    BY <1>1, <2>1
  <2> QED
    BY <1>2, <2>2, AllSpaces
<1>3. CASE s # <<>>
  <2>1. N # 0 /\ N \in 1..N /\ 1 \in 1..N /\ s[1] # Blank /\ s[N] # Blank
    BY <1>1, <1>3 DEF IsTrim
  <2>2. t[2] = s[1] /\ t[N + 1] = s[N]
    BY <1>1, <2>1
  <2>3. ASSUME NEW i \in 1..N + 1, t[i] # Blank PROVE 2 <= i /\ i <= N + 1
    <3>1. i # 1
      BY <2>3
    <3> QED
      BY <1>1, <3>1
  <2>4. 2 \in 1..N + 1 /\ N + 1 \in 2..N + 1
    BY <1>1, <2>1
  <2>5. Within(t, 2, N + 1)
    BY <1>1, <2>1, <2>2, <2>3, <2>4 DEF Within
  <2> DEFINE u == SubSeq(t, 2, N + 1)
  <2>6. Call!Trimmed(t) = u
    BY <2>5, TrimmedWithin
  <2>7. \A i \in 2..N + 1 : t[i] \in L
    BY <1>1
  <2>8. /\ u \in Seq(L) /\ Len(u) = (IF 2 <= N + 1 THEN N + 1 - 2 + 1 ELSE 0)
        /\ \A i \in 1..N + 1 - 2 + 1 : u[i] = t[2 + i - 1]
    <3>1. 2 \in Int /\ N + 1 \in Int
      BY <1>1
    <3> QED
      BY <2>7, <3>1, SubSeqProperties
  <2> HIDE DEF u
  <2>9. Len(u) = N /\ \A i \in 1..N : u[i] = t[2 + i - 1] /\ 2 + i - 1 = i + 1
    BY <1>1, <2>4, <2>8
  <2>10. \A i \in 1..N : u[i] = s[i]
    BY <2>9
  <2>11. u = s
    BY <2>8, <2>9, <2>10, SeqEqual
  <2> QED
    BY <2>6, <2>11
<1> QED
  BY <1>2, <1>3

(* Where a text is cut.                                                    *)
Cut(s, k) == k \in 1..Len(s) /\ s[k] = ":" /\ \A i \in 1..Len(s) : s[i] = ":" => k <= i
Colon(s) == Call!SelectInSeq(s, LAMBDA c : c = ":")

LEMMA CutOnce ==
    ASSUME NEW L, NEW s \in Seq(L)
    PROVE  /\ Colon(s) # 0 => Cut(s, Colon(s))
           /\ \A k : Cut(s, k) => Colon(s) = k
<1> DEFINE I == {i \in 1..Len(s) : s[i] = ":"}
<1>1. Len(s) \in Nat /\ I \subseteq Nat /\ \A i : i \in I <=> i \in 1..Len(s) /\ s[i] = ":"
  OBVIOUS
<1>2. Colon(s) = IF I # {} THEN Call!Min(I) ELSE 0
  BY DEF Colon, Call!SelectInSeq
<1> HIDE DEF I
<1>3. ASSUME Colon(s) # 0 PROVE Cut(s, Colon(s))
  <2>1. I # {} /\ Colon(s) = CHOOSE x \in I : \A y \in I : x <= y
    BY <1>2, <1>3 DEF Call!Min
  <2>2. \E x \in I : \A y \in I : x <= y
    BY <1>1, <2>1, LeastExists
  <2>3. Colon(s) \in I /\ \A y \in I : Colon(s) <= y
    BY <2>1, <2>2
  <2> QED
    BY <1>1, <2>3 DEF Cut
<1>4. ASSUME NEW k, Cut(s, k) PROVE Colon(s) = k
  <2>1. k \in I /\ k \in Nat /\ \A y \in I : k <= y
    BY <1>1, <1>4 DEF Cut
  <2>2. Colon(s) = CHOOSE x \in I : \A y \in I : x <= y
    BY <1>2, <2>1 DEF Call!Min
  <2>3. \A x \in I : (\A y \in I : x <= y) => x = k
    BY <1>1, <2>1
  <2> QED
    BY <2>1, <2>2, <2>3
<1> QED
  BY <1>3, <1>4

(* What is saved of a header, if it is one.                                *)
SavedAs(item, h) ==
    \/ ~h.ok
    \/ /\ h = [ok |-> TRUE, name |-> Call!Trimmed(SubSeq(item, 1, Colon(item) - 1)),
               value |-> Call!Trimmed(SubSeq(item, Colon(item) + 1, Len(item)))]
       /\ Colon(item) # 0 /\ h.name # <<>>

LEMMA SavedIfRead == ASSUME NEW item PROVE SavedAs(item, Call!ParseHeader(item))
<1> DEFINE h == Call!ParseHeader(item)
           name == Call!Trimmed(SubSeq(item, 1, Colon(item) - 1))
<1>1. h = IF Colon(item) = 0 \/ name = <<>> THEN [ok |-> FALSE, name |-> <<>>, value |-> <<>>]
          ELSE [ok |-> TRUE, name |-> name, value |-> Call!Trimmed(SubSeq(item, Colon(item) + 1, Len(item)))]
  BY DEF Call!ParseHeader, Colon
<1> HIDE DEF h
<1>2. SavedAs(item, h)
  BY <1>1 DEF SavedAs
<1> QED
  BY <1>2 DEF h

(* WrittenAs out: the name, a colon, a space and the value.                  *)
WrittenAs(said, name, value, n, v) ==
    /\ Len(said) = n + 2 + v
    /\ \A i \in 1..n : said[i] = name[i]
    /\ said[n + 1] = ":" /\ said[n + 2] = Blank
    /\ \A i \in 1..v : said[n + 2 + i] = value[i]

LEMMA WrittenOut ==
    ASSUME NEW L, NEW mid \in Seq(L), Len(mid) = 2, mid[1] = ":", mid[2] = Blank, NEW name \in Seq(L), NEW value \in Seq(L),
           NEW n \in Nat, NEW v \in Nat, n = Len(name), v = Len(value)
    PROVE  name \o mid \o value \in Seq(L) /\ WrittenAs(name \o mid \o value, name, value, n, v)
<1> DEFINE head == name \o mid
<1>1. /\ head \in Seq(L) /\ Len(head) = n + 2
      /\ \A i \in 1..n + 2 : head[i] = IF i <= n THEN name[i] ELSE mid[i - n]
  <2>1. /\ head \in Seq(L) /\ Len(head) = Len(name) + Len(mid)
        /\ \A i \in 1..Len(name) + Len(mid) : head[i] = IF i <= Len(name) THEN name[i] ELSE mid[i - Len(name)]
    BY ConcatProperties
  <2> HIDE DEF head
  <2> QED
    BY <2>1
<1> DEFINE all == head \o value
<1> HIDE DEF head
<1>2. /\ all \in Seq(L) /\ Len(all) = n + 2 + v
      /\ \A i \in 1..n + 2 + v : all[i] = IF i <= n + 2 THEN head[i] ELSE value[i - (n + 2)]
  <2>1. /\ all \in Seq(L) /\ Len(all) = Len(head) + Len(value)
        /\ \A i \in 1..Len(head) + Len(value) : all[i] = IF i <= Len(head) THEN head[i] ELSE value[i - Len(head)]
    <3>1. head \in Seq(L) /\ value \in Seq(L)
      BY <1>1
    <3> QED
      BY <3>1, ConcatProperties
  <2> HIDE DEF all
  <2> QED
    BY <1>1, <2>1
<1> HIDE DEF all
<1>3. ASSUME NEW i \in 1..n PROVE all[i] = name[i]
  <2>1. i <= n /\ i <= n + 2 /\ i \in 1..n + 2 /\ i \in 1..n + 2 + v
    OBVIOUS
  <2> QED
    BY <1>1, <1>2, <2>1
<1>4. all[n + 1] = ":"
  <2>1. n + 1 \in 1..n + 2 /\ n + 1 \in 1..n + 2 + v /\ ~(n + 1 <= n) /\ n + 1 - n = 1 /\ n + 1 <= n + 2
    OBVIOUS
  <2> QED
    BY <1>1, <1>2, <2>1
<1>5. all[n + 2] = Blank
  <2>1. n + 2 \in 1..n + 2 /\ n + 2 \in 1..n + 2 + v /\ ~(n + 2 <= n) /\ n + 2 - n = 2 /\ n + 2 <= n + 2
    OBVIOUS
  <2> QED
    BY <1>1, <1>2, <2>1
<1>6. ASSUME NEW i \in 1..v PROVE all[n + 2 + i] = value[i]
  <2>1. n + 2 + i \in 1..n + 2 + v /\ ~(n + 2 + i <= n + 2) /\ n + 2 + i - (n + 2) = i
    OBVIOUS
  <2>2. all[n + 2 + i] = value[n + 2 + i - (n + 2)]
    BY <1>2, <2>1
  <2> QED
    BY <2>1, <2>2
<1>7. all \in Seq(L) /\ WrittenAs(all, name, value, n, v)
  BY <1>2, <1>3, <1>4, <1>5, <1>6 DEF WrittenAs
<1> QED
  BY <1>7 DEF all, head

LEMMA ReadBack ==
    ASSUME NEW L, NEW name \in Seq(L), NEW value \in Seq(L), NEW said \in Seq(L),
           NEW n \in Nat, NEW v \in Nat, n = Len(name), v = Len(value), WrittenAs(said, name, value, n, v),
           \A i \in 1..n : name[i] # ":", IsTrim(name), IsTrim(value), name # <<>>
    PROVE  Call!ParseHeader(said) = [ok |-> TRUE, name |-> name, value |-> value]
<1>1. /\ Len(said) = n + 2 + v
      /\ \A i \in 1..n : said[i] = name[i]
      /\ said[n + 1] = ":" /\ said[n + 2] = Blank
      /\ \A i \in 1..v : said[n + 2 + i] = value[i]
  BY DEF WrittenAs
<1>2. Colon(said) = n + 1
  <2>1. n + 1 \in 1..Len(said)
    BY <1>1
  <2>2. ASSUME NEW i \in 1..Len(said), said[i] = ":" PROVE n + 1 <= i
    <3>1. i \notin 1..n
      BY <1>1, <2>2
    <3> QED
      BY <1>1, <3>1
  <2>3. Cut(said, n + 1)
    BY <1>1, <2>1, <2>2 DEF Cut
  <2> QED
    BY <1>1, <2>3, CutOnce
<1>3. SubSeq(said, 1, Colon(said) - 1) = name
  <2> DEFINE w == SubSeq(said, 1, n)
  <2>1. 1 \in Int /\ n \in Int /\ \A i \in 1..n : said[i] \in L
    BY <1>1
  <2>2. w \in Seq(L) /\ Len(w) = (IF 1 <= n THEN n - 1 + 1 ELSE 0) /\ \A i \in 1..n - 1 + 1 : w[i] = said[1 + i - 1]
    <3> QED
      BY <2>1, SubSeqProperties
  <2> HIDE DEF w
  <2>3. Len(w) = n /\ \A i \in 1..n : w[i] = said[1 + i - 1] /\ 1 + i - 1 = i
    BY <1>1, <2>2
  <2>4. \A i \in 1..n : w[i] = name[i]
    BY <1>1, <2>3
  <2>5. w = name
    BY <2>2, <2>3, <2>4, SeqEqual
  <2>6. Colon(said) - 1 = n
    BY <1>1, <1>2
  <2> QED
    BY <2>5, <2>6 DEF w
<1>4. Call!Trimmed(SubSeq(said, Colon(said) + 1, Len(said))) = value
  <2> DEFINE w == SubSeq(said, n + 2, n + 2 + v)
  <2>1. n + 2 \in Int /\ n + 2 + v \in Int /\ \A i \in n + 2..n + 2 + v : said[i] \in L
    <3>1. \A i \in n + 2..n + 2 + v : i \in 1..Len(said)
      BY <1>1
    <3> QED
      BY <1>1, <3>1
  <2>2. /\ w \in Seq(L) /\ Len(w) = (IF n + 2 <= n + 2 + v THEN n + 2 + v - (n + 2) + 1 ELSE 0)
        /\ \A i \in 1..n + 2 + v - (n + 2) + 1 : w[i] = said[n + 2 + i - 1]
    <3> QED
      BY <2>1, SubSeqProperties
  <2> HIDE DEF w
  <2>3. Len(w) = v + 1 /\ n + 2 + v - (n + 2) + 1 = v + 1
    BY <1>1, <2>2
  <2>4. w[1] = Blank
    <3>1. 1 \in 1..v + 1 /\ n + 2 + 1 - 1 = n + 2
      OBVIOUS
    <3>2. w[1] = said[n + 2 + 1 - 1]
      BY <2>2, <2>3, <3>1
    <3> QED
      BY <1>1, <3>1, <3>2
  <2>5. ASSUME NEW i \in 1..v PROVE w[i + 1] = value[i]
    <3>1. i + 1 \in 1..v + 1 /\ n + 2 + (i + 1) - 1 = n + 2 + i
      BY <1>1
    <3> QED
      BY <1>1, <2>2, <2>3, <3>1
  <2>6. Call!Trimmed(w) = value
    BY <2>2, <2>3, <2>4, <2>5, SpaceIsTrimmed
  <2>7. Colon(said) + 1 = n + 2 /\ Len(said) = n + 2 + v
    BY <1>1, <1>2
  <2> QED
    BY <2>6, <2>7 DEF w
<1>5. Colon(said) # 0
  BY <1>2
<1>6. Call!Trimmed(name) = name
  BY TrimStays
<1> QED
  BY <1>3, <1>4, <1>5, <1>6 DEF Call!ParseHeader, Colon

(* The characters a header is written out with.                            *)
HasMarks(L) == {":", Blank} \subseteq L

LEMMA MarksAreText ==
    ASSUME NEW L, HasMarks(L)
    PROVE  <<":", Blank>> \in Seq(L)
<1>1. ":" \in L /\ Blank \in L
  BY DEF HasMarks
<1> QED
  BY <1>1

(* However it is spaced: the name of a header that is saved holds no colon *)
(* and has no margins, and what is saved, written out, reads back as it    *)
(* was, whatever colons its value holds (validate.rs, parse_headers).      *)
THEOREM SavedHeadersReadBack ==
    ASSUME NEW L, HasMarks(L), NEW item \in Seq(L)
    PROVE  Call!HeaderIsWhole(item)
<1> DEFINE h == Call!ParseHeader(item)
           name == Call!Trimmed(SubSeq(item, 1, Colon(item) - 1))
           value == Call!Trimmed(SubSeq(item, Colon(item) + 1, Len(item)))
           k == Colon(item)
<1>0. SavedAs(item, h)
  BY SavedIfRead
<1> HIDE DEF h
<1>18. Call!HeaderIsWhole(item) =
        (h.ok => /\ ":" \notin Call!ToSet(h.name) /\ Call!Trimmed(h.name) = h.name /\ h.name # <<>>
                 /\ Call!ParseHeader(h.name \o <<":", Blank>> \o h.value) = h)
  BY Zenon DEF Call!HeaderIsWhole, h, Blank
<1> SUFFICES ASSUME h.ok
             PROVE  /\ ":" \notin Call!ToSet(h.name) /\ Call!Trimmed(h.name) = h.name /\ h.name # <<>>
                    /\ Call!ParseHeader(h.name \o <<":", Blank>> \o h.value) = h
  BY <1>18
<1>1. h = [ok |-> TRUE, name |-> name, value |-> value] /\ k # 0 /\ h.name # <<>>
  BY <1>0 DEF SavedAs
<1>2. Cut(item, k) /\ k \in 1..Len(item) /\ Len(item) \in Nat
  BY <1>1, CutOnce DEF Cut
<1> DEFINE before == SubSeq(item, 1, k - 1)
           after == SubSeq(item, k + 1, Len(item))
<1>3. /\ before \in Seq(L) /\ Len(before) = (IF 1 <= k - 1 THEN k - 1 - 1 + 1 ELSE 0)
      /\ \A i \in 1..k - 1 - 1 + 1 : before[i] = item[1 + i - 1]
  <2>1. 1 \in Int /\ k - 1 \in Int /\ \A i \in 1..k - 1 : item[i] \in L
    BY <1>2
  <2> HIDE DEF k
  <2> QED
    BY <2>1, SubSeqProperties
<1>4. after \in Seq(L)
  <2>1. k + 1 \in Int /\ Len(item) \in Int /\ \A i \in k + 1..Len(item) : item[i] \in L
    BY <1>2
  <2> HIDE DEF k
  <2> QED
    BY <2>1, SubSeqProperties
<1>5. name = Call!Trimmed(before) /\ value = Call!Trimmed(after)
  OBVIOUS
<1> HIDE DEF before, after, name, value, k
<1>6. name \in Seq(L) /\ IsTrim(name) /\ \A i \in 1..Len(name) : \E j \in 1..Len(before) : name[i] = before[j]
  BY <1>3, <1>5, TrimmedIsTrim
<1>7. value \in Seq(L) /\ IsTrim(value)
  BY <1>4, <1>5, TrimmedIsTrim
<1>8. \A j \in 1..Len(before) : before[j] # ":"
  <2> SUFFICES ASSUME NEW j \in 1..Len(before) PROVE before[j] # ":"
    OBVIOUS
  <2>1. k - 1 - 1 + 1 = k - 1 /\ j \in 1..k - 1 /\ 1 + j - 1 = j
    BY <1>2, <1>3
  <2>2. before[j] = item[j] /\ j \in 1..Len(item) /\ ~(k <= j)
    BY <1>2, <1>3, <2>1
  <2> QED
    BY <1>2, <2>2 DEF Cut
<1>9. \A i \in 1..Len(name) : name[i] # ":"
  BY <1>6, <1>8
<1>10. h.name = name /\ h.value = value /\ name # <<>>
  BY <1>1
<1>11. ":" \notin Call!ToSet(name)
  <2>1. DOMAIN name = 1..Len(name)
    BY <1>6
  <2> QED
    BY <1>9, <2>1 DEF Call!ToSet
<1>12. Call!Trimmed(name) = name
  BY <1>6, TrimStays
<1> DEFINE mid == <<":", Blank>>
           said == name \o mid \o value
<1>13. mid \in Seq(L) /\ Len(mid) = 2 /\ mid[1] = ":" /\ mid[2] = Blank /\ Len(name) \in Nat /\ Len(value) \in Nat
  <2>1. mid \in Seq(L)
    BY MarksAreText
  <2>2. Len(mid) = 2 /\ mid[1] = ":" /\ mid[2] = Blank
    OBVIOUS
  <2> HIDE DEF mid
  <2> QED
    BY <1>6, <1>7, <2>1, <2>2
<1> HIDE DEF mid
<1>14. said \in Seq(L) /\ WrittenAs(said, name, value, Len(name), Len(value))
  BY <1>6, <1>7, <1>13, WrittenOut
<1> HIDE DEF said
<1>15. Call!ParseHeader(said) = [ok |-> TRUE, name |-> name, value |-> value]
  BY <1>6, <1>7, <1>9, <1>10, <1>13, <1>14, ReadBack
<1>16. Call!ParseHeader(said) = h
  BY <1>1, <1>15
<1> QED
  BY <1>10, <1>11, <1>12, <1>16 DEF said, mid

-----------------------------------------------------------------------------
(* A glob (Dialing).                                                        *)

(* The loop of a glob, and what has to hold of it: between the last star   *)
(* and where it is, the pattern has been compared letter by letter; what   *)
(* the whole says is what is left of it says from there, or from further   *)
(* on in the name.                                                         *)
GlobNext(pattern, name) == ~Call!GlobEnds(glob, name) /\ glob' = Call!Widen(glob, pattern, name)

GlobSpec(pattern, name) == glob = Call!GlobStart /\ [][GlobNext(pattern, name)]_glob

GlobIsRight(pattern, name) ==
    Call!GlobEnds(glob, name) => (Call!GlobMatches(glob, pattern) <=> Call!Describes(pattern, name))

Globs(P, N) == [p : 1..P + 1, n : 1..N + 1, star : 0..P, reached : 0..N + 1, failed : BOOLEAN]

(* From the last star on: where it is, and how far the letters after it    *)
(* have been compared.                                                     *)
Compared(pattern, name, p, n, star, reached, beyond) ==
    LET From(q, m) == Call!DescribesFrom(pattern, name, q, m)
    IN /\ star < p /\ reached # 0 /\ n = reached + beyond
       /\ From(1, 1) <=> \E m \in reached..Len(name) + 1 : From(star + 1, m)
       /\ From(p, n) => From(star + 1, reached)
       /\ \A m \in reached..Len(name) + 1 : From(star + 1, m) => m + beyond <= Len(name) + 1 /\ From(p, m + beyond)

Keeps(at, pattern, name) ==
    LET From(p, n) == Call!DescribesFrom(pattern, name, p, n)
    IN /\ at \in Globs(Len(pattern), Len(name))
       /\ at.failed => ~From(1, 1)
       /\ ~at.failed /\ at.star = 0 => (From(1, 1) <=> From(at.p, at.n))
       /\ ~at.failed /\ at.star # 0 => Compared(pattern, name, at.p, at.n, at.star, at.reached, at.p - (at.star + 1))

GlobInv(pattern, name) == Keeps(glob, pattern, name)

LEMMA NothingLeft ==
    ASSUME NEW pattern, NEW name, Len(pattern) \in Nat, Len(name) \in Nat, NEW n \in 1..Len(name) + 1
    PROVE  Call!DescribesFrom(pattern, name, Len(pattern) + 1, n) <=> n = Len(name) + 1
<1> DEFINE P == Len(pattern)
           N == Len(name)
<1>1. P \in Nat /\ N \in Nat /\ P + 1..P + 1 = {P + 1} /\ P + 1..P = {}
  OBVIOUS
<1>2. ASSUME n = N + 1 PROVE Call!DescribesFrom(pattern, name, P + 1, n)
  <2> DEFINE at == [q \in P + 1..P + 1 |-> n]
  <2>1. at \in [P + 1..P + 1 -> 1..N + 1] /\ at[P + 1] = n
    BY <1>1
  <2> HIDE DEF at
  <2> QED
    BY <1>1, <1>2, <2>1 DEF Call!DescribesFrom
<1>3. ASSUME Call!DescribesFrom(pattern, name, P + 1, n) PROVE n = N + 1
  BY <1>3 DEF Call!DescribesFrom
<1> QED
  BY <1>2, <1>3

(* The places of a pattern, and of what follows its first character.       *)
Laid(at, pattern, name, p, n) ==
    /\ at \in [p..Len(pattern) + 1 -> 1..Len(name) + 1]
    /\ at[p] = n /\ at[Len(pattern) + 1] = Len(name) + 1
    /\ \A i \in p..Len(pattern) :
         IF pattern[i] = "*" THEN at[i] <= at[i + 1]
         ELSE at[i + 1] = at[i] + 1 /\ pattern[i] \in {"?", name[at[i]]}

LEMMA DescribedByPlaces ==
    ASSUME NEW pattern, NEW name, NEW p, NEW n
    PROVE  Call!DescribesFrom(pattern, name, p, n) <=> \E at : Laid(at, pattern, name, p, n)
  BY DEF Call!DescribesFrom, Laid

LEMMA PlacesShorten ==
    ASSUME NEW pattern, NEW name, Len(pattern) \in Nat, Len(name) \in Nat,
           NEW p \in 1..Len(pattern), NEW n \in 1..Len(name) + 1, NEW at, Laid(at, pattern, name, p, n)
    PROVE  /\ at[p + 1] \in 1..Len(name) + 1
           /\ Call!DescribesFrom(pattern, name, p + 1, at[p + 1])
           /\ IF pattern[p] = "*" THEN n <= at[p + 1]
              ELSE at[p + 1] = n + 1 /\ pattern[p] \in {"?", name[n]}
<1> DEFINE P == Len(pattern)
           N == Len(name)
           rest == [q \in p + 1..P + 1 |-> at[q]]
<1>1. /\ P \in Nat /\ N \in Nat /\ p + 1 \in p..P + 1 /\ p + 1 \in p + 1..P + 1 /\ P + 1 \in p + 1..P + 1 /\ p \in p..P
      /\ p + 1..P + 1 \subseteq p..P + 1 /\ \A i \in p + 1..P : i \in p..P /\ i \in p + 1..P + 1 /\ i + 1 \in p + 1..P + 1
  OBVIOUS
<1>2. at \in [p..P + 1 -> 1..N + 1]
  BY DEF Laid
<1>3. at[p + 1] \in 1..N + 1
  BY <1>1, <1>2
<1>4. rest \in [p + 1..P + 1 -> 1..N + 1] /\ \A i \in p + 1..P + 1 : rest[i] = at[i]
  BY <1>1, <1>2
<1> HIDE DEF rest
<1>5. Laid(rest, pattern, name, p + 1, at[p + 1])
  BY <1>1, <1>4 DEF Laid
<1>6. Call!DescribesFrom(pattern, name, p + 1, at[p + 1])
  BY <1>5, DescribedByPlaces
<1>7. IF pattern[p] = "*" THEN n <= at[p + 1] ELSE at[p + 1] = n + 1 /\ pattern[p] \in {"?", name[n]}
  BY <1>1 DEF Laid
<1> QED
  BY <1>3, <1>6, <1>7

LEMMA PlacesExtend ==
    ASSUME NEW pattern, NEW name, Len(pattern) \in Nat, Len(name) \in Nat,
           NEW p \in 1..Len(pattern), NEW n \in 1..Len(name) + 1, NEW m \in 1..Len(name) + 1,
           Call!DescribesFrom(pattern, name, p + 1, m),
           IF pattern[p] = "*" THEN n <= m ELSE m = n + 1 /\ pattern[p] \in {"?", name[n]}
    PROVE  Call!DescribesFrom(pattern, name, p, n)
<1> DEFINE P == Len(pattern)
           N == Len(name)
<1>1. PICK rest : Laid(rest, pattern, name, p + 1, m)
  BY DescribedByPlaces
<1> DEFINE at == [q \in p..P + 1 |-> IF q = p THEN n ELSE rest[q]]
<1>2. /\ P \in Nat /\ N \in Nat /\ p \in p..P + 1 /\ P + 1 \in p..P + 1 /\ P + 1 # p /\ p + 1 # p
      /\ p + 1 \in p..P + 1 /\ P + 1 \in p + 1..P + 1
      /\ \A i \in p..P + 1 : i # p => i \in p + 1..P + 1
      /\ \A i \in p..P : i # p => i \in p + 1..P
      /\ \A i \in p..P : i \in p..P + 1 /\ i + 1 \in p..P + 1 /\ i + 1 # p
  OBVIOUS
<1>3. rest \in [p + 1..P + 1 -> 1..N + 1] /\ rest[p + 1] = m /\ rest[P + 1] = N + 1
  BY <1>1 DEF Laid
<1>4. at \in [p..P + 1 -> 1..N + 1]
  BY <1>2, <1>3
<1>5. at[p] = n /\ \A i \in p..P + 1 : i # p => at[i] = rest[i]
  BY <1>2
<1> HIDE DEF at
<1>6. at[P + 1] = N + 1 /\ at[p + 1] = m
  BY <1>2, <1>3, <1>5
<1>7. ASSUME NEW i \in p..P
      PROVE  IF pattern[i] = "*" THEN at[i] <= at[i + 1]
             ELSE at[i + 1] = at[i] + 1 /\ pattern[i] \in {"?", name[at[i]]}
  <2>1. CASE i = p
    BY <1>5, <1>6, <2>1
  <2>2. CASE i # p
    <3>1. i \in p + 1..P /\ at[i] = rest[i] /\ at[i + 1] = rest[i + 1]
      BY <1>2, <1>5, <2>2
    <3> QED
      BY <1>1, <3>1 DEF Laid
  <2> QED
    BY <2>1, <2>2
<1>8. Laid(at, pattern, name, p, n)
  BY <1>4, <1>5, <1>6, <1>7 DEF Laid
<1> QED
  BY <1>8, DescribedByPlaces

LEMMA AStarDescribes ==
    ASSUME NEW pattern, NEW name, Len(pattern) \in Nat, Len(name) \in Nat,
           NEW p \in 1..Len(pattern), NEW n \in 1..Len(name) + 1, pattern[p] = "*"
    PROVE  Call!DescribesFrom(pattern, name, p, n)
             <=> \E m \in n..Len(name) + 1 : Call!DescribesFrom(pattern, name, p + 1, m)
<1>1. ASSUME Call!DescribesFrom(pattern, name, p, n)
      PROVE  \E m \in n..Len(name) + 1 : Call!DescribesFrom(pattern, name, p + 1, m)
  <2>1. PICK at : Laid(at, pattern, name, p, n)
    BY <1>1, DescribedByPlaces
  <2>2. at[p + 1] \in 1..Len(name) + 1 /\ n <= at[p + 1] /\ Call!DescribesFrom(pattern, name, p + 1, at[p + 1])
    BY <2>1, PlacesShorten
  <2>3. at[p + 1] \in n..Len(name) + 1
    BY <2>2
  <2> QED
    BY <2>2, <2>3
<1>2. ASSUME NEW m \in n..Len(name) + 1, Call!DescribesFrom(pattern, name, p + 1, m)
      PROVE  Call!DescribesFrom(pattern, name, p, n)
  <2>1. m \in 1..Len(name) + 1 /\ n <= m
    OBVIOUS
  <2> QED
    BY <1>2, <2>1, PlacesExtend
<1> QED
  BY <1>1, <1>2

LEMMA ALetterDescribes ==
    ASSUME NEW pattern, NEW name, Len(pattern) \in Nat, Len(name) \in Nat,
           NEW p \in 1..Len(pattern), NEW n \in 1..Len(name) + 1, pattern[p] # "*"
    PROVE  Call!DescribesFrom(pattern, name, p, n)
             <=> n <= Len(name) /\ pattern[p] \in {"?", name[n]} /\ Call!DescribesFrom(pattern, name, p + 1, n + 1)
<1>1. ASSUME Call!DescribesFrom(pattern, name, p, n)
      PROVE  n <= Len(name) /\ pattern[p] \in {"?", name[n]} /\ Call!DescribesFrom(pattern, name, p + 1, n + 1)
  <2>1. PICK at : Laid(at, pattern, name, p, n)
    BY <1>1, DescribedByPlaces
  <2>2. /\ at[p + 1] \in 1..Len(name) + 1 /\ at[p + 1] = n + 1 /\ pattern[p] \in {"?", name[n]}
        /\ Call!DescribesFrom(pattern, name, p + 1, at[p + 1])
    BY <2>1, PlacesShorten
  <2> QED
    BY <2>2
<1>2. ASSUME n <= Len(name), pattern[p] \in {"?", name[n]}, Call!DescribesFrom(pattern, name, p + 1, n + 1)
      PROVE  Call!DescribesFrom(pattern, name, p, n)
  <2>1. n + 1 \in 1..Len(name) + 1
    BY <1>2
  <2> QED
    BY <1>2, <2>1, PlacesExtend
<1> QED
  BY <1>1, <1>2

(* At the end of the name only stars may be left.                          *)
LEMMA StarsAreLeft ==
    ASSUME NEW pattern, NEW name, Len(pattern) \in Nat, Len(name) \in Nat, NEW p \in 1..Len(pattern) + 1
    PROVE  Call!DescribesFrom(pattern, name, p, Len(name) + 1) <=> \A i \in p..Len(pattern) : pattern[i] = "*"
<1> DEFINE P == Len(pattern)
           N == Len(name)
<1>0. P \in Nat /\ N \in Nat /\ N + 1 \in 1..N + 1 /\ p \in p..P + 1 /\ P + 1 \in p..P + 1
  OBVIOUS
<1>1. ASSUME \A i \in p..P : pattern[i] = "*" PROVE Call!DescribesFrom(pattern, name, p, N + 1)
  <2> DEFINE at == [q \in p..P + 1 |-> N + 1]
  <2>1. at \in [p..P + 1 -> 1..N + 1] /\ \A q \in p..P + 1 : at[q] = N + 1
    BY <1>0
  <2> HIDE DEF at
  <2>2. \A i \in p..P : i \in p..P + 1 /\ i + 1 \in p..P + 1
    BY <1>0
  <2>3. Laid(at, pattern, name, p, N + 1)
    BY <1>0, <1>1, <2>1, <2>2 DEF Laid
  <2> QED
    BY <2>3, DescribedByPlaces
<1>2. ASSUME Call!DescribesFrom(pattern, name, p, N + 1), NEW i \in p..P PROVE pattern[i] = "*"
  <2>1. PICK at : Laid(at, pattern, name, p, N + 1)
    BY <1>2, DescribedByPlaces
  <2>2. /\ at \in [p..P + 1 -> 1..N + 1] /\ at[p] = N + 1
        /\ \A q \in p..P : IF pattern[q] = "*" THEN at[q] <= at[q + 1] ELSE at[q + 1] = at[q] + 1
    BY <2>1 DEF Laid
  <2> DEFINE S == {q \in p..P + 1 : at[q] # N + 1}
  <2>3. S = {}
    <3> SUFFICES ASSUME S # {} PROVE FALSE
      OBVIOUS
    <3>1. S \subseteq Nat /\ \A q \in S : q \in p..P + 1 /\ at[q] # N + 1
      BY <1>0
    <3>2. PICK q \in S : \A r \in S : q <= r
      <4> HIDE DEF S
      <4> QED
        BY <3>1, LeastExists
    <3>3. q \in p..P + 1 /\ at[q] # N + 1 /\ q # p
      BY <2>2, <3>1
    <3>4. q - 1 \in p..P /\ q - 1 \in p..P + 1 /\ q - 1 + 1 = q /\ ~(q <= q - 1)
      BY <1>0, <3>3
    <3>5. at[q - 1] = N + 1
      BY <3>2, <3>4
    <3>6. at[q] \in 1..N + 1
      BY <2>2, <3>3
    <3>7. at[q] = N + 2 \/ N + 1 <= at[q]
      <4>1. IF pattern[q - 1] = "*" THEN at[q - 1] <= at[q - 1 + 1] ELSE at[q - 1 + 1] = at[q - 1] + 1
        BY <2>2, <3>4
      <4>2. IF pattern[q - 1] = "*" THEN N + 1 <= at[q] ELSE at[q] = N + 1 + 1
        BY <3>4, <3>5, <4>1
      <4> QED
        BY <1>0, <4>2
    <3> QED
      BY <1>0, <3>3, <3>6, <3>7
  <2>4. \A q \in p..P + 1 : at[q] = N + 1
    BY <2>3
  <2>5. i \in p..P + 1 /\ i + 1 \in p..P + 1
    BY <1>0
  <2>6. at[i] = N + 1 /\ at[i + 1] = N + 1
    BY <2>4, <2>5
  <2> HIDE DEF S
  <2> QED
    BY <1>0, <2>2, <2>6
<1> QED
  BY <1>1, <1>2

LEMMA StarKeeps ==
    ASSUME NEW pattern, NEW name, Len(pattern) \in Nat, Len(name) \in Nat, NEW at, Keeps(at, pattern, name),
           ~Call!GlobEnds(at, name), at.p <= Len(pattern), pattern[at.p] = "*"
    PROVE  Keeps(Call!Widen(at, pattern, name), pattern, name)
<1> DEFINE P == Len(pattern)
           N == Len(name)
           to == [p |-> at.p + 1, n |-> at.n, star |-> at.p, reached |-> at.n, failed |-> at.failed]
           From(p, n) == Call!DescribesFrom(pattern, name, p, n)
<1>1. /\ at \in Globs(P, N) /\ P \in Nat /\ N \in Nat /\ at.p \in 1..P /\ at.n \in 1..N /\ at.n \in 1..N + 1
      /\ at.star \in 0..P /\ at.reached \in 0..N + 1 /\ at.failed = FALSE
  BY DEF Keeps, Globs, Call!GlobEnds
<1>2. Call!Widen(at, pattern, name) = to
  BY <1>1 DEF Call!Widen, Globs
<1>3. /\ to.p = at.p + 1 /\ to.n = at.n /\ to.star = at.p /\ to.reached = at.n /\ to.failed = FALSE
      /\ to \in Globs(P, N)
  BY <1>1 DEF Globs
<1>4. From(at.p, at.n) <=> \E m \in at.n..N + 1 : From(at.p + 1, m)
  BY <1>1, AStarDescribes
<1>5. From(1, 1) <=> From(at.p, at.n)
  <2>1. CASE at.star = 0
    BY <1>1, <2>1 DEF Keeps
  <2>2. CASE at.star # 0
    <3> DEFINE beyond == at.p - (at.star + 1)
    <3>1. /\ at.star < at.p /\ at.reached # 0 /\ at.n = at.reached + beyond
          /\ From(1, 1) <=> \E m \in at.reached..N + 1 : From(at.star + 1, m)
          /\ From(at.p, at.n) => From(at.star + 1, at.reached)
          /\ \A m \in at.reached..N + 1 : From(at.star + 1, m) => m + beyond <= N + 1 /\ From(at.p, m + beyond)
      BY <1>1, <2>2 DEF Keeps, Compared
    <3>2. ASSUME From(1, 1) PROVE From(at.p, at.n)
      <4>1. PICK m \in at.reached..N + 1 : From(at.star + 1, m)
        BY <3>1, <3>2
      <4>2. m + beyond <= N + 1 /\ From(at.p, m + beyond)
        BY <3>1, <4>1
      <4>3. m + beyond \in 1..N + 1 /\ at.n <= m + beyond
        <5>1. at.p \in Nat /\ at.star \in Nat /\ at.star + 1 <= at.p /\ at.reached \in Nat /\ at.reached >= 1 /\ m \in Nat /\ at.reached <= m
          <6>1. at.star < at.p /\ at.reached # 0
            BY <3>1
          <6>2. at.p \in Nat /\ at.star \in Nat /\ at.reached \in Nat
            BY <1>1
          <6> QED
            BY <1>1, <4>1, <6>1, <6>2
        <5>2. beyond \in Nat
          BY <5>1
        <5> HIDE DEF beyond
        <5> QED
          BY <1>1, <3>1, <4>2, <5>1, <5>2
      <4>4. PICK k \in m + beyond..N + 1 : From(at.p + 1, k)
        <5> DEFINE here == m + beyond
        <5>1. here \in 1..N + 1 /\ From(at.p, here)
          BY <4>2, <4>3
        <5> HIDE DEF here
        <5>2. \E k \in here..N + 1 : From(at.p + 1, k)
          BY <1>1, <5>1, AStarDescribes
        <5> QED
          BY <5>2 DEF here
      <4>5. k \in at.n..N + 1
        BY <1>1, <4>3, <4>4
      <4> QED
        BY <1>4, <4>4, <4>5
    <3>3. at.reached \in at.reached..N + 1
      BY <1>1
    <3> QED
      BY <3>1, <3>2, <3>3
  <2> QED
    BY <2>1, <2>2
<1>6. at.p + 1 - (at.p + 1) = 0 /\ at.p < at.p + 1 /\ at.n + 0 = at.n /\ at.n # 0 /\ at.p # 0
  BY <1>1
<1>7. \A m \in at.n..N + 1 : m + 0 = m /\ m <= N + 1
  BY <1>1
<1> HIDE DEF to
<1>8. Compared(pattern, name, at.p + 1, at.n, at.p, at.n, 0)
  <2> SUFFICES /\ at.p < at.p + 1 /\ at.n # 0 /\ at.n = at.n + 0
               /\ From(1, 1) <=> \E m \in at.n..N + 1 : From(at.p + 1, m)
               /\ From(at.p + 1, at.n) => From(at.p + 1, at.n)
               /\ \A m \in at.n..N + 1 : From(at.p + 1, m) => m + 0 <= N + 1 /\ From(at.p + 1, m + 0)
    BY DEF Compared
  <2> QED
    BY <1>4, <1>5, <1>6, <1>7
<1>9. Compared(pattern, name, to.p, to.n, to.star, to.reached, to.p - (to.star + 1))
  <2>1. to.p - (to.star + 1) = 0
    <3>1. at.p \in Nat /\ to.p = at.p + 1 /\ to.star = at.p
      BY <1>1, <1>3
    <3> QED
      BY <3>1
  <2> QED
    BY <1>3, <1>8, <2>1
<1>10. Keeps(to, pattern, name)
  BY <1>3, <1>6, <1>9 DEF Keeps
<1> QED
  BY <1>2, <1>10

LEMMA LetterKeeps ==
    ASSUME NEW pattern, NEW name, Len(pattern) \in Nat, Len(name) \in Nat, NEW at, Keeps(at, pattern, name),
           ~Call!GlobEnds(at, name), ~(at.p <= Len(pattern) /\ pattern[at.p] = "*"),
           Call!Literal(pattern, at.p, name, at.n)
    PROVE  Keeps(Call!Widen(at, pattern, name), pattern, name)
<1> DEFINE P == Len(pattern)
           N == Len(name)
           to == [p |-> at.p + 1, n |-> at.n + 1, star |-> at.star, reached |-> at.reached, failed |-> at.failed]
           From(p, n) == Call!DescribesFrom(pattern, name, p, n)
<1>1. /\ at \in Globs(P, N) /\ P \in Nat /\ N \in Nat /\ at.p \in 1..P /\ at.n \in 1..N /\ at.n \in 1..N + 1
      /\ at.star \in 0..P /\ at.reached \in 0..N + 1 /\ at.failed = FALSE
      /\ pattern[at.p] # "*" /\ pattern[at.p] \in {"?", name[at.n]}
  BY DEF Keeps, Globs, Call!GlobEnds, Call!Literal
<1>2. Call!Widen(at, pattern, name) = to
  BY <1>1 DEF Call!Widen, Globs
<1>3. /\ to.p = at.p + 1 /\ to.n = at.n + 1 /\ to.star = at.star /\ to.reached = at.reached /\ to.failed = FALSE
      /\ to \in Globs(P, N)
  BY <1>1 DEF Globs
<1>4. From(at.p, at.n) <=> From(at.p + 1, at.n + 1)
  BY <1>1, ALetterDescribes
<1> HIDE DEF to
<1>5. CASE at.star = 0
  BY <1>1, <1>2, <1>3, <1>4, <1>5 DEF Keeps
<1>6. CASE at.star # 0
  <2> DEFINE beyond == at.p - (at.star + 1)
  <2>1. /\ at.star < at.p /\ at.reached # 0 /\ at.n = at.reached + beyond
        /\ From(1, 1) <=> \E m \in at.reached..N + 1 : From(at.star + 1, m)
        /\ From(at.p, at.n) => From(at.star + 1, at.reached)
        /\ \A m \in at.reached..N + 1 : From(at.star + 1, m) => m + beyond <= N + 1 /\ From(at.p, m + beyond)
    BY <1>1, <1>6 DEF Keeps, Compared
  <2> DEFINE further == at.p + 1 - (at.star + 1)
  <2>2. further = beyond + 1 /\ beyond \in Nat /\ at.star < at.p + 1 /\ at.n + 1 = at.reached + further
    <3>1. at.p \in Nat /\ at.star \in Nat /\ at.star + 1 <= at.p /\ at.reached \in Nat
      BY <1>1, <2>1
    <3>2. further = beyond + 1 /\ beyond \in Nat /\ at.star < at.p + 1
      BY <3>1
    <3> HIDE DEF beyond, further
    <3> QED
      BY <2>1, <3>1, <3>2
  <2>3. ASSUME NEW m \in at.reached..N + 1, From(at.star + 1, m)
        PROVE  m + further <= N + 1 /\ From(at.p + 1, m + further)
    <3>1. m + beyond <= N + 1 /\ From(at.p, m + beyond)
      BY <2>1, <2>3
    <3>2. m + beyond \in 1..N + 1 /\ m + beyond + 1 = m + further
      <4>1. m \in Nat /\ m >= 1
        BY <1>1, <2>1
      <4> HIDE DEF beyond, further
      <4> QED
        BY <1>1, <2>2, <3>1, <4>1
    <3>3. m + beyond <= N /\ From(at.p + 1, m + beyond + 1)
      BY <1>1, <3>1, <3>2, ALetterDescribes
    <3>4. m + further <= N + 1
      BY <1>1, <3>2, <3>3
    <3> QED
      BY <3>2, <3>3, <3>4
  <2>4. Compared(pattern, name, at.p + 1, at.n + 1, at.star, at.reached, further)
    <3> SUFFICES /\ at.star < at.p + 1 /\ at.reached # 0 /\ at.n + 1 = at.reached + further
                 /\ From(1, 1) <=> \E m \in at.reached..N + 1 : From(at.star + 1, m)
                 /\ From(at.p + 1, at.n + 1) => From(at.star + 1, at.reached)
                 /\ \A m \in at.reached..N + 1 : From(at.star + 1, m) => m + further <= N + 1 /\ From(at.p + 1, m + further)
      BY DEF Compared
    <3> HIDE DEF beyond, further
    <3> QED
      BY <1>4, <2>1, <2>2, <2>3
  <2>5. Compared(pattern, name, to.p, to.n, to.star, to.reached, to.p - (to.star + 1))
    <3>1. to.p - (to.star + 1) = further
      <4>1. at.p \in Nat /\ at.star \in Nat /\ to.p = at.p + 1 /\ to.star = at.star
        BY <1>1, <1>3
      <4> QED
        BY <4>1
    <3> HIDE DEF beyond, further
    <3> QED
      BY <1>3, <2>4, <3>1
  <2> QED
    BY <1>2, <1>3, <1>6, <2>5 DEF Keeps
<1> QED
  BY <1>5, <1>6

LEMMA WideningKeeps ==
    ASSUME NEW pattern, NEW name, Len(pattern) \in Nat, Len(name) \in Nat, NEW at, Keeps(at, pattern, name),
           ~Call!GlobEnds(at, name), ~(at.p <= Len(pattern) /\ pattern[at.p] = "*"),
           ~Call!Literal(pattern, at.p, name, at.n)
    PROVE  Keeps(Call!Widen(at, pattern, name), pattern, name)
<1> DEFINE P == Len(pattern)
           N == Len(name)
           From(p, n) == Call!DescribesFrom(pattern, name, p, n)
<1>1. /\ at \in Globs(P, N) /\ P \in Nat /\ N \in Nat /\ at.p \in 1..P + 1 /\ at.n \in 1..N /\ at.n \in 1..N + 1
      /\ at.star \in 0..P /\ at.reached \in 0..N + 1 /\ at.failed = FALSE /\ at.n # N + 1
  BY DEF Keeps, Globs, Call!GlobEnds
<1>2. ~From(at.p, at.n)
  <2>1. CASE at.p = P + 1
    BY <1>1, <2>1, NothingLeft
  <2>2. CASE at.p # P + 1
    <3>1. at.p \in 1..P /\ pattern[at.p] # "*" /\ pattern[at.p] \notin {"?", name[at.n]}
      BY <1>1, <2>2 DEF Call!Literal
    <3> QED
      BY <1>1, <3>1, ALetterDescribes
  <2> QED
    BY <2>1, <2>2
<1>3. CASE at.star = 0
  <2> DEFINE to == [p |-> at.p, n |-> at.n, star |-> at.star, reached |-> at.reached, failed |-> TRUE]
  <2>1. Call!Widen(at, pattern, name) = to
    BY <1>1, <1>3 DEF Call!Widen, Globs
  <2>2. to.failed = TRUE /\ to \in Globs(P, N)
    BY <1>1 DEF Globs
  <2> HIDE DEF to
  <2>3. ~From(1, 1)
    BY <1>1, <1>2, <1>3 DEF Keeps
  <2> QED
    BY <2>1, <2>2, <2>3 DEF Keeps
<1>4. CASE at.star # 0
  <2> DEFINE beyond == at.p - (at.star + 1)
             to == [p |-> at.star + 1, n |-> at.reached + 1, star |-> at.star, reached |-> at.reached + 1, failed |-> at.failed]
  <2>1. /\ at.star < at.p /\ at.reached # 0 /\ at.n = at.reached + beyond
        /\ From(1, 1) <=> \E m \in at.reached..N + 1 : From(at.star + 1, m)
        /\ \A m \in at.reached..N + 1 : From(at.star + 1, m) => m + beyond <= N + 1 /\ From(at.p, m + beyond)
    BY <1>1, <1>4 DEF Keeps, Compared
  <2>2. Call!Widen(at, pattern, name) = to
    BY <1>1, <1>4 DEF Call!Widen, Globs
  <2>3. /\ to.p = at.star + 1 /\ to.n = at.reached + 1 /\ to.star = at.star /\ to.reached = at.reached + 1 /\ to.failed = FALSE
        /\ at.reached \in 1..N /\ at.reached \in at.reached..N + 1 /\ at.star \in 1..P
    BY <1>1, <1>4, <2>1
  <2>4. to \in Globs(P, N)
    BY <1>1, <2>3 DEF Globs
  <2> HIDE DEF to
  <2>5. ~From(at.star + 1, at.reached)
    BY <1>2, <2>1, <2>3
  <2>6. From(1, 1) <=> \E m \in at.reached + 1..N + 1 : From(at.star + 1, m)
    <3>1. \A m \in at.reached..N + 1 : m # at.reached => m \in at.reached + 1..N + 1
      BY <1>1, <2>3
    <3>2. \A m \in at.reached + 1..N + 1 : m \in at.reached..N + 1
      BY <1>1, <2>3
    <3> QED
      BY <2>1, <2>5, <3>1, <3>2
  <2>7. /\ at.star + 1 - (at.star + 1) = 0 /\ at.star < at.star + 1 /\ at.reached + 1 # 0 /\ at.reached + 1 = at.reached + 1 + 0
        /\ at.star # 0 /\ \A m \in at.reached + 1..N + 1 : m + 0 = m /\ m <= N + 1
    BY <1>1, <2>3
  <2>8. Compared(pattern, name, at.star + 1, at.reached + 1, at.star, at.reached + 1, 0)
    <3> SUFFICES /\ at.star < at.star + 1 /\ at.reached + 1 # 0 /\ at.reached + 1 = at.reached + 1 + 0
                 /\ From(1, 1) <=> \E m \in at.reached + 1..N + 1 : From(at.star + 1, m)
                 /\ From(at.star + 1, at.reached + 1) => From(at.star + 1, at.reached + 1)
                 /\ \A m \in at.reached + 1..N + 1 : From(at.star + 1, m) => m + 0 <= N + 1 /\ From(at.star + 1, m + 0)
      BY DEF Compared
    <3> QED
      BY <2>6, <2>7
  <2>9. Compared(pattern, name, to.p, to.n, to.star, to.reached, to.p - (to.star + 1))
    BY <2>3, <2>7, <2>8
  <2> QED
    BY <2>2, <2>3, <2>4, <2>7, <2>9 DEF Keeps
<1> QED
  BY <1>3, <1>4

LEMMA KeptIsRight ==
    ASSUME NEW pattern, NEW name, Len(pattern) \in Nat, Len(name) \in Nat, GlobInv(pattern, name)
    PROVE  GlobIsRight(pattern, name)
<1> DEFINE P == Len(pattern)
           N == Len(name)
           From(p, n) == Call!DescribesFrom(pattern, name, p, n)
<1> SUFFICES ASSUME Call!GlobEnds(glob, name) PROVE Call!GlobMatches(glob, pattern) <=> From(1, 1)
  BY DEF GlobIsRight, Call!Describes
<1>1. /\ P \in Nat /\ N \in Nat /\ glob.p \in 1..P + 1 /\ glob.n \in 1..N + 1
      /\ glob.star \in 0..P /\ glob.reached \in 0..N + 1 /\ glob.failed \in BOOLEAN
  BY DEF GlobInv, Keeps, Globs
<1>2. CASE glob.failed
  BY <1>2 DEF GlobInv, Keeps, Call!GlobMatches
<1>3. CASE ~glob.failed
  <2>1. glob.n = N + 1
    BY <1>1, <1>3 DEF Call!GlobEnds
  <2>2. Call!GlobMatches(glob, pattern) <=> From(glob.p, glob.n)
    BY <1>1, <1>3, <2>1, StarsAreLeft DEF Call!GlobMatches
  <2>3. CASE glob.star = 0
    BY <1>3, <2>2, <2>3 DEF GlobInv, Keeps
  <2>4. CASE glob.star # 0
    <3> DEFINE beyond == glob.p - (glob.star + 1)
    <3>1. /\ glob.star < glob.p /\ glob.reached # 0 /\ glob.n = glob.reached + beyond
          /\ From(1, 1) <=> \E m \in glob.reached..N + 1 : From(glob.star + 1, m)
          /\ From(glob.p, glob.n) => From(glob.star + 1, glob.reached)
          /\ \A m \in glob.reached..N + 1 : From(glob.star + 1, m) => m + beyond <= N + 1 /\ From(glob.p, m + beyond)
      BY <1>3, <2>4 DEF GlobInv, Keeps, Compared
    <3>2. glob.reached \in glob.reached..N + 1
      BY <1>1
    <3>3. ASSUME NEW m \in glob.reached..N + 1, m + beyond <= N + 1 PROVE m + beyond = glob.n
      BY <1>1, <2>1, <3>1, <3>3
    <3> QED
      BY <2>2, <3>1, <3>2, <3>3
  <2> QED
    BY <2>3, <2>4
<1> QED
  BY <1>2, <1>3

(* Whatever the pattern and the name: where the loop ends, it says what    *)
(* the pattern says of the name, however often a star was widened on the   *)
(* way (config.rs, matches_glob).                                          *)
THEOREM GlobsSayWhatTheyMean ==
    ASSUME NEW CONSTANT Letters, NEW CONSTANT pattern \in Seq(Letters), NEW CONSTANT name \in Seq(Letters)
    PROVE  GlobSpec(pattern, name) => []GlobIsRight(pattern, name)
<1>0. Len(pattern) \in Nat /\ Len(name) \in Nat
  OBVIOUS
<1>1. glob = Call!GlobStart => GlobInv(pattern, name)
  BY <1>0 DEF GlobInv, Keeps, Globs, Call!GlobStart
<1>2. GlobInv(pattern, name) /\ [GlobNext(pattern, name)]_glob => GlobInv(pattern, name)'
  <2> SUFFICES ASSUME GlobInv(pattern, name), [GlobNext(pattern, name)]_glob PROVE Keeps(glob', pattern, name)
    BY DEF GlobInv
  <2>1. Keeps(glob, pattern, name)
    BY DEF GlobInv
  <2>2. CASE GlobNext(pattern, name)
    <3>1. ~Call!GlobEnds(glob, name) /\ glob' = Call!Widen(glob, pattern, name)
      BY <2>2 DEF GlobNext
    <3>2. Keeps(Call!Widen(glob, pattern, name), pattern, name)
      BY <1>0, <2>1, <3>1, StarKeeps, LetterKeeps, WideningKeeps
    <3> QED
      BY <3>1, <3>2
  <2>3. CASE glob' = glob
    BY <2>1, <2>3
  <2> QED
    BY <2>2, <2>3
<1>3. GlobInv(pattern, name) => GlobIsRight(pattern, name)
  BY <1>0, KeptIsRight
<1> QED
  BY <1>1, <1>2, <1>3, PTL DEF GlobSpec

-----------------------------------------------------------------------------
(* The token a server sees (Dialing).                                      *)

(* What a dial sent: nothing, one token, or a second one after a challenge. *)
LEMMA OneToken ==
    ASSUME NEW a
    PROVE  /\ Append(<<>>, a) = <<a>> /\ Len(<<a>>) = 1 /\ <<a>> # <<>>
           /\ Call!Last(<<a>>) = a /\ Call!ToSet(<<a>>) = {a}
<1>1. Append(<<>>, a) = <<a>> /\ Len(<<a>>) = 1 /\ <<a>> # <<>>
  OBVIOUS
<1>2. Call!Last(<<a>>) = a
  BY DEF Call!Last
<1>3. Call!ToSet(<<a>>) = {a}
  BY DEF Call!ToSet
<1> QED
  BY <1>1, <1>2, <1>3

LEMMA TwoTokens ==
    ASSUME NEW a, NEW b
    PROVE  /\ Append(<<a>>, b) = <<a, b>> /\ Len(<<a, b>>) = 2 /\ <<a, b>> # <<>>
           /\ Call!Last(<<a, b>>) = b /\ Call!ToSet(<<a, b>>) = {a, b}
<1>1. Append(<<a>>, b) = <<a, b>>
  <2> DEFINE s == Append(<<a>>, b)
  <2> SUFFICES s = <<a, b>>
    OBVIOUS
  <2>1. <<a>> \in Seq({a, b}) /\ Len(<<a>>) = 1
    OBVIOUS
  <2>2. s \in Seq({a, b}) /\ Len(s) = 2 /\ s[1] = a /\ s[2] = b
    BY <2>1
  <2>3. <<a, b>> \in Seq({a, b}) /\ Len(<<a, b>>) = 2
    OBVIOUS
  <2>4. \A i \in 1..Len(s) : s[i] = <<a, b>>[i]
    <3> HIDE DEF s
    <3> QED
      BY <2>2
  <2> HIDE DEF s
  <2> QED
    BY <2>2, <2>3, <2>4, SeqEqual
<1>2. Len(<<a, b>>) = 2 /\ <<a, b>> # <<>>
  OBVIOUS
<1>3. Call!Last(<<a, b>>) = b
  BY DEF Call!Last
<1>4. Call!ToSet(<<a, b>>) = {a, b}
  BY DEF Call!ToSet
<1> QED
  BY <1>1, <1>2, <1>3, <1>4

(* Servers as they are saved and behave, and the flags of a command.       *)
Servers(Tokens, Words) ==
    {peer \in [stdio : BOOLEAN, accepts : SUBSET Tokens, refuses : [kind : Words, challenge : BOOLEAN],
                 grants : BOOLEAN, expands : BOOLEAN, saved : BOOLEAN, daemon : BOOLEAN, lists : BOOLEAN,
                 credential : [kind : {"none", "oauth"}, token : Tokens, expired : BOOLEAN, refreshes : BOOLEAN],
                 tokenEnv : Tokens, version : Words, timeout : Words] :
        peer.refuses.kind # "none"}
Flags(Tokens, Words) == [version : Words, timeout : Words, tokenEnv : Tokens, noDaemon : BOOLEAN]

(* How a dial can end. *)
EndsAs(peer, flags, d) ==
    LET picked == Call!SelectToken(peer, flags)
        Shook(sent, token, auth) ==
            /\ d.sent = sent /\ d.auth = auth
            /\ \/ d.error = Call!NoRefusal /\ token \in peer.accepts
               \/ d.error = peer.refuses
        sound == peer.expands /\ Call!SettingsAreSound(peer, flags)
    IN \/ d = Call!Failure("config", <<>>, "none") /\ ~sound
       \/ sound /\ peer.stdio /\ \E token \in {"socket", "process"} : Shook(<<token>>, token, "none")
       \/ sound /\ ~peer.stdio /\ \E kind \in {"usage", "auth"} : d = Call!Failure(kind, <<>>, "none")
       \/ /\ sound /\ ~peer.stdio
          /\ d = Call!Failure("auth", <<picked.token>>, "none") \/ Shook(<<picked.token>>, picked.token, picked.auth)
       \/ /\ sound /\ ~peer.stdio /\ picked.auth = "saved" /\ Call!CanRefresh(peer.credential)
          /\ Shook(<<picked.token, "renewed">>, "renewed", "saved")

LEMMA DialEnds ==
    ASSUME NEW Tokens, NEW Words, NEW peer \in Servers(Tokens, Words), NEW flags \in Flags(Tokens, Words)
    PROVE  EndsAs(peer, flags, Call!Dial(peer, flags))
<1> DEFINE picked == Call!SelectToken(peer, flags)
           d == Call!Dial(peer, flags)
           sound == peer.expands /\ Call!SettingsAreSound(peer, flags)
           first == Call!Handshake(peer, picked.token, <<>>, picked.auth)
<1> SUFFICES EndsAs(peer, flags, d)
  OBVIOUS
<1>1. CASE ~sound
  <2>1. d = Call!Failure("config", <<>>, "none")
    BY <1>1 DEF Call!Dial
  <2> HIDE DEF d
  <2> QED
    BY <1>1, <2>1 DEF EndsAs
<1>2. CASE sound /\ peer.stdio
  <2>1. PICK token \in {"socket", "process"} : d = Call!Handshake(peer, token, <<>>, "none")
    BY <1>2 DEF Call!Dial
  <2>2. /\ d.sent = <<token>> /\ d.auth = "none"
        /\ \/ d.error = Call!NoRefusal /\ token \in peer.accepts
           \/ d.error = peer.refuses
    <3> HIDE DEF d
    <3> QED
      BY <2>1, OneToken DEF Call!Handshake
  <2> HIDE DEF d
  <2> QED
    BY <1>2, <2>2 DEF EndsAs
<1>3. CASE sound /\ ~peer.stdio
  <2> DEFINE again == Call!IsAuthChallenge(first.error) /\ picked.auth = "saved" /\ Call!CanRefresh(peer.credential)
  <2>1. d = IF picked.token = "unset" THEN Call!Failure("usage", <<>>, "none")
            ELSE IF picked.token = "refused" THEN Call!Failure("auth", <<>>, "none")
            ELSE IF again
            THEN IF peer.grants THEN Call!Handshake(peer, "renewed", first.sent, "saved")
                 ELSE Call!Failure("auth", first.sent, "none")
            ELSE first
    BY <1>3 DEF Call!Dial
  <2>2. /\ first.sent = <<picked.token>> /\ first.auth = picked.auth
        /\ \/ first.error = Call!NoRefusal /\ picked.token \in peer.accepts
           \/ first.error = peer.refuses
    <3> HIDE DEF picked
    <3> QED
      BY OneToken DEF Call!Handshake
  <2> HIDE DEF first, d, picked
  <2>3. CASE d = Call!Failure("usage", <<>>, "none") \/ d = Call!Failure("auth", <<>>, "none")
    BY <1>3, <2>3 DEF EndsAs
  <2>4. CASE d = first
    BY <1>3, <2>2, <2>4 DEF EndsAs, picked
  <2>5. CASE d = Call!Failure("auth", first.sent, "none")
    BY <1>3, <2>2, <2>5 DEF EndsAs, picked
  <2>6. CASE again /\ d = Call!Handshake(peer, "renewed", first.sent, "saved")
    <3>1. /\ d.sent = <<picked.token, "renewed">> /\ d.auth = "saved"
          /\ \/ d.error = Call!NoRefusal /\ "renewed" \in peer.accepts
             \/ d.error = peer.refuses
      BY <2>2, <2>6, TwoTokens DEF Call!Handshake
    <3> QED
      BY <1>3, <2>6, <3>1 DEF EndsAs, picked
  <2> QED
    BY <2>1, <2>3, <2>4, <2>5, <2>6
<1> QED
  BY <1>1, <1>2, <1>3

LEMMA WhatIsPicked ==
    ASSUME NEW Tokens, NEW Words, NEW peer \in Servers(Tokens, Words), NEW flags \in Flags(Tokens, Words)
    PROVE  LET picked == Call!SelectToken(peer, flags)
               env == Call!Chosen(flags.tokenEnv, peer.tokenEnv)
           IN /\ env # "none" => picked.token = env /\ picked.auth = "env"
              /\ env = "none" /\ peer.credential.kind = "none" => picked.token = "none" /\ picked.auth = "none"
              /\ env = "none" /\ Call!HasToken(peer.credential) => picked.token # "none"
              /\ picked.auth \in {"env", "none", "saved"}
  BY DEF Servers, Flags, Call!SelectToken, Call!Chosen, Call!HasToken, Call!CanRefresh

(* Whatever is saved of a peer, whatever tokens it accepts and however it *)
(* refuses the others: a setting that cannot be sent sends nothing; a token *)
(* of the environment is the only one its peer sees; a saved one is       *)
(* renewed once at most, after a challenge; and what ls shows of the peer *)
(* is whose fault its refusal was (client.rs, dial and classify).           *)
THEOREM EachSeesItsOwnToken ==
    ASSUME NEW Tokens, NEW Words, NEW peer \in Servers(Tokens, Words), NEW flags \in Flags(Tokens, Words)
    PROVE  Call!StatusIsTheirs(peer, flags)
<1> DEFINE d == Call!Dial(peer, flags)
           p == Call!Probe(peer, flags)
           picked == Call!SelectToken(peer, flags)
           env == Call!Chosen(flags.tokenEnv, peer.tokenEnv)
           had == Call!HadCredential(peer, flags)
           sound == peer.expands /\ Call!SettingsAreSound(peer, flags)
           refused(kind) == Call!Refusal(kind, FALSE)
           offered == d.sent # <<>> /\ Call!Last(d.sent) # "none"
           Ended(sent, auth) ==
               /\ d.sent = sent /\ d.auth = auth
               /\ \/ d.error = Call!NoRefusal /\ Call!Last(sent) \in peer.accepts
                  \/ d.error = peer.refuses
           Failed == \/ d.error = refused("usage") /\ d.sent = <<>>
                     \/ d.error = refused("auth") /\ (d.sent = <<>> \/ d.sent = <<picked.token>>)
<1>1. /\ peer.refuses.kind # "none" /\ peer.refuses.challenge \in BOOLEAN /\ peer.stdio \in BOOLEAN
      /\ peer.expands \in BOOLEAN /\ peer.lists \in BOOLEAN /\ peer.credential.kind \in {"none", "oauth"}
  BY DEF Servers
<1>2. \/ ~sound /\ d.error = refused("config") /\ d.sent = <<>> /\ d.auth = "none"
      \/ sound /\ peer.stdio /\ \E token \in {"socket", "process"} : Ended(<<token>>, "none")
      \/ sound /\ ~peer.stdio /\ Failed /\ d.auth = "none"
      \/ sound /\ ~peer.stdio /\ Ended(<<picked.token>>, picked.auth)
      \/ sound /\ ~peer.stdio /\ Ended(<<picked.token, "renewed">>, "saved") /\ picked.auth = "saved"
  <2>1. EndsAs(peer, flags, d)
    BY DialEnds
  <2> HIDE DEF d, picked
  <2>2. CASE d = Call!Failure("config", <<>>, "none") /\ ~sound
    BY <2>2 DEF Call!Failure
  <2>3. CASE /\ sound /\ peer.stdio
             /\ \E token \in {"socket", "process"} :
                   /\ d.sent = <<token>> /\ d.auth = "none"
                   /\ \/ d.error = Call!NoRefusal /\ token \in peer.accepts
                      \/ d.error = peer.refuses
    BY <2>3, OneToken
  <2>4. CASE sound /\ ~peer.stdio /\ \E kind \in {"usage", "auth"} : d = Call!Failure(kind, <<>>, "none")
    <3>1. PICK kind \in {"usage", "auth"} : d = Call!Failure(kind, <<>>, "none")
      BY <2>4
    <3>2. d.error = refused(kind) /\ d.sent = <<>> /\ d.auth = "none"
      BY <3>1 DEF Call!Failure
    <3> HIDE DEF refused
    <3> QED
      BY <2>4, <3>2
  <2>5. CASE sound /\ ~peer.stdio /\ d = Call!Failure("auth", <<picked.token>>, "none")
    BY <2>5 DEF Call!Failure
  <2>6. CASE /\ sound /\ ~peer.stdio /\ d.sent = <<picked.token>> /\ d.auth = picked.auth
             /\ \/ d.error = Call!NoRefusal /\ picked.token \in peer.accepts
                \/ d.error = peer.refuses
    BY <2>6, OneToken
  <2>7. CASE /\ sound /\ ~peer.stdio /\ picked.auth = "saved"
             /\ d.sent = <<picked.token, "renewed">> /\ d.auth = "saved"
             /\ \/ d.error = Call!NoRefusal /\ "renewed" \in peer.accepts
                \/ d.error = peer.refuses
    BY <2>7, TwoTokens
  <2> QED
    BY <2>1, <2>2, <2>3, <2>4, <2>5, <2>6, <2>7, Zenon DEF EndsAs, picked
<1>3. /\ env # "none" => picked.token = env /\ picked.auth = "env"
      /\ env = "none" /\ peer.credential.kind = "none" => picked.token = "none" /\ picked.auth = "none"
      /\ env = "none" /\ Call!HasToken(peer.credential) => picked.token # "none"
  BY WhatIsPicked
<1>4. had <=> env # "none" \/ Call!HasToken(peer.credential)
  BY DEF Call!HadCredential, Call!Chosen
<1>5. p = [status |-> IF d.error # Call!NoRefusal THEN Call!Classify(d.error, had)
                      ELSE IF peer.lists THEN "connected" ELSE "error",
           auth |-> IF d.error = Call!NoRefusal THEN d.auth ELSE "none"]
  BY DEF Call!Probe
<1>6. peer.refuses # Call!NoRefusal /\ \A kind \in {"config", "usage", "auth"} : refused(kind) # Call!NoRefusal
  BY <1>1 DEF Call!NoRefusal, Call!Refusal
<1>7. \A kind \in {"config", "usage", "auth"} : Call!Classify(refused(kind), had) = "error"
  BY DEF Call!Classify, Call!Refusal
<1> HIDE DEF d, p, picked, env, had, refused
<1>8. ~sound => d.sent = <<>> /\ p.status = "error"
  BY <1>2, <1>5, <1>6, <1>7
<1>9. Len(d.sent) <= 2
  <2>1. Len(<<>>) = 0 /\ 0 <= 2 /\ 1 <= 2 /\ 2 <= 2
    OBVIOUS
  <2>2. \/ d.sent = <<>> \/ d.sent = <<"socket">> \/ d.sent = <<"process">>
        \/ d.sent = <<picked.token>> \/ d.sent = <<picked.token, "renewed">>
    BY <1>2
  <2>3. \A a : Len(<<a>>) = 1 /\ Len(<<a, "renewed">>) = 2
    BY OneToken, TwoTokens
  <2> QED
    BY <2>1, <2>2, <2>3, Zenon
<1>10. peer.stdio => d.auth = "none" /\ Call!ToSet(d.sent) \subseteq {"socket", "process"}
  <2>1. Call!ToSet(<<>>) = {}
    BY DEF Call!ToSet
  <2> QED
    BY <1>2, <2>1, OneToken
<1>11. env # "none" /\ ~peer.stdio => Call!ToSet(d.sent) \subseteq {env}
  <2>1. Call!ToSet(<<>>) = {}
    BY DEF Call!ToSet
  <2> QED
    BY <1>2, <1>3, <2>1, OneToken
<1>12. p.status = "connected" => d.sent # <<>> /\ Call!Last(d.sent) \in peer.accepts
  <2>1. \A e : Call!Classify(e, had) # "connected"
    BY DEF Call!Classify
  <2> QED
    BY <1>2, <1>5, <1>6, <2>1, OneToken, TwoTokens
<1>13. d.error # Call!NoRefusal => p.auth = "none"
  BY <1>5
\* What was refused, and how it was refused.
<1>14. ASSUME ~peer.stdio, p.status \in {"token rejected", "auth required", "blocked"}
       PROVE  /\ d.error = peer.refuses /\ p.status = Call!Classify(peer.refuses, had)
              /\ \/ d.sent = <<picked.token>>
                 \/ d.sent = <<picked.token, "renewed">> /\ env = "none"
  <2>1. d.error = Call!NoRefusal => p.status \in {"connected", "error"}
    BY <1>5
  <2>2. d.error # Call!NoRefusal => p.status = Call!Classify(d.error, had)
    BY <1>5
  <2>3. \A kind \in {"config", "usage", "auth"} : d.error # refused(kind)
    BY <1>6, <1>7, <1>14, <2>2
  <2>4. d.error # Call!NoRefusal
    BY <1>14, <2>1
  <2> QED
    BY <1>2, <1>3, <1>14, <2>2, <2>3, <2>4
<1>15. ~peer.stdio /\ p.status = "token rejected" => offered
  <2>1. Call!Classify(peer.refuses, had) = "token rejected" => had
    BY DEF Call!Classify
  <2> QED
    <3> SUFFICES ASSUME ~peer.stdio, p.status = "token rejected" PROVE offered
      OBVIOUS
    <3>1. had /\ (d.sent = <<picked.token>> \/ d.sent = <<picked.token, "renewed">>)
      BY <1>14, <2>1
    <3>2. picked.token # "none"
      BY <1>3, <1>4, <3>1
    <3>3. <<picked.token>> # <<>> /\ Call!Last(<<picked.token>>) = picked.token
      BY OneToken
    <3>4. <<picked.token, "renewed">> # <<>> /\ Call!Last(<<picked.token, "renewed">>) = "renewed"
      BY TwoTokens
    <3> QED
      BY <3>1, <3>2, <3>3, <3>4
<1>16. ~peer.stdio /\ p.status = "auth required" =>
          ~offered \/ (peer.credential.kind # "none" /\ ~Call!HasToken(peer.credential))
  <2>1. Call!Classify(peer.refuses, had) = "auth required" => ~had
    BY DEF Call!Classify
  <2> QED
    BY <1>2, <1>3, <1>4, <1>14, <2>1, OneToken, TwoTokens
<1>17. p.status = "blocked" => ~peer.refuses.challenge
  <2>1. Call!Classify(peer.refuses, had) = "blocked" => ~peer.refuses.challenge
    BY DEF Call!Classify, Call!IsAuthChallenge
  <2>2. p.status = "blocked" => d.error = peer.refuses
    BY <1>2, <1>5, <1>6, <1>7
  <2> QED
    BY <1>5, <1>6, <2>1, <2>2
<1> QED
  BY <1>8, <1>9, <1>10, <1>11, <1>12, <1>13, <1>15, <1>16, <1>17
     DEF Call!StatusIsTheirs, d, p, env

-----------------------------------------------------------------------------
(* A saved server filled in, and a row shown of it (Dialing).              *)

(* What the texts of a saved server are of: words, and references to a     *)
(* variable.                                                               *)
IsPiece(piece) == (\E w : piece = Call!Word(w)) \/ \E v, d : v # "" /\ piece = Call!Reference(v, d)

(* The fields of a server that hold a variable nothing is said of.         *)
LeftOpen(config, env, f) == f \in DOMAIN config.fields /\ \E i \in DOMAIN config.fields[f] : Call!IsUnset(config.fields[f][i], env)

FilledIn(config, env) ==
    [f \in DOMAIN config.fields |-> [i \in DOMAIN config.fields[f] |-> Call!Fill(config.fields[f][i], env)]]

(* Either every field is filled in, or the field is named that is not.     *)
FilledOrNamed(config, env, e) ==
    \/ /\ e.ok /\ \A k \in 1..5 : ~LeftOpen(config, env, Call!FieldOrder[k])
       /\ e.config = [config EXCEPT !.fields = FilledIn(config, env)]
       /\ e = [ok |-> TRUE, fails |-> "", config |-> [config EXCEPT !.fields = FilledIn(config, env)]]
    \/ ~e.ok /\ \E k \in 1..5 : LeftOpen(config, env, Call!FieldOrder[k]) /\ e.fails = Call!FieldOrder[k]

LEMMA ExpandedIsFilled ==
    ASSUME NEW config, NEW env
    PROVE  FilledOrNamed(config, env, Call!Expanded(config, env))
<1> DEFINE Open == {k \in 1..Len(Call!FieldOrder) : LeftOpen(config, env, Call!FieldOrder[k])}
           at == IF Open # {} THEN Call!Min(Open) ELSE 0
<1>1. Len(Call!FieldOrder) = 5
  BY DEF Call!FieldOrder
<1>2. Call!Expanded(config, env) =
        IF at > 0 THEN [ok |-> FALSE, fails |-> Call!FieldOrder[at], config |-> config]
        ELSE [ok |-> TRUE, fails |-> "", config |-> [config EXCEPT !.fields = FilledIn(config, env)]]
  BY DEF Call!Expanded, Call!SelectInSeq, LeftOpen, FilledIn
<1>3. CASE Open = {}
  <2>1. \A k \in 1..5 : ~LeftOpen(config, env, Call!FieldOrder[k])
    BY <1>1, <1>3
  <2>2. ~(at > 0)
    BY <1>3
  <2> HIDE DEF at
  <2> DEFINE e == Call!Expanded(config, env)
  <2>3. e = [ok |-> TRUE, fails |-> "", config |-> [config EXCEPT !.fields = FilledIn(config, env)]]
    BY <1>2, <2>2
  <2> HIDE DEF e
  <2>4. e.ok /\ e.config = [config EXCEPT !.fields = FilledIn(config, env)]
    BY <2>3
  <2>5. FilledOrNamed(config, env, e)
    BY <2>1, <2>3, <2>4 DEF FilledOrNamed
  <2> QED
    BY <2>5 DEF e
<1>4. CASE Open # {}
  <2>1. Open \subseteq Nat
    BY <1>1
  <2>2. \E k \in Open : \A m \in Open : k <= m
    <3> HIDE DEF Open
    <3> QED
      BY <1>4, <2>1, LeastExists
  <2>3. at \in Open
    <3>1. at = CHOOSE k \in Open : \A m \in Open : k <= m
      BY <1>4 DEF Call!Min
    <3> HIDE DEF Open, at
    <3> QED
      BY <2>2, <3>1
  <2>4. at \in 1..5 /\ LeftOpen(config, env, Call!FieldOrder[at])
    <3> HIDE DEF at
    <3> QED
      BY <1>1, <2>3
  <2> HIDE DEF at
  <2>5. at > 0
    BY <2>4
  <2> DEFINE e == Call!Expanded(config, env)
  <2>6. e = [ok |-> FALSE, fails |-> Call!FieldOrder[at], config |-> config]
    BY <1>2, <2>5
  <2> HIDE DEF e
  <2>7. ~e.ok /\ e.fails = Call!FieldOrder[at]
    BY <2>6
  <2>8. FilledOrNamed(config, env, e)
    BY <2>4, <2>7 DEF FilledOrNamed
  <2> QED
    BY <2>8 DEF e
<1> QED
  BY <1>3, <1>4

(* Every field there is is one of those that are gone through.             *)
LEMMA FieldsInOrder ==
    ASSUME NEW f \in {"headers", "env", "http", "stdio", "cwd"}
    PROVE  \E k \in 1..5 : Call!FieldOrder[k] = f
  BY DEF Call!FieldOrder

LEMMA FilledByWords == \A piece, env : Call!Fill(piece, env).var = ""
<1>1. \A w : Call!Word(w).var = ""
  BY DEF Call!Word
<1> QED
  BY <1>1 DEF Call!Fill

(* Whatever is saved and whatever the environment says: all of it is filled *)
(* in, or the field is named that is not; it is filled in once for all; and *)
(* where add let a server in, its address has a scheme and its command a    *)
(* word, whatever its variables are set to (config.rs, expand and expanded; *)
(* validate.rs, location).                                                  *)
THEOREM SavedIsDialed ==
    ASSUME NEW Pieces, \A piece \in Pieces : IsPiece(piece),
           NEW Fields \in SUBSET {"headers", "env", "http", "stdio", "cwd"},
           NEW fields \in [Fields -> Seq(Pieces)], NEW env
    PROVE  Call!DialsWhatWasSaved([fields |-> fields], env)
<1> DEFINE config == [fields |-> fields]
           e == Call!Expanded(config, env)
<1>1. config.fields = fields /\ DOMAIN fields = Fields
  OBVIOUS
<1>2. ASSUME NEW f \in Fields, NEW i \in DOMAIN fields[f] PROVE fields[f][i] \in Pieces
  <2>1. fields[f] \in Seq(Pieces)
    OBVIOUS
  <2> DEFINE text == fields[f]
  <2> HIDE DEF text
  <2>2. text \in Seq(Pieces) /\ i \in DOMAIN text
    BY <2>1 DEF text
  <2>3. text[i] \in Pieces
    BY <2>2
  <2> QED
    BY <2>3 DEF text
<1>3. FilledOrNamed(config, env, e)
  BY ExpandedIsFilled
<1> HIDE DEF config
<1>4. ASSUME e.ok
      PROVE  /\ e = [ok |-> TRUE, fails |-> "", config |-> [fields |-> FilledIn(config, env)]]
             /\ e.config = [fields |-> FilledIn(config, env)] /\ e.config.fields = FilledIn(config, env)
  <2>1. /\ e = [ok |-> TRUE, fails |-> "", config |-> [config EXCEPT !.fields = FilledIn(config, env)]]
        /\ e.config = [config EXCEPT !.fields = FilledIn(config, env)]
    <3> HIDE DEF e
    <3> QED
      BY <1>3, <1>4 DEF FilledOrNamed
  <2>2. [config EXCEPT !.fields = FilledIn(config, env)] = [fields |-> FilledIn(config, env)]
    BY DEF config
  <2> HIDE DEF e
  <2> QED
    BY <2>1, <2>2
<1>5. /\ DOMAIN FilledIn(config, env) = Fields
      /\ \A f \in Fields : /\ DOMAIN FilledIn(config, env)[f] = DOMAIN fields[f]
                           /\ \A i \in DOMAIN fields[f] : FilledIn(config, env)[f][i] = Call!Fill(fields[f][i], env)
  BY <1>1 DEF FilledIn
<1>6. \A f \in Fields : \A i \in DOMAIN fields[f] : FilledIn(config, env)[f][i].var = ""
  <2> SUFFICES ASSUME NEW f \in Fields, NEW i \in DOMAIN fields[f] PROVE FilledIn(config, env)[f][i].var = ""
    OBVIOUS
  <2> DEFINE piece == fields[f][i]
  <2>1. FilledIn(config, env)[f][i] = Call!Fill(piece, env)
    BY <1>5
  <2> HIDE DEF piece
  <2>2. Call!Fill(piece, env).var = ""
    BY FilledByWords
  <2> QED
    BY <2>1, <2>2
<1>7. ASSUME e.ok PROVE \A f \in DOMAIN e.config.fields : \A i \in DOMAIN e.config.fields[f] : e.config.fields[f][i].var = ""
  <2>1. e.config.fields = FilledIn(config, env)
    BY <1>4, <1>7
  <2> HIDE DEF e
  <2> QED
    BY <1>5, <1>6, <2>1
<1>8. ASSUME ~e.ok PROVE \E i \in DOMAIN config.fields[e.fails] : Call!IsUnset(config.fields[e.fails][i], env)
  <2> HIDE DEF e
  <2> QED
    BY <1>3, <1>8 DEF FilledOrNamed, LeftOpen
<1>9. ASSUME e.ok PROVE Call!Expanded(e.config, <<>>) = e
  <2> DEFINE done == e.config
             again == Call!Expanded(done, <<>>)
  <2>1. done.fields = FilledIn(config, env) /\ done = [fields |-> FilledIn(config, env)]
    <3> HIDE DEF e
    <3> QED
      BY <1>4, <1>9
  <2>2. FilledOrNamed(done, <<>>, again)
    BY ExpandedIsFilled
  <2> HIDE DEF done
  <2>3. \A f : ~LeftOpen(done, <<>>, f)
    BY <1>5, <1>6, <2>1 DEF LeftOpen, Call!IsUnset
  <2>4. again = [ok |-> TRUE, fails |-> "", config |-> [done EXCEPT !.fields = FilledIn(done, <<>>)]]
    <3> HIDE DEF again
    <3> QED
      BY <2>2, <2>3 DEF FilledOrNamed
  <2>5. FilledIn(done, <<>>) = FilledIn(config, env)
    <3> DEFINE F == FilledIn(config, env)
    <3>1. \A f \in Fields : \A i \in DOMAIN fields[f] : F[f][i].var = ""
      BY <1>6
    <3>2. F = [f \in Fields |-> [i \in DOMAIN fields[f] |-> F[f][i]]]
      BY <1>1 DEF FilledIn
    <3>3. FilledIn(done, <<>>) = [f \in DOMAIN F |-> [i \in DOMAIN F[f] |-> Call!Fill(F[f][i], <<>>)]]
      BY <2>1 DEF FilledIn
    <3> HIDE DEF F
    <3>4. DOMAIN F = Fields /\ \A f \in Fields : DOMAIN F[f] = DOMAIN fields[f]
      BY <1>5 DEF F
    <3>5. \A f \in Fields : \A i \in DOMAIN fields[f] : Call!Fill(F[f][i], <<>>) = F[f][i]
      BY <3>1 DEF Call!Fill
    <3>6. FilledIn(done, <<>>) = [f \in Fields |-> [i \in DOMAIN fields[f] |-> F[f][i]]]
      BY <3>3, <3>4, <3>5
    <3> QED
      BY <3>2, <3>6 DEF F
  <2>6. [done EXCEPT !.fields = FilledIn(config, env)] = done
    BY <2>1
  <2>7. e = [ok |-> TRUE, fails |-> "", config |-> done]
    BY <1>4, <1>9, <2>1
  <2> HIDE DEF e, again
  <2>8. again = e
    BY <2>4, <2>5, <2>6, <2>7
  <2> QED
    BY <2>8 DEF again, done
<1>10. ASSUME Call!ValidateLocation(config), e.ok
       PROVE  /\ "http" \in DOMAIN config.fields => config.fields["http"][1] = Call!Word("http://")
              /\ "stdio" \in DOMAIN config.fields => config.fields["stdio"] # <<>>
  <2> DEFINE names == UNION {{t[i].var : i \in DOMAIN t} : t \in {config.fields[f] : f \in DOMAIN config.fields}}
             set == [v \in names |-> "var"]
             tried == Call!Expanded(config, set)
  <2>1. \A f \in Fields : \A i \in DOMAIN fields[f] : fields[f][i].var \in names
    BY <1>1
  <2>2. \A f : ~LeftOpen(config, set, f)
    BY <1>1, <2>1 DEF LeftOpen, Call!IsUnset
  <2>3. FilledOrNamed(config, set, tried)
    BY ExpandedIsFilled
  <2>4. tried = [ok |-> TRUE, fails |-> "", config |-> [config EXCEPT !.fields = FilledIn(config, set)]]
    <3> HIDE DEF tried, set
    <3> QED
      BY <2>2, <2>3 DEF FilledOrNamed
  <2>5. tried.config.fields = FilledIn(config, set)
    <3>1. tried.config = [config EXCEPT !.fields = FilledIn(config, set)]
      <4> HIDE DEF tried, set
      <4> QED
        BY <2>4
    <3>2. [config EXCEPT !.fields = FilledIn(config, set)].fields = FilledIn(config, set)
      BY DEF config
    <3> HIDE DEF tried, set
    <3> QED
      BY <3>1, <3>2
  <2>6. /\ "http" \in DOMAIN tried.config.fields => Call!HasScheme(tried.config.fields["http"])
        /\ "stdio" \in DOMAIN tried.config.fields => Call!NamesACommand(tried.config.fields["stdio"])
    BY <1>10 DEF Call!ValidateLocation
  <2>7. /\ DOMAIN FilledIn(config, set) = Fields
        /\ \A f \in Fields : /\ DOMAIN FilledIn(config, set)[f] = DOMAIN fields[f]
                             /\ \A i \in DOMAIN fields[f] : FilledIn(config, set)[f][i] = Call!Fill(fields[f][i], set)
    BY <1>1 DEF FilledIn
  <2> HIDE DEF tried
  <2>8. ASSUME "http" \in Fields PROVE fields["http"][1] = Call!Word("http://")
    <3> DEFINE text == FilledIn(config, set)["http"]
               piece == fields["http"][1]
    <3>1. text # <<>> /\ text[1].word = "http://"
      BY <2>5, <2>6, <2>7, <2>8 DEF Call!HasScheme
    <3>2. 1 \in DOMAIN fields["http"]
      <4>1. fields["http"] \in Seq(Pieces)
        BY <2>8
      <4>2. fields["http"] # <<>>
        <5> SUFFICES ASSUME fields["http"] = <<>> PROVE FALSE
          OBVIOUS
        <5>1. text = [i \in DOMAIN fields["http"] |-> Call!Fill(fields["http"][i], set)]
          BY <1>1, <2>8 DEF FilledIn
        <5>2. text = <<>>
          BY <5>1
        <5> QED
          BY <3>1, <5>2
      <4> QED
        BY <4>1, <4>2
    <3>3. piece \in Pieces /\ piece.var \in names
      BY <1>2, <2>1, <2>8, <3>2
    <3>4. text[1] = Call!Fill(piece, set)
      BY <2>7, <2>8, <3>2
    <3> HIDE DEF text, piece, names
    <3>5. piece.var = ""
      <4> SUFFICES ASSUME piece.var # "" PROVE FALSE
        OBVIOUS
      <4>1. piece.var \in DOMAIN set /\ set[piece.var] = "var"
        BY <3>3
      <4> HIDE DEF set
      <4>2. text[1] = Call!Word("var")
        BY <3>4, <4>1 DEF Call!Fill
      <4> QED
        <5>1. Call!Word("var").word = "var"
          BY DEF Call!Word
        <5> QED
          BY <3>1, <4>2, <5>1
    <3>6. piece.word = "http://"
      BY <3>1, <3>4, <3>5 DEF Call!Fill
    <3>7. piece = Call!Word("http://")
      <4>1. ASSUME NEW w, piece = Call!Word(w) PROVE piece = Call!Word("http://")
        <5>1. Call!Word(w).word = w
          BY DEF Call!Word
        <5> QED
          BY <3>6, <4>1, <5>1
      <4>2. ASSUME NEW v, v # "", NEW d, piece = Call!Reference(v, d) PROVE FALSE
        BY <3>5, <4>2 DEF Call!Reference
      <4>3. (\E w : piece = Call!Word(w)) \/ \E v, d : v # "" /\ piece = Call!Reference(v, d)
        BY <3>3 DEF IsPiece
      <4>4. CASE \E w : piece = Call!Word(w)
        BY <4>1, <4>4
      <4>5. CASE \E v, d : v # "" /\ piece = Call!Reference(v, d)
        BY <4>2, <4>5
      <4> QED
        BY <4>3, <4>4, <4>5
    <3> QED
      BY <3>7 DEF piece
  <2>9. ASSUME "stdio" \in Fields PROVE fields["stdio"] # <<>>
    <3>1. \E i \in DOMAIN FilledIn(config, set)["stdio"] : TRUE
      BY <2>5, <2>6, <2>7, <2>9 DEF Call!NamesACommand
    <3> QED
      BY <2>7, <2>9, <3>1
  <2> QED
    BY <1>1, <2>8, <2>9
<1> HIDE DEF e
<1>11. Call!DialsWhatWasSaved(config, env)
  BY <1>7, <1>8, <1>9, <1>10 DEF Call!DialsWhatWasSaved, e
<1> QED
  BY <1>11 DEF config

(* What is noted of a server, and what a probe of it may come to.          *)
Statuses == {"connected", "auth required", "token rejected", "blocked", "http", "legacy sse", "unreachable", "error"}
StatusNotes(Keys, Auths) == [key : Keys, status : Statuses, auth : Auths, checked : Nat]

(* Whatever is noted under a name, and however old: a row that is shown     *)
(* without dialing is of this very server and of less than the time a       *)
(* status lasts ago, what was dialed reads back as it was noted, and what   *)
(* status says is what ls says (client.rs, row and saved_row).              *)
THEOREM RowsAreTheirs ==
    ASSUME NEW Keys, NEW Auths, NEW key \in Keys, NEW now \in Nat, NEW live \in BOOLEAN,
           NEW records \in {{}} \cup {{n} : n \in StatusNotes(Keys, Auths)},
           NEW fresh \in [status : Statuses, auth : Auths]
    PROVE  Call!RowsAreOfThisServer(records, key, now, fresh, live)
<1> DEFINE r == Call!Row(records, key, now, fresh, live)
           s == Call!SavedRow(records, key, now)
<1>1. ASSUME NEW n \in StatusNotes(Keys, Auths), n.key = key
      PROVE  /\ Call!Remembered(n, now) # Call!NoRow
             /\ Call!Record(Call!Remembered(n, now), key) = n
             /\ now - n.checked < Call!StatusTtl => Call!Remembered(n, now).age < Call!StatusTtl
  <2>1. /\ n.status \in Statuses /\ n.checked \in Nat
        /\ n = [key |-> n.key, status |-> n.status, auth |-> n.auth, checked |-> n.checked]
    BY DEF StatusNotes
  <2>2. n.status # "unread"
    BY <2>1 DEF Statuses
  <2>3. Call!Remembered(n, now) = [status |-> n.status, auth |-> n.auth, checked |-> n.checked,
                                   age |-> IF now > n.checked THEN now - n.checked ELSE 0]
    BY <2>2 DEF Call!Remembered
  <2>4. Call!Remembered(n, now) # Call!NoRow
    BY <2>2, <2>3 DEF Call!NoRow
  <2>5. Call!Record(Call!Remembered(n, now), key) = n
    BY <1>1, <2>1, <2>3 DEF Call!Record
  <2> QED
    BY <2>1, <2>3, <2>4, <2>5 DEF Call!StatusTtl
<1>2. /\ fresh.status # "unread"
      /\ Call!ProbedRow(fresh, now) = [status |-> fresh.status, auth |-> fresh.auth, checked |-> now, age |-> 0]
      /\ Call!Remembered(Call!Record(Call!ProbedRow(fresh, now), key), now) = Call!ProbedRow(fresh, now)
  <2>1. fresh.status # "unread"
    BY DEF Statuses
  <2>2. Call!ProbedRow(fresh, now) = [status |-> fresh.status, auth |-> fresh.auth, checked |-> now, age |-> 0]
    BY DEF Call!ProbedRow
  <2>3. Call!Record(Call!ProbedRow(fresh, now), key) =
          [key |-> key, status |-> fresh.status, auth |-> fresh.auth, checked |-> now]
    BY <2>2 DEF Call!Record
  <2>4. ~(now > now)
    OBVIOUS
  <2>5. Call!Remembered(Call!Record(Call!ProbedRow(fresh, now), key), now) = Call!ProbedRow(fresh, now)
    BY <2>1, <2>2, <2>3, <2>4 DEF Call!Remembered
  <2> QED
    BY <2>1, <2>2, <2>5
<1>3. CASE records = {}
  <2>1. s = Call!NoRow /\ r = [row |-> Call!ProbedRow(fresh, now), dialed |-> TRUE]
    BY <1>3 DEF Call!Row, Call!SavedRow
  <2> QED
    BY <1>2, <2>1 DEF Call!RowsAreOfThisServer
<1>4. CASE records # {}
  <2>1. PICK n \in StatusNotes(Keys, Auths) : records = {n}
    BY <1>4
  <2>2. CASE n.key = key
    <3>1. s = Call!Remembered(n, now)
      BY <1>1, <2>1, <2>2 DEF Call!SavedRow
    <3>2. CASE ~live /\ now - n.checked < Call!StatusTtl
      <4>1. {q \in records : ~live /\ Call!StillCurrent(q, key, now) /\ Call!Remembered(q, now) # Call!NoRow} = {n}
        BY <1>1, <2>1, <2>2, <3>2 DEF Call!StillCurrent
      <4>2. r = [row |-> Call!Remembered(n, now), dialed |-> FALSE]
        BY <4>1 DEF Call!Row
      <4> HIDE DEF r, s
      <4> QED
        BY <1>1, <2>1, <2>2, <3>1, <3>2, <4>2 DEF Call!RowsAreOfThisServer, r, s
    <3>3. CASE ~(~live /\ now - n.checked < Call!StatusTtl)
      <4>1. r = [row |-> Call!ProbedRow(fresh, now), dialed |-> TRUE]
        BY <2>1, <3>3 DEF Call!Row, Call!StillCurrent
      <4> QED
        BY <1>1, <1>2, <2>1, <2>2, <3>1, <4>1 DEF Call!RowsAreOfThisServer
    <3> QED
      BY <3>2, <3>3
  <2>3. CASE n.key # key
    <3>1. s = Call!NoRow /\ r = [row |-> Call!ProbedRow(fresh, now), dialed |-> TRUE]
      BY <2>1, <2>3 DEF Call!Row, Call!SavedRow, Call!StillCurrent
    <3> QED
      BY <1>2, <3>1 DEF Call!RowsAreOfThisServer
  <2> QED
    BY <2>2, <2>3
<1> QED
  BY <1>3, <1>4

-----------------------------------------------------------------------------
(* A client and its secret (Discovery).                                    *)

LEMMA CountedAlike == \A S : Auth!Cardinality(S) = Cardinality(S)
  BY DEF Auth!Cardinality, Cardinality

(* The secret goes with its client, in one place, whatever the server takes. *)
LEMMA SecretOnce ==
    ASSUME NEW Fields, NEW params \in Seq(Fields), \A i \in 1..Len(params) : params[i][1] # "client_secret",
           NEW method, NEW id, NEW secret
    PROVE  Auth!SecretGoesOnce(Auth!AuthenticateClient(params, method, id, secret), id, secret)
<1> DEFINE request == Auth!AuthenticateClient(params, method, id, secret)
           inForm == {i \in DOMAIN request.params : request.params[i][1] = "client_secret"}
           field == <<"client_secret", secret>>
           place == IF request.basic = <<>> THEN 0 ELSE 1
<1> SUFFICES IF id # Auth!Nothing /\ secret # Auth!Nothing THEN Cardinality(inForm) + place = 1
             ELSE Cardinality(inForm) = 0 /\ request.basic = <<>>
  BY CountedAlike DEF Auth!SecretGoesOnce
<1>1. Cardinality({}) = 0
  BY FS_EmptySet
<1>2. CASE id = Auth!Nothing \/ secret = Auth!Nothing
  <2>1. request = [params |-> params, basic |-> <<>>]
    BY <1>2 DEF Auth!AuthenticateClient
  <2>2. inForm = {}
    BY <2>1
  <2> QED
    <3>1. Cardinality(inForm) = 0
      BY <1>1, <2>2
    <3>2. request.basic = <<>>
      BY <2>1
    <3> HIDE DEF inForm, request
    <3> QED
      BY <1>2, <3>1, <3>2
<1>3. CASE id # Auth!Nothing /\ secret # Auth!Nothing /\ method = "client_secret_basic"
  <2>1. request = [params |-> params, basic |-> <<id, secret>>]
    BY <1>3 DEF Auth!AuthenticateClient
  <2>2. inForm = {}
    BY <2>1
  <2>3. request.basic # <<>>
    BY <2>1
  <2>4. Cardinality(inForm) = 0
    BY <1>1, <2>2
  <2> QED
    BY <1>3, <2>3, <2>4
<1>4. CASE id # Auth!Nothing /\ secret # Auth!Nothing /\ method # "client_secret_basic"
  <2>1. request = [params |-> Append(params, field), basic |-> <<>>]
    BY <1>4 DEF Auth!AuthenticateClient
  <2>2. params \in Seq(Fields \cup {field}) /\ field[1] = "client_secret"
    BY SeqMonotonic
  <2>3. /\ Len(Append(params, field)) = Len(params) + 1 /\ Append(params, field) \in Seq(Fields \cup {field})
        /\ \A i \in 1..Len(params) : Append(params, field)[i] = params[i]
        /\ Append(params, field)[Len(params) + 1] = field
    <3> HIDE DEF field
    <3> QED
      BY <2>2, AppendProperties
  <2>4. DOMAIN Append(params, field) = 1..Len(params) + 1 /\ Len(params) \in Nat
    BY <2>3, LenProperties
  <2>5. inForm = {Len(params) + 1}
    BY <2>1, <2>2, <2>3, <2>4
  <2>6. Cardinality(inForm) = 1
    BY <2>5, FS_Singleton
  <2> QED
    <3>1. place = 0
      BY <2>1
    <3> HIDE DEF inForm, request, place
    <3> QED
      BY <1>4, <2>6, <3>1
<1> QED
  BY <1>2, <1>3, <1>4


(* One optional field at the end of a form.                                *)
Has(form, field) == \E i \in 1..Len(form) : form[i] = field
Extends(longer, form) == \A field : Has(form, field) => Has(longer, field)

LEMMA OptionalIsPlain ==
    ASSUME NEW Names, NEW Texts, NEW params \in Seq(Names \X Texts), NEW name \in Names, NEW value \in Texts
    PROVE  /\ params \o Auth!Optional(name, value) \in Seq(Names \X Texts)
           /\ value # Auth!Nothing => Has(params \o Auth!Optional(name, value), <<name, value>>)
           /\ Extends(params \o Auth!Optional(name, value), params)
<1> USE DEF Has, Extends
<1>1. CASE value = Auth!Nothing
  BY <1>1 DEF Auth!Optional
<1>2. CASE value # Auth!Nothing
  <2> DEFINE field == <<name, value>>
  <2>1. Auth!Optional(name, value) = <<field>> /\ field \in Names \X Texts
    BY <1>2 DEF Auth!Optional
  <2> HIDE DEF field
  <2>2. params \o <<field>> = Append(params, field)
    BY <2>1, AppendIsConcat
  <2>3. /\ Append(params, field) \in Seq(Names \X Texts) /\ Len(Append(params, field)) = Len(params) + 1
        /\ \A i \in 1..Len(params) : Append(params, field)[i] = params[i]
        /\ Append(params, field)[Len(params) + 1] = field
    BY <2>1, AppendProperties
  <2>4. Len(params) \in Nat
    OBVIOUS
  <2>5. /\ \E i \in 1..Len(Append(params, field)) : Append(params, field)[i] = field
        /\ \A i \in 1..Len(params) : i \in 1..Len(Append(params, field)) /\ Append(params, field)[i] = params[i]
    BY <2>3, <2>4
  <2> QED
    BY <2>1, <2>2, <2>3, <2>5 DEF field
<1> QED
  BY <1>1, <1>2

LEMMA PlainHasNoSecret ==
    ASSUME NEW Names, NEW Texts, "client_secret" \notin Names, NEW params \in Seq(Names \X Texts)
    PROVE  \A i \in 1..Len(params) : params[i][1] # "client_secret"
<1> SUFFICES ASSUME NEW i \in 1..Len(params) PROVE params[i][1] # "client_secret"
  OBVIOUS
<1>1. params[i] \in Names \X Texts
  OBVIOUS
<1> QED
  BY <1>1

LEMMA AuthenticatedKeeps ==
    ASSUME NEW Fields, NEW params \in Seq(Fields), NEW method, NEW id, NEW secret, NEW i \in 1..Len(params)
    PROVE  params[i] \in Auth!ToSet(Auth!AuthenticateClient(params, method, id, secret).params)
<1> DEFINE field == <<"client_secret", secret>>
           longer == Append(params, field)
           request == Auth!AuthenticateClient(params, method, id, secret)
<1> HIDE DEF field
<1>1. params \in Seq(Fields \cup {field})
  BY SeqMonotonic
<1>2. longer \in Seq(Fields \cup {field}) /\ Len(longer) = Len(params) + 1 /\ longer[i] = params[i]
  BY <1>1, AppendProperties
<1>3. i \in DOMAIN params /\ i \in DOMAIN longer
  BY <1>2, LenProperties
<1>4. request.params = params \/ request.params = longer
  BY DEF Auth!AuthenticateClient, field
<1> HIDE DEF longer, request
<1>5. params[i] \in Auth!ToSet(request.params)
  <2>1. CASE request.params = params
    BY <1>3, <2>1 DEF Auth!ToSet
  <2>2. CASE request.params = longer
    BY <1>2, <1>3, <2>2 DEF Auth!ToSet
  <2> QED
    BY <1>4, <2>1, <2>2
<1> QED
  BY <1>5 DEF request

Named == {"grant_type", "client_id", "refresh_token", "scope", "resource"}
Written(Texts) == Texts \cup {"client_credentials", "refresh_token"}

(* What a renewal asks with, by grant or by refresh token.                 *)
LEMMA GrantIsWhole ==
    ASSUME NEW Texts, NEW c, c.id \in Texts, c.secret \in Texts, c.scope \in Texts, c.resource \in Texts
    PROVE  /\ Auth!SecretGoesOnce(Auth!GrantRequest(c), c.id, c.secret)
           /\ c.scope # Auth!Nothing => <<"scope", c.scope>> \in Auth!ToSet(Auth!GrantRequest(c).params)
<1> DEFINE Field == Named \X Written(Texts)
           bare == <<<<"grant_type", "client_credentials">>, <<"client_id", c.id>>>>
           scoped == bare \o Auth!Optional("scope", c.scope)
           params == scoped \o Auth!Optional("resource", c.resource)
<1>1. "client_secret" \notin Named /\ "scope" \in Named /\ "resource" \in Named
  BY DEF Named
<1>2. bare \in Seq(Field) /\ c.scope \in Written(Texts) /\ c.resource \in Written(Texts)
  <2>1. <<"grant_type", "client_credentials">> \in Field /\ <<"client_id", c.id>> \in Field
    BY DEF Named, Written
  <2> HIDE DEF Field
  <2>2. bare \in Seq(Field)
    BY <2>1
  <2> QED
    BY <2>2 DEF Written
<1> HIDE DEF bare
<1>a. scoped = bare \o Auth!Optional("scope", c.scope)
  OBVIOUS
<1> HIDE DEF scoped
<1>3. /\ scoped \in Seq(Field)
      /\ c.scope # Auth!Nothing => Has(scoped, <<"scope", c.scope>>)
  BY <1>1, <1>2, <1>a, OptionalIsPlain
<1>b. params = scoped \o Auth!Optional("resource", c.resource)
  OBVIOUS
<1> HIDE DEF params
<1>4. /\ params \in Seq(Field)
      /\ Extends(params, scoped)
  BY <1>1, <1>2, <1>3, <1>b, OptionalIsPlain
<1>5. Auth!GrantRequest(c) = Auth!AuthenticateClient(params, c.method, c.id, c.secret)
  BY DEF Auth!GrantRequest, params, scoped, bare
<1>6. \A i \in 1..Len(params) : params[i][1] # "client_secret"
  BY <1>1, <1>4, PlainHasNoSecret
<1> HIDE DEF Field
<1>7. Auth!SecretGoesOnce(Auth!GrantRequest(c), c.id, c.secret)
  BY <1>4, <1>5, <1>6, SecretOnce
<1>8. ASSUME c.scope # Auth!Nothing PROVE <<"scope", c.scope>> \in Auth!ToSet(Auth!GrantRequest(c).params)
  <2>1. PICK j \in 1..Len(params) : params[j] = <<"scope", c.scope>>
    BY <1>3, <1>4, <1>8 DEF Has, Extends
  <2> QED
    BY <1>4, <1>5, <2>1, AuthenticatedKeeps
<1> QED
  BY <1>7, <1>8

LEMMA RefreshIsWhole ==
    ASSUME NEW Texts, NEW c, c.id \in Texts, c.secret \in Texts, c.refresh \in Texts, c.resource \in Texts
    PROVE  Auth!SecretGoesOnce(Auth!RefreshRequest(c), c.id, c.secret)
<1> DEFINE Field == Named \X Written(Texts)
           bare == <<<<"grant_type", "refresh_token">>, <<"refresh_token", c.refresh>>>>
           mine == bare \o Auth!Optional("client_id", c.id)
           params == mine \o Auth!Optional("resource", c.resource)
<1>1. "client_secret" \notin Named /\ "client_id" \in Named /\ "resource" \in Named
  BY DEF Named
<1>2. bare \in Seq(Field) /\ c.id \in Written(Texts) /\ c.resource \in Written(Texts)
  <2>1. <<"grant_type", "refresh_token">> \in Field /\ <<"refresh_token", c.refresh>> \in Field
    BY DEF Named, Written
  <2> HIDE DEF Field
  <2>2. bare \in Seq(Field)
    BY <2>1
  <2> QED
    BY <2>2 DEF Written
<1> HIDE DEF bare
<1>3. mine \in Seq(Field)
  BY <1>1, <1>2, OptionalIsPlain
<1> HIDE DEF mine
<1>4. params \in Seq(Field)
  BY <1>1, <1>2, <1>3, OptionalIsPlain
<1>5. Auth!RefreshRequest(c) = Auth!AuthenticateClient(params, c.method, c.id, c.secret)
  BY DEF Auth!RefreshRequest, mine, bare
<1> HIDE DEF params
<1>6. \A i \in 1..Len(params) : params[i][1] # "client_secret"
  BY <1>1, <1>4, PlainHasNoSecret
<1> HIDE DEF Field
<1> QED
  BY <1>4, <1>5, <1>6, SecretOnce

(* Whatever is saved of a client and given on the command line: a secret    *)
(* goes with no client but its own, and to the server in one place          *)
(* (oauth.rs, authenticate_client).                                         *)
THEOREM SecretsAreTheirOwn ==
    ASSUME NEW Texts, NEW flag, NEW id,
           NEW c, c.id \in Texts, c.secret \in Texts,
           c.refresh \in Texts, c.resource \in Texts
    PROVE  Auth!SecretIsItsOwn(c, flag, id)
<1>1. Auth!SecretGoesOnce(Auth!RefreshRequest(c), c.id, c.secret)
  BY RefreshIsWhole
<1> QED
  BY <1>1 DEF Auth!SecretIsItsOwn, Auth!SecretFor

(* Whatever a machine was given and its server granted: it renews by the    *)
(* same grant, as the same client, with the secret in one place, and asks   *)
(* again for the scope it has (oauth.rs, client_credentials).               *)
THEOREM MachinesRenewAsGranted ==
    ASSUME NEW Texts, "nothing" \in Texts, "mcp" \in Texts,
           NEW meta, meta.scopes \in Texts,
           NEW flags, flags.id \in Texts, flags.secret \in Texts, flags.scope \in Texts,
           NEW response, response.scope \in Texts
    PROVE  Auth!RenewsAsGranted(meta, flags, response)
<1> DEFINE base == Auth!ClientCredentials(meta, flags.id, flags.secret, flags.scope)
           kept == Auth!Granted(response, base)
           scope == IF flags.scope # Auth!Nothing \/ meta.scopes = Auth!Nothing THEN flags.scope ELSE meta.scopes
<1> SUFFICES ASSUME Auth!MachineFlags(flags)
             PROVE  /\ Auth!RenewsByGrant(kept) /\ Auth!SavedRegistration(kept) = "pre-registered"
                    /\ Auth!SecretGoesOnce(Auth!GrantRequest(base), base.id, base.secret)
                    /\ response.scope = Auth!Nothing => Auth!GrantRequest(kept) = Auth!GrantRequest(base)
                    /\ response.scope # Auth!Nothing =>
                         <<"scope", response.scope>> \in Auth!ToSet(Auth!GrantRequest(kept).params)
                    /\ Auth!GrantRequest(kept).basic = Auth!GrantRequest(base).basic
  BY DEF Auth!RenewsAsGranted
<1>1. /\ base.id = flags.id /\ base.secret = flags.secret /\ base.resource = "mcp" /\ base.scope = scope
      /\ base.registration = "pre-registered" /\ base.source = "client_credentials"
  BY DEF Auth!ClientCredentials
<1>2. /\ kept.id = base.id /\ kept.secret = base.secret /\ kept.resource = base.resource
      /\ kept.method = base.method /\ kept.registration = base.registration /\ kept.source = base.source
      /\ kept.scope = IF response.scope = Auth!Nothing THEN base.scope ELSE response.scope
  BY DEF Auth!Granted, Auth!ClientCredentials
<1> HIDE DEF base, kept
<1>3. flags.id # Auth!Nothing /\ flags.secret # Auth!Nothing
  BY DEF Auth!MachineFlags
<1>4. Auth!RenewsByGrant(kept) /\ Auth!SavedRegistration(kept) = "pre-registered"
  BY <1>1, <1>2, <1>3 DEF Auth!RenewsByGrant, Auth!SavedRegistration, Auth!ParseRegistration,
     Auth!Registrations, Auth!Nothing
<1>5. /\ base.id \in Texts /\ base.secret \in Texts /\ base.resource \in Texts /\ base.scope \in Texts
      /\ kept.scope \in Texts
  BY <1>1, <1>2
<1>6. Auth!SecretGoesOnce(Auth!GrantRequest(base), base.id, base.secret)
  BY <1>5, GrantIsWhole
<1>7. response.scope = Auth!Nothing => Auth!GrantRequest(kept) = Auth!GrantRequest(base)
  BY <1>2 DEF Auth!GrantRequest
<1>8. response.scope # Auth!Nothing => <<"scope", response.scope>> \in Auth!ToSet(Auth!GrantRequest(kept).params)
  <2>1. kept.scope # Auth!Nothing => <<"scope", kept.scope>> \in Auth!ToSet(Auth!GrantRequest(kept).params)
    BY <1>2, <1>5, GrantIsWhole
  <2> QED
    BY <1>2, <2>1
<1>9. Auth!GrantRequest(kept).basic = Auth!GrantRequest(base).basic
  BY <1>2 DEF Auth!GrantRequest, Auth!AuthenticateClient
<1> QED
  BY <1>4, <1>6, <1>7, <1>8, <1>9

-----------------------------------------------------------------------------
(* Where a server is found (Discovery).                                    *)

(* Addresses asked one after another, none twice but those of a set.       *)
Spread(asked, H) == \A i, j \in DOMAIN asked : i # j => asked[i] # asked[j] \/ asked[i] \in H

LEMMA AskedInTurn ==
    ASSUME NEW Places, NEW a \in Seq(Places), NEW b \in Seq(Places)
    PROVE  /\ a \o b \in Seq(Places)
           /\ Auth!ToSet(a \o b) = Auth!ToSet(a) \cup Auth!ToSet(b)
           /\ \A H : /\ Spread(a, H) /\ Spread(b, H)
                     /\ \A u \in Auth!ToSet(a) : u \in Auth!ToSet(b) => u \in H
                     => Spread(a \o b, H)
<1> DEFINE c == a \o b
<1>1. /\ c \in Seq(Places) /\ Len(c) = Len(a) + Len(b) /\ Len(a) \in Nat /\ Len(b) \in Nat
      /\ \A i \in 1..Len(c) : c[i] = IF i <= Len(a) THEN a[i] ELSE b[i - Len(a)]
  BY ConcatProperties
<1>2. DOMAIN c = 1..Len(c) /\ DOMAIN a = 1..Len(a) /\ DOMAIN b = 1..Len(b)
  BY <1>1
<1> HIDE DEF c
<1>3. ASSUME NEW i \in DOMAIN c
      PROVE  \/ i \in DOMAIN a /\ c[i] = a[i]
             \/ i - Len(a) \in DOMAIN b /\ c[i] = b[i - Len(a)]
  <2>1. CASE i <= Len(a)
    BY <1>1, <1>2, <2>1
  <2>2. CASE i > Len(a)
    <3>1. i - Len(a) \in 1..Len(b)
      BY <1>1, <1>2, <2>2
    <3> QED
      BY <1>1, <1>2, <2>2, <3>1
  <2> QED
    BY <1>1, <1>2, <2>1, <2>2
<1>4. \A i \in DOMAIN a : i \in DOMAIN c /\ c[i] = a[i]
  BY <1>1, <1>2
<1>5. \A i \in DOMAIN b : i + Len(a) \in DOMAIN c /\ c[i + Len(a)] = b[i]
  BY <1>1, <1>2
<1>6. Auth!ToSet(c) = Auth!ToSet(a) \cup Auth!ToSet(b)
  BY <1>3, <1>4, <1>5 DEF Auth!ToSet
<1>7. ASSUME NEW H, Spread(a, H), Spread(b, H), \A u \in Auth!ToSet(a) : u \in Auth!ToSet(b) => u \in H
      PROVE  Spread(c, H)
  <2> SUFFICES ASSUME NEW i \in DOMAIN c, NEW j \in DOMAIN c, i # j, c[i] = c[j] PROVE c[i] \in H
    BY DEF Spread
  <2>1. CASE i \in DOMAIN a /\ c[i] = a[i] /\ j \in DOMAIN a /\ c[j] = a[j]
    BY <1>7, <2>1 DEF Spread
  <2>2. CASE i \in DOMAIN a /\ c[i] = a[i] /\ j - Len(a) \in DOMAIN b /\ c[j] = b[j - Len(a)]
    BY <1>7, <2>2 DEF Auth!ToSet
  <2>3. CASE i - Len(a) \in DOMAIN b /\ c[i] = b[i - Len(a)] /\ j \in DOMAIN a /\ c[j] = a[j]
    BY <1>7, <2>3 DEF Auth!ToSet
  <2>4. CASE i - Len(a) \in DOMAIN b /\ c[i] = b[i - Len(a)] /\ j - Len(a) \in DOMAIN b /\ c[j] = b[j - Len(a)]
    <3>1. i - Len(a) # j - Len(a)
      BY <1>1, <1>2
    <3> QED
      BY <1>7, <2>4, <3>1 DEF Spread
  <2> QED
    BY <1>3, <2>1, <2>2, <2>3, <2>4
<1> QED
  BY <1>1, <1>6, <1>7 DEF c

Replies == {"document", "not json", "missing", "busy", "cut", "unreachable", "timeout"}

(* A request that failed on the way is one repeated to no avail.           *)
Broken(net, u) ==
    \/ Auth!GetOnce(net, u, 1) = "timeout"
    \/ /\ Auth!GetOnce(net, u, 1) \in Auth!Transient
       /\ Auth!GetOnce(net, u, 2) \notin {"document", "not json"} \cup Auth!Statuses

LEMMA FailsIsBroken ==
    ASSUME NEW net, \A u \in DOMAIN net : \A n \in {1, 2} : net[u].replies[n] \in Replies, NEW u
    PROVE  /\ Auth!GetJson(net, u).fails <=> Broken(net, u)
           /\ \/ Auth!GetJson(net, u).document = <<>>
              \/ u \in DOMAIN net /\ Auth!GetJson(net, u).document = <<net[u].document>>
<1>1. \A n \in {1, 2} : Auth!GetOnce(net, u, n) \in Replies
  BY DEF Auth!GetOnce, Replies
<1>2. (Auth!GetJson(net, u).fails) <=> Broken(net, u)
  BY <1>1 DEF Auth!GetJson, Broken, Replies, Auth!Transient, Auth!Statuses, Auth!Failures
<1>3. ASSUME NEW n \in {1, 2}, Auth!GetOnce(net, u, n) = "document" PROVE u \in DOMAIN net
  BY <1>3 DEF Auth!GetOnce
<1>4. \/ Auth!GetJson(net, u).document = <<>>
      \/ u \in DOMAIN net /\ Auth!GetJson(net, u).document = <<net[u].document>>
  BY <1>3 DEF Auth!GetJson
<1> QED
  BY <1>2, <1>4

(* What asking some addresses in turn comes to: the first that answers ends *)
(* it, and so does one that cannot be asked.                                *)
LEMMA AskedUntilAnswered ==
    ASSUME NEW Places, NEW net, \A u \in DOMAIN net : \A n \in {1, 2} : net[u].replies[n] \in Replies,
           NEW urls \in Seq(Places), NEW mints \in BOOLEAN
    PROVE  LET r == Auth!FirstOf(net, urls, mints)
           IN /\ r.asked \in Seq(Places) /\ Auth!ToSet(r.asked) \subseteq Auth!ToSet(urls)
              /\ r.fails <=> \E u \in Auth!ToSet(r.asked) : Broken(net, u)
              /\ \/ r.document = <<>>
                 \/ \E u \in Auth!ToSet(r.asked) : u \in DOMAIN net /\ r.document = <<net[u].document>>
              /\ \A H : Spread(urls, H) => Spread(r.asked, H)
<1> DEFINE Stops(u) == Auth!GetJson(net, u).fails
                       \/ \E d \in Auth!ToSet(Auth!GetJson(net, u).document) : mints => d.token # ""
           I == {i \in 1..Len(urls) : Stops(urls[i])}
           least == CHOOSE i \in I : \A j \in I : i <= j
           at == IF I # {} THEN least ELSE 0
           r == Auth!FirstOf(net, urls, mints)
<1>1. r = IF at = 0 THEN [asked |-> urls, fails |-> FALSE, document |-> <<>>]
          ELSE [asked |-> SubSeq(urls, 1, at), fails |-> Auth!GetJson(net, urls[at]).fails,
                document |-> Auth!GetJson(net, urls[at]).document]
  BY DEF Auth!FirstOf, Auth!SelectInSeq, Auth!Min
<1>2. DOMAIN urls = 1..Len(urls) /\ Len(urls) \in Nat
  OBVIOUS
<1>a. I \subseteq 1..Len(urls) /\ I \subseteq Nat
  <2> HIDE DEF Stops
  <2> QED
    BY <1>2
<1>3. ASSUME NEW u PROVE Auth!GetJson(net, u).fails <=> Broken(net, u)
  BY FailsIsBroken
<1> SUFFICES /\ r.asked \in Seq(Places) /\ Auth!ToSet(r.asked) \subseteq Auth!ToSet(urls)
             /\ r.fails <=> \E u \in Auth!ToSet(r.asked) : Broken(net, u)
             /\ \/ r.document = <<>>
                \/ \E u \in Auth!ToSet(r.asked) : u \in DOMAIN net /\ r.document = <<net[u].document>>
             /\ \A H : Spread(urls, H) => Spread(r.asked, H)
  OBVIOUS
<1>4. CASE I = {}
  <2>1. r.asked = urls /\ r.fails = FALSE /\ r.document = <<>>
    <3>1. at = 0
      BY <1>4
    <3> HIDE DEF at, r
    <3> QED
      BY <1>1, <3>1
  <2>2. \A i \in DOMAIN urls : ~Broken(net, urls[i])
    BY <1>2, <1>3, <1>4
  <2> HIDE DEF r
  <2> QED
    BY <2>1, <2>2 DEF Auth!ToSet
<1>5. CASE I # {}
  <2>1. least \in I /\ \A j \in I : least <= j
    <3> HIDE DEF I
    <3> QED
      BY <1>5, <1>a, LeastExists
  <2>2. at = least /\ at \in 1..Len(urls) /\ at # 0
    <3> HIDE DEF least, I
    <3> QED
      BY <1>2, <1>5, <1>a, <2>1
  <2>3. \A j \in 1..Len(urls) : j < at => ~Broken(net, urls[j])
    <3> SUFFICES ASSUME NEW j \in 1..Len(urls), j < at, Broken(net, urls[j]) PROVE FALSE
      OBVIOUS
    <3>1. j \in I
      BY <1>3
    <3> HIDE DEF I, least, at
    <3> QED
      BY <2>1, <2>2, <3>1
  <2> HIDE DEF at, least, I, Stops
  <2>4. /\ r.asked = SubSeq(urls, 1, at) /\ r.fails = Auth!GetJson(net, urls[at]).fails
        /\ r.document = Auth!GetJson(net, urls[at]).document
    BY <1>1, <2>2
  <2> HIDE DEF r
  <2>5. /\ r.asked \in Seq(Places) /\ Len(r.asked) = at
        /\ \A i \in 1..at : r.asked[i] = urls[i]
    <3>1. \A i \in 1..at : urls[i] \in Places
      BY <1>2, <2>2
    <3>2. 1 <= at /\ at - 1 + 1 = at /\ at \in Int /\ \A i \in 1..at : 1 + i - 1 = i
      BY <2>2
    <3> QED
      BY <2>2, <2>4, <3>1, <3>2, SubSeqProperties
  <2>6. DOMAIN r.asked = 1..at /\ 1..at \subseteq 1..Len(urls)
    BY <1>2, <2>2, <2>5
  <2>7. Auth!ToSet(r.asked) \subseteq Auth!ToSet(urls)
    BY <1>2, <2>5, <2>6 DEF Auth!ToSet
  <2>8. urls[at] \in Auth!ToSet(r.asked)
    BY <2>2, <2>5, <2>6 DEF Auth!ToSet
  <2>9. r.fails <=> \E u \in Auth!ToSet(r.asked) : Broken(net, u)
    <3>1. ASSUME NEW u \in Auth!ToSet(r.asked), Broken(net, u) PROVE u = urls[at]
      <4>1. PICK i \in 1..at : u = urls[i]
        BY <2>5, <2>6 DEF Auth!ToSet
      <4> QED
        BY <2>2, <2>3, <2>6, <3>1, <4>1
    <3> QED
      BY <1>3, <2>4, <2>8, <3>1
  <2>10. \/ r.document = <<>>
         \/ \E u \in Auth!ToSet(r.asked) : u \in DOMAIN net /\ r.document = <<net[u].document>>
    BY <2>4, <2>8, FailsIsBroken
  <2>11. \A H : Spread(urls, H) => Spread(r.asked, H)
    BY <1>2, <2>5, <2>6 DEF Spread
  <2> QED
    BY <2>5, <2>7, <2>9, <2>10, <2>11
<1> QED
  BY <1>4, <1>5

(* Servers, the addresses a challenge names and those that are asked.      *)
Issuers(Origins, Paths) == [origin : Origins, path : Paths, slash : BOOLEAN]
Hints(Origins, Paths) == [origin : Origins, place : {"hint", "resource"}, path : Paths]
Urls(Origins, Paths) ==
    [origin : Origins, place : {"hint", "resource", "server", "openid", "below"}, path : Paths]

(* Networks: whatever each address is answered with, a document of a       *)
(* resource names servers and one of a server an issuer.                   *)
Answers(net, Origins, Paths) ==
    \A u \in DOMAIN net :
        /\ \A n \in {1, 2} : net[u].replies[n] \in Replies
        /\ u.place \in {"hint", "resource"} => net[u].document.servers \in Seq(Issuers(Origins, Paths))
        /\ u.place \in {"server", "openid", "below"} => net[u].document.issuer \in Issuers(Origins, Paths)

Together(a, b) == Auth!ToSet(a \o b) = Auth!ToSet(a) \cup Auth!ToSet(b)

LEMMA AskedTogether ==
    ASSUME NEW Places, NEW a \in Seq(Places), NEW b \in Seq(Places)
    PROVE  Together(a, b)
  BY AskedInTurn DEF Together

LEMMA OfASequence ==
    ASSUME NEW S, NEW s \in Seq(S)
    PROVE  /\ \A i \in DOMAIN s : s[i] \in S
           /\ Len(s) = 0 => DOMAIN s = {}
  OBVIOUS

LEMMA FirstOfASequence ==
    ASSUME NEW S, NEW s \in Seq(S), s # <<>>
    PROVE  s[1] \in S
<1>1. Len(s) \in Nat \ {0}
  BY EmptySeq
<1> QED
  BY <1>1, ElementOfSeq

LEMMA FewAsked ==
    ASSUME NEW Places, NEW a \in Places
    PROVE  /\ /\ <<a>> \in Seq(Places) /\ Auth!ToSet(<<a>>) = {a}
              /\ \A H : Spread(<<a>>, H)
           /\ \A b \in Places : a # b =>
                /\ <<a, b>> \in Seq(Places) /\ Auth!ToSet(<<a, b>>) = {a, b}
                /\ \A H : Spread(<<a, b>>, H)
           /\ \A b, c \in Places : a # b /\ a # c /\ b # c =>
                /\ <<a, b, c>> \in Seq(Places) /\ Auth!ToSet(<<a, b, c>>) = {a, b, c}
                /\ \A H : Spread(<<a, b, c>>, H)
<1>1. /\ <<a>> \in Seq(Places) /\ Auth!ToSet(<<a>>) = {a}
      /\ \A H : Spread(<<a>>, H)
  <2> DEFINE s == <<a>>
  <2>1. s \in Seq(Places) /\ DOMAIN s = {1} /\ s[1] = a
    OBVIOUS
  <2> HIDE DEF s
  <2>2. Auth!ToSet(s) = {a} /\ \A H : Spread(s, H)
    BY <2>1 DEF Auth!ToSet, Spread
  <2> QED
    BY <2>1, <2>2 DEF s
<1>2. ASSUME NEW b \in Places, a # b
      PROVE  /\ <<a, b>> \in Seq(Places) /\ Auth!ToSet(<<a, b>>) = {a, b}
             /\ \A H : Spread(<<a, b>>, H)
  <2> DEFINE s == <<a, b>>
  <2>1. s \in Seq(Places) /\ DOMAIN s = {1, 2} /\ s[1] = a /\ s[2] = b
    OBVIOUS
  <2> HIDE DEF s
  <2>2. Auth!ToSet(s) = {a, b} /\ \A H : Spread(s, H)
    BY <1>2, <2>1 DEF Auth!ToSet, Spread
  <2> QED
    BY <2>1, <2>2 DEF s
<1>3. ASSUME NEW b \in Places, NEW c \in Places, a # b, a # c, b # c
      PROVE  /\ <<a, b, c>> \in Seq(Places) /\ Auth!ToSet(<<a, b, c>>) = {a, b, c}
             /\ \A H : Spread(<<a, b, c>>, H)
  <2> DEFINE s == <<a, b, c>>
  <2>1. s \in Seq(Places) /\ DOMAIN s = {1, 2, 3} /\ s[1] = a /\ s[2] = b /\ s[3] = c
    OBVIOUS
  <2> HIDE DEF s
  <2>2. Auth!ToSet(s) = {a, b, c} /\ \A H : Spread(s, H)
    BY <1>3, <2>1 DEF Auth!ToSet, Spread
  <2> QED
    BY <2>1, <2>2 DEF s
<1> QED
  BY <1>1, <1>2, <1>3

(* A protected resource's document is looked for where it was challenged   *)
(* to, and else only at the server itself.                                 *)
Resources(urls, mcp, hint, U) ==
    /\ urls \in Seq(U) /\ Spread(urls, Auth!ToSet(hint))
    /\ \A u \in Auth!ToSet(urls) : u \in Auth!ToSet(hint) \/ (u.place = "resource" /\ u.origin = mcp.origin)
    /\ \A u \in Auth!ToSet(urls) : u.place \in {"hint", "resource"}

LEMMA ResourceIsAsked ==
    ASSUME NEW Origins, NEW Paths, "" \in Paths, NEW mcp \in [origin : Origins, path : Paths],
           NEW hint \in Seq(Hints(Origins, Paths))
    PROVE  Resources(Auth!ResourceUrls(mcp, hint), mcp, hint, Urls(Origins, Paths))
<1> DEFINE H == Auth!ToSet(hint)
           U == Urls(Origins, Paths)
           below == Auth!Address(mcp.origin, "resource", mcp.path)
           root == Auth!Address(mcp.origin, "resource", "")
           urls == Auth!ResourceUrls(mcp, hint)
<1> SUFFICES Resources(urls, mcp, hint, U)
  OBVIOUS
<1>1. below \in U /\ root \in U /\ (mcp.path # "" => below # root)
  BY DEF Urls, Auth!Address
<1>2. hint \in Seq(U)
  <2>1. Hints(Origins, Paths) \subseteq U
    BY DEF Hints, Urls
  <2> QED
    BY <2>1, SeqMonotonic
<1>3. below.place = "resource" /\ below.origin = mcp.origin /\ root.place = "resource" /\ root.origin = mcp.origin
  BY DEF Auth!Address
<1>4. ASSUME NEW u \in H PROVE u.place \in {"hint", "resource"}
  <2>1. PICK i \in DOMAIN hint : u = hint[i]
    BY DEF Auth!ToSet
  <2> DEFINE S == Hints(Origins, Paths)
  <2>2. hint[i] \in S
    <3> HIDE DEF S
    <3>1. hint \in Seq(S)
      BY DEF S
    <3> QED
      BY <2>1, <3>1, OfASequence
  <2> QED
    BY <2>1, <2>2 DEF Hints
<1>5. Spread(hint, H)
  BY DEF Spread, Auth!ToSet
<1>6. urls = (hint \o (IF mcp.path = "" THEN <<>> ELSE <<below>>)) \o <<root>>
  BY DEF Auth!ResourceUrls
<1>7. DEFINE mine == IF mcp.path = "" THEN <<>> ELSE <<below>>
<1> HIDE DEF below, root, U, urls, H
<1>8. /\ mine \in Seq(U) /\ Spread(mine, H)
      /\ \A u \in Auth!ToSet(mine) : u = below /\ u # root
  <2>1. CASE mcp.path = ""
    <3> DEFINE s == <<>>
    <3>0. s \in Seq(U) /\ Len(s) = 0
      BY EmptySeq
    <3> HIDE DEF s
    <3>1. DOMAIN s = {}
      BY <3>0, OfASequence
    <3>2. Spread(s, H) /\ Auth!ToSet(s) = {}
      BY <3>1 DEF Spread, Auth!ToSet
    <3>3. mine = s
      BY <2>1 DEF s
    <3> HIDE DEF mine
    <3> QED
      BY <3>0, <3>1, <3>2, <3>3
  <2>2. CASE mcp.path # ""
    <3>1. mine = <<below>>
      BY <2>2
    <3>2. /\ <<below>> \in Seq(U) /\ Auth!ToSet(<<below>>) = {below} /\ Spread(<<below>>, H)
      BY <1>1, FewAsked
    <3> HIDE DEF mine
    <3> QED
      BY <1>1, <2>2, <3>1, <3>2
  <2> QED
    BY <2>1, <2>2
<1>9. urls = (hint \o mine) \o <<root>>
  BY <1>6
<1> HIDE DEF mine
<1>10. /\ <<root>> \in Seq(U) /\ Auth!ToSet(<<root>>) = {root} /\ Spread(<<root>>, H)
  BY <1>1, FewAsked
<1>11. /\ hint \o mine \in Seq(U) /\ Auth!ToSet(hint \o mine) = H \cup Auth!ToSet(mine)
       /\ Spread(hint \o mine, H)
  <2>1. \A u \in H : u \in Auth!ToSet(mine) => u \in H
    OBVIOUS
  <2> QED
    BY <1>2, <1>5, <1>8, <2>1, AskedInTurn DEF H
<1> DEFINE front == hint \o mine
           last == <<root>>
<1> HIDE DEF front, last
<1>12. front \in Seq(U) /\ Auth!ToSet(front) = H \cup Auth!ToSet(mine) /\ Spread(front, H)
       /\ last \in Seq(U) /\ Auth!ToSet(last) = {root} /\ Spread(last, H)
       /\ urls = front \o last
  BY <1>9, <1>10, <1>11 DEF front, last
<1>13. /\ urls \in Seq(U) /\ Auth!ToSet(urls) = H \cup Auth!ToSet(mine) \cup {root}
       /\ Spread(urls, H)
  <2>1. \A u \in Auth!ToSet(front) : u \in Auth!ToSet(last) => u \in H
    BY <1>8, <1>12
  <2>2. front \o last \in Seq(U)
    BY <1>12, ConcatProperties
  <2>4. Auth!ToSet(front \o last) = Auth!ToSet(front) \cup Auth!ToSet(last)
    <3> HIDE DEF U
    <3>1. front \in Seq(U) /\ last \in Seq(U)
      BY <1>12
    <3>2. Together(front, last)
      BY <3>1, AskedTogether
    <3> QED
      BY <3>2 DEF Together
  <2>3. Spread(front \o last, H)
    BY <1>12, <2>1, AskedInTurn
  <2> QED
    BY <1>12, <2>2, <2>3, <2>4
<1> QED
  <2>1. Spread(urls, Auth!ToSet(hint))
    BY <1>13 DEF H
  <2>2. \A u \in Auth!ToSet(urls) : u \in Auth!ToSet(hint) \/ u = below \/ u = root
    BY <1>8, <1>13 DEF H
  <2>3. \A u \in Auth!ToSet(hint) : u.place \in {"hint", "resource"}
    BY <1>4 DEF H
  <2> QED
    BY <1>3, <1>13, <2>1, <2>2, <2>3 DEF Resources

(* A server's own document is looked for only at its origin, nowhere twice. *)
OfServer(urls, issuer, U) ==
    /\ urls \in Seq(U) /\ \A H : Spread(urls, H)
    /\ \A u \in Auth!ToSet(urls) : u.place \in {"server", "openid", "below"} /\ u.origin = issuer.origin

LEMMA ServerIsAsked ==
    ASSUME NEW Origins, NEW Paths, "" \in Paths, NEW issuer \in Issuers(Origins, Paths)
    PROVE  OfServer(Auth!ServerUrls(issuer), issuer, Urls(Origins, Paths))
<1> DEFINE urls == Auth!ServerUrls(issuer)
           U == Urls(Origins, Paths)
           a == Auth!Address(issuer.origin, "server", issuer.path)
           b == Auth!Address(issuer.origin, "openid", issuer.path)
           c == Auth!Address(issuer.origin, "below", issuer.path)
<1>1. /\ a \in U /\ b \in U /\ c \in U /\ a # b /\ a # c /\ b # c
      /\ \A u \in {a, b, c} : u.place \in {"server", "openid", "below"} /\ u.origin = issuer.origin
  <2>1. a \in U /\ b \in U /\ c \in U
    BY DEF Issuers, Urls, Auth!Address
  <2>2. /\ a.place = "server" /\ b.place = "openid" /\ c.place = "below"
        /\ a.origin = issuer.origin /\ b.origin = issuer.origin /\ c.origin = issuer.origin
    BY DEF Auth!Address
  <2> HIDE DEF a, b, c, U
  <2> QED
    BY <2>1, <2>2
<1>2. urls = IF issuer.path # "" THEN <<a, b, c>> ELSE <<a, b>>
  BY DEF Auth!ServerUrls
<1> SUFFICES OfServer(urls, issuer, U)
  OBVIOUS
<1> HIDE DEF urls, U, a, b, c
<1>3. CASE issuer.path # ""
  <2>1. urls = <<a, b, c>>
    BY <1>2, <1>3
  <2>2. /\ <<a, b, c>> \in Seq(U) /\ Auth!ToSet(<<a, b, c>>) = {a, b, c}
        /\ \A H : Spread(<<a, b, c>>, H)
    BY <1>1, FewAsked
  <2> QED
    BY <1>1, <2>1, <2>2 DEF OfServer
<1>4. CASE issuer.path = ""
  <2>1. urls = <<a, b>>
    BY <1>2, <1>4
  <2>2. /\ <<a, b>> \in Seq(U) /\ Auth!ToSet(<<a, b>>) = {a, b}
        /\ \A H : Spread(<<a, b>>, H)
    BY <1>1, FewAsked
  <2> QED
    BY <1>1, <2>1, <2>2 DEF OfServer
<1> QED
  BY <1>3, <1>4

(* What asking in turn comes to, in one piece.                             *)
Found(r, net, urls, U) ==
    /\ r.asked \in Seq(U) /\ Auth!ToSet(r.asked) \subseteq Auth!ToSet(urls)
    /\ r.fails <=> \E u \in Auth!ToSet(r.asked) : Broken(net, u)
    /\ \/ r.document = <<>>
       \/ \E u \in Auth!ToSet(r.asked) : u \in DOMAIN net /\ r.document = <<net[u].document>>
    /\ \A H : Spread(urls, H) => Spread(r.asked, H)

LEMMA FoundInTurn ==
    ASSUME NEW U, NEW net, \A u \in DOMAIN net : \A n \in {1, 2} : net[u].replies[n] \in Replies,
           NEW urls \in Seq(U), NEW mints \in BOOLEAN
    PROVE  Found(Auth!FirstOf(net, urls, mints), net, urls, U)
  BY AskedUntilAnswered DEF Found

LEMMA OneDocument ==
    ASSUME NEW d
    PROVE  Auth!ToSet(<<d>>) = {d} /\ <<d>>[1] = d /\ <<d>> # <<>>
<1> DEFINE s == <<d>>
<1>1. DOMAIN s = {1} /\ s[1] = d
  OBVIOUS
<1>2. DOMAIN <<>> = {}
  OBVIOUS
<1>3. s # <<>>
  <2> HIDE DEF s
  <2> QED
    BY <1>1, <1>2
<1>4. Auth!ToSet(s) = {d}
  <2> HIDE DEF s
  <2> QED
    BY <1>1 DEF Auth!ToSet
<1> QED
  BY <1>1, <1>3, <1>4

LEMMA NoDocument == Auth!ToSet(<<>>) = {}
  BY DEF Auth!ToSet

(* The server that is named is one a document of the resource names.       *)
LEMMA NamesAnIssuer ==
    ASSUME NEW Origins, NEW Paths, "" \in Paths, NEW net, Answers(net, Origins, Paths),
           NEW mcp \in [origin : Origins, path : Paths], NEW resource, NEW urls, NEW hint,
           Found(resource, net, urls, Urls(Origins, Paths)),
           Resources(urls, mcp, hint, Urls(Origins, Paths))
    PROVE  Auth!Named(mcp, resource) \in Issuers(Origins, Paths)
<1> DEFINE I == Issuers(Origins, Paths)
<1>1. [origin |-> mcp.origin, path |-> "", slash |-> FALSE] \in I
  BY DEF Issuers
<1>2. ASSUME NEW x \in I PROVE Auth!Bare(x) \in I
  BY <1>2 DEF Issuers, Auth!Bare
<1>3. CASE resource.document = <<>>
  BY <1>1, <1>3 DEF Auth!Named
<1>4. CASE resource.document # <<>>
  <2>1. PICK u \in Auth!ToSet(resource.asked) : u \in DOMAIN net /\ resource.document = <<net[u].document>>
    BY <1>4 DEF Found
  <2>2. u.place \in {"hint", "resource"}
    BY <2>1 DEF Found, Resources
  <2>3. net[u].document.servers \in Seq(I)
    BY <2>1, <2>2 DEF Answers
  <2>4. resource.document[1] = net[u].document
    BY <2>1, OneDocument
  <2> DEFINE servers == net[u].document.servers
  <2>5. servers # <<>> => servers[1] \in I
    <3>1. servers \in Seq(I)
      BY <2>3
    <3> HIDE DEF servers, I
    <3> QED
      BY <3>1, FirstOfASequence
  <2>6. Auth!Named(mcp, resource)
        = IF servers # <<>> THEN Auth!Bare(servers[1]) ELSE [origin |-> mcp.origin, path |-> "", slash |-> FALSE]
    BY <1>4, <2>4 DEF Auth!Named
  <2> HIDE DEF servers, I
  <2>7. Auth!Named(mcp, resource) \in I
    BY <1>1, <1>2, <2>5, <2>6
  <2> QED
    BY <2>7 DEF I
<1> QED
  BY <1>3, <1>4

(* Whatever the addresses are answered with - the answers of each in their *)
(* order, a document of a resource naming any servers and one of a server   *)
(* any issuer -, for every server and every hint of a challenge (oauth.rs, *)
(* discover): nobody else is asked, no address a third time, a failure is   *)
(* one that was met, and the issuer is who was looked for.                 *)
THEOREM TheServerIsTheirs ==
    ASSUME NEW Origins, NEW Paths, "" \in Origins, "" \in Paths, NEW net, Answers(net, Origins, Paths),
           NEW mcp \in [origin : Origins, path : Paths], NEW hint \in Seq(Hints(Origins, Paths))
    PROVE  Auth!DiscoveryIsTheirs(net, mcp, hint, Auth!Discover(net, mcp, hint))
<1> DEFINE U == Urls(Origins, Paths)
           H == Auth!ToSet(hint)
           looked == Auth!ResourceUrls(mcp, hint)
           resource == Auth!FirstOf(net, looked, FALSE)
           issuer == Auth!Named(mcp, resource)
           places == Auth!ServerUrls(issuer)
           of == Auth!FirstOf(net, places, TRUE)
           d == Auth!Discover(net, mcp, hint)
           meta == IF of.document = <<>> THEN Auth!NoMetadata ELSE of.document[1]
           stated == Auth!ValidatedIssuer(meta.issuer, issuer)
           scopes == UNION {r.scopes : r \in Auth!ToSet(resource.document)}
<1> SUFFICES Auth!DiscoveryIsTheirs(net, mcp, hint, d)
  OBVIOUS
<1>1. \A u \in DOMAIN net : \A n \in {1, 2} : net[u].replies[n] \in Replies
  BY DEF Answers
<1>2. Resources(looked, mcp, hint, U)
  BY ResourceIsAsked
<1>3. Found(resource, net, looked, U)
  BY <1>1, <1>2, FoundInTurn DEF Resources
<1>4. issuer \in Issuers(Origins, Paths)
  BY <1>2, <1>3, NamesAnIssuer
<1>5. OfServer(places, issuer, U)
  BY <1>4, ServerIsAsked
<1>6. Found(of, net, places, U)
  BY <1>1, <1>5, FoundInTurn DEF OfServer
<1>7. d = [ok |-> ~resource.fails /\ ~of.fails /\ stated.ok,
           fails |-> resource.fails \/ (~resource.fails /\ of.fails),
           asked |-> resource.asked \o (IF resource.fails THEN <<>> ELSE of.asked),
           resource |-> Auth!ToSet(resource.document), discovered |-> issuer, issuer |-> stated.issuer,
           token |-> IF meta.token = "" THEN "default" ELSE meta.token,
           scopes |-> IF scopes = {} THEN meta.scopes ELSE scopes]
  BY DEF Auth!Discover, Auth!DiscoverFrom, Auth!DiscoverServer, Auth!Gathered
<1>8. meta.issuer = Auth!NotStated \/ meta.issuer \in Issuers(Origins, Paths)
  <2>1. CASE of.document = <<>>
    BY <2>1 DEF Auth!NoMetadata
  <2>2. CASE of.document # <<>>
    <3>1. PICK u \in Auth!ToSet(of.asked) : u \in DOMAIN net /\ of.document = <<net[u].document>>
      BY <1>6, <2>2 DEF Found
    <3>2. u.place \in {"server", "openid", "below"}
      BY <1>5, <1>6, <3>1 DEF Found, OfServer
    <3>3. net[u].document.issuer \in Issuers(Origins, Paths)
      BY <3>1, <3>2 DEF Answers
    <3> QED
      BY <2>2, <3>1, <3>3, OneDocument
  <2> QED
    BY <2>1, <2>2
<1>9. stated.ok => stated.issuer.origin = issuer.origin /\ stated.issuer.path = issuer.path
  <2> HIDE DEF meta, issuer
  <2>1. CASE meta.issuer = Auth!NotStated
    BY <2>1 DEF Auth!ValidatedIssuer
  <2>2. CASE meta.issuer # Auth!NotStated
    <3>1. meta.issuer \in Issuers(Origins, Paths)
      BY <1>8, <2>2
    <3>2. ASSUME NEW x \in Issuers(Origins, Paths)
          PROVE  Auth!Bare(x).origin = x.origin /\ Auth!Bare(x).path = x.path
      BY <3>2 DEF Issuers, Auth!Bare
    <3> QED
      BY <1>4, <2>2, <3>1, <3>2 DEF Auth!ValidatedIssuer
  <2> QED
    BY <2>1, <2>2
<1>10. meta.token # "" => \E u \in Auth!ToSet(of.asked) :
                            u \in DOMAIN net /\ u.place # "resource" /\ net[u].document.token = meta.token
  <2> SUFFICES ASSUME meta.token # ""
               PROVE  \E u \in Auth!ToSet(of.asked) :
                        u \in DOMAIN net /\ u.place # "resource" /\ net[u].document.token = meta.token
    OBVIOUS
  <2>1. of.document # <<>>
    BY DEF Auth!NoMetadata
  <2>2. PICK u \in Auth!ToSet(of.asked) : u \in DOMAIN net /\ of.document = <<net[u].document>>
    BY <1>6, <2>1 DEF Found
  <2>3. u.place \in {"server", "openid", "below"}
    BY <1>5, <1>6, <2>2 DEF Found, OfServer
  <2>4. meta = net[u].document
    BY <2>1, <2>2, OneDocument
  <2> HIDE DEF meta, of
  <2> QED
    BY <2>2, <2>3, <2>4
<1>11. ASSUME NEW r \in Auth!ToSet(resource.document) PROVE scopes = r.scopes
  <2>1. resource.document # <<>>
    BY <1>11, NoDocument
  <2>2. PICK u \in Auth!ToSet(resource.asked) : u \in DOMAIN net /\ resource.document = <<net[u].document>>
    BY <1>3, <2>1 DEF Found
  <2>3. Auth!ToSet(resource.document) = {net[u].document}
    BY <2>2, OneDocument
  <2> HIDE DEF resource
  <2> QED
    BY <1>11, <2>3
<1> HIDE DEF U, H, looked, resource, issuer, places, of, d, meta, stated, scopes
<1>12. \A u \in Auth!ToSet(resource.asked) :
         /\ u \in H \/ u.origin = mcp.origin
         /\ u.place \in {"hint", "resource"}
  BY <1>2, <1>3 DEF Found, Resources, H
<1>13. \A u \in Auth!ToSet(of.asked) : u.place \in {"server", "openid", "below"} /\ u.origin = issuer.origin
  BY <1>5, <1>6 DEF Found, OfServer
<1>14. Spread(resource.asked, H) /\ Spread(of.asked, H)
  BY <1>2, <1>3, <1>5, <1>6 DEF Found, Resources, OfServer, H
<1> DEFINE theirs == IF resource.fails THEN <<>> ELSE of.asked
           fails == resource.fails \/ (~resource.fails /\ of.fails)
           ok == ~resource.fails /\ ~of.fails /\ stated.ok
<1>15. /\ theirs \in Seq(U) /\ Spread(theirs, H)
       /\ \A u \in Auth!ToSet(theirs) : u.place \in {"server", "openid", "below"} /\ u.origin = issuer.origin
       /\ ~resource.fails => theirs = of.asked
       /\ resource.fails => Auth!ToSet(theirs) = {}
  <2>1. CASE resource.fails
    <3> DEFINE none == <<>>
    <3>1. none \in Seq(U) /\ Len(none) = 0
      BY EmptySeq
    <3>2. theirs = none
      BY <2>1
    <3> HIDE DEF none, theirs
    <3>3. DOMAIN none = {}
      BY <3>1, OfASequence
    <3>4. Auth!ToSet(none) = {} /\ Spread(none, H)
      BY <3>3 DEF Auth!ToSet, Spread
    <3> QED
      BY <2>1, <3>1, <3>2, <3>4
  <2>2. CASE ~resource.fails
    <3>1. theirs = of.asked
      BY <2>2
    <3>2. of.asked \in Seq(U)
      BY <1>6 DEF Found
    <3> HIDE DEF theirs
    <3> QED
      BY <1>13, <1>14, <2>2, <3>1, <3>2
  <2> QED
    BY <2>1, <2>2
<1> HIDE DEF theirs
<1>16. /\ d.asked = resource.asked \o theirs /\ (d.fails <=> fails) /\ (d.ok <=> ok)
       /\ d.discovered = issuer /\ d.issuer = stated.issuer
       /\ d.token = (IF meta.token = "" THEN "default" ELSE meta.token)
       /\ d.resource = Auth!ToSet(resource.document) /\ d.scopes = (IF scopes = {} THEN meta.scopes ELSE scopes)
  BY <1>7 DEF theirs
<1>17. /\ Auth!ToSet(d.asked) = Auth!ToSet(resource.asked) \cup Auth!ToSet(theirs)
       /\ Spread(d.asked, H)
  <2>1. resource.asked \in Seq(U) /\ theirs \in Seq(U)
    BY <1>3, <1>15 DEF Found
  <2>2. Auth!ToSet(resource.asked \o theirs) = Auth!ToSet(resource.asked) \cup Auth!ToSet(theirs)
    <3> HIDE DEF U
    <3>1. Together(resource.asked, theirs)
      BY <2>1, AskedTogether
    <3> QED
      BY <3>1 DEF Together
  <2>3. \A u \in Auth!ToSet(resource.asked) : u \in Auth!ToSet(theirs) => u \in H
    BY <1>12, <1>15
  <2>4. Spread(resource.asked \o theirs, H)
    BY <1>14, <1>15, <2>1, <2>3, AskedInTurn
  <2> QED
    BY <1>16, <2>2, <2>4
<1>18. \A i \in DOMAIN d.asked : d.asked[i].origin \in {mcp.origin, d.discovered.origin} \cup {u.origin : u \in H}
  <2> SUFFICES ASSUME NEW i \in DOMAIN d.asked
               PROVE  d.asked[i].origin \in {mcp.origin, issuer.origin} \cup {u.origin : u \in H}
    BY <1>16
  <2>1. d.asked[i] \in Auth!ToSet(d.asked)
    BY DEF Auth!ToSet
  <2> QED
    BY <1>12, <1>15, <1>17, <2>1
<1>19. d.fails <=> \E i \in DOMAIN d.asked : Broken(net, d.asked[i])
  <2>1. (\E i \in DOMAIN d.asked : Broken(net, d.asked[i])) <=> \E u \in Auth!ToSet(d.asked) : Broken(net, u)
    BY DEF Auth!ToSet
  <2>2. resource.fails <=> \E u \in Auth!ToSet(resource.asked) : Broken(net, u)
    BY <1>3 DEF Found
  <2>3. of.fails <=> \E u \in Auth!ToSet(of.asked) : Broken(net, u)
    BY <1>6 DEF Found
  <2>4. CASE resource.fails
    BY <1>16, <1>17, <2>1, <2>2, <2>4
  <2>5. CASE ~resource.fails
    BY <1>15, <1>16, <1>17, <2>1, <2>2, <2>3, <2>5
  <2> QED
    BY <2>4, <2>5
<1>20. d.ok => /\ d.issuer.origin = d.discovered.origin /\ d.issuer.path = d.discovered.path
               /\ d.token # "default" =>
                    \E u \in Auth!ToSet(d.asked) : u \in DOMAIN net /\ u.place # "resource" /\ net[u].document.token = d.token
               /\ \A r \in d.resource : r.scopes # {} => d.scopes = r.scopes
  <2> SUFFICES ASSUME d.ok
               PROVE  /\ d.issuer.origin = d.discovered.origin /\ d.issuer.path = d.discovered.path
                      /\ d.token # "default" =>
                           \E u \in Auth!ToSet(d.asked) : u \in DOMAIN net /\ u.place # "resource" /\ net[u].document.token = d.token
                      /\ \A r \in d.resource : r.scopes # {} => d.scopes = r.scopes
    OBVIOUS
  <2>1. ~resource.fails /\ stated.ok
    BY <1>16
  <2>2. d.issuer.origin = d.discovered.origin /\ d.issuer.path = d.discovered.path
    BY <1>9, <1>16, <2>1
  <2>3. d.token # "default" =>
          \E u \in Auth!ToSet(d.asked) : u \in DOMAIN net /\ u.place # "resource" /\ net[u].document.token = d.token
    BY <1>10, <1>15, <1>16, <1>17, <2>1
  <2>4. \A r \in d.resource : r.scopes # {} => d.scopes = r.scopes
    BY <1>11, <1>16
  <2> QED
    BY <2>2, <2>3, <2>4
<1>21. \A i, j \in DOMAIN d.asked : i # j => d.asked[i] # d.asked[j] \/ d.asked[i] \in H
  BY <1>17 DEF Spread
<1> QED
  BY <1>18, <1>19, <1>20, <1>21 DEF Auth!DiscoveryIsTheirs, Broken, H
=============================================================================
