-------------------------- MODULE LongLivedProofs --------------------------
(***************************************************************************)
(* What is proved of the two processes that outlive a command: the daemon  *)
(* of src/daemon.rs, its socket and its relay, and the shell of src/shell. *)
(*                                                                         *)
(* The socket: for any number of daemons, commands, stops and kills, and   *)
(* however their looks at the path fall between each other's: a daemon     *)
(* that lives has the path, unless one that tried it before the daemon     *)
(* listened has removed it since, or one that lost its own path that way.  *)
(*                                                                         *)
(* The relay: for any callers and requests, whoever leaves, gives up or    *)
(* dies, the server's questions are answered once and no caller waits for  *)
(* what will never come.                                                   *)
(*                                                                         *)
(* The shell: for any lines typed and any server, whatever is said and     *)
(* when, and however often the session is lost: what the shell has of the  *)
(* lists and follows of the resources is at every prompt as new as what it *)
(* was told.                                                               *)
(***************************************************************************)
EXTENDS DaemonRelay, DaemonSocket, Shell, TLAPS

-----------------------------------------------------------------------------
(***************************************************************************)
(* The socket.                                                             *)
(***************************************************************************)

DaemonStates == {"unborn", "dialed", "saw", "stale", "absent", "bound",
                 "serving", "closing", "closed", "refused", "ended", "killed"}
CommandStates == {"fresh", "saw", "stale", "attached", "dialing"}
StopperStates == {"fresh", "saw", "stale", "running", "waiting", "stopped", "failed"}

(* The variables the argument is about have their types.                   *)
Typed ==
    /\ file \in Daemons \cup {NoOne}
    /\ open \subseteq Daemons
    /\ daemon \in [Daemons -> DaemonStates]
    /\ command \in [Commands -> CommandStates]
    /\ stopper \in [Stoppers -> StopperStates]
    /\ linked \in [Commands \cup Stoppers -> Daemons \cup {NoOne}]
    /\ upThen \in [Processes -> SUBSET Daemons]
    /\ lost \subseteq Daemons

\* The daemons that have ever accepted a connection.
Begun == {"serving", "closing", "closed", "ended", "killed"}

(* A socket accepts from the moment its daemon serves until it ends.       *)
Opened == \A d \in Daemons : d \in open <=> daemon[d] \in {"serving", "closing", "closed"}

(* Who lives and has not lost the path is the one the path names.          *)
PathKept == \A d \in Living : file = d \/ d \in lost

(* Who found the path stale was not looking at the path of any daemon that *)
(* listened then, and the path will not be that daemon's again.            *)
TriedOthers == \A x \in Processes : \A d \in upThen[x] : daemon[d] \in Begun /\ file # d

(* A daemon that was told to stop has begun to, and one whose path is gone *)
(* has closed its session, if the path was its own until then.             *)
Told ==
    \A s \in Stoppers :
        /\ stopper[s] \in {"waiting", "stopped"} =>
               linked[s] \in Daemons /\ daemon[linked[s]] \in {"closing", "closed", "ended", "killed"}
        /\ stopper[s] = "stopped" =>
               daemon[linked[s]] \in {"closed", "ended", "killed"} \/ linked[s] \in lost

Inv == Typed /\ Opened /\ PathKept /\ TriedOthers /\ Told

-----------------------------------------------------------------------------
LEMMA InitInv == SocketInit => Inv
<1> SUFFICES ASSUME SocketInit PROVE Inv
  OBVIOUS
<1>1. Typed
  BY DEF SocketInit, Typed, DaemonStates, CommandStates, StopperStates
<1>2. Opened /\ PathKept
  BY DEF SocketInit, Opened, PathKept, Living
<1>3. TriedOthers /\ Told
  BY DEF SocketInit, TriedOthers, Told
<1> QED
  BY <1>1, <1>2, <1>3 DEF Inv

LEMMA HistoryTyped ==
    ASSUME Typed, NEW x \in Processes
    PROVE  /\ FindsNobody(x) => upThen' \in [Processes -> SUBSET Daemons]
           /\ Removes(x) => /\ upThen' \in [Processes -> SUBSET Daemons]
                            /\ lost' \subseteq Daemons /\ file' = NoOne
  BY DEF Typed, FindsNobody, Removes, Living

LEMMA TypedStep == Typed /\ [SocketNext]_socketVars => Typed'
<1> SUFFICES ASSUME Typed, [SocketNext]_socketVars PROVE Typed'
  OBVIOUS
<1> USE DEF Typed, Becomes
<1>0. NoOne \notin open
  BY SocketConstants
<1>1. CASE UNCHANGED socketVars
  BY <1>1 DEF socketVars
<1>2. ASSUME NEW d \in Daemons, DaemonProcess(d) PROVE Typed'
  <2>0. d \in Processes
    BY DEF Processes
  <2>1. CASE Dial(d) \/ LookForSocket(d)
    BY <2>1 DEF Dial, LookForSocket, DaemonStates
  <2>2. CASE TrySocket(d) \/ RemoveStale(d)
    <3>1. upThen' \in [Processes -> SUBSET Daemons] /\ lost' \subseteq Daemons
      BY <2>0, <2>2, HistoryTyped DEF TrySocket, RemoveStale
    <3>2. file' \in Daemons \cup {NoOne}
      BY <2>0, <2>2, HistoryTyped DEF TrySocket, RemoveStale
    <3> QED
      BY <2>2, <3>1, <3>2 DEF TrySocket, RemoveStale, DaemonStates
  <2>3. CASE Bind(d) \/ StartListening(d)
    BY <2>3 DEF Bind, StartListening, DaemonStates
  <2>4. CASE StopServing(d) \/ CloseSession(d) \/ Kill(d)
    BY <2>4 DEF StopServing, CloseSession, Kill, DaemonStates
  <2>5. CASE End(d)
    BY <2>5 DEF End, Living, DaemonStates
  <2> QED
    BY <1>2, <2>1, <2>2, <2>3, <2>4, <2>5 DEF DaemonProcess
<1>3. ASSUME NEW c \in Commands, Command(c) PROVE Typed'
  <2>1. /\ upThen' \in [Processes -> SUBSET Daemons] /\ lost' \subseteq Daemons
        /\ file' \in Daemons \cup {NoOne}
    BY <1>3, HistoryTyped DEF Command, CommandLooks, CommandConnects, CommandRemoves, Processes
  <2> QED
    BY <1>3, <2>1 DEF Command, CommandLooks, CommandConnects, CommandRemoves, CommandStates
<1>4. ASSUME NEW s \in Stoppers, Stopper(s) PROVE Typed'
  <2>0. s \in Processes
    BY DEF Processes
  <2>1. CASE StopperLooks(s) \/ StopperTries(s) \/ StopperRemoves(s)
    <3>1. /\ upThen' \in [Processes -> SUBSET Daemons] /\ lost' \subseteq Daemons
          /\ file' \in Daemons \cup {NoOne}
      BY <2>0, <2>1, HistoryTyped DEF StopperLooks, StopperTries, StopperRemoves
    <3> QED
      BY <2>1, <3>1 DEF StopperLooks, StopperTries, StopperRemoves, StopperStates
  <2>2. CASE StopperConnects(s) \/ StopReturns(s)
    BY <2>2 DEF StopperConnects, StopReturns, StopperStates
  <2>3. CASE StopIsHeard(s)
    BY <2>3 DEF StopIsHeard, StopperStates, DaemonStates
  <2> QED
    BY <1>4, <2>1, <2>2, <2>3 DEF Stopper
<1> QED
  BY <1>1, <1>2, <1>3, <1>4 DEF SocketNext

-----------------------------------------------------------------------------
(* Who is attached, or was told that the daemon stops, has reached one.    *)
Linked ==
    /\ kills \in 0..MaxKills
    /\ \A c \in Commands : command[c] = "attached" => linked[c] # NoOne
    /\ \A s \in Stoppers : stopper[s] \in {"waiting", "stopped"} => linked[s] # NoOne

LEMMA LinkedStep == Typed /\ Linked /\ [SocketNext]_socketVars => Linked'
<1> SUFFICES ASSUME Typed, Linked, [SocketNext]_socketVars PROVE Linked'
  OBVIOUS
<1> USE DEF Typed, Linked
<1>0. Answers => file \in Daemons /\ file # NoOne
  BY SocketConstants DEF Answers
<1>1. CASE UNCHANGED socketVars
  BY <1>1 DEF socketVars
<1>2. ASSUME NEW d \in Daemons, DaemonProcess(d) PROVE Linked'
  <2>1. UNCHANGED <<command, stopper, linked>>
    BY <1>2 DEF DaemonProcess, Dial, LookForSocket, TrySocket, RemoveStale, Bind, StartListening,
                StopServing, CloseSession, End, Kill
  <2>2. kills' = kills \/ (kills < MaxKills /\ kills' = kills + 1)
    BY <1>2 DEF DaemonProcess, Dial, LookForSocket, TrySocket, RemoveStale, Bind, StartListening,
                StopServing, CloseSession, End, Kill
  <2>3. kills' \in 0..MaxKills
    BY <2>2, SocketConstants
  <2> QED
    BY <2>1, <2>3
<1>3. ASSUME NEW c \in Commands, Command(c) PROVE Linked'
  <2>1. UNCHANGED <<stopper, kills>>
    BY <1>3 DEF Command, CommandLooks, CommandConnects, CommandRemoves
  <2>2. \A x \in Commands \cup Stoppers : x # c => linked'[x] = linked[x]
    BY <1>3 DEF Command, CommandLooks, CommandConnects, CommandRemoves
  <2>3. \A b \in Commands : b # c => command'[b] = command[b]
    BY <1>3 DEF Command, CommandLooks, CommandConnects, CommandRemoves
  <2>4. command'[c] = "attached" => linked'[c] # NoOne
    BY <1>0, <1>3 DEF Command, CommandLooks, CommandConnects, CommandRemoves
  <2>5. \A s \in Stoppers : s # c
    BY SocketConstants
  <2> QED
    BY <2>1, <2>2, <2>3, <2>4, <2>5
<1>4. ASSUME NEW s \in Stoppers, Stopper(s) PROVE Linked'
  <2>1. UNCHANGED <<command, kills>>
    BY <1>4 DEF Stopper, StopperLooks, StopperTries, StopperRemoves, StopperConnects, StopIsHeard,
                StopReturns
  <2>2. linked' = linked \/ (linked[s] = NoOne /\ linked' = [linked EXCEPT ![s] = file] /\ Answers)
    BY <1>4 DEF Stopper, StopperLooks, StopperTries, StopperRemoves, StopperConnects, StopIsHeard,
                StopReturns
  <2>3. \A r \in Stoppers : r # s => stopper'[r] = stopper[r]
    BY <1>4 DEF Stopper, StopperLooks, StopperTries, StopperRemoves, StopperConnects, StopIsHeard,
                StopReturns
  <2>4. stopper'[s] \in {"waiting", "stopped"} => linked[s] # NoOne
    <3>1. CASE StopperLooks(s) \/ StopperTries(s) \/ StopperRemoves(s)
      BY <3>1 DEF StopperLooks, StopperTries, StopperRemoves
    <3>2. CASE StopperConnects(s)
      BY <3>2 DEF StopperConnects
    <3>3. CASE StopIsHeard(s) \/ StopReturns(s)
      BY <3>3 DEF StopIsHeard, StopReturns
    <3> QED
      BY <1>4, <3>1, <3>2, <3>3 DEF Stopper
  <2>5. \A x \in Commands \cup Stoppers : linked[x] # NoOne => linked'[x] # NoOne
    BY <1>0, <2>2
  <2>6. \A r \in Stoppers : stopper'[r] \in {"waiting", "stopped"} => linked'[r] # NoOne
    BY <2>3, <2>4, <2>5
  <2> QED
    BY <2>1, <2>5, <2>6
<1> QED
  BY <1>1, <1>2, <1>3, <1>4 DEF SocketNext

(* However many processes look at the path at once, nobody is attached to, *)
(* or waits to hear from, a daemon it never reached (attach, stop).        *)
THEOREM SocketTypeCorrect == SocketSpec => []SocketTypeOK
<1>1. SocketInit => Typed /\ Linked
  BY InitInv, SocketConstants DEF Inv, SocketInit, Linked
<1>2. Typed /\ Linked => SocketTypeOK
  BY DEF Typed, Linked, SocketTypeOK, DaemonStates, CommandStates, StopperStates
<1> QED
  BY <1>1, <1>2, TypedStep, LinkedStep, PTL DEF SocketSpec

-----------------------------------------------------------------------------
(* Whose the path is.                                                      *)

\* What a step of one daemon leaves as it was of the others.
LEMMA OthersStay ==
    ASSUME Typed, NEW d \in Daemons, DaemonProcess(d)
    PROVE  /\ UNCHANGED <<command, stopper, linked>>
           /\ \A e \in Daemons : e # d => daemon'[e] = daemon[e]
           /\ \A e \in Daemons : e # d => (e \in open' <=> e \in open)
           /\ daemon[d] \in Begun => daemon'[d] \in Begun
  BY DEF Typed, Becomes, Removes, Begun, DaemonProcess, Dial, LookForSocket, TrySocket,
         RemoveStale, Bind, StartListening, StopServing, CloseSession, End, Kill

LEMMA OpenedStep ==
    ASSUME Typed, Opened, [SocketNext]_socketVars
    PROVE  Opened'
<1> USE DEF Typed, Opened, Becomes
<1>1. CASE UNCHANGED socketVars
  BY <1>1 DEF socketVars
<1>2. ASSUME NEW d \in Daemons, DaemonProcess(d) PROVE Opened'
  <2>1. d \in open' <=> daemon'[d] \in {"serving", "closing", "closed"}
    <3>1. CASE Dial(d) \/ LookForSocket(d) \/ TrySocket(d) \/ RemoveStale(d) \/ Bind(d)
      BY <3>1 DEF Dial, LookForSocket, TrySocket, RemoveStale, Bind
    <3>2. CASE StartListening(d) \/ StopServing(d) \/ CloseSession(d) \/ End(d) \/ Kill(d)
      BY <3>2 DEF StartListening, StopServing, CloseSession, End, Kill
    <3> QED
      BY <1>2, <3>1, <3>2 DEF DaemonProcess
  <2> QED
    BY <1>2, <2>1, OthersStay
<1>3. ASSUME NEW c \in Commands, Command(c) PROVE Opened'
  BY <1>3 DEF Command, CommandLooks, CommandConnects, CommandRemoves
<1>4. ASSUME NEW s \in Stoppers, Stopper(s) PROVE Opened'
  <2>1. CASE StopIsHeard(s)
    BY <2>1 DEF StopIsHeard
  <2>2. CASE ~StopIsHeard(s)
    BY <1>4, <2>2 DEF Stopper, StopperLooks, StopperTries, StopperRemoves, StopperConnects,
                      StopReturns
  <2> QED
    BY <2>1, <2>2
<1> QED
  BY <1>1, <1>2, <1>3, <1>4 DEF SocketNext

\* Whoever removes a path it found stale takes it from nobody it could have
\* heard: a living daemon that had the path has lost it to the race.
LEMMA RemovedIsLost ==
    ASSUME Typed, TriedOthers, NEW x \in Processes, Removes(x), UNCHANGED <<open>>
    PROVE  /\ lost \subseteq lost' /\ file' = NoOne
           /\ \A d \in Living : file = d => d \in lost'
<1>1. \A d \in Living : file = d => d \notin upThen[x]
  BY DEF TriedOthers, Living
<1> QED
  BY <1>1 DEF Removes

\* Who lives after a step that moves no daemon lived before it.
LEMMA PathStep ==
    ASSUME Typed, PathKept, TriedOthers, [SocketNext]_socketVars
    PROVE  PathKept'
<1> USE DEF PathKept, Living
<1>1. CASE UNCHANGED socketVars
  BY <1>1 DEF socketVars
<1>2. ASSUME NEW d \in Daemons, DaemonProcess(d) PROVE PathKept'
  <2>0. \A e \in Daemons : e # d => daemon'[e] = daemon[e]
    BY <1>2, OthersStay
  <2>1. CASE Dial(d) \/ LookForSocket(d) \/ TrySocket(d)
    BY <2>1 DEF Typed, Becomes, Dial, LookForSocket, TrySocket
  <2>2. CASE RemoveStale(d)
    <3>1. d \in Processes /\ Removes(d) /\ daemon'[d] = "absent" /\ UNCHANGED open
      BY <2>2 DEF Typed, Becomes, RemoveStale, Processes
    <3>2. lost \subseteq lost' /\ \A e \in Living : file = e => e \in lost'
      BY <3>1, RemovedIsLost
    <3> QED
      BY <2>0, <3>1, <3>2
  <2>3. CASE Bind(d)
    BY <2>3, SocketConstants DEF Typed, Becomes, Bind, Exists
  <2>4. CASE StartListening(d) \/ StopServing(d) \/ CloseSession(d) \/ Kill(d)
    BY <2>4 DEF Typed, Becomes, StartListening, StopServing, CloseSession, Kill
  <2>5. CASE End(d)
    <3>1. daemon'[d] = "ended" /\ d \in Living
      BY <2>5 DEF Typed, Becomes, End
    <3>2. CASE d \in lost
      <4>1. lost' = lost \cup (Living \cap {file})
        BY <2>5, <3>2 DEF End
      <4> QED
        BY <2>0, <3>1, <4>1
    <3>3. CASE d \notin lost
      <4>1. file = d /\ lost' = lost
        BY <2>5, <3>1, <3>3 DEF End
      <4> QED
        BY <2>0, <3>1, <4>1
    <3> QED
      BY <3>2, <3>3
  <2> QED
    BY <1>2, <2>1, <2>2, <2>3, <2>4, <2>5 DEF DaemonProcess
<1>3. ASSUME NEW c \in Commands, Command(c) PROVE PathKept'
  <2>1. CASE CommandLooks(c) \/ CommandConnects(c)
    BY <2>1 DEF CommandLooks, CommandConnects
  <2>2. CASE CommandRemoves(c)
    <3>1. c \in Processes /\ Removes(c) /\ UNCHANGED <<open, daemon>>
      BY <2>2 DEF CommandRemoves, Processes
    <3> QED
      BY <3>1, RemovedIsLost
  <2> QED
    BY <1>3, <2>1, <2>2 DEF Command
<1>4. ASSUME NEW s \in Stoppers, Stopper(s) PROVE PathKept'
  <2>1. CASE StopperLooks(s) \/ StopperTries(s) \/ StopperConnects(s) \/ StopReturns(s)
    BY <2>1 DEF StopperLooks, StopperTries, StopperConnects, StopReturns
  <2>2. CASE StopperRemoves(s)
    <3>1. s \in Processes /\ Removes(s) /\ UNCHANGED <<open, daemon>>
      BY <2>2 DEF StopperRemoves, Processes
    <3> QED
      BY <3>1, RemovedIsLost
  <2>3. CASE StopIsHeard(s)
    BY <2>3 DEF Typed, StopIsHeard
  <2> QED
    BY <1>4, <2>1, <2>2, <2>3 DEF Stopper
<1> QED
  BY <1>1, <1>2, <1>3, <1>4 DEF SocketNext

\* Trying the path adds nobody who has it, and removing it forgets the try.
LEMMA TryStep ==
    ASSUME Typed, Opened, TriedOthers, NEW x \in Processes,
           \/ FindsNobody(x) /\ ~Answers /\ UNCHANGED file
           \/ Removes(x),
           \A d \in Daemons : daemon[d] \in Begun => daemon'[d] \in Begun
    PROVE  TriedOthers'
<1>1. \A y \in Processes : y # x => upThen'[y] = upThen[y]
  BY DEF Typed, FindsNobody, Removes
<1>2. CASE FindsNobody(x) /\ ~Answers /\ UNCHANGED file
  <2>1. upThen'[x] = open
    BY <1>2 DEF Typed, FindsNobody
  <2>2. \A d \in open : daemon'[d] \in Begun /\ file' # d
    BY <1>2 DEF Typed, Opened, Answers, Begun
  <2>3. ASSUME NEW y \in Processes, NEW d \in upThen'[y], y # x
        PROVE  daemon'[d] \in Begun /\ file' # d
    BY <1>1, <1>2, <2>3 DEF Typed, TriedOthers
  <2> QED
    BY <2>1, <2>2, <2>3 DEF TriedOthers
<1>3. CASE Removes(x)
  <2>1. upThen'[x] = {} /\ file' = NoOne
    BY <1>3 DEF Typed, Removes
  <2>2. ASSUME NEW y \in Processes, NEW d \in upThen'[y], y # x
        PROVE  daemon'[d] \in Begun /\ file' # d
    BY <1>1, <2>1, <2>2, SocketConstants DEF Typed, TriedOthers
  <2> QED
    BY <2>1, <2>2 DEF TriedOthers
<1> QED
  BY <1>2, <1>3

LEMMA TriedStep ==
    ASSUME Typed, Opened, TriedOthers, [SocketNext]_socketVars
    PROVE  TriedOthers'
<1>0. /\ Daemons \subseteq Processes /\ Commands \subseteq Processes
      /\ Stoppers \subseteq Processes
  BY DEF Processes
<1>1. CASE UNCHANGED socketVars
  BY <1>1 DEF socketVars, TriedOthers
<1>2. ASSUME NEW d \in Daemons, DaemonProcess(d) PROVE TriedOthers'
  <2>0. \A e \in Daemons : daemon[e] \in Begun => daemon'[e] \in Begun
    BY <1>2, OthersStay
  <2>1. CASE TrySocket(d)
    <3>1. CASE Answers
      BY <2>0, <2>1, <3>1 DEF Typed, TriedOthers, TrySocket
    <3>2. CASE ~Answers
      BY <1>0, <2>0, <2>1, <3>2, TryStep DEF TrySocket
    <3> QED
      BY <3>1, <3>2
  <2>2. CASE RemoveStale(d)
    BY <1>0, <2>0, <2>2, TryStep DEF RemoveStale
  <2>3. CASE Bind(d)
    <3>1. UNCHANGED upThen /\ (file' = file \/ file' = d) /\ daemon[d] \notin Begun
      BY <2>3 DEF Bind, Begun
    <3> QED
      BY <2>0, <3>1 DEF Typed, TriedOthers
  <2>4. CASE End(d)
    <3>1. UNCHANGED upThen /\ file' = NoOne
      BY <2>4 DEF End
    <3> QED
      BY <2>0, <3>1, SocketConstants DEF Typed, TriedOthers
  <2>5. CASE \/ Dial(d) \/ LookForSocket(d) \/ StartListening(d) \/ StopServing(d)
             \/ CloseSession(d) \/ Kill(d)
    <3>1. UNCHANGED <<upThen, file>>
      BY <2>5 DEF Dial, LookForSocket, StartListening, StopServing, CloseSession, Kill
    <3> QED
      BY <2>0, <3>1 DEF Typed, TriedOthers
  <2> QED
    BY <1>2, <2>1, <2>2, <2>3, <2>4, <2>5 DEF DaemonProcess
<1>3. ASSUME NEW c \in Commands, Command(c) PROVE TriedOthers'
  <2>0. UNCHANGED daemon
    BY <1>3 DEF Command, CommandLooks, CommandConnects, CommandRemoves
  <2>1. CASE CommandLooks(c)
    BY <2>1 DEF CommandLooks, TriedOthers
  <2>2. CASE CommandConnects(c)
    <3>1. CASE Answers
      BY <2>2, <3>1 DEF TriedOthers, CommandConnects
    <3>2. CASE ~Answers
      BY <1>0, <2>0, <2>2, <3>2, TryStep DEF CommandConnects
    <3> QED
      BY <3>1, <3>2
  <2>3. CASE CommandRemoves(c)
    BY <1>0, <2>0, <2>3, TryStep DEF CommandRemoves
  <2> QED
    BY <1>3, <2>1, <2>2, <2>3 DEF Command
<1>4. ASSUME NEW s \in Stoppers, Stopper(s) PROVE TriedOthers'
  <2>1. CASE StopperLooks(s) \/ StopperConnects(s) \/ StopReturns(s)
    BY <2>1 DEF StopperLooks, StopperConnects, StopReturns, TriedOthers
  <2>2. CASE StopperTries(s)
    <3>1. CASE Answers
      BY <2>2, <3>1 DEF TriedOthers, StopperTries
    <3>2. CASE ~Answers
      BY <1>0, <2>2, <3>2, TryStep DEF StopperTries
    <3> QED
      BY <3>1, <3>2
  <2>3. CASE StopperRemoves(s)
    BY <1>0, <2>3, TryStep DEF StopperRemoves
  <2>4. CASE StopIsHeard(s)
    <3>1. /\ UNCHANGED <<upThen, file>>
          /\ \A e \in Daemons : daemon[e] \in Begun => daemon'[e] \in Begun
      BY <2>4 DEF Typed, StopIsHeard, Begun
    <3> QED
      BY <3>1 DEF Typed, TriedOthers
  <2> QED
    BY <1>4, <2>1, <2>2, <2>3, <2>4 DEF Stopper
<1> QED
  BY <1>1, <1>2, <1>3, <1>4 DEF SocketNext

LEMMA LostStays == [SocketNext]_socketVars => lost \subseteq lost'
  BY DEF SocketNext, socketVars, DaemonProcess, Dial, LookForSocket, TrySocket, RemoveStale, Bind,
         StartListening, StopServing, CloseSession, End, Kill, Command, CommandLooks,
         CommandConnects, CommandRemoves, Stopper, StopperLooks, StopperTries, StopperRemoves,
         StopperConnects, StopIsHeard, StopReturns, Removes

LEMMA ToldStep ==
    ASSUME Typed, PathKept, Told, [SocketNext]_socketVars
    PROVE  Told'
<1> USE DEF Told, Becomes
<1>0. lost \subseteq lost'
  BY LostStays
<1>1. CASE UNCHANGED socketVars
  BY <1>1 DEF socketVars
<1>2. ASSUME NEW d \in Daemons, DaemonProcess(d) PROVE Told'
  <2>1. /\ UNCHANGED <<stopper, linked>>
        /\ \A e \in Daemons : e # d => daemon'[e] = daemon[e]
    BY <1>2, OthersStay
  <2>2. /\ daemon[d] \in {"closing", "closed", "ended", "killed"} =>
               daemon'[d] \in {"closing", "closed", "ended", "killed"}
        /\ daemon[d] \in {"closed", "ended", "killed"} => daemon'[d] \in {"closed", "ended", "killed"}
    BY <1>2 DEF Typed, DaemonProcess, Dial, LookForSocket, TrySocket, RemoveStale, Bind,
                StartListening, StopServing, CloseSession, End, Kill
  <2> QED
    BY <1>0, <2>1, <2>2
<1>3. ASSUME NEW c \in Commands, Command(c) PROVE Told'
  <2>1. UNCHANGED <<stopper, daemon>> /\ \A s \in Stoppers : linked'[s] = linked[s]
    BY <1>3, SocketConstants DEF Typed, Command, CommandLooks, CommandConnects, CommandRemoves
  <2> QED
    BY <1>0, <2>1
<1>4. ASSUME NEW s \in Stoppers, Stopper(s) PROVE Told'
  <2>1. CASE StopperLooks(s) \/ StopperTries(s) \/ StopperRemoves(s)
    BY <1>0, <2>1 DEF Typed, StopperLooks, StopperTries, StopperRemoves
  <2>2. CASE StopperConnects(s)
    <3>1. /\ stopper[s] = "running" /\ stopper'[s] \in {"running", "failed"}
          /\ \A r \in Stoppers : r # s => stopper'[r] = stopper[r] /\ linked'[r] = linked[r]
          /\ UNCHANGED daemon
      BY <2>2 DEF Typed, StopperConnects
    <3> QED
      BY <1>0, <3>1
  <2>3. CASE StopIsHeard(s)
    <3>1. linked[s] \in Daemons
      BY <2>3 DEF Typed, StopIsHeard
    <3>2. CASE daemon[linked[s]] = "serving"
      <4>1. /\ stopper'[s] = "waiting" /\ daemon'[linked[s]] = "closing" /\ UNCHANGED linked
            /\ \A r \in Stoppers : r # s => stopper'[r] = stopper[r]
            /\ \A e \in Daemons : e # linked[s] => daemon'[e] = daemon[e]
        BY <2>3, <3>1, <3>2 DEF Typed, StopIsHeard
      <4>2. ASSUME NEW r \in Stoppers, r # s PROVE
              /\ stopper'[r] \in {"waiting", "stopped"} =>
                   linked[r] \in Daemons /\ daemon'[linked[r]] \in {"closing", "closed", "ended", "killed"}
              /\ stopper'[r] = "stopped" =>
                   daemon'[linked[r]] \in {"closed", "ended", "killed"} \/ linked[r] \in lost'
        BY <1>0, <3>2, <4>1, <4>2
      <4> QED
        BY <3>1, <4>1, <4>2
    <3>3. CASE daemon[linked[s]] # "serving"
      BY <1>0, <2>3, <3>3 DEF Typed, StopIsHeard
    <3> QED
      BY <3>2, <3>3
  <2>4. CASE StopReturns(s)
    <3>1. /\ stopper[s] = "waiting" /\ UNCHANGED <<file, daemon, linked, lost>>
          /\ stopper'[s] = (IF Exists THEN "failed" ELSE "stopped")
          /\ \A r \in Stoppers : r # s => stopper'[r] = stopper[r]
      BY <2>4 DEF Typed, StopReturns
    <3>2. ~Exists /\ daemon[linked[s]] = "closing" => linked[s] \in lost
      BY <3>1, SocketConstants DEF PathKept, Living, Exists
    <3> QED
      BY <3>1, <3>2
  <2> QED
    BY <1>4, <2>1, <2>2, <2>3, <2>4 DEF Stopper
<1> QED
  BY <1>1, <1>2, <1>3, <1>4 DEF SocketNext

LEMMA InvHolds == SocketSpec => []Inv
<1>1. Inv /\ [SocketNext]_socketVars => Inv'
  BY TypedStep, OpenedStep, PathStep, TriedStep, ToldStep DEF Inv
<1> QED
  BY <1>1, InitInv, PTL DEF SocketSpec

-----------------------------------------------------------------------------
(* However many daemons, commands and stops look at the path at once: one  *)
(* that serves keeps it, except from one that tried the path before the    *)
(* daemon listened and removes it after, or from a daemon that lost its    *)
(* own like that and ends ("a live one is left alone"; start, attach,      *)
(* stop, serve).                                                           *)
THEOREM LiveIsLeftAlone == SocketSpec => LiveLeftAlone
<1>1. Inv /\ [SocketNext]_socketVars =>
        [\A d \in Listening : file = d => file' = d \/ d \in lost']_socketVars
  <2> SUFFICES ASSUME Inv, SocketNext, NEW d \in Daemons, daemon[d] = "serving", file = d
               PROVE  file' = d \/ d \in lost'
    BY DEF Listening
  <2>0. d \in Living /\ Typed /\ TriedOthers /\ PathKept
    BY DEF Inv, Living
  <2>1. ASSUME NEW e \in Daemons, DaemonProcess(e) PROVE file' = d \/ d \in lost'
    <3>1. CASE Bind(e)
      BY <3>1, SocketConstants DEF Bind, Exists
    <3>2. CASE RemoveStale(e)
      BY <2>0, <3>2, RemovedIsLost DEF RemoveStale, Processes
    <3>3. CASE End(e)
      <4>1. e \in Living /\ e # d
        BY <3>3 DEF End, Living
      <4>2. e \in lost
        BY <2>0, <4>1 DEF PathKept
      <4> QED
        BY <2>0, <3>3, <4>2 DEF End
    <3>4. CASE ~Bind(e) /\ ~RemoveStale(e) /\ ~End(e)
      BY <2>1, <3>4 DEF DaemonProcess, Dial, LookForSocket, TrySocket, StartListening,
                        StopServing, CloseSession, Kill
    <3> QED
      BY <3>1, <3>2, <3>3, <3>4
  <2>2. ASSUME NEW c \in Commands, Command(c) PROVE file' = d \/ d \in lost'
    <3>1. CASE CommandRemoves(c)
      BY <2>0, <3>1, RemovedIsLost DEF CommandRemoves, Processes
    <3>2. CASE ~CommandRemoves(c)
      BY <2>2, <3>2 DEF Command, CommandLooks, CommandConnects
    <3> QED
      BY <3>1, <3>2
  <2>3. ASSUME NEW s \in Stoppers, Stopper(s) PROVE file' = d \/ d \in lost'
    <3>1. CASE StopperRemoves(s)
      BY <2>0, <3>1, RemovedIsLost DEF StopperRemoves, Processes
    <3>2. CASE ~StopperRemoves(s)
      BY <2>3, <3>2 DEF Stopper, StopperLooks, StopperTries, StopperConnects, StopIsHeard,
                        StopReturns
    <3> QED
      BY <3>1, <3>2
  <2> QED
    BY <2>1, <2>2, <2>3 DEF SocketNext
<1> QED
  BY <1>1, InvHolds, PTL DEF SocketSpec, LiveLeftAlone

(* However the looks at the path fall: when stop says stopped, the daemon  *)
(* it told has closed its session, so that the server is gone, or had lost *)
(* its path to the race before (stop).                                     *)
THEOREM StopIsTrue == SocketSpec => []StoppedMeansClosed
<1>1. Inv => StoppedMeansClosed
  BY DEF Inv, Told, StoppedMeansClosed
<1> QED
  BY <1>1, InvHolds, PTL

(* Whatever is started, killed and stopped, and at the same time: of the   *)
(* daemons of a name that live at once, all but one have lost the path to  *)
(* the race, so that two starts alone, with no socket there or with one    *)
(* that a killed daemon left, give one daemon unless one of them removes   *)
(* what it tried before the other listened (start, serve).                 *)
THEOREM OneDaemonOfAName == SocketSpec => []OneLives
<1>1. Inv => OneLives
  BY DEF Inv, PathKept, OneLives
<1> QED
  BY <1>1, InvHolds, PTL

-----------------------------------------------------------------------------
(* Between those that did reach each other, whose the path is by then does *)
(* not matter.                                                             *)
OpenIsAlive == \A d \in Daemons : d \in open => daemon[d] \in {"serving", "closing", "closed"}

ReachedOnes == \A x \in Commands \cup Stoppers : linked[x] # NoOne => daemon[linked[x]] \in Begun

Heeded ==
    \A s \in Stoppers : stopper[s] \in {"waiting", "stopped"} =>
        linked[s] # NoOne /\ daemon[linked[s]] \in Begun \ {"serving"}

ReachInv == OpenIsAlive /\ ReachedOnes /\ Heeded

LEMMA ReachStep == Typed /\ ReachInv /\ [SocketNext]_socketVars => ReachInv'
<1> SUFFICES ASSUME Typed, ReachInv, [SocketNext]_socketVars PROVE ReachInv'
  OBVIOUS
<1> USE DEF ReachInv, OpenIsAlive, ReachedOnes, Heeded, Begun
<1>0. /\ Answers => file \in Daemons /\ daemon[file] \in {"serving", "closing", "closed"}
      /\ \A x \in Commands \cup Stoppers : linked[x] # NoOne => linked[x] \in Daemons
  BY SocketConstants DEF Answers, Typed
<1>1. CASE UNCHANGED socketVars
  BY <1>1 DEF socketVars
<1>2. ASSUME NEW d \in Daemons, DaemonProcess(d) PROVE ReachInv'
  <2>1. /\ UNCHANGED <<stopper, linked>>
        /\ \A e \in Daemons : e # d => daemon'[e] = daemon[e] /\ (e \in open' => e \in open)
    BY <1>2 DEF Typed, Becomes, DaemonProcess, Dial, LookForSocket, TrySocket, RemoveStale, Bind,
                StartListening, StopServing, CloseSession, End, Kill
  <2>2. /\ daemon[d] \in Begun => daemon'[d] \in Begun
        /\ daemon[d] \in Begun \ {"serving"} => daemon'[d] \in Begun \ {"serving"}
    BY <1>2 DEF Typed, Becomes, DaemonProcess, Dial, LookForSocket, TrySocket, RemoveStale, Bind,
                StartListening, StopServing, CloseSession, End, Kill
  <2>3. d \in open' => daemon'[d] \in {"serving", "closing", "closed"}
    <3>1. CASE Dial(d) \/ LookForSocket(d) \/ TrySocket(d) \/ RemoveStale(d) \/ Bind(d)
      BY <3>1 DEF Typed, Becomes, Dial, LookForSocket, TrySocket, RemoveStale, Bind
    <3>2. CASE StartListening(d) \/ StopServing(d) \/ CloseSession(d)
      BY <3>2 DEF Typed, Becomes, StartListening, StopServing, CloseSession
    <3>3. CASE End(d) \/ Kill(d)
      BY <3>3 DEF Typed, Becomes, End, Kill
    <3> QED
      BY <1>2, <3>1, <3>2, <3>3 DEF DaemonProcess
  <2> QED
    BY <1>0, <2>1, <2>2, <2>3
<1>3. ASSUME NEW c \in Commands, Command(c) PROVE ReachInv'
  <2>1. UNCHANGED <<open, daemon, stopper>>
    BY <1>3 DEF Command, CommandLooks, CommandConnects, CommandRemoves
  <2>2. linked' = linked \/ (Answers /\ linked' = [linked EXCEPT ![c] = file])
    BY <1>3 DEF Command, CommandLooks, CommandConnects, CommandRemoves
  <2>3. \A s \in Stoppers : linked'[s] = linked[s]
    BY <2>2, SocketConstants DEF Typed
  <2> QED
    BY <1>0, <2>1, <2>2, <2>3 DEF Typed
<1>4. ASSUME NEW s \in Stoppers, Stopper(s) PROVE ReachInv'
  <2>1. CASE StopperLooks(s) \/ StopperTries(s) \/ StopperRemoves(s)
    BY <2>1 DEF Typed, StopperLooks, StopperTries, StopperRemoves
  <2>2. CASE StopperConnects(s)
    <3>1. /\ stopper'[s] \in {"running", "failed"} /\ UNCHANGED <<open, daemon>>
          /\ \A r \in Stoppers : r # s => stopper'[r] = stopper[r]
      BY <2>2 DEF Typed, StopperConnects
    <3>2. linked' = linked \/ (Answers /\ linked' = [linked EXCEPT ![s] = file])
      BY <2>2 DEF StopperConnects
    <3>3. \A x \in Commands \cup Stoppers : x # s => linked'[x] = linked[x]
      BY <3>2 DEF Typed
    <3> QED
      BY <1>0, <3>1, <3>2, <3>3 DEF Typed
  <2>3. CASE StopIsHeard(s)
    <3>1. linked[s] \in Daemons /\ linked[s] # NoOne /\ UNCHANGED <<open, linked>>
      BY <1>0, <2>3 DEF Typed, StopIsHeard
    <3>2. CASE daemon[linked[s]] = "serving"
      <4>1. /\ stopper'[s] = "waiting" /\ daemon'[linked[s]] = "closing"
            /\ \A r \in Stoppers : r # s => stopper'[r] = stopper[r]
            /\ \A e \in Daemons : e # linked[s] => daemon'[e] = daemon[e]
        BY <2>3, <3>1, <3>2 DEF Typed, StopIsHeard
      <4>2. OpenIsAlive' /\ ReachedOnes'
        BY <1>0, <3>1, <4>1
      <4>3. Heeded'
        BY <1>0, <3>1, <4>1
      <4> QED
        BY <4>2, <4>3
    <3>3. CASE daemon[linked[s]] # "serving"
      BY <2>3, <3>1, <3>3 DEF Typed, StopIsHeard
    <3> QED
      BY <3>2, <3>3
  <2>4. CASE StopReturns(s)
    BY <2>4 DEF Typed, StopReturns
  <2> QED
    BY <1>4, <2>1, <2>2, <2>3, <2>4 DEF Stopper
<1> QED
  BY <1>1, <1>2, <1>3, <1>4 DEF SocketNext

(* Whoever looks at the path and when, also at the same time: a daemon     *)
(* that acknowledged a stop serves nobody again, though its path may be    *)
(* another's by then, and a socket that accepts is of a process that       *)
(* serves or is about to end (attach, stop, serve).                        *)
THEOREM StopIsHeeded == SocketSpec => [](Heeded /\ OpenIsAlive)
<1>1. SocketInit => Typed /\ ReachInv
  BY InitInv DEF Inv, SocketInit, ReachInv, OpenIsAlive, ReachedOnes, Heeded
<1>2. ReachInv => Heeded /\ OpenIsAlive
  BY DEF ReachInv
<1> QED
  BY <1>1, <1>2, TypedStep, ReachStep, PTL DEF SocketSpec

-----------------------------------------------------------------------------
(***************************************************************************)
(* The relay.                                                              *)
(***************************************************************************)

\* A line a caller wrote that is not an answer is a request of its own.
OwnLine(c, msg) ==
    msg.method => msg.tag \in Requests /\ By[msg.tag] = c /\ msg.id = WireId[msg.tag]

(* What is on the way to the daemon, waited for or in flight is its        *)
(* caller's own; a caller that has not come has said and heard nothing,    *)
(* and one that has left hears nothing.                                    *)
OwnLines ==
    /\ \A c \in Callers : \A i \in 1..Len(up[c]) : OwnLine(c, up[c][i])
    /\ \A c \in Callers : wants[c] # None => By[wants[c]] = c
    /\ inFlight # None => By[inFlight] = serving
    /\ \A c \in Callers : at[c] = "away" =>
         up[c] = <<>> /\ down[c] = <<>> /\ serving # c /\ ~Queued(c)
    /\ \A c \in Callers : at[c] = "left" => down[c] = <<>>

RelayInv == TypeOK /\ OwnLines

-----------------------------------------------------------------------------
(* Lines and the channels they are on.                                     *)

LEMMA AppendIs ==
    ASSUME NEW s \in Seq(Line), NEW msg \in Line
    PROVE  /\ Append(s, msg) \in Seq(Line) /\ Len(s) \in Nat /\ Len(Append(s, msg)) = Len(s) + 1
           /\ Append(s, msg)[Len(s) + 1] = msg
           /\ \A i \in 1..Len(s) : Append(s, msg)[i] = s[i]
  OBVIOUS

LEMMA TailIs ==
    ASSUME NEW s \in Seq(Line), s # <<>>
    PROVE  /\ Tail(s) \in Seq(Line) /\ Head(s) \in Line /\ Head(s) = s[1] /\ 1 \in 1..Len(s)
           /\ Len(s) \in Nat /\ Len(Tail(s)) = Len(s) - 1
           /\ \A i \in 1..Len(Tail(s)) : i + 1 \in 1..Len(s) /\ Tail(s)[i] = s[i + 1]
  <1>1. Len(s) \in Nat /\ Len(s) # 0
    OBVIOUS
  <1> QED
    BY <1>1

LEMMA WritesIs ==
    ASSUME NEW channel \in [Callers -> Seq(Line)], NEW c \in Callers, NEW msg \in Line
    PROVE  /\ Writes(channel, c, msg) \in [Callers -> Seq(Line)]
           /\ Writes(channel, c, msg)[c] = Append(channel[c], msg)
           /\ \A d \in Callers : d # c => Writes(channel, c, msg)[d] = channel[d]
  BY DEF Writes

LEMMA ReadsIs ==
    ASSUME NEW channel \in [Callers -> Seq(Line)], NEW c \in Callers, channel[c] # <<>>
    PROVE  /\ Reads(channel, c) \in [Callers -> Seq(Line)]
           /\ Reads(channel, c)[c] = Tail(channel[c])
           /\ \A d \in Callers : d # c => Reads(channel, c)[d] = channel[d]
  BY TailIs DEF Reads

LEMMA LinesAre ==
    /\ \A r \in Requests : RequestLine(r) \in Line /\ ErrorReply(r) \in Line
    /\ \A id \in Nat, of \in Nat : Reply(id, of) \in Line
    /\ \A id \in Nat : Ask(id) \in Line /\ Note(id) \in Line /\ AnswerTo(id) \in Line
  BY RelayConstants DEF RequestLine, ErrorReply, Reply, Ask, Note, AnswerTo, NoId, None, Line

\* What is told is told the one served, if it is there.
LEMMA TellsIs ==
    ASSUME TypeOK, serving \in Callers, NEW msg \in Line, Tells(msg)
    PROVE  /\ down' \in [Callers -> Seq(Line)]
           /\ \A d \in Callers : d # serving => down'[d] = down[d]
           /\ Here(serving) => down'[serving] = Append(down[serving], msg)
           /\ ~Here(serving) => down'[serving] = down[serving]
  <1>1. down \in [Callers -> Seq(Line)]
    BY DEF TypeOK
  <1>2. CASE Here(serving)
    BY <1>1, <1>2, WritesIs DEF Tells
  <1>3. CASE ~Here(serving)
    BY <1>1, <1>3 DEF Tells
  <1> QED
    BY <1>2, <1>3

-----------------------------------------------------------------------------
(* Steps of the relay alike in what they do.                               *)

\* The request is over: the caller is told, and served on, if it is there.
Over(msg) ==
    /\ Tells(msg)
    /\ inFlight' = None /\ asking' = NoId
    /\ \/ doing' = "serve" /\ serving' = serving
       \/ doing' = "accept" /\ serving' = Nobody /\ ~Here(serving)
       \/ doing' = "close" /\ serving' = Nobody

LEMMA ResumeIsOver == ASSUME NEW msg, Resume(msg) PROVE Over(msg)
  BY DEF Resume, NextCaller, Over

LEMMA RelayErrorIsOver == ASSUME NEW r, RelayError(r) PROVE Over(ErrorReply(r))
  BY DEF RelayError, Over

\* A request read from the caller served, and answered without the server.
ServesItself(msg) ==
    /\ ReadsLine /\ Incoming1.method
    /\ msg \in {Reply(Incoming1.id, Incoming1.tag), ErrorReply(Incoming1.tag)}
    /\ Over(msg)
    /\ UNCHANGED <<at, wants, result, queue, forwarded, lines, serverVars, gaveUp>>

\* One read from it and passed on.
Forwards ==
    /\ ReadsLine /\ Incoming1.method /\ peer = "up"
    /\ owed' = owed \cup {Incoming1.tag}
    /\ forwarded' = forwarded \cup {Incoming1.tag}
    /\ inFlight' = Incoming1.tag /\ doing' = "exchange"
    /\ UNCHANGED <<down, serving, asking>>
    /\ UNCHANGED <<at, wants, result, queue, lines, peer, asked, answers, talk, gaveUp>>

\* What the server asked is put to the caller.
PutsToCaller ==
    /\ ReadsServer /\ Took = "ServerRequest" /\ Here(serving)
    /\ Tells(Head(lines)) /\ doing' = "ask" /\ asking' = Head(lines).id
    /\ UNCHANGED <<serving, inFlight, answers>>
    /\ UNCHANGED <<at, wants, result, up, queue, forwarded, peer, owed, asked, talk, gaveUp>>

\* Or answered by the daemon.
AnswersItself ==
    /\ ReadsServer /\ Took = "ServerRequest" /\ ~Here(serving)
    /\ answers' = [answers EXCEPT ![Head(lines).id] = @ + 1]
    /\ UNCHANGED <<down, doing, serving, inFlight, asking>>
    /\ UNCHANGED <<at, wants, result, up, queue, forwarded, peer, owed, asked, talk, gaveUp>>

\* The exchange is over: with the server's reply, or an error, told the caller.
EndsExchange(msg) ==
    /\ doing = "exchange" /\ Over(msg)
    /\ \/ lines # <<>> /\ lines' = Tail(lines) /\ Took = "Response" /\ msg = Head(lines)
       \/ lines # <<>> /\ lines' = Tail(lines) /\ msg = ErrorReply(inFlight) /\ peer # "up"
       \/ lines' = lines /\ msg = ErrorReply(inFlight) /\ (peer # "up" \/ "daemon" \in gaveUp')
    /\ "caller" \in gaveUp' <=> "caller" \in gaveUp
    /\ "patience" \in gaveUp' <=> "patience" \in gaveUp
    /\ gaveUp \subseteq gaveUp' /\ gaveUp' \subseteq gaveUp \cup {"daemon"}
    /\ UNCHANGED <<at, wants, result, up, queue, forwarded, serverVars>>

\* The wait for the caller's answer goes on without the line that was read.
PassesOver ==
    /\ doing = "ask" /\ up[serving] # <<>> /\ up' = Reads(up, serving)
    /\ Classify(Incoming1, asking) # "Response"
    /\ UNCHANGED <<at, wants, result, down, daemonVars, serverVars, gaveUp>>

\* It is over, with an answer or without.
EndsAsk ==
    /\ doing = "ask"
    /\ \/ /\ up[serving] # <<>> /\ up' = Reads(up, serving)
          /\ Classify(Incoming1, asking) = "Response" /\ UNCHANGED gaveUp
       \/ /\ up[serving] = <<>> /\ up' = up
          /\ gaveUp' = IF Here(serving) THEN gaveUp \cup {"patience"} ELSE gaveUp
    /\ \/ /\ answers' = [answers EXCEPT ![asking] = @ + 1]
          /\ doing' = "exchange" /\ asking' = NoId
          /\ UNCHANGED <<down, serving, inFlight>>
       \/ Over(ErrorReply(inFlight)) /\ peer # "up" /\ UNCHANGED answers
    /\ UNCHANGED <<at, wants, result, queue, forwarded, lines, peer, owed, asked, talk>>

LEMMA RelayCases ==
    ASSUME TypeOK, [Next]_vars
    PROVE  \/ \E c \in Callers : Connect(c) \/ CallerTakes(c) \/ CallerTimesOut(c)
                                 \/ CallerIsCutOff(c) \/ HangUp(c)
           \/ \E r \in Requests : Send(r)
           \/ \E msg : ServesItself(msg) \/ EndsExchange(msg)
           \/ Accept \/ IdleOut \/ Forwards \/ ServeLateAnswer \/ CallerLeft
           \/ PutsToCaller \/ AnswersItself \/ RelayRest \/ PassesOver \/ EndsAsk \/ Exit
           \/ Server \/ UNCHANGED vars
<1>1. ASSUME ServeInitialize \/ ServeStop PROVE \E msg : ServesItself(msg)
  <2>1. inFlight = None /\ asking = NoId
    BY <1>1 DEF ServeInitialize, ServeStop, ReadsLine, TypeOK
  <2>2. Over(Reply(Incoming1.id, Incoming1.tag))
    BY <1>1, <2>1, ResumeIsOver DEF ServeInitialize, ServeStop, Over
  <2>3. ServesItself(Reply(Incoming1.id, Incoming1.tag))
    BY <1>1, <2>2 DEF ServeInitialize, ServeStop, ServesItself
  <2> QED
    BY <2>3
<1>2. ASSUME ServeCall PROVE Forwards \/ \E msg : ServesItself(msg)
  <2>1. CASE peer = "up"
    BY <1>2, <2>1 DEF ServeCall, Forwards
  <2>2. CASE peer # "up"
    <3>1. Over(ErrorReply(Incoming1.tag))
      BY <1>2, <2>2, RelayErrorIsOver DEF ServeCall
    <3>2. ServesItself(ErrorReply(Incoming1.tag))
      BY <1>2, <2>2, <3>1 DEF ServeCall, ServesItself, serverVars
    <3> QED
      BY <3>2
  <2> QED
    BY <2>1, <2>2
<1>3. ASSUME RelayReply PROVE EndsExchange(Head(lines))
  BY <1>3, ResumeIsOver DEF RelayReply, ReadsServer, EndsExchange
<1>4. ASSUME RelayAsk PROVE PutsToCaller \/ AnswersItself \/ EndsExchange(ErrorReply(inFlight))
  <2>1. CASE Here(serving)
    BY <1>4, <2>1 DEF RelayAsk, PutsToCaller
  <2>2. CASE ~Here(serving) /\ peer = "up"
    BY <1>4, <2>2 DEF RelayAsk, AnswersItself
  <2>3. CASE ~Here(serving) /\ peer # "up"
    BY <1>4, <2>3, RelayErrorIsOver DEF RelayAsk, ReadsServer, EndsExchange, serverVars
  <2> QED
    BY <2>1, <2>2, <2>3
<1>5. ASSUME DaemonTimesOut \/ ServerGone PROVE EndsExchange(ErrorReply(inFlight))
  <2>1. /\ "caller" \in gaveUp' <=> "caller" \in gaveUp
        /\ "patience" \in gaveUp' <=> "patience" \in gaveUp
        /\ gaveUp \subseteq gaveUp' /\ gaveUp' \subseteq gaveUp \cup {"daemon"}
        /\ peer # "up" \/ "daemon" \in gaveUp'
    BY <1>5 DEF DaemonTimesOut, ServerGone
  <2> QED
    BY <1>5, <2>1, RelayErrorIsOver DEF DaemonTimesOut, ServerGone, EndsExchange
<1>6. ASSUME AwaitAnswer PROVE PassesOver \/ EndsAsk
  <2>1. CASE Classify(Incoming1, asking) # "Response"
    BY <1>6, <2>1 DEF AwaitAnswer, PassesOver, daemonVars, serverVars
  <2>2. CASE Classify(Incoming1, asking) = "Response" /\ peer = "up"
    BY <1>6, <2>2 DEF AwaitAnswer, AnswerServer, EndsAsk
  <2>3. CASE Classify(Incoming1, asking) = "Response" /\ peer # "up"
    BY <1>6, <2>3, RelayErrorIsOver DEF AwaitAnswer, AnswerServer, EndsAsk
  <2> QED
    BY <2>1, <2>2, <2>3
<1>7. ASSUME NoAnswer PROVE EndsAsk
  <2>1. CASE peer = "up"
    BY <1>7, <2>1 DEF NoAnswer, AnswerServer, EndsAsk
  <2>2. CASE peer # "up"
    BY <1>7, <2>2, RelayErrorIsOver DEF NoAnswer, AnswerServer, EndsAsk
  <2> QED
    BY <2>1, <2>2
<1>8. CASE \E c \in Callers : Caller(c)
  BY <1>8 DEF Caller
<1>9. CASE Daemon
  BY <1>1, <1>2, <1>3, <1>4, <1>5, <1>6, <1>7, <1>9 DEF Daemon, Serve, Relay
<1> QED
  BY <1>8, <1>9 DEF Next

-----------------------------------------------------------------------------
(* The types, and that lines are their callers' own.                       *)

LEMMA RelayInit == Init => RelayInv
  <1> SUFFICES ASSUME Init PROVE RelayInv
    OBVIOUS
  <1>1. <<>> \in Seq(Line) /\ <<>> \in Seq(Callers) /\ Len(queue) = 0
    BY DEF Init
  <1>2. Unfinished \in Outcome
    BY DEF Unfinished, Outcome, None
  <1>3. Len(<<>>) = 0
    OBVIOUS
  <1>4. TypeOK
    BY <1>1, <1>2, RelayConstants DEF Init, TypeOK, None, NoId
  <1>5. OwnLines
    BY <1>1, <1>3, NobodyCalls DEF Init, OwnLines, Queued, None
  <1> QED
    BY <1>4, <1>5 DEF RelayInv

LEMMA OwnAppend ==
    ASSUME NEW c, NEW s \in Seq(Line), NEW msg \in Line, OwnLine(c, msg),
           \A i \in 1..Len(s) : OwnLine(c, s[i])
    PROVE  \A i \in 1..Len(Append(s, msg)) : OwnLine(c, Append(s, msg)[i])
  <1>1. \A i \in 1..Len(Append(s, msg)) : i = Len(s) + 1 \/ i \in 1..Len(s)
    BY AppendIs
  <1> QED
    BY <1>1, AppendIs

LEMMA OwnTail ==
    ASSUME NEW c, NEW s \in Seq(Line), s # <<>>, \A i \in 1..Len(s) : OwnLine(c, s[i])
    PROVE  OwnLine(c, Head(s)) /\ \A i \in 1..Len(Tail(s)) : OwnLine(c, Tail(s)[i])
  BY TailIs

\* Nothing changes for the callers but that one of them reads.
LEMMA CallersKeep ==
    ASSUME RelayInv, NEW c \in Callers,
           UNCHANGED <<at, wants>>,
           up' = up \/ (up[c] # <<>> /\ up' = Reads(up, c)),
           \A d \in Callers : at[d] \in {"away", "left"} => down'[d] = down[d],
           \A d \in Callers : at[d] = "away" => serving' # d /\ ~Queued(d)',
           inFlight' # None => By[inFlight'] = serving'
    PROVE  OwnLines'
  <1>1. \A d \in Callers : \A i \in 1..Len(up'[d]) : OwnLine(d, up'[d][i])
    <2>1. CASE up' = up
      BY <2>1 DEF RelayInv, OwnLines
    <2>2. CASE up[c] # <<>> /\ up' = Reads(up, c)
      <3>1. up \in [Callers -> Seq(Line)]
        BY DEF RelayInv, TypeOK
      <3>2. up'[c] = Tail(up[c]) /\ \A d \in Callers : d # c => up'[d] = up[d]
        BY <2>2, <3>1, ReadsIs
      <3>3. up[c] \in Seq(Line) /\ \A i \in 1..Len(up[c]) : OwnLine(c, up[c][i])
        BY <3>1 DEF RelayInv, OwnLines
      <3>4. \A i \in 1..Len(up'[c]) : OwnLine(c, up'[c][i])
        BY <2>2, <3>2, <3>3, OwnTail
      <3> QED
        BY <3>2, <3>4 DEF RelayInv, OwnLines
    <2> QED
      BY <2>1, <2>2
  <1>2. \A d \in Callers : at'[d] = "away" => up'[d] = <<>> /\ down'[d] = <<>>
    <2>1. up \in [Callers -> Seq(Line)]
      BY DEF RelayInv, TypeOK
    <2>2. ASSUME NEW d \in Callers, at[d] = "away" PROVE up'[d] = up[d]
      <3>1. up[d] = <<>>
        BY <2>2 DEF RelayInv, OwnLines
      <3>2. CASE up[c] # <<>> /\ up' = Reads(up, c)
        BY <2>1, <3>1, <3>2, ReadsIs
      <3> QED
        BY <3>2
    <2> QED
      BY <2>2 DEF RelayInv, OwnLines
  <1>3. \A d \in Callers : at'[d] = "left" => down'[d] = <<>>
    BY DEF RelayInv, OwnLines
  <1>4. \A d \in Callers : wants'[d] # None => By[wants'[d]] = d
    BY DEF RelayInv, OwnLines
  <1> QED
    BY <1>1, <1>2, <1>3, <1>4 DEF OwnLines

\* What Over makes of the daemon.
LEMMA OverIs ==
    ASSUME TypeOK, serving \in Callers, NEW msg \in Line, Over(msg)
    PROVE  /\ down' \in [Callers -> Seq(Line)]
           /\ doing' \in {"serve", "accept", "close"} /\ serving' \in Callers \cup {Nobody}
           /\ doing' = "serve" => serving' # Nobody
           /\ inFlight' = None /\ asking' = NoId /\ serving' \in {serving, Nobody}
           /\ \A d \in Callers : d # serving \/ ~Here(d) => down'[d] = down[d]
           /\ Here(serving) => down'[serving] = Append(down[serving], msg)
  BY TellsIs, NobodyCalls DEF Over

\* Who is being served has come, and stays there or leaves.
LEMMA ServedHasCome ==
    ASSUME RelayInv, doing \in {"serve", "exchange", "ask"}
    PROVE  serving \in Callers /\ at[serving] # "away"
  BY DEF RelayInv, TypeOK, OwnLines

LEMMA UpIs ==
    ASSUME RelayInv, NEW c \in Callers, up[c] # <<>>
    PROVE  /\ up[c] \in Seq(Line) /\ Head(up[c]) \in Line /\ OwnLine(c, Head(up[c]))
           /\ Reads(up, c) \in [Callers -> Seq(Line)]
  <1>1. up \in [Callers -> Seq(Line)] /\ \A i \in 1..Len(up[c]) : OwnLine(c, up[c][i])
    BY DEF RelayInv, TypeOK, OwnLines
  <1> QED
    BY <1>1, ReadsIs, OwnTail, TailIs

LEMMA HeadOfLines ==
    ASSUME TypeOK, lines # <<>>
    PROVE  Head(lines) \in Line /\ Tail(lines) \in Seq(Line)
  BY TailIs DEF TypeOK

\* Nothing of the callers changes but what they read, and nothing of what is
\* theirs with the server.
LEMMA AloneTyped ==
    ASSUME RelayInv, UNCHANGED <<at, wants, result, queue>>,
           up' \in [Callers -> Seq(Line)], down' \in [Callers -> Seq(Line)],
           lines' \in Seq(Line), forwarded' \subseteq Requests, owed' \subseteq Requests,
           peer' \in {"up", "deaf", "dead"}, asked' \in Nat, answers' \in [1..MaxTalk -> Nat],
           talk' \in Nat, gaveUp' \subseteq {"caller", "daemon", "patience"},
           doing' \in {"accept", "serve", "exchange", "ask", "close", "exited"},
           serving' \in Callers \cup {Nobody},
           doing' \in {"serve", "exchange", "ask"} => serving' # Nobody,
           inFlight' \in Requests \cup {None}, inFlight' # None <=> doing' \in {"exchange", "ask"},
           asking' \in Nat, asking' # NoId <=> doing' = "ask"
    PROVE  TypeOK'
  BY DEF RelayInv, TypeOK

LEMMA AnswersTyped ==
    ASSUME TypeOK, NEW a \in Nat
    PROVE  [answers EXCEPT ![a] = @ + 1] \in [1..MaxTalk -> Nat]
  <1> DEFINE counted == [b \in 1..MaxTalk |-> IF b = a THEN answers[b] + 1 ELSE answers[b]]
  <1>1. answers \in [1..MaxTalk -> Nat]
    BY DEF TypeOK
  <1>2. [answers EXCEPT ![a] = @ + 1] = counted
    BY <1>1
  <1>3. counted \in [1..MaxTalk -> Nat]
    BY <1>1
  <1> QED
    BY <1>2, <1>3

\* Nobody who has not come is served or queued.
LEMMA AwayStays ==
    ASSUME RelayInv, UNCHANGED queue, serving' \in {serving, Nobody}
    PROVE  \A d \in Callers : at[d] = "away" => serving' # d /\ ~Queued(d)'
  BY NobodyCalls DEF RelayInv, OwnLines, Queued

LEMMA DaemonTyped ==
    ASSUME RelayInv,
           \/ \E msg : ServesItself(msg) \/ EndsExchange(msg)
           \/ Accept \/ IdleOut \/ Forwards \/ ServeLateAnswer \/ CallerLeft
           \/ PutsToCaller \/ AnswersItself \/ RelayRest \/ PassesOver \/ EndsAsk \/ Exit
    PROVE  RelayInv'
<1> USE DEF serverVars, daemonVars, callerVars
<1>0. /\ TypeOK /\ OwnLines
      /\ up \in [Callers -> Seq(Line)] /\ down \in [Callers -> Seq(Line)] /\ lines \in Seq(Line)
      /\ NoId \in Nat /\ None = 0 /\ NoId = 0
  BY DEF RelayInv, TypeOK, NoId, None
<1>1. ASSUME NEW msg, ServesItself(msg) PROVE RelayInv'
  <2>1. /\ doing = "serve" /\ up[serving] # <<>> /\ up' = Reads(up, serving) /\ Incoming1.method
        /\ UNCHANGED <<at, wants, result, queue, forwarded, lines, serverVars, gaveUp>>
    BY <1>1 DEF ServesItself, ReadsLine
  <2>2. serving \in Callers /\ at[serving] # "away"
    BY <2>1, ServedHasCome
  <2>3. /\ Incoming1 \in Line /\ Incoming1.tag \in Requests
        /\ up' \in [Callers -> Seq(Line)]
    BY <2>1, <2>2, UpIs DEF Incoming1, OwnLine
  <2>4. msg \in Line
    <3>1. Incoming1.id \in Nat /\ Incoming1.tag \in Nat
      BY <2>3 DEF Line
    <3> QED
      BY <1>1, <2>3, <3>1, LinesAre DEF ServesItself
  <2>5. Over(msg)
    BY <1>1 DEF ServesItself
  <2>6. TypeOK'
    BY <1>0, <2>1, <2>2, <2>3, <2>4, <2>5, OverIs, AloneTyped DEF TypeOK
  <2>7. OwnLines'
    <3>1. \A d \in Callers : at[d] \in {"away", "left"} => down'[d] = down[d]
      BY <1>0, <2>2, <2>4, <2>5, OverIs DEF Here
    <3>2. \A d \in Callers : at[d] = "away" => serving' # d /\ ~Queued(d)'
      BY <1>0, <2>1, <2>2, <2>4, <2>5, OverIs, AwayStays
    <3> QED
      BY <1>0, <2>1, <2>2, <2>4, <2>5, <3>1, <3>2, OverIs, CallersKeep
  <2> QED
    BY <2>6, <2>7 DEF RelayInv
<1>2. ASSUME NEW msg, EndsExchange(msg) PROVE RelayInv'
  <2>1. /\ doing = "exchange" /\ Over(msg) /\ inFlight \in Requests
        /\ gaveUp' \subseteq gaveUp \cup {"daemon"}
        /\ UNCHANGED <<at, wants, result, up, queue, forwarded, serverVars>>
    BY <1>0, <1>2 DEF EndsExchange, TypeOK
  <2>2. serving \in Callers /\ at[serving] # "away"
    BY <2>1, ServedHasCome
  <2>3. msg \in Line /\ lines' \in Seq(Line)
    BY <1>0, <1>2, <2>1, HeadOfLines, LinesAre DEF EndsExchange
  <2>4. TypeOK'
    BY <1>0, <2>1, <2>2, <2>3, OverIs, AloneTyped DEF TypeOK
  <2>5. OwnLines'
    <3>1. \A d \in Callers : at[d] \in {"away", "left"} => down'[d] = down[d]
      BY <1>0, <2>1, <2>2, <2>3, OverIs DEF Here
    <3>2. \A d \in Callers : at[d] = "away" => serving' # d /\ ~Queued(d)'
      BY <1>0, <2>1, <2>2, <2>3, OverIs, AwayStays
    <3> QED
      BY <1>0, <2>1, <2>2, <2>3, <3>1, <3>2, OverIs, CallersKeep
  <2> QED
    BY <2>4, <2>5 DEF RelayInv
<1>3. CASE Accept
  <2>1. /\ queue \in Seq(Callers) /\ queue # <<>> /\ serving' = queue[1] /\ queue' = Tail(queue)
        /\ inFlight = None /\ asking = NoId /\ doing' = "serve"
        /\ UNCHANGED <<callerVars, inFlight, asking, forwarded, lines, serverVars, gaveUp>>
    BY <1>0, <1>3 DEF Accept, TypeOK
  <2>2. serving' \in Callers /\ queue' \in Seq(Callers) /\ 1 \in 1..Len(queue)
        /\ \A i \in 1..Len(queue') : i + 1 \in 1..Len(queue) /\ queue'[i] = queue[i + 1]
    BY <2>1
  <2>3. TypeOK'
    BY <1>0, <2>1, <2>2, NobodyCalls DEF TypeOK
  <2>4. \A d \in Callers : at[d] = "away" => serving' # d /\ ~Queued(d)'
    BY <1>0, <2>1, <2>2 DEF OwnLines, Queued
  <2>5. OwnLines'
    BY <1>0, <2>1, <2>4, CallersKeep, <2>2
  <2> QED
    BY <2>3, <2>5 DEF RelayInv
<1>4. CASE IdleOut \/ CallerLeft
  <2>1. /\ serving' = Nobody /\ doing' \in {"accept", "close"} /\ inFlight = None /\ asking = NoId
        /\ UNCHANGED <<callerVars, queue, inFlight, asking, forwarded, lines, serverVars, gaveUp>>
    BY <1>0, <1>4 DEF IdleOut, CallerLeft, NextCaller, TypeOK
  <2>2. TypeOK'
    BY <1>0, <2>1 DEF TypeOK
  <2>3. OwnLines'
    BY <1>0, <2>1, NobodyCalls DEF OwnLines, Queued
  <2> QED
    BY <2>2, <2>3 DEF RelayInv
<1>5. CASE Forwards
  <2>1. /\ doing = "serve" /\ up[serving] # <<>> /\ up' = Reads(up, serving) /\ Incoming1.method
    BY <1>5 DEF Forwards, ReadsLine
  <2>2. serving \in Callers /\ at[serving] # "away"
    BY <2>1, ServedHasCome
  <2>3. /\ Incoming1.tag \in Requests /\ By[Incoming1.tag] = serving
        /\ up' \in [Callers -> Seq(Line)] /\ Incoming1.tag # None
    BY <1>0, <2>1, <2>2, UpIs, RelayConstants DEF Incoming1, OwnLine
  <2>4. /\ owed' \subseteq Requests /\ forwarded' \subseteq Requests
        /\ inFlight' = Incoming1.tag /\ doing' = "exchange" /\ asking = NoId
    BY <1>0, <1>5, <2>1, <2>3 DEF Forwards, TypeOK
  <2>5. UNCHANGED <<at, wants, result, down, queue, serving, asking, lines, peer, asked, answers,
                    talk, gaveUp>>
    BY <1>5 DEF Forwards
  <2>6. TypeOK'
    BY <1>0, <2>2, <2>3, <2>4, <2>5, AloneTyped, NobodyCalls DEF TypeOK
  <2>7. OwnLines'
    BY <1>0, <2>1, <2>2, <2>3, <2>4, <2>5, CallersKeep, AwayStays DEF OwnLines
  <2> QED
    BY <2>6, <2>7 DEF RelayInv
<1>6. CASE ServeLateAnswer
  <2>1. /\ doing = "serve" /\ up[serving] # <<>> /\ up' = Reads(up, serving)
        /\ UNCHANGED <<at, wants, result, down, queue, inFlight, asking, forwarded, lines,
                       peer, owed, asked, talk, gaveUp>>
        /\ \/ doing' = "close" /\ serving' = Nobody
           \/ UNCHANGED <<doing, serving>>
        /\ answers' \in {answers, [answers EXCEPT ![Incoming1.id] = @ + 1]}
    BY <1>6 DEF ServeLateAnswer, ReadsLine
  <2>2. serving \in Callers /\ at[serving] # "away" /\ inFlight = None /\ asking = NoId
    BY <1>0, <2>1, ServedHasCome DEF TypeOK
  <2>3. Incoming1.id \in Nat /\ up' \in [Callers -> Seq(Line)]
    BY <2>1, <2>2, UpIs DEF Incoming1, Line
  <2>4. answers' \in [1..MaxTalk -> Nat]
    BY <1>0, <2>1, <2>3, AnswersTyped DEF TypeOK
  <2>5. TypeOK'
    BY <1>0, <2>1, <2>2, <2>3, <2>4, AloneTyped, NobodyCalls DEF TypeOK
  <2>6. OwnLines'
    BY <1>0, <2>1, <2>2, CallersKeep, AwayStays DEF OwnLines
  <2> QED
    BY <2>5, <2>6 DEF RelayInv
<1>7. CASE PutsToCaller \/ RelayRest
  <2>1. /\ doing = "exchange" /\ lines # <<>> /\ lines' = Tail(lines)
        /\ down' = down \/ Tells(Head(lines))
        /\ UNCHANGED <<at, wants, result, up, queue, serving, inFlight, forwarded, serverVars, gaveUp>>
    BY <1>7 DEF PutsToCaller, RelayRest, ReadsServer
  <2>2. serving \in Callers /\ at[serving] # "away"
    BY <2>1, ServedHasCome
  <2>3. Head(lines) \in Line /\ lines' \in Seq(Line) /\ Head(lines).id \in Nat
    BY <1>0, <2>1, HeadOfLines DEF Line
  <2>4. down' \in [Callers -> Seq(Line)] /\ \A d \in Callers : at[d] \in {"away", "left"} => down'[d] = down[d]
    BY <1>0, <2>1, <2>2, <2>3, TellsIs DEF Here
  <2>5. /\ doing' \in {"exchange", "ask"} /\ asking' \in Nat
        /\ asking' # NoId <=> doing' = "ask"
    <3>1. CASE PutsToCaller
      <4>1. Head(lines).id # NoId
        BY <2>3, <3>1 DEF PutsToCaller, Took, Classify
      <4> QED
        BY <2>3, <3>1, <4>1 DEF PutsToCaller
    <3>2. CASE RelayRest
      BY <1>0, <2>1, <3>2 DEF RelayRest, TypeOK
    <3> QED
      BY <1>7, <3>1, <3>2
  <2>6. TypeOK'
    BY <1>0, <2>1, <2>2, <2>3, <2>4, <2>5, AloneTyped DEF TypeOK
  <2>7. OwnLines'
    BY <1>0, <2>1, <2>2, <2>4, CallersKeep, AwayStays DEF OwnLines
  <2> QED
    BY <2>6, <2>7 DEF RelayInv
<1>8. CASE AnswersItself
  <2>1. /\ doing = "exchange" /\ lines # <<>> /\ lines' = Tail(lines)
        /\ answers' = [answers EXCEPT ![Head(lines).id] = @ + 1]
        /\ UNCHANGED <<at, wants, result, up, down, doing, queue, serving, inFlight, asking,
                       forwarded, peer, owed, asked, talk, gaveUp>>
    BY <1>8 DEF AnswersItself, ReadsServer
  <2>2. Head(lines).id \in Nat /\ lines' \in Seq(Line)
    BY <1>0, <2>1, HeadOfLines DEF Line
  <2>3. answers' \in [1..MaxTalk -> Nat]
    BY <1>0, <2>1, <2>2, AnswersTyped
  <2>4. TypeOK'
    BY <1>0, <2>1, <2>2, <2>3 DEF TypeOK
  <2>5. OwnLines'
    BY <1>0, <2>1 DEF OwnLines, Queued
  <2> QED
    BY <2>4, <2>5 DEF RelayInv
<1>9. CASE PassesOver
  <2>1. /\ doing = "ask" /\ up[serving] # <<>> /\ up' = Reads(up, serving)
        /\ UNCHANGED <<at, wants, result, down, daemonVars, serverVars, gaveUp>>
    BY <1>9 DEF PassesOver
  <2>2. serving \in Callers /\ at[serving] # "away"
    BY <2>1, ServedHasCome
  <2>3. up' \in [Callers -> Seq(Line)]
    BY <2>1, <2>2, UpIs
  <2>4. TypeOK'
    BY <1>0, <2>1, <2>3, AloneTyped DEF TypeOK
  <2>5. OwnLines'
    BY <1>0, <2>1, <2>2, CallersKeep, AwayStays DEF OwnLines
  <2> QED
    BY <2>4, <2>5 DEF RelayInv
<1>10. CASE EndsAsk
  <2>1. /\ doing = "ask" /\ asking \in Nat /\ inFlight \in Requests /\ inFlight # None
        /\ UNCHANGED <<at, wants, result, queue, forwarded, lines, peer, owed, asked, talk>>
    BY <1>0, <1>10, RelayConstants DEF EndsAsk, TypeOK
  <2>2. serving \in Callers /\ at[serving] # "away"
    BY <2>1, ServedHasCome
  <2>3. /\ up' = up \/ (up[serving] # <<>> /\ up' = Reads(up, serving))
        /\ gaveUp' \in {gaveUp, gaveUp \cup {"patience"}}
    BY <1>10 DEF EndsAsk
  <2>4. up' \in [Callers -> Seq(Line)] /\ gaveUp' \subseteq {"caller", "daemon", "patience"}
    BY <1>0, <2>2, <2>3, UpIs DEF TypeOK
  <2>5. CASE /\ answers' = [answers EXCEPT ![asking] = @ + 1]
             /\ doing' = "exchange" /\ asking' = NoId
             /\ UNCHANGED <<down, serving, inFlight>>
    <3>1. TypeOK'
      BY <1>0, <2>1, <2>2, <2>4, <2>5, AnswersTyped, AloneTyped, NobodyCalls DEF TypeOK
    <3>2. OwnLines'
      BY <1>0, <2>1, <2>2, <2>3, <2>5, CallersKeep, AwayStays DEF OwnLines
    <3> QED
      BY <3>1, <3>2 DEF RelayInv
  <2>6. CASE Over(ErrorReply(inFlight)) /\ UNCHANGED answers
    <3>1. ErrorReply(inFlight) \in Line
      BY <2>1, LinesAre
    <3>2. TypeOK'
      BY <1>0, <2>1, <2>2, <2>4, <2>6, <3>1, OverIs, AloneTyped DEF TypeOK
    <3>3. \A d \in Callers : at[d] \in {"away", "left"} => down'[d] = down[d]
      BY <1>0, <2>2, <2>6, <3>1, OverIs DEF Here
    <3>4. \A d \in Callers : at[d] = "away" => serving' # d /\ ~Queued(d)'
      BY <1>0, <2>1, <2>2, <2>6, <3>1, OverIs, AwayStays
    <3>5. OwnLines'
      BY <1>0, <2>1, <2>2, <2>3, <2>6, <3>1, <3>3, <3>4, OverIs, CallersKeep
    <3> QED
      BY <3>2, <3>5 DEF RelayInv
  <2> QED
    BY <1>10, <2>5, <2>6 DEF EndsAsk
<1>11. CASE Exit
  <2>1. /\ doing' = "exited" /\ peer' = "dead" /\ inFlight = None /\ asking = NoId
        /\ UNCHANGED <<callerVars, queue, serving, inFlight, asking, forwarded, lines,
                       owed, asked, answers, talk, gaveUp>>
    BY <1>0, <1>11 DEF Exit, TypeOK
  <2>2. TypeOK'
    BY <1>0, <2>1 DEF TypeOK
  <2>3. OwnLines'
    BY <1>0, <2>1 DEF OwnLines, Queued
  <2> QED
    BY <2>2, <2>3 DEF RelayInv
<1> QED
  BY <1>1, <1>2, <1>3, <1>4, <1>5, <1>6, <1>7, <1>8, <1>9, <1>10, <1>11

\* The request a caller waits for is ended.
LEMMA EndsIs ==
    ASSUME TypeOK, NEW c \in Callers, at[c] = "waiting", NEW outcome \in Outcome, Ends(c, outcome)
    PROVE  /\ result' \in [Requests -> Outcome] /\ at' = [at EXCEPT ![c] = "idle"]
           /\ wants' = [wants EXCEPT ![c] = None] /\ wants[c] \in Requests
  BY DEF Ends, TypeOK

LEMMA OutcomesAre ==
    /\ \A kind \in {"none", "reply", "error", "timeout", "gone"} : Failed(kind) \in Outcome
    /\ \A of \in Nat : [kind |-> "reply", of |-> of] \in Outcome /\ [kind |-> "error", of |-> of] \in Outcome
  BY DEF Failed, Outcome, None

\* What a caller does when a line it waits for comes.
LEMMA TakesIs ==
    ASSUME TypeOK, NEW c \in Callers, CallerTakes(c)
    PROVE  /\ at[c] = "waiting" /\ down[c] # <<>> /\ down' = Reads(down, c)
           /\ Head(down[c]) \in Line
           /\ UNCHANGED <<daemonVars, serverVars, gaveUp>>
           /\ \/ /\ Classify(Head(down[c]), WireId[wants[c]]) = "Response"
                 /\ up' = up /\ \E outcome \in Outcome : Ends(c, outcome)
              \/ /\ Classify(Head(down[c]), WireId[wants[c]]) = "ServerRequest" /\ Open(c)
                 /\ up' = Writes(up, c, AnswerTo(Head(down[c]).id))
                 /\ UNCHANGED <<at, wants, result>>
              \/ /\ ~Open(c) /\ up' = up /\ \E outcome \in Outcome : Ends(c, outcome)
              \/ /\ Classify(Head(down[c]), WireId[wants[c]]) \in {"Notification", "Foreign"}
                 /\ UNCHANGED <<at, wants, result, up>>
  <1> DEFINE msg == Head(down[c])
             what == Classify(msg, WireId[wants[c]])
  <1>1. at[c] = "waiting" /\ down[c] # <<>> /\ down' = Reads(down, c)
    BY DEF CallerTakes
  <1>2. UNCHANGED <<daemonVars, serverVars, gaveUp>>
    BY DEF CallerTakes
  <1>3. msg \in Line /\ msg.tag \in Nat /\ msg.error \in BOOLEAN
    <2>1. down[c] \in Seq(Line)
      BY DEF TypeOK
    <2>2. msg \in Line
      BY <1>1, <2>1, TailIs
    <2> QED
      BY <2>2 DEF Line
  <1>4. what \in {"Response", "ServerRequest", "Notification", "Foreign"}
    BY DEF Classify
  <1>5. CASE what = "Response" /\ msg.error
    <2>1. Ends(c, [kind |-> "error", of |-> msg.tag]) /\ UNCHANGED up
      BY <1>5 DEF CallerTakes
    <2> QED
      BY <1>1, <1>2, <1>3, <1>5, <2>1, OutcomesAre
  <1>6. CASE what = "Response" /\ ~msg.error
    <2>1. Ends(c, [kind |-> "reply", of |-> msg.tag]) /\ UNCHANGED up
      BY <1>6 DEF CallerTakes
    <2> QED
      BY <1>1, <1>2, <1>3, <1>6, <2>1, OutcomesAre
  <1>7. CASE what = "ServerRequest"
    <2>1. IF Open(c)
            THEN up' = Writes(up, c, AnswerTo(msg.id)) /\ UNCHANGED <<at, wants, result>>
            ELSE Ends(c, Failed("gone")) /\ UNCHANGED up
      BY <1>7 DEF CallerTakes
    <2> QED
      BY <1>1, <1>2, <1>3, <1>7, <2>1, OutcomesAre
  <1>8. CASE what \in {"Notification", "Foreign"}
    <2>1. UNCHANGED <<at, wants, result, up>>
      BY <1>8 DEF CallerTakes
    <2> QED
      BY <1>1, <1>2, <1>3, <1>8, <2>1
  <1> QED
    BY <1>3, <1>4, <1>5, <1>6, <1>7, <1>8

LEMMA CallersTyped ==
    ASSUME RelayInv,
           \/ \E c \in Callers : Connect(c) \/ CallerTakes(c) \/ CallerTimesOut(c)
                                 \/ CallerIsCutOff(c) \/ HangUp(c)
           \/ \E r \in Requests : Send(r)
    PROVE  RelayInv'
<1> USE DEF serverVars, daemonVars, callerVars
<1>0. /\ TypeOK /\ OwnLines
      /\ up \in [Callers -> Seq(Line)] /\ down \in [Callers -> Seq(Line)]
      /\ at \in [Callers -> {"away", "idle", "waiting", "left"}]
      /\ wants \in [Callers -> Requests \cup {None}] /\ None \notin Requests
      /\ \A r \in Requests : By[r] \in Callers
  BY RelayConstants DEF RelayInv, TypeOK, None
<1>1. ASSUME NEW c \in Callers, Connect(c) PROVE RelayInv'
  <2>1. /\ at[c] = "away" /\ at' = [at EXCEPT ![c] = "idle"] /\ queue' = Append(queue, c)
        /\ UNCHANGED <<wants, result, up, down, doing, serving, inFlight, asking,
                       forwarded, lines, serverVars, gaveUp>>
    BY <1>1 DEF Connect
  <2>2. /\ queue \in Seq(Callers) /\ queue' \in Seq(Callers)
        /\ \A i \in 1..Len(queue') : (i \in 1..Len(queue) /\ queue'[i] = queue[i]) \/ queue'[i] = c
    BY <1>0, <2>1 DEF TypeOK
  <2>3. TypeOK'
    BY <1>0, <2>1, <2>2 DEF TypeOK
  <2>4. \A d \in Callers : at'[d] = "away" => d # c /\ at[d] = "away"
    BY <1>0, <2>1
  <2>5. \A d \in Callers : at'[d] = "left" => at[d] = "left"
    BY <1>0, <2>1
  <2>6. \A d \in Callers : d # c /\ Queued(d)' => Queued(d)
    BY <2>2 DEF Queued
  <2>7. /\ \A d \in Callers : \A i \in 1..Len(up'[d]) : OwnLine(d, up'[d][i])
        /\ \A d \in Callers : wants'[d] # None => By[wants'[d]] = d
        /\ inFlight' # None => By[inFlight'] = serving'
    BY <1>0, <2>1 DEF OwnLines
  <2>8. \A d \in Callers : at'[d] = "away" =>
           up'[d] = <<>> /\ down'[d] = <<>> /\ serving' # d /\ ~Queued(d)'
    BY <1>0, <2>1, <2>4, <2>6 DEF OwnLines
  <2>9. \A d \in Callers : at'[d] = "left" => down'[d] = <<>>
    BY <1>0, <2>1, <2>5 DEF OwnLines
  <2>10. OwnLines'
    BY <2>7, <2>8, <2>9 DEF OwnLines, OwnLine
  <2> QED
    BY <2>3, <2>10 DEF RelayInv
\* A caller ends what it waits for, is idle or leaves.
<1>2. ASSUME NEW c \in Callers, NEW to \in {"idle", "left"}, at[c] \in {"idle", "waiting"},
             at' = [at EXCEPT ![c] = to], wants' = [wants EXCEPT ![c] = None],
             result' \in [Requests -> Outcome], up' = up,
             down' \in [Callers -> Seq(Line)], \A d \in Callers : d # c => down'[d] = down[d],
             to = "left" => down'[c] = <<>>,
             gaveUp' \subseteq {"caller", "daemon", "patience"}, UNCHANGED <<daemonVars, serverVars>>
      PROVE  RelayInv'
  <2>1. \A d \in Callers : d # c => at'[d] = at[d] /\ wants'[d] = wants[d]
    BY <1>0, <1>2
  <2>2. at'[c] = to /\ wants'[c] = None
    BY <1>0, <1>2
  <2>3. at' \in [Callers -> {"away", "idle", "waiting", "left"}] /\ wants' \in [Callers -> Requests \cup {None}]
    BY <1>0, <1>2
  <2>4. \A d \in Callers : at'[d] = "waiting" <=> wants'[d] # None
    BY <1>0, <2>1, <2>2 DEF TypeOK
  <2>5. TypeOK'
    BY <1>0, <1>2, <2>3, <2>4 DEF TypeOK
  <2>6. OwnLines'
    BY <1>0, <1>2, <2>1, <2>2 DEF OwnLines, Queued
  <2> QED
    BY <2>5, <2>6 DEF RelayInv
<1>3. ASSUME NEW c \in Callers, CallerTimesOut(c) \/ CallerIsCutOff(c) PROVE RelayInv'
  <2>1. PICK outcome \in Outcome : Ends(c, outcome)
    BY <1>3, OutcomesAre DEF CallerTimesOut, CallerIsCutOff
  <2>2. /\ at[c] = "waiting" /\ UNCHANGED <<up, down, daemonVars, serverVars>>
        /\ gaveUp' \subseteq gaveUp \cup {"caller"}
    BY <1>3 DEF CallerTimesOut, CallerIsCutOff
  <2>3. gaveUp' \subseteq {"caller", "daemon", "patience"}
    BY <1>0, <2>2 DEF TypeOK
  <2> QED
    BY <1>0, <1>2, <2>1, <2>2, <2>3, EndsIs
<1>4. ASSUME NEW c \in Callers, HangUp(c) PROVE RelayInv'
  <2>1. result' \in [Requests -> Outcome]
    BY <1>0, <1>4, OutcomesAre DEF HangUp, TypeOK
  <2>2. /\ down' \in [Callers -> Seq(Line)] /\ down'[c] = <<>>
        /\ \A d \in Callers : d # c => down'[d] = down[d]
    <3>1. <<>> \in Seq(Line)
      OBVIOUS
    <3> QED
      BY <1>0, <1>4, <3>1 DEF HangUp
  <2>3. gaveUp' \subseteq {"caller", "daemon", "patience"}
    BY <1>0, <1>4 DEF HangUp, TypeOK
  <2> QED
    BY <1>2, <1>4, <2>1, <2>2, <2>3 DEF HangUp
<1>5. ASSUME NEW c \in Callers, CallerTakes(c) PROVE RelayInv'
  <2>1. /\ at[c] = "waiting" /\ down[c] # <<>> /\ down' = Reads(down, c) /\ Head(down[c]) \in Line
        /\ UNCHANGED <<daemonVars, serverVars, gaveUp>>
    BY <1>0, <1>5, TakesIs
  <2>2. down' \in [Callers -> Seq(Line)] /\ \A d \in Callers : d # c => down'[d] = down[d]
    BY <1>0, <2>1, ReadsIs
  <2>3. gaveUp' \subseteq {"caller", "daemon", "patience"}
    BY <1>0, <2>1 DEF TypeOK
  <2>4. CASE up' = up /\ \E outcome \in Outcome : Ends(c, outcome)
    <3>1. PICK outcome \in Outcome : Ends(c, outcome)
      BY <2>4
    <3> QED
      BY <1>0, <1>2, <2>1, <2>2, <2>3, <2>4, <3>1, EndsIs
  <2>5. CASE up' = Writes(up, c, AnswerTo(Head(down[c]).id)) /\ UNCHANGED <<at, wants, result>>
    <3> DEFINE msg == AnswerTo(Head(down[c]).id)
    <3>1. msg \in Line /\ OwnLine(c, msg)
      <4>1. Head(down[c]).id \in Nat
        BY <2>1 DEF Line
      <4> QED
        BY <4>1, LinesAre DEF AnswerTo, Reply, OwnLine
    <3> HIDE DEF msg
    <3>2. /\ up' \in [Callers -> Seq(Line)] /\ up'[c] = Append(up[c], msg)
          /\ \A d \in Callers : d # c => up'[d] = up[d]
      <4>1. up' = Writes(up, c, msg)
        BY <2>5 DEF msg
      <4>2. /\ Writes(up, c, msg) \in [Callers -> Seq(Line)]
            /\ Writes(up, c, msg)[c] = Append(up[c], msg)
            /\ \A d \in Callers : d # c => Writes(up, c, msg)[d] = up[d]
        BY <1>0, <3>1, WritesIs
      <4> QED
        BY <4>1, <4>2
    <3>3. \A d \in Callers : \A i \in 1..Len(up'[d]) : OwnLine(d, up'[d][i])
      <4>1. up[c] \in Seq(Line)
        BY <1>0
      <4>2. \A i \in 1..Len(up'[c]) : OwnLine(c, up'[c][i])
        BY <1>0, <3>1, <3>2, <4>1, OwnAppend DEF OwnLines
      <4> QED
        BY <1>0, <3>2, <4>2 DEF OwnLines
    <3>4. TypeOK'
      BY <1>0, <2>1, <2>2, <2>3, <2>5, <3>2 DEF TypeOK
    <3>5. OwnLines'
      BY <1>0, <2>1, <2>2, <2>5, <3>2, <3>3 DEF OwnLines, Queued
    <3> QED
      BY <3>4, <3>5 DEF RelayInv
  <2>6. CASE UNCHANGED <<at, wants, result, up>>
    <3>1. TypeOK'
      BY <1>0, <2>1, <2>2, <2>3, <2>6 DEF TypeOK
    <3>2. OwnLines'
      BY <1>0, <2>1, <2>2, <2>6 DEF OwnLines, Queued
    <3> QED
      BY <3>1, <3>2 DEF RelayInv
  <2> QED
    BY <1>0, <1>5, <2>4, <2>5, <2>6, TakesIs
<1>6. ASSUME NEW r \in Requests, Send(r) PROVE RelayInv'
  <2> DEFINE c == By[r]
  <2>1. c \in Callers /\ at[c] = "idle" /\ UNCHANGED <<down, daemonVars, serverVars, gaveUp>>
    BY <1>0, <1>6 DEF Send
  <2>2. CASE Open(c)
    <3>1. /\ up' = Writes(up, c, RequestLine(r)) /\ at' = [at EXCEPT ![c] = "waiting"]
          /\ wants' = [wants EXCEPT ![c] = r] /\ UNCHANGED result
      BY <1>6, <2>2 DEF Send
    <3>2. RequestLine(r) \in Line /\ OwnLine(c, RequestLine(r))
      BY LinesAre DEF RequestLine, OwnLine
    <3> HIDE DEF c
    <3>3. /\ up' \in [Callers -> Seq(Line)] /\ up'[c] = Append(up[c], RequestLine(r))
          /\ \A d \in Callers : d # c => up'[d] = up[d]
      <4> DEFINE msg == RequestLine(r)
      <4>1. msg \in Line /\ up' = Writes(up, c, msg)
        BY <3>1, <3>2
      <4> HIDE DEF msg
      <4>2. /\ Writes(up, c, msg) \in [Callers -> Seq(Line)]
            /\ Writes(up, c, msg)[c] = Append(up[c], msg)
            /\ \A d \in Callers : d # c => Writes(up, c, msg)[d] = up[d]
        BY <1>0, <2>1, <4>1, WritesIs
      <4>3. up' \in [Callers -> Seq(Line)] /\ up'[c] = Append(up[c], msg)
            /\ \A d \in Callers : d # c => up'[d] = up[d]
        BY <4>1, <4>2
      <4> QED
        BY <4>3 DEF msg
    <3>4. \A d \in Callers : \A i \in 1..Len(up'[d]) : OwnLine(d, up'[d][i])
      <4>1. up[c] \in Seq(Line)
        BY <1>0, <2>1
      <4>2. \A i \in 1..Len(up'[c]) : OwnLine(c, up'[c][i])
        BY <1>0, <2>1, <3>2, <3>3, <4>1, OwnAppend DEF OwnLines
      <4> QED
        BY <1>0, <2>1, <3>3, <4>2 DEF OwnLines
    <3>5. /\ \A d \in Callers : d # c => at'[d] = at[d] /\ wants'[d] = wants[d]
          /\ at'[c] = "waiting" /\ wants'[c] = r
      BY <1>0, <2>1, <3>1
    <3>6. TypeOK'
      <4>1. \A d \in Callers : at'[d] = "waiting" <=> wants'[d] # None
        BY <1>0, <3>5 DEF TypeOK
      <4>2. at' \in [Callers -> {"away", "idle", "waiting", "left"}] /\ wants' \in [Callers -> Requests \cup {None}]
        BY <1>0, <2>1, <3>1
      <4> QED
        BY <1>0, <2>1, <3>1, <3>3, <4>1, <4>2 DEF TypeOK
    <3>7. By[r] = c
      BY DEF c
    <3>8. OwnLines'
      BY <1>0, <2>1, <3>3, <3>4, <3>5, <3>7 DEF OwnLines, Queued
    <3> QED
      BY <3>6, <3>8 DEF RelayInv
  <2>3. CASE ~Open(c)
    <3>1. result' = [result EXCEPT ![r] = Failed("gone")] /\ UNCHANGED <<at, wants, up>>
      BY <1>6, <2>3 DEF Send
    <3>2. TypeOK'
      BY <1>0, <2>1, <3>1, OutcomesAre DEF TypeOK
    <3>3. OwnLines'
      BY <1>0, <2>1, <3>1 DEF OwnLines, Queued
    <3> QED
      BY <3>2, <3>3 DEF RelayInv
  <2> QED
    BY <2>2, <2>3
<1> QED
  BY <1>1, <1>3, <1>4, <1>5, <1>6

LEMMA ServerTyped == ASSUME RelayInv, Server PROVE RelayInv'
<1> USE DEF serverVars, daemonVars, callerVars
<1>0. TypeOK /\ OwnLines /\ lines \in Seq(Line)
  BY DEF RelayInv, TypeOK
<1>1. UNCHANGED <<at, wants, result, up, down, doing, queue, serving, inFlight, asking, forwarded,
                  answers, gaveUp>>
  BY DEF Server, ServerReplies, ServerAsks, ServerNotes, ServerFails, Says
<1>2. OwnLines'
  BY <1>0, <1>1 DEF OwnLines, Queued
<1> DEFINE ItsOwn == /\ lines' \in Seq(Line) /\ owed' \subseteq Requests
                     /\ peer' \in {"up", "deaf", "dead"} /\ asked' \in Nat /\ talk' \in Nat
<1>3. ItsOwn
  <2>1. ASSUME NEW r \in Requests, ServerReplies(r) PROVE ItsOwn
    <3>1. WireId[r] \in Nat /\ r \in Nat
      BY RelayConstants
    <3>2. Reply(WireId[r], r) \in Line
      BY <3>1, LinesAre
    <3> QED
      BY <1>0, <2>1, <3>2, AppendIs DEF ServerReplies, Says, TypeOK
  <2>2. CASE ServerAsks
    <3>1. asked + 1 \in Nat /\ Ask(asked + 1) \in Line /\ talk - 1 \in Nat
      BY <1>0, <2>2, LinesAre DEF ServerAsks, TypeOK
    <3> QED
      BY <1>0, <2>2, <3>1, AppendIs DEF ServerAsks, Says, TypeOK
  <2>3. CASE ServerNotes
    <3>1. Note(talk) \in Line /\ talk - 1 \in Nat
      BY <1>0, <2>3, LinesAre DEF ServerNotes, TypeOK
    <3> QED
      BY <1>0, <2>3, <3>1, AppendIs DEF ServerNotes, Says, TypeOK
  <2>4. CASE ServerFails
    BY <1>0, <2>4 DEF ServerFails, TypeOK
  <2> QED
    BY <2>1, <2>2, <2>3, <2>4 DEF Server
<1>4. TypeOK'
  BY <1>0, <1>1, <1>3 DEF TypeOK
<1> QED
  BY <1>2, <1>4 DEF RelayInv

LEMMA RelayInvStep == RelayInv /\ [Next]_vars => RelayInv'
<1> SUFFICES ASSUME RelayInv, [Next]_vars PROVE RelayInv'
  OBVIOUS
<1>1. CASE UNCHANGED vars
  BY <1>1 DEF vars, callerVars, daemonVars, serverVars, RelayInv, TypeOK, OwnLines, Queued
<1>2. TypeOK
  BY DEF RelayInv
<1> QED
  BY <1>1, <1>2, RelayCases, DaemonTyped, CallersTyped, ServerTyped

LEMMA RelayInvHolds == Spec => []RelayInv
  BY RelayInit, RelayInvStep, PTL DEF Spec

(* Every variable of the relay keeps its type: in particular a caller      *)
(* waits for a request exactly when it is waiting, the daemon has one in   *)
(* flight exactly during an exchange or a question, and puts a question    *)
(* to a caller only then (serve_one, relay, await_answer).                 *)
THEOREM RelayTypeCorrect == Spec => []TypeOK
<1>1. RelayInv => TypeOK
  BY DEF RelayInv
<1> QED
  BY <1>1, RelayInvHolds, PTL

-----------------------------------------------------------------------------
(* What may be in a channel: no line of a sort, or one.                    *)

IsAsk(msg) == msg.method /\ msg.id # NoId

NoAsk(s) == \A i \in 1..Len(s) : ~IsAsk(s[i])
OneAsk(s, a) ==
    \E i \in 1..Len(s) : /\ IsAsk(s[i]) /\ s[i].id = a
                         /\ \A j \in 1..Len(s) : IsAsk(s[j]) => j = i

NoReply(s) == \A i \in 1..Len(s) : s[i].method
OneReply(s, id) ==
    \E i \in 1..Len(s) : /\ ~s[i].method /\ s[i].id = id
                         /\ \A j \in 1..Len(s) : ~s[j].method => j = i

NoMethod(s) == \A i \in 1..Len(s) : ~s[i].method
OneMethod(s, r) ==
    \E i \in 1..Len(s) : /\ s[i].method /\ s[i].tag = r
                         /\ \A j \in 1..Len(s) : s[j].method => j = i

LEMMA AskAppended ==
    ASSUME NEW s \in Seq(Line), NEW msg \in Line, NoAsk(s)
    PROVE  /\ ~IsAsk(msg) => NoAsk(Append(s, msg))
           /\ IsAsk(msg) => OneAsk(Append(s, msg), msg.id)
  <1> DEFINE t == Append(s, msg)
  <1>1. /\ Len(s) \in Nat /\ Len(t) = Len(s) + 1 /\ t[Len(s) + 1] = msg
        /\ \A i \in 1..Len(s) : t[i] = s[i]
    BY AppendIs
  <1> HIDE DEF t
  <1>2. \A i \in 1..Len(t) : i = Len(s) + 1 \/ i \in 1..Len(s)
    BY <1>1
  <1>3. Len(s) + 1 \in 1..Len(t)
    BY <1>1
  <1>4. ~IsAsk(msg) => NoAsk(t)
    BY <1>1, <1>2 DEF NoAsk
  <1>5. IsAsk(msg) => OneAsk(t, msg.id)
    BY <1>1, <1>2, <1>3 DEF NoAsk, OneAsk
  <1> QED
    BY <1>4, <1>5 DEF t

LEMMA ReplyAppended ==
    ASSUME NEW s \in Seq(Line), NEW msg \in Line, NEW id
    PROVE  /\ NoReply(s) /\ msg.method => NoReply(Append(s, msg))
           /\ NoReply(s) /\ ~msg.method => OneReply(Append(s, msg), msg.id)
           /\ OneReply(s, id) /\ msg.method => OneReply(Append(s, msg), id)
  <1> DEFINE t == Append(s, msg)
  <1>1. /\ Len(s) \in Nat /\ Len(t) = Len(s) + 1 /\ t[Len(s) + 1] = msg
        /\ \A i \in 1..Len(s) : t[i] = s[i]
    BY AppendIs
  <1> HIDE DEF t
  <1>2. \A i \in 1..Len(t) : i = Len(s) + 1 \/ i \in 1..Len(s)
    BY <1>1
  <1>3. Len(s) + 1 \in 1..Len(t) /\ \A i \in 1..Len(s) : i \in 1..Len(t)
    BY <1>1
  <1>4. NoReply(s) /\ msg.method => NoReply(t)
    BY <1>1, <1>2 DEF NoReply
  <1>5. NoReply(s) /\ ~msg.method => OneReply(t, msg.id)
    BY <1>1, <1>2, <1>3 DEF NoReply, OneReply
  <1>6. OneReply(s, id) /\ msg.method => OneReply(t, id)
    BY <1>1, <1>2, <1>3 DEF OneReply
  <1> QED
    BY <1>4, <1>5, <1>6 DEF t

LEMMA MethodAppended ==
    ASSUME NEW s \in Seq(Line), NEW msg \in Line, NEW r
    PROVE  /\ NoMethod(s) /\ ~msg.method => NoMethod(Append(s, msg))
           /\ NoMethod(s) /\ msg.method => OneMethod(Append(s, msg), msg.tag)
           /\ OneMethod(s, r) /\ ~msg.method => OneMethod(Append(s, msg), r)
  <1> DEFINE t == Append(s, msg)
  <1>1. /\ Len(s) \in Nat /\ Len(t) = Len(s) + 1 /\ t[Len(s) + 1] = msg
        /\ \A i \in 1..Len(s) : t[i] = s[i]
    BY AppendIs
  <1> HIDE DEF t
  <1>2. \A i \in 1..Len(t) : i = Len(s) + 1 \/ i \in 1..Len(s)
    BY <1>1
  <1>3. Len(s) + 1 \in 1..Len(t) /\ \A i \in 1..Len(s) : i \in 1..Len(t)
    BY <1>1
  <1>4. NoMethod(s) /\ ~msg.method => NoMethod(t)
    BY <1>1, <1>2 DEF NoMethod
  <1>5. NoMethod(s) /\ msg.method => OneMethod(t, msg.tag)
    BY <1>1, <1>2, <1>3 DEF NoMethod, OneMethod
  <1>6. OneMethod(s, r) /\ ~msg.method => OneMethod(t, r)
    BY <1>1, <1>2, <1>3 DEF OneMethod
  <1> QED
    BY <1>4, <1>5, <1>6 DEF t

\* A line that is read is the one there is, or leaves it.
LEMMA AskRead ==
    ASSUME NEW s \in Seq(Line), s # <<>>, NEW a
    PROVE  /\ NoAsk(s) => ~IsAsk(Head(s)) /\ NoAsk(Tail(s))
           /\ OneAsk(s, a) /\ ~IsAsk(Head(s)) => OneAsk(Tail(s), a)
           /\ OneAsk(s, a) /\ IsAsk(Head(s)) => Head(s).id = a /\ NoAsk(Tail(s))
  <1> DEFINE t == Tail(s)
  <1>1. /\ Len(s) \in Nat /\ Len(t) = Len(s) - 1 /\ Head(s) = s[1] /\ 1 \in 1..Len(s)
        /\ \A i \in 1..Len(t) : i + 1 \in 1..Len(s) /\ t[i] = s[i + 1] /\ i + 1 # 1
    BY TailIs
  <1> HIDE DEF t
  <1>2. \A i \in 1..Len(s) : i = 1 \/ (i - 1 \in 1..Len(t) /\ t[i - 1] = s[i])
    BY <1>1
  <1>3. NoAsk(s) => ~IsAsk(Head(s)) /\ NoAsk(t)
    BY <1>1 DEF NoAsk
  <1>4. ASSUME OneAsk(s, a) PROVE /\ ~IsAsk(Head(s)) => OneAsk(t, a)
                                  /\ IsAsk(Head(s)) => Head(s).id = a /\ NoAsk(t)
    <2>1. PICK i \in 1..Len(s) : IsAsk(s[i]) /\ s[i].id = a /\ \A j \in 1..Len(s) : IsAsk(s[j]) => j = i
      BY <1>4 DEF OneAsk
    <2>2. CASE i = 1
      BY <1>1, <2>1, <2>2 DEF NoAsk
    <2>3. CASE i # 1
      <3>1. i - 1 \in 1..Len(t) /\ t[i - 1] = s[i] /\ ~IsAsk(Head(s))
        BY <1>1, <1>2, <2>1, <2>3
      <3>2. \A j \in 1..Len(t) : IsAsk(t[j]) => j = i - 1
        BY <1>1, <2>1
      <3> QED
        BY <2>1, <3>1, <3>2 DEF OneAsk
    <2> QED
      BY <2>2, <2>3
  <1> QED
    BY <1>3, <1>4 DEF t

LEMMA ReplyRead ==
    ASSUME NEW s \in Seq(Line), s # <<>>, NEW id
    PROVE  /\ NoReply(s) => Head(s).method /\ NoReply(Tail(s))
           /\ OneReply(s, id) /\ Head(s).method => OneReply(Tail(s), id)
           /\ OneReply(s, id) /\ ~Head(s).method => Head(s).id = id /\ NoReply(Tail(s))
  <1> DEFINE t == Tail(s)
  <1>1. /\ Len(s) \in Nat /\ Len(t) = Len(s) - 1 /\ Head(s) = s[1] /\ 1 \in 1..Len(s)
        /\ \A i \in 1..Len(t) : i + 1 \in 1..Len(s) /\ t[i] = s[i + 1] /\ i + 1 # 1
    BY TailIs
  <1> HIDE DEF t
  <1>2. \A i \in 1..Len(s) : i = 1 \/ (i - 1 \in 1..Len(t) /\ t[i - 1] = s[i])
    BY <1>1
  <1>3. NoReply(s) => Head(s).method /\ NoReply(t)
    BY <1>1 DEF NoReply
  <1>4. ASSUME OneReply(s, id) PROVE /\ Head(s).method => OneReply(t, id)
                                     /\ ~Head(s).method => Head(s).id = id /\ NoReply(t)
    <2>1. PICK i \in 1..Len(s) : ~s[i].method /\ s[i].id = id /\ \A j \in 1..Len(s) : ~s[j].method => j = i
      BY <1>4 DEF OneReply
    <2>2. CASE i = 1
      BY <1>1, <2>1, <2>2 DEF NoReply
    <2>3. CASE i # 1
      <3>1. i - 1 \in 1..Len(t) /\ t[i - 1] = s[i] /\ Head(s).method
        BY <1>1, <1>2, <2>1, <2>3
      <3>2. \A j \in 1..Len(t) : ~t[j].method => j = i - 1
        BY <1>1, <2>1
      <3> QED
        BY <2>1, <3>1, <3>2 DEF OneReply
    <2> QED
      BY <2>2, <2>3
  <1> QED
    BY <1>3, <1>4 DEF t

LEMMA MethodRead ==
    ASSUME NEW s \in Seq(Line), s # <<>>, NEW r
    PROVE  /\ NoMethod(s) => ~Head(s).method /\ NoMethod(Tail(s))
           /\ OneMethod(s, r) /\ ~Head(s).method => OneMethod(Tail(s), r)
           /\ OneMethod(s, r) /\ Head(s).method => Head(s).tag = r /\ NoMethod(Tail(s))
  <1> DEFINE t == Tail(s)
  <1>1. /\ Len(s) \in Nat /\ Len(t) = Len(s) - 1 /\ Head(s) = s[1] /\ 1 \in 1..Len(s)
        /\ \A i \in 1..Len(t) : i + 1 \in 1..Len(s) /\ t[i] = s[i + 1] /\ i + 1 # 1
    BY TailIs
  <1> HIDE DEF t
  <1>2. \A i \in 1..Len(s) : i = 1 \/ (i - 1 \in 1..Len(t) /\ t[i - 1] = s[i])
    BY <1>1
  <1>3. NoMethod(s) => ~Head(s).method /\ NoMethod(t)
    BY <1>1 DEF NoMethod
  <1>4. ASSUME OneMethod(s, r) PROVE /\ ~Head(s).method => OneMethod(t, r)
                                     /\ Head(s).method => Head(s).tag = r /\ NoMethod(t)
    <2>1. PICK i \in 1..Len(s) : s[i].method /\ s[i].tag = r /\ \A j \in 1..Len(s) : s[j].method => j = i
      BY <1>4 DEF OneMethod
    <2>2. CASE i = 1
      BY <1>1, <2>1, <2>2 DEF NoMethod
    <2>3. CASE i # 1
      <3>1. i - 1 \in 1..Len(t) /\ t[i - 1] = s[i] /\ ~Head(s).method
        BY <1>1, <1>2, <2>1, <2>3
      <3>2. \A j \in 1..Len(t) : t[j].method => j = i - 1
        BY <1>1, <2>1
      <3> QED
        BY <2>1, <3>1, <3>2 DEF OneMethod
    <2> QED
      BY <2>2, <2>3
  <1> QED
    BY <1>3, <1>4 DEF t

LEMMA EmptyHasNone == NoAsk(<<>>) /\ NoReply(<<>>) /\ NoMethod(<<>>)
  BY DEF NoAsk, NoReply, NoMethod

-----------------------------------------------------------------------------
(* What the server asks is answered once.                                  *)

\* Its questions are numbered, as the bound allows.
Numbered ==
    /\ asked + talk <= MaxTalk
    /\ asking # NoId => asking \in 1..asked
    /\ \A i \in 1..Len(lines) : IsAsk(lines[i]) => lines[i].id \in 1..asked

\* What is still to be read from it or is put to a caller is not answered yet.
Owing ==
    /\ \A a \in 1..MaxTalk : answers[a] <= 1 /\ (a > asked \/ a = asking => answers[a] = 0)
    /\ \A i \in 1..Len(lines) : IsAsk(lines[i]) => answers[lines[i].id] = 0 /\ lines[i].id # asking
    /\ \A i, j \in 1..Len(lines) :
         IsAsk(lines[i]) /\ IsAsk(lines[j]) /\ lines[i].id = lines[j].id => i = j

\* Nothing is asked of a caller, and it answers nothing.
Quiet(c) == NoAsk(down[c]) /\ NoReply(up[c])

(* A question is on its way to the caller, or its answer on the way back,  *)
(* or the caller has left: only ever the one, and only while it is put.    *)
Put(c) ==
    IF doing = "ask" /\ serving = c
      THEN \/ OneAsk(down[c], asking) /\ NoReply(up[c]) /\ Here(c)
           \/ NoAsk(down[c]) /\ OneReply(up[c], asking)
           \/ Quiet(c) /\ ~Here(c)
      ELSE Quiet(c)

AskInv ==
    /\ Numbered
    /\ "patience" \notin gaveUp => Owing /\ \A c \in Callers : Put(c)

LEMMA FewerLines ==
    ASSUME TypeOK, lines' = lines \/ (lines # <<>> /\ lines' = Tail(lines))
    PROVE  \E k \in {0, 1} : \A i \in 1..Len(lines') :
              i + k \in 1..Len(lines) /\ lines'[i] = lines[i + k] /\ i + k \in Nat
  <1>1. lines \in Seq(Line)
    BY DEF TypeOK
  <1>2. CASE lines' = lines
    <2>1. \A i \in 1..Len(lines') : i + 0 \in 1..Len(lines) /\ lines'[i] = lines[i + 0] /\ i + 0 \in Nat
      BY <1>1, <1>2
    <2> QED
      BY <2>1
  <1>3. CASE lines # <<>> /\ lines' = Tail(lines)
    <2>1. \A i \in 1..Len(lines') : i + 1 \in 1..Len(lines) /\ lines'[i] = lines[i + 1] /\ i + 1 \in Nat
      BY <1>1, <1>3, TailIs
    <2> QED
      BY <2>1
  <1> QED
    BY <1>2, <1>3

LEMMA OwingKeeps ==
    ASSUME TypeOK, Numbered, lines' = lines \/ (lines # <<>> /\ lines' = Tail(lines)),
           UNCHANGED <<asked, talk>>, asking' \in {asking, NoId}
    PROVE  Numbered' /\ (Owing /\ answers' = answers => Owing')
  <1>1. PICK k \in {0, 1} : \A i \in 1..Len(lines') :
           i + k \in 1..Len(lines) /\ lines'[i] = lines[i + k] /\ i + k \in Nat
    BY FewerLines
  <1>2. Numbered'
    BY <1>1 DEF Numbered
  <1>3. ASSUME Owing, answers' = answers PROVE Owing'
    <2>0. MaxTalk \in Nat
      BY RelayConstants
    <2>1. ASSUME NEW a \in 1..MaxTalk
          PROVE  answers'[a] <= 1 /\ (a > asked' \/ a = asking' => answers'[a] = 0)
      <3>1. a # NoId
        BY <2>0 DEF NoId
      <3>2. answers[a] <= 1 /\ (a > asked \/ a = asking => answers[a] = 0)
        BY <1>3 DEF Owing
      <3> QED
        BY <1>3, <3>1, <3>2
    <2>2. \A i \in 1..Len(lines') : IsAsk(lines'[i]) => answers'[lines'[i].id] = 0 /\ lines'[i].id # asking'
      BY <1>1, <1>3 DEF Owing, IsAsk
    <2>3. ASSUME NEW i \in 1..Len(lines'), NEW j \in 1..Len(lines'),
                 IsAsk(lines'[i]), IsAsk(lines'[j]), lines'[i].id = lines'[j].id
          PROVE  i = j
      <3>1. /\ i + k \in 1..Len(lines) /\ lines'[i] = lines[i + k]
            /\ j + k \in 1..Len(lines) /\ lines'[j] = lines[j + k]
        BY <1>1
      <3>2. i + k = j + k
        BY <1>3, <2>3, <3>1 DEF Owing
      <3> QED
        BY <3>2
    <2> QED
      BY <2>1, <2>2, <2>3 DEF Owing
  <1> QED
    BY <1>2, <1>3

LEMMA LessTalk ==
    ASSUME NEW a \in Nat, NEW t \in Nat, NEW u \in Nat, NEW most \in Nat, a + t <= most, u <= t
    PROVE  a + u <= most
  OBVIOUS

\* A line more from the server that asks nothing.
LEMMA OwingSaid ==
    ASSUME TypeOK, Numbered, NEW msg \in Line, ~IsAsk(msg), lines' = Append(lines, msg),
           asked' = asked, asking' = asking, answers' = answers, talk' \in Nat, talk' <= talk
    PROVE  Numbered' /\ (Owing => Owing')
  <1>1. /\ Len(lines) \in Nat /\ Len(lines') = Len(lines) + 1 /\ lines'[Len(lines) + 1] = msg
        /\ \A i \in 1..Len(lines) : lines'[i] = lines[i]
    BY AppendIs DEF TypeOK
  <1>2. \A i \in 1..Len(lines') : IsAsk(lines'[i]) => i \in 1..Len(lines) /\ lines'[i] = lines[i]
    BY <1>1
  <1>3. Numbered'
    <2>1. asked + talk' <= MaxTalk
      <3>1. MaxTalk \in Nat
        BY RelayConstants
      <3>2. asked \in Nat /\ talk \in Nat /\ asked + talk <= MaxTalk
        BY DEF TypeOK, Numbered
      <3>3. talk' \in Nat /\ talk' <= talk
        OBVIOUS
      <3> QED
        BY <3>1, <3>2, <3>3, LessTalk
    <2> QED
      BY <1>2, <2>1 DEF Numbered
  <1>4. Owing => Owing'
    BY <1>2 DEF Owing
  <1> QED
    BY <1>3, <1>4

\* The server asks.
LEMMA OwingAsked ==
    ASSUME TypeOK, Numbered, talk > 0, talk' = talk - 1, asked' = asked + 1,
           lines' = Append(lines, Ask(asked + 1)), asking' = asking, answers' = answers
    PROVE  Numbered' /\ (Owing => Owing')
  <1> DEFINE msg == Ask(asked + 1)
             last == Len(lines) + 1
  <1>1. msg \in Line /\ IsAsk(msg) /\ msg.id = asked + 1 /\ asked \in Nat /\ talk \in Nat
    BY DEF TypeOK, Ask, Line, IsAsk, NoId
  <1>2. lines \in Seq(Line) /\ lines' = Append(lines, msg)
    BY DEF TypeOK
  <1> HIDE DEF msg
  <1>3. /\ Len(lines) \in Nat /\ Len(lines') = last /\ lines'[last] = msg
        /\ \A i \in 1..Len(lines) : lines'[i] = lines[i] /\ i # last
    BY <1>1, <1>2, AppendIs
  <1>4. \A i \in 1..Len(lines') : i = last \/ i \in 1..Len(lines)
    BY <1>3
  <1> HIDE DEF last
  <1>5. \A a \in 1..asked : a \in 1..(asked + 1) /\ a # asked + 1
    BY <1>1
  <1>6. asked + 1 + (talk - 1) <= MaxTalk /\ asked + 1 \in 1..(asked + 1)
    BY <1>1, RelayConstants DEF Numbered
  <1>7. Numbered'
    BY <1>1, <1>3, <1>4, <1>5, <1>6 DEF Numbered
  <1>8. ASSUME Owing PROVE Owing'
    <2>1. asked + 1 \in 1..MaxTalk /\ asking # asked + 1
      BY <1>1, RelayConstants DEF Numbered, NoId, TypeOK
    <2>2. answers[asked + 1] = 0
      BY <1>1, <1>8, <2>1 DEF Owing
    <2>3. \A a \in 1..MaxTalk : answers'[a] <= 1 /\ (a > asked' \/ a = asking' => answers'[a] = 0)
      BY <1>1, <1>8 DEF Owing
    <2>4. \A i \in 1..Len(lines') : IsAsk(lines'[i]) => answers'[lines'[i].id] = 0 /\ lines'[i].id # asking'
      BY <1>1, <1>3, <1>4, <1>8, <2>1, <2>2 DEF Owing
    <2>5. \A i \in 1..Len(lines) : IsAsk(lines[i]) => lines[i].id # asked + 1
      BY <1>5 DEF Numbered
    <2>6. \A i, j \in 1..Len(lines') :
             IsAsk(lines'[i]) /\ IsAsk(lines'[j]) /\ lines'[i].id = lines'[j].id => i = j
      BY <1>1, <1>3, <1>4, <1>8, <2>5 DEF Owing
    <2> QED
      BY <2>3, <2>4, <2>6 DEF Owing
  <1> QED
    BY <1>7, <1>8

\* A question is answered that is not on the way any more.
LEMMA OwingAnswered ==
    ASSUME TypeOK, Numbered, Owing, NEW a \in 1..MaxTalk, answers[a] = 0, a <= asked,
           answers' = [answers EXCEPT ![a] = @ + 1], asked' = asked, asking' = NoId,
           lines' = lines \/ (lines # <<>> /\ lines' = Tail(lines)),
           \A i \in 1..Len(lines') : IsAsk(lines'[i]) => lines'[i].id # a
    PROVE  Owing'
  <1>1. PICK k \in {0, 1} : \A i \in 1..Len(lines') :
           i + k \in 1..Len(lines) /\ lines'[i] = lines[i + k] /\ i + k \in Nat
    BY FewerLines
  <1>2. asked \in Nat /\ asked <= MaxTalk /\ talk \in Nat /\ MaxTalk \in Nat
    BY RelayConstants DEF TypeOK, Numbered
  <1>3. answers'[a] = 1 /\ \A b \in 1..MaxTalk : b # a => answers'[b] = answers[b]
    BY DEF TypeOK
  <1>4. \A b \in 1..MaxTalk : answers'[b] <= 1 /\ (b > asked' \/ b = asking' => answers'[b] = 0)
    BY <1>2, <1>3 DEF Owing, NoId
  <1>5. ASSUME NEW i \in 1..Len(lines'), IsAsk(lines'[i])
        PROVE  answers'[lines'[i].id] = 0 /\ lines'[i].id # asking'
    <2>1. IsAsk(lines[i + k]) /\ i + k \in 1..Len(lines) /\ lines'[i].id = lines[i + k].id
      BY <1>1, <1>5
    <2>2. lines'[i].id \in 1..MaxTalk /\ answers[lines'[i].id] = 0
      BY <1>2, <2>1 DEF Owing, Numbered
    <2> QED
      BY <1>3, <1>5, <2>2 DEF IsAsk
  <1>6. ASSUME NEW i \in 1..Len(lines'), NEW j \in 1..Len(lines'),
               IsAsk(lines'[i]), IsAsk(lines'[j]), lines'[i].id = lines'[j].id
        PROVE  i = j
    <2>1. i + k \in 1..Len(lines) /\ lines'[i] = lines[i + k]
      BY <1>1
    <2>2. j + k \in 1..Len(lines) /\ lines'[j] = lines[j + k]
      BY <1>1
    <2>3. \A x, y \in 1..Len(lines) : IsAsk(lines[x]) /\ IsAsk(lines[y]) /\ lines[x].id = lines[y].id => x = y
      BY DEF Owing
    <2>4. IsAsk(lines[i + k]) /\ IsAsk(lines[j + k]) /\ lines[i + k].id = lines[j + k].id
      BY <1>6, <2>1, <2>2
    <2>5. i + k = j + k
      BY <2>1, <2>2, <2>3, <2>4
    <2> QED
      BY <1>1, <2>5
  <1> QED
    BY <1>4, <1>5, <1>6 DEF Owing

\* The question at the head of what the server says, and what follows it.
LEMMA FirstAsk ==
    ASSUME TypeOK, Numbered, ReadsServer, Took = "ServerRequest"
    PROVE  /\ IsAsk(Head(lines)) /\ Head(lines).id \in 1..asked /\ Head(lines).id \in 1..MaxTalk
           /\ Head(lines) \in Line
           /\ Owing => /\ answers[Head(lines).id] = 0
                       /\ \A i \in 1..Len(lines') : IsAsk(lines'[i]) => lines'[i].id # Head(lines).id
  <1>1. /\ lines \in Seq(Line) /\ Head(lines) \in Line /\ Head(lines) = lines[1] /\ 1 \in 1..Len(lines)
        /\ \A i \in 1..Len(lines') : i + 1 \in 1..Len(lines) /\ lines'[i] = lines[i + 1] /\ i + 1 # 1
    BY TailIs DEF ReadsServer, TypeOK
  <1>2. IsAsk(Head(lines))
    BY DEF Took, Classify, IsAsk
  <1>3. Head(lines).id \in 1..asked
    BY <1>1, <1>2 DEF Numbered
  <1>4. 1..asked \subseteq 1..MaxTalk
    BY RelayConstants DEF Numbered, TypeOK
  <1> QED
    BY <1>1, <1>2, <1>3, <1>4 DEF Owing

\* A request is over, and its caller is told so.
LEMMA PutOver ==
    ASSUME RelayInv, serving \in Callers, NEW msg \in Line, ~msg.method, Over(msg),
           \A d \in Callers : d # serving => Quiet(d) /\ up'[d] = up[d],
           NoAsk(down[serving]), NoReply(up'[serving])
    PROVE  \A c \in Callers : Put(c)'
  <1>1. TypeOK /\ down[serving] \in Seq(Line)
    BY DEF RelayInv, TypeOK
  <1>2. /\ doing' # "ask" /\ \A d \in Callers : d # serving => down'[d] = down[d]
        /\ down'[serving] = down[serving] \/ down'[serving] = Append(down[serving], msg)
    BY <1>1, OverIs
  <1>3. NoAsk(down'[serving])
    BY <1>1, <1>2, AskAppended DEF IsAsk
  <1> QED
    BY <1>2, <1>3 DEF Put, Quiet

\* Nothing changes in the channels, and nothing is put to anyone.
LEMMA PutStill ==
    ASSUME \A c \in Callers : Put(c), UNCHANGED <<up, down>>, doing # "ask", doing' # "ask"
    PROVE  \A c \in Callers : Put(c)'
  BY DEF Put, Quiet

LEMMA AskInvServes ==
    ASSUME RelayInv, AskInv, NEW msg, ServesItself(msg)
    PROVE  AskInv'
  <1>1. /\ doing = "serve" /\ up[serving] # <<>> /\ up' = Reads(up, serving) /\ Over(msg)
        /\ msg \in {Reply(Incoming1.id, Incoming1.tag), ErrorReply(Incoming1.tag)}
        /\ Incoming1.method
        /\ UNCHANGED <<at, wants, result, queue, forwarded, lines, serverVars, gaveUp>>
    BY DEF ServesItself, ReadsLine
  <1>2. serving \in Callers /\ TypeOK /\ up \in [Callers -> Seq(Line)]
    BY <1>1, ServedHasCome DEF RelayInv, TypeOK
  <1>3. msg \in Line /\ ~msg.method
    <2>1. Incoming1 \in Line /\ Incoming1.tag \in Requests
      BY <1>1, <1>2, UpIs DEF Incoming1, OwnLine
    <2>2. Incoming1.id \in Nat /\ Incoming1.tag \in Nat
      BY <2>1 DEF Line
    <2> QED
      BY <1>1, <2>1, <2>2, LinesAre DEF Reply, ErrorReply
  <1>4. asking' = NoId
    BY <1>1 DEF Over
  <1>5. Numbered' /\ (Owing => Owing')
    BY <1>1, <1>2, <1>4, OwingKeeps DEF AskInv, serverVars
  <1>6. ASSUME "patience" \notin gaveUp PROVE \A c \in Callers : Put(c)'
    <2>1. \A d \in Callers : Quiet(d)
      BY <1>1, <1>6 DEF AskInv, Put
    <2>2. up'[serving] = Tail(up[serving]) /\ \A d \in Callers : d # serving => up'[d] = up[d]
      BY <1>1, <1>2, ReadsIs
    <2>3. NoAsk(down[serving]) /\ NoReply(up'[serving])
      BY <1>1, <1>2, <2>1, <2>2, ReplyRead DEF Quiet
    <2> QED
      BY <1>1, <1>2, <1>3, <2>1, <2>2, <2>3, PutOver
  <1> QED
    BY <1>1, <1>5, <1>6 DEF AskInv

LEMMA AskInvEnds ==
    ASSUME RelayInv, AskInv, NEW msg, EndsExchange(msg)
    PROVE  AskInv'
  <1>1. /\ doing = "exchange" /\ Over(msg) /\ up' = up
        /\ lines' = lines \/ (lines # <<>> /\ lines' = Tail(lines))
        /\ "patience" \in gaveUp' <=> "patience" \in gaveUp
        /\ UNCHANGED <<asked, talk, answers>>
    BY DEF EndsExchange, serverVars
  <1>2. serving \in Callers /\ TypeOK /\ inFlight \in Requests
    BY <1>1, ServedHasCome DEF RelayInv, TypeOK
  <1>3. msg \in Line /\ ~msg.method
    BY <1>2, HeadOfLines, LinesAre DEF EndsExchange, ErrorReply, Took, Classify
  <1>4. asking' = NoId
    BY <1>1 DEF Over
  <1>5. Numbered' /\ (Owing => Owing')
    BY <1>1, <1>2, <1>4, OwingKeeps DEF AskInv
  <1>6. ASSUME "patience" \notin gaveUp PROVE \A c \in Callers : Put(c)'
    <2>1. \A d \in Callers : Quiet(d)
      BY <1>1, <1>6 DEF AskInv, Put
    <2> QED
      BY <1>1, <1>2, <1>3, <2>1, PutOver DEF Quiet
  <1> QED
    BY <1>1, <1>5, <1>6 DEF AskInv

LEMMA AskInvPuts == ASSUME RelayInv, AskInv, PutsToCaller PROVE AskInv'
  <1>1. /\ doing = "exchange" /\ ReadsServer /\ Took = "ServerRequest" /\ Here(serving)
        /\ lines # <<>> /\ lines' = Tail(lines) /\ Tells(Head(lines))
        /\ doing' = "ask" /\ asking' = Head(lines).id
        /\ UNCHANGED <<at, up, serving, answers, asked, talk, gaveUp>>
    BY DEF PutsToCaller, ReadsServer
  <1>2. /\ serving \in Callers /\ TypeOK /\ asking = NoId /\ Numbered
        /\ down[serving] \in Seq(Line)
    BY <1>1, ServedHasCome DEF RelayInv, TypeOK, AskInv
  <1>3. /\ IsAsk(Head(lines)) /\ Head(lines).id \in 1..asked /\ Head(lines).id \in 1..MaxTalk
        /\ Head(lines) \in Line
        /\ Owing => /\ answers[Head(lines).id] = 0
                    /\ \A i \in 1..Len(lines') : IsAsk(lines'[i]) => lines'[i].id # Head(lines).id
    BY <1>1, <1>2, FirstAsk
  <1>4. PICK k \in {0, 1} : \A i \in 1..Len(lines') :
           i + k \in 1..Len(lines) /\ lines'[i] = lines[i + k] /\ i + k \in Nat
    BY <1>1, <1>2, FewerLines
  <1>5. Numbered'
    BY <1>1, <1>2, <1>3, <1>4 DEF Numbered
  <1>6. ASSUME Owing PROVE Owing'
    <2>1. \A a \in 1..MaxTalk : answers'[a] <= 1 /\ (a > asked' \/ a = asking' => answers'[a] = 0)
      BY <1>1, <1>3, <1>6 DEF Owing
    <2>2. \A i \in 1..Len(lines') : IsAsk(lines'[i]) => answers'[lines'[i].id] = 0 /\ lines'[i].id # asking'
      BY <1>1, <1>3, <1>4, <1>6 DEF Owing
    <2>3. ASSUME NEW i \in 1..Len(lines'), NEW j \in 1..Len(lines'),
                 IsAsk(lines'[i]), IsAsk(lines'[j]), lines'[i].id = lines'[j].id
          PROVE  i = j
      <3>1. /\ i + k \in 1..Len(lines) /\ j + k \in 1..Len(lines)
            /\ IsAsk(lines[i + k]) /\ IsAsk(lines[j + k]) /\ lines[i + k].id = lines[j + k].id
        BY <1>4, <2>3
      <3>2. i + k = j + k
        BY <1>6, <3>1 DEF Owing
      <3> QED
        BY <1>4, <3>2
    <2> QED
      BY <2>1, <2>2, <2>3 DEF Owing
  <1>7. ASSUME \A c \in Callers : Put(c) PROVE \A c \in Callers : Put(c)'
    <2>1. \A c \in Callers : Quiet(c)
      BY <1>1, <1>7 DEF Put
    <2>2. /\ \A d \in Callers : d # serving => down'[d] = down[d]
          /\ down'[serving] = Append(down[serving], Head(lines))
      BY <1>1, <1>2, <1>3, TellsIs
    <2>3. OneAsk(down'[serving], asking')
      BY <1>1, <1>2, <1>3, <2>1, <2>2, AskAppended DEF Quiet
    <2> QED
      BY <1>1, <2>1, <2>2, <2>3 DEF Put, Quiet, Here
  <1> QED
    BY <1>1, <1>5, <1>6, <1>7 DEF AskInv

LEMMA AskInvAnswers == ASSUME RelayInv, AskInv, AnswersItself PROVE AskInv'
  <1>1. /\ doing = "exchange" /\ ReadsServer /\ Took = "ServerRequest"
        /\ lines # <<>> /\ lines' = Tail(lines)
        /\ answers' = [answers EXCEPT ![Head(lines).id] = @ + 1]
        /\ UNCHANGED <<up, down, doing, serving, asking, asked, talk, gaveUp>>
    BY DEF AnswersItself, ReadsServer
  <1>2. TypeOK /\ asking = NoId /\ Numbered
    BY <1>1 DEF RelayInv, TypeOK, AskInv
  <1>3. Numbered'
    BY <1>1, <1>2, OwingKeeps
  <1>4. ASSUME Owing PROVE Owing'
    <2>1. /\ Head(lines).id \in 1..asked /\ Head(lines).id \in 1..MaxTalk
          /\ answers[Head(lines).id] = 0
          /\ \A i \in 1..Len(lines') : IsAsk(lines'[i]) => lines'[i].id # Head(lines).id
      BY <1>1, <1>2, <1>4, FirstAsk
    <2>2. Head(lines).id <= asked
      BY <2>1
    <2> QED
      BY <1>1, <1>2, <1>4, <2>1, <2>2, OwingAnswered
  <1>5. (\A c \in Callers : Put(c)) => \A c \in Callers : Put(c)'
    BY <1>1, PutStill
  <1> QED
    BY <1>1, <1>3, <1>4, <1>5 DEF AskInv

LEMMA AskInvRest == ASSUME RelayInv, AskInv, RelayRest PROVE AskInv'
  <1>1. /\ doing = "exchange" /\ lines # <<>> /\ lines' = Tail(lines)
        /\ UNCHANGED <<up, doing, serving, asking, asked, talk, answers, gaveUp>>
        /\ \/ Tells(Head(lines)) /\ Took = "Notification"
           \/ down' = down
    BY DEF RelayRest, ReadsServer, serverVars
  <1>2. serving \in Callers /\ TypeOK /\ down[serving] \in Seq(Line)
    BY <1>1, ServedHasCome DEF RelayInv, TypeOK
  <1>3. Numbered' /\ (Owing => Owing')
    BY <1>1, <1>2, OwingKeeps DEF AskInv
  <1>4. ASSUME \A c \in Callers : Put(c) PROVE \A c \in Callers : Put(c)'
    <2>1. CASE Tells(Head(lines)) /\ Took = "Notification"
      <3>1. Head(lines) \in Line /\ ~IsAsk(Head(lines))
        BY <1>1, <1>2, <2>1, HeadOfLines DEF Took, Classify, IsAsk
      <3>2. /\ \A d \in Callers : d # serving => down'[d] = down[d]
            /\ down'[serving] = down[serving] \/ down'[serving] = Append(down[serving], Head(lines))
        BY <1>2, <2>1, <3>1, TellsIs
      <3>3. \A c \in Callers : Quiet(c)
        BY <1>1, <1>4 DEF Put
      <3>4. NoAsk(down'[serving])
        BY <1>2, <3>1, <3>2, <3>3, AskAppended DEF Quiet
      <3> QED
        BY <1>1, <3>2, <3>3, <3>4 DEF Put, Quiet
    <2>2. CASE down' = down
      BY <1>1, <1>4, <2>2, PutStill
    <2> QED
      BY <1>1, <2>1, <2>2
  <1> QED
    BY <1>1, <1>3, <1>4 DEF AskInv

LEMMA AskInvEndsAsk == ASSUME RelayInv, AskInv, EndsAsk PROVE AskInv'
<1>1. /\ doing = "ask" /\ UNCHANGED <<at, lines, asked, talk>>
      /\ asking \in 1..asked /\ asking \in 1..MaxTalk /\ asking' = NoId
      /\ "patience" \notin gaveUp' => "patience" \notin gaveUp
  <2>1. doing = "ask" /\ UNCHANGED <<at, lines, asked, talk>> /\ asking \in 1..asked
    BY DEF EndsAsk, RelayInv, TypeOK, AskInv, Numbered
  <2>2. 1..asked \subseteq 1..MaxTalk
    BY RelayConstants DEF AskInv, Numbered, RelayInv, TypeOK
  <2>3. asking' = NoId
    BY DEF EndsAsk, Over
  <2>4. "patience" \notin gaveUp' => "patience" \notin gaveUp
    BY DEF EndsAsk
  <2> QED
    BY <2>1, <2>2, <2>3, <2>4
<1>2. /\ serving \in Callers /\ TypeOK /\ Numbered /\ inFlight \in Requests
      /\ down[serving] \in Seq(Line) /\ up[serving] \in Seq(Line)
      /\ up \in [Callers -> Seq(Line)]
  BY <1>1, ServedHasCome DEF RelayInv, TypeOK, AskInv
<1>3. Numbered'
  BY <1>1, <1>2, OwingKeeps
<1>4. ASSUME Owing PROVE Owing'
  <2>1. CASE answers' = [answers EXCEPT ![asking] = @ + 1]
    <3>1. /\ answers[asking] = 0 /\ asking <= asked
          /\ \A i \in 1..Len(lines') : IsAsk(lines'[i]) => lines'[i].id # asking
      BY <1>1, <1>4 DEF Owing
    <3> QED
      BY <1>1, <1>2, <1>4, <2>1, <3>1, OwingAnswered
  <2>2. CASE UNCHANGED answers
    BY <1>1, <1>2, <1>4, <2>2, OwingKeeps
  <2> QED
    BY <2>1, <2>2 DEF EndsAsk
<1>5. ASSUME "patience" \notin gaveUp', \A c \in Callers : Put(c) PROVE \A c \in Callers : Put(c)'
  <2>1. /\ NoAsk(down[serving]) /\ NoReply(up'[serving])
        /\ \A d \in Callers : d # serving => up'[d] = up[d]
    <3>1. CASE up[serving] # <<>> /\ up' = Reads(up, serving) /\ Classify(Incoming1, asking) = "Response"
      <4>1. ~Head(up[serving]).method
        BY <3>1 DEF Classify, Incoming1
      <4>2. NoAsk(down[serving]) /\ OneReply(up[serving], asking)
        BY <1>1, <1>2, <1>5, <3>1, <4>1, ReplyRead DEF Put, Quiet
      <4>3. /\ up'[serving] = Tail(up[serving])
            /\ \A d \in Callers : d # serving => up'[d] = up[d]
        BY <1>2, <3>1, ReadsIs
      <4> QED
        BY <1>2, <3>1, <4>1, <4>2, <4>3, ReplyRead
    <3>2. CASE up[serving] = <<>> /\ up' = up /\ ~Here(serving)
      <4>1. ~OneReply(<<>>, asking)
        BY DEF OneReply
      <4>2. Quiet(serving)
        BY <1>1, <1>2, <1>5, <3>2, <4>1 DEF Put
      <4> QED
        BY <3>2, <4>2 DEF Quiet
    <3> QED
      BY <1>5, <3>1, <3>2 DEF EndsAsk
  <2>2. \A d \in Callers : d # serving => Quiet(d)
    BY <1>5 DEF Put
  <2>3. CASE Over(ErrorReply(inFlight))
    <3>1. ErrorReply(inFlight) \in Line /\ ~ErrorReply(inFlight).method
      BY <1>2, LinesAre DEF ErrorReply
    <3> QED
      BY <1>2, <2>1, <2>2, <2>3, <3>1, PutOver
  <2>4. CASE doing' = "exchange" /\ down' = down
    BY <2>1, <2>2, <2>4 DEF Put, Quiet
  <2> QED
    BY <2>3, <2>4 DEF EndsAsk
<1> QED
  BY <1>1, <1>3, <1>4, <1>5 DEF AskInv

LEMMA AskInvPasses == ASSUME RelayInv, AskInv, PassesOver PROVE AskInv'
<1>1. /\ doing = "ask" /\ up[serving] # <<>> /\ up' = Reads(up, serving)
      /\ Classify(Incoming1, asking) # "Response"
      /\ UNCHANGED <<at, down, doing, serving, asking, lines, asked, talk, answers, gaveUp>>
  BY DEF PassesOver, daemonVars, serverVars
<1>2. /\ serving \in Callers /\ TypeOK /\ asking # NoId
      /\ up[serving] \in Seq(Line) /\ up \in [Callers -> Seq(Line)]
  BY <1>1, ServedHasCome DEF RelayInv, TypeOK
<1>3. Numbered' /\ (Owing => Owing')
  BY <1>1, <1>2, OwingKeeps DEF AskInv
<1>4. ASSUME \A c \in Callers : Put(c) PROVE \A c \in Callers : Put(c)'
  <2>1. /\ up'[serving] = Tail(up[serving])
        /\ \A d \in Callers : d # serving => up'[d] = up[d]
    BY <1>1, <1>2, ReadsIs
  <2>2. Head(up[serving]).method
    <3>1. OneReply(up[serving], asking) \/ NoReply(up[serving])
      BY <1>1, <1>2, <1>4 DEF Put, Quiet
    <3>2. ASSUME ~Head(up[serving]).method PROVE Head(up[serving]).id = asking
      BY <1>1, <1>2, <3>1, <3>2, ReplyRead
    <3> QED
      BY <1>1, <1>2, <3>2 DEF Classify, Incoming1
  <2>3. /\ OneReply(up[serving], asking) => OneReply(up'[serving], asking)
        /\ NoReply(up[serving]) => NoReply(up'[serving])
    BY <1>1, <1>2, <2>1, <2>2, ReplyRead
  <2> QED
    BY <1>1, <1>4, <2>1, <2>3 DEF Put, Quiet, Here
<1> QED
  BY <1>1, <1>3, <1>4 DEF AskInv

\* What the daemon does while no server's question is about.
LEMMA AskInvIdle ==
    ASSUME RelayInv, AskInv,
           Accept \/ IdleOut \/ Forwards \/ ServeLateAnswer \/ CallerLeft \/ Exit
    PROVE  AskInv'
<1>1. /\ doing \in {"accept", "serve", "close"} /\ doing' # "ask"
      /\ UNCHANGED <<down, asking, lines, asked, talk, gaveUp>>
  BY DEF Accept, IdleOut, Forwards, ServeLateAnswer, CallerLeft, NextCaller, Exit, ReadsLine,
         callerVars, serverVars
<1>2. TypeOK /\ up \in [Callers -> Seq(Line)]
  BY DEF RelayInv, TypeOK
<1>3. Numbered'
  BY <1>1, <1>2, OwingKeeps DEF AskInv
<1>4. ASSUME "patience" \notin gaveUp PROVE Owing' /\ \A c \in Callers : Put(c)'
  <2>1. \A c \in Callers : Quiet(c) /\ Put(c)
    BY <1>1, <1>4 DEF AskInv, Put
  <2>2. CASE Accept \/ IdleOut \/ CallerLeft \/ Exit
    <3>1. UNCHANGED <<up, answers>>
      BY <2>2 DEF Accept, IdleOut, CallerLeft, Exit, callerVars, serverVars
    <3> QED
      BY <1>1, <1>2, <1>4, <2>1, <3>1, OwingKeeps, PutStill DEF AskInv
  <2>3. ASSUME ReadsLine PROVE /\ Incoming1.method
                               /\ \A c \in Callers : NoReply(up'[c])
    <3>1. up[serving] # <<>> /\ up' = Reads(up, serving) /\ serving \in Callers
      BY <2>3, ServedHasCome DEF ReadsLine
    <3>2. /\ up'[serving] = Tail(up[serving]) /\ up[serving] \in Seq(Line)
          /\ \A d \in Callers : d # serving => up'[d] = up[d]
      BY <1>2, <3>1, ReadsIs
    <3>3. Head(up[serving]).method /\ NoReply(up'[serving])
      BY <2>1, <3>1, <3>2, ReplyRead DEF Quiet
    <3> QED
      BY <2>1, <3>2, <3>3 DEF Quiet, Incoming1
  <2>4. CASE Forwards \/ ServeLateAnswer
    <3>1. ReadsLine
      BY <2>4 DEF Forwards, ServeLateAnswer
    <3>2. UNCHANGED answers
      BY <2>3, <2>4, <3>1 DEF Forwards, ServeLateAnswer
    <3>3. \A c \in Callers : Put(c)'
      BY <1>1, <2>1, <2>3, <3>1 DEF Put, Quiet
    <3> QED
      BY <1>1, <1>2, <1>4, <3>2, <3>3, OwingKeeps DEF AskInv
  <2> QED
    BY <2>2, <2>4
<1> QED
  BY <1>1, <1>3, <1>4 DEF AskInv

LEMMA AskInvServer == ASSUME RelayInv, AskInv, Server PROVE AskInv'
<1>1. UNCHANGED <<at, up, down, doing, serving, asking, answers, gaveUp>>
  BY DEF Server, ServerReplies, ServerAsks, ServerNotes, ServerFails, Says, callerVars, daemonVars
<1>2. TypeOK /\ Numbered
  BY DEF RelayInv, AskInv
<1>3. Numbered' /\ (Owing => Owing')
  <2>1. ASSUME NEW r \in Requests, ServerReplies(r) PROVE Numbered' /\ (Owing => Owing')
    <3>1. WireId[r] \in Nat /\ r \in Nat
      BY RelayConstants
    <3>2. Reply(WireId[r], r) \in Line /\ ~IsAsk(Reply(WireId[r], r))
      BY <3>1, LinesAre DEF Reply, IsAsk
    <3>3. lines' = Append(lines, Reply(WireId[r], r)) /\ asked' = asked /\ talk' = talk
      BY <2>1 DEF ServerReplies, Says
    <3>4. talk' \in Nat /\ talk' <= talk
      BY <1>2, <3>3 DEF TypeOK
    <3> QED
      BY <1>1, <1>2, <3>2, <3>3, <3>4, OwingSaid
  <2>2. CASE ServerAsks
    BY <1>1, <1>2, <2>2, OwingAsked DEF ServerAsks, Says
  <2>3. CASE ServerNotes
    <3>1. talk \in Nat /\ talk > 0
      BY <1>2, <2>3 DEF ServerNotes, TypeOK
    <3>2. Note(talk) \in Line /\ ~IsAsk(Note(talk))
      BY <3>1, LinesAre DEF Note, IsAsk
    <3>3. lines' = Append(lines, Note(talk)) /\ asked' = asked /\ talk' \in Nat /\ talk' <= talk
      BY <2>3, <3>1 DEF ServerNotes, Says
    <3> QED
      BY <1>1, <1>2, <3>2, <3>3, OwingSaid
  <2>4. CASE ServerFails
    BY <1>1, <1>2, <2>4, OwingKeeps DEF ServerFails, daemonVars
  <2> QED
    BY <2>1, <2>2, <2>3, <2>4 DEF Server
<1> QED
  BY <1>1, <1>3 DEF AskInv, Put, Quiet, Here

\* A caller that only writes requests, reads no question, or leaves.
LEMMA PutCaller ==
    ASSUME RelayInv, AskInv, UNCHANGED <<daemonVars, serverVars>>,
           "patience" \in gaveUp => "patience" \in gaveUp',
           NEW c \in Callers,
           \A d \in Callers : d # c => up'[d] = up[d] /\ down'[d] = down[d] /\ Here(d)' = Here(d),
           "patience" \notin gaveUp => (Put(c) => Put(c)')
    PROVE  AskInv'
  <1>1. UNCHANGED <<doing, serving, asking, lines, asked, talk, answers>> /\ TypeOK
    BY DEF daemonVars, serverVars, RelayInv
  <1>2. Numbered' /\ (Owing => Owing')
    BY <1>1, OwingKeeps DEF AskInv
  <1>3. \A d \in Callers : d # c => (Put(d) => Put(d)')
    BY <1>1 DEF Put, Quiet
  <1> QED
    BY <1>2, <1>3 DEF AskInv

LEMMA AskInvCallers ==
    ASSUME RelayInv, AskInv,
           \/ \E c \in Callers : Connect(c) \/ CallerTakes(c) \/ CallerTimesOut(c)
                                 \/ CallerIsCutOff(c) \/ HangUp(c)
           \/ \E r \in Requests : Send(r)
    PROVE  AskInv'
<1>0. /\ TypeOK
      /\ up \in [Callers -> Seq(Line)] /\ down \in [Callers -> Seq(Line)]
      /\ at \in [Callers -> {"away", "idle", "waiting", "left"}]
  BY DEF RelayInv, TypeOK
<1>1. ASSUME NEW c \in Callers, Connect(c) PROVE AskInv'
  <2>1. /\ at[c] = "away" /\ at' = [at EXCEPT ![c] = "idle"]
        /\ UNCHANGED <<up, down, doing, serving, asking, lines, asked, talk, answers, gaveUp>>
    BY <1>1 DEF Connect, serverVars
  <2>2. Numbered' /\ (Owing => Owing')
    BY <1>0, <2>1, OwingKeeps DEF AskInv
  <2>3. \A d \in Callers : at'[d] # "left" <=> at[d] # "left"
    BY <1>0, <2>1
  <2> QED
    BY <2>1, <2>2, <2>3 DEF AskInv, Put, Quiet, Here
\* A caller that stops waiting is still there.
<1>2. ASSUME NEW c \in Callers, NEW outcome, at[c] = "waiting", Ends(c, outcome)
      PROVE  \A d \in Callers : Here(d)' = Here(d)
  BY <1>0, <1>2 DEF Ends, Here
<1>3. ASSUME NEW c \in Callers, CallerTimesOut(c) \/ CallerIsCutOff(c) PROVE AskInv'
  <2>1. PICK outcome : Ends(c, outcome)
    BY <1>3 DEF CallerTimesOut, CallerIsCutOff
  <2>2. /\ at[c] = "waiting" /\ UNCHANGED <<up, down, daemonVars, serverVars>>
        /\ "patience" \in gaveUp => "patience" \in gaveUp'
    BY <1>3 DEF CallerTimesOut, CallerIsCutOff
  <2>3. \A d \in Callers : Here(d)' = Here(d)
    BY <1>2, <2>1, <2>2
  <2>4. UNCHANGED <<up, down, doing, serving, asking>>
    BY <2>2 DEF daemonVars
  <2>5. Put(c) => Put(c)'
    BY <2>3, <2>4 DEF Put, Quiet
  <2> QED
    BY <2>2, <2>3, <2>5, PutCaller
<1>4. ASSUME NEW c \in Callers, HangUp(c) PROVE AskInv'
  <2>1. /\ UNCHANGED <<up, daemonVars, serverVars, gaveUp>> /\ at' = [at EXCEPT ![c] = "left"]
        /\ down' = [down EXCEPT ![c] = <<>>]
    BY <1>4 DEF HangUp
  <2>2. /\ down'[c] = <<>> /\ ~Here(c)'
        /\ \A d \in Callers : d # c => down'[d] = down[d] /\ Here(d)' = Here(d)
    BY <1>0, <2>1 DEF Here
  <2>3. UNCHANGED <<up, doing, serving, asking>>
    BY <2>1 DEF daemonVars
  <2>4. Put(c) => Put(c)'
    BY <2>2, <2>3, EmptyHasNone DEF Put, Quiet
  <2> QED
    BY <2>1, <2>2, <2>4, PutCaller
<1>5. ASSUME NEW c \in Callers, CallerTakes(c) PROVE AskInv'
  <2> DEFINE msg == Head(down[c])
  <2>1. /\ at[c] = "waiting" /\ down[c] # <<>> /\ down' = Reads(down, c) /\ msg \in Line
        /\ UNCHANGED <<daemonVars, serverVars, gaveUp>>
        /\ UNCHANGED <<doing, serving, asking>>
    BY <1>0, <1>5, TakesIs DEF daemonVars
  <2>2. down'[c] = Tail(down[c]) /\ \A d \in Callers : d # c => down'[d] = down[d]
    BY <1>0, <2>1, ReadsIs
  <2>3. down[c] \in Seq(Line) /\ up[c] \in Seq(Line) /\ Here(c)
    BY <1>0, <2>1 DEF Here
  <2>4. CASE ~IsAsk(msg) \/ ~Open(c)
    <3>1. up' = up /\ \A d \in Callers : Here(d)' = Here(d)
      <4>1. Classify(msg, WireId[wants[c]]) = "ServerRequest" => IsAsk(msg)
        BY DEF Classify, IsAsk
      <4>2. CASE \E outcome \in Outcome : up' = up /\ Ends(c, outcome)
        BY <1>2, <2>1, <4>2
      <4>3. CASE UNCHANGED <<at, up>>
        BY <4>3 DEF Here
      <4> QED
        BY <1>0, <1>5, <2>4, <4>1, <4>2, <4>3, TakesIs
    <3>2. CASE ~IsAsk(msg)
      <4>1. Put(c) => Put(c)'
        BY <2>1, <2>2, <2>3, <3>1, <3>2, AskRead DEF Put, Quiet
      <4> QED
        BY <2>1, <2>2, <3>1, <4>1, PutCaller
    <3>3. CASE IsAsk(msg) /\ ~Open(c)
      <4>1. ~(doing = "ask" /\ serving = c)
        BY <3>3 DEF Open
      <4>2. Put(c) => Put(c)'
        BY <2>1, <2>2, <2>3, <3>1, <4>1, AskRead DEF Put, Quiet
      <4> QED
        BY <2>1, <2>2, <3>1, <4>2, PutCaller
    <3> QED
      BY <2>4, <3>2, <3>3
  <2>5. CASE IsAsk(msg) /\ Open(c)
    <3> DEFINE answer == AnswerTo(msg.id)
    <3>1. up' = Writes(up, c, answer) /\ UNCHANGED at
      <4>1. Classify(msg, WireId[wants[c]]) = "ServerRequest"
        BY <2>5 DEF Classify, IsAsk
      <4> QED
        BY <1>0, <1>5, <2>5, <4>1, TakesIs
    <3>2. answer \in Line /\ ~answer.method /\ answer.id = msg.id
      <4>1. msg.id \in Nat
        BY <2>1 DEF Line
      <4> QED
        BY <4>1, LinesAre DEF AnswerTo, Reply
    <3> HIDE DEF answer
    <3>3. /\ Writes(up, c, answer)[c] = Append(up[c], answer)
          /\ \A d \in Callers : d # c => Writes(up, c, answer)[d] = up[d]
      BY <1>0, <3>2, WritesIs
    <3>4. up'[c] = Append(up[c], answer) /\ \A d \in Callers : d # c => up'[d] = up[d]
      BY <3>1, <3>3
    <3>5. \A d \in Callers : Here(d)' = Here(d)
      BY <3>1 DEF Here
    <3>6. ASSUME Put(c) PROVE Put(c)'
      <4>1. ~NoAsk(down[c])
        BY <2>1, <2>3, <2>5, AskRead
      <4>2. /\ doing = "ask" /\ serving = c
            /\ OneAsk(down[c], asking) /\ NoReply(up[c])
        BY <3>6, <4>1 DEF Put, Quiet
      <4>3. NoAsk(down'[c]) /\ msg.id = asking
        BY <2>1, <2>2, <2>3, <2>5, <4>2, AskRead
      <4>4. OneReply(up'[c], answer.id)
        BY <2>3, <3>2, <3>4, <4>2, ReplyAppended
      <4> QED
        BY <2>1, <3>2, <4>2, <4>3, <4>4 DEF Put
    <3> QED
      BY <2>1, <2>2, <3>4, <3>5, <3>6, PutCaller
  <2> QED
    BY <2>4, <2>5
<1>6. ASSUME NEW r \in Requests, Send(r) PROVE AskInv'
  <2> DEFINE c == By[r]
             msg == RequestLine(r)
  <2>1. c \in Callers /\ at[c] = "idle" /\ UNCHANGED <<down, daemonVars, serverVars, gaveUp>>
    BY <1>6, RelayConstants DEF Send
  <2>2. msg \in Line /\ msg.method
    BY LinesAre DEF RequestLine
  <2>3. \/ up' = up /\ at' = at
        \/ up' = Writes(up, c, msg) /\ at' = [at EXCEPT ![c] = "waiting"]
    BY <1>6 DEF Send
  <2> HIDE DEF c, msg
  <2>4. \A d \in Callers : Here(d)' = Here(d)
    BY <1>0, <2>1, <2>3 DEF Here
  <2>5. up' = up \/ (/\ up'[c] = Append(up[c], msg)
                     /\ \A d \in Callers : d # c => up'[d] = up[d])
    <3>1. /\ Writes(up, c, msg)[c] = Append(up[c], msg)
          /\ \A d \in Callers : d # c => Writes(up, c, msg)[d] = up[d]
      BY <1>0, <2>1, <2>2, WritesIs
    <3> QED
      BY <2>3, <3>1
  <2>6. /\ NoReply(up[c]) => NoReply(up'[c])
        /\ OneReply(up[c], asking) => OneReply(up'[c], asking)
    <3>1. up[c] \in Seq(Line)
      BY <1>0, <2>1
    <3> QED
      BY <2>2, <2>5, <3>1, ReplyAppended
  <2>7. UNCHANGED <<down, doing, serving, asking>>
    BY <2>1 DEF daemonVars
  <2>8. Put(c) => Put(c)'
    BY <2>1, <2>4, <2>6, <2>7 DEF Put, Quiet
  <2> QED
    BY <2>1, <2>4, <2>5, <2>8, PutCaller
<1> QED
  BY <1>1, <1>3, <1>4, <1>5, <1>6

LEMMA AskInvInit == Init => AskInv
  <1> SUFFICES ASSUME Init PROVE AskInv
    OBVIOUS
  <1>1. /\ lines = <<>> /\ asked = 0 /\ talk = MaxTalk /\ asking = NoId /\ doing = "accept"
        /\ answers = [a \in 1..MaxTalk |-> 0]
        /\ \A c \in Callers : up[c] = <<>> /\ down[c] = <<>>
    BY DEF Init
  <1>2. Len(<<>>) = 0
    OBVIOUS
  <1>3. Numbered /\ Owing
    BY <1>1, <1>2, RelayConstants DEF Numbered, Owing
  <1>4. \A c \in Callers : Put(c)
    BY <1>1, EmptyHasNone DEF Put, Quiet
  <1> QED
    BY <1>3, <1>4 DEF AskInv

LEMMA AskInvStep == RelayInv /\ AskInv /\ [Next]_vars => AskInv'
<1> SUFFICES ASSUME RelayInv, AskInv, [Next]_vars PROVE AskInv'
  OBVIOUS
<1>1. CASE UNCHANGED vars
  BY <1>1 DEF vars, callerVars, daemonVars, serverVars, AskInv, Numbered, Owing, Put, Quiet, Here
<1>2. TypeOK
  BY DEF RelayInv
<1> QED
  BY <1>1, <1>2, RelayCases, AskInvServes, AskInvEnds, AskInvPuts, AskInvAnswers, AskInvRest,
     AskInvEndsAsk, AskInvPasses, AskInvIdle, AskInvServer, AskInvCallers

(* Whatever the callers do, and however many there are, what the server    *)
(* asks during a request is answered once, unless a caller that is only    *)
(* silent has been given up on (await_answer, relay and the default answer *)
(* in src/daemon.rs).                                                      *)
THEOREM AnsweredOnce == Spec => []OneAnswerPerAsk
<1>1. RelayInv /\ AskInv => OneAnswerPerAsk
  <2> SUFFICES ASSUME RelayInv, AskInv, "patience" \notin gaveUp, NEW a \in 1..asked
               PROVE  answers[a] <= 1
    BY DEF OneAnswerPerAsk
  <2>1. a \in 1..MaxTalk
    BY RelayConstants DEF RelayInv, TypeOK, AskInv, Numbered
  <2> QED
    BY <2>1 DEF AskInv, Owing
<1>2. Spec => []AskInv
  BY AskInvInit, AskInvStep, RelayInvHolds, PTL DEF Spec
<1> QED
  BY <1>1, <1>2, RelayInvHolds, PTL

-----------------------------------------------------------------------------
(* Each caller gets the answers to its own requests.                       *)

\* A reply that is on its way to a caller is to a request of its own.
OwnReply(c, msg) ==
    ~msg.method => msg.tag \in Requests /\ By[msg.tag] = c /\ msg.id = WireId[msg.tag]

RepliesTold == \A c \in Callers : \A i \in 1..Len(down[c]) : OwnReply(c, down[c][i])

\* The replies the daemon has not read are to the request in flight, and while
\* the server is up there is one, made or still to be made.
Due ==
    /\ inFlight # None => \A i \in 1..Len(lines) :
         ~lines[i].method => lines[i].tag = inFlight /\ lines[i].id = WireId[inFlight]
    /\ peer = "up" =>
         \/ inFlight = None /\ owed = {} /\ NoReply(lines)
         \/ inFlight # None /\ owed = {inFlight} /\ NoReply(lines)
         \/ inFlight # None /\ owed = {} /\ OneReply(lines, WireId[inFlight])

GotOwn == \A r \in Requests : result[r].kind \in {"reply", "error"} => result[r].of = r

(* Until the daemon gives up on a request it has nobody's reply but that   *)
(* to the one in flight, and so tells no caller of another's.              *)
OwnInv == "daemon" \notin gaveUp => RepliesTold /\ Due /\ GotOwn

LEMMA OwnTold ==
    ASSUME TypeOK, serving \in Callers, NEW msg \in Line, Tells(msg), OwnReply(serving, msg),
           RepliesTold
    PROVE  RepliesTold'
  <1>1. /\ \A d \in Callers : d # serving => down'[d] = down[d]
        /\ Here(serving) => down'[serving] = Append(down[serving], msg)
        /\ ~Here(serving) => down'[serving] = down[serving]
    BY TellsIs
  <1>2. down[serving] \in Seq(Line)
    BY DEF TypeOK
  <1>3. \A i \in 1..Len(Append(down[serving], msg)) : OwnReply(serving, Append(down[serving], msg)[i])
    <2>1. \A i \in 1..Len(Append(down[serving], msg)) : i = Len(down[serving]) + 1 \/ i \in 1..Len(down[serving])
      BY <1>2, AppendIs
    <2> QED
      BY <1>2, <2>1, AppendIs DEF RepliesTold
  <1>4. \A i \in 1..Len(down'[serving]) : OwnReply(serving, down'[serving][i])
    BY <1>1, <1>3 DEF RepliesTold
  <1>5. ASSUME NEW c \in Callers, NEW i \in 1..Len(down'[c]) PROVE OwnReply(c, down'[c][i])
    BY <1>1, <1>4, <1>5 DEF RepliesTold
  <1>6. \A c \in Callers : \A i \in 1..Len(down'[c]) : OwnReply(c, down'[c][i])
    BY <1>5
  <1> QED
    BY <1>6 DEF RepliesTold, OwnReply

\* The line at the head of the server's channel, when a reply is due.
LEMMA DueRead ==
    ASSUME TypeOK, Due, inFlight # None, lines # <<>>
    PROVE  /\ Head(lines) \in Line
           /\ ~Head(lines).method => /\ Head(lines).tag = inFlight /\ Head(lines).id = WireId[inFlight]
                                     /\ Took = "Response"
                                     /\ peer = "up" => owed = {} /\ NoReply(Tail(lines))
           /\ Head(lines).method =>
                /\ \A i \in 1..Len(Tail(lines)) : ~Tail(lines)[i].method =>
                       Tail(lines)[i].tag = inFlight /\ Tail(lines)[i].id = WireId[inFlight]
                /\ peer = "up" => \/ owed = {inFlight} /\ NoReply(Tail(lines))
                                  \/ owed = {} /\ OneReply(Tail(lines), WireId[inFlight])
  <1>1. /\ lines \in Seq(Line) /\ inFlight \in Requests /\ WireId[inFlight] # NoId
    BY RelayConstants DEF TypeOK
  <1>2. /\ Head(lines) \in Line /\ Head(lines) = lines[1] /\ 1 \in 1..Len(lines)
        /\ \A i \in 1..Len(Tail(lines)) : i + 1 \in 1..Len(lines) /\ Tail(lines)[i] = lines[i + 1]
    BY <1>1, TailIs
  <1>3. ASSUME ~Head(lines).method
        PROVE  /\ Head(lines).tag = inFlight /\ Head(lines).id = WireId[inFlight]
               /\ Took = "Response"
               /\ peer = "up" => owed = {} /\ NoReply(Tail(lines))
    <2>1. Head(lines).tag = inFlight /\ Head(lines).id = WireId[inFlight]
      BY <1>2, <1>3 DEF Due
    <2>2. Took = "Response"
      BY <1>1, <1>3, <2>1 DEF Took, Classify
    <2>3. ASSUME peer = "up" PROVE owed = {} /\ NoReply(Tail(lines))
      <3>1. ~NoReply(lines)
        BY <1>2, <1>3 DEF NoReply
      <3>2. owed = {} /\ OneReply(lines, WireId[inFlight])
        BY <2>3, <3>1 DEF Due
      <3> QED
        BY <1>1, <1>3, <3>2, ReplyRead
    <2> QED
      BY <2>1, <2>2, <2>3
  <1>4. ASSUME Head(lines).method
        PROVE  /\ \A i \in 1..Len(Tail(lines)) : ~Tail(lines)[i].method =>
                      Tail(lines)[i].tag = inFlight /\ Tail(lines)[i].id = WireId[inFlight]
               /\ peer = "up" => \/ owed = {inFlight} /\ NoReply(Tail(lines))
                                 \/ owed = {} /\ OneReply(Tail(lines), WireId[inFlight])
    <2>1. \A i \in 1..Len(Tail(lines)) : ~Tail(lines)[i].method =>
              Tail(lines)[i].tag = inFlight /\ Tail(lines)[i].id = WireId[inFlight]
      BY <1>2 DEF Due
    <2>2. peer = "up" => \/ owed = {inFlight} /\ NoReply(lines)
                         \/ owed = {} /\ OneReply(lines, WireId[inFlight])
      BY DEF Due
    <2>3. /\ NoReply(lines) => NoReply(Tail(lines))
          /\ OneReply(lines, WireId[inFlight]) => OneReply(Tail(lines), WireId[inFlight])
      BY <1>1, <1>4, ReplyRead
    <2> QED
      BY <2>1, <2>2, <2>3
  <1> QED
    BY <1>2, <1>3, <1>4

LEMMA OwnInvServes ==
    ASSUME RelayInv, OwnInv, NEW msg, ServesItself(msg)
    PROVE  OwnInv'
  <1>1. /\ doing = "serve" /\ up[serving] # <<>> /\ Over(msg) /\ Incoming1.method
        /\ msg \in {Reply(Incoming1.id, Incoming1.tag), ErrorReply(Incoming1.tag)}
        /\ UNCHANGED <<result, lines, owed, peer, gaveUp>>
    BY DEF ServesItself, ReadsLine, serverVars
  <1>2. serving \in Callers /\ TypeOK /\ inFlight = None /\ inFlight' = None /\ Tells(msg)
    BY <1>1, ServedHasCome DEF RelayInv, TypeOK, Over
  <1>3. /\ Incoming1.tag \in Requests /\ By[Incoming1.tag] = serving
        /\ Incoming1.id = WireId[Incoming1.tag] /\ Incoming1 \in Line
    BY <1>1, <1>2, UpIs DEF Incoming1, OwnLine
  <1>4. Incoming1.id \in Nat /\ Incoming1.tag \in Nat
    BY <1>3 DEF Line
  <1>5. msg \in Line /\ OwnReply(serving, msg)
    BY <1>1, <1>3, <1>4, LinesAre DEF OwnReply, Reply, ErrorReply
  <1>6. RepliesTold => RepliesTold'
    BY <1>2, <1>5, OwnTold
  <1>7. (Due => Due') /\ (GotOwn => GotOwn')
    BY <1>1, <1>2 DEF Due, GotOwn
  <1> QED
    BY <1>1, <1>6, <1>7 DEF OwnInv

LEMMA OwnInvEnds ==
    ASSUME RelayInv, OwnInv, NEW msg, EndsExchange(msg)
    PROVE  OwnInv'
  <1> SUFFICES ASSUME "daemon" \notin gaveUp' PROVE RepliesTold' /\ Due' /\ GotOwn'
    BY DEF OwnInv
  <1>1. /\ doing = "exchange" /\ Over(msg)
        /\ \/ lines # <<>> /\ lines' = Tail(lines) /\ Took = "Response" /\ msg = Head(lines)
           \/ msg = ErrorReply(inFlight) /\ peer # "up"
        /\ gaveUp \subseteq gaveUp' /\ UNCHANGED <<result, peer, owed>>
    BY DEF EndsExchange, serverVars
  <1>2. /\ serving \in Callers /\ TypeOK /\ inFlight \in Requests /\ inFlight # None
        /\ By[inFlight] = serving /\ inFlight' = None /\ Tells(msg)
    BY <1>1, ServedHasCome DEF RelayInv, TypeOK, OwnLines, Over
  <1>3. RepliesTold /\ Due /\ GotOwn
    BY <1>1 DEF OwnInv
  <1>4. /\ msg \in Line /\ OwnReply(serving, msg)
        /\ peer = "up" => owed = {} /\ NoReply(lines')
    <2>1. CASE msg = ErrorReply(inFlight) /\ peer # "up"
      BY <1>2, <2>1, LinesAre DEF OwnReply, ErrorReply
    <2>2. CASE lines # <<>> /\ lines' = Tail(lines) /\ Took = "Response" /\ msg = Head(lines)
      <3>1. ~Head(lines).method
        BY <2>2 DEF Took, Classify
      <3> QED
        BY <1>2, <1>3, <2>2, <3>1, DueRead DEF OwnReply
    <2> QED
      BY <1>1, <2>1, <2>2
  <1>5. RepliesTold'
    BY <1>2, <1>3, <1>4, OwnTold
  <1>6. Due' /\ GotOwn'
    BY <1>1, <1>2, <1>3, <1>4 DEF Due, GotOwn
  <1> QED
    BY <1>5, <1>6

\* What the daemon reads from the server during an exchange and is no reply.
LEMMA OwnInvReads ==
    ASSUME RelayInv, OwnInv, PutsToCaller \/ AnswersItself \/ RelayRest
    PROVE  OwnInv'
  <1> SUFFICES ASSUME "daemon" \notin gaveUp' PROVE RepliesTold' /\ Due' /\ GotOwn'
    BY DEF OwnInv
  <1>1. /\ doing = "exchange" /\ lines # <<>> /\ lines' = Tail(lines) /\ Took # "Response"
        /\ Tells(Head(lines)) \/ down' = down
        /\ UNCHANGED <<result, peer, owed, inFlight, gaveUp>>
    <2>1. CASE PutsToCaller
      BY <2>1 DEF PutsToCaller, ReadsServer
    <2>2. CASE AnswersItself
      BY <2>2 DEF AnswersItself, ReadsServer
    <2>3. CASE RelayRest
      BY <2>3 DEF RelayRest, ReadsServer, serverVars
    <2> QED
      BY <2>1, <2>2, <2>3
  <1>2. serving \in Callers /\ TypeOK /\ inFlight # None
    BY <1>1, ServedHasCome DEF RelayInv, TypeOK
  <1>3. RepliesTold /\ Due /\ GotOwn
    BY <1>1 DEF OwnInv
  <1>4. Head(lines) \in Line /\ Head(lines).method
    BY <1>1, <1>2, <1>3, DueRead
  <1>5. RepliesTold'
    <2>1. CASE Tells(Head(lines))
      BY <1>2, <1>3, <1>4, <2>1, OwnTold DEF OwnReply
    <2>2. CASE down' = down
      BY <1>3, <2>2 DEF RepliesTold
    <2> QED
      BY <1>1, <2>1, <2>2
  <1>6. /\ \A i \in 1..Len(Tail(lines)) : ~Tail(lines)[i].method =>
               Tail(lines)[i].tag = inFlight /\ Tail(lines)[i].id = WireId[inFlight]
        /\ peer = "up" => \/ owed = {inFlight} /\ NoReply(Tail(lines))
                          \/ owed = {} /\ OneReply(Tail(lines), WireId[inFlight])
    BY <1>1, <1>2, <1>3, <1>4, DueRead
  <1>7. Due' /\ GotOwn'
    BY <1>1, <1>2, <1>3, <1>6 DEF Due, GotOwn
  <1> QED
    BY <1>5, <1>7

LEMMA OwnInvEndsAsk == ASSUME RelayInv, OwnInv, EndsAsk PROVE OwnInv'
  <1> SUFFICES ASSUME "daemon" \notin gaveUp' PROVE RepliesTold' /\ Due' /\ GotOwn'
    BY DEF OwnInv
  <1>1. /\ doing = "ask" /\ UNCHANGED <<result, lines, peer, owed>>
        /\ "daemon" \notin gaveUp
        /\ \/ UNCHANGED <<down, inFlight>>
           \/ Over(ErrorReply(inFlight)) /\ peer # "up"
    BY DEF EndsAsk
  <1>2. /\ serving \in Callers /\ TypeOK /\ inFlight \in Requests /\ By[inFlight] = serving
    BY <1>1, ServedHasCome, RelayConstants DEF RelayInv, TypeOK, OwnLines, None
  <1>3. RepliesTold /\ Due /\ GotOwn
    BY <1>1 DEF OwnInv
  <1>4. CASE UNCHANGED <<down, inFlight>>
    BY <1>1, <1>3, <1>4 DEF RepliesTold, Due, GotOwn
  <1>5. CASE Over(ErrorReply(inFlight)) /\ peer # "up"
    <2>1. ErrorReply(inFlight) \in Line /\ OwnReply(serving, ErrorReply(inFlight))
      BY <1>2, LinesAre DEF OwnReply, ErrorReply
    <2>2. Tells(ErrorReply(inFlight)) /\ inFlight' = None
      BY <1>5 DEF Over
    <2>3. RepliesTold'
      BY <1>2, <1>3, <2>1, <2>2, OwnTold
    <2> QED
      BY <1>1, <1>3, <1>5, <2>2, <2>3 DEF Due, GotOwn
  <1> QED
    BY <1>1, <1>4, <1>5

\* What tells no caller anything and leaves what the server owes alone.
LEMMA OwnInvIdle ==
    ASSUME RelayInv, OwnInv,
           Accept \/ IdleOut \/ Forwards \/ ServeLateAnswer \/ CallerLeft \/ Exit \/ PassesOver
    PROVE  OwnInv'
  <1>1. UNCHANGED <<down, lines, result, gaveUp>>
    BY DEF Accept, IdleOut, Forwards, ServeLateAnswer, CallerLeft, Exit, PassesOver, callerVars,
           daemonVars
  <1>2. CASE Forwards
    <2>1. /\ doing = "serve" /\ up[serving] # <<>> /\ Incoming1.method /\ peer = "up" /\ peer' = peer
          /\ owed' = owed \cup {Incoming1.tag} /\ inFlight' = Incoming1.tag
      BY <1>2 DEF Forwards, ReadsLine
    <2>2. inFlight = None /\ serving \in Callers
      BY <2>1, ServedHasCome DEF RelayInv, TypeOK
    <2>3. Incoming1.tag \in Requests /\ Incoming1.tag # None
      BY <2>1, <2>2, UpIs, RelayConstants DEF Incoming1, OwnLine, None
    <2>4. Due => Due'
      BY <1>1, <2>1, <2>2, <2>3 DEF Due, NoReply
    <2> QED
      BY <1>1, <2>4 DEF OwnInv, RepliesTold, GotOwn
  <1>3. CASE Accept \/ IdleOut \/ ServeLateAnswer \/ CallerLeft \/ Exit \/ PassesOver
    <2>1. UNCHANGED <<owed, inFlight>> /\ peer' \in {peer, "dead"}
      BY <1>3 DEF Accept, IdleOut, ServeLateAnswer, CallerLeft, Exit, PassesOver, serverVars,
                  daemonVars
    <2> QED
      BY <1>1, <2>1 DEF OwnInv, RepliesTold, Due, GotOwn
  <1> QED
    BY <1>2, <1>3

LEMMA OwnInvServer == ASSUME RelayInv, OwnInv, Server PROVE OwnInv'
  <1>1. UNCHANGED <<down, result, inFlight, gaveUp>>
    BY DEF Server, ServerReplies, ServerAsks, ServerNotes, ServerFails, Says, callerVars, daemonVars
  <1>2. TypeOK /\ lines \in Seq(Line)
    BY DEF RelayInv, TypeOK
  \* A line that is said comes after those that were.
  <1>3. ASSUME NEW msg \in Line, lines' = Append(lines, msg)
        PROVE  /\ \A i \in 1..Len(lines') : lines'[i] = msg \/ (i \in 1..Len(lines) /\ lines'[i] = lines[i])
               /\ NoReply(lines) /\ msg.method => NoReply(lines')
               /\ NoReply(lines) /\ ~msg.method => OneReply(lines', msg.id)
               /\ \A id : OneReply(lines, id) /\ msg.method => OneReply(lines', id)
    <2>1. \A i \in 1..Len(Append(lines, msg)) : i = Len(lines) + 1 \/ i \in 1..Len(lines)
      BY <1>2, AppendIs
    <2> QED
      BY <1>2, <1>3, <2>1, AppendIs, ReplyAppended
  <1>4. ASSUME Due PROVE Due'
    <2>1. ASSUME NEW r \in Requests, ServerReplies(r) PROVE Due'
      <3>1. r \in owed /\ owed' = owed \ {r} /\ peer = "up" /\ peer' = peer
            /\ lines' = Append(lines, Reply(WireId[r], r))
        BY <2>1 DEF ServerReplies, Says
      <3>2. r = inFlight /\ inFlight # None /\ owed = {inFlight} /\ NoReply(lines)
        BY <1>4, <3>1 DEF Due
      <3>3. WireId[r] \in Nat /\ r \in Nat
        BY RelayConstants
      <3>4. /\ Reply(WireId[r], r) \in Line /\ ~Reply(WireId[r], r).method
            /\ Reply(WireId[r], r).id = WireId[r] /\ Reply(WireId[r], r).tag = r
        BY <3>3, LinesAre DEF Reply
      <3>5. owed' = {} /\ OneReply(lines', WireId[inFlight])
        BY <1>3, <3>1, <3>2, <3>4
      <3>6. \A i \in 1..Len(lines') : ~lines'[i].method =>
               lines'[i].tag = inFlight /\ lines'[i].id = WireId[inFlight]
        BY <1>3, <3>1, <3>2, <3>4 DEF NoReply
      <3> QED
        BY <1>1, <3>1, <3>2, <3>5, <3>6 DEF Due
    <2>2. ASSUME NEW msg \in Line, msg.method, lines' = Append(lines, msg), UNCHANGED <<owed, peer>>
          PROVE  Due'
      <3>1. inFlight # None => \A i \in 1..Len(lines') : ~lines'[i].method =>
               lines'[i].tag = inFlight /\ lines'[i].id = WireId[inFlight]
        BY <1>3, <1>4, <2>2 DEF Due
      <3>2. /\ NoReply(lines) => NoReply(lines')
            /\ OneReply(lines, WireId[inFlight]) => OneReply(lines', WireId[inFlight])
        BY <1>3, <2>2
      <3> QED
        BY <1>1, <1>4, <2>2, <3>1, <3>2 DEF Due
    <2>3. CASE ServerAsks
      <3>1. asked + 1 \in Nat /\ Ask(asked + 1) \in Line /\ Ask(asked + 1).method
        BY <1>2, LinesAre DEF TypeOK, Ask
      <3> QED
        BY <2>2, <2>3, <3>1 DEF ServerAsks, Says
    <2>4. CASE ServerNotes
      <3>1. Note(talk) \in Line /\ Note(talk).method
        BY <1>2, LinesAre DEF TypeOK, Note
      <3> QED
        BY <2>2, <2>4, <3>1 DEF ServerNotes, Says
    <2>5. CASE ServerFails
      BY <1>1, <1>4, <2>5 DEF ServerFails, daemonVars, Due
    <2> QED
      BY <2>1, <2>3, <2>4, <2>5 DEF Server
  <1> QED
    BY <1>1, <1>4 DEF OwnInv, RepliesTold, GotOwn

\* A caller that takes a reply takes the one to what it waits for.
LEMMA TakesOwn ==
    ASSUME RelayInv, RepliesTold, NEW c \in Callers, at[c] = "waiting", down[c] # <<>>,
           Classify(Head(down[c]), WireId[wants[c]]) = "Response"
    PROVE  Head(down[c]).tag = wants[c]
  <1>1. /\ wants[c] \in Requests /\ By[wants[c]] = c /\ down[c] \in Seq(Line)
    BY DEF RelayInv, TypeOK, OwnLines
  <1>2. OwnReply(c, Head(down[c]))
    BY <1>1, TailIs DEF RepliesTold
  <1>3. ~Head(down[c]).method /\ Head(down[c]).id = WireId[wants[c]]
    BY <1>1, RelayConstants DEF Classify
  <1>4. PICK t \in Requests : t = Head(down[c]).tag /\ By[t] = c /\ WireId[t] = WireId[wants[c]]
    BY <1>2, <1>3 DEF OwnReply
  <1>5. WireId[t] \in Nat /\ WireId[wants[c]] \in Nat /\ t \in Nat /\ wants[c] \in Nat
    BY <1>1, RelayConstants
  <1>6. ~(t < wants[c]) /\ ~(wants[c] < t)
    BY <1>1, <1>4, <1>5, NumbersUpward
  <1> QED
    BY <1>4, <1>5, <1>6

LEMMA OwnInvCallers ==
    ASSUME RelayInv, OwnInv,
           \/ \E c \in Callers : Connect(c) \/ CallerTakes(c) \/ CallerTimesOut(c)
                                 \/ CallerIsCutOff(c) \/ HangUp(c)
           \/ \E r \in Requests : Send(r)
    PROVE  OwnInv'
<1> SUFFICES ASSUME "daemon" \notin gaveUp' PROVE RepliesTold' /\ Due' /\ GotOwn'
  BY DEF OwnInv
<1>1. /\ UNCHANGED <<inFlight, lines, peer, owed>> /\ "daemon" \notin gaveUp
  BY DEF Connect, CallerTakes, CallerTimesOut, CallerIsCutOff, HangUp, Send, daemonVars, serverVars
<1>2. RepliesTold /\ Due /\ GotOwn
  BY <1>1 DEF OwnInv
<1>3. Due'
  BY <1>1, <1>2 DEF Due
<1>4. /\ TypeOK /\ down \in [Callers -> Seq(Line)] /\ result \in [Requests -> Outcome]
  BY DEF RelayInv, TypeOK
\* A failure is no answer.
<1>5. ASSUME NEW r, NEW kind, kind \notin {"reply", "error"},
             result' = [result EXCEPT ![r] = Failed(kind)]
      PROVE  GotOwn'
  BY <1>2, <1>4, <1>5 DEF GotOwn, Failed
<1>6. ASSUME NEW c \in Callers, Connect(c) PROVE RepliesTold' /\ GotOwn'
  BY <1>2, <1>6 DEF Connect, RepliesTold, GotOwn
<1>7. ASSUME NEW c \in Callers, CallerTimesOut(c) \/ CallerIsCutOff(c) PROVE RepliesTold' /\ GotOwn'
  <2>1. down' = down /\ (Ends(c, Failed("timeout")) \/ Ends(c, Failed("gone")))
    BY <1>7 DEF CallerTimesOut, CallerIsCutOff
  <2>2. GotOwn'
    BY <1>5, <2>1 DEF Ends
  <2> QED
    BY <1>2, <2>1, <2>2 DEF RepliesTold
<1>8. ASSUME NEW c \in Callers, HangUp(c) PROVE RepliesTold' /\ GotOwn'
  <2>1. /\ down' = [down EXCEPT ![c] = <<>>]
        /\ result' = result \/ result' = [result EXCEPT ![wants[c]] = Failed("gone")]
    BY <1>8 DEF HangUp
  <2>2. GotOwn'
    <3>1. CASE result' = result
      BY <1>2, <3>1 DEF GotOwn
    <3>2. CASE result' = [result EXCEPT ![wants[c]] = Failed("gone")]
      BY <1>2, <1>4, <3>2 DEF GotOwn, Failed
    <3> QED
      BY <2>1, <3>1, <3>2
  <2>3. Len(<<>>) = 0 /\ down'[c] = <<>> /\ \A d \in Callers : d # c => down'[d] = down[d]
    BY <1>4, <2>1
  <2>4. \A d \in Callers : \A i \in 1..Len(down'[d]) : i \in 1..Len(down[d]) /\ down'[d] = down[d]
    BY <2>3
  <2>5. RepliesTold'
    BY <1>2, <2>4 DEF RepliesTold, OwnReply
  <2> QED
    BY <2>2, <2>5
<1>9. ASSUME NEW r \in Requests, Send(r) PROVE RepliesTold' /\ GotOwn'
  <2>1. down' = down /\ (result' = result \/ result' = [result EXCEPT ![r] = Failed("gone")])
    BY <1>9 DEF Send
  <2>2. GotOwn'
    <3>1. CASE result' = result
      BY <1>2, <3>1 DEF GotOwn
    <3> QED
      BY <1>5, <2>1, <3>1
  <2> QED
    BY <1>2, <2>1, <2>2 DEF RepliesTold
<1>10. ASSUME NEW c \in Callers, CallerTakes(c) PROVE RepliesTold' /\ GotOwn'
  <2> DEFINE msg == Head(down[c])
  <2>1. at[c] = "waiting" /\ down[c] # <<>> /\ down' = Reads(down, c)
    BY <1>10 DEF CallerTakes
  <2>2. /\ down'[c] = Tail(down[c]) /\ \A d \in Callers : d # c => down'[d] = down[d]
        /\ down[c] \in Seq(Line) /\ wants[c] \in Requests
    <3>1. wants[c] \in Requests
      BY <1>4, <2>1 DEF TypeOK
    <3> QED
      BY <1>4, <2>1, <3>1, ReadsIs
  <2>3. \A i \in 1..Len(down'[c]) : OwnReply(c, down'[c][i])
    BY <1>2, <2>1, <2>2, TailIs DEF RepliesTold
  <2>4. RepliesTold'
    <3>1. \A d \in Callers : \A i \in 1..Len(down'[d]) : OwnReply(d, down'[d][i])
      BY <1>2, <2>2, <2>3 DEF RepliesTold
    <3> QED
      BY <3>1 DEF RepliesTold, OwnReply
  <2>5. CASE Classify(msg, WireId[wants[c]]) = "Response"
    <3>1. msg.tag = wants[c]
      BY <1>2, <2>1, <2>5, TakesOwn
    <3>2. PICK kind : Ends(c, [kind |-> kind, of |-> msg.tag])
      BY <1>10, <2>5 DEF CallerTakes
    <3>3. result' = [result EXCEPT ![wants[c]] = [kind |-> kind, of |-> wants[c]]]
      BY <3>1, <3>2 DEF Ends
    <3>4. GotOwn'
      BY <1>2, <1>4, <2>2, <3>3 DEF GotOwn
    <3> QED
      BY <2>4, <3>4
  <2>6. CASE Classify(msg, WireId[wants[c]]) # "Response"
    <3>1. result' = result \/ Ends(c, Failed("gone"))
      BY <1>10, <2>6 DEF CallerTakes
    <3>2. result' = result \/ result' = [result EXCEPT ![wants[c]] = Failed("gone")]
      BY <3>1 DEF Ends
    <3>3. GotOwn'
      <4>1. CASE result' = result
        BY <1>2, <4>1 DEF GotOwn
      <4> QED
        BY <1>5, <3>2, <4>1
    <3> QED
      BY <2>4, <3>3
  <2> QED
    BY <2>5, <2>6
<1> QED
  BY <1>3, <1>6, <1>7, <1>8, <1>9, <1>10

LEMMA OwnInvInit == Init => OwnInv
  <1> SUFFICES ASSUME Init PROVE OwnInv
    OBVIOUS
  <1>1. Len(<<>>) = 0 /\ lines = <<>> /\ owed = {} /\ inFlight = None
        /\ \A c \in Callers : down[c] = <<>>
    BY DEF Init
  <1>2. RepliesTold /\ Due
    BY <1>1, EmptyHasNone DEF RepliesTold, Due
  <1>3. GotOwn
    BY DEF Init, GotOwn, Unfinished
  <1> QED
    BY <1>2, <1>3 DEF OwnInv

LEMMA OwnInvStep == RelayInv /\ OwnInv /\ [Next]_vars => OwnInv'
<1> SUFFICES ASSUME RelayInv, OwnInv, [Next]_vars PROVE OwnInv'
  OBVIOUS
<1>1. CASE UNCHANGED vars
  BY <1>1 DEF vars, callerVars, daemonVars, serverVars, OwnInv, RepliesTold, Due, GotOwn
<1>2. TypeOK
  BY DEF RelayInv
<1> QED
  BY <1>1, <1>2, RelayCases, OwnInvServes, OwnInvEnds, OwnInvReads, OwnInvEndsAsk, OwnInvIdle,
     OwnInvServer, OwnInvCallers

(* However many callers number their requests alike, and whoever leaves,   *)
(* gives up or dies: what a caller gets is the answer to its own request,  *)
(* until the daemon itself has timed out on one (serve_one, exchange).     *)
THEOREM OwnAnswers == Spec => []EachGetsItsOwn
<1>1. OwnInv => EachGetsItsOwn
  BY DEF OwnInv, GotOwn, EachGetsItsOwn
<1>2. Spec => []OwnInv
  BY OwnInvInit, OwnInvStep, RelayInvHolds, PTL DEF Spec
<1> QED
  BY <1>1, <1>2, PTL

-----------------------------------------------------------------------------
(* To each caller the relay is a session of its own.                       *)

\* What a caller waits for has not ended.
Pending == \A c \in Callers : wants[c] # None => result[wants[c]] = Unfinished

\* What can happen to requests: one is sent, or fails to be, or the one a caller
\* waits for ends.
Sends(r) ==
    /\ at[By[r]] = "idle" /\ result[r] = Unfinished
    /\ \/ result' = result /\ wants' = [wants EXCEPT ![By[r]] = r]
       \/ result' = [result EXCEPT ![r] = Failed("gone")] /\ wants' = wants

EndsWith(c, outcome) ==
    /\ wants[c] # None /\ wants' = [wants EXCEPT ![c] = None]
    /\ outcome.kind # "none" /\ result' = [result EXCEPT ![wants[c]] = outcome]

LEMMA RequestSteps ==
    ASSUME TypeOK, [Next]_vars
    PROVE  \/ UNCHANGED <<wants, result>>
           \/ \E r \in Requests : Sends(r)
           \/ \E c \in Callers : \E outcome \in Outcome : EndsWith(c, outcome)
<1>1. CASE UNCHANGED vars
  BY <1>1 DEF vars, callerVars
<1>2. ASSUME NEW msg, ServesItself(msg) \/ EndsExchange(msg) PROVE UNCHANGED <<wants, result>>
  BY <1>2 DEF ServesItself, EndsExchange
<1>3. CASE Accept \/ IdleOut \/ Forwards \/ ServeLateAnswer \/ CallerLeft \/ Exit
  BY <1>3 DEF Accept, IdleOut, Forwards, ServeLateAnswer, CallerLeft, Exit, callerVars
<1>4. CASE PutsToCaller \/ AnswersItself \/ RelayRest \/ PassesOver \/ EndsAsk
  BY <1>4 DEF PutsToCaller, AnswersItself, RelayRest, PassesOver, EndsAsk
<1>5. CASE Server
  BY <1>5 DEF Server, ServerReplies, ServerAsks, ServerNotes, ServerFails, Says, callerVars
<1>6. ASSUME NEW r \in Requests, Send(r) PROVE Sends(r)
  BY <1>6 DEF Send, Sends
<1>7. ASSUME NEW c \in Callers, at[c] = "waiting", NEW outcome \in Outcome, outcome.kind # "none",
             Ends(c, outcome)
      PROVE  EndsWith(c, outcome)
  BY <1>7 DEF Ends, EndsWith, TypeOK
<1>8. ASSUME NEW c \in Callers, CallerTimesOut(c) \/ CallerIsCutOff(c)
      PROVE  \E outcome \in Outcome : EndsWith(c, outcome)
  <2>1. at[c] = "waiting" /\ (Ends(c, Failed("timeout")) \/ Ends(c, Failed("gone")))
    BY <1>8 DEF CallerTimesOut, CallerIsCutOff
  <2>2. /\ Failed("timeout") \in Outcome /\ Failed("timeout").kind # "none"
        /\ Failed("gone") \in Outcome /\ Failed("gone").kind # "none"
    BY DEF Failed, Outcome, None
  <2> QED
    BY <1>7, <2>1, <2>2
<1>9. ASSUME NEW c \in Callers, HangUp(c)
      PROVE  UNCHANGED <<wants, result>> \/ \E outcome \in Outcome : EndsWith(c, outcome)
  <2>1. CASE wants[c] = None
    <3>1. wants' = wants
      BY <1>9, <2>1 DEF HangUp, TypeOK
    <3> QED
      BY <1>9, <2>1, <3>1 DEF HangUp
  <2>2. CASE wants[c] # None
    <3>1. Failed("gone") \in Outcome /\ Failed("gone").kind # "none"
      BY DEF Failed, Outcome, None
    <3>2. EndsWith(c, Failed("gone"))
      BY <1>9, <2>2, <3>1 DEF HangUp, EndsWith
    <3> QED
      BY <3>1, <3>2
  <2> QED
    BY <2>1, <2>2
<1>10. ASSUME NEW c \in Callers, CallerTakes(c)
       PROVE  UNCHANGED <<wants, result>> \/ \E outcome \in Outcome : EndsWith(c, outcome)
  <2> DEFINE msg == Head(down[c])
             what == Classify(msg, WireId[wants[c]])
  <2>1. at[c] = "waiting" /\ msg \in Line
    BY <1>10, TakesIs
  <2>2. msg.tag \in Nat
    BY <2>1 DEF Line
  <2>3. /\ [kind |-> "reply", of |-> msg.tag] \in Outcome
        /\ [kind |-> "error", of |-> msg.tag] \in Outcome
        /\ Failed("gone") \in Outcome /\ Failed("gone").kind # "none"
    BY <2>2, OutcomesAre DEF Failed
  <2>4. \/ UNCHANGED <<wants, result>>
        \/ Ends(c, [kind |-> "reply", of |-> msg.tag])
        \/ Ends(c, [kind |-> "error", of |-> msg.tag])
        \/ Ends(c, Failed("gone"))
    <3>1. CASE what = "Response"
      <4>1. msg.error \in BOOLEAN
        BY <2>1 DEF Line
      <4> QED
        BY <1>10, <3>1, <4>1 DEF CallerTakes
    <3>2. CASE what = "ServerRequest"
      BY <1>10, <3>2 DEF CallerTakes
    <3>3. CASE what # "Response" /\ what # "ServerRequest"
      BY <1>10, <3>3 DEF CallerTakes
    <3> QED
      BY <3>1, <3>2, <3>3
  <2> HIDE DEF msg
  <2>5. CASE Ends(c, [kind |-> "reply", of |-> msg.tag])
    BY <1>7, <2>1, <2>3, <2>5
  <2>6. CASE Ends(c, [kind |-> "error", of |-> msg.tag])
    BY <1>7, <2>1, <2>3, <2>6
  <2>7. CASE Ends(c, Failed("gone"))
    BY <1>7, <2>1, <2>3, <2>7
  <2> QED
    BY <2>4, <2>5, <2>6, <2>7
<1>11. ASSUME NEW c \in Callers, Connect(c) PROVE UNCHANGED <<wants, result>>
  BY <1>11 DEF Connect
<1> QED
  BY <1>1, <1>2, <1>3, <1>4, <1>5, <1>6, <1>8, <1>9, <1>10, <1>11, RelayCases

LEMMA PendingStep == RelayInv /\ Pending /\ [Next]_vars => Pending'
<1> SUFFICES ASSUME RelayInv, Pending, [Next]_vars, NEW c \in Callers, wants'[c] # None
             PROVE  result'[wants'[c]] = Unfinished
  BY DEF Pending
<1>0. /\ TypeOK /\ wants \in [Callers -> Requests \cup {None}] /\ result \in [Requests -> Outcome]
      /\ \A d \in Callers : (wants[d] # None => By[wants[d]] = d) /\ (at[d] = "idle" => wants[d] = None)
  BY DEF RelayInv, TypeOK, OwnLines
<1>1. CASE UNCHANGED <<wants, result>>
  BY <1>1 DEF Pending
<1>2. ASSUME NEW r \in Requests, Sends(r) PROVE result'[wants'[c]] = Unfinished
  <2>1. CASE result' = result /\ wants' = [wants EXCEPT ![By[r]] = r]
    BY <1>0, <1>2, <2>1 DEF Pending, Sends
  <2>2. CASE result' = [result EXCEPT ![r] = Failed("gone")] /\ wants' = wants
    <3>1. wants[c] # r
      BY <1>0, <1>2, <2>2 DEF Sends
    <3> QED
      BY <1>0, <2>2, <3>1 DEF Pending
  <2> QED
    BY <1>2, <2>1, <2>2 DEF Sends
<1>3. ASSUME NEW d \in Callers, NEW outcome \in Outcome, EndsWith(d, outcome)
      PROVE  result'[wants'[c]] = Unfinished
  <2>1. d # c /\ wants'[c] = wants[c]
    BY <1>0, <1>3 DEF EndsWith
  <2>2. wants[d] # wants[c]
    BY <1>0, <1>3, <2>1 DEF EndsWith
  <2> QED
    BY <1>0, <1>3, <2>1, <2>2 DEF Pending, EndsWith
<1> QED
  BY <1>0, <1>1, <1>2, <1>3, RequestSteps

\* A caller's requests, as the promise sees them.
States(c) == [r \in Own(c) |-> Fate(r)]

LEMMA FatesAre ==
    ASSUME RelayInv, Pending, NEW c \in Callers, NEW r \in Own(c)
    PROVE  /\ r \in Requests /\ By[r] = c
           /\ result[r].kind = "none" => Fate(r) = IF wants[c] = r THEN "inflight" ELSE "unsent"
           /\ result[r].kind \in {"timeout", "gone"} => Fate(r) = "failed"
           /\ result[r].kind \in {"reply", "error"} /\ result[r].of = r => Fate(r) = "answered"
           /\ wants[c] = r => Fate(r) = "inflight"
           /\ Fate(r) = "inflight" => wants[c] = r
  <1>1. r \in Requests /\ By[r] = c /\ r # None
    BY RelayConstants DEF Own, None
  <1>2. wants[c] = r => result[r].kind = "none"
    BY <1>1 DEF Pending, Unfinished
  <1>3. result[r].kind \in {"none", "reply", "error", "timeout", "gone"}
    <2>1. result[r] \in Outcome
      BY <1>1 DEF RelayInv, TypeOK
    <2> QED
      BY <2>1 DEF Outcome
  <1>4. CASE result[r].kind = "none"
    BY <1>1, <1>4 DEF Fate
  <1>5. CASE result[r].kind \in {"timeout", "gone"}
    BY <1>1, <1>2, <1>5 DEF Fate
  <1>6. CASE result[r].kind \in {"reply", "error"}
    BY <1>1, <1>2, <1>6 DEF Fate
  <1> QED
    BY <1>1, <1>3, <1>4, <1>5, <1>6

LEMMA AloneStep ==
    ASSUME RelayInv, RelayInv', Pending, Pending', EachGetsItsOwn', "daemon" \notin gaveUp',
           [Next]_vars, NEW c \in Callers
    PROVE  Alone(c)!Next \/ States(c)' = States(c)
<1>0. /\ TypeOK /\ wants \in [Callers -> Requests \cup {None}] /\ result \in [Requests -> Outcome]
      /\ \A d \in Callers : (wants[d] # None => By[wants[d]] = d) /\ (at[d] = "idle" => wants[d] = None)
  BY DEF RelayInv, TypeOK, OwnLines
\* A request of another caller's, or of this one's that is as it was, is as far.
<1>1. ASSUME NEW r \in Own(c), result'[r] = result[r], wants'[c] = wants[c] \/ r \notin {wants[c], wants'[c]}
      PROVE  Fate(r)' = Fate(r)
  <2>1. By[r] = c
    BY DEF Own
  <2> QED
    BY <1>1, <2>1 DEF Fate
<1>2. ASSUME NEW r \in Own(c), NEW fate, Fate(r)' = fate, \A q \in Own(c) : q # r => Fate(q)' = Fate(q)
      PROVE  States(c)' = [States(c) EXCEPT ![r] = fate]
  BY <1>2 DEF States
<1>3. ASSUME \A r \in Own(c) : Fate(r)' = Fate(r) PROVE States(c)' = States(c)
  BY <1>3 DEF States
<1>4. CASE UNCHANGED <<wants, result>>
  BY <1>1, <1>3, <1>4
<1>5. ASSUME NEW r \in Requests, Sends(r) PROVE Alone(c)!Next \/ States(c)' = States(c)
  <2>1. CASE By[r] # c
    <3>1. wants'[c] = wants[c] /\ \A q \in Own(c) : result'[q] = result[q]
      BY <1>0, <1>5, <2>1 DEF Sends, Own
    <3> QED
      BY <1>1, <1>3, <3>1
  <2>2. CASE By[r] = c
    <3>1. r \in Own(c) /\ wants[c] = None /\ result[r].kind = "none" /\ r # None
      BY <1>0, <1>5, <2>2, RelayConstants DEF Sends, Own, Unfinished, None
    <3>2. States(c)[r] = "unsent"
      BY <3>1, FatesAre DEF States
    <3>3. \A q \in Own(c) : States(c)[q] # "inflight"
      <4>1. ASSUME NEW q \in Own(c) PROVE Fate(q) # "inflight"
        <5>1. q \in Requests /\ q # None
          BY RelayConstants DEF Own, None
        <5> QED
          BY <3>1, <5>1, FatesAre
      <4> QED
        BY <4>1 DEF States
    <3>4. CASE result' = result /\ wants' = [wants EXCEPT ![By[r]] = r]
      <4>1. wants'[c] = r /\ \A q \in Own(c) : q # r => q \notin {wants[c], wants'[c]}
        BY <1>0, <2>2, <3>1, <3>4, RelayConstants DEF Own, None
      <4>2. Fate(r)' = "inflight"
        BY <2>2, <3>1, <3>4, <4>1 DEF Fate
      <4>3. \A q \in Own(c) : q # r => Fate(q)' = Fate(q)
        BY <1>1, <3>4, <4>1
      <4>4. States(c)' = [States(c) EXCEPT ![r] = "inflight"]
        BY <1>2, <3>1, <4>2, <4>3
      <4>5. Alone(c)!Issue(r)
        BY <3>2, <3>3, <4>4 DEF Alone!Issue, States
      <4> QED
        BY <3>1, <4>5 DEF Alone!Next
    <3>5. CASE result' = [result EXCEPT ![r] = Failed("gone")] /\ wants' = wants
      <4>1. result'[r].kind = "gone"
        BY <1>0, <3>5 DEF Failed
      <4>2. Fate(r)' = "failed"
        BY <4>1 DEF Fate
      <4>3. \A q \in Own(c) : q # r => result'[q] = result[q]
        BY <1>0, <3>5 DEF Own
      <4>4. States(c)' = [States(c) EXCEPT ![r] = "failed"]
        BY <1>1, <1>2, <3>1, <3>5, <4>2, <4>3
      <4>5. Alone(c)!Refuse(r)
        BY <3>2, <3>3, <4>4 DEF Alone!Refuse, States
      <4> QED
        BY <3>1, <4>5 DEF Alone!Next
    <3> QED
      BY <1>5, <3>4, <3>5 DEF Sends
  <2> QED
    BY <2>1, <2>2
<1>6. ASSUME NEW d \in Callers, NEW outcome \in Outcome, EndsWith(d, outcome)
      PROVE  Alone(c)!Next \/ States(c)' = States(c)
  <2>1. PICK r \in Requests : r = wants[d] /\ By[r] = d
    BY <1>0, <1>6 DEF EndsWith
  <2>2. result' = [result EXCEPT ![r] = outcome] /\ wants' = [wants EXCEPT ![d] = None]
    BY <1>6, <2>1 DEF EndsWith
  <2>3. CASE d # c
    <3>1. wants'[c] = wants[c] /\ \A q \in Own(c) : result'[q] = result[q]
      BY <1>0, <2>1, <2>2, <2>3 DEF Own
    <3> QED
      BY <1>1, <1>3, <3>1
  <2>4. CASE d = c
    <3>1. r \in Own(c) /\ wants[c] = r /\ wants'[c] = None
      BY <1>0, <2>1, <2>2, <2>4 DEF Own
    <3>2. States(c)[r] = "inflight"
      BY <3>1, FatesAre DEF States
    <3>3. PICK fate \in {"answered", "failed"} : Fate(r)' = fate
      <4>1. result'[r] = outcome
        BY <1>0, <2>1, <2>2
      <4>2. outcome.kind \in {"reply", "error", "timeout", "gone"}
        BY <1>6 DEF EndsWith, Outcome
      <4>3. outcome.kind \in {"reply", "error"} => outcome.of = r
        BY <4>1 DEF EachGetsItsOwn
      <4> QED
        BY <4>1, <4>2, <4>3 DEF Fate
    <3>4. \A q \in Own(c) : q # r => result'[q] = result[q] /\ q \notin {wants[c], wants'[c]}
      BY <1>0, <2>2, <3>1, RelayConstants DEF Own, None
    <3>5. \A q \in Own(c) : q # r => Fate(q)' = Fate(q)
      BY <1>1, <3>4
    <3>6. States(c)' = [States(c) EXCEPT ![r] = fate]
      BY <1>2, <3>1, <3>3, <3>5
    <3>7. Alone(c)!End(r)
      BY <3>2, <3>6 DEF Alone!End, States
    <3> QED
      BY <3>1, <3>7 DEF Alone!Next
  <2> QED
    BY <2>3, <2>4
<1> QED
  BY <1>0, <1>4, <1>5, <1>6, RequestSteps

(* While the daemon has not timed out on a request, each caller has of the *)
(* relay what a session of its own would promise: its requests are made    *)
(* one at a time, each ends once, with the answer the server made for that *)
(* very request or with a failure, whatever the other callers do and       *)
(* however alike they number theirs (SocketTransport, serve_one).          *)
THEOREM AsIfAlone ==
    ASSUME NEW c \in Callers
    PROVE  Spec /\ []("daemon" \notin gaveUp)
           => Alone(c)!Spec
<1>1. Init => Alone(c)!Init /\ Pending
  <2> SUFFICES ASSUME Init PROVE Alone(c)!Init /\ Pending
    OBVIOUS
  <2>1. \A r \in Own(c) : r \in Requests /\ r # None /\ By[r] = c
    BY RelayConstants DEF Own, None
  <2>2. \A r \in Own(c) : Fate(r) = "unsent"
    BY <2>1 DEF Init, Fate, Unfinished
  <2>3. Pending
    BY DEF Init, Pending
  <2> QED
    BY <2>2, <2>3 DEF Alone!Init
<1>2. Spec => []Pending
  BY <1>1, PendingStep, RelayInvHolds, PTL DEF Spec
<1>3. RelayInv /\ RelayInv' /\ Pending /\ Pending' /\ EachGetsItsOwn' /\ ("daemon" \notin gaveUp)'
      /\ [Next]_vars => [Alone(c)!Next]_[r \in Own(c) |-> Fate(r)]
  BY AloneStep DEF States
<1> QED
  BY <1>1, <1>2, <1>3, RelayInvHolds, OwnAnswers, PTL DEF Spec, Alone!Spec

-----------------------------------------------------------------------------
(* A caller that waits has something to wait for.                          *)

\* Its request is with the server.
Flying(c) == serving = c /\ inFlight # None

(* Of an idle caller nothing is about; of one that waits, its request is   *)
(* on the way, with the server or answered: one of these, and only once.   *)
Attended(c) ==
    /\ at[c] = "idle" => NoMethod(up[c]) /\ NoReply(down[c]) /\ ~Flying(c)
    /\ at[c] = "waiting" =>
         \/ Flying(c) /\ inFlight = wants[c] /\ NoMethod(up[c]) /\ NoReply(down[c])
         \/ ~Flying(c) /\ OneMethod(up[c], wants[c]) /\ NoReply(down[c])
         \/ ~Flying(c) /\ NoMethod(up[c]) /\ OneReply(down[c], WireId[wants[c]])

WaitInv == "caller" \notin gaveUp => \A c \in Callers : Open(c) => Attended(c)

\* The daemon does something for the caller it serves.
LEMMA WaitServed ==
    ASSUME RelayInv, WaitInv, NEW s \in Callers, serving = s, doing # "exited",
           UNCHANGED <<at, wants, queue>>, serving' \in {s, Nobody},
           "caller" \in gaveUp => "caller" \in gaveUp',
           \A d \in Callers : d # s => up'[d] = up[d] /\ down'[d] = down[d],
           Attended(s) => Attended(s)'
    PROVE  WaitInv'
  <1> SUFFICES ASSUME "caller" \notin gaveUp', NEW c \in Callers, Open(c)' PROVE Attended(c)'
    BY DEF WaitInv
  <1>1. Open(c)
    BY NobodyCalls DEF Open, Queued
  <1>2. Attended(c)
    BY <1>1 DEF WaitInv
  <1>3. CASE c # s
    <2>1. ~Flying(c) /\ ~Flying(c)'
      BY <1>3, NobodyCalls DEF Flying
    <2>2. /\ up'[c] = up[c] /\ down'[c] = down[c]
          /\ at'[c] = at[c] /\ wants'[c] = wants[c]
      BY <1>3
    <2>3. \/ at[c] = "waiting" /\ OneMethod(up[c], wants[c]) /\ NoReply(down[c])
          \/ at[c] = "waiting" /\ NoMethod(up[c]) /\ OneReply(down[c], WireId[wants[c]])
          \/ at[c] = "idle" /\ NoMethod(up[c]) /\ NoReply(down[c])
          \/ at[c] \notin {"idle", "waiting"}
      BY <1>2, <2>1 DEF Attended
    <2> QED
      BY <2>1, <2>2, <2>3 DEF Attended
  <1> QED
    BY <1>2, <1>3

\* Nothing happens for any caller.
LEMMA WaitStill ==
    ASSUME RelayInv, WaitInv, UNCHANGED <<at, wants, up, down, inFlight, gaveUp>>,
           inFlight = None \/ serving' = serving,
           \A c \in Callers : Open(c)' => Open(c)
    PROVE  WaitInv'
  BY DEF WaitInv, Attended, Flying

\* A caller waits, is idle or leaves; nothing happens for the others.
LEMMA WaitCaller ==
    ASSUME RelayInv, WaitInv, UNCHANGED <<daemonVars, serverVars>>, NEW c \in Callers,
           "caller" \in gaveUp => "caller" \in gaveUp',
           \A d \in Callers : d # c => /\ at'[d] = at[d] /\ wants'[d] = wants[d]
                                       /\ up'[d] = up[d] /\ down'[d] = down[d],
           "caller" \notin gaveUp' /\ Open(c) /\ Attended(c) => Attended(c)'
    PROVE  WaitInv'
  <1> SUFFICES ASSUME "caller" \notin gaveUp', NEW d \in Callers, Open(d)' PROVE Attended(d)'
    BY DEF WaitInv
  <1>1. Open(d) /\ UNCHANGED <<serving, inFlight>>
    BY DEF Open, Queued, daemonVars
  <1>2. Attended(d)
    BY <1>1 DEF WaitInv
  <1>3. CASE d # c
    BY <1>1, <1>2, <1>3 DEF Attended, Flying
  <1> QED
    BY <1>1, <1>2, <1>3

LEMMA WaitInvDaemon ==
    ASSUME RelayInv, WaitInv,
           \/ \E msg : ServesItself(msg) \/ EndsExchange(msg)
           \/ Forwards \/ ServeLateAnswer \/ PutsToCaller \/ RelayRest \/ PassesOver \/ EndsAsk
    PROVE  WaitInv'
<1>0. /\ TypeOK /\ OwnLines
      /\ up \in [Callers -> Seq(Line)] /\ down \in [Callers -> Seq(Line)]
      /\ WireId \in [Requests -> Nat \ {NoId}] /\ None \notin Requests
  BY RelayConstants DEF RelayInv, TypeOK, None
<1>1. doing \in {"serve", "exchange", "ask"}
  BY DEF ServesItself, EndsExchange, Forwards, ServeLateAnswer, PutsToCaller, RelayRest, PassesOver,
         EndsAsk, ReadsLine, ReadsServer
<1>20. PICK s \in Callers : serving = s
  BY <1>1, ServedHasCome
<1>2. /\ serving = s /\ doing # "exited"
      /\ up[s] \in Seq(Line) /\ down[s] \in Seq(Line)
      /\ at[s] = "waiting" => wants[s] \in Requests
      /\ at[s] \in {"idle", "waiting", "left"}
      /\ inFlight # None <=> doing \in {"exchange", "ask"}
  BY <1>0, <1>1, <1>20, ServedHasCome DEF TypeOK
\* A line of the caller's is read.
<1>3. ASSUME up[s] # <<>>, up' = Reads(up, s)
      PROVE  /\ up'[s] = Tail(up[s])
             /\ \A d \in Callers : d # s => up'[d] = up[d]
             /\ NoMethod(up[s]) => ~Incoming1.method /\ NoMethod(up'[s])
             /\ OneMethod(up[s], wants[s]) /\ ~Incoming1.method =>
                  OneMethod(up'[s], wants[s])
             /\ OneMethod(up[s], wants[s]) /\ Incoming1.method =>
                  Incoming1.tag = wants[s] /\ NoMethod(up'[s])
             /\ Incoming1 \in Line
             /\ Incoming1.method => Incoming1.tag \in Requests /\ Incoming1.id = WireId[Incoming1.tag]
  <2>1. /\ up'[s] = Tail(up[s])
        /\ \A d \in Callers : d # s => up'[d] = up[d]
    <3>1. /\ Reads(up, s)[s] = Tail(up[s])
          /\ \A d \in Callers : d # s => Reads(up, s)[d] = up[d]
      BY <1>0, <1>3, ReadsIs
    <3> QED
      BY <1>3, <3>1
  <2>2. /\ Incoming1 \in Line
        /\ Incoming1.method => Incoming1.tag \in Requests /\ Incoming1.id = WireId[Incoming1.tag]
    <3>1. Head(up[s]) \in Line /\ OwnLine(s, Head(up[s]))
      BY <1>2, <1>3, UpIs
    <3> QED
      BY <1>2, <3>1 DEF Incoming1, OwnLine
  <2> DEFINE read == up[s]
             r == wants[s]
  <2>3. read \in Seq(Line) /\ read # <<>>
    BY <1>2, <1>3
  <2> HIDE DEF read, r
  <2>4. /\ NoMethod(read) => ~Head(read).method /\ NoMethod(Tail(read))
        /\ OneMethod(read, r) /\ ~Head(read).method => OneMethod(Tail(read), r)
        /\ OneMethod(read, r) /\ Head(read).method => Head(read).tag = r /\ NoMethod(Tail(read))
    BY <2>3, MethodRead
  <2> QED
    BY <1>2, <2>1, <2>2, <2>4 DEF Incoming1, read, r
\* The caller is told how its request ended.
<1>4. ASSUME NEW msg \in Line, ~msg.method, Over(msg), UNCHANGED <<at, wants>>,
             at[s] = "waiting" => msg.id = WireId[wants[s]] /\ NoReply(down[s]),
             at[s] # "idle", NoMethod(up'[s]) \/ at[s] = "left"
      PROVE  Attended(s)' /\ \A d \in Callers : d # s => down'[d] = down[d]
  <2>1. CASE at[s] = "left"
    <3>1. at'[s] = "left" /\ \A d \in Callers : d # s => down'[d] = down[d]
      BY <1>0, <1>2, <1>4, <2>1, OverIs
    <3> QED
      BY <3>1 DEF Attended
  <2>2. CASE at[s] = "waiting"
    <3>1. /\ down'[s] = Append(down[s], msg) /\ inFlight' = None
          /\ \A d \in Callers : d # s => down'[d] = down[d]
      BY <1>0, <1>2, <1>4, <2>2, OverIs DEF Here
    <3>2. OneReply(down'[s], msg.id)
      BY <1>2, <1>4, <2>2, <3>1, ReplyAppended
    <3>3. ~Flying(s)' /\ at'[s] = "waiting" /\ wants'[s] = wants[s]
      BY <1>4, <2>2, <3>1 DEF Flying
    <3> QED
      BY <1>4, <2>2, <3>1, <3>2, <3>3 DEF Attended
  <2> QED
    BY <1>2, <1>4, <2>1, <2>2
<1>5. ASSUME NEW msg, ServesItself(msg) PROVE WaitInv'
  <2>1. /\ up[s] # <<>> /\ up' = Reads(up, s) /\ Incoming1.method /\ Over(msg)
        /\ msg \in {Reply(Incoming1.id, Incoming1.tag), ErrorReply(Incoming1.tag)}
        /\ UNCHANGED <<at, wants, queue, gaveUp>> /\ inFlight = None
    BY <1>0, <1>2, <1>5 DEF ServesItself, ReadsLine, TypeOK
  <2>2. /\ Incoming1 \in Line /\ Incoming1.tag \in Requests /\ Incoming1.id = WireId[Incoming1.tag]
        /\ Incoming1.id \in Nat /\ Incoming1.tag \in Nat
    BY <1>3, <2>1 DEF Line
  <2>3. msg \in Line /\ ~msg.method /\ msg.id = WireId[Incoming1.tag]
    BY <2>1, <2>2, LinesAre DEF Reply, ErrorReply
  <2>4. ~Flying(s)
    BY <2>1 DEF Flying
  <2>5. ASSUME Attended(s) PROVE Attended(s)'
    <3>1. at[s] # "idle"
      BY <1>3, <2>1, <2>5 DEF Attended
    <3>2. at[s] = "waiting" => /\ msg.id = WireId[wants[s]] /\ NoReply(down[s])
                                     /\ NoMethod(up'[s])
      BY <1>3, <2>1, <2>3, <2>4, <2>5 DEF Attended
    <3> QED
      BY <1>2, <1>4, <2>1, <2>3, <3>1, <3>2
  <2>6. serving' \in {s, Nobody} /\ \A d \in Callers : d # s => down'[d] = down[d]
    BY <1>0, <1>2, <2>1, <2>3, OverIs
  <2> QED
    BY <1>2, <1>3, <2>1, <2>5, <2>6, WaitServed
<1>6. ASSUME NEW msg, EndsExchange(msg) PROVE WaitInv'
  <2>1. /\ doing = "exchange" /\ up' = up /\ Over(msg) /\ UNCHANGED <<at, wants, queue>>
        /\ "caller" \in gaveUp' <=> "caller" \in gaveUp
    BY <1>6 DEF EndsExchange
  <2>2. inFlight \in Requests /\ WireId[inFlight] # NoId
    BY <1>0, <1>2, <2>1 DEF TypeOK
  <2>3. msg \in Line /\ ~msg.method /\ msg.id = WireId[inFlight]
    BY <1>0, <1>6, <2>2, HeadOfLines, LinesAre DEF EndsExchange, Took, Classify, ErrorReply
  <2>4. Flying(s)
    BY <1>2, <2>1 DEF Flying
  <2>5. ASSUME Attended(s) PROVE Attended(s)'
    BY <1>2, <1>4, <2>1, <2>3, <2>4, <2>5 DEF Attended
  <2>6. serving' \in {s, Nobody} /\ \A d \in Callers : d # s => down'[d] = down[d]
    BY <1>0, <1>2, <2>1, <2>3, OverIs
  <2> QED
    BY <1>2, <2>1, <2>5, <2>6, WaitServed
<1>7. CASE Forwards
  <2>1. /\ up[s] # <<>> /\ up' = Reads(up, s) /\ Incoming1.method
        /\ inFlight = None /\ inFlight' = Incoming1.tag
        /\ UNCHANGED <<at, wants, queue, down, serving, gaveUp>>
    BY <1>0, <1>2, <1>7 DEF Forwards, ReadsLine, TypeOK
  <2>2. ~Flying(s) /\ Flying(s)'
    BY <1>0, <1>2, <1>3, <2>1 DEF Flying
  <2>3. ASSUME Attended(s) PROVE Attended(s)'
    BY <1>2, <1>3, <2>1, <2>2, <2>3 DEF Attended
  <2> QED
    BY <1>2, <1>3, <2>1, <2>3, WaitServed
<1>8. CASE ServeLateAnswer \/ PassesOver
  <2>1. /\ up[s] # <<>> /\ up' = Reads(up, s)
        /\ UNCHANGED <<at, wants, queue, down, inFlight, gaveUp>>
        /\ serving' \in {s, Nobody}
        /\ inFlight = None => ~Incoming1.method
        /\ inFlight # None => serving' = s
    <3>1. CASE ServeLateAnswer
      BY <1>2, <3>1 DEF ServeLateAnswer, ReadsLine
    <3>2. CASE PassesOver
      BY <1>2, <3>2 DEF PassesOver, daemonVars
    <3> QED
      BY <1>8, <3>1, <3>2
  <2>2. Flying(s) <=> Flying(s)'
    <3>1. CASE inFlight = None
      BY <2>1, <3>1 DEF Flying
    <3>2. CASE inFlight # None
      BY <1>2, <2>1, <3>2 DEF Flying
    <3> QED
      BY <3>1, <3>2
  <2>3. ASSUME Attended(s) PROVE Attended(s)'
    <3>1. Flying(s) \/ ~Incoming1.method
      BY <1>2, <2>1 DEF Flying
    <3> QED
      BY <1>2, <1>3, <2>1, <2>2, <2>3, <3>1 DEF Attended
  <2> QED
    BY <1>2, <1>3, <2>1, <2>3, WaitServed
<1>9. CASE PutsToCaller \/ RelayRest
  <2>1. /\ lines # <<>> /\ UNCHANGED <<at, wants, queue, up, serving, inFlight, gaveUp>>
        /\ down' = down \/ (Tells(Head(lines)) /\ Took \in {"ServerRequest", "Notification"})
    BY <1>9 DEF PutsToCaller, RelayRest, ReadsServer
  <2>2. /\ \A d \in Callers : d # s => down'[d] = down[d]
        /\ NoReply(down[s]) => NoReply(down'[s])
        /\ OneReply(down[s], WireId[wants[s]]) =>
             OneReply(down'[s], WireId[wants[s]])
    <3>1. CASE Tells(Head(lines)) /\ Took \in {"ServerRequest", "Notification"}
      <4>1. Head(lines) \in Line /\ Head(lines).method
        BY <1>0, <2>1, <3>1, HeadOfLines DEF Took, Classify
      <4>2. /\ \A d \in Callers : d # s => down'[d] = down[d]
            /\ \/ down'[s] = down[s]
               \/ down'[s] = Append(down[s], Head(lines))
        BY <1>0, <1>2, <3>1, <4>1, TellsIs
      <4> QED
        BY <1>2, <4>1, <4>2, ReplyAppended
    <3> QED
      BY <2>1, <3>1
  <2>3. ASSUME Attended(s) PROVE Attended(s)'
    BY <2>1, <2>2, <2>3 DEF Attended, Flying
  <2> QED
    BY <1>2, <2>1, <2>2, <2>3, WaitServed
<1>10. CASE EndsAsk
  <2>1. /\ doing = "ask" /\ UNCHANGED <<at, wants, queue>>
        /\ "caller" \in gaveUp => "caller" \in gaveUp'
        /\ up' = up \/ (up[s] # <<>> /\ up' = Reads(up, s))
        /\ UNCHANGED <<down, serving, inFlight>> \/ Over(ErrorReply(inFlight))
    BY <1>2, <1>10 DEF EndsAsk
  <2>2. inFlight \in Requests
    BY <1>0, <1>2, <2>1 DEF TypeOK
  <2> DEFINE msg == ErrorReply(inFlight)
  <2>3. msg \in Line /\ ~msg.method /\ msg.id = WireId[inFlight]
    BY <2>2, LinesAre DEF ErrorReply
  <2>4. Flying(s)
    BY <1>2, <2>1 DEF Flying
  <2>5. NoMethod(up[s]) => NoMethod(up'[s])
    BY <1>3, <2>1
  <2>6. \A d \in Callers : d # s => up'[d] = up[d]
    BY <1>3, <2>1
  <2> HIDE DEF msg
  <2>7. CASE UNCHANGED <<down, serving, inFlight>>
    <3>1. ASSUME Attended(s) PROVE Attended(s)'
      BY <2>1, <2>4, <2>5, <2>7, <3>1 DEF Attended, Flying
    <3> QED
      BY <1>2, <2>1, <2>6, <2>7, <3>1, WaitServed
  <2>8. CASE Over(msg)
    <3>1. ASSUME Attended(s) PROVE Attended(s)'
      BY <1>2, <1>4, <2>1, <2>3, <2>4, <2>5, <2>8, <3>1 DEF Attended
    <3>2. serving' \in {s, Nobody} /\ \A d \in Callers : d # s => down'[d] = down[d]
      BY <1>0, <1>2, <2>3, <2>8, OverIs
    <3> QED
      BY <1>2, <2>1, <2>6, <3>1, <3>2, WaitServed
  <2> QED
    BY <2>1, <2>7, <2>8 DEF msg
<1> QED
  BY <1>5, <1>6, <1>7, <1>8, <1>9, <1>10

LEMMA WaitInvRest ==
    ASSUME RelayInv, WaitInv,
           Accept \/ IdleOut \/ CallerLeft \/ AnswersItself \/ Exit \/ Server
    PROVE  WaitInv'
<1>1. UNCHANGED <<at, wants, up, down, inFlight, gaveUp>>
  BY DEF Accept, IdleOut, CallerLeft, AnswersItself, Exit, Server, ServerReplies, ServerAsks,
         ServerNotes, ServerFails, Says, callerVars, daemonVars, serverVars
<1>2. TypeOK
  BY DEF RelayInv
<1>3. CASE Accept
  <2>1. /\ queue \in Seq(Callers) /\ queue # <<>> /\ serving' = queue[1] /\ queue' = Tail(queue)
        /\ doing = "accept" /\ inFlight = None
    BY <1>2, <1>3 DEF Accept, TypeOK
  <2>2. /\ 1 \in 1..Len(queue)
        /\ \A i \in 1..Len(queue') : i + 1 \in 1..Len(queue) /\ queue'[i] = queue[i + 1]
    BY <2>1
  <2>3. \A c \in Callers : Open(c)' => Open(c)
    BY <2>1, <2>2 DEF Open, Queued
  <2> QED
    BY <1>1, <2>1, <2>3, WaitStill
<1>4. CASE IdleOut \/ CallerLeft
  <2>1. /\ serving' = Nobody /\ queue' = queue /\ doing # "exited" /\ inFlight = None
    BY <1>2, <1>4 DEF IdleOut, CallerLeft, NextCaller, TypeOK
  <2>2. \A c \in Callers : Open(c)' => Open(c)
    BY <2>1, NobodyCalls DEF Open, Queued
  <2> QED
    BY <1>1, <2>1, <2>2, WaitStill
<1>5. CASE AnswersItself \/ Exit \/ Server
  <2>1. UNCHANGED <<serving, queue>> /\ (doing' = doing \/ doing' = "exited")
    BY <1>5 DEF AnswersItself, Exit, Server, ServerReplies, ServerAsks,
           ServerNotes, ServerFails, Says, callerVars, daemonVars, serverVars
  <2>2. \A c \in Callers : Open(c)' => Open(c)
    BY <2>1 DEF Open, Queued
  <2> QED
    BY <1>1, <2>1, <2>2, WaitStill
<1> QED
  BY <1>3, <1>4, <1>5

LEMMA WaitInvCallers ==
    ASSUME RelayInv, WaitInv,
           \/ \E c \in Callers : Connect(c) \/ CallerTakes(c) \/ CallerTimesOut(c)
                                 \/ CallerIsCutOff(c) \/ HangUp(c)
           \/ \E r \in Requests : Send(r)
    PROVE  WaitInv'
<1>0. /\ TypeOK /\ OwnLines
      /\ up \in [Callers -> Seq(Line)] /\ down \in [Callers -> Seq(Line)]
      /\ at \in [Callers -> {"away", "idle", "waiting", "left"}]
      /\ wants \in [Callers -> Requests \cup {None}]
  BY DEF RelayInv, TypeOK
<1>1. ASSUME NEW c \in Callers, Connect(c) PROVE WaitInv'
  <2>1. /\ at[c] = "away" /\ at' = [at EXCEPT ![c] = "idle"] /\ queue' = Append(queue, c)
        /\ UNCHANGED <<wants, up, down, doing, serving, inFlight, gaveUp>>
    BY <1>1 DEF Connect
  <2>2. up[c] = <<>> /\ down[c] = <<>> /\ ~Flying(c)
    BY <1>0, <2>1 DEF OwnLines, Flying
  <2>3. at'[c] = "idle" /\ \A d \in Callers : d # c => at'[d] = at[d]
    BY <1>0, <2>1
  <2>4. Attended(c)'
    BY <2>1, <2>2, <2>3, EmptyHasNone DEF Attended, Flying
  <2>5. ASSUME NEW d \in Callers, d # c, Open(d)' PROVE Open(d)
    <3>1. queue \in Seq(Callers) /\ \A i \in 1..Len(queue') : (i \in 1..Len(queue) /\ queue'[i] = queue[i]) \/ queue'[i] = c
      BY <1>0, <2>1 DEF TypeOK
    <3> QED
      BY <2>1, <2>5, <3>1 DEF Open, Queued
  <2>6. \A d \in Callers : d # c => (Attended(d) => Attended(d)')
    BY <2>1, <2>3 DEF Attended, Flying
  <2> QED
    BY <2>1, <2>4, <2>5, <2>6 DEF WaitInv
\* A caller that ends what it waits for.
<1>2. ASSUME NEW c \in Callers, NEW outcome, Ends(c, outcome)
      PROVE  /\ at'[c] = "idle"
             /\ \A d \in Callers : d # c => at'[d] = at[d] /\ wants'[d] = wants[d]
  BY <1>0, <1>2 DEF Ends
<1>3. ASSUME NEW c \in Callers, CallerTimesOut(c) \/ CallerIsCutOff(c) PROVE WaitInv'
  <2>1. PICK outcome : Ends(c, outcome)
    BY <1>3 DEF CallerTimesOut, CallerIsCutOff
  <2>2. /\ UNCHANGED <<up, down, daemonVars, serverVars>>
        /\ "caller" \in gaveUp => "caller" \in gaveUp'
        /\ "caller" \in gaveUp' \/ ~Open(c)
    BY <1>3 DEF CallerTimesOut, CallerIsCutOff
  <2>3. \A d \in Callers : d # c => at'[d] = at[d] /\ wants'[d] = wants[d]
    BY <1>2, <2>1
  <2> QED
    BY <2>2, <2>3, WaitCaller
<1>4. ASSUME NEW c \in Callers, HangUp(c) PROVE WaitInv'
  <2>1. UNCHANGED <<up, daemonVars, serverVars, gaveUp>>
    BY <1>4 DEF HangUp
  <2>2. /\ at'[c] = "left"
        /\ \A d \in Callers : d # c => at'[d] = at[d] /\ wants'[d] = wants[d] /\ down'[d] = down[d]
    BY <1>0, <1>4 DEF HangUp
  <2>3. Attended(c)'
    BY <2>2 DEF Attended
  <2> QED
    BY <2>1, <2>2, <2>3, WaitCaller
<1>5. ASSUME NEW c \in Callers, CallerTakes(c) PROVE WaitInv'
  <2> DEFINE msg == Head(down[c])
             what == Classify(msg, WireId[wants[c]])
  <2>1. /\ at[c] = "waiting" /\ down[c] # <<>> /\ down' = Reads(down, c) /\ msg \in Line
        /\ UNCHANGED <<daemonVars, serverVars, gaveUp>>
        /\ UNCHANGED <<serving, inFlight>>
    BY <1>0, <1>5, TakesIs DEF daemonVars
  <2>2. down'[c] = Tail(down[c]) /\ \A d \in Callers : d # c => down'[d] = down[d]
    BY <1>0, <2>1, ReadsIs
  <2>3. /\ down[c] \in Seq(Line) /\ up[c] \in Seq(Line)
        /\ wants[c] \in Requests /\ WireId[wants[c]] # NoId
    BY <1>0, <2>1, RelayConstants DEF TypeOK
  \* What is read leaves a reply that is waited for, unless it is that.
  <2>4. /\ NoReply(down[c]) => msg.method /\ NoReply(down'[c])
        /\ OneReply(down[c], WireId[wants[c]]) =>
             IF msg.method THEN OneReply(down'[c], WireId[wants[c]])
             ELSE what = "Response" /\ NoReply(down'[c])
    <3>1. /\ NoReply(down[c]) => msg.method /\ NoReply(down'[c])
          /\ OneReply(down[c], WireId[wants[c]]) =>
               IF msg.method THEN OneReply(down'[c], WireId[wants[c]])
               ELSE msg.id = WireId[wants[c]] /\ NoReply(down'[c])
      BY <2>1, <2>2, <2>3, ReplyRead
    <3> QED
      BY <2>3, <3>1 DEF Classify
  <2>5. what = "Response" => ~msg.method
    BY DEF Classify
  <2>6. what = "ServerRequest" => msg.method
    BY DEF Classify
  <2> HIDE DEF what
  <2>7. CASE what = "Response" /\ up' = up /\ \E outcome \in Outcome : Ends(c, outcome)
    <3>1. /\ at'[c] = "idle"
          /\ \A d \in Callers : d # c => at'[d] = at[d] /\ wants'[d] = wants[d]
      BY <1>2, <2>7
    <3>2. Attended(c) => Attended(c)'
      BY <2>1, <2>4, <2>5, <2>7, <3>1 DEF Attended, Flying
    <3> QED
      BY <2>1, <2>2, <2>7, <3>1, <3>2, WaitCaller
  <2>8. CASE ~Open(c) /\ up' = up /\ \E outcome \in Outcome : Ends(c, outcome)
    <3>1. \A d \in Callers : d # c => at'[d] = at[d] /\ wants'[d] = wants[d]
      BY <1>2, <2>8
    <3> QED
      BY <2>1, <2>2, <2>8, <3>1, WaitCaller
  <2>9. CASE /\ what = "ServerRequest" /\ up' = Writes(up, c, AnswerTo(msg.id))
             /\ UNCHANGED <<at, wants, result>>
    <3> DEFINE answer == AnswerTo(msg.id)
    <3>1. answer \in Line /\ ~answer.method /\ up' = Writes(up, c, answer)
      <4>1. msg.id \in Nat
        BY <2>1 DEF Line
      <4> QED
        BY <2>9, <4>1, LinesAre DEF AnswerTo, Reply
    <3> HIDE DEF answer
    <3>2. /\ Writes(up, c, answer)[c] = Append(up[c], answer)
          /\ \A d \in Callers : d # c => Writes(up, c, answer)[d] = up[d]
      BY <1>0, <3>1, WritesIs
    <3>3. up'[c] = Append(up[c], answer) /\ \A d \in Callers : d # c => up'[d] = up[d]
      BY <3>1, <3>2
    <3>4. /\ NoMethod(up[c]) => NoMethod(up'[c])
          /\ OneMethod(up[c], wants[c]) => OneMethod(up'[c], wants[c])
      BY <2>3, <3>1, <3>3, MethodAppended
    <3>5. Attended(c) => Attended(c)'
      BY <2>1, <2>4, <2>6, <2>9, <3>4 DEF Attended, Flying
    <3> QED
      BY <2>1, <2>2, <2>9, <3>3, <3>5, WaitCaller
  <2>10. CASE what \in {"Notification", "Foreign"} /\ UNCHANGED <<at, wants, result, up>>
    <3>1. Attended(c) => Attended(c)'
      BY <2>1, <2>4, <2>10 DEF Attended, Flying
    <3> QED
      BY <2>1, <2>2, <2>10, <3>1, WaitCaller
  <2> QED
    BY <1>0, <1>5, <2>7, <2>8, <2>9, <2>10, TakesIs DEF what
<1>6. ASSUME NEW r \in Requests, Send(r) PROVE WaitInv'
  <2> DEFINE c == By[r]
             msg == RequestLine(r)
  <2>1. c \in Callers /\ at[c] = "idle" /\ UNCHANGED <<down, daemonVars, serverVars, gaveUp>>
    BY <1>6, RelayConstants DEF Send
  <2>2. msg \in Line /\ msg.method /\ msg.tag = r
    BY LinesAre DEF RequestLine
  <2>3. \/ Open(c) /\ /\ up' = Writes(up, c, msg) /\ at' = [at EXCEPT ![c] = "waiting"]
                      /\ wants' = [wants EXCEPT ![c] = r]
        \/ ~Open(c) /\ UNCHANGED <<at, wants, up>>
    BY <1>6 DEF Send
  <2>4. UNCHANGED <<serving, inFlight>>
    BY <2>1 DEF daemonVars
  <2> HIDE DEF c, msg
  <2>5. CASE Open(c)
    <3>1. /\ up' = Writes(up, c, msg) /\ at' = [at EXCEPT ![c] = "waiting"]
          /\ wants' = [wants EXCEPT ![c] = r]
      BY <2>3, <2>5
    <3>2. /\ Writes(up, c, msg)[c] = Append(up[c], msg)
          /\ \A d \in Callers : d # c => Writes(up, c, msg)[d] = up[d]
      BY <1>0, <2>1, <2>2, WritesIs
    <3>3. /\ up'[c] = Append(up[c], msg) /\ at'[c] = "waiting" /\ wants'[c] = r
          /\ \A d \in Callers : d # c => up'[d] = up[d] /\ at'[d] = at[d] /\ wants'[d] = wants[d]
      BY <1>0, <2>1, <3>1, <3>2
    <3>4. NoMethod(up[c]) => OneMethod(up'[c], r)
      <4>1. up[c] \in Seq(Line)
        BY <1>0, <2>1
      <4> QED
        BY <2>2, <3>3, <4>1, MethodAppended
    <3>5. Attended(c) => Attended(c)'
      BY <2>1, <2>4, <3>3, <3>4 DEF Attended, Flying
    <3> QED
      BY <2>1, <3>3, <3>5, WaitCaller
  <2>6. CASE ~Open(c)
    BY <2>1, <2>3, <2>6, WaitCaller
  <2> QED
    BY <2>5, <2>6
<1> QED
  BY <1>1, <1>3, <1>4, <1>5, <1>6

LEMMA WaitInvInit == Init => WaitInv
  BY NobodyCalls DEF Init, WaitInv, Attended

LEMMA WaitInvStep == RelayInv /\ WaitInv /\ [Next]_vars => WaitInv'
<1> SUFFICES ASSUME RelayInv, WaitInv, [Next]_vars PROVE WaitInv'
  OBVIOUS
<1>1. CASE UNCHANGED vars
  BY <1>1 DEF vars, callerVars, daemonVars, serverVars, WaitInv, Attended, Flying, Open, Queued
<1>2. TypeOK
  BY DEF RelayInv
<1> QED
  BY <1>1, <1>2, RelayCases, WaitInvDaemon, WaitInvRest, WaitInvCallers

(* A command that waits at an open connection has something to wait for,   *)
(* as long as no command has given up on a request: the daemon loses none  *)
(* of what it reads and answers each request it takes, whatever the server *)
(* says, asks or leaves out (serve_one and relay in src/daemon.rs).        *)
THEOREM NoneWaitsInVain == Spec => []WaitsForSomething
<1>1. RelayInv /\ WaitInv => WaitsForSomething
  <2> SUFFICES ASSUME RelayInv, WaitInv, "caller" \notin gaveUp, NEW c \in Callers,
                      at[c] = "waiting", Open(c)
               PROVE  \/ \E i \in 1..Len(up[c]) : up[c][i].method /\ up[c][i].tag = wants[c]
                      \/ inFlight = wants[c]
                      \/ \E i \in 1..Len(down[c]) : ~down[c][i].method /\ down[c][i].id = WireId[wants[c]]
    BY DEF WaitsForSomething
  <2>1. Attended(c)
    BY DEF WaitInv
  <2> QED
    BY <2>1 DEF Attended, OneMethod, OneReply
<1>2. Spec => []WaitInv
  BY WaitInvInit, WaitInvStep, RelayInvHolds, PTL DEF Spec
<1> QED
  BY <1>1, <1>2, RelayInvHolds, PTL

-----------------------------------------------------------------------------
(***************************************************************************)
(* The shell.                                                              *)
(***************************************************************************)

ShellPlaces == {"prompt", "redial", "run", "explain", "poll", "acting", "over"}

\* Nothing is recorded that the server has not come to.
HeardOfWhatIs ==
    \A s \in Subjects : /\ heard[s] <= server.at[s] /\ unread[s] <= server.at[s]
                        /\ server.at[s] <= count.changes

\* Where nothing is being acted on, and where nothing is pending.
Settled ==
    /\ pc # "acting" => acting = {}
    /\ pc \in {"prompt", "redial", "acting"} => subs.pending = {}

\* A list, or a followed resource, that is behind what was heard of it is about
\* to be read again.
ListsFollow ==
    \A l \in Listings :
        lists[l] \in Versions => lists[l] >= heard[l] \/ l \in subs.pending \cup acting
ResourcesFollow ==
    /\ \A u \in subs.following : shown[u] >= heard[u] \/ u \in failed \cup subs.pending \cup acting
    /\ \A u \in URIs \ subs.following : heard[u] = 0

RegisteredOrRefused ==
    server.up /\ subs.mechanism = "subscribe"
        => subs.following \subseteq server.registered \cup refused

ShellInv ==
    /\ ShellTypeOK /\ HeardOfWhatIs /\ Settled /\ ListsFollow /\ ResourcesFollow
    /\ RegisteredOrRefused

\* What a line is about is of the kind its word asks for.
LEMMA LineKinds ==
  ASSUME ShellTypeOK
  PROVE  /\ line.word = "list" => line.of \in Listings
         /\ line.word \in {"subscribe", "unsubscribe"} => line.of \in URIs
         /\ line.word = "elicit" => line.of \in Given
  BY DEF ShellTypeOK, Lines, NoLine

LEMMA ShellInitTypes == ShellInit => ShellTypeOK
<1> SUFFICES ASSUME ShellInit PROVE ShellTypeOK
  OBVIOUS
<1>1. MaxChanges \in Nat /\ MaxLines \in Nat /\ MaxDrops \in Nat
  BY ShellBounds
<1>2. 0 \in Versions
  BY <1>1 DEF Versions
<1>3. PICK how \in Mechanisms :
        server = [at |-> Nothing, registered |-> {}, speaks |-> how, up |-> TRUE]
  BY DEF ShellInit, Nothing
<1>4. Nothing \in [Subjects -> Versions]
  BY <1>2 DEF Nothing
<1>5. server \in [at : [Subjects -> Versions], registered : SUBSET URIs,
                  speaks : Mechanisms, up : BOOLEAN]
  BY <1>3, <1>4
<1>6. lists \in [Listings -> Versions \cup {Unlisted, Empty}]
  BY <1>2 DEF ShellInit
<1>7. subs \in [mechanism : Mechanisms, following : SUBSET URIs, pending : SUBSET Subjects,
                acknowledged : BOOLEAN]
  BY <1>3 DEF ShellInit
<1>8. count \in [lines : 0..MaxLines, drops : 0..MaxDrops, changes : Versions]
  BY <1>1, <1>2 DEF ShellInit
<1>9. /\ shown \in [URIs -> Versions] /\ heard \in [Subjects -> Versions]
      /\ unread \in [Subjects -> Versions]
  BY <1>2, <1>4 DEF ShellInit
<1> QED
  BY <1>5, <1>6, <1>7, <1>8, <1>9 DEF ShellInit, ShellTypeOK

LEMMA ShellInitInv == ShellInit => ShellInv
<1> SUFFICES ASSUME ShellInit PROVE ShellInv
  OBVIOUS
<1>1. ShellTypeOK
  BY ShellInitTypes
<1>2. \A s \in Subjects : heard[s] = 0 /\ unread[s] = 0 /\ server.at[s] = 0
  BY DEF ShellInit, Nothing
<1>3. subs.following = {} /\ acting = {} /\ subs.pending = {} /\ count.changes = 0
  BY DEF ShellInit
<1>4. ListsFollow
  BY <1>2 DEF ListsFollow, ShellInit, Versions, Subjects
<1>5. ResourcesFollow
  BY <1>2, <1>3 DEF ResourcesFollow, Subjects
<1> QED
  BY <1>1, <1>2, <1>3, <1>4, <1>5 DEF ShellInv, HeardOfWhatIs, Settled, RegisteredOrRefused

\* The types of the records, by name.
ServerStates == [at : [Subjects -> Versions], registered : SUBSET URIs,
                 speaks : Mechanisms, up : BOOLEAN]
SubsStates == [mechanism : Mechanisms, following : SUBSET URIs, pending : SUBSET Subjects,
               acknowledged : BOOLEAN]
AnswerStates == [told : Given \cup {NoAnswers}, used : Given \cup {NoAnswers}, one : BOOLEAN]
CountStates == [lines : 0..MaxLines, drops : 0..MaxDrops, changes : Versions]

LEMMA ShellTypes ==
  /\ ShellTypeOK => /\ server \in ServerStates /\ subs \in SubsStates
                    /\ elicit \in AnswerStates /\ count \in CountStates
  /\ Nothing \in [Subjects -> Versions]
  /\ Listings \subseteq Subjects /\ URIs \subseteq Subjects
  /\ Subjects = Listings \cup URIs /\ Listings \cap URIs = {}
  /\ \A v \in Versions : v \in Nat /\ 0 <= v
  /\ Unlisted \notin Versions /\ Empty \notin Versions
<1>1. MaxChanges \in Nat /\ {Unlisted, Empty} \cap Nat = {} /\ Listings \cap URIs = {}
  BY ShellBounds
<1>2. 0 \in Versions
  BY <1>1 DEF Versions
<1>3. Nothing \in [Subjects -> Versions]
  BY <1>2 DEF Nothing
<1>4. /\ \A v \in Versions : v \in Nat /\ 0 <= v
      /\ Unlisted \notin Versions /\ Empty \notin Versions
  BY <1>1 DEF Versions
<1>5. Listings \subseteq Subjects /\ URIs \subseteq Subjects /\ Subjects = Listings \cup URIs
  BY DEF Subjects
<1>6. ShellTypeOK => /\ server \in ServerStates /\ subs \in SubsStates
                     /\ elicit \in AnswerStates /\ count \in CountStates
  BY DEF ShellTypeOK, ServerStates, SubsStates, AnswerStates, CountStates
<1> QED
  BY <1>1, <1>3, <1>4, <1>5, <1>6

\* What recording does.
LEMMA Recorded ==
  ASSUME ShellTypeOK, NEW acknowledged \in BOOLEAN, Record(acknowledged)
  PROVE  /\ subs' \in SubsStates /\ subs'.following = subs.following
         /\ subs'.mechanism = subs.mechanism
         /\ subs'.pending = subs.pending \cup Kept(subs.following)
         /\ Kept(subs.following) \subseteq Subjects
         /\ \A s \in Kept(subs.following) : s \in Listings \/ s \in subs.following
         /\ heard' \in [Subjects -> Versions]
         /\ \A s \in Subjects : heard'[s] = IF s \in Kept(subs.following) THEN unread[s] ELSE heard[s]
         /\ failed' = failed \ Kept(subs.following) /\ failed' \subseteq URIs
         /\ unread' = Nothing /\ unread' \in [Subjects -> Versions]
<1> DEFINE kept == Kept(subs.following)
<1>1. kept \subseteq Subjects /\ \A s \in kept : s \in Listings \/ s \in subs.following
  BY DEF Kept, Said
<1>2. subs \in SubsStates
  BY ShellTypes
<1>3. subs' = [subs EXCEPT !.pending = @ \cup kept, !.acknowledged = acknowledged]
  BY DEF Record
<1>4. heard' = [s \in Subjects |-> IF s \in kept THEN unread[s] ELSE heard[s]]
  BY DEF Record
<1>5. heard \in [Subjects -> Versions] /\ unread \in [Subjects -> Versions] /\ failed \subseteq URIs
  BY DEF ShellTypeOK
<1>6. failed' = failed \ kept /\ unread' = Nothing
  BY DEF Record
<1> HIDE DEF kept
<1>7. /\ subs' \in SubsStates /\ subs'.following = subs.following
      /\ subs'.mechanism = subs.mechanism
      /\ subs'.pending = subs.pending \cup kept
  BY <1>1, <1>2, <1>3 DEF SubsStates
<1>8. heard' \in [Subjects -> Versions]
  BY <1>4, <1>5
<1> QED
  BY <1>1, <1>4, <1>5, <1>6, <1>7, <1>8, ShellTypes DEF kept

\* Learning the tools leaves a list there is, or an empty one, or no other.
LEMMA Learnt ==
  ASSUME ShellTypeOK, Learns
  PROVE  /\ lists' \in [Listings -> Versions \cup {Unlisted, Empty}]
         /\ \A l \in Listings :
               lists'[l] = lists[l] \/ lists'[l] \notin Versions \/ lists'[l] = server.at[l]
         /\ unread' = Nothing /\ unread' \in [Subjects -> Versions]
<1>1. server.at \in [Subjects -> Versions]
  BY ShellTypes DEF ServerStates
<1>2. Tools \in Listings /\ server.at[Tools] \in Versions
  BY <1>1, ShellBounds, ShellTypes
<1>3. unread' = Nothing
  BY DEF Learns, Unwatched
<1>4. PICK v \in {server.at[Tools], Empty} : lists' = [lists EXCEPT ![Tools] = v]
  BY DEF Learns
<1>5. lists \in [Listings -> Versions \cup {Unlisted, Empty}]
  BY DEF ShellTypeOK
<1>6. lists' \in [Listings -> Versions \cup {Unlisted, Empty}]
  BY <1>2, <1>4, <1>5
<1>7. ASSUME NEW l \in Listings
      PROVE  lists'[l] = lists[l] \/ lists'[l] \notin Versions \/ lists'[l] = server.at[l]
  BY <1>2, <1>4, <1>5, ShellTypes
<1> QED
  BY <1>3, <1>6, <1>7, ShellTypes

\* The variables a line leaves alone, with the places it may go.
LEMMA ShellTypesKept == ShellTypeOK /\ [ShellNext]_shellVars => ShellTypeOK'
<1> SUFFICES ASSUME ShellTypeOK, [ShellNext]_shellVars PROVE ShellTypeOK'
  OBVIOUS
<1>0. /\ server \in ServerStates /\ subs \in SubsStates /\ elicit \in AnswerStates
      /\ count \in CountStates /\ Nothing \in [Subjects -> Versions]
  BY ShellTypes
<1>a. ASSUME server' \in ServerStates, subs' \in SubsStates, elicit' \in AnswerStates,
             count' \in CountStates, unread' \in [Subjects -> Versions],
             lists' \in [Listings -> Versions \cup {Unlisted, Empty}],
             acting' \subseteq Subjects, UNCHANGED fixed, dropped' \in BOOLEAN,
             pc' \in ShellPlaces, line' \in Lines \cup {NoLine},
             shown' \in [URIs -> Versions], heard' \in [Subjects -> Versions],
             failed' \subseteq URIs, refused' \subseteq URIs
      PROVE  ShellTypeOK'
  BY <1>a DEF ShellTypeOK, ServerStates, SubsStates, AnswerStates, CountStates, fixed, ShellPlaces
<1>1. CASE UNCHANGED shellVars
  BY <1>1 DEF ShellTypeOK, shellVars, fixed, ghosts
<1>b. /\ unread \in [Subjects -> Versions] /\ lists \in [Listings -> Versions \cup {Unlisted, Empty}]
      /\ acting \subseteq Subjects /\ dropped \in BOOLEAN /\ pc \in ShellPlaces
      /\ line \in Lines \cup {NoLine} /\ NoLine \in Lines \cup {NoLine}
      /\ shown \in [URIs -> Versions] /\ heard \in [Subjects -> Versions]
      /\ failed \subseteq URIs /\ refused \subseteq URIs
  BY DEF ShellTypeOK, ShellPlaces
<1>2. CASE TabCompletes \/ Mistake \/ Drained
  BY <1>0, <1>a, <1>b, <1>2 DEF TabCompletes, Mistake, Drained, Unwatched, ghosts, Ran, ShellPlaces
<1>3. CASE Types
  <2>1. count' \in CountStates
    BY <1>0, <1>3, ShellBounds DEF Types, CountStates
  <2>2. line' \in Lines /\ pc' \in ShellPlaces
    BY <1>3 DEF Types, ShellPlaces
  <2> QED
    BY <1>0, <1>a, <1>b, <1>3, <2>1, <2>2 DEF Types, ghosts
<1>4. CASE Redial
  <2>1. CASE /\ pc' = "prompt" /\ line' = NoLine
             /\ UNCHANGED <<server, unread, refused, dropped, elicit>>
    BY <1>0, <1>a, <1>b, <1>4, <2>1 DEF Redial, ShellPlaces
  <2>2. ASSUME NEW accepted \in SUBSET Refollowed(subs.following), NEW speaks \in Mechanisms,
               NEW registered, registered = IF subs.mechanism = "subscribe" /\ speaks = "subscribe"
                                            THEN accepted ELSE {},
               server' = [server EXCEPT !.up = TRUE, !.registered = registered, !.speaks = speaks],
               refused' = refused \cup (Refollowed(subs.following) \ registered),
               elicit' = [elicit EXCEPT !.used = NoAnswers, !.one = FALSE],
               unread' = Nothing, dropped' = FALSE, pc' = "run", line' = line
        PROVE  ShellTypeOK'
    <3>1. subs.following \subseteq URIs
      BY <1>0 DEF SubsStates
    <3>2. registered \subseteq URIs /\ refused' \subseteq URIs
      BY <1>b, <2>2, <3>1 DEF Refollowed
    <3>3. server' \in ServerStates
      BY <1>0, <2>2, <3>2 DEF ServerStates
    <3>4. elicit' \in AnswerStates
      BY <1>0, <2>2 DEF AnswerStates
    <3> QED
      BY <1>0, <1>a, <1>b, <1>4, <2>2, <3>2, <3>3, <3>4 DEF Redial, ShellPlaces
  <2> QED
    BY <1>4, <2>1, <2>2 DEF Redial
<1>5. ASSUME NEW acknowledged \in BOOLEAN, Record(acknowledged), UNCHANGED <<fixed, lists, acting,
             elicit, count, shown, refused>>, server' \in ServerStates, dropped' \in BOOLEAN,
             pc' \in ShellPlaces, line' \in Lines \cup {NoLine}
      PROVE  ShellTypeOK'
  BY <1>0, <1>a, <1>b, <1>5, Recorded
<1>6. CASE Read \/ Call
  <2>1. subs.acknowledged \in BOOLEAN
    BY <1>0 DEF SubsStates
  <2>2. pc' \in ShellPlaces /\ line' \in Lines \cup {NoLine} /\ Watched
    BY <1>b, <1>6 DEF Read, Call, Ran, ShellPlaces
  <2>3. dropped' \in BOOLEAN
    BY <1>b, <2>2 DEF Watched
  <2> QED
    BY <1>0, <1>5, <2>1, <2>2, <2>3 DEF Watched
<1>7. CASE Schema \/ Hint
  <2>1. /\ lists' \in [Listings -> Versions \cup {Unlisted, Empty}]
        /\ unread' \in [Subjects -> Versions]
    BY <1>b, <1>7, Learnt DEF Schema, Hint
  <2> QED
    BY <1>0, <1>a, <1>b, <1>7, <2>1 DEF Schema, Hint, Ran, ghosts, ShellPlaces
<1>8. CASE Listen
  <2>1. pc' \in ShellPlaces /\ line' \in Lines \cup {NoLine}
    BY <1>b, <1>8 DEF Listen, Ran, ShellPlaces
  <2>2. CASE subs.mechanism = "subscribe" /\ UNCHANGED <<server, unread, subs, heard, failed, dropped>>
    BY <1>0, <1>a, <1>b, <1>8, <2>1, <2>2 DEF Listen
  <2>3. CASE /\ \E acknowledged \in BOOLEAN :
                 /\ Record(acknowledged)
                 /\ server' = [server EXCEPT !.registered =
                                  IF acknowledged /\ server.up THEN subs.following ELSE @]
             /\ \/ server.up /\ UNCHANGED dropped
                \/ dropped' = TRUE
    <3>1. PICK acknowledged \in BOOLEAN :
                 /\ Record(acknowledged)
                 /\ server' = [server EXCEPT !.registered =
                                  IF acknowledged /\ server.up THEN subs.following ELSE @]
      BY <2>3
    <3>2. server' \in ServerStates
      BY <1>0, <3>1 DEF ServerStates, SubsStates
    <3> QED
      BY <1>5, <1>b, <1>8, <2>1, <2>3, <3>1, <3>2 DEF Listen
  <2> QED
    BY <1>8, <2>2, <2>3 DEF Listen
<1>9. CASE List
  <2>1. server.at \in [Subjects -> Versions] /\ line.of \in Listings
    BY <1>0, <1>9, LineKinds DEF List, ServerStates
  <2>2. server.at[line.of] \in Versions
    BY <2>1, ShellTypes
  <2>3. lists' \in [Listings -> Versions \cup {Unlisted, Empty}] /\ dropped' \in BOOLEAN
    BY <1>b, <1>9, <2>2 DEF List
  <2> QED
    BY <1>0, <1>a, <1>b, <1>9, <2>3 DEF List, Ran, Unwatched, ghosts, ShellPlaces
<1>10. CASE Raw
  <2>1. dropped' \in BOOLEAN
    BY <1>b, <1>10 DEF Raw
  <2> QED
    BY <1>0, <1>a, <1>b, <1>10, <2>1 DEF Raw, Ran, Unwatched, ghosts, ShellPlaces
<1>11. CASE Subscribe
  <2>1. line.of \in URIs
    BY <1>11, LineKinds DEF Subscribe
  <2>2. subs' \in SubsStates
    <3>1. subs' = subs \/ subs' = [subs EXCEPT !.following = @ \cup {line.of}]
      BY <1>11 DEF Subscribe
    <3> QED
      BY <1>0, <2>1, <3>1 DEF SubsStates
  <2>3. server' \in ServerStates
    <3>1. server' = server \/ server' = [server EXCEPT !.registered = @ \cup {line.of}]
      BY <1>11 DEF Subscribe
    <3> QED
      BY <1>0, <2>1, <3>1 DEF ServerStates
  <2>4. /\ refused' \subseteq URIs /\ dropped' \in BOOLEAN
        /\ unread' \in [Subjects -> Versions]
    BY <1>0, <1>b, <1>11 DEF Subscribe, Unwatched
  <2> QED
    BY <1>0, <1>a, <1>b, <1>11, <2>2, <2>3, <2>4 DEF Subscribe, Ran, ShellPlaces
<1>12. CASE Unsubscribe
  <2>1. line.of \in URIs
    BY <1>12, LineKinds DEF Unsubscribe
  <2>2. subs' \in SubsStates
    BY <1>0, <1>12, <2>1 DEF Unsubscribe, SubsStates
  <2>3. server' \in ServerStates
    <3>1. server' = server \/ server' = [server EXCEPT !.registered = @ \ {line.of}]
      BY <1>12 DEF Unsubscribe
    <3> QED
      BY <1>0, <3>1 DEF ServerStates
  <2>4. refused' \subseteq URIs /\ dropped' \in BOOLEAN
    BY <1>0, <1>b, <1>12 DEF Unsubscribe
  <2>5. unread' \in [Subjects -> Versions]
    BY <1>0, <1>b, <1>12 DEF Unsubscribe, Unwatched
  <2>6. heard' \in [Subjects -> Versions]
    <3>1. 0 \in Versions
      BY ShellBounds DEF Versions
    <3> QED
      BY <1>b, <1>12, <3>1 DEF Unsubscribe
  <2> QED
    BY <1>0, <1>a, <1>b, <1>12, <2>2, <2>3, <2>4, <2>5, <2>6 DEF Unsubscribe, Ran, ShellPlaces
<1>13. CASE Elicit
  <2>1. elicit' \in AnswerStates
    BY <1>0, <1>13, LineKinds DEF Elicit, AnswerStates
  <2> QED
    BY <1>0, <1>a, <1>b, <1>13, <2>1 DEF Elicit, Ran, ghosts, ShellPlaces
<1>14. CASE Poll
  <2> DEFINE told == IF stdio THEN Kept(subs.following) ELSE {}
  <2>1. told \subseteq Subjects
    BY DEF Kept, Said
  <2>2. /\ acting' = subs.pending \cup told
        /\ heard' = [s \in Subjects |-> IF s \in told THEN unread[s] ELSE heard[s]]
        /\ failed' = failed \ told
    BY <1>14 DEF Poll
  <2>3. subs' \in SubsStates /\ subs.pending \subseteq Subjects
    BY <1>0, <1>14 DEF Poll, SubsStates
  <2> HIDE DEF told
  <2>4. acting' \subseteq Subjects /\ failed' \subseteq URIs /\ heard' \in [Subjects -> Versions]
    BY <1>b, <2>1, <2>2, <2>3
  <2> QED
    BY <1>0, <1>a, <1>b, <1>14, <2>3, <2>4 DEF Poll, ShellPlaces
<1>15. CASE Reread
  <2>1. PICK l \in acting \cap Listings :
            /\ \/ server.up /\ lists' = [lists EXCEPT ![l] = server.at[l]]
               \/ lists' = [lists EXCEPT ![l] = Unread(l)]
            /\ acting' = acting \ {l}
    BY <1>15 DEF Reread
  <2>2. server.at[l] \in Versions
    BY <1>0, ShellTypes DEF ServerStates
  <2>3. lists' \in [Listings -> Versions \cup {Unlisted, Empty}]
    BY <1>b, <2>1, <2>2 DEF Unread
  <2> QED
    BY <1>0, <1>a, <1>b, <1>15, <2>1, <2>3 DEF Reread, Unwatched, ghosts
<1>16. CASE Refresh
  <2>1. PICK u \in acting :
         \/ /\ server.up
            /\ shown' = [shown EXCEPT ![u] = server.at[u]]
            /\ acting' = acting \ {u} /\ UNCHANGED failed
         \/ /\ acting' = Left(acting \ {u})
            /\ failed' = failed \cup {u} /\ UNCHANGED shown
    BY <1>16 DEF Refresh
  <2>2. u \in URIs
    BY <1>b, <1>16, <2>1 DEF Refresh, Subjects
  <2>3. server.at[u] \in Versions
    BY <1>0, <2>2, ShellTypes DEF ServerStates
  <2>4. /\ shown' \in [URIs -> Versions] /\ failed' \subseteq URIs /\ acting' \subseteq Subjects
    BY <1>b, <2>1, <2>2, <2>3 DEF Left
  <2> QED
    BY <1>0, <1>a, <1>b, <1>16, <2>4 DEF Refresh, Unwatched
<1>17. CASE Changes
  <2>1. count.changes + 1 \in Versions /\ count' \in CountStates
    <3>1. count.changes \in Versions /\ count.changes < MaxChanges /\ MaxChanges \in Nat
      BY <1>0, <1>17, ShellBounds DEF Changes, CountStates
    <3>2. count.changes + 1 \in Versions
      BY <3>1 DEF Versions
    <3> QED
      BY <1>0, <1>17, <3>2 DEF Changes, CountStates
  <2>2. PICK s \in Subjects :
         /\ server' = [server EXCEPT !.at[s] = count.changes + 1]
         /\ \/ UNCHANGED unread
            \/ unread' = [unread EXCEPT ![s] = count.changes + 1]
    BY <1>17 DEF Changes
  <2>3. server' \in ServerStates
    BY <1>0, <2>1, <2>2 DEF ServerStates
  <2>4. unread' \in [Subjects -> Versions]
    BY <1>b, <2>1, <2>2
  <2> QED
    BY <1>0, <1>a, <1>b, <1>17, <2>1, <2>3, <2>4 DEF Changes, ghosts
<1>18. CASE Dies
  <2>1. server' \in ServerStates
    BY <1>0, <1>18 DEF Dies, ServerStates
  <2>2. count' \in CountStates
    BY <1>0, <1>18, ShellBounds DEF Dies, CountStates
  <2> QED
    BY <1>0, <1>a, <1>b, <1>18, <2>1, <2>2 DEF Dies, ghosts
<1> QED
  BY <1>1, <1>2, <1>3, <1>4, <1>6, <1>7, <1>8, <1>9, <1>10, <1>11, <1>12, <1>13, <1>14, <1>15,
     <1>16, <1>17, <1>18 DEF ShellNext

\* Nothing new is heard, and the lists are as they were, gone or read again.
LEMMA UnheardStep ==
  ASSUME ShellInv, ShellTypeOK', Settled', RegisteredOrRefused',
         UNCHANGED <<subs, acting, heard, shown, failed>>,
         unread' \in {unread, Nothing},
         server'.at = server.at, count'.changes = count.changes,
         \A l \in Listings :
            lists'[l] = lists[l] \/ lists'[l] \notin Versions \/ lists'[l] = server.at[l]
  PROVE  ShellInv'
<1>1. HeardOfWhatIs'
  <2>1. ASSUME NEW s \in Subjects
        PROVE  /\ heard[s] <= server.at[s] /\ unread'[s] <= server.at[s]
               /\ server.at[s] <= count.changes
    <3>1. server.at[s] \in Nat /\ Nothing[s] = 0 /\ 0 <= server.at[s]
      BY ShellTypes DEF ShellInv, ServerStates, Nothing
    <3>2. unread'[s] \in {unread[s], 0}
      BY <3>1
    <3> QED
      BY <3>1, <3>2 DEF ShellInv, HeardOfWhatIs
  <2> QED
    BY <2>1 DEF HeardOfWhatIs
<1>2. ListsFollow'
  <2>1. ASSUME NEW l \in Listings, lists'[l] \in Versions
        PROVE  lists'[l] >= heard[l] \/ l \in subs.pending \cup acting
    <3>1. heard[l] <= server.at[l] /\ heard[l] \in Nat /\ server.at[l] \in Nat
      BY ShellTypes DEF ShellInv, HeardOfWhatIs, ServerStates, ShellTypeOK
    <3> QED
      BY <2>1, <3>1 DEF ShellInv, ListsFollow
  <2>2. \A l \in Listings : lists'[l] \in Versions
            => lists'[l] >= heard'[l] \/ l \in subs'.pending \cup acting'
    BY <2>1
  <2> QED
    BY <2>2 DEF ListsFollow, Versions
<1>3. ResourcesFollow'
  BY DEF ShellInv, ResourcesFollow
<1> QED
  BY <1>1, <1>2, <1>3 DEF ShellInv

\* What is recorded is pending, or is being acted on at once.
LEMMA HeardStep ==
  ASSUME ShellInv, ShellTypeOK', Settled', RegisteredOrRefused',
         NEW kept, \A s \in kept : s \in Listings \/ s \in subs.following,
         \A s \in Subjects : heard'[s] = IF s \in kept THEN unread[s] ELSE heard[s],
         subs.pending \cup acting \cup kept \subseteq subs'.pending \cup acting',
         failed' = failed \ kept, subs'.following = subs.following,
         unread' = Nothing, UNCHANGED <<lists, shown, count>>, server'.at = server.at
  PROVE  ShellInv'
<1>1. HeardOfWhatIs'
  <2>1. ASSUME NEW s \in Subjects
        PROVE  /\ heard'[s] <= server.at[s] /\ unread'[s] <= server.at[s]
               /\ server.at[s] <= count.changes
    <3>1. server.at[s] \in Nat /\ unread'[s] = 0 /\ 0 <= server.at[s]
      BY ShellTypes DEF ShellInv, ServerStates, Nothing
    <3>2. heard'[s] \in {unread[s], heard[s]}
      OBVIOUS
    <3> QED
      BY <3>1, <3>2 DEF ShellInv, HeardOfWhatIs
  <2> QED
    BY <2>1 DEF HeardOfWhatIs
<1>2. ListsFollow'
  <2>1. ASSUME NEW l \in Listings, lists[l] \in Versions
        PROVE  lists[l] >= heard'[l] \/ l \in subs'.pending \cup acting'
    BY <2>1, ShellTypes DEF ShellInv, ListsFollow
  <2> QED
    BY <2>1 DEF ListsFollow, Versions
<1>3. ResourcesFollow'
  <2>1. ASSUME NEW u \in subs.following
        PROVE  shown[u] >= heard'[u] \/ u \in failed' \cup subs'.pending \cup acting'
    <3>1. u \in Subjects
      BY ShellTypes DEF ShellInv, SubsStates
    <3> QED
      BY <2>1, <3>1 DEF ShellInv, ResourcesFollow
  <2>2. ASSUME NEW u \in URIs \ subs.following
        PROVE  heard'[u] = 0
    <3>1. u \in Subjects /\ u \notin kept
      BY ShellTypes
    <3> QED
      BY <2>2, <3>1 DEF ShellInv, ResourcesFollow
  <2> QED
    BY <2>1, <2>2 DEF ResourcesFollow
<1> QED
  BY <1>1, <1>2, <1>3 DEF ShellInv

LEMMA ShellStep == ShellInv /\ [ShellNext]_shellVars => ShellInv'
<1> SUFFICES ASSUME ShellInv, [ShellNext]_shellVars PROVE ShellInv'
  OBVIOUS
<1>0. ShellTypeOK /\ ShellTypeOK'
  BY ShellTypesKept DEF ShellInv
<1>a. Settled /\ RegisteredOrRefused /\ Listings \subseteq Subjects /\ URIs \subseteq Subjects
  BY ShellTypes DEF ShellInv
<1>b. server \in ServerStates /\ subs \in SubsStates /\ count \in CountStates
  BY <1>0, ShellTypes
<1>1. CASE UNCHANGED shellVars
  BY <1>0, <1>1 DEF ShellInv, shellVars, ghosts, HeardOfWhatIs, Settled, ListsFollow, Versions,
                    ResourcesFollow, RegisteredOrRefused
<1>2. CASE TabCompletes \/ Mistake \/ Drained \/ Raw \/ Elicit
  <2>1. /\ UNCHANGED <<server, lists, subs, acting, count, shown, ghosts>>
        /\ unread' \in {unread, Nothing}
    BY <1>2 DEF TabCompletes, Mistake, Drained, Raw, Elicit, Unwatched
  <2>2. Settled'
    BY <1>2, <1>a DEF TabCompletes, Mistake, Drained, Raw, Elicit, Settled, Ran
  <2>3. RegisteredOrRefused'
    BY <1>a, <2>1 DEF RegisteredOrRefused, ghosts
  <2> QED
    BY <1>0, <2>1, <2>2, <2>3, UnheardStep DEF ghosts
<1>3. CASE Types
  <2>1. UNCHANGED <<server, unread, lists, subs, acting, shown, ghosts>>
    BY <1>3 DEF Types
  <2>2. Settled' /\ count'.changes = count.changes
    BY <1>3, <1>a, <1>b DEF Types, Settled, CountStates
  <2>3. RegisteredOrRefused'
    BY <1>a, <2>1 DEF RegisteredOrRefused, ghosts
  <2> QED
    BY <1>0, <2>1, <2>2, <2>3, UnheardStep DEF ghosts
<1>4. CASE Redial
  <2>1. UNCHANGED <<lists, subs, acting, count, shown, heard, failed>>
        /\ unread' \in {unread, Nothing} /\ server'.at = server.at
    BY <1>4, <1>b DEF Redial, ServerStates
  <2>2. Settled'
    BY <1>4, <1>a DEF Redial, Settled
  <2>3. RegisteredOrRefused'
    <3>1. CASE UNCHANGED <<server, refused>>
      BY <1>a, <2>1, <3>1 DEF RegisteredOrRefused
    <3>2. ASSUME NEW accepted, NEW speaks, NEW registered,
                 server' = [server EXCEPT !.up = TRUE, !.registered = registered, !.speaks = speaks],
                 refused' = refused \cup (Refollowed(subs.following) \ registered)
          PROVE  RegisteredOrRefused'
      <4>1. server'.registered = registered
        BY <1>b, <3>2 DEF ServerStates
      <4> QED
        BY <2>1, <3>2, <4>1 DEF RegisteredOrRefused, Refollowed
    <3> QED
      BY <1>4, <3>1, <3>2 DEF Redial
  <2> QED
    BY <1>0, <2>1, <2>2, <2>3, UnheardStep
<1>5. CASE Schema \/ Hint
  <2>1. UNCHANGED <<server, subs, acting, count, shown, ghosts>>
    BY <1>5 DEF Schema, Hint
  <2>2. /\ \A l \in Listings :
              lists'[l] = lists[l] \/ lists'[l] \notin Versions \/ lists'[l] = server.at[l]
        /\ unread' \in {unread, Nothing}
    BY <1>0, <1>5, Learnt DEF Schema, Hint
  <2>3. Settled'
    BY <1>5, <1>a DEF Schema, Hint, Settled, Ran
  <2>4. RegisteredOrRefused'
    BY <1>a, <2>1 DEF RegisteredOrRefused, ghosts
  <2> QED
    BY <1>0, <2>1, <2>2, <2>3, <2>4, UnheardStep DEF ghosts
<1>6. CASE List
  <2>1. UNCHANGED <<server, subs, acting, count, shown, ghosts>> /\ unread' = Nothing
    BY <1>6 DEF List, Unwatched
  <2>2. \A l \in Listings : lists'[l] = lists[l] \/ lists'[l] = server.at[l]
    BY <1>0, <1>6 DEF List, ShellTypeOK
  <2>3. Settled'
    BY <1>6, <1>a DEF List, Settled, Ran
  <2>4. RegisteredOrRefused'
    BY <1>a, <2>1 DEF RegisteredOrRefused, ghosts
  <2> QED
    BY <1>0, <2>1, <2>2, <2>3, <2>4, UnheardStep DEF ghosts
<1>7. CASE Dies
  <2>1. UNCHANGED <<unread, lists, subs, acting, pc, shown, ghosts>>
    BY <1>7 DEF Dies
  <2>2. server'.at = server.at /\ ~server'.up /\ count'.changes = count.changes
    BY <1>7, <1>b DEF Dies, ServerStates, CountStates
  <2>3. Settled' /\ RegisteredOrRefused'
    BY <1>a, <2>1, <2>2 DEF Settled, RegisteredOrRefused
  <2> QED
    BY <1>0, <2>1, <2>2, <2>3, UnheardStep DEF ghosts
<1>8. CASE Read \/ Call
  <2>1. subs.acknowledged \in BOOLEAN /\ Record(subs.acknowledged)
    BY <1>8, <1>b DEF Read, Call, Watched, SubsStates
  <2>2. UNCHANGED <<server, lists, acting, count, shown, refused>>
    BY <1>8 DEF Read, Call, Watched
  <2>3. Settled'
    BY <1>8, <1>a, <2>2 DEF Read, Call, Ran, Settled
  <2>4. RegisteredOrRefused'
    BY <1>0, <1>a, <2>1, <2>2, Recorded DEF RegisteredOrRefused
  <2> QED
    BY <1>0, <2>1, <2>2, <2>3, <2>4, Recorded, HeardStep
<1>9. CASE Listen
  <2>1. UNCHANGED <<lists, acting, count, shown, refused>>
    BY <1>9 DEF Listen
  <2>2. Settled'
    BY <1>9, <1>a, <2>1 DEF Listen, Ran, Settled
  <2>3. CASE UNCHANGED <<server, unread, subs, heard, failed>>
    <3>1. RegisteredOrRefused'
      BY <1>a, <2>1, <2>3 DEF RegisteredOrRefused
    <3> QED
      BY <1>0, <2>1, <2>2, <2>3, <3>1, UnheardStep
  <2>4. ASSUME NEW acknowledged \in BOOLEAN, Record(acknowledged), subs.mechanism = "listen",
               server' = [server EXCEPT !.registered =
                             IF acknowledged /\ server.up THEN subs.following ELSE @]
        PROVE  ShellInv'
    <3>1. server'.at = server.at
      BY <1>b, <2>4 DEF ServerStates
    <3>2. RegisteredOrRefused'
      BY <1>0, <2>4, Recorded DEF RegisteredOrRefused
    <3> QED
      BY <1>0, <2>1, <2>2, <2>4, <3>1, <3>2, Recorded, HeardStep
  <2> QED
    BY <1>9, <2>3, <2>4 DEF Listen
<1>10. CASE Poll
  <2> DEFINE told == IF stdio THEN Kept(subs.following) ELSE {}
  <2>1. \A s \in told : s \in Listings \/ s \in subs.following
    BY DEF Kept
  <2>2. /\ acting' = subs.pending \cup told
        /\ heard' = [s \in Subjects |-> IF s \in told THEN unread[s] ELSE heard[s]]
        /\ failed' = failed \ told
    BY <1>10 DEF Poll
  <2>3. /\ subs'.following = subs.following /\ subs'.mechanism = subs.mechanism
        /\ subs'.pending = {}
    BY <1>10, <1>b DEF Poll, SubsStates
  <2>4. /\ UNCHANGED <<server, lists, count, shown, refused>> /\ unread' = Nothing
        /\ pc' = "acting" /\ acting = {}
    BY <1>10, <1>a DEF Poll, Settled
  <2>5. Settled' /\ RegisteredOrRefused'
    BY <1>a, <2>3, <2>4 DEF Settled, RegisteredOrRefused
  <2> HIDE DEF told
  <2>6. \A s \in Subjects : heard'[s] = IF s \in told THEN unread[s] ELSE heard[s]
    BY <2>2
  <2> QED
    BY <1>0, <2>1, <2>2, <2>3, <2>4, <2>5, <2>6, HeardStep
<1>11. CASE Subscribe
  <2>1. /\ line.of \in URIs /\ UNCHANGED <<lists, acting, count, shown, heard, failed>>
        /\ unread' \in {unread, Nothing} /\ pc' = "poll" /\ acting = {}
    BY <1>0, <1>11, <1>a, LineKinds DEF Subscribe, Ran, Unwatched, Settled
  <2>2. /\ \/ subs' = subs
           \/ subs' = [subs EXCEPT !.following = @ \cup {line.of}]
        /\ \/ server' = server
           \/ server' = [server EXCEPT !.registered = @ \cup {line.of}]
    BY <1>11 DEF Subscribe
  <2>3. /\ server'.at = server.at /\ server'.up = server.up
        /\ server.registered \subseteq server'.registered
        /\ subs'.pending = subs.pending /\ subs'.mechanism = subs.mechanism
        /\ subs.following \subseteq subs'.following
        /\ subs'.following \subseteq subs.following \cup {line.of}
    BY <1>b, <2>2 DEF ServerStates, SubsStates
  <2>4. RegisteredOrRefused'
    <3>1. ASSUME server'.up, subs'.mechanism = "subscribe", NEW u \in subs'.following
          PROVE  u \in server'.registered \cup refused'
      <4>1. CASE UNCHANGED <<subs, server, refused>>
        BY <1>a, <3>1, <4>1 DEF RegisteredOrRefused
      <4>2. CASE /\ subs' = [subs EXCEPT !.following = @ \cup {line.of}]
                 /\ server' = [server EXCEPT !.registered = @ \cup {line.of}]
                 /\ refused' = refused \ {line.of}
        <5>1. server'.registered = server.registered \cup {line.of}
          BY <1>b, <4>2 DEF ServerStates
        <5> QED
          BY <1>a, <2>3, <3>1, <4>2, <5>1 DEF RegisteredOrRefused
      <4> QED
        BY <1>11, <2>3, <3>1, <4>1, <4>2 DEF Subscribe
    <3> QED
      BY <3>1 DEF RegisteredOrRefused
  <2>5. HeardOfWhatIs'
    <3>1. ASSUME NEW s \in Subjects PROVE unread'[s] <= server.at[s]
      <4>1. server.at[s] \in Nat /\ Nothing[s] = 0 /\ unread[s] <= server.at[s]
        BY <1>b, ShellTypes DEF ServerStates, Nothing, ShellInv, HeardOfWhatIs
      <4> QED
        BY <2>1, <4>1
    <3> QED
      BY <2>1, <2>3, <3>1 DEF ShellInv, HeardOfWhatIs
  <2>6. ListsFollow'
    BY <2>1, <2>3 DEF ShellInv, ListsFollow, Versions
  <2>7. ResourcesFollow'
    <3>1. ASSUME NEW u \in subs'.following
          PROVE  shown[u] >= heard[u] \/ u \in failed \cup subs.pending \cup acting
      <4>1. CASE u \in subs.following
        BY <4>1 DEF ShellInv, ResourcesFollow
      <4>2. CASE u \notin subs.following
        <5>1. u \in URIs /\ heard[u] = 0
          BY <2>1, <2>3, <3>1, <4>2 DEF ShellInv, ResourcesFollow
        <5>2. shown[u] \in Nat
          BY <1>0, <5>1, ShellTypes DEF ShellTypeOK
        <5> QED
          BY <5>1, <5>2
      <4> QED
        BY <4>1, <4>2
    <3>2. \A u \in URIs \ subs'.following : heard[u] = 0
      BY <2>3 DEF ShellInv, ResourcesFollow
    <3> QED
      BY <2>1, <2>3, <3>1, <3>2 DEF ResourcesFollow
  <2> QED
    BY <1>0, <1>a, <2>1, <2>4, <2>5, <2>6, <2>7 DEF ShellInv, Settled
<1>12. CASE Unsubscribe
  <2>1. /\ line.of \in URIs /\ UNCHANGED <<lists, acting, count, shown, failed>>
        /\ unread' \in {unread, Nothing} /\ pc' = "poll" /\ acting = {}
    BY <1>0, <1>12, <1>a, LineKinds DEF Unsubscribe, Ran, Unwatched, Settled
  <2>2. CASE UNCHANGED <<subs, server, unread, dropped, heard, refused>>
    <3>1. Settled' /\ RegisteredOrRefused'
      BY <1>a, <2>1, <2>2 DEF Settled, RegisteredOrRefused
    <3> QED
      BY <1>0, <2>1, <2>2, <3>1, UnheardStep
  <2>3. CASE /\ subs' = [subs EXCEPT !.following = @ \ {line.of}, !.pending = @ \ {line.of}]
             /\ heard' = [heard EXCEPT ![line.of] = 0]
             /\ refused' = refused \ {line.of}
             /\ \/ server' = server
                \/ server' = [server EXCEPT !.registered = @ \ {line.of}]
    <3>1. /\ subs'.following = subs.following \ {line.of} /\ subs'.mechanism = subs.mechanism
          /\ subs'.pending = subs.pending \ {line.of}
      BY <1>b, <2>3 DEF SubsStates
    <3>2. /\ server'.at = server.at /\ server'.up = server.up
          /\ server.registered \ {line.of} \subseteq server'.registered
      BY <1>b, <2>3 DEF ServerStates
    <3>3. \A s \in Subjects : heard'[s] = IF s = line.of THEN 0 ELSE heard[s]
      BY <1>0, <2>3 DEF ShellTypeOK
    <3>4. RegisteredOrRefused'
      BY <1>a, <2>3, <3>1, <3>2 DEF RegisteredOrRefused
    <3>5. HeardOfWhatIs'
      <4>1. ASSUME NEW s \in Subjects
            PROVE  unread'[s] <= server.at[s] /\ heard'[s] <= server.at[s]
        <5>1. server.at[s] \in Nat /\ Nothing[s] = 0 /\ unread[s] <= server.at[s]
              /\ heard[s] <= server.at[s]
          BY <1>b, ShellTypes DEF ServerStates, Nothing, ShellInv, HeardOfWhatIs
        <5>2. heard'[s] \in {0, heard[s]} /\ unread'[s] \in {0, unread[s]}
          BY <2>1, <3>3, <5>1
        <5> QED
          BY <5>1, <5>2
      <4> QED
        BY <2>1, <3>2, <4>1 DEF ShellInv, HeardOfWhatIs
    <3>6. ListsFollow'
      <4>1. ASSUME NEW l \in Listings, lists[l] \in Versions
            PROVE  lists[l] >= heard'[l] \/ l \in subs'.pending \cup acting'
        <5>1. l # line.of
          BY <2>1, ShellTypes
        <5> QED
          BY <1>a, <2>1, <3>1, <3>3, <4>1, <5>1 DEF ShellInv, ListsFollow
      <4> QED
        BY <2>1, <4>1 DEF ListsFollow, Versions
    <3>7. ResourcesFollow'
      <4>1. ASSUME NEW u \in subs'.following
            PROVE  shown[u] >= heard'[u] \/ u \in failed \cup subs'.pending \cup acting
        <5>1. u \in subs.following /\ u # line.of /\ u \in Subjects
          BY <1>b, <1>a, <3>1 DEF SubsStates
        <5> QED
          BY <3>1, <3>3, <5>1 DEF ShellInv, ResourcesFollow
      <4>2. ASSUME NEW u \in URIs \ subs'.following PROVE heard'[u] = 0
        BY <1>a, <3>1, <3>3 DEF ShellInv, ResourcesFollow
      <4> QED
        BY <2>1, <4>1, <4>2 DEF ResourcesFollow
    <3> QED
      BY <1>0, <1>a, <2>1, <3>4, <3>5, <3>6, <3>7 DEF ShellInv, Settled
  <2> QED
    BY <1>12, <2>2, <2>3 DEF Unsubscribe
<1>13. CASE Reread
  <2>1. PICK l \in acting \cap Listings :
            /\ \/ server.up /\ lists' = [lists EXCEPT ![l] = server.at[l]]
               \/ lists' = [lists EXCEPT ![l] = Unread(l)]
            /\ acting' = acting \ {l}
    BY <1>13 DEF Reread
  <2>2. /\ UNCHANGED <<server, subs, pc, count, shown, ghosts>> /\ unread' = Nothing
        /\ pc = "acting"
    BY <1>13 DEF Reread, Unwatched
  <2>3. \A m \in Listings : m # l => lists'[m] = lists[m]
    BY <1>0, <2>1 DEF ShellTypeOK
  <2>4. lists'[l] \notin Versions \/ lists'[l] = server.at[l]
    BY <1>0, <2>1, ShellTypes DEF ShellTypeOK, Unread
  <2>5. HeardOfWhatIs'
    <3>1. ASSUME NEW s \in Subjects PROVE unread'[s] <= server.at[s]
      BY <1>b, <2>2, ShellTypes DEF ServerStates, Nothing
    <3> QED
      BY <2>2, <3>1 DEF ShellInv, HeardOfWhatIs, ghosts
  <2>6. ListsFollow'
    <3>1. ASSUME NEW m \in Listings, lists'[m] \in Versions
          PROVE  lists'[m] >= heard[m] \/ m \in subs.pending \cup acting'
      <4>1. heard[m] <= server.at[m] /\ heard[m] \in Nat /\ server.at[m] \in Nat
        BY <1>0, <1>b, ShellTypes DEF ShellInv, HeardOfWhatIs, ServerStates, ShellTypeOK
      <4>2. CASE m = l
        BY <2>4, <3>1, <4>1, <4>2
      <4>3. CASE m # l
        BY <2>1, <2>3, <3>1, <4>3 DEF ShellInv, ListsFollow
      <4> QED
        BY <4>2, <4>3
    <3> QED
      BY <2>2, <3>1 DEF ListsFollow, ghosts, Versions
  <2>7. ResourcesFollow'
    <3>1. ASSUME NEW u \in subs.following
          PROVE  shown[u] >= heard[u] \/ u \in failed \cup subs.pending \cup acting'
      <4>1. u # l
        BY <1>b, <2>1, ShellTypes DEF SubsStates
      <4> QED
        BY <2>1, <4>1 DEF ShellInv, ResourcesFollow
    <3> QED
      BY <2>2, <3>1 DEF ShellInv, ResourcesFollow, ghosts
  <2> QED
    BY <1>0, <1>a, <2>2, <2>5, <2>6, <2>7 DEF ShellInv, Settled, RegisteredOrRefused, ghosts
<1>14. CASE Refresh
  <2>1. PICK u \in acting :
         \/ /\ server.up
            /\ shown' = [shown EXCEPT ![u] = server.at[u]]
            /\ acting' = acting \ {u} /\ UNCHANGED failed
         \/ /\ acting' = Left(acting \ {u})
            /\ failed' = failed \cup {u} /\ UNCHANGED shown
    BY <1>14 DEF Refresh
  <2>2. /\ UNCHANGED <<server, lists, subs, pc, count, heard, refused>> /\ unread' = Nothing
        /\ pc = "acting" /\ acting \cap Listings = {}
    BY <1>14 DEF Refresh, Unwatched
  <2>3. u \in URIs /\ acting' = acting \ {u}
    BY <1>0, <2>1, <2>2 DEF ShellTypeOK, Subjects, Left
  <2>4. HeardOfWhatIs'
    <3>1. ASSUME NEW s \in Subjects PROVE unread'[s] <= server.at[s]
      BY <1>b, <2>2, ShellTypes DEF ServerStates, Nothing
    <3> QED
      BY <2>2, <3>1 DEF ShellInv, HeardOfWhatIs
  <2>5. ListsFollow'
    <3>1. \A l \in Listings : l # u
      BY <2>3, ShellTypes
    <3> QED
      BY <2>2, <2>3, <3>1 DEF ShellInv, ListsFollow, Versions
  <2>6. ResourcesFollow'
    <3>1. ASSUME NEW w \in subs.following
          PROVE  shown'[w] >= heard[w] \/ w \in failed' \cup subs.pending \cup acting'
      <4>1. w \in URIs
        BY <1>b DEF SubsStates
      <4>2. CASE w # u
        <5>1. shown'[w] = shown[w] /\ failed \subseteq failed'
          BY <1>0, <2>1, <4>1, <4>2 DEF ShellTypeOK
        <5> QED
          BY <2>3, <4>2, <5>1 DEF ShellInv, ResourcesFollow
      <4>3. CASE w = u
        <5>1. w \in failed' \/ shown'[w] = server.at[w]
          BY <1>0, <2>1, <4>1, <4>3 DEF ShellTypeOK
        <5>2. heard[w] <= server.at[w] /\ heard[w] \in Nat /\ server.at[w] \in Nat
          BY <1>0, <1>a, <1>b, <4>1, ShellTypes
             DEF ShellInv, HeardOfWhatIs, ServerStates, ShellTypeOK
        <5> QED
          BY <5>1, <5>2
      <4> QED
        BY <4>2, <4>3
    <3> QED
      BY <2>2, <3>1 DEF ShellInv, ResourcesFollow
  <2> QED
    BY <1>0, <1>a, <2>2, <2>4, <2>5, <2>6 DEF ShellInv, Settled, RegisteredOrRefused
<1>15. CASE Changes
  <2>1. PICK s \in Subjects :
         /\ server' = [server EXCEPT !.at[s] = count.changes + 1]
         /\ \/ UNCHANGED unread
            \/ unread' = [unread EXCEPT ![s] = count.changes + 1]
    BY <1>15 DEF Changes
  <2>2. /\ UNCHANGED <<lists, subs, acting, pc, shown, ghosts>>
        /\ count'.changes = count.changes + 1 /\ count.changes \in Nat
    BY <1>15, <1>b, ShellTypes DEF Changes, CountStates
  <2>3. /\ server'.up = server.up /\ server'.registered = server.registered
        /\ \A r \in Subjects : server'.at[r] = IF r = s THEN count.changes + 1 ELSE server.at[r]
    BY <1>b, <2>1 DEF ServerStates
  <2>4. \A r \in Subjects : unread'[r] \in {unread[r], server'.at[r]}
    BY <1>0, <2>1, <2>3 DEF ShellTypeOK
  <2>5. HeardOfWhatIs'
    <3>1. ASSUME NEW r \in Subjects
          PROVE  /\ heard[r] <= server'.at[r] /\ unread'[r] <= server'.at[r]
                 /\ server'.at[r] <= count.changes + 1
      <4>1. /\ heard[r] \in Nat /\ unread[r] \in Nat /\ server.at[r] \in Nat
            /\ server'.at[r] \in Nat
        BY <1>0, <1>b, <2>2, <2>3, ShellTypes DEF ShellTypeOK, ServerStates
      <4>2. /\ heard[r] <= server.at[r] /\ unread[r] <= server.at[r]
            /\ server.at[r] <= count.changes
        BY DEF ShellInv, HeardOfWhatIs
      <4>3. server.at[r] <= server'.at[r] /\ server'.at[r] <= count.changes + 1
        BY <2>2, <2>3, <4>1, <4>2
      <4> QED
        BY <2>4, <4>1, <4>2, <4>3
    <3> QED
      BY <2>2, <3>1 DEF HeardOfWhatIs, ghosts
  <2> QED
    BY <1>0, <1>a, <2>2, <2>3, <2>5 DEF ShellInv, Settled, RegisteredOrRefused, ListsFollow,
                                        Versions, ResourcesFollow, ghosts
<1> QED
  BY <1>1, <1>2, <1>3, <1>4, <1>5, <1>6, <1>7, <1>8, <1>9, <1>10, <1>11, <1>12, <1>13, <1>14,
     <1>15 DEF ShellNext

\* Every variable of the shell keeps its type, for any lists, resources and
\* lines, and any server.
THEOREM ShellTypeCorrect == ShellSpec => []ShellTypeOK
<1> QED
  BY ShellInitTypes, ShellTypesKept, PTL DEF ShellSpec

\* At a prompt no list the shell has is older than the last change it was told
\* of: whatever was said during a command, or while nobody read, is acted on.
THEOREM NoListIsStale == ShellSpec => []ListsAreCurrent
<1>1. ShellInv => ListsAreCurrent
  BY DEF ShellInv, Settled, ListsFollow, ListsAreCurrent, AtPrompt
<1> QED
  BY <1>1, ShellInitInv, ShellStep, PTL DEF ShellSpec

\* And every resource the shell follows has been read again since it was told
\* of, or its failure was, and is registered with the server it talks to now
\* unless that refused it: however often the session was lost and dialed again.
THEOREM FollowedStaysSo == ShellSpec => []FollowedIsKept
<1>1. ShellInv => FollowedIsKept
  BY DEF ShellInv, Settled, ResourcesFollow, RegisteredOrRefused, FollowedIsKept, AtPrompt
<1> QED
  BY <1>1, ShellInitInv, ShellStep, PTL DEF ShellSpec
=============================================================================
