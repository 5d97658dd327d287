---------------------------- MODULE DaemonSocket ----------------------------
(***************************************************************************)
(* The socket file of one server name, and the processes that look at it:  *)
(* daemons that start, serve and end, commands that attach, and the stop   *)
(* command (src/daemon.rs).  Looking is several system calls - exists,     *)
(* connect, remove, bind, listen - and another process may come between    *)
(* any two.  What is said over the socket is DaemonRelay's business.       *)
(***************************************************************************)
EXTENDS Naturals, FiniteSets

CONSTANTS
    Daemons,      \* the daemon processes that are ever started
    Commands,     \* commands that would rather attach than dial
    Stoppers,     \* stop commands
    MaxKills      \* how many daemons are killed

NoOne == "no one"

ASSUME SocketConstants ==
    /\ NoOne \notin Daemons
    /\ Daemons \cap (Commands \cup Stoppers) = {}
    /\ Commands \cap Stoppers = {}
    /\ MaxKills \in Nat

Processes == Daemons \cup Commands \cup Stoppers

VARIABLES
    file,     \* the daemon whose socket the path names, or NoOne
    open,     \* the daemons whose socket accepts connections
    daemon,   \* how far each daemon has come
    command,  \* how far each command has come
    stopper,  \* how far each stop command has come
    linked,   \* the daemon each command or stopper is connected to
    kills,
    upThen,   \* history: who was listening when each process found the path stale
    lost      \* history: the daemons that another process's race left without a path

socketVars == <<file, open, daemon, command, stopper, linked, kills, upThen, lost>>

SocketTypeOK ==
    /\ file \in Daemons \cup {NoOne}
    /\ open \subseteq Daemons
    /\ daemon \in [Daemons -> {"unborn", "dialed", "saw", "stale", "absent", "bound",
                               "serving", "closing", "closed", "refused", "ended", "killed"}]
    /\ command \in [Commands -> {"fresh", "saw", "stale", "attached", "dialing"}]
    /\ stopper \in [Stoppers -> {"fresh", "saw", "stale", "running", "waiting",
                                 "stopped", "failed"}]
    /\ linked \in [Commands \cup Stoppers -> Daemons \cup {NoOne}]
    /\ kills \in 0..MaxKills
    /\ upThen \in [Processes -> SUBSET Daemons]
    /\ lost \subseteq Daemons
    /\ \A c \in Commands : command[c] = "attached" => linked[c] # NoOne
    /\ \A s \in Stoppers : stopper[s] \in {"waiting", "stopped"} => linked[s] # NoOne

SocketInit ==
    /\ file = NoOne
    /\ open = {}
    /\ daemon = [d \in Daemons |-> "unborn"]
    /\ command = [c \in Commands |-> "fresh"]
    /\ stopper = [s \in Stoppers |-> "fresh"]
    /\ linked = [x \in Commands \cup Stoppers |-> NoOne]
    /\ kills = 0
    /\ upThen = [x \in Processes |-> {}]
    /\ lost = {}

Exists == file # NoOne

\* Whether connect finds a listener behind the path.
Answers == file \in open

\* A daemon that has bound the path and has not ended.
Living == {d \in Daemons : daemon[d] \in {"bound", "serving", "closing", "closed"}}

\* A try that finds nobody; it is remembered who was listening all the same.
FindsNobody(x) == upThen' = [upThen EXCEPT ![x] = open]

\* x removes the path that it found stale.  If a living daemon has it now, that
\* daemon has lost it to the race, so long as it began to listen after x tried.
Removes(x) ==
    /\ file' = NoOne
    /\ lost' = lost \cup {d \in Living : d = file /\ d \notin upThen[x]}
    /\ upThen' = [upThen EXCEPT ![x] = {}]

Becomes(d, state) == daemon' = [daemon EXCEPT ![d] = state]

-----------------------------------------------------------------------------
\* A daemon.  start has spawned it, having seen no listener; it dials the server
\* before it looks at the socket itself.

Dial(d) ==
    /\ daemon[d] = "unborn"
    /\ ~Answers
    /\ Becomes(d, "dialed")
    /\ UNCHANGED <<file, open, command, stopper, linked, kills, upThen, lost>>

\* state() asks whether the path exists, and only then tries to connect.
LookForSocket(d) ==
    /\ daemon[d] = "dialed"
    /\ Becomes(d, IF Exists THEN "saw" ELSE "absent")
    /\ UNCHANGED <<file, open, command, stopper, linked, kills, upThen, lost>>

\* A slip: the path is removed without trying who is behind it.
TrySocketBlindly(d) ==
    /\ daemon[d] = "saw"
    /\ Becomes(d, "stale")
    /\ FindsNobody(d)
    /\ UNCHANGED <<file, open, command, stopper, linked, kills, lost>>

TrySocket(d) ==
    /\ daemon[d] = "saw"
    /\ Becomes(d, IF Answers THEN "refused" ELSE "stale")
    /\ IF Answers THEN UNCHANGED upThen ELSE FindsNobody(d)
    /\ UNCHANGED <<file, open, command, stopper, linked, kills, lost>>

RemoveStale(d) ==
    /\ daemon[d] = "stale"
    /\ Removes(d)
    /\ Becomes(d, "absent")
    /\ UNCHANGED <<open, command, stopper, linked, kills>>

\* UnixListener::bind is bind, which fails on a path that exists, then listen,
\* before which the path refuses connections.
Bind(d) ==
    /\ daemon[d] = "absent"
    /\ IF Exists
         THEN Becomes(d, "refused") /\ UNCHANGED file
         ELSE Becomes(d, "bound") /\ file' = d
    /\ UNCHANGED <<open, command, stopper, linked, kills, upThen, lost>>

StartListening(d) ==
    /\ daemon[d] = "bound"
    /\ open' = open \cup {d}
    /\ Becomes(d, "serving")
    /\ UNCHANGED <<file, command, stopper, linked, kills, upThen, lost>>

\* Told to stop, idle for too long, or its server died.
StopServing(d) ==
    /\ daemon[d] = "serving"
    /\ Becomes(d, "closing")
    /\ UNCHANGED <<file, open, command, stopper, linked, kills, upThen, lost>>

CloseSession(d) ==
    /\ daemon[d] = "closing"
    /\ Becomes(d, "closed")
    /\ UNCHANGED <<file, open, command, stopper, linked, kills, upThen, lost>>

\* The path is removed whoever is behind it, and the process ends.
End(d) ==
    /\ daemon[d] = "closed"
    /\ file' = NoOne
    /\ lost' = IF d \in lost THEN lost \cup (Living \cap {file}) ELSE lost
    /\ open' = open \ {d}
    /\ Becomes(d, "ended")
    /\ UNCHANGED <<command, stopper, linked, kills, upThen>>

Kill(d) ==
    /\ kills < MaxKills
    /\ daemon[d] \in {"bound", "serving", "closing", "closed"}
    /\ kills' = kills + 1
    /\ open' = open \ {d}
    /\ Becomes(d, "killed")
    /\ UNCHANGED <<file, command, stopper, linked, upThen, lost>>

-----------------------------------------------------------------------------
\* A command that names the server: attach().

CommandLooks(c) ==
    /\ command[c] = "fresh"
    /\ command' = [command EXCEPT ![c] = IF Exists THEN "saw" ELSE "dialing"]
    /\ UNCHANGED <<file, open, daemon, stopper, linked, kills, upThen, lost>>

CommandConnects(c) ==
    /\ command[c] = "saw"
    /\ command' = [command EXCEPT ![c] = IF Answers THEN "attached" ELSE "stale"]
    /\ linked' = IF Answers THEN [linked EXCEPT ![c] = file] ELSE linked
    /\ IF Answers THEN UNCHANGED upThen ELSE FindsNobody(c)
    /\ UNCHANGED <<file, open, daemon, stopper, kills, lost>>

CommandRemoves(c) ==
    /\ command[c] = "stale"
    /\ Removes(c)
    /\ command' = [command EXCEPT ![c] = "dialing"]
    /\ UNCHANGED <<open, daemon, stopper, linked, kills>>

-----------------------------------------------------------------------------
\* The stop command.

StopperLooks(s) ==
    /\ stopper[s] = "fresh"
    /\ stopper' = [stopper EXCEPT ![s] = IF Exists THEN "saw" ELSE "failed"]
    /\ UNCHANGED <<file, open, daemon, command, linked, kills, upThen, lost>>

StopperTries(s) ==
    /\ stopper[s] = "saw"
    /\ stopper' = [stopper EXCEPT ![s] = IF Answers THEN "running" ELSE "stale"]
    /\ IF Answers THEN UNCHANGED upThen ELSE FindsNobody(s)
    /\ UNCHANGED <<file, open, daemon, command, linked, kills, lost>>

StopperRemoves(s) ==
    /\ stopper[s] = "stale"
    /\ Removes(s)
    /\ stopper' = [stopper EXCEPT ![s] = "failed"]
    /\ UNCHANGED <<open, daemon, command, linked, kills>>

\* It connects again, and speaks this time.
StopperConnects(s) ==
    /\ stopper[s] = "running"
    /\ IF Answers
         THEN linked' = [linked EXCEPT ![s] = file] /\ UNCHANGED stopper
         ELSE stopper' = [stopper EXCEPT ![s] = "failed"] /\ UNCHANGED linked
    /\ linked[s] = NoOne
    /\ UNCHANGED <<file, open, daemon, command, kills, upThen, lost>>

\* A slip: the path goes when the stop is acknowledged, and the server after it.
StopUnlinksFirst(s) ==
    /\ stopper[s] = "running"
    /\ linked[s] # NoOne
    /\ daemon[linked[s]] = "serving"
    /\ stopper' = [stopper EXCEPT ![s] = "waiting"]
    /\ daemon' = [daemon EXCEPT ![linked[s]] = "closing"]
    /\ file' = NoOne
    /\ UNCHANGED <<open, command, linked, kills, upThen, lost>>

\* The daemon acknowledges, or the connection closes before it does.
StopIsHeard(s) ==
    /\ stopper[s] = "running"
    /\ linked[s] # NoOne
    /\ IF daemon[linked[s]] = "serving"
         THEN /\ stopper' = [stopper EXCEPT ![s] = "waiting"]
              /\ daemon' = [daemon EXCEPT ![linked[s]] = "closing"]
         ELSE /\ daemon[linked[s]] \in {"ended", "killed"}
              /\ stopper' = [stopper EXCEPT ![s] = "failed"]
              /\ UNCHANGED daemon
    /\ UNCHANGED <<file, open, command, linked, kills, upThen, lost>>

\* stop returns once the path is gone, or reports that it is still there.
StopReturns(s) ==
    /\ stopper[s] = "waiting"
    /\ stopper' = [stopper EXCEPT ![s] = IF Exists THEN "failed" ELSE "stopped"]
    /\ UNCHANGED <<file, open, daemon, command, linked, kills, upThen, lost>>

-----------------------------------------------------------------------------
DaemonProcess(d) ==
    \/ Dial(d) \/ LookForSocket(d) \/ TrySocket(d) \/ RemoveStale(d) \/ Bind(d)
    \/ StartListening(d) \/ StopServing(d) \/ CloseSession(d) \/ End(d) \/ Kill(d)

Command(c) == CommandLooks(c) \/ CommandConnects(c) \/ CommandRemoves(c)

Stopper(s) ==
    \/ StopperLooks(s) \/ StopperTries(s) \/ StopperRemoves(s)
    \/ StopperConnects(s) \/ StopIsHeard(s) \/ StopReturns(s)

SocketNext ==
    \/ \E d \in Daemons : DaemonProcess(d)
    \/ \E c \in Commands : Command(c)
    \/ \E s \in Stoppers : Stopper(s)

SocketSpec == SocketInit /\ [][SocketNext]_socketVars

-----------------------------------------------------------------------------
Listening == {d \in Daemons : daemon[d] = "serving"}

\* "A stale socket from a daemon that was killed is replaced; a live one is left
\* alone": a daemon that serves keeps its path, however many processes look at it
\* at once, except from one that tried it before the daemon listened, or from
\* another daemon that lost its own that way and ends.
LiveLeftAlone == [][\A d \in Listening : file = d => file' = d \/ d \in lost']_socketVars

\* When stop says stopped, the daemon that was told has closed its session, so
\* the server process is gone and can be started again, or it lost its path.
StoppedMeansClosed ==
    \A s \in Stoppers : stopper[s] = "stopped" =>
        daemon[linked[s]] \in {"closed", "ended", "killed"} \/ linked[s] \in lost

\* Of the daemons that live at once, all but one have lost their path.
OneLives == \A d, e \in Living : d = e \/ d \in lost \/ e \in lost
=============================================================================
