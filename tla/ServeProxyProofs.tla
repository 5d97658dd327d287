--------------------------- MODULE ServeProxyProofs ---------------------------
(***************************************************************************)
(* What the one thread that owns the upstream sessions keeps, for any      *)
(* number of clients, sessions and requests: answers go where they belong, *)
(* and what the server holds open is what the map can reach.               *)
(***************************************************************************)
EXTENDS ServeProxy, FiniteSetTheorems, TLAPS

-----------------------------------------------------------------------------
(* The variables the arguments are about have their types.                 *)
Typed ==
    /\ stdio \in BOOLEAN
    /\ conn \in [Clients -> {"open", "waiting", "left", "closed"}]
    /\ request \in [Clients -> [kind : Kinds, session : Nat]]
    /\ answer \in [Clients -> Nat]
    /\ jobs \in Seq(Clients \cup {Shutdown})
    /\ working \in Clients \cup {Nobody}
    /\ sessions \in Seq(Nat)
    /\ minted \in Nat /\ implied \in Nat
    /\ given \in [Clients -> SUBSET Nat]

Waits(c) == conn[c] \in {"waiting", "left"}

(* As long as the owner thread takes jobs, what is in its channel is of    *)
(* clients that wait, and one client's once; the one it works for waits.   *)
Queued ==
    stop \in {"no", "interrupted", "told"} =>
        /\ \A m \in 1..Len(jobs) : jobs[m] \in Clients => Waits(jobs[m]) /\ jobs[m] # working
        /\ \A m, n \in 1..Len(jobs) : jobs[m] \in Clients /\ jobs[m] = jobs[n] => m = n
        /\ working \in Clients => Waits(working)

(* Once it has ended it works for nobody.                                  *)
Idle ==
    /\ stop \in {"no", "interrupted", "told", "ended", "exited", "killed"}
    /\ stop = "ended" => working = Nobody

(* A host asks alone.                                                      *)
Alone ==
    stdio => /\ \A m \in 1..Len(jobs) : jobs[m] \in Clients => jobs[m] = Host
             /\ working \in Clients => working = Host
             /\ implied \in given[Host] \cup {NoSession}

(* What a client names it was given, and what it is told is about it.      *)
NamesItsOwn == \A c \in Clients : request[c].session \in given[c] \cup {NoSession}

(* The map holds no session twice, and none that was not minted.           *)
Distinct ==
    /\ \A m \in 1..Len(sessions) : sessions[m] <= minted
    /\ \A m, n \in 1..Len(sessions) : sessions[m] = sessions[n] => m = n

(* There is room for the one that is being opened.                         *)
Bounded ==
    /\ Len(sessions) <= MaxSessions
    /\ working \in Clients /\ request[working].kind = "initialize" => Len(sessions) < MaxSessions

(* What the server holds open is in the map, and nothing is at the end.    *)
Reached == upstream = Held /\ (stop \in {"ended", "exited"} => sessions = <<>>)

OwnInv == Typed /\ Alone /\ NamesItsOwn /\ AnswersAreOwn

Inv == OwnInv /\ Queued /\ Idle /\ Distinct /\ Bounded /\ Reached

-----------------------------------------------------------------------------
LEMMA Cases ==
    ASSUME Next
    PROVE  \/ \E c \in Clients :
                \/ Accept(c) \/ Refuse(c) \/ Post(c) \/ ToldOfShutdown(c) \/ HangUp(c)
                \/ Alive /\ (AnswerLocally(c) \/ NotHeld(c) \/ Relay(c) \/ Close(c) \/ MakeRoom(c))
           \/ Alive /\ (Open \/ Respond \/ OwnerEnds)
           \/ HostAsks \/ HostEnds \/ Interrupt \/ TellOwner \/ Exit \/ Kill
  BY DEF Next, Connection, Owner, Ends

LEMMA HostIs == Host \in Clients
  BY ServeClients DEF Host

\* Telling a client touches what concerns that client.
LEMMA TellsOne ==
    ASSUME Typed, NEW c \in Clients, NEW via \in Nat, Tells(c, via)
    PROVE  /\ answer' \in [Clients -> Nat] /\ answer'[c] = via
           /\ conn' \in [Clients -> {"open", "waiting", "left", "closed"}]
           /\ request' \in [Clients -> [kind : Kinds, session : Nat]]
           /\ request'[c] = IF via = NoSession THEN NoRequest ELSE request[c]
           /\ \A d \in Clients : d # c =>
                /\ answer'[d] = answer[d] /\ conn'[d] = conn[d] /\ request'[d] = request[d]
  <1>1. NoRequest \in [kind : Kinds, session : Nat]
    BY DEF NoRequest, NoSession, Kinds
  <1> QED
    BY <1>1 DEF Typed, Tells, NoSession

\* Asking touches what concerns the one that asks.
LEMMA AsksOne ==
    ASSUME Typed, NEW c \in Clients, NEW kind \in Kinds, NEW s \in Nat, Asks(c, kind, s)
    PROVE  /\ answer' \in [Clients -> Nat] /\ answer'[c] = NoSession
           /\ request' \in [Clients -> [kind : Kinds, session : Nat]]
           /\ request'[c].kind = kind /\ request'[c].session = s
           /\ \A d \in Clients : d # c => answer'[d] = answer[d] /\ request'[d] = request[d]
  BY DEF Typed, Asks, NoSession

\* A job taken is the head of the channel, and the rest stays in order.
LEMMA TakesHead ==
    ASSUME Typed, NEW c, Takes(c)
    PROVE  /\ jobs' \in Seq(Clients \cup {Shutdown})
           /\ Len(jobs) > 0 /\ jobs[1] = c /\ Len(jobs') = Len(jobs) - 1
           /\ \A m \in 1..Len(jobs') : m + 1 \in 1..Len(jobs) /\ jobs'[m] = jobs[m + 1]
           /\ working = Nobody /\ stop \in {"no", "interrupted", "told"}
  BY DEF Typed, Takes

LEMMA WithoutIs ==
    ASSUME sessions \in Seq(Nat), Distinct, NEW i \in Held
    PROVE  /\ Without(i) \in Seq(Nat) /\ Len(Without(i)) = Len(sessions) - 1
           /\ \A m, n \in 1..Len(Without(i)) : Without(i)[m] = Without(i)[n] => m = n
           /\ {Without(i)[m] : m \in 1..Len(Without(i))} = Held \ {i}
  <1> DEFINE at == CHOOSE n \in 1..Len(sessions) : sessions[n] = i
             rest == [n \in 1..(Len(sessions) - 1) |-> sessions[IF n < at THEN n ELSE n + 1]]
  <1>1. at \in 1..Len(sessions) /\ sessions[at] = i
    BY DEF Held
  <1>2. Without(i) = rest
    BY DEF Without
  <1> HIDE DEF at
  <1>3. Len(sessions) \in Nat /\ Len(sessions) - 1 \in Nat
    BY <1>1
  <1>4. \A n \in 1..(Len(sessions) - 1) :
            (IF n < at THEN n ELSE n + 1) \in 1..Len(sessions)
    BY <1>1, <1>3
  <1>5. rest \in Seq(Nat) /\ Len(rest) = Len(sessions) - 1
    BY <1>3, <1>4
  <1>6. \A m, n \in 1..Len(rest) : rest[m] = rest[n] => m = n
    BY <1>1, <1>3, <1>4, <1>5 DEF Distinct
  <1>7. \A m \in 1..Len(rest) : rest[m] \in Held \ {i}
    BY <1>1, <1>3, <1>4, <1>5 DEF Held, Distinct
  <1>8. ASSUME NEW j \in Held \ {i} PROVE \E m \in 1..Len(rest) : rest[m] = j
    <2>1. PICK n \in 1..Len(sessions) : sessions[n] = j
      BY DEF Held
    <2>2. n # at
      BY <1>1, <2>1
    <2>3. CASE n < at
      BY <1>1, <1>3, <1>5, <2>1, <2>3
    <2>4. CASE n > at
      <3>1. n - 1 \in 1..Len(rest)
        BY <1>1, <1>3, <1>5, <2>1, <2>4
      <3>2. rest[n - 1] = sessions[n]
        BY <1>1, <1>3, <1>5, <2>1, <2>4, <3>1
      <3> HIDE DEF rest
      <3> QED
        BY <2>1, <3>1, <3>2
    <2> QED
      BY <1>1, <1>3, <2>2, <2>3, <2>4
  <1>9. {rest[m] : m \in 1..Len(rest)} = Held \ {i}
    BY <1>7, <1>8
  <1> HIDE DEF rest
  <1> QED
    BY <1>2, <1>5, <1>6, <1>9

LEMMA WithoutKeepsOrder ==
    ASSUME sessions \in Seq(Nat), NEW i \in Held
    PROVE  \A m, n \in 1..Len(Without(i)) : m < n =>
             \E p, q \in 1..Len(sessions) :
                p < q /\ Without(i)[m] = sessions[p] /\ Without(i)[n] = sessions[q]
  <1> DEFINE at == CHOOSE n \in 1..Len(sessions) : sessions[n] = i
             from(n) == IF n < at THEN n ELSE n + 1
  <1>1. at \in 1..Len(sessions) /\ Len(sessions) \in Nat
    BY DEF Held
  <1>2. Without(i) = [n \in 1..(Len(sessions) - 1) |-> sessions[from(n)]]
    BY DEF Without
  <1> HIDE DEF at
  <1>3. \A n \in 1..(Len(sessions) - 1) : from(n) \in 1..Len(sessions)
    BY <1>1
  <1>4. \A m, n \in 1..(Len(sessions) - 1) : m < n => from(m) < from(n)
    BY <1>1
  <1>5. Len(Without(i)) = Len(sessions) - 1
    BY <1>1, <1>2
  <1> HIDE DEF from
  <1>6. \A n \in 1..Len(Without(i)) : Without(i)[n] = sessions[from(n)]
    BY <1>2, <1>5
  <1> QED
    BY <1>3, <1>4, <1>5, <1>6

\* Making room drops sessions from the front, one at most if there were no more
\* than there is room for.
LEMMA RoomIs ==
    ASSUME sessions \in Seq(Nat)
    PROVE  \E cut \in Nat :
             /\ cut <= Len(sessions) /\ Len(Room) = Len(sessions) - cut /\ Len(Room) < MaxSessions
             /\ \A m \in 1..Len(Room) : m + cut \in 1..Len(sessions) /\ Room[m] = sessions[m + cut]
             /\ Len(sessions) < MaxSessions => cut = 0
             /\ Len(sessions) = MaxSessions => cut = 1
  <1> DEFINE cut == IF Len(sessions) < MaxSessions THEN 0 ELSE Len(sessions) - MaxSessions + 1
  <1>1. Len(sessions) \in Nat
    OBVIOUS
  <1>2. /\ cut \in Nat /\ cut <= Len(sessions) /\ Len(sessions) - cut < MaxSessions
        /\ Len(sessions) < MaxSessions => cut = 0
        /\ Len(sessions) = MaxSessions => cut = 1
    BY <1>1, ServeConstants
  <1>3. Room = SubSeq(sessions, cut + 1, Len(sessions))
    BY <1>1, ServeConstants DEF Room
  <1> HIDE DEF cut
  <1>4. Len(Room) = Len(sessions) - cut
    BY <1>1, <1>2, <1>3
  <1>5. \A m \in 1..Len(Room) : m + cut \in 1..Len(sessions) /\ Room[m] = sessions[m + cut]
    BY <1>1, <1>2, <1>3, <1>4
  <1> QED
    BY <1>2, <1>4, <1>5

LEMMA TypedStep == Typed /\ Distinct /\ [Next]_vars => Typed'
<1> SUFFICES ASSUME Typed, Distinct, [Next]_vars PROVE Typed'
  OBVIOUS
<1>1. CASE UNCHANGED vars
  BY <1>1 DEF vars, Typed
<1>2. ASSUME NEW c \in Clients, Accept(c) \/ HangUp(c) PROVE Typed'
  BY <1>2 DEF Accept, HangUp, Typed
<1>3. ASSUME NEW c \in Clients, Refuse(c) PROVE Typed'
  <2>1. NoRequest \in [kind : Kinds, session : Nat]
    BY DEF NoRequest, NoSession, Kinds
  <2> QED
    BY <1>3, <2>1 DEF Refuse, Typed, NoSession
<1>4. ASSUME NEW c \in Clients, Post(c) PROVE Typed'
  <2>1. PICK kind \in Kinds, s \in given[c] \cup {NoSession} : Asks(c, kind, s)
    BY <1>4 DEF Post
  <2>2. s \in Nat
    BY <2>1 DEF Typed, NoSession
  <2>3. jobs' \in Seq(Clients \cup {Shutdown})
    BY <1>4 DEF Post, Typed
  <2>4. UNCHANGED <<stdio, working, sessions, minted, implied, given>>
    BY <1>4 DEF Post
  <2>5. conn' \in [Clients -> {"open", "waiting", "left", "closed"}]
    BY <1>4 DEF Post, Typed
  <2> QED
    BY <2>1, <2>2, <2>3, <2>4, <2>5, AsksOne DEF Typed
<1>5. ASSUME NEW c \in Clients, ToldOfShutdown(c) \/ AnswerLocally(c) \/ NotHeld(c) PROVE Typed'
  <2>1. Tells(c, NoSession) /\ UNCHANGED <<stdio, working, sessions, minted, implied, given>>
    BY <1>5 DEF ToldOfShutdown, AnswerLocally, NotHeld
  <2>2. jobs' \in Seq(Clients \cup {Shutdown})
    BY <1>5, TakesHead DEF ToldOfShutdown, AnswerLocally, NotHeld, Typed
  <2> QED
    BY <2>1, <2>2, TellsOne DEF Typed, NoSession
<1>6. ASSUME NEW c \in Clients, Relay(c) PROVE Typed'
  <2>1. sessions' \in Seq(Nat)
    BY <1>6, WithoutIs DEF Relay, Touched, Typed
  <2> QED
    BY <1>6, <2>1, TakesHead DEF Relay, Typed
<1>7. ASSUME NEW c \in Clients, Close(c) PROVE Typed'
  <2>1. sessions' \in Seq(Nat)
    BY <1>7, WithoutIs DEF Close, Typed
  <2>2. Tells(c, NoSession) /\ UNCHANGED <<stdio, working, minted, implied, given>>
    BY <1>7 DEF Close
  <2> QED
    BY <1>7, <2>1, <2>2, TellsOne, TakesHead DEF Close, Typed, NoSession
<1>8. ASSUME NEW c \in Clients, MakeRoom(c) PROVE Typed'
  <2>1. Room \in Seq(Nat)
    BY ServeConstants DEF Room, Typed
  <2> QED
    BY <1>8, <2>1, TakesHead DEF MakeRoom, Typed
<1>9. CASE Open
  <2>1. minted' = minted + 1 /\ working \in Clients
    BY <1>9 DEF Open, Typed
  <2>2. sessions' \in Seq(Nat) /\ minted' \in Nat /\ implied' \in Nat /\ working' = Nobody
    BY <1>9, <2>1 DEF Open, Typed
  <2>3. given' \in [Clients -> SUBSET Nat]
    BY <1>9, <2>1 DEF Open, Typed
  <2>4. Tells(working, minted') /\ UNCHANGED <<stdio, jobs>>
    BY <1>9 DEF Open
  <2> QED
    BY <2>1, <2>2, <2>3, <2>4, TellsOne DEF Typed
<1>10. CASE Respond
  <2>1. working \in Clients
    BY <1>10 DEF Respond, Typed
  <2>2. PICK via \in Nat : Tells(working, via)
    BY <1>10, <2>1 DEF Respond, Typed, NoSession
  <2> QED
    BY <1>10, <2>1, <2>2, TellsOne DEF Respond, Typed
<1>11. CASE OwnerEnds
  BY <1>11, TakesHead DEF OwnerEnds, Typed
<1>12. CASE HostAsks
  <2>1. PICK kind \in Kinds : Asks(Host, kind, implied)
    BY <1>12 DEF HostAsks
  <2>2. /\ conn' \in [Clients -> {"open", "waiting", "left", "closed"}]
        /\ UNCHANGED <<stdio, working, sessions, minted, implied, given>>
    BY <1>12 DEF HostAsks, Typed
  <2>3. jobs' \in Seq(Clients \cup {Shutdown})
    BY <1>12, HostIs DEF HostAsks
  <2>4. /\ answer' \in [Clients -> Nat]
        /\ request' \in [Clients -> [kind : Kinds, session : Nat]]
    BY <2>1, HostIs, AsksOne DEF Typed
  <2> QED
    BY <2>2, <2>3, <2>4 DEF Typed
<1>13. CASE HostEnds \/ Interrupt \/ Exit \/ Kill
  <2>1. sessions' = sessions \/ sessions' = <<>>
    BY <1>13 DEF HostEnds, Interrupt, Exit, Kill
  <2>2. UNCHANGED <<stdio, conn, request, answer, jobs, working, minted, implied, given>>
    BY <1>13 DEF HostEnds, Interrupt, Exit, Kill
  <2>3. sessions' \in Seq(Nat)
    <3>1. <<>> \in Seq(Nat) /\ sessions \in Seq(Nat)
      BY DEF Typed
    <3> QED
      BY <2>1, <3>1
  <2> QED
    BY <2>2, <2>3 DEF Typed
<1>14. CASE TellOwner
  BY <1>14 DEF TellOwner, Typed
<1> QED
  BY <1>1, <1>2, <1>3, <1>4, <1>5, <1>6, <1>7, <1>8, <1>9, <1>10, <1>11, <1>12, <1>13, <1>14, Cases

-----------------------------------------------------------------------------
(* Answers.                                                                *)

LEMMA OwnStep == OwnInv /\ Distinct /\ [Next]_vars => OwnInv'
<1> SUFFICES ASSUME OwnInv, Distinct, [Next]_vars
             PROVE  Alone' /\ NamesItsOwn' /\ AnswersAreOwn'
  BY TypedStep DEF OwnInv
<1> USE DEF OwnInv, Alone, NamesItsOwn, AnswersAreOwn
<1> DEFINE Goal == Alone' /\ NamesItsOwn' /\ AnswersAreOwn'
<1>0. Typed'
  BY TypedStep
<1>1. CASE UNCHANGED vars
  BY <1>1 DEF vars
<1>2. ASSUME NEW c \in Clients, Accept(c) \/ HangUp(c) PROVE Goal
  BY <1>2 DEF Accept, HangUp
<1>3. ASSUME NEW c \in Clients, Refuse(c) PROVE Goal
  <2>1. /\ answer'[c] = NoSession /\ request'[c] = NoRequest
        /\ \A d \in Clients : d # c => answer'[d] = answer[d] /\ request'[d] = request[d]
        /\ UNCHANGED <<stdio, jobs, working, implied, given>>
    BY <1>3 DEF Refuse, Typed
  <2> QED
    BY <2>1 DEF NoRequest
<1>4. ASSUME NEW c \in Clients, Post(c) PROVE Goal
  <2>1. PICK kind \in Kinds, s \in given[c] \cup {NoSession} : Asks(c, kind, s)
    BY <1>4 DEF Post
  <2>2. s \in Nat
    BY <2>1 DEF Typed, NoSession
  <2>3. /\ answer'[c] = NoSession /\ request'[c].session = s
        /\ \A d \in Clients : d # c => answer'[d] = answer[d] /\ request'[d] = request[d]
    BY <2>1, <2>2, AsksOne
  <2>4. ~stdio /\ ~stdio' /\ UNCHANGED given
    BY <1>4 DEF Post
  <2> QED
    BY <2>1, <2>3, <2>4
<1>5. ASSUME NEW c \in Clients, Tells(c, NoSession), UNCHANGED <<stdio, working, implied, given>>,
             jobs' = jobs \/ Takes(c)
      PROVE  Goal
  <2>1. /\ answer'[c] = NoSession /\ request'[c] = NoRequest
        /\ \A d \in Clients : d # c => answer'[d] = answer[d] /\ request'[d] = request[d]
    BY <1>5, TellsOne DEF NoSession
  <2>2. NamesItsOwn' /\ AnswersAreOwn'
    BY <1>5, <2>1 DEF NoRequest
  <2>3. Alone'
    BY <1>5, TakesHead
  <2> QED
    BY <2>2, <2>3
<1>6. ASSUME NEW c \in Clients, Relay(c) \/ MakeRoom(c) PROVE Goal
  <2>1. /\ Takes(c) /\ working' = c
        /\ UNCHANGED <<stdio, request, answer, implied, given>>
    BY <1>6 DEF Relay, MakeRoom
  <2>2. Alone'
    BY <2>1, TakesHead
  <2> QED
    BY <2>1, <2>2
<1>7. CASE Open
  <2>1. /\ working \in Clients /\ request[working].kind = "initialize"
        /\ minted' = minted + 1 /\ minted' # NoSession /\ minted' \in Nat
        /\ working' = Nobody /\ Tells(working, minted') /\ UNCHANGED <<stdio, jobs>>
    BY <1>7 DEF Open, Typed, NoSession
  <2>2. given'[working] = given[working] \cup {minted'}
        /\ \A d \in Clients : d # working => given'[d] = given[d]
    BY <1>7, <2>1 DEF Open, Typed
  <2>3. /\ answer'[working] = minted' /\ request'[working] = request[working]
        /\ \A d \in Clients : d # working => answer'[d] = answer[d] /\ request'[d] = request[d]
    BY <2>1, TellsOne
  <2>4. NamesItsOwn' /\ AnswersAreOwn'
    BY <2>1, <2>2, <2>3
  <2>5. stdio => working = Host /\ implied' = minted'
    BY <1>7, <2>1 DEF Open
  <2>6. Alone'
    BY <2>1, <2>2, <2>5, ServeClients
  <2> QED
    BY <2>4, <2>6
<1>8. CASE Respond
  <2>1. working \in Clients /\ working' = Nobody /\ UNCHANGED <<stdio, jobs, implied, given>>
    BY <1>8 DEF Respond, Typed
  <2> DEFINE via == IF request[working].kind = "initialize" THEN NoSession
                    ELSE request[working].session
  <2>2. via \in Nat /\ Tells(working, via)
    BY <1>8, <2>1 DEF Respond, Typed, NoSession
  <2>3. /\ answer'[working] = via
        /\ request'[working] = IF via = NoSession THEN NoRequest ELSE request[working]
        /\ \A d \in Clients : d # working => answer'[d] = answer[d] /\ request'[d] = request[d]
    BY <2>1, <2>2, TellsOne
  <2>4. NamesItsOwn' /\ AnswersAreOwn'
    BY <2>1, <2>3 DEF NoRequest
  <2>5. Alone'
    BY <2>1, ServeClients
  <2> QED
    BY <2>4, <2>5
<1>9. CASE OwnerEnds
  BY <1>9, TakesHead DEF OwnerEnds
<1>10. CASE HostAsks
  <2>1. PICK kind \in Kinds : Asks(Host, kind, implied)
    BY <1>10 DEF HostAsks
  <2>2. /\ stdio /\ jobs' = <<Host>> /\ UNCHANGED <<stdio, working, implied, given>>
    BY <1>10 DEF HostAsks
  <2>3. /\ answer'[Host] = NoSession /\ request'[Host].session = implied
        /\ \A d \in Clients : d # Host => answer'[d] = answer[d] /\ request'[d] = request[d]
    BY <2>1, HostIs, AsksOne DEF Typed
  <2> QED
    BY <2>2, <2>3, HostIs
<1>11. CASE HostEnds \/ Interrupt \/ Exit \/ Kill
  BY <1>11 DEF HostEnds, Interrupt, Exit, Kill
<1>12. CASE TellOwner
  <2>1. /\ Shutdown \notin Clients
        /\ \A m \in 1..Len(jobs') : jobs'[m] = Shutdown \/ (m \in 1..Len(jobs) /\ jobs'[m] = jobs[m])
    BY <1>12, ServeClients DEF TellOwner, Typed
  <2> QED
    BY <1>12, <2>1 DEF TellOwner
<1> QED
  BY <1>1, <1>2, <1>3, <1>4, <1>5, <1>6, <1>7, <1>8, <1>9, <1>10, <1>11, <1>12, Cases
     DEF ToldOfShutdown, AnswerLocally, NotHeld, Close

-----------------------------------------------------------------------------
(* Sessions.                                                               *)

LEMMA QueuedStep ==
    ASSUME Typed, Queued, Idle, [Next]_vars
    PROVE  Queued' /\ Idle'
<1> USE DEF Queued, Idle, Waits
<1> DEFINE Goal == Queued' /\ Idle'
<1>0. Nobody \notin Clients /\ Shutdown \notin Clients
  BY ServeClients
<1>1. CASE UNCHANGED vars
  BY <1>1 DEF vars
<1>2. ASSUME NEW c \in Clients, Accept(c) \/ HangUp(c) PROVE Goal
  <2>1. /\ \A d \in Clients : Waits(d) => Waits(d)'
        /\ UNCHANGED <<jobs, working, stop>>
    BY <1>2 DEF Accept, HangUp, Typed
  <2> QED
    BY <2>1
<1>3. ASSUME NEW c \in Clients, Refuse(c) PROVE Goal
  <2>1. /\ ~Waits(c) /\ \A d \in Clients : d # c => conn'[d] = conn[d]
        /\ UNCHANGED <<jobs, working, stop>>
    BY <1>3 DEF Refuse, Typed
  <2> QED
    BY <2>1
<1>4. ASSUME NEW c \in Clients, Post(c) PROVE Goal
  <2>1. /\ ~Waits(c) /\ conn'[c] = "waiting" /\ \A d \in Clients : d # c => conn'[d] = conn[d]
        /\ UNCHANGED <<working, stop>>
    BY <1>4 DEF Post, Typed
  <2>2. CASE stop \in {"no", "interrupted", "told"}
    <3>1. /\ Len(jobs') = Len(jobs) + 1 /\ jobs'[Len(jobs) + 1] = c
          /\ \A m \in 1..Len(jobs) : jobs'[m] = jobs[m]
      BY <1>4, <2>2 DEF Post, Typed
    <3>2. \A m \in 1..Len(jobs) : jobs[m] # c
      BY <2>1, <2>2
    <3>3. Len(jobs) \in Nat
      BY DEF Typed
    <3>4. c # working
      BY <2>1, <2>2
    <3> QED
      BY <2>1, <2>2, <3>1, <3>2, <3>3, <3>4
  <2>3. CASE stop \notin {"no", "interrupted", "told"}
    BY <2>1, <2>3
  <2> QED
    BY <2>2, <2>3
<1>5. ASSUME NEW c \in Clients, ToldOfShutdown(c) PROVE Goal
  BY <1>5 DEF ToldOfShutdown
<1>6. ASSUME NEW c \in Clients, Takes(c), Tells(c, NoSession), UNCHANGED <<working, stop>>
      PROVE  Goal
  <2>1. \A d \in Clients : d # c => conn'[d] = conn[d]
    BY <1>6, TellsOne DEF NoSession
  <2>2. \A m \in 1..Len(jobs') : jobs'[m] # c
    <3>1. Len(jobs) \in Nat /\ Len(jobs') \in Nat
      BY <1>6, TakesHead DEF Typed
    <3> QED
      BY <1>6, <3>1, TakesHead
  <2>3. \A m \in 1..Len(jobs') : m + 1 \in 1..Len(jobs) /\ jobs'[m] = jobs[m + 1]
    BY <1>6, TakesHead
  <2>4. \A m, n \in 1..Len(jobs') : jobs'[m] \in Clients /\ jobs'[m] = jobs'[n] => m = n
    BY <1>6, <2>3, TakesHead
  <2> QED
    BY <1>6, <2>1, <2>2, <2>3, <2>4, TakesHead, <1>0
<1>7. ASSUME NEW c \in Clients, Relay(c) \/ MakeRoom(c) PROVE Goal
  <2>1. Takes(c) /\ working' = c /\ UNCHANGED <<conn, stop>>
    BY <1>7 DEF Relay, MakeRoom
  <2>2. Waits(c)
    <3>1. 1 \in 1..Len(jobs) /\ jobs[1] = c
      BY <2>1, TakesHead DEF Typed
    <3> QED
      BY <2>1, <3>1, TakesHead
  <2>3. \A m \in 1..Len(jobs') : jobs'[m] # c
    <3>1. Len(jobs) \in Nat /\ Len(jobs') \in Nat
      BY <2>1, TakesHead DEF Typed
    <3> QED
      BY <2>1, <3>1, TakesHead
  <2>4. \A m \in 1..Len(jobs') : m + 1 \in 1..Len(jobs) /\ jobs'[m] = jobs[m + 1]
    BY <2>1, TakesHead
  <2>5. \A m, n \in 1..Len(jobs') : jobs'[m] \in Clients /\ jobs'[m] = jobs'[n] => m = n
    BY <2>1, <2>4, TakesHead
  <2> QED
    BY <2>1, <2>2, <2>3, <2>4, <2>5, TakesHead
<1>8. ASSUME NEW via \in Nat, working \in Clients, Tells(working, via), working' = Nobody,
             UNCHANGED <<jobs, stop>>
      PROVE  Goal
  <2>1. \A d \in Clients : d # working => conn'[d] = conn[d]
    BY <1>8, TellsOne
  <2> QED
    BY <1>0, <1>8, <2>1
<1>9. CASE Open
  <2>1. working \in Clients /\ minted' = minted + 1 /\ minted' \in Nat
    BY <1>9 DEF Open, Typed
  <2> QED
    BY <1>8, <1>9, <2>1 DEF Open
<1>10. CASE Respond
  <2>1. working \in Clients
    BY <1>10 DEF Respond, Typed
  <2>2. PICK via \in Nat : Tells(working, via)
    BY <1>10, <2>1 DEF Respond, Typed, NoSession
  <2> QED
    BY <1>8, <1>10, <2>1, <2>2 DEF Respond
<1>11. CASE OwnerEnds
  BY <1>11, TakesHead DEF OwnerEnds
<1>12. CASE HostAsks
  <2>1. /\ ~Waits(Host) /\ conn'[Host] = "waiting"
        /\ \A d \in Clients : d # Host => conn'[d] = conn[d]
        /\ jobs' = <<Host>> /\ stop = "no" /\ UNCHANGED <<working, stop>>
    BY <1>12, HostIs DEF HostAsks, Typed
  <2>2. Host # working
    BY <2>1, HostIs
  <2> QED
    BY <2>1, <2>2, HostIs
<1>13. CASE HostEnds \/ Interrupt \/ Exit \/ Kill
  BY <1>13 DEF HostEnds, Interrupt, Exit, Kill
<1>14. CASE TellOwner
  <2>1. /\ Len(jobs') = Len(jobs) + 1 /\ jobs'[Len(jobs) + 1] = Shutdown /\ Len(jobs) \in Nat
        /\ \A m \in 1..Len(jobs) : jobs'[m] = jobs[m]
        /\ stop = "interrupted" /\ stop' = "told" /\ UNCHANGED <<conn, working>>
    BY <1>14 DEF TellOwner, Typed
  <2> QED
    BY <1>0, <2>1
<1> QED
  BY <1>1, <1>2, <1>3, <1>4, <1>5, <1>6, <1>7, <1>9, <1>10, <1>11, <1>12, <1>13, <1>14, Cases
     DEF AnswerLocally, NotHeld, Close

\* What becomes of the map: nothing, a session used, ended, opened, or making
\* room for one.
LEMMA SessionsStep ==
    ASSUME Typed, Queued, Idle, Distinct, Bounded, Reached, [Next]_vars
    PROVE  Distinct' /\ Bounded' /\ Reached'
<1> USE ServeConstants
<1> DEFINE Goal == Distinct' /\ Bounded' /\ Reached'
<1>0. Nobody \notin Clients /\ Shutdown \notin Clients /\ Len(sessions) \in Nat
  BY ServeClients DEF Typed
\* Nothing becomes of it, and no other request is being worked on.
<1>1. ASSUME UNCHANGED <<sessions, upstream, minted, working>>,
             working \in Clients => request'[working] = request[working],
             stop' \in {"ended", "exited"} => stop \in {"ended", "exited"}
      PROVE  Goal
  BY <1>1 DEF Distinct, Bounded, Reached, Held
<1>2. CASE UNCHANGED vars
  BY <1>1, <1>2 DEF vars
<1>3. ASSUME NEW c \in Clients, Accept(c) \/ HangUp(c) PROVE Goal
  BY <1>1, <1>3 DEF Accept, HangUp
<1>4. ASSUME NEW c \in Clients, Refuse(c) PROVE Goal
  <2>1. UNCHANGED <<sessions, upstream, minted, working, stop>>
    BY <1>4 DEF Refuse
  <2>2. /\ request'[c].kind # "initialize"
        /\ \A d \in Clients : d # c => request'[d] = request[d]
    BY <1>4 DEF Refuse, Typed, NoRequest
  <2> QED
    BY <2>1, <2>2 DEF Distinct, Bounded, Reached, Held
<1>5. ASSUME NEW c \in Clients, Post(c) PROVE Goal
  <2>1. c # working
    BY <1>0, <1>4, <1>5 DEF Post, Asks, Alive, Queued, Idle, Waits
  <2>2. \A d \in Clients : d # c => request'[d] = request[d]
    BY <1>5 DEF Post, Asks, Typed
  <2> QED
    BY <1>1, <1>5, <2>1, <2>2 DEF Post
<1>6. ASSUME NEW c \in Clients, ToldOfShutdown(c) \/ AnswerLocally(c) \/ NotHeld(c) PROVE Goal
  <2>1. working = Nobody /\ UNCHANGED <<sessions, upstream, minted, working, stop>>
    BY <1>6, TakesHead DEF ToldOfShutdown, AnswerLocally, NotHeld, Idle
  <2> QED
    BY <1>0, <1>1, <2>1
<1>7. ASSUME NEW c \in Clients, Relay(c) PROVE Goal
  <2> DEFINE i == request[c].session
             rest == Without(i)
  <2>1. i \in Held /\ request[c].kind # "initialize"
    BY <1>7 DEF Relay
  <2>2. /\ sessions' = Append(rest, i) /\ working' = c
        /\ UNCHANGED <<request, upstream, minted, stop>>
    BY <1>7 DEF Relay, Touched
  <2>3. /\ rest \in Seq(Nat) /\ Len(rest) = Len(sessions) - 1
        /\ \A m, n \in 1..Len(rest) : rest[m] = rest[n] => m = n
        /\ {rest[m] : m \in 1..Len(rest)} = Held \ {i}
    BY <2>1, WithoutIs DEF Typed
  <2>4. i \in Nat /\ \A j \in Held : j \in Nat /\ j <= minted
    BY <2>1 DEF Typed, Distinct, Held
  <2> HIDE DEF i, rest
  <2>5. /\ Len(sessions') = Len(sessions) /\ sessions'[Len(sessions)] = i
        /\ \A m \in 1..Len(rest) : sessions'[m] = rest[m] /\ rest[m] \in Held \ {i}
    BY <1>0, <2>2, <2>3, <2>4
  <2>6. Held' = Held
    <3>1. \A m \in 1..Len(sessions') : sessions'[m] \in Held
      BY <1>0, <2>1, <2>3, <2>5
    <3>2. ASSUME NEW j \in Held PROVE \E m \in 1..Len(sessions') : sessions'[m] = j
      <4>1. CASE j = i
        <5>1. Len(sessions) \in 1..Len(sessions')
          BY <1>0, <2>1, <2>5 DEF Held
        <5> QED
          BY <2>5, <4>1, <5>1
      <4>2. CASE j # i
        <5>1. PICK m \in 1..Len(rest) : rest[m] = j
          BY <2>3, <4>2
        <5>2. m \in 1..Len(sessions')
          BY <1>0, <2>3, <2>5
        <5> QED
          BY <2>5, <5>1, <5>2
      <4> QED
        BY <4>1, <4>2
    <3> QED
      BY <3>1, <3>2 DEF Held
  <2>7. Distinct'
    <3>1. \A m \in 1..Len(sessions') : m = Len(sessions) \/ m \in 1..Len(rest)
      BY <1>0, <2>3, <2>5
    <3>2. \A m \in 1..Len(sessions') : sessions'[m] <= minted'
      BY <2>1, <2>2, <2>4, <2>5, <3>1
    <3>3. \A m, n \in 1..Len(sessions') : sessions'[m] = sessions'[n] => m = n
      BY <2>3, <2>5, <3>1
    <3> QED
      BY <3>2, <3>3 DEF Distinct
  <2>8. Bounded'
    BY <2>1, <2>2, <2>5 DEF Bounded
  <2>9. Reached'
    BY <1>7, <2>2, <2>6, TakesHead DEF Reached, Relay
  <2> QED
    BY <2>7, <2>8, <2>9
<1>8. ASSUME NEW c \in Clients, Close(c) PROVE Goal
  <2> DEFINE i == request[c].session
             rest == Without(i)
  <2>1. i \in Held /\ sessions' = rest /\ upstream' = upstream \ {i} /\ working' = Nobody
        /\ UNCHANGED <<minted, stop>>
    BY <1>8, TakesHead DEF Close
  <2>2. /\ rest \in Seq(Nat) /\ Len(rest) = Len(sessions) - 1
        /\ \A m, n \in 1..Len(rest) : rest[m] = rest[n] => m = n
        /\ {rest[m] : m \in 1..Len(rest)} = Held \ {i}
    BY <2>1, WithoutIs DEF Typed
  <2> HIDE DEF i, rest
  <2>3. Held' = Held \ {i}
    BY <2>1, <2>2 DEF Held
  <2>4. Distinct'
    <3>1. \A j \in Held : j <= minted
      BY DEF Held, Distinct
    <3>2. \A m \in 1..Len(rest) : rest[m] \in Held
      BY <2>2
    <3>3. \A m \in 1..Len(rest) : rest[m] <= minted
      BY <3>1, <3>2
    <3> QED
      BY <2>1, <2>2, <3>3 DEF Distinct
  <2>5. Bounded'
    BY <1>0, <2>1, <2>2 DEF Bounded
  <2>6. Reached'
    BY <1>8, <2>1, <2>3, TakesHead DEF Reached, Close
  <2> QED
    BY <2>4, <2>5, <2>6
<1>9. ASSUME NEW c \in Clients, MakeRoom(c) PROVE Goal
  <2>1. /\ sessions' = Room /\ upstream' = {Room[m] : m \in 1..Len(Room)}
        /\ UNCHANGED <<minted, stop>>
    BY <1>9 DEF MakeRoom
  <2>2. PICK cut \in Nat :
            /\ cut <= Len(sessions) /\ Len(Room) = Len(sessions) - cut /\ Len(Room) < MaxSessions
            /\ \A m \in 1..Len(Room) : m + cut \in 1..Len(sessions) /\ Room[m] = sessions[m + cut]
    BY RoomIs DEF Typed
  <2>3. Distinct'
    <3>1. \A m \in 1..Len(Room) : Room[m] <= minted
      BY <2>2 DEF Distinct
    <3>2. \A m, n \in 1..Len(Room) : Room[m] = Room[n] => m + cut = n + cut
      BY <2>2 DEF Distinct
    <3>3. \A m, n \in 1..Len(Room) : m + cut = n + cut => m = n
      BY <2>2
    <3> QED
      BY <2>1, <3>1, <3>2, <3>3 DEF Distinct
  <2>4. Bounded'
    BY <2>1, <2>2 DEF Bounded
  <2>5. Reached'
    BY <1>9, <2>1, TakesHead DEF Reached, Held, MakeRoom
  <2> QED
    BY <2>3, <2>4, <2>5
<1>10. CASE Alive /\ Open
  <2>1. /\ working \in Clients /\ Len(sessions) < MaxSessions
        /\ minted' = minted + 1 /\ minted \in Nat
        /\ sessions' = Append(sessions, minted') /\ upstream' = upstream \cup {minted'}
        /\ working' = Nobody /\ stop' = stop /\ stop \notin {"ended", "exited"}
    BY <1>10 DEF Open, Alive, Typed, Bounded, Idle
  <2>2. /\ Len(sessions') = Len(sessions) + 1 /\ sessions'[Len(sessions) + 1] = minted'
        /\ \A m \in 1..Len(sessions) : sessions'[m] = sessions[m] /\ sessions[m] \in Nat
    BY <2>1 DEF Typed
  <2>3. \A m \in 1..Len(sessions') : m = Len(sessions) + 1 \/ m \in 1..Len(sessions)
    BY <1>0, <2>2
  <2>4. Distinct'
    <3>1. \A m \in 1..Len(sessions) : sessions[m] < minted'
      BY <2>1, <2>2 DEF Distinct
    <3>2. \A m \in 1..Len(sessions') : sessions'[m] <= minted'
      BY <2>1, <2>2, <2>3, <3>1
    <3>3. \A m, n \in 1..Len(sessions') : sessions'[m] = sessions'[n] => m = n
      BY <2>1, <2>2, <2>3, <3>1 DEF Distinct
    <3> QED
      BY <3>2, <3>3 DEF Distinct
  <2>5. Bounded'
    BY <1>0, <2>1, <2>2 DEF Bounded
  <2>6. Held' = Held \cup {minted'}
    <3>1. \A m \in 1..Len(sessions') : sessions'[m] \in Held \cup {minted'}
      BY <2>2, <2>3 DEF Held
    <3>2. ASSUME NEW j \in Held PROVE \E m \in 1..Len(sessions') : sessions'[m] = j
      <4>1. PICK m \in 1..Len(sessions) : sessions[m] = j
        BY DEF Held
      <4>2. m \in 1..Len(sessions')
        BY <1>0, <2>2
      <4> QED
        BY <2>2, <4>1, <4>2
    <3>3. Len(sessions) + 1 \in 1..Len(sessions')
      BY <1>0, <2>2
    <3> QED
      BY <2>2, <3>1, <3>2, <3>3 DEF Held
  <2>7. Reached'
    BY <2>1, <2>6 DEF Reached
  <2> QED
    BY <2>4, <2>5, <2>7
<1>11. CASE Respond
  <2>1. working' = Nobody /\ UNCHANGED <<sessions, upstream, minted, stop>>
    BY <1>11 DEF Respond
  <2> QED
    BY <1>0, <2>1 DEF Distinct, Bounded, Reached, Held
<1>12. CASE OwnerEnds
  <2>1. working' = Nobody /\ sessions' = <<>> /\ upstream' = {}
    BY <1>12, TakesHead DEF OwnerEnds
  <2> QED
    BY <1>0, <2>1 DEF Distinct, Bounded, Reached, Held
<1>13. CASE HostAsks
  <2>1. Host # working
    BY <1>13, HostIs DEF HostAsks, Queued, Waits
  <2>2. \A d \in Clients : d # Host => request'[d] = request[d]
    BY <1>13 DEF HostAsks, Asks, Typed
  <2> QED
    BY <1>1, <1>13, <2>1, <2>2 DEF HostAsks
<1>14. CASE HostEnds
  <2>1. sessions' = <<>> /\ upstream' = {}
    BY <1>14 DEF HostEnds
  <2> QED
    BY <2>1 DEF Distinct, Bounded, Reached, Held
<1>15. CASE Interrupt \/ TellOwner \/ Exit \/ Kill
  BY <1>1, <1>15 DEF Interrupt, TellOwner, Exit, Kill
<1> QED
  BY <1>2, <1>3, <1>4, <1>5, <1>6, <1>7, <1>8, <1>9, <1>10, <1>11, <1>12, <1>13, <1>14, <1>15, Cases

-----------------------------------------------------------------------------
LEMMA InitInv == Init => Inv
<1> SUFFICES ASSUME Init PROVE Inv
  OBVIOUS
<1>1. NoRequest \in [kind : Kinds, session : Nat]
  BY DEF NoRequest, NoSession, Kinds
<1>2. sessions \in Seq(Nat) /\ jobs \in Seq(Clients \cup {Shutdown})
  BY DEF Init
<1>3. Typed
  BY <1>1, <1>2 DEF Init, Typed, NoSession
<1>4. Alone /\ NamesItsOwn /\ AnswersAreOwn
  BY ServeClients DEF Init, Alone, NamesItsOwn, AnswersAreOwn, NoRequest, NoSession
<1>5. Queued /\ Idle
  BY ServeClients DEF Init, Queued, Idle
<1>6. Distinct /\ Bounded /\ Reached
  BY ServeClients, ServeConstants DEF Init, Distinct, Bounded, Reached, Held
<1> QED
  BY <1>3, <1>4, <1>5, <1>6 DEF Inv, OwnInv

LEMMA InvStep == Inv /\ [Next]_vars => Inv'
  BY OwnStep, QueuedStep, SessionsStep DEF Inv, OwnInv

LEMMA InvHolds == Spec => []Inv
  BY InitInv, InvStep, PTL DEF Spec

(* Every answer reaches the client that asked, through a session it was    *)
(* given itself, whatever others ask, end or abandon meanwhile (Proxy).    *)
THEOREM AnswersReachTheirs == Spec => []AnswersAreOwn
<1>1. Inv => AnswersAreOwn
  BY DEF Inv, OwnInv
<1> QED
  BY <1>1, InvHolds, PTL

(* The server never holds more sessions open than MAX_SESSIONS, none that  *)
(* the map cannot reach, and none once the process has ended well (Proxy,  *)
(* make_room, run).                                                        *)
THEOREM NothingLeaks == Spec => []NoSessionLeaks
<1>1. Inv => NoSessionLeaks
  <2> SUFFICES ASSUME Inv PROVE NoSessionLeaks
    OBVIOUS
  <2>1. Len(sessions) \in Nat /\ Len(sessions) <= MaxSessions /\ upstream = Held
    BY DEF Inv, OwnInv, Typed, Bounded, Reached
  <2>2. IsFiniteSet(1..Len(sessions)) /\ Cardinality(1..Len(sessions)) = Len(sessions)
    <3>1. 1 \in Int /\ Len(sessions) \in Int
      BY <2>1
    <3>2. /\ IsFiniteSet(1..Len(sessions))
          /\ Cardinality(1..Len(sessions)) = IF 1 > Len(sessions) THEN 0 ELSE Len(sessions) - 1 + 1
      BY <3>1, FS_Interval
    <3> QED
      BY <2>1, <3>2
  <2>3. [m \in 1..Len(sessions) |-> sessions[m]] \in Surjection(1..Len(sessions), Held)
    BY DEF Surjection, Held
  <2>4. IsFiniteSet(Held) /\ Cardinality(Held) <= Len(sessions)
    BY <2>2, <2>3, FS_Surjection
  <2>5. Cardinality(Held) \in Nat
    BY <2>4, FS_CardinalityType
  <2>6. Cardinality(upstream) <= MaxSessions
    BY <2>1, <2>4, <2>5, ServeConstants
  <2>7. stop = "exited" => upstream = {}
    BY <2>1 DEF Inv, Reached, Held
  <2> QED
    BY <2>1, <2>6, <2>7 DEF NoSessionLeaks
<1> QED
  BY <1>1, InvHolds, PTL

-----------------------------------------------------------------------------
(* The ids and the order of the map.                                       *)

Pending == {c \in Clients : Waits(c)}

(* Each request is worth one id at most, and one client makes one at a     *)
(* time.                                                                   *)
Counted ==
    /\ IsFiniteSet(Pending) /\ turns \in Nat /\ turns <= MaxTurns
    /\ minted + Cardinality(Pending) <= turns

(* What is held, given or implied has been minted.                         *)
Known ==
    /\ Held \subseteq 1..minted
    /\ \A c \in Clients : given[c] \subseteq 1..minted
    /\ implied \in 0..minted
    /\ since \in [Ids -> SUBSET Ids]

(* Of two sessions in the map the later one was used or opened since the   *)
(* earlier one was last used.                                              *)
Ordered ==
    \A m, n \in 1..Len(sessions) : m < n => sessions[n] \in since[sessions[m]]

OrderInv == Inv /\ Counted /\ Known /\ Ordered

\* Who is told waits no more.
LEMMA ToldWaitsNoMore ==
    ASSUME Typed, NEW c \in Clients, NEW via \in Nat, Tells(c, via)
    PROVE  Pending' = Pending \ {c}
  <1>1. conn'[c] \in {"open", "closed"} /\ \A d \in Clients : d # c => conn'[d] = conn[d]
    BY DEF Typed, Tells
  <1> QED
    BY <1>1 DEF Pending, Waits

LEMMA CountedStep == Inv /\ Counted /\ [Next]_vars => Counted'
<1> SUFFICES ASSUME Inv, Counted, [Next]_vars PROVE Counted'
  OBVIOUS
<1> USE ServeConstants
<1>0. Typed /\ Queued /\ Idle /\ Typed'
  BY InvStep DEF Inv, OwnInv
<1>n. minted \in Nat /\ turns \in Nat /\ Cardinality(Pending) \in Nat
  BY <1>0, FS_CardinalityType DEF Typed, Counted
<1>1. ASSUME Pending' = Pending, UNCHANGED <<minted, turns>> PROVE Counted'
  BY <1>1 DEF Counted
<1>2. ASSUME NEW c \in Clients, Pending' = Pending \cup {c}, turns' = turns + 1,
             turns < MaxTurns, UNCHANGED minted
      PROVE  Counted'
  <2>1. /\ IsFiniteSet(Pending')
        /\ Cardinality(Pending') = IF c \in Pending THEN Cardinality(Pending) ELSE Cardinality(Pending) + 1
    BY <1>2, FS_AddElement DEF Counted
  <2> QED
    BY <1>n, <1>2, <2>1 DEF Counted
<1>3. ASSUME NEW c \in Clients, NEW via \in Nat, Tells(c, via), UNCHANGED turns,
             minted' = minted \/ (minted' = minted + 1 /\ Waits(c))
      PROVE  Counted'
  <2>1. Pending' = Pending \ {c}
    BY <1>0, <1>3, ToldWaitsNoMore
  <2>2. /\ IsFiniteSet(Pending')
        /\ Cardinality(Pending') = IF c \in Pending THEN Cardinality(Pending) - 1 ELSE Cardinality(Pending)
    BY <2>1, FS_RemoveElement DEF Counted
  <2>3. Waits(c) => c \in Pending
    BY DEF Pending
  <2> QED
    BY <1>n, <1>3, <2>2, <2>3 DEF Counted
<1>4. ASSUME NEW c \in Clients, Accept(c) \/ HangUp(c) \/ Refuse(c) PROVE Counted'
  <2>1. /\ \A d \in Clients : d # c => conn'[d] = conn[d]
        /\ Waits(c)' <=> Waits(c)
    BY <1>0, <1>4 DEF Accept, HangUp, Refuse, Typed, Waits
  <2>2. Pending' = Pending
    BY <2>1 DEF Pending, Waits
  <2> QED
    BY <1>1, <1>4, <2>2 DEF Accept, HangUp, Refuse
<1>5. ASSUME NEW c \in Clients, conn' = [conn EXCEPT ![c] = "waiting"] PROVE Pending' = Pending \cup {c}
  BY <1>0, <1>5 DEF Typed, Pending, Waits
<1>6. ASSUME NEW c \in Clients, Post(c) PROVE Counted'
  <2>1. Pending' = Pending \cup {c} /\ UNCHANGED minted
    BY <1>5, <1>6 DEF Post
  <2>2. turns < MaxTurns /\ turns' = turns + 1
    BY <1>6 DEF Post, Asks
  <2> QED
    BY <1>2, <2>1, <2>2
<1>7. CASE HostAsks
  <2>1. Pending' = Pending \cup {Host} /\ UNCHANGED minted
    BY <1>5, <1>7, HostIs DEF HostAsks
  <2>2. turns < MaxTurns /\ turns' = turns + 1
    BY <1>7 DEF HostAsks, Asks
  <2> QED
    BY <1>2, <2>1, <2>2, HostIs
<1>8. ASSUME NEW c \in Clients, ToldOfShutdown(c) \/ AnswerLocally(c) \/ NotHeld(c) \/ Close(c)
      PROVE  Counted'
  BY <1>3, <1>8 DEF ToldOfShutdown, AnswerLocally, NotHeld, Close, NoSession
<1>9. CASE Alive /\ Open
  <2>1. working \in Clients /\ Waits(working)
    BY <1>0, <1>9 DEF Open, Typed, Alive, Queued, Idle
  <2>2. minted' = minted + 1 /\ minted' \in Nat /\ Tells(working, minted') /\ UNCHANGED turns
    BY <1>n, <1>9 DEF Open
  <2> QED
    BY <1>3, <2>1, <2>2
<1>10. CASE Respond
  <2>1. working \in Clients /\ UNCHANGED <<minted, turns>>
    BY <1>0, <1>10 DEF Respond, Typed
  <2>2. PICK via \in Nat : Tells(working, via)
    BY <1>0, <1>10, <2>1 DEF Respond, Typed, NoSession
  <2> QED
    BY <1>3, <2>1, <2>2
<1>11. ASSUME UNCHANGED <<conn, minted, turns>> PROVE Counted'
  BY <1>1, <1>11 DEF Pending, Waits
<1>12. CASE \/ \E c \in Clients : Relay(c) \/ MakeRoom(c)
            \/ OwnerEnds \/ HostEnds \/ Interrupt \/ TellOwner \/ Exit \/ Kill \/ UNCHANGED vars
  BY <1>11, <1>12 DEF Relay, MakeRoom, OwnerEnds, HostEnds, Interrupt, TellOwner, Exit, Kill, vars
<1> QED
  BY <1>4, <1>6, <1>7, <1>8, <1>9, <1>10, <1>12, Cases

LEMMA MintedAreIds == OrderInv => 1..minted \subseteq Ids
  <1> SUFFICES ASSUME OrderInv PROVE 1..minted \subseteq Ids
    OBVIOUS
  <1>1. minted \in Nat /\ turns \in Nat /\ Cardinality(Pending) \in Nat
    BY FS_CardinalityType DEF OrderInv, Inv, OwnInv, Typed, Counted
  <1>2. minted <= MaxTurns
    BY <1>1, ServeConstants DEF OrderInv, Counted
  <1> QED
    BY <1>1, <1>2, ServeConstants DEF Ids

LEMMA KnownStep == OrderInv /\ [Next]_vars => Known'
<1> SUFFICES ASSUME OrderInv, [Next]_vars PROVE Known'
  OBVIOUS
<1>0. /\ Typed /\ Bounded /\ Reached /\ Known /\ Typed' /\ Reached' /\ Counted'
      /\ minted \in Nat /\ minted' \in Nat /\ 1..minted \subseteq Ids
  BY InvStep, CountedStep, MintedAreIds DEF OrderInv, Inv, OwnInv, Typed
<1>1. ASSUME Held' \subseteq Held, UNCHANGED <<minted, given, implied, since>> PROVE Known'
  BY <1>0, <1>1 DEF Known
<1>2. ASSUME NEW i \in Held, Uses(i) PROVE since' \in [Ids -> SUBSET Ids]
  BY <1>0, <1>2 DEF Uses, Known
<1>3. ASSUME NEW c \in Clients, Relay(c) PROVE Known'
  <2>1. Held' = Held
    BY <1>0, <1>3 DEF Relay, Reached
  <2>2. UNCHANGED <<minted, given, implied>>
    BY <1>3 DEF Relay
  <2>3. since' \in [Ids -> SUBSET Ids]
    BY <1>2, <1>3 DEF Relay
  <2> QED
    BY <1>0, <2>1, <2>2, <2>3 DEF Known
<1>4. ASSUME NEW c \in Clients, Close(c) PROVE Known'
  <2>1. Held' \subseteq Held
    BY <1>0, <1>4 DEF Close, Reached
  <2> QED
    BY <1>1, <1>4, <2>1 DEF Close
<1>5. ASSUME NEW c \in Clients, MakeRoom(c) PROVE Known'
  <2>1. Held' \subseteq Held
    <3>1. sessions' = Room /\ sessions \in Seq(Nat)
      BY <1>0, <1>5 DEF MakeRoom, Typed
    <3>2. \A m \in 1..Len(Room) : \E n \in 1..Len(sessions) : Room[m] = sessions[n]
      BY <3>1, RoomIs
    <3> QED
      BY <3>1, <3>2 DEF Held
  <2> QED
    BY <1>1, <1>5, <2>1 DEF MakeRoom
<1>6. CASE Open
  <2>1. /\ minted' = minted + 1 /\ upstream' = upstream \cup {minted'} /\ working \in Clients
        /\ given' = [given EXCEPT ![working] = @ \cup {minted'}]
        /\ implied' \in {implied, minted'} /\ Uses(minted')
    BY <1>0, <1>6 DEF Open, Typed
  <2>2. Held' \subseteq 1..minted'
    BY <1>0, <2>1 DEF Reached, Known
  <2>3. \A c \in Clients : given'[c] \subseteq 1..minted'
    <3>1. \A c \in Clients : given'[c] \subseteq given[c] \cup {minted'}
      BY <1>0, <2>1 DEF Typed
    <3> QED
      BY <1>0, <2>1, <3>1 DEF Known
  <2>4. implied' \in 0..minted'
    BY <1>0, <2>1 DEF Known
  <2>5. minted' \in Ids
    <3>1. turns' \in Nat /\ Cardinality(Pending') \in Nat
      BY <1>0, FS_CardinalityType DEF Counted
    <3>2. minted' <= MaxTurns
      BY <1>0, <3>1, ServeConstants DEF Counted
    <3> QED
      BY <1>0, <2>1, <3>2, ServeConstants DEF Ids
  <2>6. since' \in [Ids -> SUBSET Ids]
    BY <1>0, <2>1, <2>5 DEF Uses, Known
  <2> QED
    BY <2>2, <2>3, <2>4, <2>6 DEF Known
<1>7. CASE OwnerEnds \/ HostEnds
  <2>1. Held' \subseteq Held
    BY <1>0, <1>7 DEF OwnerEnds, HostEnds, Reached
  <2> QED
    BY <1>1, <1>7, <2>1 DEF OwnerEnds, HostEnds
<1>8. ASSUME UNCHANGED <<sessions, minted, given, implied, since>> PROVE Known'
  BY <1>1, <1>8 DEF Held
<1>9. CASE \/ \E c \in Clients : \/ Accept(c) \/ Refuse(c) \/ Post(c) \/ ToldOfShutdown(c)
                                 \/ HangUp(c) \/ AnswerLocally(c) \/ NotHeld(c)
           \/ Respond \/ HostAsks \/ Interrupt \/ TellOwner \/ Exit \/ Kill \/ UNCHANGED vars
  BY <1>8, <1>9 DEF Accept, Refuse, Post, ToldOfShutdown, HangUp, AnswerLocally, NotHeld, Respond,
     HostAsks, Interrupt, TellOwner, Exit, Kill, vars
<1> QED
  BY <1>3, <1>4, <1>5, <1>6, <1>7, <1>9, Cases

LEMMA WithoutStaysOrdered ==
    ASSUME sessions \in Seq(Nat), Ordered, NEW i \in Held,
           NEW m \in 1..Len(Without(i)), NEW n \in 1..Len(Without(i)), m < n
    PROVE  Without(i)[n] \in since[Without(i)[m]]
  <1>1. PICK p, q \in 1..Len(sessions) :
            p < q /\ Without(i)[m] = sessions[p] /\ Without(i)[n] = sessions[q]
    BY WithoutKeepsOrder
  <1>2. sessions[q] \in since[sessions[p]]
    BY <1>1 DEF Ordered
  <1> QED
    BY <1>1, <1>2

LEMMA OrderedStep == OrderInv /\ [Next]_vars => Ordered'
<1> SUFFICES ASSUME OrderInv, [Next]_vars PROVE Ordered'
  OBVIOUS
<1>0. /\ Typed /\ Distinct /\ Bounded /\ Known /\ Ordered /\ Len(sessions) \in Nat
      /\ minted \in Nat /\ 1..minted \subseteq Ids /\ Held \subseteq Ids
      /\ sessions \in Seq(Nat) /\ \A m \in 1..Len(sessions) : sessions[m] \in Held
  <2>1. Typed /\ Distinct /\ Bounded /\ Known /\ Ordered
    BY DEF OrderInv, Inv, OwnInv
  <2>2. Len(sessions) \in Nat /\ minted \in Nat /\ sessions \in Seq(Nat)
    BY <2>1 DEF Typed
  <2>3. 1..minted \subseteq Ids /\ Held \subseteq 1..minted
    BY <2>1, MintedAreIds DEF Known
  <2>4. \A m \in 1..Len(sessions) : sessions[m] \in Held
    BY DEF Held
  <2> QED
    BY <2>1, <2>2, <2>3, <2>4
<1>1. ASSUME NEW c \in Clients, Relay(c) PROVE Ordered'
  <2> DEFINE i == request[c].session
             rest == Without(i)
  <2>1. /\ i \in Held /\ sessions' = Append(rest, i)
        /\ since' = [j \in Ids |-> IF j = i THEN {} ELSE since[j] \cup {i}]
    BY <1>1 DEF Relay, Touched, Uses
  <2>2. /\ rest \in Seq(Nat) /\ {rest[m] : m \in 1..Len(rest)} = Held \ {i}
        /\ \A m, n \in 1..Len(rest) : m < n => rest[n] \in since[rest[m]]
    <3>1. rest \in Seq(Nat) /\ {rest[m] : m \in 1..Len(rest)} = Held \ {i}
      BY <1>0, <2>1, WithoutIs
    <3>2. \A m, n \in 1..Len(rest) : m < n => rest[n] \in since[rest[m]]
      BY <1>0, <2>1, WithoutStaysOrdered
    <3> QED
      BY <3>1, <3>2
  <2>3. i \in Nat
    BY <1>0, <2>1 DEF Typed, Held
  <2> HIDE DEF i, rest
  <2>4. /\ Len(sessions') = Len(rest) + 1 /\ Len(rest) \in Nat /\ sessions'[Len(rest) + 1] = i
        /\ \A m \in 1..Len(rest) : sessions'[m] = rest[m]
    BY <2>1, <2>2, <2>3
  <2>5. \A m \in 1..Len(rest) : since'[rest[m]] = since[rest[m]] \cup {i}
    BY <1>0, <2>1, <2>2
  <2> SUFFICES ASSUME NEW m \in 1..Len(sessions'), NEW n \in 1..Len(sessions'), m < n
               PROVE  sessions'[n] \in since'[sessions'[m]]
    BY DEF Ordered
  <2>6. m \in 1..Len(rest)
    BY <2>4
  <2>7. CASE n = Len(rest) + 1
    BY <2>4, <2>5, <2>6, <2>7
  <2>8. CASE n \in 1..Len(rest)
    BY <2>2, <2>4, <2>5, <2>6, <2>8
  <2> QED
    BY <2>4, <2>7, <2>8
<1>2. ASSUME NEW c \in Clients, Close(c) PROVE Ordered'
  <2>1. /\ request[c].session \in Held /\ sessions' = Without(request[c].session)
        /\ UNCHANGED since
    BY <1>2 DEF Close
  <2> QED
    BY <1>0, <2>1, WithoutStaysOrdered DEF Ordered
<1>3. ASSUME NEW c \in Clients, MakeRoom(c) PROVE Ordered'
  <2>1. sessions' = Room /\ UNCHANGED since
    BY <1>3 DEF MakeRoom
  <2>2. PICK cut \in Nat :
            \A m \in 1..Len(Room) : m + cut \in 1..Len(sessions) /\ Room[m] = sessions[m + cut]
    BY <1>0, RoomIs
  <2> SUFFICES ASSUME NEW m \in 1..Len(Room), NEW n \in 1..Len(Room), m < n
               PROVE  Room[n] \in since[Room[m]]
    BY <2>1 DEF Ordered
  <2>3. m + cut < n + cut
    OBVIOUS
  <2> QED
    BY <1>0, <2>2, <2>3 DEF Ordered
<1>4. CASE Open
  <2>1. /\ minted' = minted + 1 /\ sessions' = Append(sessions, minted')
        /\ since' = [j \in Ids |-> IF j = minted' THEN {} ELSE since[j] \cup {minted'}]
    BY <1>4 DEF Open, Uses
  <2>2. /\ Len(sessions') = Len(sessions) + 1 /\ sessions'[Len(sessions) + 1] = minted'
        /\ \A m \in 1..Len(sessions) : sessions'[m] = sessions[m]
    BY <1>0, <2>1 DEF Typed
  <2>3. \A m \in 1..Len(sessions) : since'[sessions[m]] = since[sessions[m]] \cup {minted'}
    <3>1. \A m \in 1..Len(sessions) : sessions[m] # minted'
      BY <1>0, <2>1 DEF Known
    <3> QED
      BY <1>0, <2>1, <3>1
  <2> SUFFICES ASSUME NEW m \in 1..Len(sessions'), NEW n \in 1..Len(sessions'), m < n
               PROVE  sessions'[n] \in since'[sessions'[m]]
    BY DEF Ordered
  <2>4. m \in 1..Len(sessions)
    BY <1>0, <2>2
  <2>5. CASE n = Len(sessions) + 1
    BY <2>2, <2>3, <2>4, <2>5
  <2>6. CASE n \in 1..Len(sessions)
    BY <1>0, <2>2, <2>3, <2>4, <2>6 DEF Ordered
  <2> QED
    BY <1>0, <2>2, <2>5, <2>6
<1>5. ASSUME sessions' = <<>> PROVE Ordered'
  BY <1>5 DEF Ordered
<1>6. ASSUME UNCHANGED <<sessions, since>> PROVE Ordered'
  BY <1>0, <1>6 DEF Ordered
<1>7. CASE OwnerEnds \/ HostEnds
  BY <1>5, <1>7 DEF OwnerEnds, HostEnds
<1>8. CASE \/ \E c \in Clients : \/ Accept(c) \/ Refuse(c) \/ Post(c) \/ ToldOfShutdown(c)
                                 \/ HangUp(c) \/ AnswerLocally(c) \/ NotHeld(c)
           \/ Respond \/ HostAsks \/ Interrupt \/ TellOwner \/ Exit \/ Kill \/ UNCHANGED vars
  BY <1>6, <1>8 DEF Accept, Refuse, Post, ToldOfShutdown, HangUp, AnswerLocally, NotHeld, Respond,
     HostAsks, Interrupt, TellOwner, Exit, Kill, vars
<1> QED
  BY <1>1, <1>2, <1>3, <1>4, <1>7, <1>8, Cases

LEMMA OrderInvHolds == Spec => []OrderInv
<1>1. Init => OrderInv
  <2> SUFFICES ASSUME Init PROVE Counted /\ Known /\ Ordered
    BY InitInv DEF OrderInv
  <2>1. Pending = {}
    BY DEF Init, Pending, Waits
  <2>2. Counted
    BY <2>1, FS_EmptySet, ServeConstants DEF Init, Counted
  <2> QED
    BY <2>2 DEF Init, Known, Ordered, Held, NoSession
<1>2. OrderInv /\ [Next]_vars => OrderInv'
  BY InvStep, CountedStep, KnownStep, OrderedStep DEF OrderInv
<1> QED
  BY <1>1, <1>2, PTL DEF Spec

\* The map holds as many sessions as it has places taken.
LEMMA HeldCounts ==
    ASSUME Typed, Distinct
    PROVE  IsFiniteSet(Held) /\ Cardinality(Held) = Len(sessions)
  <1>1. Len(sessions) \in Nat
    BY DEF Typed
  <1>2. IsFiniteSet(1..Len(sessions)) /\ Cardinality(1..Len(sessions)) = Len(sessions)
    <2>1. 1 \in Int /\ Len(sessions) \in Int
      BY <1>1
    <2>2. /\ IsFiniteSet(1..Len(sessions))
          /\ Cardinality(1..Len(sessions)) = IF 1 > Len(sessions) THEN 0 ELSE Len(sessions) - 1 + 1
      BY <2>1, FS_Interval
    <2> QED
      BY <1>1, <2>2
  <1> DEFINE f == [m \in 1..Len(sessions) |-> sessions[m]]
  <1>3. f \in Surjection(1..Len(sessions), Held)
    BY DEF Surjection, Held
  <1>4. f \in Injection(1..Len(sessions), Held)
    <2>1. \A m, n \in 1..Len(sessions) : f[m] = f[n] => m = n
      BY DEF Distinct
    <2>2. f \in [1..Len(sessions) -> Held]
      BY DEF Held
    <2> HIDE DEF f
    <2> QED
      BY <2>1, <2>2 DEF Injection, IsInjective
  <1>5. f \in Bijection(1..Len(sessions), Held)
    BY <1>3, <1>4 DEF Bijection
  <1> HIDE DEF f
  <1> QED
    BY <1>2, <1>5, FS_Bijection DEF ExistsBijection

(* Every state of the proxy is of the shapes its variables have in the     *)
(* code; the ids minted never exceed the requests made, since each one     *)
(* answers the one request its client had made (open, handle).             *)
THEOREM TypeCorrect == Spec => []TypeOK
<1>1. OrderInv => TypeOK
  <2> SUFFICES ASSUME OrderInv PROVE TypeOK
    OBVIOUS
  <2>1. Typed /\ Idle /\ Counted /\ Known /\ Distinct /\ Reached /\ NamesItsOwn /\ AnswersAreOwn
    BY DEF OrderInv, Inv, OwnInv
  <2>2. 1..minted \subseteq Ids /\ 0..minted \subseteq Ids \cup {NoSession}
    BY <2>1, MintedAreIds DEF NoSession, Typed
  <2>3. Held \subseteq Ids /\ \A c \in Clients : given[c] \subseteq Ids
    BY <2>1, <2>2 DEF Known
  <2>4. sessions \in Seq(Ids) /\ Len(sessions) = Cardinality(Held)
    <3>1. \A m \in 1..Len(sessions) : sessions[m] \in Ids
      BY <2>3 DEF Held
    <3>2. Len(sessions) \in Nat /\ sessions = [m \in 1..Len(sessions) |-> sessions[m]]
      BY <2>1 DEF Typed
    <3>3. [m \in 1..Len(sessions) |-> sessions[m]] \in Seq(Ids)
      BY <3>1, <3>2
    <3> QED
      BY <2>1, <3>2, <3>3, HeldCounts
  <2>5. request \in [Clients -> Requests]
    <3>1. \A c \in Clients : request[c] \in [kind : Kinds, session : Nat]
      BY <2>1 DEF Typed
    <3>2. \A c \in Clients : request[c].session \in Ids \cup {NoSession}
      BY <2>1, <2>3 DEF NamesItsOwn
    <3>3. \A c \in Clients : request[c] \in Requests
      BY <3>1, <3>2 DEF Requests
    <3> QED
      BY <2>1, <3>3 DEF Typed
  <2>6. answer \in [Clients -> Ids \cup {NoSession}]
    <3>1. \A c \in Clients : answer[c] \in Ids \cup {NoSession}
      BY <2>1, <2>3 DEF AnswersAreOwn
    <3> QED
      BY <2>1, <3>1 DEF Typed
  <2>7. minted \in 0..MaxTurns /\ turns \in 0..MaxTurns
    <3>1. minted \in Nat /\ turns \in Nat /\ Cardinality(Pending) \in Nat
      BY <2>1, FS_CardinalityType DEF Typed, Counted
    <3> QED
      BY <2>1, <3>1, ServeConstants DEF Counted
  <2>8. given \in [Clients -> SUBSET Ids] /\ since \in [Ids -> SUBSET Ids]
    BY <2>1, <2>3 DEF Typed, Known
  <2>9. implied \in Ids \cup {NoSession} /\ upstream \subseteq Ids
    BY <2>1, <2>2, <2>3 DEF Known, Reached
  <2> QED
    BY <2>1, <2>4, <2>5, <2>6, <2>7, <2>8, <2>9 DEF TypeOK, Typed, Idle
<1> QED
  BY <1>1, OrderInvHolds, PTL

(* When room is made for a new session, the one that is ended is one since *)
(* whose last use as many others of those held as leave room for no more   *)
(* were used or opened (make_room, touch).                                 *)
THEOREM TheStalestGo == Spec => OnlyTheStalestGo
<1>1. ASSUME OrderInv, [Next]_vars, NEW i \in upstream \ upstream',
             working' # Nobody, working' # working
      PROVE  Cardinality(since[i] \cap Held) >= MaxSessions - 1
  <2>1. /\ Typed /\ Distinct /\ Bounded /\ Reached /\ Ordered
        /\ Len(sessions) \in Nat /\ sessions \in Seq(Nat)
    BY <1>1 DEF OrderInv, Inv, OwnInv, Typed
  <2>2. PICK c \in Clients : MakeRoom(c)
    <3>1. \A c \in Clients : Relay(c) => upstream' = upstream
      BY DEF Relay
    <3>2. \E c \in Clients : Relay(c) \/ MakeRoom(c)
      BY <1>1, Cases DEF Accept, Refuse, Post, ToldOfShutdown, HangUp, AnswerLocally, NotHeld, Close,
         Open, Respond, OwnerEnds, HostAsks, HostEnds, Interrupt, TellOwner, Exit, Kill, Takes, vars
    <3> QED
      BY <1>1, <3>1, <3>2
  <2>3. PICK cut \in Nat :
            /\ Len(Room) = Len(sessions) - cut
            /\ \A m \in 1..Len(Room) : m + cut \in 1..Len(sessions) /\ Room[m] = sessions[m + cut]
            /\ Len(sessions) < MaxSessions => cut = 0
            /\ Len(sessions) = MaxSessions => cut = 1
    BY <2>1, RoomIs
  <2>4. PICK at \in 1..Len(sessions) : sessions[at] = i
    BY <1>1, <2>1 DEF Reached, Held
  <2>5. \A m \in 1..Len(Room) : m + cut # at
    BY <1>1, <2>2, <2>3, <2>4 DEF MakeRoom
  <2>6. at <= cut
    <3>1. CASE at > cut
      <4>1. at - cut \in 1..Len(Room) /\ (at - cut) + cut = at
        BY <2>1, <2>3, <2>4, <3>1
      <4> QED
        BY <2>5, <4>1
    <3> QED
      BY <2>4, <3>1
  <2>7. at = 1 /\ Len(sessions) = MaxSessions
    <3>1. Len(sessions) <= MaxSessions /\ at \in Nat /\ at >= 1
      BY <2>1, <2>4 DEF Bounded
    <3>2. ~(Len(sessions) < MaxSessions)
      BY <2>3, <2>6, <3>1
    <3>3. Len(sessions) = MaxSessions
      BY <2>1, <3>1, <3>2, ServeConstants
    <3> QED
      BY <2>3, <2>6, <3>1, <3>3
  <2>8. \A n \in 2..Len(sessions) : sessions[n] \in since[i] \cap Held
    BY <2>1, <2>4, <2>7 DEF Ordered, Held
  <2>9. IsFiniteSet(since[i] \cap Held)
    BY <2>1, HeldCounts, FS_Subset
  <2>10. [n \in 2..Len(sessions) |-> sessions[n]] \in Injection(2..Len(sessions), since[i] \cap Held)
    <3> DEFINE f == [n \in 2..Len(sessions) |-> sessions[n]]
    <3>1. \A m, n \in 2..Len(sessions) : f[m] = f[n] => m = n
      BY <2>1 DEF Distinct
    <3>2. f \in [2..Len(sessions) -> since[i] \cap Held]
      BY <2>8
    <3> HIDE DEF f
    <3>3. f \in Injection(2..Len(sessions), since[i] \cap Held)
      BY <3>1, <3>2 DEF Injection, IsInjective
    <3> QED
      BY <3>3 DEF f
  <2>11. Cardinality(2..Len(sessions)) <= Cardinality(since[i] \cap Held)
    BY <2>9, <2>10, FS_Injection
  <2>12. Cardinality(2..Len(sessions)) = MaxSessions - 1
    <3>1. 2 \in Int /\ Len(sessions) \in Int
      BY <2>1
    <3>2. Cardinality(2..Len(sessions)) = IF 2 > Len(sessions) THEN 0 ELSE Len(sessions) - 2 + 1
      BY <3>1, FS_Interval
    <3> QED
      BY <2>1, <2>7, <3>2, ServeConstants
  <2>13. Cardinality(since[i] \cap Held) \in Nat
    BY <2>9, FS_CardinalityType
  <2> QED
    BY <2>11, <2>12, <2>13, ServeConstants
<1>2. ASSUME OrderInv, [Next]_vars
      PROVE  \A i \in upstream \ upstream' :
                (working' # Nobody /\ working' # working) => Cardinality(since[i] \cap Held) >= MaxSessions - 1
  BY <1>1, <1>2
<1> QED
  BY <1>2, OrderInvHolds, PTL DEF Spec, OnlyTheStalestGo
=============================================================================
