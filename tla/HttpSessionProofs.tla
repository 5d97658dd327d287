------------------------- MODULE HttpSessionProofs -------------------------
(***************************************************************************)
(* A call or a listen is carried out again only if that does no harm.  The *)
(* argument follows the request at hand: as long as it can still be sent   *)
(* again, either it has not been carried out, or the client was misled, or *)
(* the tool was listed as idempotent by the last listing that arrived.     *)
(*                                                                         *)
(* The sessions a command is told of are none until its one initialize,    *)
(* and from then on at most the one it keeps, or the one it glimpsed and   *)
(* gave up over, unless a refused notification made it start again.        *)
(*                                                                         *)
(* A stale note is followed through an opening that nothing hinders: what  *)
(* the server can say to each request is known from the revisions it       *)
(* speaks, and a handshake tried without a note comes after a discovery    *)
(* that was refused.                                                       *)
(***************************************************************************)
EXTENDS HttpSession, FiniteSetTheorems, WellFoundedInduction, TLAPS

Harmless == misled \/ (pc = "tools/call" /\ declared)

\* The request may yet be sent again whatever its method is.
Repeatable == \/ mail.is \in {"sent", "unreached", "busy"}
              \/ mail.is = "gateway" /\ sid = 0
              \/ mail.is = "ok" /\ mail.says = 1

Noted == IF pc = "tools/list" /\ mail.is = "ok" THEN declared <=> mail.says = 1
                                                ELSE idem <=> declared

OnceInv ==
    /\ runs \in Nat /\ misled \in BOOLEAN /\ declared \in BOOLEAN /\ idem \in BOOLEAN
    /\ runs > 0 => pc \in {"tools/call", "subscriptions/listen"}
    /\ runs > 1 => Harmless
    /\ runs > 0 /\ Repeatable => Harmless
    /\ Noted

-----------------------------------------------------------------------------
LEMMA OnceInit == Init => OnceInv
<1> SUFFICES ASSUME Init PROVE OnceInv
  OBVIOUS
<1>1. /\ misled \in BOOLEAN /\ declared \in BOOLEAN /\ idem \in BOOLEAN
      /\ idem <=> declared
  BY DEF Init
<1>2. runs = 0 /\ pc = "off"
  BY DEF Init
<1> QED
  BY <1>1, <1>2 DEF OnceInv, Noted

\* What comes of a request that is at the server: carried is what carrying it
\* out adds to runs, and an answer that demands input has not carried it out.
LEMMA HandleStep ==
  ASSUME OnceInv, NEW answer, Handle(answer),
         runs' \in Nat,
         pc \in {"tools/call", "subscriptions/listen"} \/ runs' = runs,
         runs' = runs \/ (runs' = runs + 1 /\ ~(answer.is = "ok" /\ answer.says = 1)),
         answer.is \in Answers
  PROVE  OnceInv'
<1> USE DEF OnceInv, Handle, Harmless, Noted, Repeatable, Lost, Mail, Answers, network, learnt
<1>1. runs > 0 => Harmless
  OBVIOUS
<1>2. /\ pc' = pc /\ idem' = idem /\ sid' = sid
      /\ runs' > 0 => pc' \in {"tools/call", "subscriptions/listen"}
  OBVIOUS
<1>3. CASE /\ mail' = answer
           /\ declared' = IF pc = "tools/list" /\ answer.is = "ok"
                          THEN answer.says = 1 ELSE declared
           /\ UNCHANGED <<faulty, misled, glimpsed>>
  <2>1. /\ misled' \in BOOLEAN /\ declared' \in BOOLEAN /\ idem' \in BOOLEAN
    BY <1>2, <1>3
  <2>2. pc = "tools/call" => declared' = declared
    BY <1>3
  <2>3. Noted'
    <3>1. CASE pc = "tools/list" /\ answer.is = "ok"
      <4>1. declared' <=> answer.says = 1
        BY <1>3, <3>1
      <4> QED
        BY <1>2, <1>3, <3>1, <4>1
    <3>2. CASE ~(pc = "tools/list" /\ answer.is = "ok")
      <4>1. (declared' <=> declared) /\ (idem <=> declared)
        BY <1>3, <3>2
      <4>2. (idem' <=> idem) /\ ~(pc' = "tools/list" /\ mail'.is = "ok")
        BY <1>2, <1>3, <3>2
      <4> QED
        BY <4>1, <4>2
    <3> QED
      BY <3>1, <3>2
  <2>4. runs' > 1 => Harmless'
    BY <1>1, <1>2, <1>3, <2>2
  <2>5. runs' > 0 /\ Repeatable' => Harmless'
    BY <1>1, <1>2, <1>3, <2>2
  <2> QED
    BY <1>2, <2>1, <2>3, <2>4, <2>5
<1>4. CASE /\ mail' = Broken(answer.named)
           /\ UNCHANGED <<misled, declared>>
  BY <1>1, <1>2, <1>4 DEF Broken
<1>5. CASE /\ mail' \in {Lost("unreached"), Lost("final"), Lost("gateway")}
           /\ misled' = (misled \/ mail'.is = "unreached" \/ (mail'.is = "gateway" /\ sid = 0))
           /\ UNCHANGED <<glimpsed, declared>>
  <2>1. mail'.is \in {"unreached", "final", "gateway"}
    BY <1>5
  <2>2. misled' \in BOOLEAN /\ (misled => misled')
    BY <1>5
  <2>3. Harmless => Harmless'
    BY <1>2, <1>5, <2>2
  <2>4. Repeatable' => misled'
    BY <1>2, <1>5, <2>1
  <2>5. Noted'
    BY <1>2, <1>5, <2>1
  <2> QED
    BY <1>1, <1>2, <1>5, <2>2, <2>3, <2>4, <2>5
<1> QED
  BY <1>3, <1>4, <1>5 DEF Returns

LEMMA OnceStep == OnceInv /\ [Next]_vars => OnceInv'
<1> SUFFICES ASSUME OnceInv, [Next]_vars PROVE OnceInv'
  OBVIOUS
<1> USE DEF OnceInv, Harmless, Repeatable, Noted
<1>1. CASE UNCHANGED vars
  BY <1>1 DEF vars, server, dialed, learnt, network
<1>2. ASSUME NEW e, Refuse(e) PROVE OnceInv'
  <2>1. PICK carrier \in {"status", "rpc"} : Handle(Mail(carrier, e, 0, 0))
    BY <1>2 DEF Refuse
  <2>2. runs' = runs
    BY <1>2 DEF Refuse
  <2> QED
    BY <2>1, <2>2, HandleStep DEF Mail, Answers
<1>3. CASE HandleDiscover
  <2>1. CASE Handle(Mail("ok", "none", 0, 0)) /\ UNCHANGED runs
    BY <2>1, HandleStep DEF Mail, Answers
  <2> QED
    BY <1>2, <1>3, <2>1 DEF HandleDiscover
<1>4. CASE HandleInitialize
  <2>1. ASSUME NEW id, NEW said, Handle(Mail("ok", "none", id, said)), UNCHANGED runs
        PROVE  OnceInv'
    BY <2>1, HandleStep DEF Mail, Answers
  <2> QED
    BY <1>2, <1>4, <2>1 DEF HandleInitialize
<1>5. CASE HandleInitialized
  <2>1. CASE Handle(Mail("ok", "none", 0, 0)) /\ UNCHANGED runs
    BY <2>1, HandleStep DEF Mail, Answers
  <2> QED
    BY <1>2, <1>5, <2>1 DEF HandleInitialized
<1>6. CASE HandleWork
  <2>1. ASSUME NEW says \in 0..1, Handle(Mail("ok", "none", 0, says)),
               runs' = runs + (IF pc = "tools/list" \/ says = 1 THEN 0 ELSE 1)
        PROVE  OnceInv'
    <3>1. pc = "tools/list" \/ says = 1 => runs' = runs
      BY <2>1
    <3>2. runs' \in Nat /\ (runs' = runs \/ (runs' = runs + 1 /\ says # 1))
      BY <2>1
    <3> QED
      BY <1>6, <2>1, <3>1, <3>2, HandleStep DEF Mail, Answers, HandleWork, Working
  <2> QED
    BY <1>2, <1>6, <2>1 DEF HandleWork
<1>7. CASE Undelivered
  <2>1. runs > 0 => Harmless
    BY <1>7 DEF Undelivered
  <2>2. UNCHANGED <<pc, idem, misled, declared, runs, sid>> /\ mail'.is # "ok"
    BY <1>7 DEF Undelivered, Lost, Mail, Losses, learnt
  <2>3. mail.is # "ok"
    BY <1>7 DEF Undelivered
  <2> QED
    BY <2>1, <2>2, <2>3
<1>8. CASE Expire \/ ToolsChange \/ Upgrade
  BY <1>8 DEF Expire, ToolsChange, Upgrade, network, learnt
<1>9. CASE Retry
  <2>1. runs > 0 => Harmless
    BY <1>9 DEF Retry, SendsAgain, WorthRetrying, IsIdempotent
  <2>2. UNCHANGED <<pc, idem, misled, declared, runs>> /\ mail'.is = "sent" /\ mail.is # "ok"
    BY <1>9 DEF Retry, SendsAgain, WorthRetrying, Posted, Mail, network, learnt
  <2> QED
    BY <2>1, <2>2
<1>10. CASE Discovered \/ HandshakeDone
  BY <1>10 DEF Discovered, HandshakeDone, Ready, NoMail, Mail
<1>11. CASE DiscoverRefused \/ Initialized \/ HandshakeRefused
  <2>1. UNCHANGED <<idem, misled, declared, runs>> /\ pc # "tools/list" /\ runs = 0
    BY <1>11 DEF DiscoverRefused, Initialized, HandshakeRefused, Unopened, network
  <2>2. pc' # "tools/list"
    BY <1>11 DEF DiscoverRefused, Initialized, HandshakeRefused, GiveUp, Ask
  <2> QED
    BY <2>1, <2>2
<1>12. CASE Finished \/ Unanswerable
  <2>1. UNCHANGED <<misled, declared>> /\ runs' = 0 /\ pc' # "tools/list"
    BY <1>12 DEF Finished, Unanswerable, Answered, network
  <2>2. idem' \in BOOLEAN /\ (idem' <=> declared)
    BY <1>12 DEF Finished, Unanswerable, NoteTools, Succeeded, Demanded
  <2> QED
    BY <2>1, <2>2
<1>13. CASE AnswerDemand
  <2>1. UNCHANGED <<pc, idem, misled, declared, runs>> /\ pc = "tools/call"
    BY <1>13 DEF AnswerDemand, Ask, NoteTools, Demanded, network
  <2>2. runs > 0 => Harmless
    BY <1>13 DEF AnswerDemand, Succeeded, Demanded
  <2> QED
    BY <2>1, <2>2
<1>14. CASE RequestFailed
  <2>1. UNCHANGED <<idem, misled, declared>> /\ runs' = 0 /\ pc' # "tools/list"
    BY <1>14 DEF RequestFailed, Answered, network
  <2>2. mail.is # "ok"
    BY <1>14 DEF RequestFailed, Failed, Losses
  <2> QED
    BY <2>1, <2>2
<1>15. CASE Open
  <2>1. UNCHANGED <<idem, misled, declared, runs>> /\ runs = 0
    BY <1>15 DEF Open, network, learnt
  <2>2. pc # "tools/list" /\ pc' # "tools/list"
    BY <1>15 DEF Open, Ask
  <2> QED
    BY <2>1, <2>2
<1>16. CASE Request
  <2>1. UNCHANGED <<idem, misled, declared>> /\ runs' = 0 /\ pc # "tools/list"
    BY <1>16 DEF Request, network, learnt
  <2>2. mail'.is = "sent"
    BY <1>16 DEF Request, Ask, Posted, Mail
  <2> QED
    BY <2>1, <2>2
<1>17. CASE Leave \/ Close
  <2>1. UNCHANGED <<idem, misled, declared, runs>> /\ runs = 0
    BY <1>17 DEF Leave, Close, network, learnt
  <2>2. pc # "tools/list" /\ pc' # "tools/list"
    BY <1>17 DEF Leave, Close
  <2> QED
    BY <2>1, <2>2
<1>18. CASE Exit
  <2>1. /\ misled' \in BOOLEAN /\ declared' \in BOOLEAN /\ idem' \in BOOLEAN
        /\ idem' <=> declared'
    BY <1>18 DEF Exit
  <2>2. runs' = 0 /\ pc' = "off"
    BY <1>18 DEF Exit
  <2> QED
    BY <2>1, <2>2
<1> QED
  BY <1>1, <1>3, <1>4, <1>5, <1>6, <1>7, <1>8, <1>9, <1>10, <1>11, <1>12, <1>13, <1>14, <1>15,
     <1>16, <1>17, <1>18 DEF Next, Between, Client

\* A request is carried out twice only if the client was misled about the first
\* time, or the tool was listed as idempotent: for any revisions, any servers
\* and any number of rounds, requests and commands.
THEOREM RunsTwiceOnlyHarmlessly == Spec => []RunsOnce
<1>1. OnceInv => RunsOnce
  BY DEF OnceInv, Harmless, RunsOnce
<1> QED
  BY <1>1, OnceInit, OnceStep, PTL DEF Spec

-----------------------------------------------------------------------------
Beyond == Working \cup {"notifications/initialized", "ready"}

SessionInv ==
    /\ mail.named # 0 => pc = "initialize" /\ mail.is = "ok"
    /\ ~moved =>
          /\ pc \in {"off", "server/discover", "initialize"} => told = {}
          /\ pc \in {"off", "server/discover"} \cup Beyond => glimpsed = {}
          /\ pc = "initialize" /\ mail.is # "final" => glimpsed = {}
          /\ glimpsed = {} \/ told = {}
          /\ \A a, b \in told \cup glimpsed : a = b
          /\ pc # "closed" => told \subseteq {sid}
          /\ pc = "closed" /\ ~lost => told \cap sessions = {}

LEMMA SessionInit == Init => SessionInv
  BY DEF Init, SessionInv, NoMail, Mail, Beyond, Working

\* A request handled without a session in its answer.
LEMMA NamelessStep ==
  ASSUME SessionInv, NEW answer, Handle(answer), answer.named = 0,
         sessions' = sessions
  PROVE  SessionInv'
<1> USE DEF Handle, dialed, learnt
<1>1. UNCHANGED <<pc, moved, told, sid, lost>> /\ mail.is = "sent"
  OBVIOUS
<1>2. glimpsed \cup ({answer.named} \ {0}) = glimpsed
  OBVIOUS
<1>3. glimpsed' = glimpsed
  BY <1>2 DEF Returns
<1>4. mail'.named = 0
  BY DEF Returns, Broken, Lost, Mail
<1> QED
  BY <1>1, <1>3, <1>4 DEF SessionInv

LEMMA RefuseNameless ==
  ASSUME SessionInv, NEW e, Refuse(e)
  PROVE  SessionInv'
<1>1. PICK carrier \in {"status", "rpc"} : Handle(Mail(carrier, e, 0, 0))
  BY DEF Refuse
<1>2. sessions' = sessions
  BY DEF Refuse
<1> QED
  BY <1>1, <1>2, NamelessStep DEF Mail

\* Learning from an answer without a session changes nothing that is known.
LEMMA LearnNothing ==
  ASSUME Learn, mail.named = 0
  PROVE  UNCHANGED <<told, sid>>
  BY DEF Learn

LEMMA SessionStep == SessionInv /\ [Next]_vars => SessionInv'
<1> SUFFICES ASSUME SessionInv, [Next]_vars PROVE SessionInv'
  OBVIOUS
<1> USE DEF Beyond, Working
<1>1. CASE UNCHANGED vars
  BY <1>1 DEF SessionInv, vars, server, dialed, learnt, network
<1>2. CASE HandleDiscover \/ HandleInitialized \/ HandleWork
  <2>1. ASSUME NEW says, Handle(Mail("ok", "none", 0, says)), UNCHANGED sessions
        PROVE  SessionInv'
    BY <2>1, NamelessStep DEF Mail
  <2> QED
    BY <1>2, <2>1, RefuseNameless DEF HandleDiscover, HandleInitialized, HandleWork
<1>3. CASE HandleInitialize
  <2>1. ASSUME NEW id \in Ids, NEW said, Handle(Mail("ok", "none", id, said)),
               sessions' = sessions \cup {id}
        PROVE  SessionInv'
    <3>1. UNCHANGED <<pc, moved, told, sid, lost>> /\ pc = "initialize" /\ mail.is = "sent"
      BY <1>3, <2>1 DEF HandleInitialize, Handle, learnt
    <3>2. id # 0
      BY DEF Ids
    <3>3. CASE mail' = Mail("ok", "none", id, said) /\ UNCHANGED glimpsed
      BY <3>1, <3>3 DEF SessionInv, Mail
    <3>4. CASE mail' = Broken(id) /\ glimpsed' = glimpsed \cup ({id} \ {0})
      <4>1. mail'.is = "final" /\ mail'.named = 0
        BY <3>2, <3>4 DEF Broken, Lost, Mail
      <4>2. ~moved => told = {} /\ glimpsed = {}
        BY <3>1 DEF SessionInv
      <4> QED
        BY <3>1, <3>4, <4>1, <4>2 DEF SessionInv
    <3>5. CASE mail' \in {Lost("unreached"), Lost("final"), Lost("gateway")}
               /\ UNCHANGED glimpsed
      <4>1. mail'.named = 0
        BY <3>5 DEF Lost, Mail
      <4> QED
        BY <3>1, <3>5, <4>1 DEF SessionInv
    <3> QED
      BY <2>1, <3>3, <3>4, <3>5 DEF Handle, Returns, Mail
  <2>2. ASSUME NEW said, Handle(Mail("ok", "none", 0, said)), UNCHANGED sessions
        PROVE  SessionInv'
    BY <2>2, NamelessStep DEF Mail
  <2> QED
    BY <1>3, <2>1, <2>2, RefuseNameless DEF HandleInitialize
<1>4. CASE Undelivered
  <2>1. UNCHANGED <<pc, moved, told, sid, lost, glimpsed, sessions>> /\ mail.is = "sent"
    BY <1>4 DEF Undelivered, server, learnt
  <2>2. mail'.named = 0
    BY <1>4 DEF Undelivered, Lost, Mail
  <2> QED
    BY <2>1, <2>2 DEF SessionInv
<1>5. CASE Expire \/ ToolsChange \/ Upgrade
  <2>1. UNCHANGED <<pc, mail, moved, told, sid, lost, glimpsed>> /\ sessions' \subseteq sessions
    BY <1>5 DEF Expire, ToolsChange, Upgrade, network, learnt
  <2> QED
    BY <2>1 DEF SessionInv
<1>6. CASE Retry
  <2>1. UNCHANGED <<pc, moved, told, sid, lost, glimpsed, sessions>> /\ mail.is # "final"
    BY <1>6 DEF Retry, SendsAgain, WorthRetrying, server, learnt, network
  <2>2. mail'.named = 0
    BY <1>6 DEF Retry, Posted, Mail
  <2> QED
    BY <2>1, <2>2 DEF SessionInv
<1>7. CASE Discovered \/ HandshakeDone
  <2>1. UNCHANGED <<moved, lost, glimpsed, sessions>> /\ mail'.named = 0 /\ pc' = "ready"
    BY <1>7 DEF Discovered, HandshakeDone, Ready, NoMail, Mail, server
  <2>2. pc # "initialize" /\ mail.named = 0
    BY <1>7 DEF Discovered, HandshakeDone, SessionInv
  <2>3. UNCHANGED <<told, sid>>
    BY <1>7, <2>2, LearnNothing DEF Discovered, HandshakeDone
  <2>4. pc \in {"server/discover", "notifications/initialized"}
    BY <1>7 DEF Discovered, HandshakeDone
  <2> QED
    BY <2>1, <2>2, <2>3, <2>4 DEF SessionInv
<1>8. CASE DiscoverRefused
  <2>1. UNCHANGED <<moved, lost, glimpsed, sessions>> /\ mail'.named = 0 /\ mail'.is # "final"
    BY <1>8 DEF DiscoverRefused, Unopened, GiveUp, Ask, NoMail, Posted, Mail, server, network
  <2>2. pc = "server/discover" /\ pc' \in {"initialize", "close"}
    BY <1>8 DEF DiscoverRefused, GiveUp, Ask
  <2>3. UNCHANGED <<told, sid>>
    BY <1>8, <2>2, LearnNothing DEF DiscoverRefused, SessionInv
  <2> QED
    BY <2>1, <2>2, <2>3 DEF SessionInv
<1>9. CASE Initialized
  <2>1. UNCHANGED <<moved, lost, glimpsed, sessions>> /\ mail'.named = 0
    BY <1>9 DEF Initialized, Unopened, GiveUp, Ask, NoMail, Posted, Mail, server, network
  <2>2. /\ pc = "initialize" /\ mail.is = "ok"
        /\ pc' \in {"notifications/initialized", "close"}
    BY <1>9 DEF Initialized, GiveUp, Ask, Succeeded
  <2>3. ~moved => told = {} /\ glimpsed = {}
    BY <2>2 DEF SessionInv
  <2>4. /\ told' = told \cup ({mail.named} \ {0})
        /\ sid' = IF mail.named # 0 THEN mail.named ELSE sid
    BY <1>9 DEF Initialized, Learn
  <2>5. ~moved => told' \subseteq {sid'} /\ \A a, b \in told' : a = b
    BY <2>3, <2>4
  <2> QED
    BY <2>1, <2>2, <2>3, <2>5 DEF SessionInv
<1>10. CASE HandshakeRefused
  <2>1. UNCHANGED <<lost, glimpsed, sessions>> /\ mail'.named = 0 /\ mail'.is # "final"
    BY <1>10 DEF HandshakeRefused, Unopened, GiveUp, Ask, NoMail, Posted, Mail, server, network
  <2>2. pc \in {"initialize", "notifications/initialized"} /\ mail.is # "ok"
    BY <1>10 DEF HandshakeRefused, Failed, Losses
  <2>3. UNCHANGED <<told, sid>>
    BY <1>10, <2>2, LearnNothing DEF HandshakeRefused, SessionInv
  <2>4. CASE pc' = "close" /\ moved' = moved
    BY <2>1, <2>2, <2>3, <2>4 DEF SessionInv
  <2>5. CASE /\ MovedPastTheHandshake(Error) /\ pc' = "server/discover"
             /\ moved' = (moved \/ pc = "notifications/initialized")
    <3>1. mail.is # "final"
      BY <2>5 DEF Error, MovedPastTheHandshake
    <3>2. ~moved' => ~moved /\ pc = "initialize"
      BY <2>2, <2>5
    <3> QED
      BY <2>1, <2>2, <2>3, <2>5, <3>1, <3>2 DEF SessionInv
  <2> QED
    BY <1>10, <2>4, <2>5 DEF HandshakeRefused, GiveUp, Ask
<1>11. CASE Finished \/ Unanswerable \/ AnswerDemand \/ RequestFailed
  <2>1. UNCHANGED <<moved, lost, glimpsed, sessions>> /\ mail'.named = 0
    BY <1>11 DEF Finished, Unanswerable, AnswerDemand, RequestFailed, Answered, Ask, NoMail,
                 Posted, Mail, server, network
  <2>2. pc \in Working /\ pc' \in Working \cup {"ready", "close"}
    BY <1>11 DEF Finished, Unanswerable, AnswerDemand, RequestFailed, Answered, Ask
  <2>3. UNCHANGED <<told, sid>>
    BY <1>11, <2>2, LearnNothing DEF Finished, Unanswerable, AnswerDemand, RequestFailed,
                                     SessionInv
  <2> QED
    BY <2>1, <2>2, <2>3 DEF SessionInv
<1>12. CASE Open \/ Request \/ Leave
  <2>1. UNCHANGED <<moved, lost, glimpsed, sessions, told, sid>>
    BY <1>12 DEF Open, Request, Leave, server, learnt, network
  <2>2. (mail'.named = 0 /\ mail'.is # "final") \/ mail' = mail
    BY <1>12 DEF Open, Request, Leave, Ask, Posted, Mail
  <2>3. \/ pc = "off" /\ pc' \in {"server/discover", "initialize"} /\ mail'.is # "final"
           /\ mail'.named = 0
        \/ pc = "ready" /\ pc' \in Working \cup {"close"}
    BY <1>12 DEF Open, Request, Leave, Ask, Posted, Mail
  <2> QED
    BY <2>1, <2>2, <2>3 DEF SessionInv
<1>13. CASE Close
  <2>1. UNCHANGED <<moved, glimpsed, told, mail>> /\ pc = "close" /\ pc' = "closed"
    BY <1>13 DEF Close, network
  <2>2. ~lost' => sessions' = sessions \ {sid}
    BY <1>13 DEF Close
  <2> QED
    BY <2>1, <2>2 DEF SessionInv
<1>14. CASE Exit
  BY <1>14 DEF Exit, SessionInv
<1> QED
  BY <1>1, <1>2, <1>3, <1>4, <1>5, <1>6, <1>7, <1>8, <1>9, <1>10, <1>11, <1>12, <1>13, <1>14
  DEF Next, Between, Client

\* Every session a whole reply named is given back when the command ends.
THEOREM SessionsGivenBack == Spec => []NoneLeftOpen
<1>1. SessionInv => NoneLeftOpen
  BY DEF SessionInv, NoneLeftOpen
<1> QED
  BY <1>1, SessionInit, SessionStep, PTL DEF Spec

\* And no second one is opened beside one the client has been told of.
THEOREM OneSession == Spec => []NoSecondSession
<1>1. SessionInv => NoSecondSession
  <2> SUFFICES ASSUME SessionInv, ~moved
               PROVE  Cardinality((told \cup glimpsed) \cap sessions) <= 1
    BY DEF NoSecondSession
  <2> DEFINE StillOpen == (told \cup glimpsed) \cap sessions
  <2>1. \A a, b \in StillOpen : a = b
    BY DEF SessionInv
  <2>2. CASE StillOpen = {}
    BY <2>2, FS_EmptySet
  <2>3. CASE StillOpen # {}
    <3>1. PICK a \in StillOpen : StillOpen = {a}
      BY <2>1, <2>3
    <3> QED
      BY <3>1, FS_Singleton
  <2> QED
    BY <2>2, <2>3
<1> QED
  BY <1>1, SessionInit, SessionStep, PTL DEF Spec

-----------------------------------------------------------------------------
\* Newest picks the greatest of a set of revisions, and there is one.
LEMMA NewestIsOne ==
  ASSUME NEW n \in Nat, NEW S \in SUBSET (0..n), S # {}
  PROVE  Newest(S) \in S /\ \A w \in S : w <= Newest(S)
<1> DEFINE Below == {k \in Nat : n - k \in S}
<1>1. Below # {} /\ Below \subseteq Nat
  <2>1. PICK v \in S : TRUE
    OBVIOUS
  <2>2. n - v \in Nat /\ n - (n - v) = v
    BY <2>1
  <2> QED
    BY <2>1, <2>2
<1>2. PICK k \in Below : \A j \in Below : ~(<<j, k>> \in OpToRel(<, Nat))
  <2> HIDE DEF Below
  <2> QED
    BY <1>1, NatLessThanWellFounded, WFMin
<1>3. \A j \in Below : k <= j
  <2> SUFFICES ASSUME NEW j \in Below PROVE k <= j
    OBVIOUS
  <2>1. ~(<<j, k>> \in OpToRel(<, Nat)) /\ j \in Nat /\ k \in Nat
    BY <1>2
  <2> HIDE DEF Below
  <2> QED
    BY <2>1 DEF OpToRel
<1>4. n - k \in S /\ \A w \in S : w <= n - k
  <2>1. n - k \in S /\ k \in Nat
    BY <1>2
  <2>2. ASSUME NEW w \in S PROVE w <= n - k
    <3>1. n - w \in Nat /\ n - (n - w) = w
      OBVIOUS
    <3>2. n - w \in Below
      BY <3>1
    <3>3. k <= n - w
      BY <1>3, <3>2
    <3> QED
      BY <2>1, <3>1, <3>3
  <2> QED
    BY <2>1, <2>2
<1> QED
  BY <1>4 DEF Newest

\* What a server of these revisions may say to a discovery or an initialize it
\* does not know.
NotDiscovered == IF speaks = {} THEN {"noRoute"}
                 ELSE IF speaks \ Handshaken # {} THEN {"unsupported"}
                 ELSE {"noMethod", "noRoute", "rpcOther"}
NotInitialized == IF speaks = {} THEN {"noRoute"}
                  ELSE {"noMethod", "noRoute", "unsupported", "modern"} \cup Unforeseen

\* An opening with nothing in its way: each request has what the server says to
\* it, a handshake without a note follows a discovery that was refused, and
\* giving up has found nothing in common.
Fits ==
    /\ pc \in Opening => mail.is \in {"sent"} \cup Answers
    /\ pc = "server/discover" =>
          /\ version = Latest /\ expected # "handshake"
          /\ mail.is \in {"rpc", "status"} => Latest \notin speaks /\ mail.err \in NotDiscovered
    /\ pc = "initialize" =>
          /\ version \in 1..Handshakes
          /\ expected = "handshake" \/ Latest \notin speaks
          /\ mail.is = "ok" => /\ mail.says \in 1..Handshakes
                               /\ keeps => mail.named \in sessions \ {0}
          /\ mail.is \in {"rpc", "status"} => Handshaken = {} /\ mail.err \in NotInitialized
    /\ pc = "notifications/initialized" =>
          /\ keeps => sid \in sessions
          /\ mail.is \in {"sent", "ok"}
    /\ pc \in {"close", "closed"} => speaks \cap Known = {} \/ err \in Unforeseen

Unhindered == ~opened /\ ~faulty /\ pinned = 0 /\ Handshaken # {0}

NoteInv ==
    /\ pc \in Working \cup {"ready"} => opened
    /\ Unhindered => Fits

LEMMA NoteInit == Init => NoteInv
  BY DEF Init, NoteInv, Fits, Opening, Working

\* A request that is handled, and the answer is one that fits.
LEMMA NoteHandled ==
  ASSUME NoteInv, NEW answer, Handle(answer),
         Unhindered /\ mail' = answer => Fits'
  PROVE  NoteInv'
<1>1. UNCHANGED <<pc, opened, pinned, speaks>>
  BY DEF Handle, dialed
<1>2. pc' \in Working \cup {"ready"} => opened'
  BY <1>1 DEF NoteInv, Working
<1>3. Handshaken' = Handshaken
  BY <1>1 DEF Handshaken
<1>4. (mail' = answer /\ UNCHANGED faulty) \/ opened \/ faulty'
  BY DEF Handle, Returns
<1>5. Unhindered' => Unhindered /\ mail' = answer
  BY <1>1, <1>3, <1>4 DEF Unhindered
<1> QED
  BY <1>2, <1>5 DEF NoteInv

\* A refusal, of either shape.
LEMMA NoteRefused ==
  ASSUME NoteInv, NEW e, Refuse(e),
         Unhindered => /\ pc = "server/discover" => Latest \notin speaks /\ e \in NotDiscovered
                       /\ pc = "initialize" => Handshaken = {} /\ e \in NotInitialized
                       /\ pc # "notifications/initialized"
  PROVE  NoteInv'
<1>1. PICK carrier \in {"status", "rpc"} : Handle(Mail(carrier, e, 0, 0))
  BY DEF Refuse
<1>2. UNCHANGED <<pc, speaks, keeps, version, expected, sessions, sid, err>>
  BY <1>1 DEF Refuse, Handle, dialed, learnt
<1>3. UNCHANGED <<NotDiscovered, NotInitialized, Handshaken>>
  BY <1>2 DEF NotDiscovered, NotInitialized, Handshaken
<1>4. ASSUME Unhindered, mail' = Mail(carrier, e, 0, 0) PROVE Fits'
  <2>1. mail'.is = carrier /\ mail'.err = e /\ Fits
    BY <1>4 DEF Mail, NoteInv
  <2> QED
    BY <1>2, <1>3, <1>4, <2>1 DEF Fits, Answers
<1> QED
  BY <1>1, <1>4, NoteHandled

LEMMA NoteStep == NoteInv /\ [Next]_vars => NoteInv'
<1> SUFFICES ASSUME NoteInv, [Next]_vars PROVE NoteInv'
  OBVIOUS
<1>0. Handshakes \in Nat \ {0}
  BY HttpConstants
<1>1. CASE UNCHANGED vars
  <2>1. UNCHANGED <<pc, mail, speaks, keeps, version, expected, pinned, sessions, sid, opened,
                    faulty, err>>
    BY <1>1 DEF vars, server, dialed, learnt, network
  <2> QED
    BY <2>1 DEF NoteInv, Unhindered, Fits, Handshaken, NotDiscovered, NotInitialized
<1>2. CASE HandleDiscover
  <2>1. CASE /\ Latest \in speaks /\ Handle(Mail("ok", "none", 0, 0))
             /\ UNCHANGED <<sessions, initialized, runs>>
    <3>1. UNCHANGED <<pc, version, expected>> /\ pc = "server/discover"
      BY <1>2, <2>1 DEF HandleDiscover, Handle, dialed
    <3>2. ASSUME Unhindered, mail' = Mail("ok", "none", 0, 0) PROVE Fits'
      <4>1. mail'.is = "ok" /\ Fits
        BY <3>2 DEF Mail, NoteInv
      <4> QED
        BY <3>1, <4>1 DEF Fits, Answers
    <3> QED
      BY <2>1, <3>2, NoteHandled
  <2>2. ASSUME NEW e \in NotDiscovered, Refuse(e), Latest \notin speaks PROVE NoteInv'
    BY <1>2, <2>2, NoteRefused DEF HandleDiscover
  <2> QED
    BY <1>2, <2>1, <2>2 DEF HandleDiscover, NotDiscovered
<1>3. CASE HandleInitialize
  <2> DEFINE said == IF version \in speaks THEN version ELSE Newest(Handshaken)
  <2>1. ASSUME Handshaken # {}, NEW id \in Ids \cup {0},
               Handle(Mail("ok", "none", id, said)), UNCHANGED <<keeps, speaks>>,
               keeps => sessions' = sessions \cup {id} /\ id # 0
        PROVE  NoteInv'
    <3>1. UNCHANGED <<pc, version, expected, keeps, speaks>> /\ pc = "initialize"
      BY <1>3, <2>1 DEF HandleInitialize, Handle, dialed
    <3>2. ASSUME Unhindered, mail' = Mail("ok", "none", id, said) PROVE Fits'
      <4>1. Fits
        BY <3>2 DEF NoteInv
      <4>2. mail'.is = "ok" /\ mail'.says = said /\ mail'.named = id
        BY <3>2 DEF Mail
      <4>3. /\ Newest(Handshaken) \in Handshaken
            /\ \A w \in Handshaken : w <= Newest(Handshaken)
        <5>1. Handshaken \in SUBSET (0..Handshakes)
          BY DEF Handshaken
        <5> QED
          BY <1>0, <2>1, <5>1, NewestIsOne
      <4>4. PICK w \in Handshaken : w # 0
        BY <2>1, <3>2 DEF Unhindered
      <4>5. Newest(Handshaken) \in 1..Handshakes
        <5>1. /\ w \in 1..Handshakes /\ w <= Newest(Handshaken)
              /\ Newest(Handshaken) \in 0..Handshakes
          BY <1>0, <4>3, <4>4 DEF Handshaken
        <5> QED
          BY <1>0, <5>1
      <4>6. said \in 1..Handshakes
        BY <3>1, <4>1, <4>5 DEF Fits
      <4>7. keeps' => id \in sessions' \ {0}
        BY <2>1, <3>1
      <4> HIDE DEF said
      <4> QED
        BY <3>1, <4>1, <4>2, <4>6, <4>7 DEF Fits, Answers
    <3> HIDE DEF said
    <3> QED
      BY <2>1, <3>2, NoteHandled
  <2>2. ASSUME NEW e \in NotInitialized, Refuse(e), Handshaken = {} PROVE NoteInv'
    BY <1>3, <2>2, NoteRefused DEF HandleInitialize
  <2>3. ASSUME Handshaken # {} PROVE NoteInv'
    <3>1. CASE keeps
      <4>1. PICK id \in Ids : /\ Handle(Mail("ok", "none", id, said))
                             /\ sessions' = sessions \cup {id}
        BY <1>3, <2>3, <3>1 DEF HandleInitialize
      <4>2. UNCHANGED <<keeps, speaks>> /\ id # 0
        BY <4>1 DEF Handle, Ids
      <4> HIDE DEF said
      <4> QED
        BY <2>1, <2>3, <4>1, <4>2
    <3>2. CASE ~keeps
      <4>1. Handle(Mail("ok", "none", 0, said))
        BY <1>3, <2>3, <3>2 DEF HandleInitialize
      <4>2. UNCHANGED <<keeps, speaks>>
        BY <4>1 DEF Handle
      <4> HIDE DEF said
      <4> QED
        BY <2>1, <2>3, <3>2, <4>1, <4>2
    <3> QED
      BY <3>1, <3>2
  <2>4. ASSUME Handshaken = {} PROVE NoteInv'
    <3>1. PICK e \in NotInitialized : Refuse(e)
      BY <1>3, <2>4 DEF HandleInitialize, NotInitialized
    <3> QED
      BY <2>2, <2>4, <3>1
  <2> QED
    BY <2>3, <2>4
<1>4. CASE HandleInitialized
  <2>1. CASE /\ Handle(Mail("ok", "none", 0, 0))
             /\ UNCHANGED <<sessions, runs>>
    <3>1. /\ UNCHANGED <<pc, keeps, sid, sessions>>
          /\ pc = "notifications/initialized"
      BY <1>4, <2>1 DEF HandleInitialized, Handle, learnt
    <3>2. ASSUME Unhindered, mail' = Mail("ok", "none", 0, 0) PROVE Fits'
      <4>1. mail'.is = "ok" /\ Fits
        BY <3>2 DEF Mail, NoteInv
      <4> QED
        BY <3>1, <4>1 DEF Fits, Answers
    <3> QED
      BY <2>1, <3>2, NoteHandled
  <2>2. CASE ~Admits /\ Refuse("noRoute")
    <3>1. ~Unhindered
      BY <1>4, <2>2 DEF HandleInitialized, Admits, NoteInv, Fits
    <3> QED
      BY <2>2, <3>1, NoteRefused
  <2> QED
    BY <1>4, <2>1, <2>2 DEF HandleInitialized
<1>5. CASE HandleWork
  <2>1. opened /\ pc \in Working
    BY <1>5 DEF HandleWork, NoteInv
  <2>2. UNCHANGED <<pc, opened>>
    BY <1>5 DEF HandleWork, Refuse, Handle
  <2> QED
    BY <2>1, <2>2 DEF NoteInv, Unhindered
<1>6. CASE Undelivered \/ Expire
  <2>1. UNCHANGED <<pc, opened>> /\ (faulty' \/ opened)
    BY <1>6 DEF Undelivered, Expire
  <2> QED
    BY <2>1 DEF NoteInv, Unhindered
<1>7. CASE ToolsChange \/ Request \/ Leave
  <2>1. opened /\ opened'
    BY <1>7 DEF ToolsChange, Request, Leave, NoteInv
  <2> QED
    BY <2>1 DEF NoteInv, Unhindered
<1>8. CASE Upgrade \/ Exit
  <2>1. pc' = "off"
    BY <1>8 DEF Upgrade, Exit
  <2> QED
    BY <2>1 DEF NoteInv, Fits, Opening, Working
<1>9. CASE Finished \/ Unanswerable \/ AnswerDemand \/ RequestFailed
  <2>1. opened /\ opened'
    BY <1>9 DEF Finished, Unanswerable, AnswerDemand, RequestFailed, Answered, NoteInv
  <2> QED
    BY <2>1 DEF NoteInv, Unhindered
<1>10. CASE Discovered \/ HandshakeDone
  <2>1. opened'
    BY <1>10 DEF Discovered, HandshakeDone, Ready
  <2> QED
    BY <2>1 DEF NoteInv, Unhindered
<1>11. CASE Open
  <2>1. /\ version' = IF pinned' # 0 THEN pinned' ELSE OpensAt(note)
        /\ expected' = IF pinned' = 0 THEN note ELSE "none"
        /\ pc' = IF IsModern(version') THEN "server/discover" ELSE "initialize"
        /\ mail'.is = "sent"
    BY <1>11 DEF Open, Ask, Posted, Mail
  <2>2. ASSUME pinned' = 0 PROVE Fits'
    <3>1. version' = (IF note = "handshake" THEN Handshakes ELSE Latest) /\ expected' = note
      BY <2>1, <2>2 DEF OpensAt
    <3>2. CASE note = "handshake"
      <4>1. version' = Handshakes /\ pc' = "initialize" /\ expected' = "handshake"
        BY <1>0, <2>1, <3>1, <3>2 DEF IsModern
      <4> QED
        BY <1>0, <2>1, <4>1 DEF Fits
    <3>3. CASE note # "handshake"
      <4>1. version' = Latest /\ pc' = "server/discover" /\ expected' # "handshake"
        BY <1>0, <2>1, <3>1, <3>3 DEF IsModern, Latest
      <4> QED
        BY <2>1, <4>1 DEF Fits, Latest
    <3> QED
      BY <3>2, <3>3
  <2>3. pc' \notin Working \cup {"ready"}
    BY <2>1 DEF Working
  <2> QED
    BY <2>2, <2>3 DEF NoteInv, Unhindered
<1>12. CASE Retry
  <2>1. /\ UNCHANGED <<pc, speaks, keeps, version, expected, pinned, sessions, sid, opened,
                      faulty, err>>
        /\ mail.is \in {"unreached", "busy", "gateway", "interrupted"}
    BY <1>12 DEF Retry, SendsAgain, WorthRetrying, server, dialed, learnt, network
  <2>2. Unhindered => pc \notin Opening
    BY <2>1 DEF NoteInv, Fits, Answers
  <2>3. Unhindered' => Unhindered
    BY <2>1 DEF Unhindered, Handshaken
  <2>4. Unhindered => Fits'
    BY <2>1, <2>2 DEF NoteInv, Fits, Opening
  <2>5. pc' \in Working \cup {"ready"} => opened'
    BY <2>1 DEF NoteInv, Working
  <2> QED
    BY <2>3, <2>4, <2>5 DEF NoteInv
<1>13. CASE DiscoverRefused
  <2>1. /\ UNCHANGED <<speaks, keeps, sessions, opened, faulty, pinned, expected>>
        /\ pc = "server/discover"
    BY <1>13 DEF DiscoverRefused, Unopened, GiveUp, server, network, dialed
  <2>2. pc' \in {"initialize", "close"}
    BY <1>13 DEF DiscoverRefused, GiveUp, Ask
  <2>3. Unhindered' => Unhindered
    BY <2>1 DEF Unhindered, Handshaken
  <2>4. ASSUME Unhindered PROVE Fits'
    <3>1. Fits /\ pinned = 0
      BY <2>4 DEF NoteInv, Unhindered
    <3>2. mail.is \in {"rpc", "status"}
      BY <1>13, <2>1, <3>1 DEF DiscoverRefused, Failed, Losses, Fits, Opening, Answers
    <3>3. Latest \notin speaks /\ mail.err \in NotDiscovered
      BY <2>1, <3>1, <3>2 DEF Fits
    <3>4. Error = mail.err
      BY <2>1, <3>2 DEF Error, Probed
    <3> DEFINE named == speaks \cap 1..Handshakes
               v == InsteadOfDiscovering(Error)
    <3>5. v = IF mail.err = "unsupported" THEN (IF named = {} THEN 0 ELSE Newest(named))
              ELSE Handshakes
      BY <3>1, <3>3, <3>4 DEF InsteadOfDiscovering, NotDiscovered
    <3>6. named # {} => Newest(named) \in 1..Handshakes
      <4>1. named \in SUBSET (0..Handshakes)
        BY <1>0
      <4>2. named # {} => Newest(named) \in named
        <5> HIDE DEF named
        <5> QED
          BY <1>0, <4>1, NewestIsOne
      <4> QED
        BY <4>2
    <3>7. CASE v = 0
      <4>1. named = {}
        BY <1>0, <3>5, <3>6, <3>7
      <4>2. speaks \cap Known = {}
        BY <1>0, <3>3, <4>1 DEF Known, Latest
      <4>3. pc' = "close"
        BY <1>13, <3>7 DEF DiscoverRefused, GiveUp
      <4> QED
        BY <2>1, <4>2, <4>3 DEF Fits, Opening, Known, Latest
    <3>8. CASE v # 0
      <4>1. version' = v /\ pc' = "initialize" /\ mail'.is = "sent"
        BY <1>13, <3>8 DEF DiscoverRefused, Ask, Posted, Mail
      <4>2. v \in 1..Handshakes
        <5> HIDE DEF v, named
        <5> QED
          BY <1>0, <3>5, <3>6, <3>8
      <4>3. Latest' \notin speaks'
        BY <2>1, <3>3 DEF Latest
      <4> HIDE DEF v
      <4> QED
        BY <4>1, <4>2, <4>3 DEF Fits
    <3> QED
      BY <3>7, <3>8
  <2> QED
    BY <2>2, <2>3, <2>4 DEF NoteInv, Working
<1>14. CASE Initialized
  <2>1. /\ UNCHANGED <<speaks, keeps, sessions, opened, faulty, pinned>>
        /\ pc = "initialize" /\ mail.is = "ok"
    BY <1>14 DEF Initialized, Succeeded, Unopened, GiveUp, server, network, dialed
  <2>2. pc' \in {"notifications/initialized", "close"}
    BY <1>14 DEF Initialized, GiveUp, Ask
  <2>3. Unhindered' => Unhindered
    BY <2>1 DEF Unhindered, Handshaken
  <2>4. ASSUME Unhindered PROVE Fits'
    <3>1. mail.says \in 1..Handshakes /\ (keeps => mail.named \in sessions \ {0})
      BY <2>1, <2>4 DEF NoteInv, Fits
    <3>2. mail.says \in Known
      BY <1>0, <3>1 DEF Known, Latest
    <3>3. pc' = "notifications/initialized" /\ mail'.is = "sent"
      BY <1>14, <3>2 DEF Initialized, Ask, Posted, Mail
    <3>4. keeps' => sid' \in sessions'
      BY <1>14, <2>1, <3>1 DEF Initialized, Learn
    <3> QED
      BY <3>3, <3>4 DEF Fits
  <2> QED
    BY <2>2, <2>3, <2>4 DEF NoteInv, Working
<1>15. CASE HandshakeRefused
  <2>1. /\ UNCHANGED <<speaks, keeps, sessions, opened, faulty, pinned>>
        /\ pc \in {"initialize", "notifications/initialized"}
    BY <1>15 DEF HandshakeRefused, Unopened, GiveUp, server, network, dialed
  <2>2. pc' \in {"server/discover", "close"}
    BY <1>15 DEF HandshakeRefused, GiveUp, Ask
  <2>3. Unhindered' => Unhindered
    BY <2>1 DEF Unhindered, Handshaken
  <2>4. ASSUME Unhindered PROVE Fits'
    <3>1. Fits
      BY <2>4 DEF NoteInv
    <3>2. pc = "initialize" /\ mail.is \in {"rpc", "status"}
      BY <1>15, <2>1, <3>1 DEF HandshakeRefused, Failed, Losses, Fits, Opening, Answers
    <3>3. /\ Handshaken = {} /\ mail.err \in NotInitialized
          /\ expected = "handshake" \/ Latest \notin speaks
      BY <3>1, <3>2 DEF Fits
    <3>4. CASE expected = "handshake" /\ MovedPastTheHandshake(Error)
      <4>1. /\ pc' = "server/discover" /\ version' = Latest /\ expected' = "none"
            /\ mail'.is = "sent"
        BY <1>15, <3>4 DEF HandshakeRefused, Ask, Posted, Mail
      <4> QED
        BY <4>1 DEF Fits, Latest
    <3>5. CASE ~(expected = "handshake" /\ MovedPastTheHandshake(Error))
      <4>1. pc' = "close"
        BY <1>15, <3>5 DEF HandshakeRefused, GiveUp
      <4>2. speaks # {} => MovedPastTheHandshake(Error) \/ Error \in Unforeseen
        BY <3>2, <3>3 DEF Error, Probed, MovedPastTheHandshake, NotInitialized, Unforeseen
      <4>3. err' = Error
        BY <1>15, <3>5 DEF HandshakeRefused, GiveUp
      <4>4. speaks \cap Known = {} \/ err' \in Unforeseen
        BY <1>0, <3>3, <3>5, <4>2, <4>3 DEF Handshaken, Known, Latest
      <4> QED
        BY <2>1, <4>1, <4>4 DEF Fits, Opening, Known, Latest
    <3> QED
      BY <3>4, <3>5
  <2> QED
    BY <2>2, <2>3, <2>4 DEF NoteInv, Working
<1>16. CASE Close
  <2>1. UNCHANGED <<speaks, opened, faulty, pinned, err>> /\ pc = "close" /\ pc' = "closed"
    BY <1>16 DEF Close, dialed, network
  <2>2. Unhindered' => Unhindered
    BY <2>1 DEF Unhindered, Handshaken
  <2>3. Unhindered => Fits'
    BY <2>1 DEF NoteInv, Fits, Opening, Known, Latest
  <2> QED
    BY <2>1, <2>2, <2>3 DEF NoteInv, Working
<1> QED
  BY <1>1, <1>2, <1>3, <1>4, <1>5, <1>6, <1>7, <1>8, <1>9, <1>10, <1>11, <1>12, <1>13, <1>14,
     <1>15, <1>16 DEF Next, Between, Client

\* A stale note of a server's era costs a round trip and never the command,
\* whatever revisions there are and whatever a server speaks.
THEOREM AStaleNoteIsHarmless == Spec => []NoteCostsNoCommand
<1>1. NoteInv => NoteCostsNoCommand
  BY DEF NoteInv, Unhindered, Fits, NoteCostsNoCommand
<1> QED
  BY <1>1, NoteInit, NoteStep, PTL DEF Spec

-----------------------------------------------------------------------------
Methods == Opening \cup Working
Mails == [is : Answers \cup Losses \cup {"none", "sent"}, err : Errors,
          named : Ids \cup {0}, says : Versions]

\* The server, what the client is doing, and what the properties look at.
WorldTyped ==
    /\ speaks \in SUBSET Versions /\ keeps \in BOOLEAN /\ hint \in BOOLEAN
    /\ sessions \in SUBSET Ids /\ initialized \in SUBSET Ids
ClientTyped ==
    /\ pc \in Methods \cup {"off", "ready", "close", "closed"}
    /\ pinned \in Known \cup {0} /\ expected \in {"none", "handshake", "discovery"}
    /\ version \in Known /\ negotiated \in 0..Handshakes /\ sid \in Ids \cup {0}
    /\ tries \in 0..2 /\ rounds \in 0..Rounds
    /\ err \in Errors /\ note \in {"none", "handshake", "discovery"}
FlagsTyped ==
    /\ once \in BOOLEAN /\ spoke \in BOOLEAN /\ idem \in BOOLEAN /\ opened \in BOOLEAN
    /\ faulty \in BOOLEAN /\ misled \in BOOLEAN /\ moved \in BOOLEAN /\ declared \in BOOLEAN
    /\ lost \in BOOLEAN
    /\ told \in SUBSET Ids /\ glimpsed \in SUBSET Ids /\ runs \in Nat
MailTyped ==
    /\ mail \in Mails
    /\ mail.is = "none" => pc \notin Methods
    /\ pc \notin Methods => mail.is = "none"

\* Only revisions with a handshake are offered and taken in one, which is what
\* keeps the revision that is negotiated among those the client knows.
Offers ==
    pc = "initialize" => version \in 1..Handshakes /\ mail.says \in 0..Handshakes

TypeInv == WorldTyped /\ ClientTyped /\ FlagsTyped /\ MailTyped /\ Offers

LEMMA TypeInvTypes == TypeInv => TypeOK
<1> SUFFICES ASSUME TypeInv PROVE TypeOK
  OBVIOUS
<1> USE DEF TypeInv, WorldTyped, ClientTyped, FlagsTyped, MailTyped
<1>1. {keeps, hint, once, spoke, idem, opened, faulty, misled, moved, declared, lost}
          \subseteq BOOLEAN
  OBVIOUS
<1>2. mail.is # "none" <=> pc \in Opening \cup Working
  BY DEF Methods
<1>3. /\ pc \in Opening \cup Working \cup {"off", "ready", "close", "closed"}
      /\ mail \in [is : Answers \cup Losses \cup {"none", "sent"}, err : Errors,
                   named : Ids \cup {0}, says : Versions]
  BY DEF Methods, Mails
<1> QED
  BY <1>1, <1>2, <1>3 DEF TypeOK

LEMMA TypeConstants ==
  /\ Handshakes \in Nat \ {0} /\ Rounds \in Nat /\ Latest = Handshakes + 1
  /\ Known = 1..Latest /\ Versions = 0..(Latest + 1) /\ Ids = 1..4
  /\ Servers \subseteq SUBSET Versions
  BY HttpConstants DEF Latest, Known, Versions, Ids

LEMMA TypeInit == Init => TypeInv
<1> SUFFICES ASSUME Init PROVE TypeInv
  OBVIOUS
<1> USE TypeConstants DEF Init
<1>1. WorldTyped
  BY DEF WorldTyped
<1>2. ClientTyped
  BY DEF ClientTyped, Errors
<1>3. FlagsTyped
  BY DEF FlagsTyped
<1>4. MailTyped
  BY DEF MailTyped, Mails, NoMail, Mail, Errors, Methods, Opening, Working
<1> QED
  BY <1>1, <1>2, <1>3, <1>4 DEF TypeInv, Offers

\* What there is to be put in the mail.
LEMMA MailsTyped ==
  /\ NoMail \in Mails /\ NoMail.is = "none" /\ NoMail.says = 0
  /\ Posted \in Mails /\ Posted.is = "sent" /\ Posted.says = 0
  /\ \A kind \in Losses : /\ Lost(kind) \in Mails /\ Lost(kind).is = kind
                          /\ Lost(kind).says = 0 /\ Lost(kind).named = 0
  /\ \A is \in Answers, e \in Errors, named \in Ids \cup {0}, says \in Versions :
        /\ Mail(is, e, named, says) \in Mails /\ Mail(is, e, named, says).is = is
        /\ Mail(is, e, named, says).says = says /\ Mail(is, e, named, says).named = named
  BY TypeConstants DEF Mails, NoMail, Posted, Lost, Mail, Errors, Losses, Answers

LEMMA PlainTyped ==
  ASSUME NEW is \in Answers, NEW e \in Errors
  PROVE  Mail(is, e, 0, 0) \in Mails /\ Mail(is, e, 0, 0).is = is /\ Mail(is, e, 0, 0).says = 0
<1>1. 0 \in Ids \cup {0} /\ 0 \in Versions
  BY TypeConstants
<1> QED
  BY <1>1, MailsTyped

\* A request is handled: its answer, or a failure, is in the mail.
LEMMA TypeHandled ==
  ASSUME TypeInv, NEW answer \in Mails, answer.is \in Answers, Handle(answer),
         pc = "initialize" => answer.says \in 0..Handshakes,
         sessions' \in SUBSET Ids, initialized' \in SUBSET Ids, runs' \in Nat
  PROVE  TypeInv'
<1>1. /\ UNCHANGED <<speaks, keeps, hint, pc, tries, pinned, expected, once, version, negotiated,
                     sid, spoke, idem, rounds, err, note, opened, moved, told, lost>>
      /\ mail.is = "sent"
  BY DEF Handle, dialed, learnt
<1>2. /\ WorldTyped /\ ClientTyped /\ FlagsTyped /\ MailTyped /\ Offers
  BY DEF TypeInv
<1>3. answer.named \in Ids \cup {0} /\ answer.says \in Versions
  BY DEF Mails
<1>4. /\ mail' \in Mails /\ mail'.is # "none"
      /\ pc = "initialize" => mail'.says \in 0..Handshakes
  <2>1. CASE mail' = answer
    BY <2>1 DEF Answers
  <2>2. ASSUME NEW kind \in Losses, mail' = Lost(kind)
        PROVE  mail' \in Mails /\ mail'.is # "none" /\ mail'.says = 0
    BY <2>2, MailsTyped DEF Losses
  <2>3. mail' = answer \/ \E kind \in Losses : mail' = Lost(kind)
    BY DEF Handle, Returns, Broken, Losses
  <2> QED
    BY <2>1, <2>2, <2>3, TypeConstants
<1>5. /\ faulty' \in BOOLEAN /\ misled' \in BOOLEAN /\ declared' \in BOOLEAN
      /\ glimpsed' \in SUBSET Ids
  <2> USE <1>2, <1>3 DEF FlagsTyped
  <2>1. CASE /\ declared' = IF pc = "tools/list" /\ answer.is = "ok"
                            THEN answer.says = 1 ELSE declared
             /\ UNCHANGED <<faulty, misled, glimpsed>>
    BY <2>1
  <2>2. CASE /\ glimpsed' = glimpsed \cup ({answer.named} \ {0})
             /\ faulty' = (faulty \/ ~opened)
             /\ UNCHANGED <<misled, declared>>
    BY <2>2
  <2>3. CASE /\ faulty' = (faulty \/ ~opened)
             /\ misled' = (misled \/ mail'.is = "unreached" \/ (mail'.is = "gateway" /\ sid = 0))
             /\ UNCHANGED <<glimpsed, declared>>
    BY <2>3
  <2> QED
    BY <2>1, <2>2, <2>3 DEF Handle, Returns
<1>6. WorldTyped'
  BY <1>1, <1>2 DEF WorldTyped
<1>7. ClientTyped'
  BY <1>1, <1>2 DEF ClientTyped
<1>8. FlagsTyped'
  BY <1>1, <1>2, <1>5 DEF FlagsTyped
<1>9. MailTyped' /\ Offers'
  BY <1>1, <1>2, <1>4 DEF MailTyped, Offers
<1> QED
  BY <1>6, <1>7, <1>8, <1>9 DEF TypeInv

LEMMA TypeRefused ==
  ASSUME TypeInv, NEW e \in Errors, Refuse(e)
  PROVE  TypeInv'
<1>1. PICK carrier \in {"status", "rpc"} : Handle(Mail(carrier, e, 0, 0))
  BY DEF Refuse
<1>2. UNCHANGED <<sessions, initialized, runs>>
  BY DEF Refuse
<1>3. /\ Mail(carrier, e, 0, 0) \in Mails /\ Mail(carrier, e, 0, 0).is \in Answers
      /\ Mail(carrier, e, 0, 0).says = 0
  BY MailsTyped, TypeConstants DEF Answers
<1> QED
  BY <1>1, <1>2, <1>3, TypeHandled, TypeConstants DEF TypeInv, WorldTyped, FlagsTyped

LEMMA ErrorTyped == TypeInv => Error \in Errors
<1> SUFFICES ASSUME TypeInv PROVE Error \in Errors
  OBVIOUS
<1>1. mail.err \in Errors
  BY DEF TypeInv, MailTyped, Mails
<1>2. {"legacy", "status", "transport"} \subseteq Errors
  BY DEF Errors
<1> QED
  BY <1>1, <1>2 DEF Error

LEMMA LearnTyped ==
  ASSUME TypeInv, Learn
  PROVE  spoke' \in BOOLEAN /\ sid' \in Ids \cup {0} /\ told' \in SUBSET Ids
<1>1. mail.named \in Ids \cup {0}
  BY DEF TypeInv, MailTyped, Mails
<1>2. spoke' \in BOOLEAN
  BY DEF Learn, Spoke, TypeInv, FlagsTyped
<1> QED
  BY <1>1, <1>2 DEF Learn, TypeInv, ClientTyped, FlagsTyped

\* The command gives up, or has come up.
LEMMA TypeGivesUp ==
  ASSUME TypeInv, NEW e \in Errors, Learn, GiveUp(e), Unopened
  PROVE  TypeInv'
<1>1. /\ UNCHANGED <<speaks, keeps, hint, sessions, initialized, pinned, expected, once, version,
                     negotiated, idem, rounds, note, opened, faulty, misled, glimpsed, declared,
                     moved, runs, lost>>
      /\ pc' = "close" /\ mail' = NoMail /\ tries' = 0 /\ err' = e
  BY DEF GiveUp, Unopened, server, dialed, network
<1>2. WorldTyped'
  BY <1>1 DEF TypeInv, WorldTyped
<1>3. ClientTyped'
  BY <1>1, LearnTyped DEF TypeInv, ClientTyped
<1>4. FlagsTyped'
  BY <1>1, LearnTyped DEF TypeInv, FlagsTyped
<1>5. MailTyped' /\ Offers'
  BY <1>1, MailsTyped DEF MailTyped, Offers, Methods, Opening, Working
<1> QED
  BY <1>2, <1>3, <1>4, <1>5 DEF TypeInv

LEMMA TypeReady ==
  ASSUME TypeInv, Learn, Ready
  PROVE  TypeInv'
<1>1. /\ UNCHANGED <<speaks, keeps, hint, sessions, initialized, once, version, negotiated, idem,
                     rounds, err, misled, glimpsed, declared, moved, runs, lost>>
      /\ pc' = "ready" /\ mail' = NoMail /\ tries' = 0 /\ opened' = TRUE /\ faulty' = FALSE
      /\ pinned' = 0 /\ expected' = "none"
  BY DEF Ready, server
<1>2. note' \in {"none", "handshake", "discovery"}
  BY DEF Ready, EraOf, TypeInv, ClientTyped
<1>3. WorldTyped'
  BY <1>1 DEF TypeInv, WorldTyped
<1>4. ClientTyped'
  BY <1>1, <1>2, LearnTyped DEF TypeInv, ClientTyped
<1>5. FlagsTyped'
  BY <1>1, LearnTyped DEF TypeInv, FlagsTyped
<1>6. MailTyped' /\ Offers'
  BY <1>1, MailsTyped DEF MailTyped, Offers, Methods, Opening, Working
<1> QED
  BY <1>3, <1>4, <1>5, <1>6 DEF TypeInv

\* The opening goes on with another request.
LEMMA TypeAsksOn ==
  ASSUME TypeInv, NEW method \in Opening, Ask(method), Learn, Unopened, UNCHANGED <<pinned, once, err>>,
         expected' \in {expected, "none"}, version' \in Known, negotiated' \in 0..Handshakes,
         moved' \in BOOLEAN,
         method = "initialize" => version' \in 1..Handshakes
  PROVE  TypeInv'
<1>1. /\ UNCHANGED <<speaks, keeps, hint, sessions, initialized, idem, rounds, note, opened,
                     faulty, misled, glimpsed, declared, runs, lost>>
      /\ pc' = method /\ mail' = Posted /\ tries' = 1
  BY DEF Ask, Unopened, server, network
<1>2. WorldTyped'
  BY <1>1 DEF TypeInv, WorldTyped
<1>3. ClientTyped'
  BY <1>1, LearnTyped DEF TypeInv, ClientTyped, Methods
<1>4. FlagsTyped'
  BY <1>1, LearnTyped DEF TypeInv, FlagsTyped
<1>5. MailTyped' /\ Offers'
  BY <1>1, MailsTyped, TypeConstants DEF MailTyped, Offers, Methods
<1> QED
  BY <1>2, <1>3, <1>4, <1>5 DEF TypeInv

\* A request is over.
LEMMA TypeAnswered ==
  ASSUME TypeInv, Learn, Answered, idem' \in BOOLEAN
  PROVE  TypeInv'
<1>1. /\ UNCHANGED <<speaks, keeps, hint, sessions, initialized, pinned, expected, once, version,
                     negotiated, err, note, opened, faulty, misled, glimpsed, declared, moved,
                     lost>>
      /\ pc' \in {"ready", "close"} /\ mail' = NoMail /\ tries' = 0 /\ runs' = 0 /\ rounds' = 0
  BY DEF Answered, server, dialed, network
<1>2. WorldTyped'
  BY <1>1 DEF TypeInv, WorldTyped
<1>3. ClientTyped'
  BY <1>1, LearnTyped, TypeConstants DEF TypeInv, ClientTyped
<1>4. FlagsTyped'
  BY <1>1, LearnTyped DEF TypeInv, FlagsTyped
<1>5. MailTyped' /\ Offers'
  BY <1>1, MailsTyped DEF MailTyped, Offers, Methods, Opening, Working
<1> QED
  BY <1>2, <1>3, <1>4, <1>5 DEF TypeInv

LEMMA NewestShaken ==
  ASSUME NEW S \in SUBSET (0..Handshakes), S # {}
  PROVE  Newest(S) \in S
  BY NewestIsOne, HttpConstants

LEMMA TypeStep == TypeInv /\ [Next]_vars => TypeInv'
<1> SUFFICES ASSUME TypeInv, [Next]_vars PROVE TypeInv'
  OBVIOUS
<1>0. WorldTyped /\ ClientTyped /\ FlagsTyped /\ MailTyped /\ Offers
  BY DEF TypeInv
<1>a. sessions \in SUBSET Ids /\ initialized \in SUBSET Ids /\ runs \in Nat
  BY <1>0 DEF WorldTyped, FlagsTyped
<1> USE DEF server, dialed, learnt, network
<1>1. CASE UNCHANGED vars
  BY <1>0, <1>1 DEF vars, TypeInv, WorldTyped, ClientTyped, FlagsTyped, MailTyped, Offers
<1>2. CASE HandleDiscover
  <2>1. /\ Mail("ok", "none", 0, 0) \in Mails /\ Mail("ok", "none", 0, 0).is \in Answers
        /\ Mail("ok", "none", 0, 0).says = 0
    BY PlainTyped DEF Answers, Errors
  <2>2. \/ Handle(Mail("ok", "none", 0, 0)) /\ UNCHANGED <<sessions, initialized, runs>>
        \/ \E e \in {"noRoute", "unsupported", "noMethod", "rpcOther"} : Refuse(e)
    BY <1>2 DEF HandleDiscover
  <2>3. ASSUME NEW e \in {"noRoute", "unsupported", "noMethod", "rpcOther"}, Refuse(e)
        PROVE  TypeInv'
    BY <2>3, TypeRefused DEF Errors
  <2> QED
    BY <1>2, <1>a, <2>1, <2>2, <2>3, TypeHandled DEF HandleDiscover
<1>3. CASE HandleInitialize
  <2> DEFINE said == IF version \in speaks THEN version ELSE Newest(Handshaken)
  <2>1. Handshaken # {} => said \in 0..Handshakes
    <3>1. Handshaken # {} => Newest(Handshaken) \in Handshaken
      BY NewestShaken DEF Handshaken
    <3>2. version \in 1..Handshakes
      BY <1>0, <1>3 DEF HandleInitialize, Offers
    <3> QED
      BY <3>1, <3>2, TypeConstants DEF Handshaken
  <2>2. ASSUME NEW id \in Ids \cup {0}, Handshaken # {}, Handle(Mail("ok", "none", id, said)),
               sessions' \in SUBSET Ids, UNCHANGED <<initialized, runs>>
        PROVE  TypeInv'
    <3>1. said \in Versions
      BY <2>1, <2>2, TypeConstants
    <3>2. /\ Mail("ok", "none", id, said) \in Mails /\ Mail("ok", "none", id, said).is \in Answers
          /\ Mail("ok", "none", id, said).says = said
      BY <3>1, MailsTyped DEF Answers, Errors
    <3> QED
      BY <1>a, <2>1, <2>2, <3>2, TypeHandled
  <2>3. ASSUME NEW e \in {"noRoute", "unsupported", "noMethod", "modern"} \cup Unforeseen, Refuse(e)
        PROVE  TypeInv'
    BY <2>3, TypeRefused DEF Errors, Unforeseen
  <2>4. ASSUME NEW id \in Ids, Handle(Mail("ok", "none", id, said)), Handshaken # {},
               sessions' = sessions \cup {id}, UNCHANGED <<initialized, runs>>
        PROVE  TypeInv'
    BY <1>a, <2>2, <2>4
  <2>5. ASSUME Handle(Mail("ok", "none", 0, said)), Handshaken # {},
               UNCHANGED <<sessions, initialized, runs>>
        PROVE  TypeInv'
    BY <1>a, <2>2, <2>5
  <2>6. CASE \E e \in IF speaks = {} THEN {"noRoute"}
                      ELSE {"noMethod", "noRoute", "unsupported", "modern"} \cup Unforeseen : Refuse(e)
    BY <2>3, <2>6
  <2> QED
    BY <1>3, <2>4, <2>5, <2>6 DEF HandleInitialize
<1>4. CASE HandleInitialized
  <2>1. /\ Mail("ok", "none", 0, 0) \in Mails /\ Mail("ok", "none", 0, 0).is \in Answers
        /\ Mail("ok", "none", 0, 0).says = 0
    BY PlainTyped DEF Answers, Errors
  <2>2. CASE Refuse("noRoute")
    BY <2>2, TypeRefused DEF Errors
  <2>3. CASE /\ Handle(Mail("ok", "none", 0, 0))
             /\ initialized' = initialized \cup ({sid} \ {0})
             /\ UNCHANGED <<sessions, runs>>
    <3>1. initialized' \in SUBSET Ids
      BY <1>0, <1>a, <2>3 DEF ClientTyped
    <3> QED
      BY <1>4, <1>a, <2>1, <2>3, <3>1, TypeHandled DEF HandleInitialized
  <2> QED
    BY <1>4, <2>2, <2>3 DEF HandleInitialized
<1>5. CASE HandleWork
  <2>1. CASE Refuse("noRoute") \/ Refuse("rpcOther")
    BY <2>1, TypeRefused DEF Errors
  <2>2. ASSUME NEW says \in 0..1, Handle(Mail("ok", "none", 0, says)), runs' \in {runs, runs + 1},
               UNCHANGED <<sessions, initialized>>
        PROVE  TypeInv'
    <3>1. says \in Versions
      BY TypeConstants
    <3>2. /\ Mail("ok", "none", 0, says) \in Mails /\ Mail("ok", "none", 0, says).is \in Answers
      BY <3>1, MailsTyped DEF Answers, Errors
    <3>3. pc # "initialize"
      BY <1>5 DEF HandleWork, Working
    <3>4. runs' \in Nat
      BY <1>a, <2>2
    <3> QED
      BY <1>a, <2>2, <3>2, <3>3, <3>4, TypeHandled
  <2>3. \/ Refuse("noRoute") \/ Refuse("rpcOther")
        \/ \E says \in 0..1 : /\ Handle(Mail("ok", "none", 0, says))
                              /\ runs' \in {runs, runs + 1}
                              /\ UNCHANGED <<sessions, initialized>>
    <3>1. runs + 0 = runs
      BY <1>a
    <3> QED
      BY <1>5, <3>1 DEF HandleWork
  <2> QED
    BY <2>1, <2>2, <2>3
<1>6. CASE Undelivered
  <2>1. /\ mail' \in Mails /\ mail'.is # "none" /\ mail'.says = 0
    <3>1. \/ \E kind \in Losses : mail' = Lost(kind)
          \/ \E e \in {"noRoute", "status"} : mail' = Mail("status", e, 0, 0)
      BY <1>6 DEF Undelivered
    <3>2. ASSUME NEW kind \in Losses, mail' = Lost(kind)
          PROVE  mail' \in Mails /\ mail'.is # "none" /\ mail'.says = 0
      BY <3>2, MailsTyped DEF Losses
    <3>3. ASSUME NEW e \in {"noRoute", "status"}, mail' = Mail("status", e, 0, 0)
          PROVE  mail' \in Mails /\ mail'.is # "none" /\ mail'.says = 0
      BY <3>3, PlainTyped DEF Answers, Errors
    <3> QED
      BY <3>1, <3>2, <3>3
  <2>2. faulty' \in BOOLEAN
    BY <1>0, <1>6 DEF Undelivered, FlagsTyped
  <2>3. /\ UNCHANGED <<server, pc, tries, dialed, learnt, rounds, err, note, opened, misled,
                       glimpsed, declared, moved, told, runs, lost>>
        /\ mail.is = "sent"
    BY <1>6 DEF Undelivered
  <2>4. WorldTyped' /\ ClientTyped'
    BY <1>0, <2>3 DEF WorldTyped, ClientTyped
  <2>5. FlagsTyped'
    BY <1>0, <2>2, <2>3 DEF FlagsTyped
  <2>6. MailTyped' /\ Offers'
    BY <1>0, <2>1, <2>3, TypeConstants DEF MailTyped, Offers
  <2> QED
    BY <2>4, <2>5, <2>6 DEF TypeInv
<1>7. CASE Retry
  <2>1. WorldTyped' /\ ClientTyped' /\ FlagsTyped'
    BY <1>0, <1>7 DEF Retry, WorldTyped, ClientTyped, FlagsTyped
  <2>2. mail.is # "none"
    BY <1>7 DEF Retry, SendsAgain, WorthRetrying
  <2>3. MailTyped' /\ Offers'
    BY <1>0, <1>7, <2>2, MailsTyped, TypeConstants DEF Retry, MailTyped, Offers
  <2> QED
    BY <2>1, <2>3 DEF TypeInv
<1>8. CASE Discovered \/ HandshakeDone
  BY <1>8, TypeReady DEF Discovered, HandshakeDone
<1>9. CASE DiscoverRefused
  <2> DEFINE v == InsteadOfDiscovering(Error)
             e == IF Error = "unsupported" THEN "transport" ELSE Error
  <2>1. e \in Errors
    BY ErrorTyped DEF Errors
  <2>2. v # 0 => v \in 1..Handshakes
    <3> DEFINE named == speaks \cap 1..Handshakes
    <3>1. named # {} => Newest(named) \in named
      BY NewestShaken, TypeConstants
    <3> QED
      BY <3>1, TypeConstants DEF InsteadOfDiscovering
  <2>3. CASE v = 0
    <3>1. Learn /\ GiveUp(e) /\ Unopened
      BY <1>9, <2>3 DEF DiscoverRefused
    <3> HIDE DEF e
    <3> QED
      BY <2>1, <3>1, TypeGivesUp
  <2>4. CASE v # 0
    <3>1. /\ Learn /\ Unopened /\ version' = v /\ Ask("initialize")
          /\ UNCHANGED <<pinned, expected, once, negotiated, err, moved>>
      BY <1>9, <2>4 DEF DiscoverRefused
    <3>2. version' \in Known /\ version' \in 1..Handshakes
      BY <2>2, <2>4, <3>1, TypeConstants
    <3>3. negotiated' \in 0..Handshakes /\ moved' \in BOOLEAN
      BY <1>0, <3>1 DEF ClientTyped, FlagsTyped
    <3> QED
      BY <3>1, <3>2, <3>3, TypeAsksOn DEF Opening
  <2> QED
    BY <2>3, <2>4
<1>10. CASE Initialized
  <2>1. CASE mail.says \in Known
    <3>1. /\ Learn /\ Unopened /\ version' = mail.says /\ negotiated' = mail.says
          /\ Ask("notifications/initialized")
          /\ UNCHANGED <<pinned, expected, once, err, moved>>
      BY <1>10, <2>1 DEF Initialized
    <3>2. negotiated' \in 0..Handshakes /\ moved' \in BOOLEAN
      BY <1>0, <1>10, <3>1 DEF Initialized, Offers, FlagsTyped
    <3> QED
      BY <2>1, <3>1, <3>2, TypeAsksOn DEF Opening
  <2>2. CASE mail.says \notin Known
    BY <1>10, <2>2, TypeGivesUp DEF Initialized, Errors
  <2> QED
    BY <2>1, <2>2
<1>11. CASE HandshakeRefused
  <2>1. CASE expected = "handshake" /\ MovedPastTheHandshake(Error)
    <3>1. /\ Learn /\ Unopened /\ version' = Latest /\ expected' = "none"
          /\ Ask("server/discover")
          /\ moved' = (moved \/ pc = "notifications/initialized")
          /\ UNCHANGED <<pinned, once, negotiated, err>>
      BY <1>11, <2>1 DEF HandshakeRefused
    <3>2. negotiated' \in 0..Handshakes /\ moved' \in BOOLEAN
      BY <1>0, <3>1 DEF ClientTyped, FlagsTyped
    <3>3. version' \in Known
      BY <3>1, TypeConstants
    <3> QED
      BY <3>1, <3>2, <3>3, TypeAsksOn DEF Opening
  <2>2. CASE ~(expected = "handshake" /\ MovedPastTheHandshake(Error))
    <3>1. Learn /\ GiveUp(Error) /\ Unopened
      BY <1>11, <2>2 DEF HandshakeRefused
    <3> QED
      BY <3>1, ErrorTyped, TypeGivesUp
  <2> QED
    BY <2>1, <2>2
<1>12. CASE Open
  <2>1. /\ once' \in BOOLEAN /\ pinned' \in Known \cup {0}
        /\ expected' \in {"none", "handshake", "discovery"}
        /\ version' \in Known
    <3>1. note \in {"none", "handshake", "discovery"}
      BY <1>0 DEF ClientTyped
    <3>2. OpensAt(note) \in Known
      BY TypeConstants DEF OpensAt
    <3> QED
      BY <1>12, <3>1, <3>2 DEF Open
  <2>2. \/ pc' = "server/discover"
        \/ pc' = "initialize" /\ version' \in 1..Handshakes
    BY <1>12, <2>1, TypeConstants DEF Open, Ask, IsModern
  <2>3. /\ mail' = Posted /\ tries' = 1
        /\ UNCHANGED <<server, negotiated, learnt, rounds, err, note, opened, network, moved,
                       told, runs, lost>>
    BY <1>12 DEF Open, Ask
  <2>4. WorldTyped' /\ FlagsTyped'
    BY <1>0, <2>1, <2>3 DEF WorldTyped, FlagsTyped
  <2>5. ClientTyped'
    BY <1>0, <2>1, <2>2, <2>3 DEF ClientTyped, Methods, Opening
  <2>6. MailTyped' /\ Offers'
    BY <2>2, <2>3, MailsTyped, TypeConstants DEF MailTyped, Offers, Methods, Opening
  <2> QED
    BY <2>4, <2>5, <2>6 DEF TypeInv
<1>13. CASE Request
  <2>1. PICK method \in Working : Ask(method)
    BY <1>13 DEF Request
  <2>2. /\ pc' = method /\ mail' = Posted /\ tries' = 1 /\ rounds' = 0 /\ runs' = 0
        /\ UNCHANGED <<server, dialed, learnt, err, note, opened, network, moved, told, lost>>
    BY <1>13, <2>1 DEF Request, Ask
  <2>3. WorldTyped' /\ FlagsTyped'
    BY <1>0, <2>2 DEF WorldTyped, FlagsTyped
  <2>4. ClientTyped'
    BY <1>0, <2>2, TypeConstants DEF ClientTyped, Methods
  <2>5. MailTyped' /\ Offers'
    BY <2>2, MailsTyped DEF MailTyped, Offers, Methods, Working
  <2> QED
    BY <2>3, <2>4, <2>5 DEF TypeInv
<1>14. CASE Finished \/ Unanswerable
  <2>1. idem' \in BOOLEAN
    BY <1>0, <1>14 DEF Finished, Unanswerable, NoteTools, FlagsTyped
  <2> QED
    BY <1>14, <2>1, TypeAnswered DEF Finished, Unanswerable
<1>15. CASE RequestFailed
  <2>1. idem' \in BOOLEAN
    BY <1>0, <1>15 DEF RequestFailed, FlagsTyped
  <2> QED
    BY <1>15, <2>1, TypeAnswered DEF RequestFailed
<1>16. CASE AnswerDemand
  <2>1. /\ Learn /\ idem' \in BOOLEAN /\ pc \in Working /\ rounds < Rounds
        /\ pc' = pc /\ mail' = Posted /\ tries' = 1 /\ rounds' = rounds + 1
        /\ UNCHANGED <<server, dialed, err, note, opened, network, moved, runs, lost>>
    BY <1>0, <1>16 DEF AnswerDemand, Ask, NoteTools, FlagsTyped
  <2>2. WorldTyped'
    BY <1>0, <2>1 DEF WorldTyped
  <2>3. FlagsTyped'
    BY <1>0, <2>1, LearnTyped DEF FlagsTyped
  <2>4. rounds' \in 0..Rounds
    BY <1>0, <2>1, TypeConstants DEF ClientTyped
  <2>5. ClientTyped'
    BY <1>0, <2>1, <2>4, LearnTyped DEF ClientTyped
  <2>6. MailTyped' /\ Offers'
    BY <2>1, MailsTyped DEF MailTyped, Offers, Methods, Working
  <2> QED
    BY <2>2, <2>3, <2>5, <2>6 DEF TypeInv
<1>17. CASE Leave
  <2>1. MailTyped' /\ Offers'
    BY <1>0, <1>17 DEF Leave, MailTyped, Offers, Methods, Opening, Working
  <2> QED
    BY <1>0, <1>17, <2>1 DEF Leave, TypeInv, WorldTyped, ClientTyped, FlagsTyped
<1>18. CASE Close
  <2>1. /\ sessions' \in SUBSET Ids /\ lost' \in BOOLEAN
    BY <1>0, <1>a, <1>18 DEF Close, FlagsTyped
  <2>2. MailTyped' /\ Offers'
    BY <1>0, <1>18 DEF Close, MailTyped, Offers, Methods, Opening, Working
  <2> QED
    BY <1>0, <1>18, <2>1, <2>2 DEF Close, TypeInv, WorldTyped, ClientTyped, FlagsTyped
<1>19. CASE Exit
  <2>1. MailTyped' /\ Offers'
    BY <1>0, <1>19 DEF Exit, MailTyped, Offers, Methods, Opening, Working
  <2>2. WorldTyped' /\ FlagsTyped'
    BY <1>0, <1>19 DEF Exit, WorldTyped, FlagsTyped
  <2>3. ClientTyped'
    BY <1>0, <1>19, TypeConstants DEF Exit, ClientTyped, Errors
  <2> QED
    BY <2>1, <2>2, <2>3 DEF TypeInv
<1>20. CASE Expire
  <2>1. sessions' \in SUBSET Ids /\ faulty' \in BOOLEAN
    BY <1>0, <1>a, <1>20 DEF Expire, FlagsTyped
  <2> QED
    BY <1>0, <1>20, <2>1
       DEF Expire, TypeInv, WorldTyped, ClientTyped, FlagsTyped, MailTyped, Offers
<1>21. CASE ToolsChange
  <2>1. hint' \in BOOLEAN
    BY <1>0, <1>21 DEF ToolsChange, WorldTyped
  <2> QED
    BY <1>0, <1>21, <2>1
       DEF ToolsChange, TypeInv, WorldTyped, ClientTyped, FlagsTyped, MailTyped, Offers
<1>22. CASE Upgrade
  <2>1. speaks' \in SUBSET Versions /\ keeps' \in BOOLEAN
    BY <1>22, TypeConstants DEF Upgrade
  <2> QED
    BY <1>0, <1>22, <2>1
       DEF Upgrade, TypeInv, WorldTyped, ClientTyped, FlagsTyped, MailTyped, Offers
<1> QED
  BY <1>1, <1>2, <1>3, <1>4, <1>5, <1>6, <1>7, <1>8, <1>9, <1>10, <1>11, <1>12, <1>13, <1>14,
     <1>15, <1>16, <1>17, <1>18, <1>19, <1>20, <1>21, <1>22 DEF Next, Between, Client

(* Every variable of a connection keeps its type: whatever the server      *)
(* says, the revision that is settled on is one the client knows, and in a *)
(* handshake one that has handshakes (session.rs, open and initialize);    *)
(* and no request is sent more than twice (retry.rs).                      *)
THEOREM HttpTypeCorrect == Spec => []TypeOK
  BY TypeInit, TypeStep, TypeInvTypes, PTL DEF Spec
=============================================================================
