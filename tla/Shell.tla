-------------------------------- MODULE Shell --------------------------------
(***************************************************************************)
(* src/shell/mod.rs and the files beside it, src/subscribe.rs: one session *)
(* and one line after another, the lists the shell has of what the server  *)
(* offers, the resources it follows, and the answers it was given for what *)
(* a server may ask - with a server that changes, and says so, whenever it *)
(* likes, and a session that drops and is dialed again.                    *)
(*                                                                         *)
(* What the server offers and holds are numbered versions.  How a frame is *)
(* read is in Framed.tla and HttpSession.tla; here a request is one step,  *)
(* which takes whatever was said before its reply.                         *)
(***************************************************************************)
EXTENDS Naturals, FiniteSets

CONSTANTS
    Listings,   \* the lists a server offers
    Tools,      \* the one of them that hints are read from
    URIs,       \* resources that may be followed
    Unlisted,   \* a list nobody asked for,
    Empty,      \* and the empty one a failed request leaves
    Given,      \* what `elicit` may be given
    MaxChanges, \* bound on what changes at the server
    MaxLines,   \* bound on the lines typed
    MaxDrops    \* bound on the sessions that are lost

ASSUME ShellBounds ==
    /\ Listings \cap URIs = {} /\ Tools \in Listings /\ {Unlisted, Empty} \cap Nat = {}
    /\ MaxChanges \in Nat /\ MaxLines \in Nat /\ MaxDrops \in Nat

Subjects == Listings \cup URIs
Versions == 0..MaxChanges

NoAnswers == "no answers"

\* How a server says that something changed.
Mechanisms == {"subscribe", "listen"}

VARIABLES
    terminal,   \* whether a person is typing, on a terminal
    stdio,      \* whether the server's pipe is buffered, or only replies carry anything
    server,     \* versions, what this session registered, the revision, and whether it is there
    unread,     \* for each subject, the version of a notification not read yet, or 0
    lists,      \* Lists: what the shell has of each
    subs,       \* Subscriptions: mechanism, following, pending, acknowledged
    acting,     \* the events taken to be acted on
    pc,         \* where the loop is
    line,       \* the line being run
    dropped,    \* whether the last command found the session gone
    elicit,     \* the answers of the connection, those of the session, and if they are one
    count,      \* the lines typed, the drops, the changes
    shown,      \* for each resource, the version last put where it goes
    heard,      \* ghost: the last version of each subject a recorded notification was about
    failed,     \* ghost: what could not be read, and was reported, since it was heard of
    refused     \* ghost: what a server refused to register when it was dialed again

fixed == <<terminal, stdio>>
ghosts == <<heard, failed, refused>>
shellVars == <<fixed, server, unread, lists, subs, acting, pc, line, dropped, elicit, count, shown, ghosts>>

Lines ==
    [word : {"call", "read", "raw", "hint", "listen", "mistake", "quit"}, of : {"-"}]
    \cup [word : {"list"}, of : Listings]
    \cup [word : {"subscribe", "unsubscribe"}, of : URIs]
    \cup [word : {"elicit"}, of : Given]
NoLine == [word |-> "-", of |-> "-"]

ShellTypeOK ==
    /\ terminal \in BOOLEAN /\ stdio \in BOOLEAN /\ dropped \in BOOLEAN
    /\ server \in [at : [Subjects -> Versions], registered : SUBSET URIs,
                   speaks : Mechanisms, up : BOOLEAN]
    /\ unread \in [Subjects -> Versions]
    /\ lists \in [Listings -> Versions \cup {Unlisted, Empty}]
    /\ subs \in [mechanism : Mechanisms, following : SUBSET URIs, pending : SUBSET Subjects,
                 acknowledged : BOOLEAN]
    /\ acting \subseteq Subjects
    /\ pc \in {"prompt", "redial", "run", "explain", "poll", "acting", "over"}
    /\ line \in Lines \cup {NoLine}
    /\ elicit \in [told : Given \cup {NoAnswers}, used : Given \cup {NoAnswers}, one : BOOLEAN]
    /\ count \in [lines : 0..MaxLines, drops : 0..MaxDrops, changes : Versions]
    /\ shown \in [URIs -> Versions] /\ heard \in [Subjects -> Versions]
    /\ failed \subseteq URIs /\ refused \subseteq URIs

Nothing == [s \in Subjects |-> 0]

\* The lists are fetched at once for a terminal, where Tab completes from them;
\* the mechanism is settled by the revision of the first session.
ShellInit ==
    /\ terminal \in BOOLEAN /\ stdio \in BOOLEAN
    /\ server \in [at : {[s \in Subjects |-> 0]}, registered : {{}}, speaks : Mechanisms, up : {TRUE}]
    /\ unread = Nothing
    /\ lists = [l \in Listings |-> IF terminal THEN 0 ELSE Unlisted]
    /\ subs = [mechanism |-> server.speaks, following |-> {}, pending |-> {}, acknowledged |-> FALSE]
    /\ acting = {} /\ pc = "prompt" /\ line = NoLine /\ dropped = FALSE
    /\ elicit = [told |-> NoAnswers, used |-> NoAnswers, one |-> TRUE]
    /\ count = [lines |-> 0, drops |-> 0, changes |-> 0]
    /\ shown = [u \in URIs |-> 0] /\ heard = Nothing
    /\ failed = {} /\ refused = {}

-----------------------------------------------------------------------------
(* What is said on the way.                                                *)

Said == {s \in Subjects : unread[s] > 0}

\* record: a list's change always, a resource's only if it is followed.
Kept(following) == {s \in Said : s \in Listings \/ s \in following}
Record(acknowledged) ==
    /\ subs' = [subs EXCEPT !.pending = @ \cup Kept(subs.following), !.acknowledged = acknowledged]
    /\ heard' = [s \in Subjects |-> IF s \in Kept(subs.following) THEN unread[s] ELSE heard[s]]
    /\ failed' = failed \ Kept(subs.following)
    /\ unread' = Nothing

\* A request nobody watches reads the same frames, and what they say is dropped.
Unwatched == unread' = Nothing

-----------------------------------------------------------------------------
(* The loop.                                                               *)

\* While the editor reads, Tab may ask the server, with nobody watching.
TabCompletes ==
    /\ pc = "prompt" /\ terminal
    /\ Unwatched /\ unread # Nothing
    /\ UNCHANGED <<fixed, server, lists, subs, acting, pc, line, dropped, elicit, count, shown, ghosts>>

\* A line is read, trimmed and split; an empty one, a comment and a filter that
\* does not parse go round again without touching anything.
Types ==
    /\ pc = "prompt" /\ count.lines < MaxLines
    /\ \E l \in Lines :
         /\ line' = l
         /\ pc' = CASE l.word = "quit" -> "over"
                    [] dropped /\ terminal /\ l.word # "quit" -> "redial"
                    [] OTHER -> "run"
    /\ count' = [count EXCEPT !.lines = @ + 1]
    /\ UNCHANGED <<fixed, server, unread, lists, subs, acting, dropped, elicit, shown, ghosts>>

\* A slip: only what has been shown since is followed again.
ShownSince(following) == {u \in following : shown[u] > 0}

\* start_following again, for whatever is followed.
Refollowed(following) == following

\* The session is a new one: what is followed is asked for again, as the first
\* session did, and a refusal is passed over.  The connection keeps the answers
\* it had, but what answers the new session holds those it was opened with.
Redial ==
    /\ pc = "redial"
    /\ \/ /\ \E accepted \in SUBSET Refollowed(subs.following), speaks \in Mechanisms :
               LET registered == IF subs.mechanism = "subscribe" /\ speaks = "subscribe"
                                 THEN accepted ELSE {}
               IN /\ server' = [server EXCEPT !.up = TRUE, !.registered = registered, !.speaks = speaks]
                  /\ refused' = refused \cup (Refollowed(subs.following) \ registered)
          /\ elicit' = [elicit EXCEPT !.used = NoAnswers, !.one = FALSE]
          /\ unread' = Nothing
          /\ dropped' = FALSE /\ pc' = "run" /\ line' = line
       \/ /\ pc' = "prompt" /\ line' = NoLine
          /\ UNCHANGED <<server, unread, refused, dropped, elicit>>
    /\ UNCHANGED <<fixed, lists, subs, acting, count, shown, heard, failed>>

Ran == pc' = "poll" /\ line' = NoLine

\* shell_tools: fetched at most once, by a request nobody watches, and a failure
\* is an empty list.
Learns ==
    /\ lists[Tools] = Unlisted /\ Unwatched
    /\ \/ server.up /\ lists' = [lists EXCEPT ![Tools] = server.at[Tools]]
       \/ lists' = [lists EXCEPT ![Tools] = Empty]

\* read and prompt are watched.  Only the transport failing says that the session
\* is gone; a server that is gone fails every request, and one that is there may
\* be too slow.
Watched ==
    /\ Record(subs.acknowledged)
    /\ \/ server.up /\ UNCHANGED dropped
       \/ dropped' = TRUE
    /\ UNCHANGED <<fixed, server, lists, acting, elicit, count, shown, refused>>

Read == pc = "run" /\ line.word = "read" /\ Watched /\ Ran

\* call, too; the tool's schema is needed for arguments that are pairs, and for
\* asking for those that are missing, and again to explain a call that failed.
Schema ==
    /\ pc = "run" /\ line.word = "call" /\ Learns
    /\ UNCHANGED <<fixed, server, subs, acting, pc, line, dropped, elicit, count, shown, ghosts>>

Call ==
    /\ pc = "run" /\ line.word = "call" /\ Watched
    /\ \/ Ran
       \/ ~dropped' /\ lists[Tools] = Unlisted /\ pc' = "explain" /\ line' = line

\* help, schema and a word that is no command; and a call that was refused.
Hint ==
    /\ \/ pc = "run" /\ line.word = "hint"
       \/ pc = "explain"
    /\ \/ Learns
       \/ lists[Tools] # Unlisted /\ UNCHANGED <<lists, unread>>
    /\ Ran
    /\ UNCHANGED <<fixed, server, subs, acting, dropped, elicit, count, shown, ghosts>>

\* What sends nothing: a usage error, a denied tool, show, save, info; and retry
\* and edit, which make the next line.
Mistake ==
    /\ pc = "run" /\ line.word = "mistake" /\ Ran
    /\ UNCHANGED <<fixed, server, unread, lists, subs, acting, dropped, elicit, count, shown, ghosts>>

\* listen, where the revision has it: its filter names every list and whatever is
\* followed, and it reads for as long as it was told.
Listen ==
    /\ pc = "run" /\ line.word = "listen" /\ Ran
    /\ \/ subs.mechanism = "subscribe" /\ UNCHANGED <<server, unread, subs, heard, failed, dropped>>
       \/ /\ subs.mechanism = "listen"
          /\ \E acknowledged \in BOOLEAN :
               /\ Record(acknowledged)
               /\ server' = [server EXCEPT !.registered =
                                IF acknowledged /\ server.up THEN subs.following ELSE @]
          /\ \/ server.up /\ UNCHANGED dropped
             \/ dropped' = TRUE
    /\ UNCHANGED <<fixed, lists, acting, elicit, count, shown, refused>>

\* tools, resources and prompts.
List ==
    /\ pc = "run" /\ line.word = "list" /\ Ran /\ Unwatched
    /\ \/ /\ server.up
          /\ lists' = [lists EXCEPT ![line.of] = server.at[line.of]] /\ UNCHANGED dropped
       \/ server.up /\ UNCHANGED <<lists, dropped>>
       \/ dropped' = TRUE /\ UNCHANGED lists
    /\ UNCHANGED <<fixed, server, subs, acting, elicit, count, shown, ghosts>>

Raw ==
    /\ pc = "run" /\ line.word = "raw" /\ Ran /\ Unwatched
    /\ \/ server.up /\ UNCHANGED dropped
       \/ dropped' = TRUE
    /\ UNCHANGED <<fixed, server, lists, subs, acting, elicit, count, shown, ghosts>>

\* subscribe: where the revision has the request and the server offers it.
Subscribe ==
    /\ pc = "run" /\ line.word = "subscribe" /\ Ran
    /\ \/ /\ subs.mechanism = "listen"
          /\ subs' = [subs EXCEPT !.following = @ \cup {line.of}]
          /\ refused' = refused \ {line.of}
          /\ UNCHANGED <<server, unread, dropped>>
       \/ /\ subs.mechanism = "subscribe" /\ server.up /\ server.speaks = "subscribe" /\ Unwatched
          /\ subs' = [subs EXCEPT !.following = @ \cup {line.of}]
          /\ server' = [server EXCEPT !.registered = @ \cup {line.of}]
          /\ refused' = refused \ {line.of}
          /\ UNCHANGED dropped
       \/ /\ subs.mechanism = "subscribe" /\ Unwatched
          /\ dropped' \in {dropped, TRUE}
          /\ UNCHANGED <<subs, server, refused>>
    /\ UNCHANGED <<fixed, lists, acting, elicit, count, shown, heard, failed>>

\* unsubscribe: it is over here whatever the server makes of it.
Unsubscribe ==
    /\ pc = "run" /\ line.word = "unsubscribe" /\ Ran
    /\ \/ line.of \notin subs.following /\ UNCHANGED <<subs, server, unread, dropped, heard, refused>>
       \/ /\ line.of \in subs.following
          /\ subs' = [subs EXCEPT !.following = @ \ {line.of}, !.pending = @ \ {line.of}]
          /\ heard' = [heard EXCEPT ![line.of] = 0]
          /\ refused' = refused \ {line.of}
          /\ \/ subs.mechanism = "listen" /\ UNCHANGED <<server, unread, dropped>>
             \/ /\ subs.mechanism = "subscribe" /\ Unwatched
                /\ \/ server.up /\ server' = [server EXCEPT !.registered = @ \ {line.of}]
                      /\ UNCHANGED dropped
                   \/ dropped' \in {dropped, TRUE} /\ UNCHANGED server
    /\ UNCHANGED <<fixed, lists, acting, elicit, count, shown, failed>>

\* elicit: set on the connection's answers, which are the session's as long as
\* the session is the first.
Elicit ==
    /\ pc = "run" /\ line.word = "elicit" /\ Ran
    /\ elicit' = [elicit EXCEPT !.told = line.of, !.used = IF elicit.one THEN line.of ELSE @]
    /\ UNCHANGED <<fixed, server, unread, lists, subs, acting, dropped, count, shown, ghosts>>

-----------------------------------------------------------------------------
(* drain_subscriptions, between two commands.                              *)

\* What a stdio server has said and nobody has read is recorded first, and then
\* everything that is pending is taken.
Poll ==
    /\ pc = "poll"
    /\ LET told == IF stdio THEN Kept(subs.following) ELSE {}
       IN /\ acting' = subs.pending \cup told
          /\ heard' = [s \in Subjects |-> IF s \in told THEN unread[s] ELSE heard[s]]
          /\ failed' = failed \ told
    /\ subs' = [subs EXCEPT !.pending = {}]
    /\ unread' = Nothing
    /\ pc' = "acting"
    /\ UNCHANGED <<fixed, server, lists, line, dropped, elicit, count, shown, refused>>

\* A slip: the list that cannot be re-read is kept.
Stale(l) == lists[l]

\* A list that cannot be re-read is dropped.
Unread(l) == Unlisted

Reread ==
    /\ pc = "acting"
    /\ \E l \in acting \cap Listings :
         /\ \/ server.up /\ lists' = [lists EXCEPT ![l] = server.at[l]]
            \/ lists' = [lists EXCEPT ![l] = Unread(l)]
         /\ acting' = acting \ {l}
    /\ Unwatched
    /\ UNCHANGED <<fixed, server, subs, pc, line, dropped, elicit, count, shown, ghosts>>

\* Each event is acted on, whatever came of the others.
Left(left) == left

\* A resource is read again and put where it goes, or the failure is told.
Refresh ==
    /\ pc = "acting" /\ acting \cap Listings = {}
    /\ \E u \in acting :
         \/ /\ server.up
            /\ shown' = [shown EXCEPT ![u] = server.at[u]]
            /\ acting' = acting \ {u} /\ UNCHANGED failed
         \/ /\ acting' = Left(acting \ {u})
            /\ failed' = failed \cup {u} /\ UNCHANGED shown
    /\ Unwatched
    /\ UNCHANGED <<fixed, server, lists, subs, pc, line, dropped, elicit, count, heard, refused>>

Drained ==
    /\ pc = "acting" /\ acting = {}
    /\ pc' = "prompt"
    /\ UNCHANGED <<fixed, server, unread, lists, subs, acting, line, dropped, elicit, count, shown, ghosts>>

-----------------------------------------------------------------------------

\* Something changes, and the server says so where it must: a list if it likes, a
\* resource if this session registered it.  Without a pipe, only while a request
\* is open is there anything to say it on.
Changes ==
    /\ server.up /\ count.changes < MaxChanges
    /\ \E s \in Subjects :
         /\ server' = [server EXCEPT !.at[s] = count.changes + 1]
         /\ \/ UNCHANGED unread
            \/ /\ stdio \/ pc \in {"run", "explain", "acting"}
               /\ s \in Listings \cup server.registered
               /\ unread' = [unread EXCEPT ![s] = count.changes + 1]
    /\ count' = [count EXCEPT !.changes = @ + 1]
    /\ UNCHANGED <<fixed, lists, subs, acting, pc, line, dropped, elicit, shown, ghosts>>

\* The server's process ends, or its session does.
Dies ==
    /\ server.up /\ count.drops < MaxDrops
    /\ server' = [server EXCEPT !.up = FALSE, !.registered = {}]
    /\ count' = [count EXCEPT !.drops = @ + 1]
    /\ UNCHANGED <<fixed, unread, lists, subs, acting, pc, line, dropped, elicit, shown, ghosts>>

ShellNext ==
    \/ TabCompletes \/ Types \/ Redial \/ Read \/ Schema \/ Call \/ Hint \/ Mistake
    \/ Listen \/ List \/ Raw \/ Subscribe \/ Unsubscribe \/ Elicit \/ Poll \/ Reread \/ Refresh \/ Drained \/ Changes \/ Dies

ShellSpec == ShellInit /\ [][ShellNext]_shellVars

-----------------------------------------------------------------------------
(* What must hold.                                                         *)

AtPrompt == pc = "prompt"

\* At every prompt, a list the shell completes and explains from is at least as
\* new as the last change it was told of: a notification set aside during a call,
\* or pushed while nobody read, has been acted on, and a list that could not be
\* re-read is not there rather than wrong.
ListsAreCurrent ==
    AtPrompt => \A l \in Listings : lists[l] \in Versions => lists[l] >= heard[l]

\* At every prompt, a followed resource whose update was told has been read again
\* since, or the failure to was told - whatever became of the other events.  And as
\* long as the session is there, what the shell says it follows is registered with
\* the server it is now talking to, unless that server refused it: through every
\* drop and redial.
FollowedIsKept ==
    AtPrompt => \A u \in subs.following :
        /\ shown[u] >= heard[u] \/ u \in failed
        /\ ~dropped /\ server.up /\ subs.mechanism = "subscribe"
             => u \in server.registered \/ u \in refused

\* The answers typed with `elicit` are the ones the next question gets.
LastAnswersUsed == elicit.used = elicit.told
=============================================================================
