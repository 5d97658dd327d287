------------------------------- MODULE Tokens -------------------------------
(***************************************************************************)
(* src/oauth.rs, src/client.rs and src/cmd/auth.rs: commands that get,     *)
(* use, renew and give back the one credential saved for a server, with    *)
(* nothing locked between reading it and saving another.                   *)
(*                                                                         *)
(* A token is a number, minted with the refresh token of the same number.  *)
(* The authorization servers are external: one keeps a refresh token good  *)
(* until it is used, or for good, and an MCP server may move from one to   *)
(* another.  How a save is made safe is in CredentialStore.tla.            *)
(***************************************************************************)
EXTENDS Naturals, FiniteSets

CONSTANTS
    Commands,    \* the processes
    Issuers,     \* authorization servers
    Rotating,    \* those of them that replace a refresh token that is used
    Ports,       \* loopback ports a redirect may use
    MaxTokens,   \* bound on the tokens minted
    MaxRevoked,  \* bound on the tokens that die before their time
    MaxStarts    \* bound on the commands run

ASSUME TokenBounds == MaxTokens \in Nat \ {0} /\ MaxRevoked \in Nat /\ MaxStarts \in Nat

Tokens == 1..MaxTokens
None == 0
Anywhere == "anywhere"
ASSUME TokenNames == Anywhere \notin Issuers /\ Rotating \subseteq Issuers /\ None \notin Ports

Hosts == {"127.0.0.1", "localhost"}
NoRedirect == [port |-> None, host |-> "127.0.0.1"]
Redirects == [port : Ports, host : Hosts] \cup {NoRedirect}

\* How a client id came to be, by whom it was issued and for which redirect.
Registration == {"pre-registered", "dynamic", "client_metadata_document"}
Client == [how : Registration, issuer : Issuers \cup {Anywhere}, redirect : Redirects]
NoClient == [how |-> "pre-registered", issuer |-> Anywhere, redirect |-> NoRedirect]
Document == [NoClient EXCEPT !.how = "client_metadata_document"]

\* The issuer stands for the token endpoint saved with it, and the redirect is
\* the one of the last login.
Credential ==
    [access : Tokens \cup {None}, refresh : Tokens \cup {None},
     source : {"oauth", "client_credentials", "manual"},
     client : Client, issuer : Issuers \cup {Anywhere}, redirect : Redirects]
NoCredential ==
    [access |-> None, refresh |-> None, source |-> "manual", client |-> NoClient,
     issuer |-> Anywhere, redirect |-> NoRedirect]

VARIABLES
    saved,      \* the credential in the store, or NoCredential
    token,      \* each: "unminted", "fresh", "untimed", "aged" (as its expires_at said), "dead"
    good,       \* the refresh tokens that can be used
    home,       \* the authorization server the MCP server names
    pc,         \* where each command is
    held,       \* the credential each holds
    challenged, \* whether each has been refused once, and renews for that
    starts,     \* how many commands have been started
    code,       \* ghost: who sent the code each login is to redeem, where that can be told
    alone,      \* ghost: calls that began with a good refresh token, alone so far
    spoiled     \* ghost: a rotated token was lost with its reply or its process,
                \* or a token was set over it

vars == <<saved, token, good, home, pc, held, challenged, starts, code, alone, spoiled>>

Steps == {"idle", "resolve", "refresh", "save", "dial", "refused", "failed",
          "discover", "browser", "redeem", "grant", "set"}

TypeOK ==
    /\ saved \in Credential /\ held \in [Commands -> Credential]
    /\ token \in [Tokens -> {"unminted", "fresh", "untimed", "aged", "dead"}]
    /\ good \subseteq Tokens /\ home \in Issuers
    /\ pc \in [Commands -> Steps]
    /\ challenged \in [Commands -> BOOLEAN] /\ code \in [Commands -> Issuers \cup {Anywhere}]
    /\ starts \in 0..MaxStarts
    /\ alone \subseteq Commands /\ spoiled \in BOOLEAN

Init ==
    /\ saved = NoCredential /\ held = [p \in Commands |-> NoCredential]
    /\ token = [t \in Tokens |-> "unminted"] /\ good = {}
    /\ home \in Issuers
    /\ pc = [p \in Commands |-> "idle"]
    /\ challenged = [p \in Commands |-> FALSE]
    /\ code = [p \in Commands |-> Anywhere]
    /\ starts = 0 /\ alone = {} /\ spoiled = FALSE

-----------------------------------------------------------------------------
(* Credentials.                                                            *)

is_expired(c) == c.access # None /\ token[c.access] = "aged"
renews_by_grant(c) == c.source = "client_credentials" /\ c.client # NoClient
can_refresh(c) == (c.refresh # None \/ renews_by_grant(c)) /\ c.issuer # Anywhere

Unminted == {t \in Tokens : token[t] = "unminted"}
NewToken == CHOOSE t \in Unminted : TRUE

\* A slip: what a reply leaves out is kept, and what it brings is not.
KeepsTheOld(c, access, refresh) ==
    [c EXCEPT !.access = access, !.refresh = IF c.refresh # None THEN c.refresh ELSE refresh]

\* A token response written over a credential: a refresh token it leaves out is
\* the one there was.
FromResponse(c, access, refresh) ==
    [c EXCEPT !.access = access, !.refresh = IF refresh = None THEN @ ELSE refresh]

\* Another command that starts while one runs takes the ground from under it.
Starts(p, step, read) ==
    /\ pc[p] = "idle" /\ starts < MaxStarts
    /\ starts' = starts + 1
    /\ pc' = [pc EXCEPT ![p] = step] /\ held' = [held EXCEPT ![p] = read]
    /\ alone' = IF /\ step = "resolve"
                   /\ \A q \in Commands : pc[q] = "idle"
                   /\ saved.refresh \in good /\ saved.issuer = home
                THEN {p} ELSE {}

Goes(p, step) == pc' = [pc EXCEPT ![p] = step]

\* What the process held goes with it, or with the message it ends on.
Stops(p, step) ==
    /\ Goes(p, step)
    /\ held' = [held EXCEPT ![p] = NoCredential]
    /\ challenged' = [challenged EXCEPT ![p] = FALSE]

\* The process ends, well or badly.
Rests(p) == Stops(p, "idle") /\ alone' = alone \ {p}

-----------------------------------------------------------------------------
(* A command that talks to the server (connect, dial).                     *)

Call(p) ==
    /\ Starts(p, "resolve", NoCredential)
    /\ UNCHANGED <<saved, token, good, home, challenged, code, spoiled>>

\* select_token: one that has expired, and can be renewed, is renewed before it
\* is used.  A token in a variable is used as it is, and is not modelled.
SelectToken(p) ==
    /\ pc[p] = "resolve"
    /\ held' = [held EXCEPT ![p] = saved]
    /\ Goes(p, IF is_expired(saved) /\ can_refresh(saved) THEN "refresh" ELSE "dial")
    /\ UNCHANGED <<saved, token, good, home, challenged, starts, code, alone,
                   spoiled>>

\* The token request of refresh, or of the client credentials grant: the server
\* mints, and its reply arrives.
Renew(p) ==
    /\ pc[p] = "refresh" /\ Unminted # {}
    /\ renews_by_grant(held[p]) \/ held[p].refresh \in good
    /\ token' = [token EXCEPT ![NewToken] = "fresh"]
    /\ \E new \in {IF held[p].issuer \in Rotating /\ ~renews_by_grant(held[p]) THEN NewToken ELSE None} :
          /\ good' = IF new = None THEN good ELSE (good \ {held[p].refresh}) \cup {new}
          /\ held' = [held EXCEPT ![p] = FromResponse(@, NewToken, new)]
    /\ Goes(p, "save")
    /\ UNCHANGED <<saved, home, challenged, starts, code, alone, spoiled>>

\* The server refuses a refresh token it does not know any more, and the command
\* fails with its answer.
RenewRefused(p) ==
    /\ pc[p] = "refresh"
    /\ ~renews_by_grant(held[p]) /\ held[p].refresh \notin good
    /\ Stops(p, "failed")
    /\ UNCHANGED <<saved, token, good, home, starts, code, alone, spoiled>>

\* The request or its reply is lost, and there is no second attempt.
RenewLost(p) ==
    /\ pc[p] \in {"refresh", "save"}
    /\ spoiled' = (spoiled \/ pc[p] = "save")
    /\ Rests(p)
    /\ UNCHANGED <<saved, token, good, home, starts, code>>

Save(p) ==
    /\ pc[p] = "save"
    /\ saved' = held[p]
    /\ Goes(p, "dial")
    /\ UNCHANGED <<token, good, home, held, challenged, starts, code, alone,
                   spoiled>>

Accepted(c) == c.access # None /\ token[c.access] # "dead" /\ c.issuer \in {home, Anywhere}

\* The handshake: the server takes the token, or has no need of one.
Dial(p) ==
    /\ pc[p] = "dial"
    /\ Accepted(held[p]) \/ held[p].access = None
    /\ Rests(p)
    /\ UNCHANGED <<saved, token, good, home, starts, code, spoiled>>

\* A slip: a 401 is final, whatever could be renewed.
FinalChallenge(p) ==
    /\ pc[p] = "dial" /\ ~Accepted(held[p])
    /\ Stops(p, "refused")
    /\ UNCHANGED <<saved, token, good, home, starts, code, alone, spoiled>>

\* A 401 that a saved token got: the credential is read again, and renewed once
\* whether or not the clock says so.
Challenged(p) ==
    /\ pc[p] = "dial"
    /\ ~Accepted(held[p]) \/ (held[p].access # None /\ token[held[p].access] = "aged")
    /\ IF held[p] # NoCredential /\ ~challenged[p] /\ can_refresh(saved)
       THEN /\ Goes(p, "refresh")
            /\ held' = [held EXCEPT ![p] = saved]
            /\ challenged' = [challenged EXCEPT ![p] = TRUE]
       ELSE Stops(p, "refused")
    /\ UNCHANGED <<saved, token, good, home, starts, code, alone, spoiled>>

-----------------------------------------------------------------------------
(* login, logout and token set.                                            *)

\* The existing credential is read first of all.
Login(p) ==
    /\ Starts(p, "discover", saved)
    /\ UNCHANGED <<saved, token, good, home, challenged, code, spoiled>>

\* A client id that belongs to another authorization server; the URL of a
\* document belongs to none.
BoundElsewhere(c, issuer) ==
    c.client # NoClient /\ c.issuer # issuer /\ c.client.how # "client_metadata_document"

\* The credential whose client might serve once more.
Existing(p) == IF BoundElsewhere(held[p], home) THEN NoCredential ELSE held[p]

\* The flags of login: --client-id, --port, --redirect-host, and a document to
\* present (given, or what the server accepts).
Flags == [client_id : BOOLEAN, port : Ports \cup {None}, host : {"localhost", Anywhere},
          document : BOOLEAN]

\* A saved host goes with its port, and both with the client.
Host(p, flags, port) ==
    CASE flags.host # Anywhere -> flags.host
      [] flags.host = Anywhere /\ Existing(p).redirect.port = port -> Existing(p).redirect.host
      [] OTHER -> "127.0.0.1"

\* A slip: a client serves any redirect to its host.
SameHost(p, redirect) ==
    IF Existing(p).redirect.host = redirect.host THEN Existing(p).client ELSE NoClient

\* A client serves the exact redirect it was saved with.
Reusable(p, redirect) ==
    IF Existing(p).redirect = redirect THEN Existing(p).client ELSE NoClient

\* choose_client_id: given, or registered by hand; a document; one registered
\* before; and then register, falling back on localhost where that was not asked.
Chosen(p, flags, redirect, refused) ==
    LET reusable == Reusable(p, redirect)
        fall_back == refused /\ flags.host = Anywhere /\ redirect.host = "127.0.0.1"
        accepted == IF fall_back THEN [redirect EXCEPT !.host = "localhost"] ELSE redirect
    IN CASE flags.client_id -> [NoClient EXCEPT !.issuer = home]
         [] ~flags.client_id /\ reusable # NoClient /\ reusable.how = "pre-registered" -> reusable
         [] flags.document /\ ~flags.client_id /\ (reusable = NoClient \/ reusable.how # "pre-registered")
              -> Document
         [] ~flags.document /\ ~flags.client_id /\ reusable # NoClient /\ reusable.how = "dynamic"
              -> reusable
         [] OTHER -> [how |-> "dynamic", issuer |-> home, redirect |-> accepted]

\* The server says who authorizes for it; a port is bound, the one asked for, or
\* the one saved if it is free, or any; a client id is found.  What was registered
\* just now names the host it fell back on.
Prepared(p) ==
    {LET first == [port |-> c.port, host |-> Host(p, c.flags, c.port)]
         client == Chosen(p, c.flags, first, c.refused)
     IN [NoCredential EXCEPT
           !.client = client, !.issuer = home, !.source = "oauth",
           !.redirect = IF client.how = "dynamic" /\ Reusable(p, first) # client
                        THEN client.redirect ELSE first] :
       c \in {d \in [flags : Flags, port : Ports, refused : BOOLEAN] :
                /\ d.flags.client_id => ~d.flags.document
                /\ BoundElsewhere(held[p], home) /\ held[p].client.how = "pre-registered"
                     => d.flags.client_id
                /\ d.flags.port # None => d.port = d.flags.port}}

\* The browser is sent.
Prepare(p) ==
    /\ pc[p] = "discover"
    /\ \E c \in Prepared(p) : held' = [held EXCEPT ![p] = c]
    /\ Goes(p, "browser")
    /\ UNCHANGED <<saved, token, good, home, challenged, starts, code, alone, spoiled>>

\* A saved client of another authorization server that was registered by hand, a
\* port that is taken, a server that registers nobody: the login ends.
Fails(p) ==
    /\ pc[p] \in {"discover", "browser", "redeem", "grant"}
    /\ Stops(p, "failed") /\ code' = [code EXCEPT ![p] = Anywhere]
    /\ UNCHANGED <<saved, token, good, home, starts, alone, spoiled>>

\* What may come to the /callback of a login with an issuer: from which server,
\* as whom it names itself, and for this login or for another.  A server that
\* says it always names itself does.
Callbacks(issuer) ==
    {c \in [from : Issuers, iss : Issuers \cup {Anywhere}, own : BOOLEAN,
            is : {"code", "error", "neither"}, always : BOOLEAN] :
       /\ c.iss \in {c.from, Anywhere}
       /\ (c.from = issuer /\ c.always) => c.iss = c.from}

\* ExpectedIssuer::check.
IssuerIsExpected(issuer, iss, always) == iss = issuer \/ (iss = Anywhere /\ ~always)

\* The issuer is looked at first, then an error, then the state, then a code.
IsTaken(issuer, c) == IssuerIsExpected(issuer, c.iss, c.always) /\ c.is = "code" /\ c.own

\* Whose codes are taken, as far as that can be told.
Taken ==
    [issuer \in Issuers |->
       {IF c.always THEN c.from ELSE Anywhere : c \in {d \in Callbacks(issuer) : IsTaken(issuer, d)}}]

\* The first /callback on either listener decides; one that is not taken may
\* always come.
Callback(p) ==
    /\ pc[p] = "browser"
    /\ \/ /\ \E from \in Taken[held[p].issuer] : code' = [code EXCEPT ![p] = from]
          /\ Goes(p, "redeem") /\ UNCHANGED <<held, challenged>>
       \/ Stops(p, "failed") /\ UNCHANGED code
    /\ UNCHANGED <<saved, token, good, home, starts, alone, spoiled>>

\* The code is redeemed, and the credential saved as one step: nobody else holds
\* what is lost if that fails.
Redeem(p) ==
    /\ pc[p] = "redeem" /\ Unminted # {}
    /\ token' = [token EXCEPT ![NewToken] = "fresh"]
    /\ code' = [code EXCEPT ![p] = Anywhere]
    /\ \E refresh \in {None, NewToken} :
         /\ good' = good \cup ({refresh} \ {None})
         /\ saved' = FromResponse(held[p], NewToken, refresh)
    /\ Rests(p)
    /\ UNCHANGED <<home, starts, spoiled>>

\* The client credentials grant, for a client that answers for itself.
LoginMachine(p) ==
    /\ Starts(p, "grant", NoCredential)
    /\ UNCHANGED <<saved, token, good, home, challenged, code, spoiled>>

Grant(p) ==
    /\ pc[p] = "grant" /\ Unminted # {}
    /\ token' = [token EXCEPT ![NewToken] = "fresh"]
    /\ saved' = [NoCredential EXCEPT
                   !.access = NewToken, !.source = "client_credentials", !.issuer = home,
                   !.client = [NoClient EXCEPT !.issuer = home]]
    /\ Rests(p)
    /\ UNCHANGED <<good, home, starts, code, spoiled>>

Logout(p) ==
    /\ pc[p] = "idle" /\ starts < MaxStarts /\ starts' = starts + 1
    /\ saved' = NoCredential /\ alone' = {}
    /\ UNCHANGED <<token, good, home, pc, held, challenged, code, spoiled>>

\* token set reads the credential after the token, and writes the rest of it back.
TokenSet(p) ==
    /\ Starts(p, "set", NoCredential)
    /\ UNCHANGED <<saved, token, good, home, challenged, code, spoiled>>

TokenRead(p) ==
    /\ pc[p] = "set" /\ held[p] = NoCredential /\ Unminted # {}
    /\ token' = [token EXCEPT ![NewToken] = "untimed"]
    /\ held' = [held EXCEPT ![p] = [saved EXCEPT !.access = NewToken, !.source = "manual"]]
    /\ UNCHANGED <<saved, good, home, pc, challenged, starts, code, alone,
                   spoiled>>

TokenSaved(p) ==
    /\ pc[p] = "set" /\ held[p] # NoCredential
    /\ saved' = held[p]
    /\ spoiled' = (spoiled \/ held[p].refresh # saved.refresh)
    /\ Rests(p)
    /\ UNCHANGED <<token, good, home, starts, code>>

-----------------------------------------------------------------------------
(* The process ends, and the servers' side.                                *)

\* A command is over when its answer, or its failure, has been shown.
Ends(p) ==
    /\ pc[p] \in {"refused", "failed"} /\ Rests(p)
    /\ UNCHANGED <<saved, token, good, home, starts, code, spoiled>>

\* A token that does not outlive its renewal is no command's fault.
RenewedTo(t) == {p \in Commands : challenged[p] /\ held[p].access = t}

\* What becomes of a token nobody has makes no difference.
InUse == ({saved.access} \cup {held[p].access : p \in Commands}) \ {None}

\* The clock passes what expires_at said, less half a minute.  A token that was
\* set by hand has no such time.
Age ==
    \E t \in InUse :
      /\ token[t] = "fresh" /\ token' = [token EXCEPT ![t] = "aged"]
      /\ alone' = alone \ RenewedTo(t)
      /\ UNCHANGED <<saved, good, home, pc, held, challenged, starts, code, spoiled>>

Revoke ==
    \E t \in InUse :
      /\ Cardinality({u \in Tokens : token[u] = "dead"}) < MaxRevoked
      /\ token[t] \in {"fresh", "untimed"} /\ token' = [token EXCEPT ![t] = "dead"]
      /\ alone' = alone \ RenewedTo(t)
      /\ UNCHANGED <<saved, good, home, pc, held, challenged, starts, code, spoiled>>

\* The MCP server names another authorization server from now on.
Move ==
    /\ \E i \in Issuers \ {home} : home' = i
    /\ alone' = {}
    /\ UNCHANGED <<saved, token, good, pc, held, challenged, starts, code,
                   spoiled>>

Command(p) ==
    \/ Call(p) \/ SelectToken(p) \/ Renew(p) \/ RenewRefused(p) \/ RenewLost(p) \/ Save(p)
    \/ Dial(p) \/ Challenged(p)
    \/ Login(p) \/ Prepare(p) \/ Fails(p) \/ Callback(p) \/ Redeem(p)
    \/ LoginMachine(p) \/ Grant(p) \/ Logout(p)
    \/ TokenSet(p) \/ TokenRead(p) \/ TokenSaved(p) \/ Ends(p)

Next == (\E p \in Commands : Command(p)) \/ Age \/ Revoke \/ Move

Spec == Init /\ [][Next]_vars

-----------------------------------------------------------------------------
(* What must hold.                                                         *)

\* A client id is presented only to the authorization server that issued it, with
\* only the redirect it was registered for, and a code only to the server that
\* sent it, where that server always says who it is: through logins one after
\* another, a server that moves, a port that is taken and a host that is refused.
PresentsItsOwn ==
    \A p \in Commands : LET c == held[p].client IN
        /\ (pc[p] \in {"refresh", "browser", "redeem"} /\ c # NoClient /\ c.how # "client_metadata_document")
              => c.issuer = held[p].issuer
        /\ (pc[p] \in {"browser", "redeem"} /\ c.how = "dynamic") => held[p].redirect = c.redirect
        /\ pc[p] = "redeem" => code[p] \in {held[p].issuer, Anywhere}

\* The refresh token saved is one that still works, whatever commands renewed
\* at once, logged in and logged out, unless a reply was lost on the way: of two
\* that race for one rotation only one gets it, and that one saves it last.
RotationIsFollowed ==
    (~spoiled /\ \A p \in Commands : pc[p] # "save") => saved.refresh \in good \cup {None}

\* A command that starts with a credential that can be renewed, and has the
\* machine to itself, is not refused, whether the clock said that the token had
\* expired or the server did.
RenewsWhenRefused ==
    [][\A p \in alone : pc'[p] # "refused" /\ ~(pc[p] = "refresh" /\ pc'[p] = "failed")]_vars
=============================================================================
