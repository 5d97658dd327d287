----------------------------- MODULE TokensProofs -----------------------------
(***************************************************************************)
(* The credential of one server, for any number of commands, authorization *)
(* servers, ports and tokens: the refresh token that is saved still works, *)
(* and a client id and a code go only where they came from.                *)
(***************************************************************************)
EXTENDS Tokens, TLAPS

-----------------------------------------------------------------------------
(* Credentials and what is written over them.                              *)

LEMMA RecordsTyped ==
    /\ NoRedirect \in Redirects /\ NoClient \in Client /\ Document \in Client
    /\ NoCredential \in Credential
    /\ NoCredential.refresh = None /\ NoCredential.client = NoClient
    /\ NoCredential.source = "manual" /\ NoCredential.issuer = Anywhere
<1>1. NoRedirect \in Redirects
  BY DEF Redirects
<1>2. NoClient \in Client
  BY <1>1 DEF NoClient, Client, Registration
<1>3. Document \in Client
  BY <1>2 DEF Document, NoClient, Client, Registration
<1> QED
  BY <1>1, <1>2, <1>3 DEF NoCredential, Credential

LEMMA MintedIsNew ==
    ASSUME Unminted # {}
    PROVE  NewToken \in Tokens /\ token[NewToken] = "unminted"
  BY DEF NewToken, Unminted

LEMMA ResponseIs ==
    ASSUME NEW c \in Credential, NEW access \in Tokens, NEW refresh \in Tokens \cup {None}
    PROVE  /\ FromResponse(c, access, refresh) \in Credential
           /\ FromResponse(c, access, refresh).refresh =
                  IF refresh = None THEN c.refresh ELSE refresh
           /\ FromResponse(c, access, refresh).issuer = c.issuer
           /\ FromResponse(c, access, refresh).client = c.client
           /\ FromResponse(c, access, refresh).redirect = c.redirect
           /\ FromResponse(c, access, refresh).source = c.source
  BY DEF FromResponse, Credential

(* A client goes to its own authorization server with its own redirect.    *)
Coherent(c) ==
    /\ c.client # NoClient /\ c.client.how # "client_metadata_document" =>
           c.client.issuer = c.issuer
    /\ c.client.how = "dynamic" => c.redirect = c.client.redirect

-----------------------------------------------------------------------------
(* The types.                                                              *)

\* The host and the port a login asks for, and the client it finds for them.
LEMMA ChosenIs ==
    ASSUME TypeOK, NEW p \in Commands, NEW flags \in Flags, NEW refused \in BOOLEAN,
           NEW redirect \in [port : Ports, host : Hosts]
    PROVE  LET k == Chosen(p, flags, redirect, refused)
           IN  /\ k \in Client
               /\ \/ k = [NoClient EXCEPT !.issuer = home]
                  \/ k = Document
                  \/ k = Reusable(p, redirect) /\ k # NoClient
                  \/ k.how = "dynamic" /\ k.issuer = home
<1> USE RecordsTyped
<1> DEFINE k == Chosen(p, flags, redirect, refused)
<1>1. Reusable(p, redirect) \in Client
  <2>1. Existing(p) \in Credential
    BY DEF Existing, TypeOK
  <2> QED
    BY <2>1 DEF Reusable, Credential
<1>2. home \in Issuers
  BY DEF TypeOK
<1>3. [NoClient EXCEPT !.issuer = home] \in Client
  BY <1>2 DEF Client
<1>4. PICK accepted \in [port : Ports, host : Hosts] :
         \/ k = [NoClient EXCEPT !.issuer = home]
         \/ k = Reusable(p, redirect) /\ k # NoClient
         \/ k = Document
         \/ k = [how |-> "dynamic", issuer |-> home, redirect |-> accepted]
  <2> DEFINE accepted == IF refused /\ flags.host = Anywhere /\ redirect.host = "127.0.0.1"
                         THEN [redirect EXCEPT !.host = "localhost"] ELSE redirect
  <2>1. accepted \in [port : Ports, host : Hosts]
    BY DEF Hosts
  <2>2. \/ k = [NoClient EXCEPT !.issuer = home]
        \/ k = Reusable(p, redirect) /\ k # NoClient
        \/ k = Document
        \/ k = [how |-> "dynamic", issuer |-> home, redirect |-> accepted]
    BY DEF Chosen
  <2> HIDE DEF accepted, k
  <2> QED
    BY <2>1, <2>2
<1>5. [how |-> "dynamic", issuer |-> home, redirect |-> accepted] \in Client
  BY <1>2 DEF Client, Registration, Redirects
<1> HIDE DEF k
<1>6. k \in Client
  BY <1>1, <1>3, <1>4, <1>5
<1>7. \/ k = [NoClient EXCEPT !.issuer = home]
      \/ k = Document
      \/ k = Reusable(p, redirect) /\ k # NoClient
      \/ k.how = "dynamic" /\ k.issuer = home
  BY <1>4
<1> QED
  BY <1>6, <1>7 DEF k

\* What a login holds while the browser is out.
LEMMA PreparedIs ==
    ASSUME TypeOK, NEW p \in Commands, NEW c \in Prepared(p)
    PROVE  /\ c \in Credential /\ c.refresh = None /\ c.source = "oauth"
           /\ c.issuer = home
           /\ Coherent(held[p]) => Coherent(c)
<1> USE RecordsTyped
<1>1. PICK d \in [flags : Flags, port : Ports, refused : BOOLEAN] :
         LET first == [port |-> d.port, host |-> Host(p, d.flags, d.port)]
             client == Chosen(p, d.flags, first, d.refused)
         IN c = [NoCredential EXCEPT
                   !.client = client, !.issuer = home, !.source = "oauth",
                   !.redirect = IF client.how = "dynamic" /\ Reusable(p, first) # client
                                THEN client.redirect ELSE first]
  BY DEF Prepared
<1> DEFINE first == [port |-> d.port, host |-> Host(p, d.flags, d.port)]
           k == Chosen(p, d.flags, first, d.refused)
<1>2. d.flags \in Flags /\ d.port \in Ports /\ d.refused \in BOOLEAN
  OBVIOUS
<1>3. Host(p, d.flags, d.port) \in Hosts
  <2>1. Existing(p) \in Credential
    BY DEF Existing, TypeOK
  <2>2. Existing(p).redirect.host \in Hosts
    BY <2>1 DEF Credential, Redirects, NoRedirect, Hosts
  <2>3. d.flags.host \in {"localhost", Anywhere}
    BY <1>2 DEF Flags
  <2> QED
    BY <2>2, <2>3 DEF Host, Hosts
<1>4. first \in [port : Ports, host : Hosts]
  BY <1>2, <1>3
<1>5. c = [NoCredential EXCEPT
             !.client = k, !.issuer = home, !.source = "oauth",
             !.redirect = IF k.how = "dynamic" /\ Reusable(p, first) # k
                          THEN k.redirect ELSE first]
  BY <1>1
<1> HIDE DEF first
<1>6. /\ k \in Client
      /\ \/ k = [NoClient EXCEPT !.issuer = home]
         \/ k = Document
         \/ k = Reusable(p, first) /\ k # NoClient
         \/ k.how = "dynamic" /\ k.issuer = home
  BY <1>2, <1>4, ChosenIs
<1> HIDE DEF k
<1>7. first \in Redirects /\ k.redirect \in Redirects /\ home \in Issuers
  BY <1>4, <1>6 DEF Redirects, Client, TypeOK
<1>8. c \in Credential
  BY <1>5, <1>6, <1>7 DEF Credential
<1>9. /\ c.refresh = None /\ c.source = "oauth" /\ c.issuer = home /\ c.client = k
      /\ c.redirect = IF k.how = "dynamic" /\ Reusable(p, first) # k THEN k.redirect ELSE first
  BY <1>5 DEF Credential
<1>10. ASSUME Coherent(held[p]) PROVE Coherent(c)
  <2>1. CASE k = Reusable(p, first) /\ k # NoClient
    <3>1. Existing(p) = held[p] /\ held[p].redirect = first /\ k = held[p].client
      BY <2>1 DEF Reusable, Existing
    <3>2. k.how # "client_metadata_document" => held[p].issuer = home
      BY <2>1, <3>1 DEF Existing, BoundElsewhere
    <3> QED
      BY <1>9, <1>10, <2>1, <3>1, <3>2 DEF Coherent
  <2>2. CASE k = [NoClient EXCEPT !.issuer = home]
    BY <1>9, <2>2 DEF Coherent, NoClient
  <2>3. CASE k = Document
    BY <1>9, <2>3 DEF Coherent, Document, NoClient
  <2>4. CASE /\ k.how = "dynamic" /\ k.issuer = home
             /\ ~(k = Reusable(p, first) /\ k # NoClient)
    <3>1. k # NoClient
      BY <2>4 DEF NoClient
    <3> QED
      BY <1>9, <2>4, <3>1 DEF Coherent
  <2> QED
    BY <1>6, <2>1, <2>2, <2>3, <2>4
<1> QED
  BY <1>8, <1>9, <1>10

LEMMA StartsTyped ==
    ASSUME TypeOK, NEW p \in Commands, NEW step \in Steps, NEW c \in Credential,
           Starts(p, step, c)
    PROVE  /\ pc' \in [Commands -> Steps] /\ held' \in [Commands -> Credential]
           /\ starts' \in 0..MaxStarts /\ alone' \subseteq Commands
  BY TokenBounds DEF TypeOK, Starts

LEMMA StopsTyped ==
    ASSUME TypeOK, NEW p \in Commands, NEW step \in Steps, Stops(p, step)
    PROVE  /\ pc' \in [Commands -> Steps] /\ held' \in [Commands -> Credential]
           /\ challenged' \in [Commands -> BOOLEAN]
  BY RecordsTyped DEF TypeOK, Stops, Goes

LEMMA RestsTyped ==
    ASSUME TypeOK, NEW p \in Commands, Rests(p)
    PROVE  /\ pc' \in [Commands -> Steps] /\ held' \in [Commands -> Credential]
           /\ challenged' \in [Commands -> BOOLEAN] /\ alone' \subseteq Commands
  BY StopsTyped DEF TypeOK, Rests, Steps

LEMMA GoesTyped ==
    ASSUME TypeOK, NEW p \in Commands, NEW step \in Steps, Goes(p, step)
    PROVE  pc' \in [Commands -> Steps]
  BY DEF TypeOK, Goes

\* Who waits for a browser waits for a server that authorizes.
Authorizes == \A p \in Commands : pc[p] = "browser" => held[p].issuer \in Issuers

LEMMA TypeStep == TypeOK /\ Authorizes /\ [Next]_vars => TypeOK'
<1> SUFFICES ASSUME TypeOK, Authorizes, [Next]_vars PROVE TypeOK'
  OBVIOUS
<1> USE RecordsTyped
<1> DEFINE States == {"unminted", "fresh", "untimed", "aged", "dead"}
<1>1. CASE UNCHANGED vars
  BY <1>1 DEF vars, TypeOK
<1>2. ASSUME NEW p \in Commands,
             Call(p) \/ Login(p) \/ LoginMachine(p) \/ TokenSet(p)
      PROVE  TypeOK'
  <2>1. PICK step \in Steps, c \in Credential : Starts(p, step, c)
    BY <1>2 DEF Call, Login, LoginMachine, TokenSet, Steps, TypeOK
  <2>2. UNCHANGED <<saved, token, good, home, challenged, code, spoiled>>
    BY <1>2 DEF Call, Login, LoginMachine, TokenSet
  <2>3. /\ pc' \in [Commands -> Steps] /\ held' \in [Commands -> Credential]
        /\ starts' \in 0..MaxStarts /\ alone' \subseteq Commands
    BY <2>1, StartsTyped
  <2> QED
    BY <2>2, <2>3 DEF TypeOK
<1>3. ASSUME NEW p \in Commands, SelectToken(p) PROVE TypeOK'
  BY <1>3 DEF SelectToken, TypeOK, Goes, Steps
<1>4. ASSUME NEW p \in Commands, Renew(p) PROVE TypeOK'
  <2>1. NewToken \in Tokens
    BY <1>4, MintedIsNew DEF Renew
  <2>2. PICK new \in {NewToken, None} :
          /\ good' = IF new = None THEN good ELSE (good \ {held[p].refresh}) \cup {new}
          /\ held' = [held EXCEPT ![p] = FromResponse(held[p], NewToken, new)]
    BY <1>4 DEF Renew
  <2>3. held' \in [Commands -> Credential] /\ good' \subseteq Tokens
    BY <2>1, <2>2, ResponseIs DEF TypeOK
  <2>4. /\ token' = [token EXCEPT ![NewToken] = "fresh"] /\ Goes(p, "save")
        /\ UNCHANGED <<saved, home, challenged, starts, code, alone, spoiled>>
    BY <1>4 DEF Renew
  <2>5. pc' \in [Commands -> Steps]
    BY <2>4, GoesTyped DEF Steps
  <2> QED
    BY <2>1, <2>3, <2>4, <2>5 DEF TypeOK
<1>5. ASSUME NEW p \in Commands, RenewRefused(p) PROVE TypeOK'
  <2>1. /\ Stops(p, "failed")
        /\ UNCHANGED <<saved, token, good, home, starts, code, alone, spoiled>>
    BY <1>5 DEF RenewRefused
  <2> QED
    BY <2>1, StopsTyped DEF TypeOK, Steps
<1>6. ASSUME NEW p \in Commands, RenewLost(p) \/ Dial(p) \/ Ends(p) PROVE TypeOK'
  <2>1. /\ Rests(p) /\ spoiled' \in BOOLEAN
        /\ UNCHANGED <<saved, token, good, home, starts, code>>
    BY <1>6 DEF RenewLost, Dial, Ends, TypeOK
  <2> QED
    BY <2>1, RestsTyped DEF TypeOK
<1>7. ASSUME NEW p \in Commands, Save(p) PROVE TypeOK'
  <2>1. /\ saved' = held[p] /\ Goes(p, "dial")
        /\ UNCHANGED <<token, good, home, held, challenged, starts, code, alone, spoiled>>
    BY <1>7 DEF Save
  <2> QED
    BY <2>1, GoesTyped DEF TypeOK, Steps
<1>8. ASSUME NEW p \in Commands, Challenged(p) PROVE TypeOK'
  <2>1. UNCHANGED <<saved, token, good, home, starts, code, alone, spoiled>>
    BY <1>8 DEF Challenged
  <2>2. CASE Stops(p, "refused")
    BY <2>1, <2>2, StopsTyped DEF TypeOK, Steps
  <2>3. CASE /\ Goes(p, "refresh") /\ held' = [held EXCEPT ![p] = saved]
             /\ challenged' = [challenged EXCEPT ![p] = TRUE]
    BY <2>1, <2>3, GoesTyped DEF TypeOK, Steps
  <2> QED
    BY <1>8, <2>2, <2>3 DEF Challenged
<1>9. ASSUME NEW p \in Commands, Prepare(p) PROVE TypeOK'
  <2>1. PICK c \in Prepared(p) : held' = [held EXCEPT ![p] = c]
    BY <1>9 DEF Prepare
  <2>2. held' \in [Commands -> Credential]
    BY <2>1, PreparedIs DEF TypeOK
  <2>3. /\ Goes(p, "browser")
        /\ UNCHANGED <<saved, token, good, home, challenged, starts, code, alone, spoiled>>
    BY <1>9 DEF Prepare
  <2> QED
    BY <2>2, <2>3, GoesTyped DEF TypeOK, Steps
<1>10. ASSUME NEW p \in Commands, Fails(p) PROVE TypeOK'
  <2>1. /\ Stops(p, "failed") /\ code' = [code EXCEPT ![p] = Anywhere]
        /\ UNCHANGED <<saved, token, good, home, starts, alone, spoiled>>
    BY <1>10 DEF Fails
  <2> QED
    BY <2>1, StopsTyped DEF TypeOK, Steps
<1>11. ASSUME NEW p \in Commands, Callback(p) PROVE TypeOK'
  <2>1. UNCHANGED <<saved, token, good, home, starts, alone, spoiled>>
    BY <1>11 DEF Callback
  <2>2. CASE Stops(p, "failed") /\ UNCHANGED code
    BY <2>1, <2>2, StopsTyped DEF TypeOK, Steps
  <2>3. CASE /\ \E from \in Taken[held[p].issuer] : code' = [code EXCEPT ![p] = from]
             /\ Goes(p, "redeem") /\ UNCHANGED <<held, challenged>>
    <3>1. PICK from \in Taken[held[p].issuer] : code' = [code EXCEPT ![p] = from]
      BY <2>3
    <3>2. held[p].issuer \in Issuers
      BY <1>11 DEF Callback, Authorizes
    <3>3. from \in Issuers \cup {Anywhere}
      BY <3>1, <3>2 DEF Taken, Callbacks
    <3>4. code' \in [Commands -> Issuers \cup {Anywhere}]
      BY <3>1, <3>3 DEF TypeOK
    <3> QED
      BY <2>1, <2>3, <3>4, GoesTyped DEF TypeOK, Steps
  <2> QED
    BY <1>11, <2>2, <2>3 DEF Callback
<1>12. ASSUME NEW p \in Commands, Redeem(p) PROVE TypeOK'
  <2>1. NewToken \in Tokens
    BY <1>12, MintedIsNew DEF Redeem
  <2>2. PICK refresh \in {None, NewToken} :
          /\ good' = good \cup ({refresh} \ {None})
          /\ saved' = FromResponse(held[p], NewToken, refresh)
    BY <1>12 DEF Redeem
  <2>3. good' \subseteq Tokens /\ saved' \in Credential
    BY <2>1, <2>2, ResponseIs DEF TypeOK
  <2>4. /\ token' = [token EXCEPT ![NewToken] = "fresh"] /\ Rests(p)
        /\ code' = [code EXCEPT ![p] = Anywhere]
        /\ UNCHANGED <<home, starts, spoiled>>
    BY <1>12 DEF Redeem
  <2> QED
    BY <2>1, <2>3, <2>4, RestsTyped DEF TypeOK
<1>13. ASSUME NEW p \in Commands, Grant(p) PROVE TypeOK'
  <2>1. NewToken \in Tokens
    BY <1>13, MintedIsNew DEF Grant
  <2>2. /\ token' = [token EXCEPT ![NewToken] = "fresh"] /\ Rests(p)
        /\ saved' = [NoCredential EXCEPT
                       !.access = NewToken, !.source = "client_credentials", !.issuer = home,
                       !.client = [NoClient EXCEPT !.issuer = home]]
        /\ UNCHANGED <<good, home, starts, code, spoiled>>
    BY <1>13 DEF Grant
  <2>3. [NoClient EXCEPT !.issuer = home] \in Client
    BY DEF TypeOK, Client
  <2>4. saved' \in Credential
    BY <2>1, <2>2, <2>3 DEF TypeOK, Credential
  <2> QED
    BY <2>1, <2>2, <2>4, RestsTyped DEF TypeOK
<1>14. ASSUME NEW p \in Commands, Logout(p) PROVE TypeOK'
  BY <1>14, TokenBounds DEF Logout, TypeOK
<1>15. ASSUME NEW p \in Commands, TokenRead(p) PROVE TypeOK'
  <2>1. NewToken \in Tokens
    BY <1>15, MintedIsNew DEF TokenRead
  <2>2. [saved EXCEPT !.access = NewToken, !.source = "manual"] \in Credential
    BY <2>1 DEF TypeOK, Credential
  <2> QED
    BY <1>15, <2>1, <2>2 DEF TokenRead, TypeOK
<1>16. ASSUME NEW p \in Commands, TokenSaved(p) PROVE TypeOK'
  <2>1. /\ saved' = held[p] /\ spoiled' \in BOOLEAN /\ Rests(p)
        /\ UNCHANGED <<token, good, home, starts, code>>
    BY <1>16 DEF TokenSaved, TypeOK
  <2> QED
    BY <2>1, RestsTyped DEF TypeOK
<1>17. CASE Age \/ Revoke \/ Move
  <2>1. CASE Move
    BY <1>17, <2>1 DEF Move, TypeOK
  <2>2. CASE Age \/ Revoke
    <3>1. PICK t \in InUse, state \in {"aged", "dead"} : token' = [token EXCEPT ![t] = state]
      BY <2>2 DEF Age, Revoke
    <3>2. t \in Tokens
      BY <3>1 DEF InUse, TypeOK, Credential
    <3>3. /\ alone' \subseteq alone
          /\ UNCHANGED <<saved, good, home, pc, held, challenged, starts, code, spoiled>>
      BY <2>2 DEF Age, Revoke
    <3> QED
      BY <3>1, <3>2, <3>3 DEF TypeOK
  <2> QED
    BY <1>17, <2>1, <2>2
<1> QED
  BY <1>1, <1>2, <1>3, <1>4, <1>5, <1>6, <1>7, <1>8, <1>9, <1>10, <1>11, <1>12, <1>13, <1>14,
     <1>15, <1>16, <1>17 DEF Next, Command

\* What a command holds, and where it is, is its own.
LEMMA Frame ==
    ASSUME TypeOK, NEW p \in Commands, Command(p)
    PROVE  \A q \in Commands \ {p} :
              pc'[q] = pc[q] /\ held'[q] = held[q] /\ code'[q] = code[q]
<1>1. CASE Call(p) \/ Login(p) \/ LoginMachine(p) \/ TokenSet(p) \/ Logout(p)
  BY <1>1 DEF TypeOK, Call, Login, LoginMachine, TokenSet, Logout, Starts
<1>2. CASE SelectToken(p) \/ Renew(p) \/ Save(p) \/ Prepare(p) \/ TokenRead(p)
  BY <1>2 DEF TypeOK, SelectToken, Renew, Save, Prepare, TokenRead, Goes
<1>3. CASE RenewLost(p) \/ Dial(p) \/ Ends(p) \/ TokenSaved(p) \/ Grant(p) \/ Redeem(p)
  BY <1>3 DEF TypeOK, RenewLost, Dial, Ends, TokenSaved, Grant, Redeem, Rests, Stops, Goes
<1>4. CASE RenewRefused(p) \/ Challenged(p) \/ Fails(p) \/ Callback(p)
  BY <1>4 DEF TypeOK, RenewRefused, Challenged, Fails, Callback, Stops, Goes
<1> QED
  BY <1>1, <1>2, <1>3, <1>4 DEF Command

LEMMA AuthorizesStep == TypeOK /\ Authorizes /\ [Next]_vars => Authorizes'
<1> SUFFICES ASSUME TypeOK, Authorizes, [Next]_vars PROVE Authorizes'
  OBVIOUS
<1>1. CASE UNCHANGED vars
  BY <1>1 DEF vars, Authorizes
<1>2. CASE Age \/ Revoke \/ Move
  <2>1. UNCHANGED <<pc, held>>
    BY <1>2 DEF Age, Revoke, Move
  <2> QED
    BY <2>1 DEF Authorizes
<1>3. ASSUME NEW p \in Commands, Command(p) PROVE Authorizes'
  <2>1. CASE Prepare(p)
    <3>1. PICK c \in Prepared(p) : held' = [held EXCEPT ![p] = c]
      BY <2>1 DEF Prepare
    <3>2. held'[p].issuer = home
      BY <3>1, PreparedIs DEF TypeOK
    <3> QED
      BY <1>3, <3>2, Frame DEF Authorizes, TypeOK
  <2>2. ASSUME ~Prepare(p) PROVE pc'[p] # "browser"
    <3>1. CASE Call(p) \/ Login(p) \/ LoginMachine(p) \/ TokenSet(p) \/ Logout(p)
      BY <3>1 DEF TypeOK, Call, Login, LoginMachine, TokenSet, Logout, Starts
    <3>2. CASE SelectToken(p) \/ Renew(p) \/ Save(p) \/ TokenRead(p)
      BY <3>2 DEF TypeOK, SelectToken, Renew, Save, TokenRead, Goes
    <3>3. CASE RenewLost(p) \/ Dial(p) \/ Ends(p) \/ TokenSaved(p) \/ Grant(p) \/ Redeem(p)
      BY <3>3 DEF TypeOK, RenewLost, Dial, Ends, TokenSaved, Grant, Redeem, Rests, Stops, Goes
    <3>4. CASE RenewRefused(p) \/ Challenged(p) \/ Fails(p) \/ Callback(p)
      BY <3>4 DEF TypeOK, RenewRefused, Challenged, Fails, Callback, Stops, Goes
    <3> QED
      BY <1>3, <2>2, <3>1, <3>2, <3>3, <3>4 DEF Command
  <2> QED
    BY <1>3, <2>1, <2>2, Frame DEF Authorizes
<1> QED
  BY <1>1, <1>2, <1>3 DEF Next

TypeInv == TypeOK /\ Authorizes

LEMMA TypeInvHolds == Spec => []TypeInv
<1>1. Init => TypeInv
  <2> SUFFICES ASSUME Init PROVE TypeInv
    OBVIOUS
  <2>1. starts \in 0..MaxStarts
    BY TokenBounds DEF Init
  <2>2. pc \in [Commands -> Steps] /\ Authorizes
    BY DEF Init, Steps, Authorizes
  <2> QED
    BY <2>1, <2>2, RecordsTyped DEF Init, TypeInv, TypeOK
<1>2. TypeInv /\ [Next]_vars => TypeInv'
  BY TypeStep, AuthorizesStep DEF TypeInv
<1> QED
  BY <1>1, <1>2, PTL DEF Spec

(* Every variable has its type, for any constants.                         *)
THEOREM TypeCorrect == Spec => []TypeOK
<1>1. TypeInv => TypeOK
  BY DEF TypeInv
<1> QED
  BY <1>1, TypeInvHolds, PTL

-----------------------------------------------------------------------------
(* What is presented, and to whom.                                         *)
CoherentInv ==
    /\ Coherent(saved)
    /\ \A p \in Commands :
         /\ Coherent(held[p])
         /\ pc[p] = "redeem" => code[p] \in {held[p].issuer, Anywhere}

LEMMA CoherentResponse ==
    ASSUME NEW c \in Credential, NEW access \in Tokens, NEW refresh \in Tokens \cup {None},
           Coherent(c)
    PROVE  Coherent(FromResponse(c, access, refresh))
  BY ResponseIs DEF Coherent

LEMMA CoherentNothing == Coherent(NoCredential)
  BY DEF Coherent, NoCredential, NoClient

\* A code that is taken is of the server that was asked, where that can be told.
LEMMA TakenIsOwn ==
    ASSUME NEW issuer \in Issuers, NEW from \in Taken[issuer]
    PROVE  from \in {issuer, Anywhere}
<1>1. PICK c \in Callbacks(issuer) :
         IsTaken(issuer, c) /\ from = IF c.always THEN c.from ELSE Anywhere
  BY DEF Taken
<1>2. c.iss \in {c.from, Anywhere}
  BY DEF Callbacks
<1>3. c.iss = issuer \/ (c.iss = Anywhere /\ ~c.always)
  BY <1>1 DEF IsTaken, IssuerIsExpected
<1> QED
  BY <1>1, <1>2, <1>3, TokenNames

LEMMA CoherentStep == TypeInv /\ CoherentInv /\ [Next]_vars => CoherentInv'
<1> SUFFICES ASSUME TypeOK, Authorizes, CoherentInv, [Next]_vars PROVE CoherentInv'
  BY DEF TypeInv
<1>1. CASE UNCHANGED <<saved, pc, held, code>>
  BY <1>1 DEF CoherentInv, Coherent
\* It is enough to look at what is saved and at what the command holds.
<1>2. ASSUME NEW p \in Commands, Command(p), Coherent(saved'), Coherent(held'[p]),
             pc'[p] = "redeem" => code'[p] \in {held'[p].issuer, Anywhere}
      PROVE  CoherentInv'
  <2>1. ASSUME NEW q \in Commands
        PROVE  /\ Coherent(held'[q])
               /\ pc'[q] = "redeem" => code'[q] \in {held'[q].issuer, Anywhere}
    <3>1. CASE q = p
      BY <1>2, <3>1
    <3>2. CASE q # p
      BY <1>2, <3>2, Frame DEF CoherentInv, Coherent
    <3> QED
      BY <3>1, <3>2
  <2> QED
    BY <1>2, <2>1 DEF CoherentInv, Coherent
<1>3. ASSUME NEW p \in Commands, Stops(p, "idle") \/ Stops(p, "failed") \/ Stops(p, "refused")
      PROVE  Coherent(held'[p]) /\ pc'[p] # "redeem"
  <2>1. held'[p] = NoCredential /\ pc'[p] # "redeem"
    BY <1>3 DEF Stops, Goes, TypeOK
  <2> QED
    BY <2>1, CoherentNothing
<1>4. Coherent(saved) /\ \A q \in Commands : Coherent(held[q])
  BY DEF CoherentInv
<1>5. ASSUME NEW p \in Commands, Call(p) \/ Login(p) \/ LoginMachine(p) \/ TokenSet(p)
      PROVE  CoherentInv'
  <2>1. held'[p] \in {NoCredential, saved} /\ pc'[p] # "redeem" /\ saved' = saved
    BY <1>5 DEF Call, Login, LoginMachine, TokenSet, Starts, TypeOK
  <2>2. Coherent(held'[p]) /\ Coherent(saved')
    BY <1>4, <2>1, CoherentNothing
  <2> QED
    BY <1>2, <1>5, <2>1, <2>2 DEF Command
<1>6. ASSUME NEW p \in Commands, SelectToken(p) PROVE CoherentInv'
  <2>1. held'[p] = saved /\ pc'[p] # "redeem" /\ saved' = saved
    BY <1>6 DEF SelectToken, Goes, TypeOK
  <2>2. Coherent(held'[p]) /\ Coherent(saved')
    BY <1>4, <2>1
  <2> QED
    BY <1>2, <1>6, <2>1, <2>2 DEF Command
<1>7. ASSUME NEW p \in Commands, Renew(p) PROVE CoherentInv'
  <2>1. NewToken \in Tokens
    BY <1>7, MintedIsNew DEF Renew
  <2>2. PICK new \in {NewToken, None} :
          held' = [held EXCEPT ![p] = FromResponse(held[p], NewToken, new)]
    BY <1>7 DEF Renew
  <2>3. pc'[p] # "redeem" /\ saved' = saved
    BY <1>7 DEF Renew, Goes, TypeOK
  <2>4. held[p] \in Credential /\ held'[p] = FromResponse(held[p], NewToken, new)
    BY <2>2 DEF TypeOK
  <2>5. Coherent(held'[p])
    BY <1>4, <2>1, <2>4, CoherentResponse
  <2>6. Coherent(saved')
    BY <1>4, <2>3
  <2> QED
    BY <1>2, <1>7, <2>3, <2>5, <2>6 DEF Command
<1>8. ASSUME NEW p \in Commands,
             RenewRefused(p) \/ RenewLost(p) \/ Dial(p) \/ Fails(p) \/ Ends(p)
      PROVE  CoherentInv'
  <2>1. saved' = saved
    BY <1>8 DEF RenewRefused, RenewLost, Dial, Fails, Ends
  <2>2. Stops(p, "idle") \/ Stops(p, "failed")
    BY <1>8 DEF RenewRefused, RenewLost, Dial, Fails, Ends, Rests
  <2>3. Coherent(saved')
    BY <1>4, <2>1
  <2> QED
    BY <1>2, <1>3, <1>8, <2>2, <2>3 DEF Command
<1>9. ASSUME NEW p \in Commands, Save(p) PROVE CoherentInv'
  <2>1. saved' = held[p] /\ held'[p] = held[p] /\ pc'[p] # "redeem"
    BY <1>9 DEF Save, Goes, TypeOK
  <2>2. Coherent(held'[p]) /\ Coherent(saved')
    BY <1>4, <2>1
  <2> QED
    BY <1>2, <1>9, <2>1, <2>2 DEF Command
<1>10. ASSUME NEW p \in Commands, Challenged(p) PROVE CoherentInv'
  <2>1. saved' = saved
    BY <1>10 DEF Challenged
  <2>2. Coherent(saved')
    BY <1>4, <2>1
  <2>3. CASE Stops(p, "refused")
    BY <1>2, <1>3, <1>10, <2>2, <2>3 DEF Command
  <2>4. CASE Goes(p, "refresh") /\ held' = [held EXCEPT ![p] = saved]
    <3>1. held'[p] = saved /\ pc'[p] # "redeem"
      BY <2>4 DEF Goes, TypeOK
    <3>2. Coherent(held'[p])
      BY <1>4, <3>1
    <3> QED
      BY <1>2, <1>10, <2>2, <3>1, <3>2 DEF Command
  <2> QED
    BY <1>10, <2>3, <2>4 DEF Challenged
<1>11. ASSUME NEW p \in Commands, Prepare(p) PROVE CoherentInv'
  <2>1. PICK c \in Prepared(p) : held' = [held EXCEPT ![p] = c]
    BY <1>11 DEF Prepare
  <2>2. held'[p] = c /\ pc'[p] # "redeem" /\ saved' = saved
    BY <1>11, <2>1 DEF Prepare, Goes, TypeOK
  <2>3. Coherent(c)
    BY <1>4, <2>1, PreparedIs
  <2>4. Coherent(held'[p]) /\ Coherent(saved')
    BY <1>4, <2>2, <2>3
  <2> QED
    BY <1>2, <1>11, <2>2, <2>4 DEF Command
<1>12. ASSUME NEW p \in Commands, Callback(p) PROVE CoherentInv'
  <2>1. saved' = saved
    BY <1>12 DEF Callback
  <2>2. Coherent(saved')
    BY <1>4, <2>1
  <2>3. CASE Stops(p, "failed")
    BY <1>2, <1>3, <1>12, <2>2, <2>3 DEF Command
  <2>4. CASE /\ \E from \in Taken[held[p].issuer] : code' = [code EXCEPT ![p] = from]
             /\ Goes(p, "redeem") /\ UNCHANGED <<held, challenged>>
    <3>1. PICK from \in Taken[held[p].issuer] : code' = [code EXCEPT ![p] = from]
      BY <2>4
    <3>2. held[p].issuer \in Issuers
      BY <1>12 DEF Callback, Authorizes
    <3>3. code'[p] = from /\ held'[p] = held[p]
      BY <2>4, <3>1 DEF TypeOK
    <3>4. code'[p] \in {held'[p].issuer, Anywhere}
      BY <3>1, <3>2, <3>3, TakenIsOwn
    <3>5. Coherent(held'[p])
      BY <1>4, <3>3
    <3> QED
      BY <1>2, <1>12, <2>2, <3>4, <3>5 DEF Command
  <2> QED
    BY <1>12, <2>3, <2>4 DEF Callback
<1>13. ASSUME NEW p \in Commands, Redeem(p) PROVE CoherentInv'
  <2>1. NewToken \in Tokens
    BY <1>13, MintedIsNew DEF Redeem
  <2>2. PICK refresh \in {None, NewToken} : saved' = FromResponse(held[p], NewToken, refresh)
    BY <1>13 DEF Redeem
  <2>3. held[p] \in Credential
    BY DEF TypeOK
  <2>4. Coherent(saved')
    BY <1>4, <2>1, <2>2, <2>3, CoherentResponse
  <2>5. Stops(p, "idle")
    BY <1>13 DEF Redeem, Rests
  <2> QED
    BY <1>2, <1>3, <1>13, <2>4, <2>5 DEF Command
<1>14. ASSUME NEW p \in Commands, Grant(p) PROVE CoherentInv'
  <2>1. saved' = [NoCredential EXCEPT
                    !.access = NewToken, !.source = "client_credentials", !.issuer = home,
                    !.client = [NoClient EXCEPT !.issuer = home]]
    BY <1>14 DEF Grant
  <2>2. Coherent(saved')
    BY <2>1 DEF Coherent, NoCredential, NoClient
  <2>3. Stops(p, "idle")
    BY <1>14 DEF Grant, Rests
  <2> QED
    BY <1>2, <1>3, <1>14, <2>2, <2>3 DEF Command
<1>15. ASSUME NEW p \in Commands, Logout(p) PROVE CoherentInv'
  <2>1. /\ saved' = NoCredential /\ held' = held /\ pc[p] = "idle" /\ pc' = pc
    BY <1>15 DEF Logout
  <2>2. Coherent(saved') /\ Coherent(held'[p])
    BY <1>4, <2>1, CoherentNothing
  <2> QED
    BY <1>2, <1>15, <2>1, <2>2 DEF Command
<1>16. ASSUME NEW p \in Commands, TokenRead(p) PROVE CoherentInv'
  <2>1. /\ held'[p] = [saved EXCEPT !.access = NewToken, !.source = "manual"]
        /\ saved' = saved /\ pc'[p] # "redeem"
    BY <1>16 DEF TokenRead, TypeOK
  <2>2. /\ held'[p].client = saved.client /\ held'[p].issuer = saved.issuer
        /\ held'[p].redirect = saved.redirect
    BY <2>1 DEF TypeOK, Credential
  <2>3. Coherent(held'[p]) /\ Coherent(saved')
    BY <1>4, <2>1, <2>2 DEF Coherent
  <2> QED
    BY <1>2, <1>16, <2>1, <2>3 DEF Command
<1>17. ASSUME NEW p \in Commands, TokenSaved(p) PROVE CoherentInv'
  <2>1. saved' = held[p] /\ Stops(p, "idle")
    BY <1>17 DEF TokenSaved, Rests
  <2>2. Coherent(saved')
    BY <1>4, <2>1
  <2> QED
    BY <1>2, <1>3, <1>17, <2>1, <2>2 DEF Command
<1>18. CASE Age \/ Revoke \/ Move
  <2>1. UNCHANGED <<saved, pc, held, code>>
    BY <1>18 DEF Age, Revoke, Move
  <2> QED
    BY <1>1, <2>1
<1> QED
  BY <1>1, <1>5, <1>6, <1>7, <1>8, <1>9, <1>10, <1>11, <1>12, <1>13, <1>14, <1>15, <1>16, <1>17,
     <1>18 DEF Next, Command, vars

(* A client id is presented only where it was issued, with its own         *)
(* redirect, and a code only to the server that sent it (login, refresh).  *)
THEOREM EachItsOwn == Spec => []PresentsItsOwn
<1>1. Init => CoherentInv
  BY CoherentNothing DEF Init, CoherentInv
<1>2. CoherentInv => PresentsItsOwn
  BY DEF CoherentInv, Coherent, PresentsItsOwn
<1> QED
  BY <1>1, <1>2, CoherentStep, TypeInvHolds, PTL DEF Spec

-----------------------------------------------------------------------------
(* The rotation of refresh tokens.                                         *)

\* The refresh tokens anybody knows of have been minted.
Minted ==
    /\ \A t \in good : token[t] # "unminted"
    /\ saved.refresh # None => token[saved.refresh] # "unminted"
    /\ \A p \in Commands : held[p].refresh # None => token[held[p].refresh] # "unminted"

\* What was granted to a client itself has none, and a login begins with none.
WithoutRefresh ==
    /\ saved.source = "client_credentials" => saved.refresh = None
    /\ \A p \in Commands :
         /\ held[p].source = "client_credentials" => held[p].refresh = None
         /\ pc[p] \in {"browser", "redeem"} =>
                held[p].refresh = None /\ held[p].source = "oauth"

\* A refresh token is of one authorization server.
Same(c, d) == c.refresh = d.refresh /\ c.refresh # None => c.issuer = d.issuer
OneIssuer ==
    /\ \A p \in Commands : Same(saved, held[p])
    /\ \A p, q \in Commands : Same(held[p], held[q])

\* What a renewal is about to save works, and a token that replaced another is
\* known to nobody else yet.
AtSave ==
    \A p \in Commands : pc[p] = "save" =>
      /\ held[p].refresh \in good \cup {None}
      /\ held[p].issuer \in Rotating /\ held[p].refresh # None =>
           /\ saved.refresh # held[p].refresh
           /\ \A q \in Commands : q # p => held[q].refresh # held[p].refresh

\* What is saved works, or somebody is about to save another.
Followed ==
    ~spoiled => \/ saved.refresh \in good \cup {None}
                \/ \E p \in Commands : pc[p] = "save"

RotationInv == Minted /\ WithoutRefresh /\ OneIssuer /\ AtSave /\ Followed

\* A command that neither renews nor saves.
LEMMA Looks ==
    ASSUME TypeOK, TypeOK', RotationInv, NEW p \in Commands, Command(p),
           saved' = saved, good' = good,
           \A t \in Tokens : token[t] # "unminted" => token'[t] # "unminted",
           pc'[p] # "save", pc[p] = "save" => spoiled', spoiled => spoiled',
           \/ held'[p].refresh = None
           \/ held'[p].refresh = saved.refresh /\ held'[p].issuer = saved.issuer
           \/ held'[p].refresh = held[p].refresh /\ held'[p].issuer = held[p].issuer,
           held'[p].source = "client_credentials" => held'[p].refresh = None,
           pc'[p] \in {"browser", "redeem"} =>
               held'[p].refresh = None /\ held'[p].source = "oauth"
    PROVE  RotationInv'
<1> USE DEF RotationInv
<1>1. \A q \in Commands \ {p} : pc'[q] = pc[q] /\ held'[q] = held[q]
  BY Frame
<1>2. /\ saved.refresh \in Tokens \cup {None}
      /\ \A q \in Commands : held[q].refresh \in Tokens \cup {None}
      /\ good \subseteq Tokens
  BY DEF TypeOK, Credential
<1>3. Minted'
  BY <1>1, <1>2 DEF Minted
<1>4. WithoutRefresh'
  BY <1>1 DEF WithoutRefresh
<1>5. OneIssuer'
  BY <1>1 DEF OneIssuer, Same
<1>6. AtSave'
  <2> SUFFICES ASSUME NEW q \in Commands, pc'[q] = "save"
               PROVE  /\ held'[q].refresh \in good \cup {None}
                      /\ held'[q].issuer \in Rotating /\ held'[q].refresh # None =>
                           /\ saved.refresh # held'[q].refresh
                           /\ \A u \in Commands : u # q => held'[u].refresh # held'[q].refresh
    BY DEF AtSave
  <2>1. q # p /\ pc[q] = "save" /\ held'[q] = held[q]
    BY <1>1
  <2> QED
    BY <1>1, <2>1 DEF AtSave
<1>7. Followed'
  <2>1. \A q \in Commands : pc[q] = "save" => spoiled' \/ pc'[q] = "save"
    BY <1>1
  <2> QED
    BY <2>1 DEF Followed
<1> QED
  BY <1>3, <1>4, <1>5, <1>6, <1>7

\* A renewal, which replaces the refresh token where those are rotated.
LEMMA RenewKeeps ==
    ASSUME TypeOK, RotationInv, NEW p \in Commands, Renew(p)
    PROVE  RotationInv'
<1> USE DEF RotationInv
<1>1. NewToken \in Tokens /\ token[NewToken] = "unminted"
  BY MintedIsNew DEF Renew
<1>2. /\ \A q \in Commands \ {p} : pc'[q] = pc[q] /\ held'[q] = held[q]
      /\ pc'[p] = "save" /\ saved' = saved /\ spoiled' = spoiled
      /\ token' = [token EXCEPT ![NewToken] = "fresh"]
  <2>1. \A q \in Commands \ {p} : pc'[q] = pc[q] /\ held'[q] = held[q]
    BY Frame DEF Command
  <2> QED
    BY <2>1 DEF Renew, Goes, TypeOK
<1>3. /\ saved.refresh \in Tokens \cup {None}
      /\ \A q \in Commands : held[q] \in Credential /\ held[q].refresh \in Tokens \cup {None}
      /\ good \subseteq Tokens /\ None \notin Tokens
  BY TokenBounds DEF TypeOK, Credential, Tokens, None
<1>4. /\ \A t \in Tokens : token[t] # "unminted" => token'[t] # "unminted"
      /\ token'[NewToken] # "unminted"
  BY <1>1, <1>2 DEF TypeOK
<1>5. /\ saved.refresh # NewToken /\ NewToken \notin good
      /\ \A q \in Commands : held[q].refresh # NewToken
  BY <1>1, <1>3 DEF Minted
<1>6. PICK new \in {NewToken, None} :
        /\ new = NewToken => held[p].issuer \in Rotating /\ ~renews_by_grant(held[p])
        /\ new = None => held[p].issuer \notin Rotating \/ renews_by_grant(held[p])
        /\ good' = IF new = None THEN good ELSE (good \ {held[p].refresh}) \cup {new}
        /\ held' = [held EXCEPT ![p] = FromResponse(held[p], NewToken, new)]
  BY <1>1, <1>3 DEF Renew
<1>7. /\ held'[p].refresh = IF new = None THEN held[p].refresh ELSE new
      /\ held'[p].issuer = held[p].issuer /\ held'[p].source = held[p].source
  <2>1. held'[p] = FromResponse(held[p], NewToken, new)
    BY <1>6 DEF TypeOK
  <2> QED
    BY <1>1, <1>3, <2>1, ResponseIs
<1>8. renews_by_grant(held[p]) => held[p].refresh = None
  BY DEF renews_by_grant, WithoutRefresh
<1>9. renews_by_grant(held[p]) \/ held[p].refresh \in good
  BY DEF Renew
<1>10. pc[p] = "refresh"
  BY DEF Renew
<1>11. Minted'
  BY <1>1, <1>2, <1>3, <1>4, <1>6, <1>7 DEF Minted
<1>12. WithoutRefresh'
  <2>1. held[p].source = "client_credentials" => held'[p].refresh = None
    <3>1. ASSUME held[p].source = "client_credentials" PROVE new = None
      BY <1>3, <1>6, <1>9, <3>1 DEF WithoutRefresh
    <3> QED
      BY <1>7, <3>1 DEF WithoutRefresh
  <2> QED
    BY <1>2, <1>7, <2>1 DEF WithoutRefresh
<1>13. OneIssuer'
  <2>1. \A q \in Commands \ {p} : Same(held'[p], held[q]) /\ Same(saved, held'[p])
    BY <1>5, <1>7 DEF OneIssuer, Same
  <2>2. Same(saved, held'[p])
    BY <1>5, <1>7 DEF OneIssuer, Same
  <2> QED
    BY <1>2, <2>1, <2>2 DEF OneIssuer, Same
<1>14. AtSave'
  <2>1. ASSUME NEW q \in Commands \ {p}, pc[q] = "save"
        PROVE  /\ held[q].refresh \in good' \cup {None}
               /\ held[q].issuer \in Rotating /\ held[q].refresh # None =>
                    /\ saved.refresh # held[q].refresh
                    /\ \A u \in Commands : u # q => held'[u].refresh # held[q].refresh
    <3>1. /\ held[q].refresh \in good \cup {None}
          /\ held[q].issuer \in Rotating /\ held[q].refresh # None =>
               /\ saved.refresh # held[q].refresh
               /\ \A u \in Commands : u # q => held[u].refresh # held[q].refresh
      BY <2>1 DEF AtSave
    <3>2. held[q].refresh \in good' \cup {None}
      <4>1. CASE new = None
        BY <1>6, <3>1, <4>1
      <4>2. CASE new = NewToken
        <5>1. held[p].issuer \in Rotating /\ held[p].refresh \in good
          BY <1>6, <1>9, <4>2
        <5>2. held[q].refresh # None => held[q].refresh # held[p].refresh
          BY <3>1, <5>1 DEF OneIssuer, Same
        <5> QED
          BY <1>6, <3>1, <5>2
      <4> QED
        BY <4>1, <4>2
    <3>3. \A u \in Commands : held[u].refresh # held[q].refresh =>
              u = p \/ held'[u].refresh # held[q].refresh
      BY <1>2
    <3>4. held[p].refresh # held[q].refresh => held'[p].refresh # held[q].refresh
      BY <1>5, <1>7
    <3> QED
      BY <3>1, <3>2, <3>3, <3>4
  <2>2. /\ held'[p].refresh \in good' \cup {None}
        /\ held'[p].issuer \in Rotating /\ held'[p].refresh # None =>
             /\ saved.refresh # held'[p].refresh
             /\ \A u \in Commands : u # p => held[u].refresh # held'[p].refresh
    <3>1. CASE new = None
      BY <1>6, <1>7, <1>8, <1>9, <3>1
    <3>2. CASE new = NewToken
      <4>1. held'[p].refresh = NewToken /\ NewToken \in good'
        BY <1>1, <1>3, <1>6, <1>7, <3>2
      <4> QED
        BY <1>5, <4>1
    <3> QED
      BY <3>1, <3>2
  <2> QED
    BY <1>2, <2>1, <2>2 DEF AtSave
<1>15. Followed'
  BY <1>2 DEF Followed
<1> QED
  BY <1>11, <1>12, <1>13, <1>14, <1>15

\* Something is saved: what was held, what was set, or what a server gave anew.
LEMMA SavesKeep ==
    ASSUME TypeOK, TypeOK', RotationInv, NEW p \in Commands, Command(p),
           \A t \in Tokens : token[t] # "unminted" => token'[t] # "unminted",
           good \subseteq good',
           \A t \in good' \ good : token'[t] # "unminted",
           pc'[p] # "save", pc'[p] \notin {"browser", "redeem"}, spoiled => spoiled',
           held'[p] \in {held[p], NoCredential},
           saved'.source = "client_credentials" => saved'.refresh = None,
           \/ saved'.refresh = None
           \/ saved'.refresh = held[p].refresh /\ saved'.issuer = held[p].issuer
           \/ /\ token[saved'.refresh] = "unminted" /\ saved'.refresh \in good'
              /\ held'[p] = NoCredential,
           ~spoiled' => \/ saved'.refresh \in good' \cup {None}
                        \/ saved'.refresh = saved.refresh /\ pc[p] # "save"
    PROVE  RotationInv'
<1> USE DEF RotationInv
<1>1. \A q \in Commands \ {p} : pc'[q] = pc[q] /\ held'[q] = held[q]
  BY Frame
<1>2. /\ saved'.refresh \in Tokens \cup {None}
      /\ \A q \in Commands : held[q].refresh \in Tokens \cup {None}
      /\ good \subseteq Tokens /\ good' \subseteq Tokens
  BY DEF TypeOK, Credential
<1>3. held'[p].refresh \in {held[p].refresh, None}
  BY RecordsTyped
<1>4. Minted'
  BY <1>1, <1>2, <1>3 DEF Minted
<1>5. WithoutRefresh'
  BY <1>1, <1>3, RecordsTyped DEF WithoutRefresh
<1>6. OneIssuer'
  <2>1. \A q, u \in Commands : Same(held'[q], held'[u])
    BY <1>1, RecordsTyped DEF OneIssuer, Same
  <2>2. ASSUME NEW q \in Commands PROVE Same(saved', held'[q])
    <3>1. CASE saved'.refresh = held[p].refresh /\ saved'.issuer = held[p].issuer
      BY <1>1, <3>1, RecordsTyped DEF OneIssuer, Same
    <3>2. CASE token[saved'.refresh] = "unminted" /\ held'[p] = NoCredential
      BY <1>1, <3>2, RecordsTyped DEF Minted, Same
    <3>3. CASE saved'.refresh = None
      BY <3>3 DEF Same
    <3> QED
      BY <3>1, <3>2, <3>3
  <2> QED
    BY <2>1, <2>2 DEF OneIssuer, Same
<1>7. AtSave'
  <2> SUFFICES ASSUME NEW q \in Commands, pc'[q] = "save"
               PROVE  /\ held'[q].refresh \in good' \cup {None}
                      /\ held'[q].issuer \in Rotating /\ held'[q].refresh # None =>
                           /\ saved'.refresh # held'[q].refresh
                           /\ \A u \in Commands : u # q => held'[u].refresh # held'[q].refresh
    BY DEF AtSave
  <2>1. q # p /\ pc[q] = "save" /\ held'[q] = held[q]
    BY <1>1
  <2>2. /\ held[q].refresh \in good \cup {None}
        /\ held[q].issuer \in Rotating /\ held[q].refresh # None =>
             \A u \in Commands : u # q => held[u].refresh # held[q].refresh
    BY <2>1 DEF AtSave
  <2>3. held[q].issuer \in Rotating /\ held[q].refresh # None =>
            saved'.refresh # held[q].refresh
    BY <2>1, <2>2 DEF Minted
  <2> QED
    BY <1>1, <1>3, <2>1, <2>2, <2>3
<1>8. Followed'
  <2>1. \A q \in Commands : q # p => pc'[q] = pc[q]
    BY <1>1
  <2> QED
    BY <2>1 DEF Followed
<1> QED
  BY <1>4, <1>5, <1>6, <1>7, <1>8

LEMMA RotationStep == TypeInv /\ RotationInv /\ [Next]_vars => RotationInv'
<1> SUFFICES ASSUME TypeInv, RotationInv, [Next]_vars PROVE RotationInv'
  OBVIOUS
<1>1. TypeOK /\ TypeOK'
  BY TypeStep DEF TypeInv
<1> USE <1>1, RecordsTyped
<1>2. /\ WithoutRefresh /\ AtSave
      /\ \A p \in Commands : held[p] \in Credential /\ held[p].refresh \in Tokens \cup {None}
      /\ saved \in Credential /\ saved.refresh \in Tokens \cup {None}
  BY DEF RotationInv, TypeOK, Credential
<1>3. CASE UNCHANGED vars
  BY <1>3 DEF vars, RotationInv, Minted, WithoutRefresh, OneIssuer, Same, AtSave, Followed
<1>4. ASSUME NEW p \in Commands, Call(p) \/ Login(p) \/ LoginMachine(p) \/ TokenSet(p)
      PROVE  RotationInv'
  <2>1. /\ held'[p] \in {NoCredential, saved} /\ pc'[p] \notin {"save", "browser", "redeem"}
        /\ pc[p] = "idle" /\ UNCHANGED <<saved, good, token, spoiled>>
    BY <1>4 DEF Call, Login, LoginMachine, TokenSet, Starts, TypeOK
  <2> QED
    BY <1>2, <1>4, <2>1, Looks DEF Command, WithoutRefresh
<1>5. ASSUME NEW p \in Commands, SelectToken(p) PROVE RotationInv'
  <2>1. /\ held'[p] = saved /\ pc'[p] \notin {"save", "browser", "redeem"}
        /\ pc[p] = "resolve" /\ UNCHANGED <<saved, good, token, spoiled>>
    BY <1>5 DEF SelectToken, Goes, TypeOK
  <2> QED
    BY <1>2, <1>5, <2>1, Looks DEF Command, WithoutRefresh
<1>6. ASSUME NEW p \in Commands, Renew(p) PROVE RotationInv'
  BY <1>6, RenewKeeps
<1>7. ASSUME NEW p \in Commands,
             RenewRefused(p) \/ RenewLost(p) \/ Dial(p) \/ Fails(p) \/ Ends(p)
      PROVE  RotationInv'
  <2>1. /\ Stops(p, "idle") \/ Stops(p, "failed")
        /\ UNCHANGED <<saved, good, token>>
    BY <1>7 DEF RenewRefused, RenewLost, Dial, Fails, Ends, Rests
  <2>2. held'[p] = NoCredential /\ pc'[p] \notin {"save", "browser", "redeem"}
    BY <2>1 DEF Stops, Goes, TypeOK
  <2>3. (pc[p] = "save" => spoiled') /\ (spoiled => spoiled')
    <3>1. CASE RenewLost(p)
      <4>1. spoiled' = (spoiled \/ pc[p] = "save")
        BY <3>1 DEF RenewLost
      <4> QED
        BY <4>1, Zenon
    <3>2. CASE RenewRefused(p) \/ Dial(p) \/ Fails(p) \/ Ends(p)
      BY <3>2 DEF RenewRefused, Dial, Fails, Ends
    <3> QED
      BY <1>7, <3>1, <3>2
  <2> QED
    BY <1>7, <2>1, <2>2, <2>3, Looks DEF Command
<1>8. ASSUME NEW p \in Commands, Save(p) PROVE RotationInv'
  <2>1. /\ pc[p] = "save" /\ saved' = held[p] /\ held'[p] = held[p]
        /\ pc'[p] \notin {"save", "browser", "redeem"} /\ UNCHANGED <<good, token, spoiled>>
    BY <1>8 DEF Save, Goes, TypeOK
  <2>2. saved'.refresh \in good' \cup {None}
    BY <1>2, <2>1 DEF AtSave
  <2> QED
    BY <1>2, <1>8, <2>1, <2>2, SavesKeep DEF Command, WithoutRefresh
<1>9. ASSUME NEW p \in Commands, Challenged(p) PROVE RotationInv'
  <2>1. /\ held'[p] \in {NoCredential, saved} /\ pc'[p] \notin {"save", "browser", "redeem"}
        /\ pc[p] = "dial" /\ UNCHANGED <<saved, good, token, spoiled>>
    BY <1>9 DEF Challenged, Stops, Goes, TypeOK
  <2> QED
    BY <1>2, <1>9, <2>1, Looks DEF Command, WithoutRefresh
<1>10. ASSUME NEW p \in Commands, Prepare(p) PROVE RotationInv'
  <2>1. PICK c \in Prepared(p) : held' = [held EXCEPT ![p] = c]
    BY <1>10 DEF Prepare
  <2>2. held'[p].refresh = None /\ held'[p].source = "oauth"
    BY <2>1, PreparedIs DEF TypeOK
  <2>3. pc'[p] # "save" /\ pc[p] = "discover" /\ UNCHANGED <<saved, good, token, spoiled>>
    BY <1>10 DEF Prepare, Goes, TypeOK
  <2> QED
    BY <1>10, <2>2, <2>3, Looks DEF Command
<1>11. ASSUME NEW p \in Commands, Callback(p) PROVE RotationInv'
  <2>1. /\ pc'[p] # "save" /\ pc[p] = "browser" /\ UNCHANGED <<saved, good, token, spoiled>>
        /\ \/ held'[p] = NoCredential /\ pc'[p] = "failed"
           \/ held'[p] = held[p]
    BY <1>11 DEF Callback, Stops, Goes, TypeOK
  <2>2. held[p].refresh = None /\ held[p].source = "oauth"
    BY <1>2, <2>1 DEF WithoutRefresh
  <2> QED
    BY <1>2, <1>11, <2>1, <2>2, Looks DEF Command
<1>12. ASSUME NEW p \in Commands, Redeem(p) PROVE RotationInv'
  <2>1. NewToken \in Tokens /\ token[NewToken] = "unminted"
    BY <1>12, MintedIsNew DEF Redeem
  <2>2. PICK refresh \in {None, NewToken} :
          /\ good' = good \cup ({refresh} \ {None})
          /\ saved' = FromResponse(held[p], NewToken, refresh)
    BY <1>12 DEF Redeem
  <2>3. held[p].refresh = None /\ held[p].source = "oauth"
    BY <1>2, <1>12 DEF Redeem, WithoutRefresh
  <2>4. saved'.refresh = refresh /\ saved'.source = "oauth"
    BY <1>2, <2>1, <2>2, <2>3, ResponseIs
  <2>5. token' = [token EXCEPT ![NewToken] = "fresh"] /\ spoiled' = spoiled /\ Stops(p, "idle")
    BY <1>12 DEF Redeem, Rests
  <2>6. /\ \A t \in Tokens : token[t] # "unminted" => token'[t] # "unminted"
        /\ token'[NewToken] # "unminted"
    BY <2>1, <2>5 DEF TypeOK
  <2>7. held'[p] = NoCredential /\ pc'[p] \notin {"save", "browser", "redeem"}
    BY <2>5 DEF Stops, Goes, TypeOK
  <2>8. /\ good \subseteq good' /\ \A t \in good' \ good : token'[t] # "unminted"
        /\ saved'.refresh \in good' \cup {None}
        /\ saved'.refresh = None \/ (token[saved'.refresh] = "unminted" /\ saved'.refresh \in good')
    BY <2>1, <2>2, <2>4, <2>6
  <2> QED
    BY <1>12, <2>4, <2>5, <2>6, <2>7, <2>8, SavesKeep DEF Command
<1>13. ASSUME NEW p \in Commands, Grant(p) PROVE RotationInv'
  <2>1. NewToken \in Tokens /\ token[NewToken] = "unminted"
    BY <1>13, MintedIsNew DEF Grant
  <2>2. saved'.refresh = None
    BY <1>13 DEF Grant, NoCredential
  <2>3. /\ token' = [token EXCEPT ![NewToken] = "fresh"] /\ spoiled' = spoiled /\ good' = good
        /\ Stops(p, "idle")
    BY <1>13 DEF Grant, Rests
  <2>4. \A t \in Tokens : token[t] # "unminted" => token'[t] # "unminted"
    BY <2>1, <2>3 DEF TypeOK
  <2>5. held'[p] = NoCredential /\ pc'[p] \notin {"save", "browser", "redeem"}
    BY <2>3 DEF Stops, Goes, TypeOK
  <2> QED
    BY <1>13, <2>2, <2>3, <2>4, <2>5, SavesKeep DEF Command
<1>14. ASSUME NEW p \in Commands, Logout(p) PROVE RotationInv'
  <2>1. /\ saved' = NoCredential /\ pc[p] = "idle"
        /\ UNCHANGED <<good, token, spoiled, pc, held>>
    BY <1>14 DEF Logout
  <2> QED
    BY <1>14, <2>1, SavesKeep DEF Command
<1>15. ASSUME NEW p \in Commands, TokenRead(p) PROVE RotationInv'
  <2>1. /\ NewToken \in Tokens
        /\ held' = [held EXCEPT ![p] = [saved EXCEPT !.access = NewToken, !.source = "manual"]]
        /\ token' = [token EXCEPT ![NewToken] = "untimed"]
        /\ pc[p] = "set" /\ UNCHANGED <<saved, good, pc, spoiled>>
    BY <1>15, MintedIsNew DEF TokenRead
  <2>2. /\ held'[p].refresh = saved.refresh /\ held'[p].issuer = saved.issuer
        /\ held'[p].source = "manual"
    BY <1>2, <2>1 DEF TypeOK, Credential
  <2>3. \A t \in Tokens : token[t] # "unminted" => token'[t] # "unminted"
    BY <2>1 DEF TypeOK
  <2> QED
    BY <1>15, <2>1, <2>2, <2>3, Looks DEF Command
<1>16. ASSUME NEW p \in Commands, TokenSaved(p) PROVE RotationInv'
  <2>1. /\ saved' = held[p] /\ pc[p] = "set" /\ Stops(p, "idle") /\ UNCHANGED <<token, good>>
    BY <1>16 DEF TokenSaved, Rests
  <2>2. held'[p] = NoCredential /\ pc'[p] \notin {"save", "browser", "redeem"}
    BY <2>1 DEF Stops, Goes, TypeOK
  <2>3. (spoiled => spoiled') /\ (~spoiled' => held[p].refresh = saved.refresh)
    BY <1>16 DEF TokenSaved
  <2> QED
    BY <1>2, <1>16, <2>1, <2>2, <2>3, SavesKeep DEF Command, WithoutRefresh
<1>17. CASE Age \/ Revoke \/ Move
  <2>1. UNCHANGED <<saved, good, pc, held, spoiled>>
    BY <1>17 DEF Age, Revoke, Move
  <2>2. \A t \in Tokens : token[t] # "unminted" => token'[t] # "unminted"
    <3>1. CASE Move
      BY <3>1 DEF Move
    <3>2. CASE Age \/ Revoke
      <4>1. PICK t \in InUse, state \in {"aged", "dead"} : token' = [token EXCEPT ![t] = state]
        BY <3>2 DEF Age, Revoke
      <4> QED
        BY <4>1 DEF TypeOK
    <3> QED
      BY <1>17, <3>1, <3>2
  <2>3. good \subseteq Tokens
    BY DEF TypeOK
  <2>4. Minted'
    BY <1>2, <2>1, <2>2, <2>3 DEF RotationInv, Minted
  <2> QED
    BY <2>1, <2>4 DEF RotationInv, WithoutRefresh, OneIssuer, Same, AtSave, Followed
<1> QED
  BY <1>3, <1>4, <1>5, <1>6, <1>7, <1>8, <1>9, <1>10, <1>11, <1>12, <1>13, <1>14, <1>15, <1>16,
     <1>17 DEF Next, Command

(* The refresh token that is saved still works once nobody is about to     *)
(* save another, unless one was lost with its reply (renew, save).         *)
THEOREM SavedStillWorks == Spec => []RotationIsFollowed
<1>1. Init => RotationInv
  BY RecordsTyped DEF Init, RotationInv, Minted, WithoutRefresh, OneIssuer, Same, AtSave, Followed
<1>2. RotationInv => RotationIsFollowed
  BY DEF RotationInv, Followed, RotationIsFollowed
<1> QED
  BY <1>1, <1>2, RotationStep, TypeInvHolds, PTL DEF Spec

-----------------------------------------------------------------------------
(* A command that has the machine to itself.                               *)

\* A refusal is remembered until the renewal that answers it has been tried.
ChallengedWhile == \A p \in Commands : challenged[p] => pc[p] \in {"refresh", "save", "dial"}

(* It runs alone, on what is saved; and what it renewed for a refusal is   *)
(* a token the server still takes.                                         *)
Undisturbed(p) ==
    /\ \A q \in Commands \ {p} : pc[q] = "idle"
    /\ pc[p] \in {"resolve", "refresh", "save", "dial"} /\ saved.issuer = home
    /\ pc[p] = "resolve" => saved.refresh \in good
    /\ pc[p] = "refresh" => held[p] = saved /\ saved.refresh \in good
    /\ pc[p] = "save" => held[p].refresh \in good /\ held[p].issuer = home
    /\ pc[p] = "dial" /\ ~challenged[p] => held[p] = saved /\ saved.refresh \in good
    /\ challenged[p] /\ pc[p] \in {"save", "dial"} =>
         held[p].access # None /\ token[held[p].access] = "fresh" /\ held[p].issuer = home

AloneInv == ChallengedWhile /\ \A p \in alone : Undisturbed(p)

LEMMA ChallengedStep == TypeOK /\ ChallengedWhile /\ [Next]_vars => ChallengedWhile'
<1> SUFFICES ASSUME TypeOK, ChallengedWhile, [Next]_vars PROVE ChallengedWhile'
  OBVIOUS
<1>1. CASE UNCHANGED vars \/ Age \/ Revoke \/ Move
  <2>1. UNCHANGED <<pc, challenged>>
    BY <1>1 DEF vars, Age, Revoke, Move
  <2> QED
    BY <2>1 DEF ChallengedWhile
<1>2. ASSUME NEW p \in Commands, Command(p) PROVE ChallengedWhile'
  <2>1. \A q \in Commands \ {p} : pc'[q] = pc[q]
    BY <1>2, Frame
  <2>2. /\ \A q \in Commands \ {p} : challenged'[q] = challenged[q]
        /\ challenged'[p] => pc'[p] \in {"refresh", "save", "dial"}
    <3>1. CASE Call(p) \/ Login(p) \/ LoginMachine(p) \/ TokenSet(p) \/ Logout(p)
      <4>1. pc[p] = "idle" /\ challenged' = challenged
        BY <3>1 DEF Call, Login, LoginMachine, TokenSet, Logout, Starts
      <4> QED
        BY <4>1 DEF ChallengedWhile
    <3>2. CASE SelectToken(p) \/ Prepare(p) \/ TokenRead(p)
      <4>1. pc[p] \in {"resolve", "discover", "set"} /\ challenged' = challenged
        BY <3>2 DEF SelectToken, Prepare, TokenRead
      <4> QED
        BY <4>1 DEF ChallengedWhile
    <3>3. CASE Renew(p) \/ Save(p)
      BY <3>3 DEF Renew, Save, Goes, TypeOK
    <3>4. CASE \E step \in Steps : Stops(p, step)
      BY <3>4 DEF Stops, TypeOK
    <3>5. CASE Challenged(p)
      BY <3>5 DEF Challenged, Stops, Goes, TypeOK
    <3>6. CASE Callback(p) /\ challenged' = challenged
      <4>1. pc[p] = "browser"
        BY <3>6 DEF Callback
      <4> QED
        BY <3>6, <4>1 DEF ChallengedWhile
    <3>7. CASE \/ RenewRefused(p) \/ RenewLost(p) \/ Dial(p) \/ Fails(p) \/ Redeem(p)
               \/ Grant(p) \/ TokenSaved(p) \/ Ends(p)
      BY <3>4, <3>7 DEF RenewRefused, RenewLost, Dial, Fails, Redeem, Grant, TokenSaved, Ends,
         Rests, Steps
    <3>8. CASE Callback(p)
      BY <3>4, <3>6, <3>8 DEF Callback, Steps
    <3> QED
      BY <1>2, <3>1, <3>2, <3>3, <3>5, <3>7, <3>8 DEF Command
  <2> QED
    BY <2>1, <2>2 DEF ChallengedWhile
<1> QED
  BY <1>1, <1>2 DEF Next

\* What a command that is undisturbed may do, and how it answers a refusal.
LEMMA UndisturbedMoves ==
    ASSUME TypeOK, ChallengedWhile, NEW p \in Commands, Undisturbed(p), Command(p)
    PROVE  \/ SelectToken(p) \/ Renew(p) \/ Save(p) \/ Dial(p) \/ RenewLost(p)
           \/ /\ Goes(p, "refresh") /\ held' = [held EXCEPT ![p] = saved]
              /\ challenged' = [challenged EXCEPT ![p] = TRUE]
              /\ pc[p] = "dial" /\ saved.refresh \in good
              /\ UNCHANGED <<saved, token, good, home, starts, code, alone, spoiled>>
<1>1. pc[p] \in {"resolve", "refresh", "save", "dial"}
  BY DEF Undisturbed
<1>2. home # Anywhere /\ None \notin Tokens /\ good \subseteq Tokens
  BY TokenNames DEF TypeOK, Tokens, None
<1>3. ~RenewRefused(p)
  BY DEF RenewRefused, Undisturbed
<1>4. ASSUME Challenged(p)
      PROVE  /\ Goes(p, "refresh") /\ held' = [held EXCEPT ![p] = saved]
             /\ challenged' = [challenged EXCEPT ![p] = TRUE]
             /\ pc[p] = "dial" /\ saved.refresh \in good
             /\ UNCHANGED <<saved, token, good, home, starts, code, alone, spoiled>>
  <2>1. ~challenged[p]
    BY <1>4, <1>2 DEF Challenged, Accepted, Undisturbed
  <2>2. /\ pc[p] = "dial" /\ held[p] = saved /\ saved.refresh \in good /\ saved.issuer = home
    BY <1>4, <2>1 DEF Challenged, Undisturbed
  <2>3. saved.refresh # None /\ can_refresh(saved) /\ held[p] # NoCredential
    BY <1>2, <2>2, RecordsTyped DEF can_refresh
  <2> QED
    BY <1>4, <2>1, <2>2, <2>3 DEF Challenged
<1>5. ~(Call(p) \/ Login(p) \/ LoginMachine(p) \/ TokenSet(p) \/ Logout(p))
  BY <1>1 DEF Call, Login, LoginMachine, TokenSet, Logout, Starts
<1>6. ~(Prepare(p) \/ Fails(p) \/ Callback(p) \/ Redeem(p) \/ Grant(p) \/ TokenRead(p)
        \/ TokenSaved(p) \/ Ends(p))
  BY <1>1 DEF Prepare, Fails, Callback, Redeem, Grant, TokenRead, TokenSaved, Ends
<1> QED
  BY <1>3, <1>4, <1>5, <1>6 DEF Command

LEMMA UndisturbedStep ==
    ASSUME TypeOK, ChallengedWhile, NEW p \in Commands, Undisturbed(p), Command(p), p \in alone'
    PROVE  Undisturbed(p)'
<1>1. \A q \in Commands \ {p} : pc'[q] = "idle"
  BY Frame DEF Undisturbed
<1>2. ASSUME Rests(p) PROVE FALSE
  BY <1>2 DEF Rests
<1>3. held[p] \in Credential /\ None \notin Tokens /\ good \subseteq Tokens
  BY DEF TypeOK, Tokens, None
<1>4. CASE SelectToken(p)
  <2>1. /\ pc[p] = "resolve" /\ held'[p] = saved /\ pc'[p] \in {"refresh", "dial"}
        /\ UNCHANGED <<saved, token, good, home, challenged>>
    BY <1>4 DEF SelectToken, Goes, TypeOK
  <2>2. ~challenged[p]
    BY <2>1 DEF ChallengedWhile
  <2> QED
    BY <1>1, <2>1, <2>2 DEF Undisturbed
<1>5. CASE Renew(p)
  <2>1. /\ NewToken \in Tokens /\ pc[p] = "refresh"
        /\ UNCHANGED <<saved, home, challenged>> /\ pc'[p] = "save"
        /\ token' = [token EXCEPT ![NewToken] = "fresh"]
    BY <1>5, MintedIsNew DEF Renew, Goes, TypeOK
  <2>2. PICK new \in {NewToken, None} :
          /\ good' = IF new = None THEN good ELSE (good \ {held[p].refresh}) \cup {new}
          /\ held' = [held EXCEPT ![p] = FromResponse(held[p], NewToken, new)]
    BY <1>5 DEF Renew
  <2>3. held'[p] = FromResponse(held[p], NewToken, new)
    BY <2>2 DEF TypeOK
  <2>4. /\ held'[p].refresh = IF new = None THEN held[p].refresh ELSE new
        /\ held'[p].issuer = held[p].issuer
    BY <1>3, <2>1, <2>3, ResponseIs
  <2>5. held'[p].access = NewToken
    BY <1>3, <2>3 DEF FromResponse, Credential
  <2>6. held[p] = saved /\ saved.refresh \in good /\ saved.issuer = home
    BY <2>1 DEF Undisturbed
  <2>7. held'[p].refresh \in good'
    BY <1>3, <2>1, <2>2, <2>4, <2>6
  <2>8. token'[NewToken] = "fresh"
    BY <2>1 DEF TypeOK
  <2> QED
    BY <1>1, <1>3, <2>1, <2>4, <2>5, <2>6, <2>7, <2>8 DEF Undisturbed
<1>6. CASE Save(p)
  <2>1. /\ pc[p] = "save" /\ saved' = held[p] /\ pc'[p] = "dial"
        /\ UNCHANGED <<token, good, home, held, challenged>>
    BY <1>6 DEF Save, Goes, TypeOK
  <2> QED
    BY <1>1, <2>1 DEF Undisturbed
<1>7. CASE /\ Goes(p, "refresh") /\ held' = [held EXCEPT ![p] = saved] /\ pc[p] = "dial"
           /\ saved.refresh \in good
           /\ UNCHANGED <<saved, token, good, home, starts, code, alone, spoiled>>
  <2>1. pc'[p] = "refresh" /\ held'[p] = saved /\ UNCHANGED <<saved, good, home>>
    BY <1>7 DEF Goes, TypeOK
  <2> QED
    BY <1>1, <1>7, <2>1 DEF Undisturbed
<1> QED
  BY <1>2, <1>4, <1>5, <1>6, <1>7, UndisturbedMoves DEF Dial, RenewLost

LEMMA AloneStep == TypeOK /\ AloneInv /\ [Next]_vars => AloneInv'
<1> SUFFICES ASSUME TypeOK, AloneInv, [Next]_vars PROVE AloneInv'
  OBVIOUS
<1>1. ChallengedWhile /\ ChallengedWhile' /\ alone \subseteq Commands
  BY ChallengedStep DEF AloneInv, TypeOK
<1> SUFFICES ASSUME NEW p \in alone' PROVE Undisturbed(p)'
  BY <1>1 DEF AloneInv
<1>2. CASE UNCHANGED vars
  BY <1>2 DEF vars, AloneInv, Undisturbed
<1>3. CASE Age \/ Revoke
  <2>1. PICK t \in InUse, state \in {"aged", "dead"} :
           /\ token' = [token EXCEPT ![t] = state] /\ alone' = alone \ RenewedTo(t)
           /\ UNCHANGED <<saved, good, home, pc, held, challenged>>
    BY <1>3 DEF Age, Revoke
  <2>2. p \in alone /\ p \in Commands /\ Undisturbed(p) /\ p \notin RenewedTo(t)
    BY <1>1, <2>1 DEF AloneInv
  <2>3. challenged[p] => held[p].access # t
    BY <2>2 DEF RenewedTo
  <2>4. challenged[p] => token'[held[p].access] = token[held[p].access] \/ held[p].access \notin Tokens
    BY <2>1, <2>3 DEF TypeOK
  <2>5. held[p].access # None => held[p].access \in Tokens
    BY <2>2 DEF TypeOK, Credential
  <2> QED
    BY <2>1, <2>2, <2>4, <2>5 DEF Undisturbed
<1>4. CASE Move
  BY <1>4 DEF Move
<1>5. ASSUME NEW q \in Commands, Command(q) PROVE Undisturbed(p)'
  <2>1. CASE Call(q) \/ Login(q) \/ LoginMachine(q) \/ TokenSet(q)
    <3>1. PICK step \in Steps, c \in Credential : Starts(q, step, c)
      BY <2>1, RecordsTyped DEF Call, Login, LoginMachine, TokenSet, Steps, TypeOK
    <3>2. UNCHANGED <<saved, token, good, home, challenged>>
      BY <2>1 DEF Call, Login, LoginMachine, TokenSet
    <3>3. /\ p = q /\ step = "resolve" /\ \A r \in Commands : pc[r] = "idle"
          /\ saved.refresh \in good /\ saved.issuer = home
      BY <3>1 DEF Starts
    <3>4. pc'[q] = "resolve" /\ \A r \in Commands \ {q} : pc'[r] = "idle"
      BY <3>1, <3>3 DEF Starts, TypeOK
    <3> QED
      BY <3>2, <3>3, <3>4 DEF Undisturbed
  <2>2. CASE Logout(q)
    BY <2>2 DEF Logout
  <2>3. ASSUME ~(Call(q) \/ Login(q) \/ LoginMachine(q) \/ TokenSet(q) \/ Logout(q))
        PROVE  pc[q] # "idle" /\ alone' \subseteq alone
    <3>1. CASE SelectToken(q) \/ Renew(q) \/ Save(q) \/ Prepare(q) \/ TokenRead(q)
      BY <3>1 DEF SelectToken, Renew, Save, Prepare, TokenRead
    <3>2. CASE RenewLost(q) \/ Dial(q) \/ Ends(q) \/ TokenSaved(q) \/ Grant(q) \/ Redeem(q)
      BY <3>2 DEF RenewLost, Dial, Ends, TokenSaved, Grant, Redeem, Rests
    <3>3. CASE RenewRefused(q) \/ Challenged(q) \/ Fails(q) \/ Callback(q)
      BY <3>3 DEF RenewRefused, Challenged, Fails, Callback
    <3> QED
      BY <1>5, <2>3, <3>1, <3>2, <3>3 DEF Command
  <2>4. CASE pc[q] # "idle" /\ alone' \subseteq alone
    <3>1. p \in Commands /\ Undisturbed(p)
      BY <1>1, <2>4 DEF AloneInv
    <3>2. p = q
      BY <2>4, <3>1 DEF Undisturbed
    <3> QED
      BY <1>1, <1>5, <3>1, <3>2, UndisturbedStep
  <2> QED
    BY <2>1, <2>2, <2>3, <2>4
<1> QED
  BY <1>2, <1>3, <1>4, <1>5 DEF Next

(* A command that starts with a credential that can be renewed, and has    *)
(* the machine to itself, is not refused, whatever the clock says of the   *)
(* token and whenever the server stops taking it (select_token, connect    *)
(* and its second attempt after a 401).                                    *)
THEOREM AloneIsRenewed == Spec => RenewsWhenRefused
<1>1. Init => AloneInv
  BY DEF Init, AloneInv, ChallengedWhile
<1>2. ASSUME TypeOK, AloneInv, [Next]_vars, NEW p \in alone
      PROVE  pc'[p] # "refused" /\ ~(pc[p] = "refresh" /\ pc'[p] = "failed")
  <2>1. ChallengedWhile /\ p \in Commands /\ Undisturbed(p)
    BY <1>2 DEF AloneInv, TypeOK
  <2>2. CASE UNCHANGED pc
    BY <2>1, <2>2 DEF Undisturbed
  <2>3. ASSUME NEW q \in Commands \ {p}, Command(q)
        PROVE  pc'[p] # "refused" /\ ~(pc[p] = "refresh" /\ pc'[p] = "failed")
    <3>1. pc'[p] = pc[p]
      BY <1>2, <2>1, <2>3, Frame
    <3> QED
      BY <2>1, <3>1 DEF Undisturbed
  <2>4. CASE Command(p)
    <3>1. pc'[p] \in {"idle", "refresh", "save", "dial"}
      BY <1>2, <2>1, <2>4, UndisturbedMoves DEF SelectToken, Renew, Save, Dial, RenewLost, Rests,
         Stops, Goes, TypeOK
    <3> QED
      BY <3>1
  <2> QED
    BY <1>2, <2>2, <2>3, <2>4 DEF Next, Age, Revoke, Move, vars
<1>3. TypeOK /\ AloneInv /\ [Next]_vars =>
        [\A p \in alone : pc'[p] # "refused" /\ ~(pc[p] = "refresh" /\ pc'[p] = "failed")]_vars
  BY <1>2
<1> QED
  BY <1>1, <1>3, AloneStep, TypeCorrect, PTL DEF Spec, RenewsWhenRefused
=============================================================================
