----------------------------- MODULE Discovery -----------------------------
(***************************************************************************)
(* How an authorization server is found and a client presented to it       *)
(* (oauth.rs): the documents asked for and the one repeat of a request     *)
(* that failed on the way, the issuer a document may name, registration,   *)
(* where a secret goes, what a renewal repeats, and the texts of these:    *)
(* challenges, addresses and form bodies.                                  *)
(***************************************************************************)
EXTENDS Integers, Sequences, SequencesExt, FiniteSets, TLC

Nothing == "nothing"

-----------------------------------------------------------------------------
(* The documents.  A net answers the first and the second request for an     *)
(* address: with a document, with one that is not JSON, a status, a reply    *)
(* that breaks off, or not at all.                                           *)

Failures == {"missing", "busy", "cut", "unreachable", "timeout"}
Transient == {"busy", "cut", "unreachable"}
Statuses == {"missing", "busy"}

GetOnce(net, url, n) == IF url \in DOMAIN net THEN net[url].replies[n] ELSE "missing"

(* What came of it: the document, that there is none, or that asking failed. *)
GetJson(net, url) ==
    LET again == GetOnce(net, url, 1) \in Transient
        reply == GetOnce(net, url, IF again THEN 2 ELSE 1)
    IN [asks |-> IF again THEN 2 ELSE 1,
        fails |-> reply \in Failures \ Statuses,
        document |-> IF reply = "document" THEN <<net[url].document>> ELSE <<>>]

(* The first of some addresses with a document - one that names a token endpoint,
   if it mints; fails if one could not be asked. *)
FirstOf(net, urls, mints) ==
    LET Stops(u) == GetJson(net, u).fails
                    \/ \E d \in ToSet(GetJson(net, u).document): mints => d.token # ""
        at == SelectInSeq(urls, Stops)
    IN IF at = 0 THEN [asked |-> urls, fails |-> FALSE, document |-> <<>>]
       ELSE [asked |-> SubSeq(urls, 1, at), fails |-> GetJson(net, urls[at]).fails,
             document |-> GetJson(net, urls[at]).document]

(* What an initialize nobody signed is answered; status 0 is no answer, and a
   header is a sequence of none or one. *)
NoText == <<>>
Challenge(reply) ==
    IF reply.status = 0 \/ reply.status \in 300 .. 399 THEN [ok |-> FALSE, challenge |-> <<>>]
    ELSE [ok |-> TRUE,
          challenge |-> IF reply.header = <<>> /\ reply.status = 401 THEN <<NoText>> ELSE reply.header]

Address(origin, place, path) == [origin |-> origin, place |-> place, path |-> path]

ResourceUrls(mcp, hint) ==
    hint
    \o (IF mcp.path = "" THEN <<>> ELSE <<Address(mcp.origin, "resource", mcp.path)>>)
    \o <<Address(mcp.origin, "resource", "")>>

ServerUrls(issuer) ==
    IF issuer.path # ""
    THEN <<Address(issuer.origin, "server", issuer.path), Address(issuer.origin, "openid", issuer.path),
           Address(issuer.origin, "below", issuer.path)>>
    ELSE <<Address(issuer.origin, "server", ""), Address(issuer.origin, "openid", "")>>

Bare(issuer) == [issuer EXCEPT !.slash = FALSE]
NotStated == [origin |-> "", path |-> "", slash |-> FALSE]

(* A slip: what a document says of itself is what it is. *)
AnyIssuer(stated, discovered) == [ok |-> TRUE, issuer |-> IF stated = NotStated THEN discovered ELSE stated]

ValidatedIssuer(stated, discovered) ==
    IF stated = NotStated THEN [ok |-> TRUE, issuer |-> discovered]
    ELSE [ok |-> Bare(stated) = Bare(discovered), issuer |-> stated]

NoMetadata == [token |-> "", issuer |-> NotStated, scopes |-> {}]

(* hint is the address a challenge names, if it names one; resource is the
   document of a protected resource: its servers and its scopes. *)
Named(mcp, resource) ==
    IF resource.document # <<>> /\ resource.document[1].servers # <<>>
    THEN Bare(resource.document[1].servers[1]) ELSE [origin |-> mcp.origin, path |-> "", slash |-> FALSE]
Gathered(resource, issuer, server) ==
    LET meta == IF server.document = <<>> THEN NoMetadata ELSE server.document[1]
        stated == ValidatedIssuer(meta.issuer, issuer)
        scopes == UNION {d.scopes: d \in ToSet(resource.document)}
    IN [ok |-> ~resource.fails /\ ~server.fails /\ stated.ok,
        fails |-> resource.fails \/ (~resource.fails /\ server.fails),
        asked |-> resource.asked \o (IF resource.fails THEN <<>> ELSE server.asked),
        resource |-> ToSet(resource.document), discovered |-> issuer, issuer |-> stated.issuer,
        token |-> IF meta.token = "" THEN "default" ELSE meta.token,
        scopes |-> IF scopes = {} THEN meta.scopes ELSE scopes]
DiscoverServer(net, resource, issuer) ==
    Gathered(resource, issuer, FirstOf(net, ServerUrls(issuer), TRUE))
DiscoverFrom(net, mcp, resource) == DiscoverServer(net, resource, Named(mcp, resource))
Discover(net, mcp, hint) == DiscoverFrom(net, mcp, FirstOf(net, ResourceUrls(mcp, hint), FALSE))

-----------------------------------------------------------------------------
(* The client. *)

ClientAuthMethod(supported) ==
    IF "client_secret_basic" \in supported /\ "client_secret_post" \notin supported
    THEN "client_secret_basic" ELSE "client_secret_post"

(* The form fields of a token request and its Authorization header. *)
AuthenticateClient(params, method, id, secret) ==
    IF id = Nothing \/ secret = Nothing THEN [params |-> params, basic |-> <<>>]
    ELSE IF method = "client_secret_basic" THEN [params |-> params, basic |-> <<id, secret>>]
    ELSE [params |-> Append(params, <<"client_secret", secret>>), basic |-> <<>>]

Registrations == {"pre-registered", "dynamic", "client_metadata_document"}
ParseRegistration(text) == IF text \in Registrations THEN text ELSE Nothing
SavedRegistration(credential) ==
    IF ParseRegistration(credential.registration) # Nothing THEN credential.registration
    ELSE IF credential.secret # Nothing THEN "pre-registered" ELSE "dynamic"

(* A metadata document's address is https, with a path. *)
CheckClientMetadataUrl(url) ==
    LET slash == SelectInSeq(url, LAMBDA c: c = "/")
    IN /\ url # <<>> /\ Head(url) = "https://" /\ slash > 0
       /\ \E i \in slash .. Len(url): url[i] # "/"

(* What registering for one redirect comes to, given the server's reply. *)
IsRedirectRefused(registered) == registered.error = "redirect refused"
Register(offered, reply) ==
    LET Failed(why) == [id |-> Nothing, error |-> why]
    IN IF ~offered THEN Failed("not offered")
       ELSE IF reply.status = 0 THEN Failed("failed")
       ELSE IF reply.status \notin 200 .. 299
       THEN Failed(IF reply.mentions \in {"redirect", "invalid_client_metadata"}
                   THEN "redirect refused" ELSE "failed")
       ELSE IF reply.id = Nothing THEN Failed("no client_id")
       ELSE [id |-> reply.id, error |-> Nothing]

(* The loopback hosts asked for, and what came of the last; replies by host. *)
RegisterLoopback(offered, replies, asked, kept) ==
    LET host == IF asked # Nothing THEN asked ELSE IF kept # Nothing THEN kept ELSE "127.0.0.1"
        first == Register(offered, replies[host])
        falls == asked = Nothing /\ host = "127.0.0.1" /\ IsRedirectRefused(first)
    IN IF falls THEN [hosts |-> <<host, "localhost">>, registered |-> Register(offered, replies["localhost"])]
       ELSE [hosts |-> <<host>>, registered |-> first]

-----------------------------------------------------------------------------
(* The grant a machine runs, now and again. *)

RequireGrant(meta, grant) == meta.grants = {} \/ grant \in meta.grants

Optional(name, value) == IF value = Nothing THEN <<>> ELSE <<<<name, value>>>>
GrantRequest(c) ==
    AuthenticateClient(<<<<"grant_type", "client_credentials">>, <<"client_id", c.id>>>>
                         \o Optional("scope", c.scope) \o Optional("resource", c.resource),
                       c.method, c.id, c.secret)
RefreshRequest(c) ==
    AuthenticateClient(<<<<"grant_type", "refresh_token">>, <<"refresh_token", c.refresh>>>>
                         \o Optional("client_id", c.id) \o Optional("resource", c.resource),
                       c.method, c.id, c.secret)

(* The token fields of a response written over what was there. *)
Granted(response, base) ==
    [base EXCEPT !.access = response.access,
                 !.refresh = IF response.refresh = Nothing THEN base.refresh ELSE response.refresh,
                 !.expires = response.expires,
                 !.scope = IF response.scope = Nothing THEN base.scope ELSE response.scope]
Grants(response) == response.status \in 200 .. 299 /\ response.access \notin {Nothing, ""}

ClientCredentials(meta, id, secret, scope) ==
    [endpoint |-> "token", method |-> ClientAuthMethod(meta.methods), id |-> id, secret |-> secret,
     registration |-> "pre-registered", resource |-> "mcp", source |-> "client_credentials",
     scope |-> IF scope # Nothing \/ meta.scopes = Nothing THEN scope ELSE meta.scopes,
     access |-> Nothing, refresh |-> Nothing, expires |-> Nothing]
RenewsByGrant(c) == c.source = "client_credentials" /\ c.id # Nothing /\ c.secret # Nothing

(* LoginMachine's flags: those of a browser are refused, a secret is needed. *)
MachineFlags(flags) ==
    flags.port = Nothing /\ flags.host = Nothing /\ flags.browser
    /\ flags.id # Nothing /\ flags.secret # Nothing

(* The exchange of a code: a client's secret only if it is that client's. *)
SecretFor(flag, saved, id) ==
    IF flag # Nothing THEN flag ELSE IF saved.id = id THEN saved.secret ELSE Nothing

-----------------------------------------------------------------------------
(* Texts, character by character; K stands for the key that is looked for.   *)

TrimStart(text) ==
    LET solid == SelectInSeq(text, LAMBDA c: c # " ")
    IN IF solid = 0 THEN <<>> ELSE SubSeq(text, solid, Len(text))
UpTo(text, ends) ==
    LET end == SelectInSeq(text, LAMBDA c: c \in ends)
    IN IF end = 0 THEN text ELSE SubSeq(text, 1, end - 1)

ChallengeParam(header, key) ==
    LET at == {i \in 1 .. Len(header) - 1: header[i] = key /\ header[i + 1] = "="}
        first == CHOOSE i \in at: \A j \in at: i <= j
        value == TrimStart(SubSeq(header, first + 2, Len(header)))
    IN IF at = {} THEN [found |-> FALSE, value |-> <<>>]
       ELSE [found |-> TRUE,
             value |-> IF value # <<>> /\ Head(value) = "\"" THEN UpTo(Tail(value), {"\""})
                       ELSE UpTo(value, {",", " "})]

TrimEnd(path) ==
    LET kept == {i \in DOMAIN path: path[i] # "/"}
    IN SubSeq(path, 1, IF kept = {} THEN 0 ELSE CHOOSE i \in kept: \A j \in kept: j <= i)
SplitUrl(url) ==
    LET scheme == SelectInSeq(url, LAMBDA c: c = "://")
        slash == SelectInSubSeq(url, scheme + 1, Len(url), LAMBDA c: c = "/")
    IN IF slash > 0
       THEN [origin |-> SubSeq(url, 1, slash - 1), path |-> TrimEnd(UpTo(SubSeq(url, slash, Len(url)), {"?", "#"}))]
       ELSE [origin |-> UpTo(url, {"?", "#"}), path |-> <<>>]

(* A form: the characters that stand for themselves and the codes of the others. *)
Unreserved == {"a", "2", "5"}
Code == ("%" :> <<"2", "5">>) @@ ("&" :> <<"2", "6">>) @@ ("=" :> <<"3", "D">>)
        @@ ("+" :> <<"2", "B">>) @@ (" " :> <<"2", "0">>)
Digits == {"0", "2", "3", "5", "6", "a", "B", "D"}

UrlEncode(text) == FlattenSeq([i \in DOMAIN text |->
    IF text[i] \in Unreserved THEN <<text[i]>> ELSE <<"%">> \o Code[text[i]]])

CharOf(h, l) == IF \E c \in DOMAIN Code: Code[c] = <<h, l>>
                THEN CHOOSE c \in DOMAIN Code: Code[c] = <<h, l>> ELSE "other"
UrlDecode(text) ==
    LET From[i \in Nat] ==
            IF i > Len(text) THEN <<>>
            ELSE IF text[i] = "%" /\ i + 2 <= Len(text) /\ {text[i + 1], text[i + 2]} \subseteq Digits
            THEN <<CharOf(text[i + 1], text[i + 2])>> \o From[i + 3]
            ELSE <<IF text[i] = "+" THEN " " ELSE text[i]>> \o From[i + 1]
    IN From[1]

Pieces(text, sep) ==
    LET From[i \in Nat] ==
            LET at == SelectInSubSeq(text, i, Len(text), LAMBDA c: c = sep)
            IN IF at = 0 THEN <<SubSeq(text, i, Len(text))>>
               ELSE <<SubSeq(text, i, at - 1)>> \o From[at + 1]
    IN From[1]
QueryParams(query) ==
    LET pieces == SelectSeq(Pieces(query, "&"), LAMBDA p: p # <<>>)
        eq(p) == SelectInSeq(p, LAMBDA c: c = "=")
        Param(p) == IF eq(p) = 0 THEN <<UrlDecode(p), <<>>>>
                    ELSE <<UrlDecode(SubSeq(p, 1, eq(p) - 1)), UrlDecode(SubSeq(p, eq(p) + 1, Len(p)))>>
    IN [i \in DOMAIN pieces |-> Param(pieces[i])]
Form(params) ==
    FlattenSeq([i \in DOMAIN params |->
        (IF i = 1 THEN <<>> ELSE <<"&">>) \o UrlEncode(params[i][1]) \o <<"=">> \o UrlEncode(params[i][2])])

-----------------------------------------------------------------------------
(* What is promised of each. *)

(* No address is asked a third time, nor another server's; a document that can
   be had stops the search, a request that fails without a status ends it; the
   issuer is the one that was looked for but for a slash. *)
DiscoveryIsTheirs(net, mcp, hint, d) ==
    LET mine == {mcp.origin, d.discovered.origin} \cup {u.origin: u \in ToSet(hint)}
        Broken(u) == GetOnce(net, u, 1) = "timeout"
                     \/ (GetOnce(net, u, 1) \in Transient /\ GetOnce(net, u, 2) \notin {"document", "not json"} \cup Statuses)
    IN /\ \A i \in DOMAIN d.asked: d.asked[i].origin \in mine
       /\ d.fails <=> \E i \in DOMAIN d.asked: Broken(d.asked[i])
       /\ d.ok => /\ d.issuer.origin = d.discovered.origin /\ d.issuer.path = d.discovered.path
                  /\ d.token # "default" =>
                       \E u \in ToSet(d.asked): u \in DOMAIN net /\ u.place # "resource" /\ net[u].document.token = d.token
                  /\ \A r \in d.resource: r.scopes # {} => d.scopes = r.scopes
       /\ \A i, j \in DOMAIN d.asked: i # j => d.asked[i] # d.asked[j] \/ d.asked[i] \in ToSet(hint)

(* The secret goes to the server in one place, and only with its client. *)
SecretGoesOnce(request, id, secret) ==
    LET inForm == Cardinality({i \in DOMAIN request.params: request.params[i][1] = "client_secret"})
    IN IF id # Nothing /\ secret # Nothing
       THEN inForm + (IF request.basic = <<>> THEN 0 ELSE 1) = 1 ELSE inForm = 0 /\ request.basic = <<>>

(* A machine's renewal asks again for what was granted, by the same client. *)
RenewsAsGranted(meta, flags, response) ==
    LET base == ClientCredentials(meta, flags.id, flags.secret, flags.scope)
        kept == Granted(response, base)
    IN MachineFlags(flags) /\ RequireGrant(meta, "client_credentials") /\ Grants(response) =>
         /\ RenewsByGrant(kept) /\ SavedRegistration(kept) = "pre-registered"
         /\ SecretGoesOnce(GrantRequest(base), base.id, base.secret)
         /\ response.scope = Nothing => GrantRequest(kept) = GrantRequest(base)
         /\ response.scope # Nothing => <<"scope", response.scope>> \in ToSet(GrantRequest(kept).params)
         /\ GrantRequest(kept).basic = GrantRequest(base).basic

(* A secret is presented for no client but its own, and once. *)
SecretIsItsOwn(credential, flag, id) ==
    LET secret == SecretFor(flag, credential, id)
    IN /\ secret # Nothing => secret = flag \/ credential.id = id
       /\ SecretGoesOnce(RefreshRequest(credential), credential.id, credential.secret)

(* localhost is tried after a refused redirect alone, and never a third host. *)
HostsAreTried(offered, replies, asked, kept) ==
    LET r == RegisterLoopback(offered, replies, asked, kept)
    IN /\ asked # Nothing => r.hosts = <<asked>>
       /\ Len(r.hosts) = 2 => r.hosts[2] = "localhost" /\ offered /\ replies["127.0.0.1"].status >= 400
       /\ r.registered.id # Nothing => r.registered.id = replies[Last(r.hosts)].id

(* A challenge with no other value that spells the key is read as it was written. *)
Quoted(p) == IF p.quoted THEN <<"\"">> \o p.value \o <<"\"">> ELSE p.value
Header(params) ==
    <<"Bearer", " ">> \o FlattenSeq([i \in DOMAIN params |->
        (IF i = 1 THEN <<>> ELSE <<",", " ">>) \o <<params[i].key, "=">> \o Quoted(params[i])])
ChallengeIsRead(status, params) ==
    LET mine == SelectInSeq(params, LAMBDA p: p.key = "K")
        c == Challenge([status |-> status, header |-> IF params = <<>> THEN <<>> ELSE <<Header(params)>>])
        read == ChallengeParam(c.challenge[1], "K")
    IN /\ c.challenge # <<>> /\ mine = 0 => ~read.found
       /\ c.challenge # <<>> /\ mine > 0 => read = [found |-> TRUE, value |-> params[mine].value]
       /\ status \in {401, 403} => c.ok /\ (status = 401 \/ params # <<>> <=> c.challenge # <<>>)

(* An address with a host is cut where its path starts, its query left out. *)
UrlIsSplit(host, path, query) ==
    LET s == SplitUrl(<<"https", "://">> \o host \o path \o query)
    IN /\ path # <<>> \/ "/" \notin ToSet(query) => s.origin = <<"https", "://">> \o host
       /\ path # <<>> => s.path = TrimEnd(path)
       /\ CheckClientMetadataUrl(<<"https://">> \o host \o path) <=> TrimEnd(path) # <<>>

(* A form read back is what was put in it, whatever characters it holds. *)
FormReadsBack(params) == QueryParams(Form(params)) = params
=============================================================================
