------------------------------ MODULE Commands ------------------------------
(***************************************************************************)
(* One command that runs something on a server (cmd/invoke.rs,             *)
(* cmd/discover.rs, tasks.rs): what it refuses before it dials, which      *)
(* requests it sends and in which order, what it exits with (failure.rs)   *)
(* and what it says when it is refused (diagnose.rs, validate.rs).         *)
(***************************************************************************)
EXTENDS Integers, Sequences, SequencesExt, FiniteSets, FiniteSetsExt

-----------------------------------------------------------------------------
(* Errors have a kind, a code when the server answered, and what their text  *)
(* reads as; a failure also a hint.                                          *)

Error(kind, code, text) == [kind |-> kind, code |-> code, text |-> text]
NoError == Error("none", 0, "")
Usage == Error("usage", 0, "")
Config == Error("config", 0, "")
Transport == Error("transport", 0, "")

MethodNotFound == -32601
InvalidParams == -32602
ResourceNotFound == -32002
IsNotFound(code) == code \in {InvalidParams, ResourceNotFound}

ExitCode(error) == IF error.kind \in {"usage", "config"} THEN 2 ELSE 1

(* What came of a command: the requests it sent, its exit, its hint. *)
Ended(sent, exit, hint) == [sent |-> sent, exit |-> exit, hint |-> hint]
Failed(sent, error, hint) == Ended(sent, ExitCode(error), hint)

ServerRefused(error) == error.kind = "rpc"
ReadsAsArgumentError(text) == text \in {"-32602", "invalid arguments", "validation error"}
IsArgumentError(error) == error.kind = "rpc" /\ (error.code = InvalidParams \/ ReadsAsArgumentError(error.text))

MissingCapability(error) ==
    IF error.kind = "rpc" /\ error.code = MethodNotFound THEN "no capability" ELSE "none"
MissingItem(error) ==
    IF error.kind = "rpc" /\ IsNotFound(error.code) THEN "the listing" ELSE MissingCapability(error)

(* edit_distance: three rows of the table, of which the last two are kept. *)
EditDistance(a, b) ==
    LET width == Len(b)
        Least(i, j, row, rows) ==
            LET substitute == rows.prev[j] + (IF a[i] = b[j] THEN 0 ELSE 1)
                best == Min({substitute, rows.prev[j + 1] + 1, row[j] + 1})
            IN IF i > 1 /\ j > 1 /\ a[i] = b[j - 1] /\ a[i - 1] = b[j]
               THEN Min({best, rows.before[j - 1] + 1}) ELSE best
        Row(i, rows) == FoldLeftDomain(LAMBDA row, j: Append(row, Least(i, j, row, rows)), <<i>>, b)
        Next(rows, i) == [before |-> rows.prev, prev |-> Row(i, rows)]
        first == [j \in 1 .. width + 1 |-> j - 1]
    IN FoldLeftDomain(Next, [before |-> [j \in 1 .. width + 1 |-> 0], prev |-> first], a).prev[width + 1]

(* The nearest name, the first of those as near, when it is near enough. *)
Closest(word, names) ==
    LET limit == IF Len(word) <= 4 THEN 1 ELSE 2
        near == {i \in DOMAIN names: EditDistance(word, names[i]) <= limit}
    IN IF near = {} THEN 0
       ELSE LET least == Min({EditDistance(word, names[i]): i \in near})
            IN Min({i \in near: EditDistance(word, names[i]) = least})

SuggestTool(tools, name) ==
    IF tools = <<>> THEN "none" ELSE IF Closest(name, tools) # 0 THEN "did you mean" ELSE "the tools"

CallHint(tools, name, argumentError) ==
    IF name \in ToSet(tools) THEN IF argumentError THEN "usage" ELSE "none" ELSE SuggestTool(tools, name)

-----------------------------------------------------------------------------
(* call.  A run is its flags, what a person or a program can do, and how the *)
(* server answers: lists is "" when it refuses to list.                      *)

Tools(w) == IF w.lists THEN w.tools ELSE <<>>

(* What a command looks at before it dials. *)
Refusal(w) ==
    IF w.check = "unreadable" THEN Usage
    ELSE IF w.elicit = "bad" THEN Usage
    ELSE IF w.arguments \in {"both forms", "bad object"} THEN Usage
    ELSE IF ~w.known THEN Usage
    ELSE IF w.denied THEN Config
    ELSE NoError
RefusalHint(w) ==
    IF w.check # "unreadable" /\ w.elicit # "bad" /\ w.arguments = "bad object" THEN "the object" ELSE "none"

NeedsSchema(w) == w.arguments = "pairs"
ListsFirst(w) == w.asks \/ NeedsSchema(w)

(* tasks::call: the call, or the task it is to be or has to be. *)
Planned(task, detach) == IF detach THEN "detach" ELSE IF task THEN "wait" ELSE "now"
InsistsOnATask(w, tools) == w.tool \in ToSet(tools) /\ w.support = "required"
RefusedWithoutATask(w) ==
    w.reply.error.kind = "rpc" /\ w.reply.error.code = MethodNotFound /\ w.offersTasks /\ InsistsOnATask(w, Tools(w))
AsksWhetherItInsists(w) ==
    w.reply.error.kind = "rpc" /\ w.reply.error.code = MethodNotFound /\ w.offersTasks

(* A slip: any refusal is taken for that of a tool that wants a task. *)
AnyRefusal(w, plan, known) ==
    plan # "now" \/ (InsistsOnATask(w, known) /\ w.offersTasks) \/ w.reply.error # NoError

RunsAsATask(w, plan, known) ==
    plan # "now" \/ (InsistsOnATask(w, known) /\ w.offersTasks) \/ RefusedWithoutATask(w)

SpeaksTasks(w) == w.version = "2025-11-25"
CannotAnswerADetach(w) == w.stdio /\ ~w.daemon

(* The task is started, and left or polled to its end. *)
Started(w, plan, sent) ==
    LET asked == Append(sent, "task")
    IN IF plan = "detach" /\ CannotAnswerADetach(w) THEN [sent |-> sent, error |-> Usage, hint |-> "start it", failed |-> FALSE]
       ELSE IF ~SpeaksTasks(w) THEN [sent |-> sent, error |-> Usage, hint |-> "the revision", failed |-> FALSE]
       ELSE IF w.task.error # NoError
       THEN [sent |-> asked, error |-> w.task.error, hint |-> MissingCapability(w.task.error), failed |-> FALSE]
       ELSE IF w.task.id = "none" THEN [sent |-> asked, error |-> Transport, hint |-> "without --task", failed |-> FALSE]
       ELSE IF plan = "detach" THEN [sent |-> asked, error |-> NoError, hint |-> "none", failed |-> FALSE]
       ELSE IF w.task.ends = "input_required"
       THEN [sent |-> asked, error |-> Transport, hint |-> "without --task", failed |-> FALSE]
       ELSE [sent |-> Append(asked, "result"), error |-> NoError, hint |-> "none", failed |-> w.task.ends # "completed"]

CalledThrough(w, plan, sent, known) ==
    LET foreground == plan = "now" /\ ~(InsistsOnATask(w, known) /\ w.offersTasks)
        called == IF foreground THEN Append(sent, "call") ELSE sent
        looked == IF foreground /\ AsksWhetherItInsists(w) THEN Append(called, "list") ELSE called
    IN IF RunsAsATask(w, plan, known) THEN Started(w, plan, looked)
       ELSE [sent |-> looked, error |-> w.reply.error, hint |-> "none", failed |-> w.reply.failed]

(* What came of the call, with what is asked again to explain it. *)
Explained(w, ran) ==
    LET asksAgain == IF ran.error # NoError THEN ran.hint = "none" /\ ServerRefused(ran.error) ELSE ran.failed
        argumentError == IF ran.error # NoError THEN IsArgumentError(ran.error) ELSE ReadsAsArgumentError(w.reply.text)
        exit == IF ran.error # NoError THEN ExitCode(ran.error) ELSE IF ran.failed THEN 1 ELSE 0
    IN IF asksAgain
       THEN Ended(Append(ran.sent, "list"), exit, CallHint(Tools(w), w.tool, argumentError))
       ELSE Ended(ran.sent, exit, ran.hint)

(* The command, whatever it was given. *)
Call(w) ==
    LET checked == IF w.check = "none" THEN <<"open">> ELSE <<"open", "list">>
        listed == IF ListsFirst(w) THEN Append(checked, "list") ELSE checked
    IN IF Refusal(w) # NoError THEN Failed(<<>>, Refusal(w), RefusalHint(w))
       ELSE IF ~w.opens THEN Failed(<<"open">>, Transport, "none")
       ELSE IF w.check # "none" /\ ~w.lists THEN Failed(checked, Transport, "none")
       ELSE IF w.check = "drifted" THEN Ended(checked, 3, "none")
       ELSE IF NeedsSchema(w) /\ ~w.fits THEN Failed(listed, Usage, CallHint(Tools(w), w.tool, TRUE))
       ELSE IF w.asks /\ ~w.filled THEN Failed(listed, Usage, "none")
       ELSE Explained(w, CalledThrough(w, w.plan, listed, IF ListsFirst(w) THEN Tools(w) ELSE <<>>))

(* tools, with and without its files, and the listings that may be refused:
   templates are optional, resources and prompts are not. *)
ListTools(w) ==
    IF w.snapshot = "taken" THEN Failed(<<>>, Usage, "none")
    ELSE IF w.check = "unreadable" THEN Failed(<<>>, Usage, "none")
    ELSE IF ~w.opens THEN Failed(<<"open">>, Transport, "none")
    ELSE IF ~w.lists THEN Failed(<<"open", "list">>, Transport, "none")
    ELSE Ended(<<"open", "list">>, IF w.snapshot = "none" /\ w.check = "drifted" THEN 3 ELSE 0, "none")
Resources(w) ==
    IF w.resources # NoError THEN Failed(<<"resources">>, w.resources, MissingCapability(w.resources))
    ELSE Ended(<<"resources", "templates">>, 0, "none")
ReadResource(w) ==
    IF w.resources # NoError THEN Failed(<<"read">>, w.resources, MissingItem(w.resources))
    ELSE Ended(<<"read">>, 0, "none")

Schema(w) ==
    IF ~w.known THEN Failed(<<>>, Usage, "none")
    ELSE IF w.denied THEN Failed(<<>>, Config, "none")
    ELSE IF ~w.opens THEN Failed(<<"open">>, Transport, "none")
    ELSE IF ~w.lists THEN Failed(<<"open", "list">>, Transport, "none")
    ELSE IF w.tool \notin ToSet(w.tools)
    THEN Failed(<<"open", "list">>, Usage, IF Closest(w.tool, w.tools) # 0 THEN "did you mean" ELSE "none")
    ELSE Ended(<<"open", "list">>, 0, "none")
Prompt(w) ==
    IF w.arguments = "bad object" THEN Failed(<<>>, Usage, "the object")
    ELSE IF w.arguments = "both forms" \/ ~w.known THEN Failed(<<>>, Usage, "none")
    ELSE IF ~w.opens THEN Failed(<<"open">>, Transport, "none")
    ELSE IF w.resources # NoError THEN Failed(<<"open", "prompt">>, w.resources, MissingItem(w.resources))
    ELSE Ended(<<"open", "prompt">>, 0, "none")

(* The local copies are asked before the network when told to be. *)
Synced(refresh, offline) == IF refresh THEN "refresh" ELSE IF offline THEN "offline" ELSE "auto"
Search(w) ==
    IF w.query = <<>> THEN [exit |-> 2, shown |-> 0, sync |-> "none"]
    ELSE [exit |-> IF w.hits = 0 THEN 1 ELSE 0, shown |-> Min({w.hits, w.limit}), sync |-> Synced(w.refresh, w.offline)]

-----------------------------------------------------------------------------
(* Objects typed without their quotes, as characters; a word is not JSON.    *)

Trimmed(text) ==
    LET solid == {i \in DOMAIN text: text[i] # " "}
    IN IF solid = {} THEN <<>> ELSE SubSeq(text, Min(solid), Max(solid))
RECURSIVE Fields(_)
Fields(text) ==
    LET comma == SelectInSeq(text, LAMBDA c: c = ",")
    IN IF comma = 0 THEN <<text>> ELSE <<SubSeq(text, 1, comma - 1)>> \o Fields(SubSeq(text, comma + 1, Len(text)))

(* The object it was, or none. *)
RequoteObject(text) ==
    LET t == Trimmed(text)
        inner == SubSeq(t, 2, Len(t) - 1)
        fields == Fields(inner)
        colon(f) == SelectInSeq(f, LAMBDA c: c = ":")
        key(f) == Trimmed(SubSeq(f, 1, colon(f) - 1))
        value(f) == Trimmed(SubSeq(f, colon(f) + 1, Len(f)))
    IN IF Len(t) >= 2 /\ t[1] = "{" /\ Last(t) = "}" /\ ToSet(inner) \cap {"{", "[", "\""} = {}
          /\ \A i \in DOMAIN fields: colon(fields[i]) > 0 /\ key(fields[i]) # <<>> /\ value(fields[i]) # <<>>
       THEN <<[i \in DOMAIN fields |-> <<key(fields[i]), value(fields[i])>>]>> ELSE <<>>

-----------------------------------------------------------------------------
(* What is promised. *)

(* How often the tool may have run: a call that was not refused, a task that began. *)
Runs(w, ended) ==
    Cardinality({i \in DOMAIN ended.sent: ended.sent[i] = "call"
                   /\ w.reply.error.code \notin {MethodNotFound, InvalidParams}})
    + Cardinality({i \in DOMAIN ended.sent: ended.sent[i] = "task" /\ w.task.error = NoError})

(* A tool runs once at the most: never for a command that was wrong before it
   was sent or for a tool that has drifted; a program that gave an object and
   no snapshot sends nothing but its call, whatever that takes to explain. *)
CallRunsOnce(w, c) ==
    /\ Runs(w, c) <= 1
    /\ c.exit \in {2, 3} => Runs(w, c) = 0
    /\ c.exit = 3 <=> Refusal(w) = NoError /\ w.opens /\ w.lists /\ w.check = "drifted"
    /\ c.exit = 3 => c.sent = <<"open", "list">>
    /\ w.denied => c.sent = <<>>
    /\ c.exit = 0 => Runs(w, c) = 1
    /\ ~ListsFirst(w) /\ w.check = "none" /\ c.exit = 0 /\ "task" \notin ToSet(c.sent) => c.sent = <<"open", "call">>
    /\ w.plan = "detach" => "call" \notin ToSet(c.sent) /\ "result" \notin ToSet(c.sent)
    /\ w.plan = "detach" /\ w.stdio /\ ~w.daemon => "task" \notin ToSet(c.sent)

(* A hint is of the list as the server gives it, usage of a tool there is and a
   guess of one there is not; nothing more is asked once an answer is lost. *)
HintsFit(w, c) ==
    /\ c.hint = "usage" => w.tool \in ToSet(Tools(w))
    /\ c.hint \in {"did you mean", "the tools"} => w.tool \notin ToSet(Tools(w)) /\ Tools(w) # <<>>
    /\ "call" \in ToSet(c.sent) /\ w.reply.error.kind = "transport" => Last(c.sent) = "call" /\ c.hint = "none"

(* The table is the definition: the fewest letters put in, left out, changed
   or swapped with their neighbour; and the name that is offered is nearest. *)
RECURSIVE Distance(_, _)
Distance(a, b) ==
    IF a = <<>> THEN Len(b) ELSE IF b = <<>> THEN Len(a)
    ELSE LET swapped == Len(a) > 1 /\ Len(b) > 1 /\ Last(a) = b[Len(b) - 1] /\ a[Len(a) - 1] = Last(b)
         IN Min({Distance(Front(a), b) + 1, Distance(a, Front(b)) + 1,
                 Distance(Front(a), Front(b)) + (IF Last(a) = Last(b) THEN 0 ELSE 1)}
                \cup (IF swapped THEN {Distance(Front(Front(a)), Front(Front(b))) + 1} ELSE {}))
NearestIsOffered(word, names) ==
    LET at == Closest(word, names)
    IN /\ \A i \in DOMAIN names: EditDistance(word, names[i]) = Distance(word, names[i])
       /\ at # 0 => \A i \in DOMAIN names: Distance(word, names[at]) <= Distance(word, names[i])

(* A file that cannot be written or read costs no connection; exit 3 is a
   drift and nothing else; a listing a server never had is told from an item. *)
ListingsAsk(w) ==
    LET t == ListTools(w)
    IN /\ w.snapshot = "taken" \/ w.check = "unreadable" => t.sent = <<>> /\ t.exit = 2
       /\ t.exit = 3 => w.check = "drifted" /\ w.opens /\ w.lists /\ w.snapshot = "none"
       /\ Resources(w).hint = "no capability" <=> w.resources.code = MethodNotFound
       /\ ReadResource(w).hint = "the listing" => Resources(w).hint = "none"
       /\ Resources(w).exit = 0 <=> w.resources = NoError
       /\ w.denied => Schema(w).sent = <<>> /\ Schema(w).exit = 2
       /\ Schema(w).hint = "did you mean" => w.lists /\ Schema(w).exit = 2 /\ SuggestTool(w.tools, w.tool) = "did you mean"
       /\ "prompt" \in ToSet(Prompt(w).sent) => Prompt(w).hint = ReadResource(w).hint /\ Prompt(w).exit # 2

SearchShows(w) ==
    LET s == Search(w)
    IN /\ s.shown <= w.limit /\ s.shown <= w.hits
       /\ s.exit = 0 => w.hits > 0
       /\ w.offline /\ ~w.refresh => s.sync \in {"none", "offline"}

(* An object of plain words is given back with its quotes as it was meant. *)
Unquoted(object) ==
    <<"{">> \o FlattenSeq([i \in DOMAIN object |->
        (IF i = 1 THEN <<>> ELSE <<",", " ">>) \o object[i][1] \o <<":">> \o object[i][2]]) \o <<"}">>
QuotesComeBack(object, text) ==
    /\ RequoteObject(Unquoted(object)) = <<object>>
    /\ RequoteObject(text) # <<>> => RequoteObject(Unquoted(RequoteObject(text)[1])) = RequoteObject(text)
=============================================================================
