------------------------------ MODULE Results ------------------------------
(***************************************************************************)
(* The results of one session: which of them it still holds and under      *)
(* which number (shell/history.rs), and where one goes when it is not to   *)
(* be printed whole: cut, or written to a file (output.rs).                *)
(*                                                                         *)
(* A result is its weight; the session keeps at most MaxResults of them    *)
(* and MaxBytes of their weight.  A session's record:                      *)
(*   kept     the results it holds, oldest first: number and weight        *)
(*   weight   of all of kept                                               *)
(*   printed  how many it has printed                                      *)
(*   sent     the calls it sent, oldest first                              *)
(*   ours     whether this run made the --output file                      *)
(*   file     what stands at that path                                     *)
(***************************************************************************)
EXTENDS Integers, Sequences, SequencesExt, FiniteSets, FiniteSetsExt

MaxResults == 3
MaxBytes == 4

NoFile == "none"
Started == [kept |-> <<>>, weight |-> 0, printed |-> 0, sent |-> <<>>, ours |-> FALSE, file |-> NoFile]

Total(kept) == FoldLeft(LAMBDA sum, r: sum + r.weight, 0, kept)

Fits(kept, weight) == Len(kept) <= 1 \/ (Len(kept) <= MaxResults /\ weight <= MaxBytes)

(* A slip: one is dropped, and not one after another until the rest fits. *)
DropOne(kept, weight) ==
    IF Fits(kept, weight) THEN [kept |-> kept, weight |-> weight]
    ELSE [kept |-> Tail(kept), weight |-> weight - Head(kept).weight]

(* The oldest go, one at a time, until the rest fits. *)
DropOldest(kept, weight) ==
    LET n == Min({m \in 0 .. Len(kept): LET rest == SubSeq(kept, m + 1, Len(kept))
                                        IN Fits(rest, weight - Total(SubSeq(kept, 1, m)))})
    IN [kept |-> SubSeq(kept, n + 1, Len(kept)), weight |-> weight - Total(SubSeq(kept, 1, n))]

Record(s, weight) ==
    LET filed == DropOldest(Append(s.kept, [number |-> s.printed + 1, weight |-> weight]), s.weight + weight)
    IN [s EXCEPT !.printed = @ + 1, !.kept = filed.kept, !.weight = filed.weight]

Sending(s, tool) ==
    LET all == Append(s.sent, tool)
    IN [s EXCEPT !.sent = IF Len(all) > MaxResults THEN Tail(all) ELSE all]

(* The last call of a tool, or of any: its place among those sent. *)
LastCall(s, tool) == SelectLastInSeq(s.sent, LAMBDA t: tool \in {"any", t})

OutOfReach(s, number) ==
    IF s.printed = 0 THEN "nothing yet"
    ELSE IF number > s.printed THEN "there is no result" ELSE "no longer kept"

(* The result a line names: 0 is _, the last. *)
Find(s, number) ==
    IF number = 0
    THEN IF s.kept = <<>> THEN "nothing yet" ELSE ToString(Last(s.kept).number)
    ELSE LET at == SelectInSeq(s.kept, LAMBDA r: r.number = number)
         IN IF at = 0 THEN OutOfReach(s, number) ELSE ToString(s.kept[at].number)

-----------------------------------------------------------------------------
(* Files.  What stands at the path of --output: nothing, a directory, a file *)
(* of somebody else's, or what this run wrote, whole or in part.             *)

Outputs == {"first", "second"}

(* Asked before anything is dialed. *)
Reserve(file) == file = NoFile

(* The open that may not find a file, or may replace what this run made: a
   directory and a missing parent refuse either, a full disk fails the write
   after the file was made, and only a whole write makes the file this run's
   own. *)
Write(s, bytes, room) ==
    LET opened == s.file = NoFile \/ (s.ours /\ s.file # "directory")
    IN IF ~opened THEN [s |-> s, ok |-> FALSE]
       ELSE IF ~room THEN [s |-> [s EXCEPT !.file = "part"], ok |-> FALSE]
       ELSE [s |-> [s EXCEPT !.file = bytes, !.ours = TRUE], ok |-> TRUE]

(* A payload is what it is made of and how many characters it would print
   as; limit 0 is none. *)
Cut(payload, limit) ==
    IF payload.chars <= limit THEN [is |-> "whole", shown |-> payload.chars]
    ELSE [is |-> "cut", shown |-> limit]

Deliver(payload, limit) ==
    IF limit = 0 \/ payload.is = "bytes" THEN [is |-> "whole", shown |-> payload.chars]
    ELSE Cut(payload, limit)

(* A resource's bodies are text while every one of them is. *)
DeliverResource(bodies, limit) ==
    Deliver([is |-> IF \A i \in DOMAIN bodies: bodies[i].is = "text" THEN "text" ELSE "bytes",
             chars |-> FoldLeft(LAMBDA n, b: n + b.chars, 0, bodies)], limit)

-----------------------------------------------------------------------------
(* What has to hold *)

(* The session holds the longest run of its last results that fits both
   bounds, the newest always; every number names its own result or says why
   it cannot; weight is what it holds. *)
HoldsTheLast(s, weights) ==
    LET upto(n) == FoldLeft(LAMBDA sum, w: sum + w, 0, SubSeq(weights, n, Len(weights)))
        fitting == {n \in DOMAIN weights: n = Len(weights)
                       \/ (Len(weights) - n < MaxResults /\ upto(n) <= MaxBytes)}
    IN /\ {r.number: r \in ToSet(s.kept)} = fitting
       /\ s.weight = Total(s.kept)
       /\ \A n \in DOMAIN weights: Find(s, n) = IF n \in fitting THEN ToString(n) ELSE "no longer kept"
       /\ Find(s, 0) = IF weights = <<>> THEN "nothing yet" ELSE ToString(Len(weights))

(* retry sends the newest call it can name, of any tool where none is named. *)
RetriesTheNewest(s, calls) ==
    \A t \in ToSet(calls) \cup {"any"}:
        LET newest == SelectLastInSeq(calls, LAMBDA u: t \in {"any", u})
            at == LastCall(s, t)
        IN IF at = 0 THEN newest = 0 \/ Len(calls) - newest >= MaxResults
           ELSE Len(s.sent) - at = Len(calls) - newest

(* What is not this run's is never written over: a file another made at the
   path stays as it was made, and one that was written is whole. *)
WritesItsOwn(s, theirs) ==
    /\ s.file = "theirs" <=> theirs
    /\ s.file \in Outputs => s.ours

(* Bytes are never cut, and what is cut shows exactly the limit. *)
CutsWhatIsText(bodies, limit) ==
    LET d == DeliverResource(bodies, limit)
        all == FoldLeft(LAMBDA n, b: n + b.chars, 0, bodies)
    IN /\ (\E i \in DOMAIN bodies: bodies[i].is = "bytes") => d.is = "whole"
       /\ d.is = "whole" => d.shown = all
       /\ d.is = "cut" => d.shown = limit /\ d.shown < all
=============================================================================
