-------------------------------- MODULE Media --------------------------------
(***************************************************************************)
(* Images, audio and blobs on their way out of a result: which blocks have *)
(* bytes, what stands for them on the screen, and the files of --save-dir  *)
(* (session.rs, media.rs).                                                 *)
(*                                                                         *)
(* A block is its type, whether it has text, its payload ("none", "bad"    *)
(* where it is not base64, or the name of its bytes) and its mime type.    *)
(* A result is of a tool, a prompt or a resource.  A file is <<stem, n,    *)
(* extension>>, and the directory says whose bytes are in which.           *)
(***************************************************************************)
EXTENDS Integers, Sequences, SequencesExt, FiniteSetsExt, Functions

Nothing == "none"
Mangled == "bad"

(* Where a block of the type keeps its base64, if it may have any; an entry
   of resources/read has no type. *)
PayloadHolder == [image |-> "data", audio |-> "data", resource |-> "blob", none |-> "blob"]

MediaOf(block) == IF block.type \in DOMAIN PayloadHolder THEN block.payload ELSE Nothing

(* The usual extension where the subtype is not one, the subtype where that is
   a plain word, and bin. *)
Usual == [jpeg |-> "jpg", svg |-> "svg", mpeg |-> "mp3"]
ExtensionFor(mime) ==
    CASE mime.subtype \in DOMAIN Usual -> Usual[mime.subtype]
      [] mime.subtype \notin DOMAIN Usual /\ mime.plain -> mime.subtype
      [] OTHER -> "bin"

-----------------------------------------------------------------------------
(* Names of files, as the characters of a name or a URI. *)

Allowed == {"a", "b", "-", "_", "."}

FileStem(name) ==
    LET stem == [i \in DOMAIN name |-> IF name[i] \in Allowed THEN name[i] ELSE "_"]
    IN IF \A i \in DOMAIN stem: stem[i] = "." THEN <<"media">> ELSE stem

UpTo(text, ends) ==
    LET n == SelectInSeq(text, LAMBDA c: c \in ends) IN IF n = 0 THEN text ELSE SubSeq(text, 1, n - 1)

LastSegment(text) ==
    LET end == SelectLastInSeq(text, LAMBDA c: c # "/")
        path == SubSeq(text, 1, end)
    IN SubSeq(path, SelectLastInSeq(path, LAMBDA c: c = "/") + 1, end)

(* The last segment of the path, less its extension. *)
ResourceStem(uri) ==
    LET last == LastSegment(UpTo(uri, {"?", "#"}))
        dot == SelectLastInSeq(last, LAMBDA c: c = ".")
        stem == IF dot > 1 THEN SubSeq(last, 1, dot - 1) ELSE last
    IN IF stem = <<>> THEN <<"resource">> ELSE FileStem(stem)

(* The first number that is free. *)
Place(dir, stem, ext) ==
    <<stem, Min({n \in 1 .. (Cardinality(DOMAIN dir) + 1): <<stem, n, ext>> \notin DOMAIN dir}), ext>>

-----------------------------------------------------------------------------
(* A sink takes the bytes of a block to a file, where there is a directory,  *)
(* or nowhere.  A reading carries the directory and the lines made so far    *)
(* and stops where it fails.                                                 *)

Reading(dir) == [dir |-> dir, out |-> <<>>, ok |-> TRUE]

Described(block, file) == [line |-> "media", of |-> block, at |-> file]
Shown(block) == [line |-> IF block.text THEN "text" ELSE "json", of |-> block, at |-> <<>>]

Says(r, line) == [r EXCEPT !.out = Append(@, line)]

Sink(r, block, save) ==
    IF ~save.files THEN Says(r, Described(block, <<>>))
    ELSE LET file == Place(r.dir, save.stem, ExtensionFor(block.mime))
         IN [Says(r, Described(block, file)) EXCEPT !.dir = (file :> block.payload) @@ @]

Filed(r, block, save) ==
    CASE ~r.ok -> r
      [] r.ok /\ MediaOf(block) = Mangled -> [r EXCEPT !.ok = FALSE]
      [] OTHER -> Sink(r, block, save)

(* A block of a tool's result or a prompt's message. *)
RenderBlock(r, block, save) ==
    IF (block.type = "text" /\ block.text) \/ MediaOf(block) = Nothing
    THEN IF r.ok THEN Says(r, Shown(block)) ELSE r
    ELSE Filed(r, block, save)

(* An entry of a resource; one that has neither text nor bytes is left out. *)
RenderEntry(r, entry, save) ==
    CASE entry.text -> IF r.ok THEN Says(r, Shown(entry)) ELSE r
      [] ~entry.text /\ MediaOf(entry) # Nothing -> Filed(r, entry, save)
      [] OTHER -> r

(* The text of a result; the structure of one that would show nothing. *)
Render(result, dir, save) ==
    LET r == FoldLeft(LAMBDA s, b: IF result.kind = "resource" THEN RenderEntry(s, b, save)
                                   ELSE RenderBlock(s, b, save), Reading(dir), result.blocks)
    IN IF result.kind = "tool" /\ r.ok /\ r.out = <<>> /\ result.structured
       THEN Says(r, [line |-> "structure", of |-> <<>>, at |-> <<>>]) ELSE r

(* --json: the object, with the path of each file in place of its base64. *)
SaveMedia(result, dir, save) ==
    FoldLeft(LAMBDA r, b: CASE ~r.ok -> r
                            [] r.ok /\ MediaOf(b) = Nothing -> Says(r, [line |-> "block", of |-> b, at |-> <<>>])
                            [] OTHER -> Filed(r, b, save),
             Reading(dir), result.blocks)

AsSent(result, dir) ==
    [Reading(dir) EXCEPT !.out = [i \in DOMAIN result.blocks |->
                                     [line |-> "block", of |-> result.blocks[i], at |-> <<>>]]]

(* A resource without a directory leaves byte for byte. *)
ResourceBodies(result, dir) ==
    FoldLeft(LAMBDA r, b: CASE ~r.ok \/ (~b.text /\ b.payload = Nothing) -> r
                            [] r.ok /\ ~b.text /\ b.payload = Mangled -> [r EXCEPT !.ok = FALSE]
                            [] OTHER -> Says(r, [line |-> IF b.text THEN "text" ELSE "bytes", of |-> b, at |-> <<>>]),
             Reading(dir), result.blocks)

(* What a command prints of a result. *)
Emit(result, json, dir, save) ==
    CASE json /\ save.files -> SaveMedia(result, dir, save)
      [] json /\ ~save.files -> AsSent(result, dir)
      [] ~json /\ result.kind = "resource" /\ ~save.files -> ResourceBodies(result, dir)
      [] OTHER -> Render(result, dir, save)

-----------------------------------------------------------------------------
(* What has to hold *)

(* A file's name is one name in that directory: never empty, of dots alone or
   with a character that would lead out of it. *)
NamesStayInside(name) ==
    \A stem \in {FileStem(name), ResourceStem(name)}:
        /\ stem \notin {<<>>, <<".">>, <<".", ".">>}
        /\ \A i \in DOMAIN stem: stem[i] \notin {"/", "?", "#", " "}

(* Every file that was there is as it was, and what was added is the bytes
   shown as saved there, each block's in one of its own, in order, up to a
   block that cannot be decoded: files made before it stay. *)
FilesAreNew(result, json, dir, save) ==
    LET e == Emit(result, json, dir, save)
        saved == SelectSeq(e.out, LAMBDA l: l.line = "media" /\ l.at # <<>>)
        bytes == SelectSeq(result.blocks, LAMBDA b: MediaOf(b) # Nothing)
        bad == SelectInSeq(bytes, LAMBDA b: MediaOf(b) = Mangled)
    IN /\ Restrict(e.dir, DOMAIN dir) = dir
       /\ DOMAIN e.dir \ DOMAIN dir = {saved[i].at: i \in DOMAIN saved}
       /\ IsInjective([i \in DOMAIN saved |-> saved[i].at])
       /\ \A i \in DOMAIN saved: e.dir[saved[i].at] = saved[i].of.payload
       /\ save.files => [i \in DOMAIN saved |-> saved[i].of] =
                           IF bad = 0 THEN bytes ELSE SubSeq(bytes, 1, bad - 1)
       /\ ~save.files => e.dir = dir

(* A payload that is no base64 fails the command, except where the object goes
   out as it was sent. *)
FailsWhereMangled(result, json, dir, save) ==
    Emit(result, json, dir, save).ok <=>
        \/ json /\ ~save.files
        \/ \A i \in DOMAIN result.blocks: MediaOf(result.blocks[i]) # Mangled

(* Nothing of a result is dropped on the way but an entry that is empty. *)
NothingIsDropped(result, json, dir, save) ==
    LET e == Emit(result, json, dir, save)
        lines == SelectSeq(e.out, LAMBDA l: l.line # "structure")
        empty(b) == ~json /\ result.kind = "resource" /\ ~b.text /\ MediaOf(b) = Nothing
    IN e.ok => [i \in DOMAIN lines |-> lines[i].of] = SelectSeq(result.blocks, LAMBDA b: ~empty(b))
=============================================================================
