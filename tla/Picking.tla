------------------------------- MODULE Picking -------------------------------
(***************************************************************************)
(* `pick`: a server, one of its tools, its arguments and the call, each    *)
(* asked of a person; and what a bare `mcpdial` does (pick.rs, main.rs).   *)
(*                                                                         *)
(* A cell is its characters.  A person's answer to a list is what fzf      *)
(* gives back - a line, or that it was left - or, where there is no fzf,   *)
(* the answers typed, each a number or some text, until the last.          *)
(***************************************************************************)
EXTENDS Integers, Sequences, SequencesExt, FiniteSetsExt

Blank(n) == [i \in 1 .. n |-> " "]

TrimEnd(text) == SubSeq(text, 1, SelectLastInSeq(text, LAMBDA c: c # " "))
Trim(text) ==
    LET first == SelectInSeq(text, LAMBDA c: c # " ")
    IN IF first = 0 THEN <<>> ELSE SubSeq(TrimEnd(text), first, Len(text))

(* Every cell but the last as wide as the widest of its column, the header
   among them; the header's line is the first. *)
Columns(headers, rows) ==
    LET all == <<headers>> \o rows
        width(i) == Max({Len(all[n][i]): n \in DOMAIN all})
        padded(row, i) == IF i < Len(row) THEN row[i] \o Blank(width(i) - Len(row[i]) + 2) ELSE row[i]
    IN [n \in DOMAIN all |-> TrimEnd(FlattenSeq([i \in DOMAIN all[n] |-> padded(all[n], i)]))]

ServerLines(names) == Tail(Columns(<<<<"N">>, <<"S">>>>, [i \in DOMAIN names |-> <<names[i], <<"-">>>>]))
ToolLines(tools) == Tail(Columns(<<<<"N">>, <<"D">>>>, [i \in DOMAIN tools |-> <<tools[i].name, tools[i].about>>]))

Left == 0
Position(lines, text) == SelectInSeq(lines, LAMBDA l: l = text)

(* The number wins over a line that is that number; 0 is neither. *)
Numbered(lines, answer) ==
    IF answer.number \in DOMAIN lines THEN answer.number ELSE Position(lines, Trim(answer.text))

(* Asked until an answer is one of them, or there is none. *)
One(offered, lines) ==
    CASE offered.fzf = "picked" -> Position(lines, Trim(offered.text))
      [] offered.fzf = "quit" -> Left
      [] OTHER ->
          LET good == SelectInSeq(offered.typed, LAMBDA a: Numbered(lines, a) # 0)
          IN IF good = 0 THEN Left ELSE Numbered(lines, offered.typed[good])

(* What was sent, to which server and for which tool, what it exits with and
   whether the line that makes the call again is printed. *)
Ended(sent, exit) == [sent |-> sent, server |-> 0, tool |-> 0, exit |-> exit, line |-> FALSE]
Refused(sent) == Ended(sent, 2)
NothingPicked(sent) == Ended(sent, 0)

Permitted(w) == SelectSeq(w.tools, LAMBDA t: ~t.denied)

CallPicked(w, server, tool) ==
    [sent |-> <<"open", "list", "call">>, server |-> server, tool |-> tool, line |-> TRUE,
     exit |-> IF w.reply = "ok" THEN 0 ELSE 1]

PickTool(w, server, tools, tool) ==
    LET sent == <<"open", "list">>
    IN CASE tools = <<>> -> Refused(sent)
         [] tools # <<>> /\ tool = Left -> NothingPicked(sent)
         [] tools # <<>> /\ tool # Left /\ ~w.filled -> Refused(sent)
         [] OTHER -> CallPicked(w, server, tool)

RunWith(w, server) ==
    CASE ~w.asks \/ w.servers = <<>> -> Refused(<<>>)
      [] w.asks /\ w.servers # <<>> /\ server = Left -> NothingPicked(<<>>)
      [] w.asks /\ server # Left /\ w.opens # "open" -> Ended(<<"open">>, 1)
      [] w.asks /\ server # Left /\ w.opens = "open" /\ ~w.lists -> Ended(<<"open", "list">>, 1)
      [] OTHER -> PickTool(w, server, Permitted(w), One(w.tool, ToolLines(Permitted(w))))

Run(w) == RunWith(w, One(w.server, ServerLines(w.servers)))

(* A bare mcpdial: the welcome, or the usage error of every program. *)
Bare(terminal, plain) == IF terminal /\ ~plain THEN Ended(<<>>, 0) ELSE Refused(<<>>)

-----------------------------------------------------------------------------
(* What has to hold *)

(* Nothing runs that was not picked to the end: a server, a tool of those that
   may be used and every argument, in that order, and then it runs once; the
   line to keep is printed exactly for a call that was made. *)
OnlyThePicked(w, r) ==
    LET calls == SelectSeq(r.sent, LAMBDA s: s = "call")
    IN /\ Len(calls) <= 1
       /\ calls # <<>> <=> r.line
       /\ calls # <<>> => /\ w.filled /\ w.asks
                          /\ ~Permitted(w)[r.tool].denied
                          /\ One(w.server, ServerLines(w.servers)) = r.server
       /\ r.exit = 2 => calls = <<>>
       /\ r.exit = 0 /\ calls = <<>> => \/ One(w.server, ServerLines(w.servers)) = Left
                                        \/ One(w.tool, ToolLines(Permitted(w))) = Left
       /\ ~w.asks => r.sent = <<>> /\ Bare(FALSE, FALSE) = r

(* The line that fzf was shown and gives back, or that is typed, is its row's:
   the columns keep rows apart, but for blanks at the end of a cell, however
   wide the cells are.  A row that is
   another's twice is the first of the two, and one that begins with a blank
   is taken for none, since the answer is trimmed. *)
LinesTellRows(tools) ==
    LET lines == ToolLines(tools)
    IN \A i \in DOMAIN tools:
        LET picked == One([fzf |-> "picked", text |-> lines[i], typed |-> <<>>], lines)
            typed == One([fzf |-> "absent", text |-> <<>>, typed |-> <<[number |-> 0, text |-> lines[i]]>>], lines)
            begins == lines[i] # <<>> /\ lines[i][1] # " "
        IN /\ picked = typed
           /\ begins => /\ picked # Left
                        /\ TrimEnd(tools[picked].name) = TrimEnd(tools[i].name)
                        /\ TrimEnd(tools[picked].about) = TrimEnd(tools[i].about)
=============================================================================
