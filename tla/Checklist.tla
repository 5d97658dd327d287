----------------------------- MODULE Checklist -----------------------------
(***************************************************************************)
(* browse.rs: the catalog as a checklist, and what applying it does.       *)
(* An item is [key, category, words, installed]: words are what a filter   *)
(* finds it by, installed the name it is saved under or Nowhere; where it  *)
(* is applied it has wanted, the name to save it under.  The picker is     *)
(* [checked, cursor, filter, filtering, done]; the cursor counts the rows  *)
(* shown from 1, and a filter is a sequence of letters that finds an item  *)
(* when all of it is in the item's words.                                  *)
(***************************************************************************)
EXTENDS Integers, Sequences, SequencesExt, FiniteSets, FiniteSetsExt

Nowhere == "nowhere"

PickerOf(items) ==
    [checked |-> [i \in DOMAIN items |-> items[i].installed # Nowhere],
     cursor |-> 1, filter |-> <<>>, filtering |-> FALSE, done |-> "no"]

Shown(items, p) ==
    SelectSeq([i \in DOMAIN items |-> i],
              LAMBDA i: p.filter = <<>> \/ \E at \in 1 .. Len(items[i].words):
                            IsPrefix(p.filter, SubSeq(items[i].words, at, Len(items[i].words))))

(* The screen's lines: a category once above its rows; a heading is 0. *)
ScreenLines(items, p) ==
    FoldLeft(LAMBDA so, i:
               LET headed == items[i].category # "" /\ items[i].category # so.last
               IN [last |-> IF headed THEN items[i].category ELSE so.last,
                   lines |-> so.lines \o (IF headed THEN <<0, i>> ELSE <<i>>)],
             [last |-> "", lines |-> <<>>], Shown(items, p)).lines

Current(items, p) ==
    LET shown == Shown(items, p) IN IF p.cursor \in DOMAIN shown THEN shown[p.cursor] ELSE 0

Shorter(filter) == IF filter = <<>> THEN <<>> ELSE Front(filter)

AtMost(n, m) == IF n > m THEN m ELSE n
AtLeast1(n) == IF n < 1 THEN 1 ELSE n

(* The cursor brought back to a row that is shown. *)
Clamped(items, p) == [p EXCEPT !.cursor = AtMost(p.cursor, AtLeast1(Len(Shown(items, p))))]

Move(items, p, key) ==
    CASE key \in {"up", "k"} -> [p EXCEPT !.cursor = AtLeast1(@ - 1)]
      [] key \in {"down", "j"} -> Clamped(items, [p EXCEPT !.cursor = @ + 1])
      [] key = "space" -> IF Current(items, p) = 0 THEN p
                          ELSE [p EXCEPT !.checked[Current(items, p)] = ~@]
      [] key = "/" -> [p EXCEPT !.filtering = TRUE]
      [] key = "enter" -> [p EXCEPT !.done = "apply"]
      [] key \in {"esc", "q"} -> [p EXCEPT !.done = "leave"]
      [] key = "backspace" -> [p EXCEPT !.filter = Shorter(@)]
      [] OTHER -> p

(* While filtering, letters go into the filter and the cursor keys leave it. *)
Press(items, p, key) ==
    IF ~p.filtering THEN Move(items, p, key)
    ELSE CASE key \in {"enter", "esc"} -> Clamped(items, [p EXCEPT !.filtering = FALSE])
           [] key = "backspace" -> Clamped(items, [p EXCEPT !.filter = Shorter(@)])
           [] key \in {"up", "down", "space"} -> Move(items, [p EXCEPT !.filtering = FALSE], key)
           [] OTHER -> Clamped(items, [p EXCEPT !.filter = Append(@, key)])

(* The first line drawn, so that the row under the cursor is on a screen of
   height rows. *)
DrawFrom(items, p, top, height) ==
    LET at == SelectInSeq(ScreenLines(items, p), LAMBDA l: l = Current(items, p)) - 1
    IN IF Current(items, p) = 0 THEN top
       ELSE IF at < top THEN at
       ELSE IF at >= top + height THEN at + 1 - height ELSE top

(* The screen as the picker opens on it, and after one more key.  seen and
   aimed keep what happened at the last key: whether the row under the cursor
   is on the screen, and whether only that row's box was flipped. *)
Opened(items) == [p |-> PickerOf(items), top |-> 0, seen |-> TRUE, aimed |-> TRUE]

Pressed(items, screen, key, height) ==
    LET p == Press(items, screen.p, key)
        top == DrawFrom(items, p, screen.top, height)
        row == SelectInSeq(ScreenLines(items, p), LAMBDA l: l = Current(items, p)) - 1
        flipped == {i \in DOMAIN items: p.checked[i] # screen.p.checked[i]}
    IN [p |-> p, top |-> top,
        seen |-> Shown(items, p) # <<>> => Current(items, p) # 0 /\ top <= row /\ row < top + height,
        aimed |-> flipped \subseteq {Current(items, screen.p)} /\ (flipped # {} => key = "space")]

-----------------------------------------------------------------------------
(* Applying: store maps the saved names to what they are: an item's key, or
   something else's.  An application under way is
     [stage, store, adds, name, saved, gone, agreed, failed]
   and what other commands did meanwhile:
     [alone, late, after]
   alone is the store as it would be without this one, late the names they saved
   after this one found them free, after those they touched after this one did. *)
Indices(items) == [i \in DOMAIN items |-> i]
ToAdd(items, checked) == SelectSeq(Indices(items), LAMBDA i: checked[i] /\ items[i].installed = Nowhere)
ToRemove(items, checked) ==
    LET off == SelectSeq(Indices(items), LAMBDA i: ~checked[i] /\ items[i].installed # Nowhere)
    IN [n \in DOMAIN off |-> items[off[n]].installed]

Without(store, name) == [n \in DOMAIN store \ {name} |-> store[n]]

(* wanted, or wanted-2, wanted-3 while that name is taken. *)
Endings == <<"", "-2", "-3", "-4", "-5">>
AsWanted(store, wanted) == wanted
FreeName(store, wanted) ==
    LET at == CHOOSE n \in DOMAIN Endings:
                /\ wanted \o Endings[n] \notin DOMAIN store
                /\ \A m \in 1 .. n - 1: wanted \o Endings[m] \in DOMAIN store
    IN wanted \o Endings[at]

Apply(items, checked, store) ==
    LET adds == ToAdd(items, checked)
        gone == ToRemove(items, checked)
    IN [stage |-> IF adds \o gone = <<>> THEN "done" ELSE "saving", store |-> store, adds |-> adds,
        name |-> Nowhere, saved |-> <<>>, gone |-> gone, agreed |-> FALSE, failed |-> FALSE,
        alone |-> store, late |-> {}, after |-> {}]

(* One entry.  It is converted and its blanks are asked for, then the names are
   read, with no lock, and then whatever has the name by now is replaced. *)
Skipped(a) == [a EXCEPT !.adds = Tail(@), !.name = Nowhere, !.failed = TRUE]
Named(items, a) == [a EXCEPT !.name = FreeName(a.store, items[Head(a.adds)].wanted)]
Saved(items, a) ==
    LET key == items[Head(a.adds)].key
    IN [a EXCEPT !.store = (a.name :> key) @@ @, !.adds = Tail(@), !.name = Nowhere,
                 !.saved = Append(@, [name |-> a.name, key |-> key]), !.after = @ \ {a.name}]

(* What was saved is dialed and listed, and what goes is asked about, after
   which it goes name by name, whatever has the name by now.  A failure to list
   or to remove ends it all; one of removing may come with the server gone and
   its credential left. *)
Broken(a) == [a EXCEPT !.stage = "done", !.failed = TRUE]
Listed(a) == [a EXCEPT !.stage = IF a.gone = <<>> THEN "done" ELSE "asking"]
Answered(a, yes) == [a EXCEPT !.stage = IF yes THEN "removing" ELSE "done", !.agreed = yes]
Removed(a) ==
    [a EXCEPT !.store = Without(@, Head(a.gone)), !.gone = Tail(@),
              !.after = @ \ {Head(a.gone)}, !.stage = IF Tail(a.gone) = <<>> THEN "done" ELSE @]

Goes(items, a) ==
    CASE a.stage = "saving" /\ a.adds # <<>> /\ a.name = Nowhere -> {Named(items, a), Skipped(a)}
      [] a.stage = "saving" /\ a.name # Nowhere -> {Saved(items, a), Skipped(a)}
      [] a.stage = "saving" /\ a.adds = <<>> -> {Listed(a)} \cup (IF a.saved = <<>> THEN {} ELSE {Broken(a)})
      [] a.stage = "asking" -> {Answered(a, TRUE), Answered(a, FALSE)}
      [] a.stage = "removing" ->
            {Removed(a), Broken(a)} \cup (IF Head(a.gone) \in DOMAIN a.store THEN {Broken(Removed(a))} ELSE {})

(* Another command saves something of its own under a name, or removes what is
   there. *)
Touched(a, n, store, alone) ==
    [a EXCEPT !.store = store, !.alone = alone,
              !.after = IF \/ \E i \in DOMAIN a.saved: a.saved[i].name = n
                           \/ a.agreed /\ n \notin ToSet(a.gone) THEN @ \cup {n} ELSE @]
SavedElsewhere(a, n) ==
    [Touched(a, n, (n :> "theirs") @@ a.store, (n :> "theirs") @@ a.alone)
       EXCEPT !.late = IF a.name = n THEN @ \cup {n} ELSE @]
RemovedElsewhere(a, n) == Touched(a, n, Without(a.store, n), Without(a.alone, n))

-----------------------------------------------------------------------------
(* The rows.  An entry is its catalog id and its registry name, either of
   which may be Nothing; a saved server the name it has and the entry it came
   from.  Servers are in the order of their names. *)
Nothing == ""

Key(entry) == IF entry.id # Nothing THEN entry.id ELSE entry.registry

(* The first that was saved from the entry's id, else from its name. *)
InstalledAs(servers, entry) ==
    LET from(field, value) == IF value = Nothing THEN 0 ELSE SelectInSeq(servers, LAMBDA s: s[field] = value)
        at == IF from("id", entry.id) # 0 THEN from("id", entry.id) ELSE from("registry", entry.registry)
    IN IF at = 0 THEN Nowhere ELSE servers[at].name

(* The catalog's rows know both; the registry's the name alone. *)
Rows(entries, servers) ==
    [i \in DOMAIN entries |-> [key |-> Key(entries[i]), category |-> "", words |-> <<>>,
                               installed |-> InstalledAs(servers, entries[i])]]

(* fzf gives back the marked lines, each behind its key. *)
ReadBack(items, checked, keys) ==
    FoldLeft(LAMBDA flipped, k:
               LET at == SelectInSeq(items, LAMBDA i: i.key = k)
               IN IF at = 0 THEN flipped ELSE [flipped EXCEPT ![at] = ~@],
             checked, keys)

(* Its exit: chosen, nothing matched or left, or failed. *)
Flipped(items, checked, code, keys) ==
    CASE code = 0 -> [exit |-> 0, left |-> FALSE, checked |-> ReadBack(items, checked, keys)]
      [] code \in {1, 130} -> [exit |-> 0, left |-> TRUE, checked |-> checked]
      [] OTHER -> [exit |-> 1, left |-> TRUE, checked |-> checked]

(* The installed rows are offered first. *)
Offered(checked) ==
    LET rows == [i \in DOMAIN checked |-> i]
    IN SelectSeq(rows, LAMBDA i: checked[i]) \o SelectSeq(rows, LAMBDA i: ~checked[i])

(* What the entry says it needs: the variables of its packages come first. *)
DeclaredNeed(entry) ==
    IF \E i \in DOMAIN entry.packages: TRUE \in ToSet(entry.packages[i]) THEN "env"
    ELSE IF \E i \in DOMAIN entry.remotes: TRUE \in ToSet(entry.remotes[i]) THEN "api-key" ELSE "-"

(* The command: which list it loads, what a pipe gets, who picks. *)
WholeRegistry(w) == w.all /\ (w.fzf \/ ~w.interactive)
Run(w) ==
    LET list == IF WholeRegistry(w) THEN "registry" ELSE "catalog"
        fails == [list |-> list, exit |-> 1, picks |-> "nobody"]
    IN CASE w.preview -> [list |-> "none", exit |-> 0, picks |-> "nobody"]
         [] ~w.preview /\ ~w.loads -> fails
         [] ~w.preview /\ w.loads /\ ~w.interactive -> [fails EXCEPT !.exit = 0]
         [] ~w.preview /\ w.loads /\ w.interactive /\ ~w.fzf /\ ~w.rich -> [fails EXCEPT !.exit = 2]
         [] OTHER -> [list |-> list, exit |-> 0, picks |-> IF w.fzf THEN "fzf" ELSE "the checklist"]

-----------------------------------------------------------------------------
(* The row the keys act on is always one a person sees: while anything is
   shown there is a row under the cursor, it is on the screen, and the only
   box a key flips is that row's, by Space alone. *)
ActsOnWhatIsSeen(screen) == screen.seen /\ screen.aimed

(* Applying makes the store differ from what other commands alone would have
   made of it by what was ticked: a newly ticked entry is added, once, and an
   unticked server is removed if that was agreed to, whatever has its name by
   then, and nothing else is touched but a server that another command saved
   under a name after it was found free.
   What was saved is there until another command touches it, and when nothing
   failed everything ticked was saved, and everything agreed on is gone unless
   another command brought it back. *)
AppliesWhatWasTicked(items, checked, a) ==
    LET off == {items[i].installed: i \in {j \in DOMAIN items: ~checked[j]}} \ {Nowhere}
        kept(n) == n \in DOMAIN a.alone /\ ~(n \in off /\ a.agreed) /\ n \notin a.late
        added == {n \in DOMAIN a.store: ~(n \in DOMAIN a.alone /\ a.store[n] = a.alone[n])}
        wanted == {items[i].key: i \in {j \in DOMAIN items: checked[j] /\ items[j].installed = Nowhere}}
    IN /\ \A n \in DOMAIN a.alone: kept(n) => n \in DOMAIN a.store /\ a.store[n] = a.alone[n]
       /\ \A n \in added: a.store[n] \in wanted
       /\ \A m, n \in added: a.store[m] = a.store[n] => m = n
       /\ \A i \in DOMAIN a.saved: LET n == a.saved[i].name IN
            \/ n \in DOMAIN a.store /\ \E j \in DOMAIN a.saved: a.saved[j] = [name |-> n, key |-> a.store[n]]
            \/ n \in a.after
            \/ n \in off /\ a.agreed
       /\ a.stage = "done" /\ ~a.failed =>
            /\ {a.saved[i].key: i \in DOMAIN a.saved} = wanted
            /\ a.agreed => off \cap DOMAIN a.store \subseteq a.after

(* Marking rows in fzf flips those and no others, while no two share a key,
   and nothing is flipped by a run that was left or failed. *)
MarksAreReadBack(items, checked, marked, code) ==
    LET keys == SelectSeq(Offered(checked), LAMBDA i: i \in marked)
        f == Flipped(items, checked, code, [n \in DOMAIN keys |-> items[keys[n]].key])
    IN /\ (\A i, j \in DOMAIN items: items[i].key = items[j].key => i = j) /\ code = 0 =>
             {i \in DOMAIN items: f.checked[i] # checked[i]} = marked
       /\ code # 0 => f.left /\ f.checked = checked

(* What was saved by ticking its row is ticked when the list is read again,
   and what was unticked is gone, while no two rows are one server's. *)
ReopensAsLeft(entries, servers, checked) ==
    LET rows == Rows(entries, servers)
        apart == \A i, j \in DOMAIN rows: i # j /\ rows[i].installed # Nowhere => rows[i].installed # rows[j].installed
        gone == ToRemove(rows, checked)
        adds == ToAdd(rows, checked)
        after == SelectSeq(servers, LAMBDA s: s.name \notin ToSet(gone))
                 \o [n \in DOMAIN adds |-> [name |-> "new", id |-> entries[adds[n]].id,
                                            registry |-> entries[adds[n]].registry]]
        again == Rows(entries, after)
    IN /\ apart => \A i \in DOMAIN rows: checked[i] => again[i].installed # Nowhere
       /\ \A i \in DOMAIN rows: ~checked[i] /\ rows[i].installed # Nowhere
                                   => again[i].installed # rows[i].installed

(* An entry that asks for nothing declares no value that is required. *)
NeedsAreShown(entry) ==
    DeclaredNeed(entry) = "-" <=>
        \A list \in ToSet(entry.packages) \cup ToSet(entry.remotes), i \in 1 .. 2: i \in DOMAIN list => ~list[i]

(* A pipe changes nothing, and the whole registry is picked from by fzf alone. *)
PicksWhereItCan(w) ==
    LET r == Run(w)
    IN /\ ~w.interactive => r.picks = "nobody" /\ r.exit \in {0, 1}
       /\ r.picks = "the checklist" => r.list = "catalog" /\ ~w.fzf
       /\ r.list = "registry" /\ w.interactive /\ w.loads => r.picks = "fzf"
       /\ r.exit # 0 => r.picks = "nobody"
=============================================================================
