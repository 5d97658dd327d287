----------------------------- MODULE Catalogue -----------------------------
(***************************************************************************)
(* Where browse and search read from: the local copy of the registry       *)
(* (registry.rs, index) and the curated catalog with its cache             *)
(* (catalog.rs, load).                                                     *)
(*                                                                         *)
(* The registry is its history: a sequence of updates [name, deleted], the *)
(* i-th of them reported as changed at i.  A copy is                       *)
(*   [base, synced, through, servers]                                      *)
(* servers mapping a name to the time of the listing held; NoCopy is no    *)
(* file.                                                                   *)
(***************************************************************************)
EXTENDS Integers, Sequences, SequencesExt, FiniteSets

NoCopy == [base |-> "none", synced |-> 0, through |-> 0, servers |-> <<>>]
Empty(base) == [NoCopy EXCEPT !.base = base]

(* What the registry lists of its history up to now, changed since a time:
   the latest update of each name, deletions among them. *)
Listed(history, now, since) ==
    {i \in 1 .. now: i >= since /\ \A j \in i + 1 .. now: history[j].name # history[i].name}

(* One page of them, with the listing of a single name, as the registry is at
   that time: it goes by the names in their order, those from a cursor on, and a
   cursor of 0 is none. *)
Page(history, names, now, since, cursor) ==
    LET due == SelectSeq([n \in DOMAIN names |-> n],
                         LAMBDA n: n >= cursor /\ \E i \in Listed(history, now, since): history[i].name = names[n])
    IN IF due = <<>> THEN [servers |-> {}, next |-> 0]
       ELSE [servers |-> {i \in Listed(history, now, since): history[i].name = names[due[1]]},
             next |-> IF Len(due) > 1 THEN due[2] ELSE 0]

(* All the pages, each asked for at a time of its own; an empty page, no cursor
   or the cursor just sent ends the list. *)
ListAll(history, names, since, times) ==
    FoldLeft(LAMBDA so, now:
               LET page == Page(history, names, now, since, so.cursor)
               IN IF so.done THEN so
                  ELSE [all |-> so.all \cup page.servers, cursor |-> page.next, at |-> now,
                        done |-> page.servers = {} \/ page.next = 0 \/ page.next = so.cursor],
             [all |-> {}, cursor |-> 0, at |-> 0, done |-> FALSE], times)

(* The names a listing takes away. *)
Gone(history, changed) == {history[i].name: i \in {j \in changed: history[j].deleted}}

(* A name already present is replaced, a deleted one dropped, and the
   watermark moves to the newest time reported. *)
Merge(copy, history, changed, now) ==
    LET here == {i \in changed: ~history[i].deleted}
        names == (DOMAIN copy.servers \cup {history[i].name: i \in here}) \ Gone(history, changed)
        newest == CHOOSE n \in changed \cup {copy.through}: \A m \in changed \cup {copy.through}: n >= m
    IN [copy EXCEPT
          !.servers = [n \in names |->
                         IF \E i \in here: history[i].name = n
                         THEN CHOOSE i \in here: history[i].name = n
                         ELSE copy.servers[n]],
          !.through = newest,
          !.synced = now]

IndexMaxAge == 2

(* The copy to search, as sync allows; answered says whether the registry
   answers.  The result says what is searched and what is left on disk. *)
Sync(mode, base, disk, history, now, answered) ==
    LET mine == IF disk.base = base THEN disk ELSE NoCopy
        fetch(copy) == Merge(copy, history,
                             Listed(history, now, copy.through), now)
        result(ok, copy, saved) == [ok |-> ok, copy |-> copy, disk |-> saved]
    IN IF mode = "offline" THEN result(mine # NoCopy, mine, disk)
       ELSE IF mode = "auto" /\ mine # NoCopy /\ now - mine.synced < IndexMaxAge
       THEN result(TRUE, mine, disk)
       ELSE IF mode = "auto" /\ mine # NoCopy
       THEN IF answered THEN result(TRUE, fetch(mine), fetch(mine)) ELSE result(TRUE, mine, disk)
       ELSE IF answered THEN result(TRUE, fetch(Empty(base)), fetch(Empty(base)))
       ELSE result(FALSE, NoCopy, disk)

(* What a copy of the history up to a time holds. *)
Copied(history, upTo) ==
    LET here == {i \in Listed(history, upTo, 0): ~history[i].deleted}
    IN [n \in {history[i].name: i \in here} |-> CHOOSE i \in here: history[i].name = n]

(* A chain of syncs, each [mode, base, now, answered]: what is searched at
   each of them is what that registry held when the copy was last brought up
   to date, and that is now unless the copy is young, the registry does not
   answer, or nothing may be fetched. *)
SyncsAreHonest(history, syncs) ==
    LET Step(so, s) ==
            LET r == Sync(s.mode, s.base, so.disk, history, s.now, s.answered)
            IN [disk |-> r.disk,
                good |-> so.good
                    /\ (r.ok => /\ r.copy.base = s.base
                                /\ r.copy.servers = Copied(history, r.copy.synced)
                                /\ \/ r.copy.synced = s.now
                                   \/ s.mode = "offline"
                                   \/ /\ s.mode = "auto"
                                      /\ ~s.answered \/ s.now - r.copy.synced < IndexMaxAge)
                    /\ (~r.ok => r.disk = so.disk)]
    IN FoldLeft(Step, [disk |-> NoCopy, good |-> TRUE], syncs).good

(* A copy whose pages were read while the registry went on has of every name
   something it was while they were read.  The next sync brings each name up to
   date, except one that was updated behind the reader and before the newest
   listing it came to: the watermark has passed that update. *)
PagesAreWhole(history, names, times, again) ==
    LET read == ListAll(history, names, 0, times)
        first == Merge(Empty("r"), history, read.all, read.at)
        second == Merge(first, history, Listed(history, again, first.through), again)
        Held(copy, n) == IF n \in DOMAIN copy THEN copy[n] ELSE 0
        behind(n) == \E i \in Listed(history, again, 0):
                        history[i].name = n /\ times[1] < i /\ i < first.through
    IN \A n \in ToSet(names):
          /\ \E now \in ToSet(times): Held(first.servers, n) = Held(Copied(history, now), n)
          /\ behind(n) \/ Held(second.servers, n) = Held(Copied(history, again), n)

-----------------------------------------------------------------------------
(* The catalog: source is [file, url, good], the cache [source, age, good],
   fetched "good", "bad" or "none". *)
CacheTtl == 1

Load(source, offline, cache, fetched) ==
    CASE source.file -> IF source.good THEN "file" ELSE "error"
      [] ~source.file /\ offline -> "embedded"
      [] ~source.file /\ ~offline ->
            IF cache.age <= CacheTtl /\ cache.source = source.url /\ cache.good THEN "cache"
            ELSE IF fetched = "good" THEN "fetched" ELSE "embedded"

(* What is served is a list that passes its validation, and is the one the
   source names or the one built in; a file asked for by name is never
   silently replaced. *)
LoadsWhatWasNamed(source, offline, cache, fetched) ==
    LET loaded == Load(source, offline, cache, fetched)
    IN /\ loaded = "cache" => cache.good /\ cache.source = source.url /\ cache.age <= CacheTtl
       /\ loaded = "fetched" => fetched = "good"
       /\ source.file => loaded \in {"file", "error"}
       /\ ~source.file => loaded # "error"
=============================================================================
