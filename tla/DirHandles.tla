----------------------------- MODULE DirHandles -----------------------------
(***************************************************************************)
(* A directory of several metadata pairs under open handles: dir/open.rs,  *)
(* dir/lfs_mlist.rs, and the part of dir/commit.rs that splits a full      *)
(* pair, drops an empty one, moves one, expands the superblock, and brings *)
(* the handles of lfs.mlist up to date.                                    *)
(*                                                                         *)
(* The pairs of a directory are chained by their tails.  A handle has a    *)
(* copy of the lfs_mdir of one of them and an id in it: that of its file,  *)
(* or that of the next entry to read.  Every call is a step; inside it a   *)
(* world (disk, handles, where lookups begin) is passed from one commit to *)
(* the next.                                                               *)
(*                                                                         *)
(* Abstractions.  Names are integers and have an order.  An entry is small *)
(* or big, and a pair holds Capacity units.  Whether a commit has to       *)
(* compact, and whether the pair is worn or its block bad, is a free       *)
(* choice.  A pair that moves gets a new name and the old one stays        *)
(* readable, as its older block does.  The directory is the root, in the   *)
(* superblock's pair at first, or a subdirectory, whose parent's entry and *)
(* predecessor in the list are outside and are changed in place.           *)
(***************************************************************************)
EXTENDS Integers, FiniteSets, Sequences, SequencesExt

CONSTANTS
  Names,       \* names of entries, positive integers
  DirSlots,    \* what directories can be opened with
  FileSlots,   \* and what files can
  MaxPairs,    \* metadata pairs on the device
  Capacity,    \* what a pair holds
  Half,        \* what lfs_dir_splittingcompact leaves in a pair, if it can
  MaxMoves,    \* how many commits may find their pair worn
  MaxSets,     \* how many entries may change their size
  MaxCalls,    \* how many calls commit
  SeekTo,      \* the positions that lfs_dir_seek is called with
  Shut, Gone,  \* states of a handle that PlainDir shows
  Deviations   \* what the code gets wrong: "alias", "head", "tell", "drop"

NoPair == -1     \* a null pair
Outside == 0     \* the predecessor in the list of a subdirectory
SuperPair == 1   \* {0, 1}
Pairs == 1..MaxPairs
Handles == DirSlots \cup FileSlots
Super == 0       \* the name of the superblock entry

ASSUME DirAssumption ==
  /\ Names \subseteq Nat \ {0} /\ IsFiniteSet(Names) /\ IsFiniteSet(Handles)
  /\ Capacity \in Nat /\ Half \in 1..Capacity /\ MaxPairs \in Nat \ {0}
  /\ MaxMoves \in Nat /\ MaxSets \in Nat /\ MaxCalls \in Nat
  /\ SeekTo \subseteq Nat /\ Deviations \subseteq {"alias", "head", "tell", "drop"}

VARIABLES
  disk,     \* for each pair, its entries, its tail and whether that continues it
  hs,       \* the handles
  top,      \* where lookups begin: lfs.root, or the parent's entry
  isRoot,   \* the directory is the root
  still,    \* the readers whose position no entry before it has changed
  moves, sets, calls,
  view      \* auxiliary: what PlainDir sees of the others, kept for its evaluation

vars == <<disk, hs, top, isRoot, still, moves, sets, calls, view>>

Entries == [name : Names \cup {Super}, size : 1..2]
Mdirs == [pair : Pairs \cup {NoPair}, count : Nat, tail : Pairs \cup {NoPair}, split : BOOLEAN]

Blank == [ents |-> <<>>, tail |-> NoPair, split |-> FALSE]
NoMdir == [pair |-> NoPair, count |-> 0, tail |-> NoPair, split |-> FALSE]
Unused == [type |-> "none", m |-> NoMdir, id |-> 0, head |-> NoPair, pos |-> 0]

TypeOK ==
  /\ DOMAIN disk = Pairs \cup {Outside}
  /\ \A p \in DOMAIN disk :
       /\ disk[p].ents \in Seq(Entries) /\ disk[p].split \in BOOLEAN
       /\ disk[p].tail \in Pairs \cup {NoPair}
  /\ hs \in [Handles -> [type : {"none", "file", "dir"}, m : Mdirs, id : Nat,
                         head : Pairs \cup {NoPair}, pos : Nat]]
  /\ top \in Pairs /\ isRoot \in BOOLEAN /\ still \subseteq Handles
  /\ moves \in 0..MaxMoves /\ sets \in 0..MaxSets /\ calls \in 0..MaxCalls

-----------------------------------------------------------------------------
(* The list of pairs, and an lfs_mdir that is fetched from it.             *)

World == [disk |-> disk, hs |-> hs, top |-> top, moves |-> moves, taken |-> {}]
Root(w) == IF isRoot THEN w.top ELSE NoPair
Readers == {h \in Handles : hs[h].type = "dir"}
Reader(h) == hs[h].type = "dir"

RECURSIVE Follow(_, _)
Follow(d, p) == IF p = NoPair THEN <<>> ELSE <<p>> \o Follow(d, d[p].tail)
Thread(w) == Follow(w.disk, IF isRoot THEN SuperPair ELSE Outside)

\* The directory's own pairs, from the one that lookups begin at.
RECURSIVE Parts(_, _)
Parts(d, p) == <<p>> \o (IF d[p].split THEN Parts(d, d[p].tail) ELSE <<>>)
Listing(d, ps) == FoldLeft(LAMBDA s, p : s \o d[p].ents, <<>>, ps)

Copy(m) == [pair |-> m.pair, count |-> Len(m.ents), tail |-> m.tail, split |-> m.split]
Fetch(w, p) == [pair |-> p, ents |-> w.disk[p].ents, tail |-> w.disk[p].tail, split |-> w.disk[p].split]

\* The pairs that neither the list nor a handle knows, nor this call has taken:
\* lfs_alloc might also return the blocks of a pair that only a handle knows.
Spare(w) ==
  Pairs \ (ToSet(Thread(w)) \cup w.taken \cup {w.hs[h].m.pair : h \in Handles}
             \cup {w.hs[h].head : h \in Handles})
FirstOf(s) == CHOOSE p \in s : \A q \in s : p <= q

Size(s) == FoldLeft(LAMBDA n, e : n + e.size, 0, s)

-----------------------------------------------------------------------------
(* lfs_dir_relocatingcommit.                                               *)

Applied(m, a) ==
  CASE a.do = "create" -> [m EXCEPT !.ents = InsertAt(@, a.id + 1, a.ent)]
    [] a.do = "delete" -> [m EXCEPT !.ents = RemoveAt(@, a.id + 1)]
    [] a.do = "set" -> [m EXCEPT !.ents[a.id + 1] = a.ent]
    [] a.do = "tail" -> [m EXCEPT !.tail = a.tail, !.split = a.split]

Delete(i) == [do |-> "delete", id |-> i]
Create(i, e) == [do |-> "create", id |-> i, ent |-> e]
Set(i, e) == [do |-> "set", id |-> i, ent |-> e]
SetTail(m, p) == [do |-> "tail", tail |-> p, split |-> m.split]

\* The entry under a directory's own id counts as one before it.
BugShifted(h, a) ==
  CASE a.do = "delete" /\ h.id = a.id /\ h.type # "dir" -> [h EXCEPT !.m.pair = NoPair]
    [] a.do = "delete" /\ h.id >= a.id -> [h EXCEPT !.id = @ - 1]
    [] a.do = "create" /\ h.id >= a.id -> [h EXCEPT !.id = @ + 1]
    [] OTHER -> h

\* The ids of a handle of the pair move with the entries, and a file whose entry
\* goes is cut off.  A directory keeps its place: the next entry slides under it.
Shifted(h, a) ==
  CASE a.do = "delete" /\ h.id = a.id /\ h.type # "dir" -> [h EXCEPT !.m.pair = NoPair]
    [] a.do = "delete" /\ h.id > a.id -> [h EXCEPT !.id = @ - 1]
    [] a.do = "create" /\ h.id >= a.id -> [h EXCEPT !.id = @ + 1]
    [] OTHER -> h

\* A handle whose id is no longer in its pair goes on to the tail.  The ids of a
\* new root are those of the superblock pair that it was expanded from.
RECURSIVE OnToTail(_, _)
OnToTail(w, h) ==
  IF h.id < h.m.count \/ ~h.m.split THEN h
  ELSE OnToTail(w, [h EXCEPT !.id = IF h.m.tail # Root(w) THEN @ - h.m.count ELSE @,
                             !.m = Copy(Fetch(w, h.m.tail))])

\* Only the ids of the handles follow a commit.
BugFixMlist(w, own, pair, m, attrs) ==
  [w EXCEPT !.hs = [h \in Handles |->
     IF w.hs[h].type = "none" \/ w.hs[h].m.pair # pair \/ h = own THEN w.hs[h]
     ELSE [FoldLeft(Shifted, w.hs[h], attrs) EXCEPT !.m.pair = IF @ = NoPair THEN @ ELSE m.pair]]]

\* The handle that a file is being created with is treated as the others are.
BugFixMlistOwn(w, own, pair, m, attrs) ==
  [w EXCEPT !.hs = [h \in Handles |->
     IF w.hs[h].type = "none" \/ w.hs[h].m.pair # pair THEN w.hs[h]
     ELSE OnToTail(w, FoldLeft(Shifted, [w.hs[h] EXCEPT !.m = Copy(m)], attrs))]]

\* The handle whose own lfs_mdir is committed through has its id already.
FixMlist(w, own, pair, m, attrs) ==
  [w EXCEPT !.hs = [h \in Handles |->
     IF w.hs[h].type = "none" \/ w.hs[h].m.pair # pair THEN w.hs[h]
     ELSE LET c == [w.hs[h] EXCEPT !.m = Copy(m)]
          IN OnToTail(w, IF h = own THEN c ELSE FoldLeft(Shifted, c, attrs))]]

Drops(w, m, attrs) ==
  /\ \E i \in DOMAIN attrs : attrs[i].do = "delete"
  /\ m.ents = <<>>
  /\ \E p \in ToSet(Thread(w)) : w.disk[p].tail = m.pair /\ w.disk[p].split

Write(w, m) ==
  [w EXCEPT !.disk[m.pair] = [ents |-> m.ents, tail |-> m.tail, split |-> m.split],
            !.taken = @ \cup {m.pair}]

\* The range is halved until its upper part fits into half a block.
SplitAt(ents) ==
  LET f[s \in 0..Len(ents)] ==
        IF Len(ents) - s <= 1 \/ Size(SubSeq(ents, s + 1, Len(ents))) <= Half THEN s
        ELSE f[s + (Len(ents) - s) \div 2]
  IN f[0]

\* The new pair does not take over the tail.
BugSplit(w, m, s, t) ==
  LET up == [pair |-> t, ents |-> SubSeq(m.ents, s + 1, Len(m.ents)), tail |-> NoPair, split |-> FALSE]
  IN [w |-> [Write(w, up) EXCEPT !.top = IF s = 0 /\ m.pair = Root(w) THEN t ELSE @],
      m |-> [m EXCEPT !.ents = SubSeq(@, 1, s), !.tail = t, !.split = TRUE]]

\* lfs_dir_split: entries from s on go to a new pair that takes over the tail.
Split(w, m, s, t) ==
  LET up == [pair |-> t, ents |-> SubSeq(m.ents, s + 1, Len(m.ents)), tail |-> m.tail, split |-> m.split]
  IN [w |-> [Write(w, up) EXCEPT !.top = IF s = 0 /\ m.pair = Root(w) THEN t ELSE @],
      m |-> [m EXCEPT !.ents = SubSeq(@, 1, s), !.tail = t, !.split = TRUE]]

\* At most one split: the head that remains is not looked at again.
SplitOnce(w, m) ==
  LET s == SplitAt(m.ents)
      free == Spare(w)
  IN IF s = 0 \/ free = {} \/ Size(SubSeq(m.ents, s + 1, Len(m.ents))) > Capacity
       THEN [w |-> w, m |-> m]
       ELSE Split(w, m, s, FirstOf(free))

\* A worn superblock pair hands its entries to a new root and keeps its own.
Expand(r) ==
  LET free == Spare(r.w)
      x == Split(r.w, r.m, 0, FirstOf(free))
  IN IF free = {} THEN r
     ELSE [x EXCEPT !.m.ents = <<r.m.ents[1]>>]

\* lfs_dir_compact: writes the pair, to a new one if it is worn.
Compact(r, worn) ==
  LET free == Spare(r.w)
      moved == worn /\ ~(isRoot /\ r.m.pair = SuperPair) /\ free # {}
      m == IF moved THEN [r.m EXCEPT !.pair = FirstOf(free)] ELSE r.m
      w == IF worn THEN [r.w EXCEPT !.moves = @ + 1] ELSE r.w
  IN IF Size(m.ents) > Capacity THEN [w |-> w, m |-> m, state |-> "fail"]
     ELSE [w |-> Write(w, m), m |-> m, state |-> IF moved THEN "moved" ELSE "ok"]

SplittingCompact(w, m, worn) ==
  LET r == SplitOnce(w, m)
  IN Compact(IF worn /\ isRoot /\ m.pair = SuperPair THEN Expand(r) ELSE r, worn)

\* The results of a commit to m, of which the handle "own" may have the copy.
Relocating(w, own, m, attrs, mayWear) ==
  LET new == FoldLeft(Applied, m, attrs)
      append == IF Size(new.ents) <= Capacity
                  THEN {[w |-> Write(w, new), m |-> new, state |-> "ok"]} ELSE {}
      compact == {SplittingCompact(w, new, worn) : worn \in
                   {x \in BOOLEAN : x => mayWear /\ w.moves < MaxMoves}}
      fixed(r) == IF r.state = "fail" THEN r
                  ELSE [r EXCEPT !.w = FixMlist(r.w, own, m.pair, r.m, attrs)]
  IN {fixed(r) : r \in IF Drops(w, new, attrs) THEN {[w |-> w, m |-> new, state |-> "dropped"]}
                       ELSE append \cup compact}

-----------------------------------------------------------------------------
(* lfs_dir_orphaningcommit.                                                *)

\* The heads of open directories stay behind.
BugFollows(w, old, new) ==
  [w EXCEPT
     !.hs = [h \in Handles |-> [w.hs[h] EXCEPT
               !.m.pair = IF @ = old /\ w.hs[h].type # "none" THEN new ELSE @]],
     !.top = IF @ = old THEN new ELSE @]

\* The root, the handles and their heads follow the pair.
Follows(w, old, new) ==
  [w EXCEPT
     !.hs = [h \in Handles |-> [w.hs[h] EXCEPT
               !.m.pair = IF @ = old /\ w.hs[h].type # "none" THEN new ELSE @,
               !.head = IF @ = old /\ w.hs[h].type = "dir" THEN new ELSE @]],
     !.top = IF @ = old THEN new ELSE @]

Preds(w, p) == {q \in ToSet(Thread(w)) : w.disk[q].tail = p}

\* The pair that was at "old" has moved to "new": its predecessor's tail follows,
\* by a commit that may move the predecessor in turn.
RECURSIVE Relocated(_, _, _)
Relocated(w, old, new) ==
  LET v == Follows(w, old, new)
      q == Preds(v, old)
  IN IF q = {} THEN {v}
     ELSE IF q = {Outside} THEN {[v EXCEPT !.disk[Outside].tail = new]}
     ELSE LET p == CHOOSE x \in q : TRUE
              m == Fetch(v, p)
          IN UNION {IF r.state = "moved" THEN Relocated(r.w, p, r.m.pair) ELSE {r.w} :
                      r \in Relocating(v, NoPair, m, <<SetTail(m, new)>>, TRUE)}

\* The predecessor of a pair that is dropped takes over its tail.  If it moves
\* as it does so, the dropped pair is taken for the one that has moved.
Dropped(w, gone) ==
  LET m == Fetch(w, CHOOSE x \in Preds(w, gone.pair) : TRUE)
      a == [do |-> "tail", tail |-> gone.tail, split |-> gone.split]
  IN UNION {IF r.state = "moved" THEN Relocated(r.w, gone.pair, r.m.pair) ELSE {r.w} :
              r \in Relocating(w, NoPair, m, <<a>>, "drop" \in Deviations)}

\* The worlds that a commit may lead to; one that fails changes none.
Commit(w, own, m, attrs, mayWear) ==
  UNION {CASE r.state = "ok" -> {r.w}
           [] r.state = "moved" -> Relocated(r.w, m.pair, r.m.pair)
           [] r.state = "dropped" -> Dropped(r.w, r.m)
           [] r.state = "fail" -> {} :
           r \in Relocating(w, own, m, attrs, mayWear)}

-----------------------------------------------------------------------------
(* lfs_dir_find: the pair and the id of a name, or where it is to go.      *)

\* A pair with no greater name is taken for the last.
BugFindFrom(p, n) ==
  LET e == disk[p].ents
      known == {i \in 1..Len(e) : e[i].name = n}
      later == {i \in 1..Len(e) : e[i].name > n}
  IN [found |-> known # {}, pair |-> p,
      id |-> FirstOf(known \cup later \cup {Len(e) + 1}) - 1]

RECURSIVE FindFrom(_, _)
FindFrom(p, n) ==
  LET e == disk[p].ents
      known == {i \in 1..Len(e) : e[i].name = n}
      later == {i \in 1..Len(e) : e[i].name > n}
  IN CASE known # {} -> [found |-> TRUE, pair |-> p, id |-> FirstOf(known) - 1]
       [] known = {} /\ later # {} -> [found |-> FALSE, pair |-> p, id |-> FirstOf(later) - 1]
       [] known = {} /\ later = {} /\ disk[p].split -> FindFrom(disk[p].tail, n)
       [] OTHER -> [found |-> FALSE, pair |-> p, id |-> Len(e)]
Find(n) == FindFrom(top, n)

-----------------------------------------------------------------------------
(* What the handles stand for.                                             *)

\* The names from id i of a pair on.
RECURSIVE From(_, _, _)
From(w, m, i) ==
  {w.disk[m.pair].ents[j].name : j \in {k \in 1..m.count : k > i}} \cup
    (IF m.split THEN From(w, Copy(Fetch(w, m.tail)), 0) ELSE {})

\* What a reader will still be given, and the name of an open file.
Ahead(w, h) == From(w, w.hs[h].m, w.hs[h].id) \ {Super}
NameOf(w, h) ==
  LET p == w.hs[h].m.pair
      i == w.hs[h].id + 1
  IN CASE p = NoPair -> Gone
       [] p # NoPair /\ i \in DOMAIN w.disk[p].ents -> w.disk[p].ents[i].name
       [] OTHER -> Super

Seen(w) ==
  [names |-> {e.name : e \in ToSet(Listing(w.disk, Parts(w.disk, w.top)))} \ {Super},
   ahead |-> [h \in Handles |-> IF w.hs[h].type = "dir" THEN Ahead(w, h) ELSE Shut],
   entry |-> [h \in Handles |-> IF w.hs[h].type = "file" THEN NameOf(w, h) ELSE Shut]]

OpenAs(n) == {h \in Handles : hs[h].type = "file" /\ NameOf(World, h) = n}

-----------------------------------------------------------------------------
(* Calls that commit.                                                      *)

\* A reader keeps the meaning of its position if no name before it comes or goes.
Kept(gone, come) ==
  {h \in still :
     /\ \A n \in gone : \E x \in Ahead(World, h) : x <= n
     /\ \A n \in come : \E x \in Ahead(World, h) : x < n}

\* A removed file's handle is followed into the tail only where that is asked for.
Becomes(w, gone, come) ==
  /\ disk' = w.disk /\ hs' = w.hs /\ top' = w.top /\ moves' = w.moves
  /\ view' = Seen(w)
  /\ calls < MaxCalls /\ calls' = calls + 1
  /\ still' = Kept(gone, come)
  /\ "alias" \in Deviations \/
       \A h \in UNION {OpenAs(n) : n \in gone} : w.hs[h].m.pair = NoPair

New(n) == [name |-> n, size |-> 1]

\* lfs_mkdir_, as far as the parent goes.
Mkdir(n) ==
  LET f == Find(n)
      m == Fetch(World, f.pair)
  IN /\ ~f.found
     /\ \E w \in Commit(World, NoPair, m, <<Create(f.id, New(n))>>, TRUE) : Becomes(w, {}, {n})
     /\ UNCHANGED <<isRoot, sets>>

\* lfs_file_opencfg_ of a new file: the handle is in the list before the commit.
CreateFile(h, n) ==
  LET f == Find(n)
      m == Fetch(World, f.pair)
      own == [Unused EXCEPT !.type = "file", !.m = Copy(m), !.id = f.id]
  IN /\ h \in FileSlots /\ hs[h].type = "none" /\ ~f.found
     /\ \E w \in Commit([World EXCEPT !.hs[h] = own], h, m, <<Create(f.id, New(n))>>, TRUE) :
          Becomes(w, {}, {n})
     /\ UNCHANGED <<isRoot, sets>>

RemoveFile(n) ==
  LET f == Find(n)
  IN /\ f.found
     /\ \E w \in Commit(World, NoPair, Fetch(World, f.pair), <<Delete(f.id)>>, TRUE) : Becomes(w, {n}, {})
     /\ UNCHANGED <<isRoot, sets>>

Replaced(f) == IF f.found THEN <<Delete(f.id)>> ELSE <<>>
Moved(f, b) == [name |-> b, size |-> disk[f.pair].ents[f.id + 1].size]

RenameInPair(a, b) ==
  LET old == Find(a)
      new == Find(b)
      oldid == IF ~new.found /\ new.id <= old.id THEN old.id + 1 ELSE old.id
  IN /\ old.found /\ a # b /\ old.pair = new.pair
     /\ \E w \in Commit(World, NoPair, Fetch(World, new.pair),
                        Replaced(new) \o <<Create(new.id, Moved(old, b)), Delete(oldid)>>, TRUE) :
          Becomes(w, {a, b}, {b})
     /\ UNCHANGED <<isRoot, sets>>

\* The pairs do not move: FsTree has what becomes of a pending move when they do.
RenameAcross(a, b) ==
  LET old == Find(a)
      new == Find(b)
  IN /\ old.found /\ old.pair # new.pair
     /\ \E v \in Commit(World, NoPair, Fetch(World, new.pair),
                        Replaced(new) \o <<Create(new.id, Moved(old, b))>>, FALSE) :
          \E w \in Commit(v, NoPair, Fetch(World, old.pair), <<Delete(old.id)>>, FALSE) :
            Becomes(w, {a, b}, {b})
     /\ UNCHANGED <<isRoot, sets>>

\* An attribute is set or removed through the file's own handle, or its path.
SetSize(h, m, i) ==
  LET e == m.ents[i + 1]
  IN /\ sets < MaxSets /\ sets' = sets + 1
     /\ \E w \in Commit(World, h, m, <<Set(i, [e EXCEPT !.size = 3 - @])>>, TRUE) : Becomes(w, {}, {})
     /\ UNCHANGED isRoot

Sync(h) ==
  /\ hs[h].type = "file" /\ hs[h].m.pair # NoPair
  /\ SetSize(h, [Fetch(World, hs[h].m.pair) EXCEPT !.tail = hs[h].m.tail, !.split = hs[h].m.split],
             hs[h].id)

Setattr(n) == Find(n).found /\ SetSize(NoPair, Fetch(World, Find(n).pair), Find(n).id)

-----------------------------------------------------------------------------
(* Calls on handles.                                                       *)

Handle(h, r, kept) ==
  /\ hs' = [hs EXCEPT ![h] = r]
  /\ view' = Seen([World EXCEPT !.hs[h] = r])
  /\ still' = IF kept THEN still \cup {h} ELSE still \ {h}
  /\ UNCHANGED <<disk, top, isRoot, moves, sets, calls>>

OpenFile(h, n) ==
  /\ h \in FileSlots /\ hs[h].type = "none" /\ Find(n).found
  /\ Handle(h, [Unused EXCEPT !.type = "file", !.m = Copy(Fetch(World, Find(n).pair)),
                              !.id = Find(n).id], FALSE)

\* lfs_file_close_ and lfs_dir_close_, with lfs_mlist_remove.
Close(h) == hs[h].type # "none" /\ Handle(h, Unused, FALSE)

Rewound(h, p) == [Unused EXCEPT !.type = "dir", !.m = Copy(Fetch(World, p)), !.head = p]

OpenDir(h) == h \in DirSlots /\ hs[h].type = "none" /\ Handle(h, Rewound(h, top), TRUE)
Rewind(h) == Reader(h) /\ Handle(h, Rewound(h, hs[h].head), TRUE)

ReadDot(h) ==
  Reader(h) /\ hs[h].pos < 2 /\ Handle(h, [hs[h] EXCEPT !.pos = @ + 1], h \in still)

\* The next id that has a name, in this pair or a later one; NoMdir at the end.
RECURSIVE NextId(_, _)
NextId(m, i) ==
  IF i = m.count
    THEN IF m.split THEN NextId(Copy(Fetch(World, m.tail)), 0) ELSE [m |-> m, id |-> i, end |-> TRUE]
    ELSE IF disk[m.pair].ents[i + 1].name = Super THEN NextId(m, i + 1)
    ELSE [m |-> m, id |-> i, end |-> FALSE]

Read(h) ==
  LET x == NextId(hs[h].m, hs[h].id)
      there == [hs[h] EXCEPT !.m = x.m, !.id = x.id]
  IN /\ Reader(h) /\ hs[h].pos >= 2
     /\ Handle(h, IF x.end THEN there ELSE [there EXCEPT !.id = @ + 1, !.pos = @ + 1], h \in still)

\* Whole pairs are passed over; past the end the handle stays where it got.
RECURSIVE Skip(_, _)
Skip(r, off) ==
  IF off = 0 THEN r
  ELSE IF r.id = r.m.count
    THEN IF r.m.split THEN Skip([r EXCEPT !.m = Copy(Fetch(World, @.tail)), !.id = 0], off) ELSE r
    ELSE LET diff == IF r.m.count - r.id < off THEN r.m.count - r.id ELSE off
         IN Skip([r EXCEPT !.id = @ + diff, !.pos = @ + diff], off - diff)

\* The superblock's entry is counted.
BugSeek(h, off) ==
  LET r == Rewound(h, hs[h].head)
      dots == IF off < 2 THEN off ELSE 2
  IN /\ Reader(h)
     /\ Handle(h, Skip([r EXCEPT !.pos = dots], off - dots), TRUE)

\* The superblock's entry is not counted, if the head is the root.
Seek(h, off) ==
  LET r == Rewound(h, hs[h].head)
      dots == IF off < 2 THEN off ELSE 2
      first == IF off > dots /\ isRoot /\ r.head = top THEN 1 ELSE 0
  IN /\ Reader(h)
     /\ "head" \in Deviations \/ ~isRoot \/ r.head = top
     /\ Handle(h, Skip([r EXCEPT !.pos = dots, !.id = first], off - dots), TRUE)

-----------------------------------------------------------------------------

\* lfs_format_ and lfs_mount_, or lfs_mkdir_ of the subdirectory.
Init ==
  /\ isRoot \in BOOLEAN
  /\ top = SuperPair
  /\ disk = [p \in Pairs \cup {Outside} |->
       CASE p = Outside -> [Blank EXCEPT !.tail = SuperPair]
         [] p = SuperPair /\ isRoot -> [Blank EXCEPT !.ents = <<New(Super)>>]
         [] OTHER -> Blank]
  /\ hs = [h \in Handles |-> Unused]
  /\ still = {} /\ moves = 0 /\ sets = 0 /\ calls = 0
  /\ view = Seen(World)

Next ==
  \/ \E h \in Handles : Sync(h)
  \/ \E n \in Names : Mkdir(n) \/ RemoveFile(n) \/ Setattr(n)
  \/ \E h \in Handles, n \in Names : CreateFile(h, n) \/ OpenFile(h, n)
  \/ \E a, b \in Names : RenameInPair(a, b) \/ RenameAcross(a, b)
  \/ \E h \in Handles : Close(h) \/ OpenDir(h) \/ Rewind(h) \/ ReadDot(h) \/ Read(h)
  \/ \E h \in Handles, off \in SeekTo : Seek(h, off)

Spec == Init /\ [][Next]_vars

-----------------------------------------------------------------------------
(* Properties.                                                             *)

\* The entries, over all pairs, are in the order of their names, none twice, and
\* every pair but the superblock's holds what its tail's predecessor handed over:
\* lfs_dir_find stops at the first name that is greater.
Real(s) == SelectSeq(s, LAMBDA e : e.name # Super)
ListIsSorted ==
  LET s == Real(Listing(disk, Parts(disk, top)))
  IN \A i, j \in DOMAIN s : i < j => s[i].name < s[j].name

\* Each handle's lfs_mdir is a pair of the directory, as the disk has it, and its
\* id one of that pair's or the one after.
HandlesCurrent ==
  \A h \in Handles : hs[h].m.pair # NoPair /\ hs[h].m.pair \in ToSet(Thread(World)) =>
    hs[h].m = Copy(Fetch(World, hs[h].m.pair)) /\ hs[h].id <= hs[h].m.count

\* How many entries lie before a reader.
Passed(h) ==
  LET ps == Parts(disk, hs[h].head)
      k == CHOOSE i \in 1..Len(ps) : ps[i] = hs[h].m.pair
  IN Len(Real(Listing(disk, SubSeq(ps, 1, k - 1)) \o SubSeq(disk[ps[k]].ents, 1, hs[h].id)))

\* What lfs_dir_tell returns is where lfs_dir_seek goes back to, as long as no
\* entry before the position comes or goes: splits and moves leave it alone.
TellIsPlace ==
  \A h \in Readers :
    /\ h \in still \/ "tell" \in Deviations
    /\ hs[h].pos >= 2 /\ hs[h].m.pair \in ToSet(Parts(disk, hs[h].head))
    => Passed(h) = hs[h].pos - 2

\* Readers are given every name that stays, once and in order, and open files
\* keep their entries, whatever is created, removed, renamed, split or moved.
Plain == INSTANCE PlainDir WITH
  names <- view.names, ahead <- view.ahead, entry <- view.entry
IsPlainDir == Plain!Spec
=============================================================================
