------------------------------- MODULE TagLog -------------------------------
(***************************************************************************)
(* The tags of a directory: how an entry is found in the logs of its pairs *)
(* (dir/fetch.rs, dir/find.rs, lfs_dir_getslice), and what is left of a    *)
(* log when it is compacted (lfs_dir_traverse and its filter).             *)
(*                                                                         *)
(* A log only grows: each tag adds to what those before it say, and        *)
(* LFS_TYPE_CREATE and LFS_TYPE_DELETE renumber the entries from their id  *)
(* on, for the tags after them.  lfs_dir_fetchmatch reads a log forwards,  *)
(* lfs_dir_getslice backwards, and lfs_dir_traverse copies of it, for a    *)
(* range of ids, what nothing later replaces.  The three have to agree.    *)
(*                                                                         *)
(* Abstractions.  A tag is a record of its type, its id and its data.  The *)
(* revision, the global state and the CRC of the next program unit are     *)
(* left out.  A log is what lfs_dir_fetch accepts: torn commits are in     *)
(* MetadataPair.  Sizes are counted in units, one for the tag and one for  *)
(* any data.  Whether a pair can be appended to is a free choice.          *)
(***************************************************************************)
EXTENDS Integers, FiniteSets, Sequences, SequencesExt

CONSTANTS
  Names,       \* names of files, sequences of letters
  Letters,     \* positive integers
  Attrs,       \* the types of user attributes
  Files,       \* which sets of names the directory may begin with
  MaxPairs,    \* metadata pairs on the device
  Capacity,    \* the units that a pair holds
  Half,        \* the units that lfs_dir_splittingcompact leaves in a pair, if it can
  MaxCalls,    \* how many calls commit
  Deviations   \* what the code gets wrong: "userattrs", "unrepaired", "hidden"

Pairs == 1..MaxPairs
NoPair == 0
First == 1          \* the directory's first pair

Fresh == <<>>       \* the data of a file that was created and not written to
Written == 9        \* the data it is written with
Set == 7            \* the value of an attribute set by a call of its own
Synced == 8         \* and of one that goes with a file
NoMove == [pair |-> NoPair, id |-> 0]

ASSUME TagLogAssumption ==
  /\ Letters \subseteq Nat \ {0} /\ Names \subseteq Seq(Letters) /\ <<>> \notin Names
  /\ IsFiniteSet(Names) /\ Files \subseteq SUBSET Names /\ Attrs \subseteq 1..255
  /\ MaxPairs \in Nat \ {0} /\ Capacity \in Nat /\ Half \in 1..Capacity
  /\ MaxCalls \in Nat /\ Deviations \subseteq {"userattrs", "unrepaired", "hidden"}

VARIABLES
  disk,    \* the log of each pair, and lfs.gdisk's pending move
  calls,
  view     \* auxiliary: the entries as lookups see them, kept for PlainEntries

vars == <<disk, calls, view>>

-----------------------------------------------------------------------------
(* Tags: tag.rs and lfs_type.rs *)

REG == \h001
STRUCT == \h200
INLINESTRUCT == \h201
CTZSTRUCT == \h202
USERATTR == \h300
CREATE == \h401
DELETE == \h4ff
CCRC == \h500
SOFTTAIL == \h600
HARDTAIL == \h601
NOOP == \h000
MOVE == \h101
USERATTRS == \h102
NoId == \h3ff

\* Masks, as what they divide a type by: all of it, or its first bits.
Type3 == 1
NameBits == \h80
Type1 == \h100
MoveBits == \h200
DiskBits == \h400
NoBits == \h800

Tag(type, id, data) == [type |-> type, id |-> id, data |-> data]
Gone == <<0>>    \* the size 0x3ff of a tag that deletes

Noop == Tag(NOOP, 0, <<>>)
Crc == Tag(CCRC, NoId, <<>>)   \* the end of a commit
Alike(mask, t, type) == t.type \div mask = type \div mask
IsDelete(t) == t.type # USERATTRS /\ t.data = Gone
IsSplice(t) == Alike(Type1, t, CREATE)

\* lfs_tag_splice: the chunk of the type, as an i8.
Splice(t) == LET c == t.type % 256 IN IF c < 128 THEN c ELSE c - 256

\* Adding to the id of a tag carries into its type.
Shift(t, d) ==
  LET n == (t.type * 1024 + t.id + d) % (2048 * 1024)
  IN [t EXCEPT !.type = n \div 1024, !.id = n % 1024]

Dsize(t) == IF t.data = <<>> \/ IsDelete(t) THEN 1 ELSE 2
RECURSIVE Size(_)
Size(tags) == IF tags = <<>> THEN 0 ELSE Dsize(Head(tags)) + Size(Tail(tags))

-----------------------------------------------------------------------------
(* Finding a name: a log is read forwards *)

\* How a name on disk compares to the one looked for.  Of two names of which
\* one begins with the other, the longer counts as the lesser.
Agree(n, m) == {i \in DOMAIN n \cap DOMAIN m : SubSeq(n, 1, i) = SubSeq(m, 1, i)}
FindMatch(n, name) ==
  LET i == Cardinality(Agree(n, name)) + 1
  IN CASE n = name -> "Equal"
       [] i > Len(n) -> "Less"
       [] i > Len(name) -> "Greater"
       [] OTHER -> IF name[i] < n[i] THEN "Less" ELSE "Greater"

NoBest == [id |-> NoId, type |-> \h7ff, found |-> FALSE]

\* Mutant: the entry found does not make way for one created at its id.
BugRenumbered(best, t) ==
  IF best # NoBest /\ t.id < best.id THEN [best EXCEPT !.id = @ + Splice(t)] ELSE best

\* The best match so far, after the ids have been renumbered.
Renumbered(best, t) ==
  IF t.type = DELETE /\ t.id = best.id THEN [best EXCEPT !.found = FALSE]
  ELSE IF best # NoBest /\ t.id <= best.id THEN [best EXCEPT !.id = @ + Splice(t)]
  ELSE best

\* A tag adds to what the log says of the pair.
Read(s, t) ==
  CASE Alike(Type1, t, REG) ->
         [s EXCEPT !.count = IF t.id >= @ THEN t.id + 1 ELSE @]
    [] IsSplice(t) ->
         [s EXCEPT !.count = @ + Splice(t), !.best = Renumbered(@, t)]
    [] Alike(Type1, t, SOFTTAIL) ->
         [s EXCEPT !.split = t.type % 2 = 1, !.tail = t.data[1]]
    [] OTHER -> s

\* The best match, after a name: the entry looked for, or else the first of
\* those that come after it.
Match(best, t, order) ==
  IF order = "Equal" THEN [id |-> t.id, type |-> t.type, found |-> TRUE]
  ELSE IF t.id = best.id /\ t.type = best.type THEN NoBest
  ELSE IF order = "Greater" /\ t.id <= best.id
  THEN [id |-> t.id, type |-> t.type, found |-> FALSE]
  ELSE best

Begin == [count |-> 0, tail |-> NoPair, split |-> FALSE, best |-> NoBest]

RECURSIVE ReadFrom(_, _)
ReadFrom(s, log) == IF log = <<>> THEN s ELSE ReadFrom(Read(s, Head(log)), Tail(log))
Fetch(log) == ReadFrom(Begin, log)

Matched(s, t, n) ==
  IF Alike(NameBits, t, REG) THEN [s EXCEPT !.best = Match(@, t, FindMatch(n, t.data))] ELSE s

RECURSIVE ScanFrom(_, _, _)
ScanFrom(s, log, n) ==
  IF log = <<>> THEN s
  ELSE ScanFrom(Matched(Read(s, Head(log)), Head(log), n), Tail(log), n)
Scan(log, n) == ScanFrom(Begin, log, n)

HasMoveHere(w, p) == w.move.pair = p

\* The entry of a pending move is not there any more.
Unmoved(w, p, best) ==
  IF ~HasMoveHere(w, p) THEN best
  ELSE IF w.move.id = best.id THEN [best EXCEPT !.found = FALSE]
  ELSE IF best # NoBest /\ w.move.id < best.id THEN [best EXCEPT !.id = @ - 1]
  ELSE best

Fetched(p, s, best) ==
  [pair |-> p, tail |-> s.tail, split |-> s.split, found |-> best.found,
   id |-> IF best.id < s.count THEN best.id ELSE s.count,
   ends |-> best.found \/ best.id < s.count]
Moved(w, p, s) == Fetched(p, s, Unmoved(w, p, s.best))

FetchMatch(w, p, n) == Moved(w, p, Scan(w.log[p], n))

RECURSIVE FindFrom(_, _, _)
FindFrom(w, p, n) ==
  LET f == FetchMatch(w, p, n)
  IN IF f.ends \/ ~f.split THEN f ELSE FindFrom(w, f.tail, n)

Find(w, n) == FindFrom(w, First, n)

-----------------------------------------------------------------------------
(* Reading a tag of an entry: a log is read backwards *)

NoEntry == Tag(NOOP, NoId, Gone)

\* Mutant: the tags of an older entry with the same id are seen.
BugBack(mask, t, goal) ==
  IF IsSplice(t) /\ t.id <= goal.id THEN [goal EXCEPT !.id = @ - Splice(t)]
  ELSE IF Alike(mask, t, goal.type) /\ t.id = goal.id THEN [goal EXCEPT !.tag = t, !.done = TRUE]
  ELSE goal

\* One step back: renumbering, for the tags before it, and whether it is the
\* tag in question.  An entry is not older than its LFS_TYPE_CREATE.
Earlier(goal, t) ==
  IF IsSplice(t) /\ t.id <= goal.id THEN [goal EXCEPT !.id = @ - Splice(t)] ELSE goal
Hit(mask, goal, t) ==
  IF Alike(mask, t, goal.type) /\ t.id = goal.id
  THEN [goal EXCEPT !.tag = IF IsDelete(t) THEN NoEntry ELSE t, !.done = TRUE]
  ELSE goal
Back(mask, t, goal) ==
  IF t.type = CREATE /\ t.id = goal.id THEN [goal EXCEPT !.done = TRUE]
  ELSE Hit(mask, Earlier(goal, t), t)

RECURSIVE BackFrom(_, _, _, _)
BackFrom(log, k, mask, goal) ==
  IF k = 0 \/ goal.done THEN goal ELSE BackFrom(log, k - 1, mask, Back(mask, log[k], goal))

\* lfs_dir_getslice, and lfs_dir_get
Latest(log, mask, type, id) ==
  BackFrom(log, Len(log), mask,
           [type |-> type, id |-> id, tag |-> NoEntry, done |-> FALSE]).tag

GetSlice(w, p, mask, type, id) ==
  IF ~HasMoveHere(w, p) \/ w.move.id > id THEN Latest(w.log[p], mask, type, id)
  ELSE IF w.move.id = id THEN NoEntry
  ELSE Latest(w.log[p], mask, type, id + 1)

NameTag(w, p, id) == GetSlice(w, p, NameBits, REG, id)
StructTag(w, p, id) == GetSlice(w, p, Type1, STRUCT, id)
AttrTag(w, p, id, a) == GetSlice(w, p, Type3, USERATTR + a, id)

\* lfs_dir_getinfo: an entry has a name and a struct.
GetInfo(w, p, id) ==
  IF StructTag(w, p, id) = NoEntry THEN NoEntry ELSE NameTag(w, p, id)

-----------------------------------------------------------------------------
(* Traversing a log: what is still needed of it *)

Redundant(t, ft) ==
  \/ Alike(IF t.type % 512 >= 256 THEN Type3 ELSE Type1, t, ft.type) /\ t.id = ft.id
  \/ IsDelete(ft)
  \/ t.type = DELETE /\ t.id = ft.id

\* The tags that stand for the user attributes of an open file.  The id is
\* moved here and again when the tag is passed on.
UserTags(t, d) ==
  [i \in DOMAIN t.data |->
     Shift(Tag(USERATTR + t.data[i][1], t.id + d, <<t.data[i][2]>>), d)]

\* Mutant: later tags do not renumber.
BugFilterOne(ft, t) ==
  IF t.type \notin {NOOP, MOVE} /\ Redundant(t, ft) THEN Noop ELSE ft

\* lfs_dir_traverse_filter, of a tag that follows another.  The contents of a
\* file that is moved are not looked at.
FilterOne(ft, t) ==
  IF t.type \in {NOOP, MOVE} THEN ft
  ELSE IF Redundant(t, ft) THEN Noop
  ELSE IF IsSplice(t) /\ t.id <= ft.id THEN Shift(ft, Splice(t))
  ELSE ft

\* A tag after all that follow it: renumbered, or nothing.
RECURSIVE Filter(_, _)
Filter(ft, rest) ==
  IF rest = <<>> \/ ft = Noop THEN ft
  ELSE IF Head(rest).type = USERATTRS THEN Filter(ft, UserTags(Head(rest), 0) \o Tail(rest))
  ELSE Filter(FilterOne(ft, Head(rest)), Tail(rest))

\* Which tags a traversal is for: those of a commit as they are, or of a log
\* the ones that survive for the ids of a range.
AsIs == [mask |-> NoBits, type |-> NOOP, filter |-> FALSE, begin |-> 0, end |-> 0]
IdRange(mask, type, b, e) ==
  [mask |-> mask, type |-> type, filter |-> TRUE, begin |-> b, end |-> e]
Wanted(r, t) == Alike(r.mask, t, r.type)
Within(r, t) == ~r.filter \/ t.id \in r.begin .. r.end - 1

\* A tag as it is passed on, after those that follow it, or nothing.
Kept(r, t, f) ==
  IF Wanted(r, t) /\ Within(r, f) /\ f.type # NOOP THEN <<f>> ELSE <<>>
Passed(r, t, rest) == Kept(r, t, IF r.filter THEN Filter(t, rest) ELSE t)

RECURSIVE AllPassed(_, _)
AllPassed(tags, r) ==
  IF tags = <<>> THEN <<>>
  ELSE Passed(r, Head(tags), Tail(tags)) \o AllPassed(Tail(tags), r)

\* The contents of the file with an id in another log.
FileTags(log, id) == AllPassed(log, IdRange(MoveBits, STRUCT, id, id + 1))

ShiftAll(tags, d) == [i \in DOMAIN tags |-> Shift(tags[i], d)]
Expand(f, d) ==
  CASE f.type = MOVE -> ShiftAll(FileTags(f.data[1], f.data[2]), f.id - f.data[2] + d)
    [] f.type = USERATTRS -> UserTags(f, d)
    [] OTHER -> <<Shift(f, d)>>
RECURSIVE ExpandAll(_, _)
ExpandAll(tags, d) ==
  IF tags = <<>> THEN <<>> ELSE Expand(Head(tags), d) \o ExpandAll(Tail(tags), d)

\* lfs_dir_traverse of a log followed by the attributes of a commit, the ids of
\* the tags that it passes on moved by d.
Traverse(tags, r, d) == ExpandAll(AllPassed(tags, r), d)

Entries(tags, b, e) == Traverse(tags, IdRange(DiskBits, NOOP, b, e), -b)

-----------------------------------------------------------------------------
(* Commits *)

RECURSIVE ChainFrom(_, _)
Onward(w, f) == IF f.split THEN ChainFrom(w, f.tail) ELSE <<>>
ChainFrom(w, p) == <<p>> \o Onward(w, Fetch(w.log[p]))
Chain(w) == ChainFrom(w, First)
Chained(w) == ToSet(Chain(w))
Spare(w) == Pairs \ Chained(w)

TailTag(tail, split) ==
  IF tail = NoPair THEN <<>> ELSE <<Tag(IF split THEN HARDTAIL ELSE SOFTTAIL, NoId, <<tail>>)>>

\* The count and the tail that a commit gives the lfs_mdir, before any of it
\* is on disk.
Apply(m, t) ==
  CASE t.type \in {CREATE, DELETE} -> [m EXCEPT !.count = @ + Splice(t)]
    [] Alike(Type1, t, SOFTTAIL) -> [m EXCEPT !.tail = t.data[1], !.split = t.type % 2 = 1]
    [] OTHER -> m
Applied(w, p, attrs) == FoldLeft(Apply, Fetch(w.log[p]), attrs)

Fits(tags) == Size(tags) <= Capacity
\* Mutant: the end of the block is not looked at.
BugWith(w, p, tags) == {[w EXCEPT !.log[p] = tags]}

With(w, p, tags) == IF Fits(tags) THEN {[w EXCEPT !.log[p] = tags]} ELSE {}

Appended(w, p, attrs) == With(w, p, w.log[p] \o Traverse(attrs, AsIs, 0) \o <<Crc>>)

\* lfs_dir_compact
Compact(w, p, tags, b, e, tail, split) ==
  With(w, p, Entries(tags, b, e) \o TailTag(tail, split) \o <<Crc>>)

\* The first id of what goes into a pair of its own.
RECURSIVE SplitAt(_, _, _)
SplitAt(tags, s, e) ==
  IF e - s <= 1 \/ Size(Entries(tags, s, e)) <= Half THEN s
  ELSE SplitAt(tags, s + (e - s) \div 2, e)

\* lfs_dir_splittingcompact, and lfs_dir_split into the pair q
Split(w, p, tags, m, s, q) ==
  UNION {Compact(x, p, tags, 0, s, q, TRUE) :
           x \in Compact(w, q, tags, s, m.count, m.tail, m.split)}
SplitOrNot(w, p, tags, m, s) ==
  IF s = 0 \/ Spare(w) = {} THEN Compact(w, p, tags, 0, m.count, m.tail, m.split)
  ELSE Split(w, p, tags, m, s, CHOOSE q \in Spare(w) : \A r \in Spare(w) : q <= r)
SplitFrom(w, p, tags, m) == SplitOrNot(w, p, tags, m, SplitAt(tags, 0, m.count))
SplittingCompact(w, p, attrs) == SplitFrom(w, p, w.log[p] \o attrs, Applied(w, p, attrs))

\* A pair without entries is taken out of the list by a commit to the pair
\* before it, which writes its tail there.
Pred(w, p) == CHOOSE q \in Chained(w) : Fetch(w.log[q]).tail = p
Drops(w, p, attrs) ==
  /\ p # First
  /\ \E i \in DOMAIN attrs : attrs[i].type = DELETE
  /\ Applied(w, p, attrs).count = 0

Update(w, p, attrs) == Appended(w, p, attrs) \cup SplittingCompact(w, p, attrs)

\* What lfs_dir_commit may leave, with the pending move that goes with it.
TakeTail(m) == Tag(IF m.split THEN HARDTAIL ELSE SOFTTAIL, NoId, <<m.tail>>)
Commit(w, p, attrs, move) ==
  IF Drops(w, p, attrs)
  THEN {[x EXCEPT !.log[p] = <<>>, !.move = move] :
          x \in Update(w, Pred(w, p), <<TakeTail(Fetch(w.log[p]))>>)}
  ELSE {[x EXCEPT !.move = move] : x \in Update(w, p, attrs)}

-----------------------------------------------------------------------------
(* What the caller sees *)

Missing == Gone

DataOf(t) == <<t.type, t.data>>
Value(t) == IF t = NoEntry THEN Missing ELSE t.data
EntryAt(w, f) ==
  [data |-> DataOf(StructTag(w, f.pair, f.id)),
   attrs |-> [a \in Attrs |-> Value(AttrTag(w, f.pair, f.id, a))]]

Lookups(w) == [n \in {n \in Names : Find(w, n).found} |-> EntryAt(w, Find(w, n))]

\* The names that lfs_dir_read returns.
Listed(w, p) ==
  LET ids == [i \in 1 .. Fetch(w.log[p]).count |-> i - 1]
      real == SelectSeq(ids, LAMBDA id : GetInfo(w, p, id) # NoEntry)
  IN [i \in DOMAIN real |-> NameTag(w, p, real[i]).data]
Listing(w) == FoldLeft(LAMBDA names, p : names \o Listed(w, p), <<>>, Chain(w))

-----------------------------------------------------------------------------
(* The calls *)

Leave(w) == disk' = w /\ view' = Lookups(w)

Call == calls < MaxCalls /\ calls' = calls + 1
Splits == Chain(disk') # Chain(disk)

Calls(f, attrs) == Call /\ \E w \in Commit(disk, f.pair, attrs, disk.move) : Leave(w)

\* lfs_fs_forceconsistency: most calls repair a pending move first.
Consistent == disk.move = NoMove

\* lfs_file_opencfg_ with LFS_O_CREAT
Create(n) ==
  \E f \in {Find(disk, n)} :
    /\ Consistent /\ ~f.found
    /\ Calls(f, <<Tag(CREATE, f.id, <<>>), Tag(REG, f.id, n), Tag(INLINESTRUCT, f.id, Fresh)>>)

\* lfs_remove_
RemoveFile(n) ==
  \E f \in {Find(disk, n)} : Consistent /\ f.found /\ Calls(f, <<Tag(DELETE, f.id, <<>>)>>)

\* lfs_file_sync_, of a file opened without attributes or with some
Sync(n, type, attrs) ==
  /\ \E f \in {Find(disk, n)} :
       /\ Consistent /\ f.found
       /\ Calls(f, <<Tag(type, f.id, <<Written>>), Tag(USERATTRS, f.id, attrs)>>)
  /\ Splits => attrs = <<>> \/ "userattrs" \in Deviations

\* lfs_setattr_ and lfs_removeattr_, which repair nothing
CommitAttr(n, a, data) ==
  /\ \E f \in {Find(disk, n)} : f.found /\ Calls(f, <<Tag(USERATTR + a, f.id, data)>>)
  /\ Splits => Consistent \/ "unrepaired" \in Deviations

\* lfs_rename_: its first commit, which leaves a move pending if there is to be
\* a second
\* Mutant: the entry moved is not renumbered by the new one before it.
BugNewOldId(f, g) == f.id

NewOldId(f, g) ==
  IF f.pair = g.pair /\ ~g.found /\ g.id <= f.id THEN f.id + 1 ELSE f.id
MoveTags(m, f, g) ==
  <<IF g.found THEN Tag(DELETE, g.id, <<>>) ELSE Noop,
    Tag(CREATE, g.id, <<>>),
    Tag(REG, g.id, m),
    Tag(MOVE, g.id, <<disk.log[f.pair], f.id>>),
    IF f.pair = g.pair THEN Tag(DELETE, NewOldId(f, g), <<>>) ELSE Noop>>
Renamed(m, f, g) ==
  Commit(disk, g.pair, MoveTags(m, f, g),
         IF f.pair = g.pair THEN NoMove ELSE [pair |-> f.pair, id |-> f.id])

\* Its second, or that of lfs_fs_demove after a power loss between the two.
Demoved(w) ==
  IF w.move = NoMove THEN {w}
  ELSE Commit(w, w.move.pair, <<Tag(DELETE, w.move.id, <<>>)>>, NoMove)

Rename(n, m) ==
  /\ Call /\ Consistent /\ n # m
  /\ \E f \in {Find(disk, n)}, g \in {Find(disk, m)} :
       f.found /\ \E x \in Renamed(m, f, g) : \E w \in Demoved(x) : Leave(w)

\* Lookups go wrong around the entry of a pending move unless it is the last
\* of its pair and the log deletes nothing.
IsPlain(log, id) == id = Fetch(log).count - 1 /\ \A i \in DOMAIN log : log[i].type # DELETE

\* Power is lost between the two commits.
RenameCut(n, m) ==
  /\ Call /\ Consistent /\ n # m
  /\ \E f \in {Find(disk, n)}, g \in {Find(disk, m)} :
       /\ f.found /\ f.pair # g.pair
       /\ \E w \in Renamed(m, f, g) :
            ("hidden" \in Deviations \/ IsPlain(w.log[f.pair], f.id)) /\ Leave(w)

Demove ==
  disk.move # NoMove /\ (\E w \in Demoved(disk) : Leave(w)) /\ UNCHANGED calls

LogOf(names) ==
  FlattenSeq([i \in DOMAIN names |->
                <<Tag(REG, i - 1, names[i]), Tag(INLINESTRUCT, i - 1, <<i>>)>>]) \o <<Crc>>
Logged(files) ==
  LogOf(SortSeq(SetToSeq(files), LAMBDA n, m : FindMatch(n, m) = "Greater"))

Init ==
  /\ \E files \in Files :
       disk = [log |-> [p \in Pairs |-> IF p = First THEN Logged(files) ELSE <<>>],
               move |-> NoMove]
  /\ calls = 0
  /\ view = Lookups(disk)

Next ==
  \/ \E n \in Names : Create(n) \/ RemoveFile(n)
  \/ \E n \in Names, type \in {INLINESTRUCT, CTZSTRUCT} : Sync(n, type, <<>>)
  \/ \E n \in Names : Sync(n, INLINESTRUCT, SetToSeq({<<a, Synced>> : a \in Attrs}))
  \/ \E n \in Names, a \in Attrs, data \in {<<Set>>, Gone} : CommitAttr(n, a, data)
  \/ \E n, m \in Names : Rename(n, m) \/ RenameCut(n, m)
  \/ Demove

Spec == Init /\ [][Next]_vars

-----------------------------------------------------------------------------
(* Properties *)

\* A log fits its pair, and what it says of ids stays within them.
TypeOK ==
  /\ \A p \in Pairs :
       /\ Fits(disk.log[p])
       /\ \A i \in DOMAIN disk.log[p] :
            LET t == disk.log[p][i]
            IN t.id \in 0 .. Cardinality(Names) \cup {NoId} /\ t.type \in 1 .. 2047
  /\ calls \in 0 .. MaxCalls
  /\ Len(Chain(disk)) <= MaxPairs
  /\ disk.move.pair \in Chained(disk) \cup {NoPair}

\* Of two names, which comes first: as padded with a letter after all others.
Before(n, m) ==
  LET At(s, i) == IF i <= Len(s) THEN s[i] ELSE 1000
  IN \E i \in 1 .. Len(n) + Len(m) :
       At(n, i) < At(m, i) /\ \A j \in 1 .. i - 1 : At(n, j) = At(m, j)

\* Reading a directory by ids (lfs_dir_read_, backwards through the log) gives
\* in order the names that looking them up finds (lfs_dir_find, forwards): the
\* id of a new entry and the one of an old entry are counted the same way.
ListingIsLookup ==
  LET names == Listing(disk)
  IN /\ {names[i] : i \in DOMAIN names} = DOMAIN view
     /\ \A i, j \in DOMAIN names : i < j => Before(names[i], names[j])

\* What lookups say of an id, and nothing else, survives a compaction of any
\* part of the log, whether or not one happens there: lfs_dir_traverse and its
\* filter agree with lfs_dir_getslice, and leave nothing behind that an entry
\* created later under the same id would inherit.
Survivors(log, b, e) ==
  LET w == [log |-> [p \in {First} |-> log], move |-> NoMove]
      Told(id) == {NameTag(w, First, id), StructTag(w, First, id)}
                    \cup ({AttrTag(w, First, id, a) : a \in Attrs} \ {NoEntry})
  IN UNION {{[t EXCEPT !.id = id - b] : t \in Told(id)} : id \in b .. e - 1}

CompactionIsExact ==
  \A p \in Chained(disk) :
    LET log == disk.log[p]
        count == Fetch(log).count
    IN \A b \in 0 .. count : \A e \in b .. count :
         LET kept == Entries(log, b, e)
         IN /\ {kept[i] : i \in DOMAIN kept} = Survivors(log, b, e)
            /\ Len(kept) = Cardinality(Survivors(log, b, e))

\* Whatever is appended, compacted, split, dropped or renumbered, and with a
\* rename cut between its commits, the entries are those of PlainEntries.
Plain == INSTANCE PlainEntries
  WITH entries <- view, Fresh <- <<INLINESTRUCT, Fresh>>, Missing <- Missing,
       Values <- {<<Set>>, <<Synced>>},
       Contents <- {<<type, <<Written>>>> : type \in {INLINESTRUCT, CTZSTRUCT}}
IsPlainEntries == Plain!Spec
=============================================================================
