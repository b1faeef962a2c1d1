------------------------------- MODULE FsTree -------------------------------
(***************************************************************************)
(* The directory tree of littlefs-rust-core, the list that threads its     *)
(* metadata pairs, and the global state that repairs them: fs/mkdir.rs,    *)
(* fs/remove.rs, fs/rename.rs, fs/superblock.rs, fs/parent.rs,             *)
(* lfs_gstate.rs and the part of dir/commit.rs above the single pair.      *)
(*                                                                         *)
(* A directory is a metadata pair with entries, a tail (the next pair of   *)
(* the list) and a delta.  Global state, an orphan flag and a pending      *)
(* move, is the XOR of the deltas along the list.  An operation is several *)
(* commits, each to one pair and each atomic, which is what MetadataPair   *)
(* shows; power can be lost between any two.  A commit may move its pair:  *)
(* the parent's entry and the predecessor's tail are then updated by       *)
(* commits of their own, which may move their pairs in turn.               *)
(*                                                                         *)
(* Abstractions.  A pair is <<directory, generation>>, and moving it       *)
(* begins a generation; pairs of one directory share a block, which is     *)
(* what lfs_pair_cmp tests.  Entries are found by name where the code      *)
(* keeps ids.  Directories are never split, so lfs_dir_commit drops none.  *)
(* The root is {0, 1} and cannot move.                                     *)
(***************************************************************************)
EXTENDS Integers, FiniteSets, Sequences

CONSTANTS
  Root,       \* the root directory
  Dirs,       \* the other directories
  Files,      \* contents of files
  Names,      \* file names
  None,       \* no pair, no entry, no move
  MaxCalls,   \* how many calls that change the tree are made
  MaxMoves,   \* how many commits may move their pair
  MovesIn,    \* the calls whose commits may
  FailsIn,    \* the calls whose first commit may fail
  LaterFails  \* and so may their other commits

Calls == {"create", "mkdir", "remove", "rename", "replace", "gc", "repair"}

ASSUME TreeAssumption ==
  /\ IsFiniteSet(Dirs) /\ Root \notin Dirs
  /\ None \notin Dirs \cup Files \cup Names \cup {Root}
  /\ \A o \in Files \cup {None} :    \* neither a pair nor a move
       o \notin (Dirs \cup {Root}) \X Nat /\ o \notin ((Dirs \cup {Root}) \X Nat) \X Names
  /\ Files \cap Dirs = {}
  /\ MaxCalls \in Nat /\ MaxMoves \in Nat
  /\ MovesIn \subseteq Calls /\ FailsIn \subseteq Calls /\ LaterFails \in BOOLEAN

VARIABLES
  disk,     \* each pair's content, as a fetch would read it
  gstate,   \* lfs.gstate: the global state as it should be
  gdisk,    \* lfs.gdisk: the global state as it is on disk
  gdelta,   \* lfs.gdelta: deltas of dropped pairs, for the next commit
  op,       \* the running call
  loc,      \* the relocation loop of lfs_dir_orphaningcommit
  walk,     \* the loop of lfs_fs_deorphan
  calls,    \* calls made so far
  moves,    \* commits that moved their pair, so far
  fault     \* the assertion that failed last

vars == <<disk, gstate, gdisk, gdelta, op, loc, walk, calls, moves, fault>>

-----------------------------------------------------------------------------
(***************************************************************************)
(* Types.                                                                  *)
(***************************************************************************)

Pairs == (Dirs \cup {Root}) \X (0 .. MaxMoves)
RootPair == <<Root, 0>>

\* lfs_pair_cmp: the pairs have a block in common.
Same(a, b) == a[1] = b[1]

Objects == Files \cup Pairs \cup {None}

\* A move is the pair and the name of an entry to be deleted.  Deltas are sets of
\* bits: one for the sign of the orphan count, one for each value of the move.
GMoves == Pairs \X Names
OrphanBit == <<None, None>>
Logs == [ents : [Names -> Objects], tail : Pairs \cup {None},
         delta : SUBSET (GMoves \cup {OrphanBit})]
Blank == [ents |-> [n \in Names |-> None], tail |-> None, delta |-> {}]

Gstates == [orphans : 0 .. MaxMoves + 1, move : GMoves \cup {None}]
NoGstate == [orphans |-> 0, move |-> None]

\* LfsMdir: a pair and its content when it was fetched.
Mdirs == [pair : Pairs, log : Logs]
Fetch(a) == [pair |-> a, log |-> disk[a]]

Edges == (Dirs \cup {Root}) \X Names \X (Dirs \cup Files)
NoChange == [del |-> {}, add |-> {}]

Stages == {"idle", "deorphan", "ready", "attach", "moved", "drop", "gc", "end"}
Ops == [call : Calls \cup {None}, stage : Stages,
        req : [del : SUBSET Edges, add : SUBSET Edges],
        cwd : Mdirs \cup {None},    \* the directory of the second commit
        name : Names \cup {None},   \* its entry
        new : Pairs \cup {None},    \* the pair mkdir has made, or gc goes to next
        vic : Mdirs \cup {None}]    \* the removed or replaced directory
NoOp == [call |-> None, stage |-> "idle", req |-> NoChange, cwd |-> None,
         name |-> None, new |-> None, vic |-> None]

Locs == [at : {"parent", "pred", "done"}, lpair : Pairs, ldir : Pairs,
         orphans : BOOLEAN, hasparent : BOOLEAN]
Walks == [pass : {0, 1}, pdir : Mdirs, more : BOOLEAN, powerloss : BOOLEAN]
Faults == {"none", "type", "pred", "drop"}

ASSUME NoneAssumption == None \notin Mdirs /\ None \notin Walks /\ None \notin Locs

TypeOK ==
  /\ disk \in [Pairs -> Logs]
  /\ gstate \in Gstates /\ gdisk \in Gstates
  /\ gdelta \subseteq GMoves \cup {OrphanBit}
  /\ op \in Ops
  /\ loc \in Locs \cup {None}
  /\ walk \in Walks \cup {None}
  /\ calls \in 0 .. MaxCalls /\ moves \in 0 .. MaxMoves
  /\ fault \in Faults

-----------------------------------------------------------------------------
(***************************************************************************)
(* Global state.                                                           *)
(***************************************************************************)

Xor(A, B) == (A \ B) \cup (B \ A)

\* Bug for CallsAreAtomic: the move is left out of the delta.
BugBitsOrphansOnly(g) == IF g.orphans > 0 THEN {OrphanBit} ELSE {}

\* lfs_gstate_xor of a whole gstate, without the bits of the orphan count.
Bits(g) == (IF g.orphans > 0 THEN {OrphanBit} ELSE {})
             \cup (IF g.move # None THEN {g.move} ELSE {})

PrepOrphans(g, k) == [g EXCEPT !.orphans = @ + k]
PrepMove(g, m) == [g EXCEPT !.move = m]
HasMoveHere(g, a) == g.move # None /\ Same(g.move[1], a)

\* Entry n of pair a is the source of move m: lfs_dir_fetchmatch does not see it.
Hidden(m, a, n) == m # None /\ Same(m[1], a) /\ m[2] = n

-----------------------------------------------------------------------------
(***************************************************************************)
(* The list and the tree.                                                  *)
(***************************************************************************)

Tails == [p \in Pairs \cup {None} |-> IF p = None THEN None ELSE disk[p].tail]

\* The pairs along the tails, from the root.  Stepping is cut off where the list
\* would have to have repeated itself.
NthListed == LET at[i \in 1 .. Cardinality(Pairs)] == IF i = 1 THEN RootPair ELSE Tails[at[i - 1]]
             IN  at
Listed == {NthListed[i] : i \in 1 .. Cardinality(Pairs)} \ {None}
Thread ==
  LET len == Cardinality({i \in 1 .. Cardinality(Pairs) : NthListed[i] # None})
  IN  [i \in 1 .. len |-> NthListed[i]]

\* The first pair of a list for which P holds.
First(t, P(_)) ==
  LET I == {i \in DOMAIN t : P(t[i])}
  IN  IF I = {} THEN None ELSE t[CHOOSE i \in I : \A j \in I : i <= j]

Refers(a, n, d) == disk[a].ents[n] \in Pairs /\ Same(disk[a].ents[n], d)

\* Bug for ReturnsDone: the search starts behind the root.
BugParentSkipsRoot(a) ==
  First(Thread, LAMBDA p : p # RootPair /\ \E n \in Names : Refers(p, n, a) /\ ~Hidden(gdisk.move, p, n))

\* lfs_fs_pred and lfs_fs_parent.
Pred(a) == First(Thread, LAMBDA p : disk[p].tail # None /\ Same(disk[p].tail, a))
Parent(a) ==
  First(Thread, LAMBDA p : \E n \in Names : Refers(p, n, a) /\ ~Hidden(gdisk.move, p, n))
EntryOf(p, a) == CHOOSE n \in Names : Refers(p, n, a) /\ ~Hidden(gdisk.move, p, n)

\* The subdirectories of pair a, and the pairs that paths lead to from there, when m
\* is the pending move.
Subdirs(a, m) == {disk[a].ents[n] : n \in {k \in Names : disk[a].ents[k] \in Pairs
                                                          /\ ~Hidden(m, a, k)}}
Below(a, m) ==
  LET r[k \in 0 .. Cardinality(Dirs)] ==
        IF k = 0 THEN {a} ELSE UNION {{p} \cup Subdirs(p, m) : p \in r[k - 1]}
  IN  r[Cardinality(Dirs)]

\* An object by what it is, wherever it is.
Id(o) == IF o \in Pairs THEN o[1] ELSE o

\* The global state on the disk, which lfs_mount_ collects.
DiskBits ==
  LET l == Listed
  IN  {b \in UNION {disk[p].delta : p \in l} : Cardinality({p \in l : b \in disk[p].delta}) % 2 = 1}
DiskMove ==
  LET m == DiskBits \ {OrphanBit} IN IF m = {} THEN None ELSE CHOOSE b \in m : TRUE

\* The names that a mount would show.
Shown ==
  LET m == DiskMove IN
  {<<x[1][1], x[2], Id(disk[x[1]].ents[x[2]])>> :
     x \in {y \in Below(RootPair, m) \X Names :
              disk[y[1]].ents[y[2]] # None /\ ~Hidden(m, y[1], y[2])}}

IsEmptyLog(log) == \A n \in Names : log.ents[n] = None

\* lfs_fs_traverse_ with includeorphans: directories whose blocks are in use.
InUse ==
  LET l == Listed IN
  {a[1] : a \in l}
    \cup {disk[x[1]].ents[x[2]][1] :
            x \in {y \in l \X Names : disk[y[1]].ents[y[2]] \in Pairs}}

-----------------------------------------------------------------------------
(***************************************************************************)
(* Commits.                                                                *)
(***************************************************************************)

Free == loc = None /\ walk = None

\* Bug for CopiesCurrent: lfs_remove_ does not put the directory in the list.
BugTrackedRenameOnly(o) == o.vic # None /\ o.stage = "moved"

\* A handle in lfs.mlist follows the commits to its pair.  The directory that is
\* removed or replaced is there until the call's first commit is complete.
Tracked(o) == o.vic # None /\ (o.call = "remove" \/ o.stage = "moved")
Track(o, m) ==
  IF Tracked(o) /\ Same(o.vic.pair, m.pair) THEN [o EXCEPT !.vic = m] ELSE o

\* The copy that lfs_fs_deorphan passes to a commit is updated by it.
Follow(m, mine) == IF mine THEN [walk EXCEPT !.pdir = m] ELSE walk

NewLoc(lpair, ldir, orphans) ==
  [at |-> "parent", lpair |-> lpair, ldir |-> ldir, orphans |-> orphans, hasparent |-> FALSE]

\* The commit is written where the pair is, with all of the global state.
CommitInPlace(m, log, g, d, o, done, mine) ==
  LET copy == [pair |-> m.pair,
               log |-> [log EXCEPT !.delta = Xor(@, Xor(d, Xor(Bits(g), Bits(gdisk))))]]
  IN  /\ disk' = [disk EXCEPT ![m.pair] = copy.log]
      /\ gstate' = g /\ gdisk' = g /\ gdelta' = {}
      /\ op' = Track(o, copy) /\ walk' = Follow(copy, mine) /\ loc' = done
      /\ fault' = "none"
      /\ UNCHANGED moves

\* The pair moves: the commit takes the collected deltas with it, and leaves the
\* change of the global state to the next commit.
CommitMoved(m, log, g, d, o, orphans, mine) ==
  LET copy == [pair |-> <<m.pair[1], moves + 1>>,
               log |-> [log EXCEPT !.delta = Xor(@, d)]]
  IN  /\ moves < MaxMoves /\ o.call \in MovesIn /\ m.pair[1] # Root
      /\ disk' = [disk EXCEPT ![copy.pair] = copy.log]
      /\ gstate' = g /\ gdelta' = {}
      /\ op' = Track(o, copy) /\ walk' = Follow(copy, mine)
      /\ loc' = NewLoc(m.pair, copy.pair, orphans)
      /\ moves' = moves + 1 /\ fault' = "none"
      /\ UNCHANGED gdisk

\* It fails, and with it the call: what was prepared in RAM stays.
CommitFails(g, d, o) ==
  /\ o.call \in FailsIn /\ (LaterFails \/ op.stage \in {"idle", "ready"})
  /\ gstate' = g /\ gdelta' = d
  /\ op' = NoOp /\ loc' = None /\ walk' = None /\ fault' = "none"
  /\ UNCHANGED <<disk, gdisk, moves>>

\* lfs_dir_relocatingcommit of copy m, whose new content is log, with global state g
\* and collected deltas d, by call o.  done and orphans are for the loop.
Commit(m, log, g, d, o, done, orphans, mine) ==
  \/ CommitInPlace(m, log, g, d, o, done, mine)
  \/ CommitMoved(m, log, g, d, o, orphans, mine)
  \/ CommitFails(g, d, o)

\* The first commit of lfs_dir_commit and lfs_dir_orphaningcommit.
Commits(m, log, g, d, o) == Commit(m, log, g, d, o, None, FALSE, FALSE)

Without(log, n) == [log EXCEPT !.ents[n] = None]

\* A pending move from pair a is completed by whatever commit goes there.
Piggyback(log, g, a) == IF HasMoveHere(g, a) THEN Without(log, g.move[2]) ELSE log
AfterPiggyback(g, a) == IF HasMoveHere(g, a) THEN PrepMove(g, None) ELSE g

Restart(f) ==
  LET g == [orphans |-> IF OrphanBit \in DiskBits THEN 1 ELSE 0, move |-> DiskMove]
  IN  /\ gstate' = g /\ gdisk' = g /\ gdelta' = {}
      /\ op' = NoOp /\ loc' = None /\ walk' = None
      /\ fault' = f
      /\ UNCHANGED <<disk, moves>>

\* Power is lost, or the filesystem is unmounted, and it is mounted again.
PowerLoss == Restart("none")

\* Bug for ListIsTree: the half-orphan that a power loss would leave is not recorded.
BugRelocateParentUnflagged ==
  /\ loc # None /\ loc.at = "parent"
  /\ LET p == Parent(loc.lpair)
         n == EntryOf(p, loc.lpair)
     IN  /\ p # None
         /\ Commit(Fetch(p), [Piggyback(disk[p], gstate, p) EXCEPT !.ents[n] = loc.ldir],
                   AfterPiggyback(gstate, p), gdelta, op,
                   [loc EXCEPT !.at = "pred", !.hasparent = TRUE], TRUE, FALSE)

\* The loop of lfs_dir_orphaningcommit: the pair loc.lpair is now loc.ldir.
RelocateParent ==
  /\ loc # None /\ loc.at = "parent"
  /\ LET p == Parent(loc.lpair)
         g == AfterPiggyback(PrepOrphans(gstate, 1), p)
         n == EntryOf(p, loc.lpair)
     IN  /\ p # None
         /\ Commit(Fetch(p), [Piggyback(disk[p], gstate, p) EXCEPT !.ents[n] = loc.ldir],
                   g, gdelta, op,
                   [loc EXCEPT !.at = "pred", !.hasparent = TRUE], TRUE, FALSE)

NoParent == loc.at = "parent" /\ Parent(loc.lpair) = None

\* Bug for OrphansCounted: what RelocateParent counted is not taken back.
BugRelocatePredKeepsCount ==
  /\ loc # None /\ (loc.at = "pred" \/ NoParent)
  /\ LET q == Pred(loc.lpair)
         log == [Piggyback(disk[q], gstate, q) EXCEPT !.tail = loc.ldir]
     IN  /\ q # None
         /\ Commit(Fetch(q), log, AfterPiggyback(gstate, q), gdelta, op,
                   [loc EXCEPT !.at = "done"], loc.orphans, FALSE)

\* The predecessor's commit is passed no pdir: lfs_dir_relocatingcommit asserts that
\* it does not delete a last entry.
RelocatePred ==
  /\ loc # None /\ (loc.at = "pred" \/ NoParent)
  /\ LET q == Pred(loc.lpair)
         k == IF gstate.orphans > 0 /\ loc.hasparent THEN -1 ELSE 0
         log == [Piggyback(disk[q], gstate, q) EXCEPT !.tail = loc.ldir]
     IN  /\ q # None
         /\ IF HasMoveHere(gstate, q) /\ IsEmptyLog(log)
            THEN Restart("drop")
            ELSE Commit(Fetch(q), log, AfterPiggyback(PrepOrphans(gstate, k), q), gdelta, op,
                        [loc EXCEPT !.at = "done"], loc.orphans, FALSE)

NewWalk(powerloss) ==
  IF gstate.orphans > 0
  THEN [pass |-> 0, pdir |-> Fetch(RootPair), more |-> FALSE, powerloss |-> powerloss]
  ELSE None

\* The loop ends.  A parent that moved may have left half-orphans: lfs_fs_deorphan
\* will make another pass, or lfs_dir_commit calls it.
RelocateEnds ==
  /\ loc # None
  /\ loc.at = "done" \/ ((loc.at = "pred" \/ NoParent) /\ Pred(loc.lpair) = None)
  /\ IF loc.at = "pred"
     THEN Restart("pred")
     ELSE /\ loc' = None
          /\ walk' = IF ~loc.orphans THEN walk
                     ELSE IF walk = None THEN NewWalk(FALSE) ELSE [walk EXCEPT !.more = TRUE]
          /\ fault' = "none"
          /\ UNCHANGED <<disk, gstate, gdisk, gdelta, op, moves>>

-----------------------------------------------------------------------------
(***************************************************************************)
(* Repair: lfs_fs_forceconsistency, which every call that writes does      *)
(* first, and lfs_fs_mkconsistent_.                                        *)
(***************************************************************************)

Idle == op = NoOp /\ Free

\* lfs_fs_demove.
Demove ==
  /\ Idle /\ gdisk.move # None
  /\ LET a == gdisk.move[1]
     IN  Commits(Fetch(a), Without(disk[a], gdisk.move[2]), PrepMove(gstate, None), gdelta,
                 [NoOp EXCEPT !.call = "repair", !.stage = "deorphan"])

Deorphan ==
  /\ Free
  /\ op.stage = "deorphan" \/ (op = NoOp /\ gdisk.move = None /\ gstate.orphans > 0)
  /\ op' = [NoOp EXCEPT !.call = "repair", !.stage = "ready"]
  /\ walk' = NewWalk(TRUE)
  /\ fault' = "none"
  /\ UNCHANGED <<disk, gstate, gdisk, gdelta, loc, moves>>

\* One step of lfs_fs_deorphan: the pair after pdir is a half-orphan, an entry
\* refers to a newer pair; it is an orphan, no entry refers to it; or it is right.
Walking == loc = None /\ walk # None /\ walk.pdir.log.tail # None
AheadOf(w) == w.pdir.log.tail

HalfOrphan ==
  LET t == AheadOf(walk) p == Parent(t)
  IN  walk.pass = 0 /\ p # None /\ disk[p].ents[EntryOf(p, t)] # t

\* Bug for CallsReturn: the tail is written as it is.
BugFixHalfOrphanSamePair ==
  /\ Walking /\ HalfOrphan
  /\ LET m == walk.pdir
     IN  Commit(m, Piggyback(m.log, gstate, m.pair), AfterPiggyback(gstate, m.pair),
                gdelta, op, None, FALSE, TRUE)

FixHalfOrphan ==
  /\ Walking /\ HalfOrphan
  /\ LET t == AheadOf(walk) p == Parent(t) m == walk.pdir
     IN  Commit(m,
                [Piggyback(m.log, gstate, m.pair) EXCEPT !.tail = disk[p].ents[EntryOf(p, t)]],
                AfterPiggyback(gstate, m.pair), gdelta, op, None, FALSE, TRUE)

FullOrphan == walk.pass = 1 /\ walk.powerloss /\ Parent(AheadOf(walk)) = None

FixOrphan ==
  /\ Walking /\ FullOrphan
  /\ LET dir == disk[AheadOf(walk)]
     IN  Commit(walk.pdir, [walk.pdir.log EXCEPT !.tail = dir.tail],
                gstate, Xor(gdelta, dir.delta), op, None, FALSE, TRUE)

WalkOn ==
  /\ Walking /\ ~HalfOrphan /\ ~FullOrphan
  /\ walk' = [walk EXCEPT !.pdir = Fetch(AheadOf(walk))]
  /\ fault' = "none"
  /\ UNCHANGED <<disk, gstate, gdisk, gdelta, op, loc, moves>>

\* Bug for TypeOK: the count is never reset.
BugEndPassKeepsCount ==
  /\ loc = None /\ walk # None /\ walk.pdir.log.tail = None
  /\ walk' = IF walk.pass = 1 /\ ~walk.more THEN None
             ELSE [walk EXCEPT !.pass = IF walk.more THEN 0 ELSE 1, !.more = FALSE,
                               !.pdir = Fetch(RootPair)]
  /\ fault' = "none"
  /\ UNCHANGED <<disk, gstate, gdisk, gdelta, op, loc, moves>>

\* The end of the list.  After the last pass nothing is recorded any more.
EndPass ==
  /\ loc = None /\ walk # None /\ walk.pdir.log.tail = None
  /\ IF walk.pass = 1 /\ ~walk.more
     THEN walk' = None /\ gstate' = [gstate EXCEPT !.orphans = 0]
     ELSE /\ walk' = [walk EXCEPT !.pass = IF walk.more THEN 0 ELSE 1, !.more = FALSE,
                                  !.pdir = Fetch(RootPair)]
          /\ UNCHANGED gstate
  /\ fault' = "none"
  /\ UNCHANGED <<disk, gdisk, gdelta, op, loc, moves>>

Ready == Free /\ (op.stage = "ready"
                    \/ (op = NoOp /\ gdisk.move = None /\ gstate.orphans = 0))

\* lfs_fs_mkconsistent_: what the repair changed is written down.
MkConsistent ==
  /\ Ready /\ gdisk # gstate
  /\ Commits(Fetch(RootPair), disk[RootPair], gstate, gdelta,
             [NoOp EXCEPT !.call = "repair", !.stage = "end"])

-----------------------------------------------------------------------------
(***************************************************************************)
(* The calls.                                                              *)
(***************************************************************************)

\* Directories that paths lead to: lfs_dir_find.
Found == Below(RootPair, gdisk.move)

Call(c, stage, del, add) ==
  [NoOp EXCEPT !.call = c, !.stage = stage, !.req = [del |-> del, add |-> add]]
Edge(a, n, o) == <<a[1], n, Id(o)>>
EdgesAt(a, n) ==
  IF disk[a].ents[n] = None THEN {} ELSE {Edge(a, n, disk[a].ents[n])}

\* lfs_file_open_ of a file that does not exist.
Create(a, n, f) ==
  /\ Ready /\ disk[a].ents[n] = None
  /\ Commits(Fetch(a), [disk[a] EXCEPT !.ents[n] = f], gstate, gdelta,
             Call("create", "end", {}, {Edge(a, n, f)}))

\* lfs_mkdir_, first commit: the new pair, which nothing refers to yet.  It holds the
\* tail of its future predecessor, and the pending change of the global state unless
\* it is moved at once.
Mkdir(a, n, d) ==
  /\ Ready /\ disk[a].ents[n] = None /\ d \in Dirs \ InUse
  /\ \/ \E relocated \in BOOLEAN :
          LET change == IF relocated THEN {} ELSE Xor(Bits(gstate), Bits(gdisk))
              log == [Blank EXCEPT !.tail = disk[a].tail, !.delta = Xor(gdelta, change)]
          IN  /\ relocated => moves < MaxMoves /\ "mkdir" \in MovesIn
              /\ moves' = IF relocated THEN moves + 1 ELSE moves
              /\ disk' = [p \in Pairs |-> IF p = <<d, 0>> THEN log
                                          ELSE IF p[1] = d THEN Blank ELSE disk[p]]
              /\ gdisk' = IF relocated THEN gdisk ELSE gstate
              /\ gdelta' = {}
              /\ op' = [Call("mkdir", "attach", {}, {<<a[1], n, d>>})
                          EXCEPT !.cwd = Fetch(a), !.name = n, !.new = <<d, 0>>]
              /\ fault' = "none"
              /\ UNCHANGED <<gstate, loc, walk>>
     \/ CommitFails(gstate, gdelta, Call("mkdir", "attach", {}, {}))

\* Bug for ParentHasPred: the parent gets the entry, but not the tail.
BugMkdirAttachNoTail ==
  /\ Free /\ op.stage = "attach"
  /\ Commits(op.cwd, [op.cwd.log EXCEPT !.ents[op.name] = op.new],
             gstate, gdelta, [op EXCEPT !.stage = "end", !.cwd = None])

\* Second commit: the entry and the tail of the parent, in one.
MkdirAttach ==
  /\ Free /\ op.stage = "attach"
  /\ Commits(op.cwd, [op.cwd.log EXCEPT !.ents[op.name] = op.new, !.tail = op.new],
             gstate, gdelta, [op EXCEPT !.stage = "end", !.cwd = None])

\* lfs_remove_, first commit.
Remove(a, n) ==
  /\ Ready /\ disk[a].ents[n] # None
  /\ LET e == disk[a].ents[n]
         o == Call("remove", "drop", {Edge(a, n, e)}, {})
     IN  IF e \in Pairs
         THEN /\ IsEmptyLog(disk[e])
              /\ Commits(Fetch(a), Without(disk[a], n), PrepOrphans(gstate, 1), gdelta,
                         [o EXCEPT !.vic = Fetch(e)])
         ELSE Commits(Fetch(a), Without(disk[a], n), gstate, gdelta, o)

\* lfs_rename_, first commit: the new entry, over the old one if there is one of the
\* same kind, and the old entry as a pending move.  (In one directory: deleted.)
\* A directory is not moved below itself, which the code does not check.
Rename(a, n, b, m) ==
  /\ Ready /\ <<a, n>> # <<b, m>> /\ disk[a].ents[n] # None
  /\ LET e == disk[a].ents[n]
         prev == disk[b].ents[m]
         replace == prev \in Pairs
         samepair == Same(a, b)
         g0 == IF replace THEN PrepOrphans(gstate, 1) ELSE gstate
         g == IF samepair THEN g0 ELSE PrepMove(g0, <<a, n>>)
         o == Call(IF replace THEN "replace" ELSE "rename", "moved",
                   {Edge(a, n, e)} \cup EdgesAt(b, m), {Edge(b, m, e)})
         new == [disk[b] EXCEPT !.ents[m] = e]
     IN  /\ e \in Pairs => b \notin Below(e, gdisk.move)
         /\ prev # None => (prev \in Pairs <=> e \in Pairs)
         /\ replace => IsEmptyLog(disk[prev])
         /\ Commits(Fetch(b), IF samepair THEN Without(new, n) ELSE new, g, gdelta,
                    [o EXCEPT !.cwd = IF samepair THEN None ELSE Fetch(a), !.name = n,
                              !.vic = IF replace THEN Fetch(prev) ELSE None])

\* Second commit: the old entry is deleted, unless a commit to its pair has done so.
RenameDelete ==
  /\ Free /\ op.stage = "moved" /\ op.cwd # None /\ gstate.move # None
  /\ Commits(op.cwd, Without(op.cwd.log, op.name), PrepMove(gstate, None), gdelta,
             [op EXCEPT !.stage = "drop", !.cwd = None])

RenameDeleted ==
  /\ Free /\ op.stage = "moved" /\ (op.cwd = None \/ gstate.move = None)
  /\ op' = [op EXCEPT !.stage = "drop", !.cwd = None]
  /\ fault' = "none"
  /\ UNCHANGED <<disk, gstate, gdisk, gdelta, loc, walk, moves>>

\* Bug for GdiskIsDisk: the dropped pair's delta is lost.
BugDropLosesDelta ==
  /\ Free /\ op.stage = "drop"
  /\ LET q == Pred(op.vic.pair)
         o == [op EXCEPT !.stage = "end", !.vic = None]
     IN  IF gstate.orphans = 0
         THEN /\ op' = o /\ fault' = "none"
              /\ UNCHANGED <<disk, gstate, gdisk, gdelta, loc, walk, moves>>
         ELSE /\ op.vic # None /\ q # None
              /\ Commits(Fetch(q), [disk[q] EXCEPT !.tail = op.vic.log.tail],
                         PrepOrphans(gstate, -1), gdelta, o)

\* The end of lfs_remove_ and lfs_rename_: the directory that has no entry any more
\* is taken out of the list (lfs_dir_drop), and its delta kept.
Drop ==
  /\ Free /\ op.stage = "drop"
  /\ LET q == Pred(op.vic.pair)
         g == PrepOrphans(gstate, -1)
         o == [op EXCEPT !.stage = "end", !.vic = None]
     IN  CASE gstate.orphans = 0 ->
                /\ op' = o /\ fault' = "none"
                /\ UNCHANGED <<disk, gstate, gdisk, gdelta, loc, walk, moves>>
           [] gstate.orphans > 0 /\ op.vic = None -> Restart("type")
           [] gstate.orphans > 0 /\ op.vic # None /\ q = None ->
                /\ op' = NoOp /\ gstate' = g /\ fault' = "none"
                /\ UNCHANGED <<disk, gdisk, gdelta, loc, walk, moves>>
           [] OTHER ->
                Commits(Fetch(q), [disk[q] EXCEPT !.tail = op.vic.log.tail], g,
                        Xor(gdelta, op.vic.log.delta), o)

BeginGc ==
  /\ op' = [Call("gc", "gc", {}, {}) EXCEPT !.new = RootPair]
  /\ fault' = "none"
  /\ UNCHANGED <<disk, gstate, gdisk, gdelta, loc, walk, moves>>

\* lfs_fs_gc_, one turn of its loop: a pair whose log is long is compacted by an
\* empty commit, which may move it.  The copy that says where to go next is gc's own.
Gc ==
  /\ Free /\ op.stage = "gc"
  /\ LET m == Fetch(op.new)
         o == [op EXCEPT !.new = m.log.tail, !.stage = IF m.log.tail = None THEN "end" ELSE "gc"]
     IN  \/ /\ op' = o /\ fault' = "none"
            /\ UNCHANGED <<disk, gstate, gdisk, gdelta, loc, walk, moves>>
         \/ Commits(m, m.log, gstate, gdelta, o)

Return ==
  /\ Free /\ op.stage \in {"ready", "end"}
  /\ op' = NoOp /\ fault' = "none"
  /\ UNCHANGED <<disk, gstate, gdisk, gdelta, loc, walk, moves>>

-----------------------------------------------------------------------------
\* As lfs_format_ leaves it.
Init ==
  /\ disk = [p \in Pairs |-> Blank]
  /\ gstate = NoGstate /\ gdisk = NoGstate /\ gdelta = {}
  /\ op = NoOp /\ loc = None /\ walk = None
  /\ calls = 0 /\ moves = 0
  /\ fault = "none"

Begin ==
  \/ (Demove \/ Deorphan \/ MkConsistent) /\ UNCHANGED calls
  \/ /\ Ready /\ calls < MaxCalls /\ calls' = calls + 1
     /\ \E a \in Found, n \in Names :
          \/ \E f \in Files : Create(a, n, f)
          \/ \E d \in Dirs : Mkdir(a, n, d)
          \/ Remove(a, n)
          \/ \E b \in Found, m \in Names : Rename(a, n, b, m)
  \/ /\ Ready /\ calls < MaxCalls /\ calls' = calls + 1
     /\ BeginGc

\* A step of the running call.
Step ==
  \/ RelocateParent \/ RelocatePred \/ RelocateEnds
  \/ FixHalfOrphan \/ FixOrphan \/ WalkOn \/ EndPass
  \/ (op.stage = "deorphan" /\ Deorphan)
  \/ MkdirAttach \/ RenameDelete \/ RenameDeleted \/ Drop \/ Gc
  \/ Return

Next ==
  \/ Begin
  \/ (Step \/ PowerLoss) /\ UNCHANGED calls

\* A call runs until it returns or power is lost.
Spec == Init /\ [][Next]_vars /\ WF_vars(Step /\ UNCHANGED calls)

-----------------------------------------------------------------------------
(***************************************************************************)
(* Properties.                                                             *)
(***************************************************************************)

\* Every call changes the names that a mount would show in one step, whatever
\* commit power is lost after, and repairs do not change them.
Atomic == INSTANCE AtomicTree WITH tree <- Shown, req <- op.req
CallsAreAtomic == Atomic!Spec

\* A call that returns Ok has made its change.
ReturnsDone ==
  Free /\ op.stage = "end" => op.req.del \cap Shown \subseteq op.req.add /\ op.req.add \subseteq Shown

\* Unless the disk says that there may be orphans, and always when a call has
\* repaired them, the list is free of cycles and threads the directories of the
\* tree, each under the pair that its entry has.
ListIsTree ==
  OrphanBit \notin DiskBits \/ (Free /\ op.stage = "ready") =>
    /\ Listed = Below(RootPair, DiskMove)
    /\ Len(Thread) = Cardinality(Listed)

\* Between calls, lfs.gdisk is what the deltas on the disk add up to: the next
\* commit writes the difference from it.
GdiskIsDisk == Idle => Bits(gdisk) = DiskBits

\* A commit starts from the directory as it is, though commits to other pairs,
\* which may have changed it, have come since it was fetched.
Current(m) == m = None \/ m.log = disk[m.pair]
CopiesCurrent ==
  /\ loc = None /\ walk # None => Current(walk.pdir)
  /\ Free /\ op.stage \in {"attach", "moved"} /\ (op.stage = "moved" => gstate.move # None)
       => Current(op.cwd)
  /\ Free /\ op.stage = "drop" => Current(op.vic)

\* The assertion of lfs_remove_ and lfs_rename_ after their first commit: there are
\* orphans only if a directory was removed.
OrphansCounted == fault # "type"

\* The assertion of lfs_dir_orphaningcommit: a pair that moved and has a parent has a
\* predecessor in the list.
ParentHasPred == fault # "pred"

\* These two assertions hold in every call of the code: the orphans that are counted
\* are those of the call, and the list goes through what the tree refers to.
AssertsHold == OrphansCounted /\ ParentHasPred

\* The assertion of lfs_dir_relocatingcommit: who deletes a last entry passes pdir.
DropHasPdir == fault # "drop"

\* Every call returns: the loops over the list that they change end.
CallsReturn == ~Idle ~> Idle
=============================================================================
