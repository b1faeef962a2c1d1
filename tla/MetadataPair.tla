---------------------------- MODULE MetadataPair ----------------------------
(***************************************************************************)
(* One metadata pair of littlefs-rust-core: dir/commit.rs and dir/fetch.rs *)
(* between lfs_dir_commit and the block device.                            *)
(*                                                                         *)
(* A pair is two blocks, each a log of commits behind a revision count.    *)
(* lfs_dir_relocatingcommit appends to the active block while its end is   *)
(* erased; otherwise, or when the commit does not fit or the device        *)
(* reports Corrupt, lfs_dir_compact writes a fresh log with the next       *)
(* revision into the other block, or into a newly allocated one when that  *)
(* block is bad or worn.  A pair that moved is a different pair to its     *)
(* parent directory, which is updated last.                                *)
(*                                                                         *)
(* The device is programmed one program unit at a time.  A commit is some  *)
(* units, the last of which holds its CRC: the commit is readable when all *)
(* of them are.  Power can be lost at every step, and a block that was     *)
(* written since the last sync can then turn out not to have been.         *)
(***************************************************************************)
EXTENDS Integers, FiniteSets

CONSTANTS
  Blocks,        \* blocks this pair can use: its own and the free ones
  Values,        \* contents of the directory
  NoValue,       \* the content of a block without a valid commit
  Units,         \* program units in a block
  RevMod,        \* revision counts, 2^32
  ErasedRevs,    \* what the revision field of an erased block may read as
  Tired,         \* revisions r with (r + 1) % ((block_cycles + 1) | 1) = 0
  OutOfOrder,    \* unsynced writes to different blocks may be reordered
  Setups         \* what the pair and the calls may be, see SetupType

SetupType ==
  [append : 1 .. Units,     \* units of a commit that is appended
   compact : 1 .. Units,    \* units of a compacted log
   bad : Nat,               \* how many of the blocks may be bad
   super : BOOLEAN,         \* the pair is {0, 1}: it cannot move
   parentFails : BOOLEAN,   \* the commit that updates the parent may fail
   handleOps : BOOLEAN]     \* files of the directory are open: some calls use
                            \* their lfs_mdir

ASSUME MdirAssumption ==
  /\ IsFiniteSet(Blocks)
  /\ Values # {} /\ NoValue \notin Values
  /\ Units \in Nat \ {0}
  /\ RevMod \in Nat \ {0, 1, 2, 3}
  /\ ErasedRevs \subseteq 0 .. RevMod - 1 /\ ErasedRevs # {}
  /\ Tired \subseteq 0 .. RevMod - 1
  /\ OutOfOrder \in BOOLEAN
  /\ Setups \subseteq SetupType

VARIABLES
  disk,     \* the blocks as the program reads them
  synced,   \* the blocks as of the last lfs_bd_sync
  health,   \* "good", "flaky": may report Corrupt, "frozen": ignores writes
  setup,    \* the member of Setups this behaviour is about
  ref,      \* the pair as the parent directory has it on disk
  handle,   \* lfs_mdir of an open file or directory of this pair (the mlist)
  dir,      \* lfs_mdir of the commit in progress (ldir), handle if none
  pc,       \* where the commit in progress is
  op,       \* registers of the commit in progress
  out       \* how the last call ended

vars == <<disk, synced, health, setup, ref, handle, dir, pc, op, out>>

Revs == 0 .. RevMod - 1
Pairs == {p \in Blocks \X Blocks : p[1] # p[2]}

\* rev: the revision field; off: units of the valid log, 0 if there is none;
\* val: the content at its last commit; dirty: units programmed since the erase.
BlockImages ==
  [rev : Revs, off : 0 .. Units, val : Values \cup {NoValue}, dirty : SUBSET (1 .. Units)]

Mdirs == [pair : Pairs, rev : Revs, off : 1 .. Units, erased : BOOLEAN]

NoOp == [want |-> NoValue, done |-> 0, intact |-> TRUE, relocated |-> FALSE, tried |-> {}]

Ops == [want : Values \cup {NoValue},   \* content being committed
        done : 0 .. Units,              \* units of this log or commit programmed
        intact : BOOLEAN,               \* each of them on an erased unit, and landed
        relocated : BOOLEAN,            \* lfs_dir_compact's relocated
        tried : SUBSET Blocks]          \* blocks lfs_alloc has offered

Steps == {"idle", "append", "appended", "compact", "erase", "copy", "copied",
          "relocate", "parent", "down"}

TypeOK ==
  /\ setup \in Setups
  /\ disk \in [Blocks -> BlockImages]
  /\ synced \in [Blocks -> BlockImages]
  /\ health \in [Blocks -> {"good", "flaky", "frozen"}]
  /\ ref \in Pairs
  /\ handle \in Mdirs
  /\ dir \in Mdirs
  /\ pc \in Steps
  /\ op \in Ops
  /\ out \in {"none", "ok", "err"}

-----------------------------------------------------------------------------
(***************************************************************************)
(* lfs_dir_fetch.                                                          *)
(***************************************************************************)

\* Variants named Bug... are plausible faults.  No specification uses them: each
\* one, put in place of the definition after it, must break a property.
BugNextRevUnbounded(r) == r + 1

NextRev(r) == IF r = RevMod - 1 THEN 0 ELSE r + 1

BugNewerUnsigned(a, b) == a > b

\* lfs_scmp(a, b) > 0: sequence numbers compare by their signed difference.
Newer(a, b) == LET d == IF a >= b THEN a - b ELSE a - b + RevMod
               IN  d > 0 /\ 2 * d < RevMod

\* The block with the more recent revision, or the other one if it holds no
\* valid commit; 0 if neither does.
FetchIndex(image, p) ==
  LET r == IF Newer(image[p[2]].rev, image[p[1]].rev) THEN 2 ELSE 1
  IN  CASE image[p[r]].off > 0     -> r
        [] image[p[r]].off = 0 /\ image[p[3 - r]].off > 0 -> 3 - r
        [] OTHER                   -> 0

Readable(image, p) == FetchIndex(image, p) # 0
Content(image, p) == IF Readable(image, p) THEN image[p[FetchIndex(image, p)]].val ELSE NoValue

BugFcrcUnchecked(b) == b.off < Units

\* The forward CRC in the last commit covers one program unit: the next one.
FcrcMatches(b) == b.off < Units /\ b.off + 1 \notin b.dirty

Fetch(image, p) ==
  LET r == FetchIndex(image, p)
      b == image[p[r]]
  IN  [pair |-> <<p[r], p[3 - r]>>, rev |-> b.rev, off |-> b.off, erased |-> FcrcMatches(b)]

-----------------------------------------------------------------------------
(***************************************************************************)
(* Erase and program.  A flaky block does what it is told, or reports      *)
(* Corrupt and does nothing; a frozen one reports success and does         *)
(* nothing.                                                                *)
(***************************************************************************)

\* An erase clears the block, or leaves the data for a program to replace
\* (a device without an erase value); the log is gone with its first unit.
ErasedImages(b) ==
  {[rev |-> r, off |-> 0, val |-> NoValue, dirty |-> {}] : r \in ErasedRevs}
    \cup {[b EXCEPT !.dirty = {}]}

\* Unit u of block b after it is programmed; commits is whether this completes
\* a commit whose units are all readable.
Programmed(b, u, commits) ==
  [b EXCEPT !.dirty = @ \cup {u},
            !.rev = IF u = 1 THEN dir.rev ELSE @,
            !.off = IF commits THEN u ELSE IF u = 1 THEN 0 ELSE @,
            !.val = IF commits THEN op.want ELSE IF u = 1 THEN NoValue ELSE @]

\* One step of a commit: unit u of block b, the last one or not, is programmed,
\* or lost, and the commit goes on at done.
ProgramUnit(b, u, last) ==
  LET intact == op.intact /\ u \notin disk[b].dirty /\ health[b] # "frozen"
  IN  /\ disk' = IF health[b] = "frozen" THEN disk
                 ELSE [disk EXCEPT ![b] = Programmed(@, u, last /\ intact)]
      /\ op' = [op EXCEPT !.done = @ + 1, !.intact = intact]

ReportsCorrupt(b) == health[b] = "flaky"

-----------------------------------------------------------------------------
(***************************************************************************)
(* A commit.                                                               *)
(***************************************************************************)

\* The copies in the mlist are forgotten.
BugReturnStale(result, mdir) ==
  /\ pc' = "idle"
  /\ handle' = handle
  /\ dir' = mdir
  /\ op' = NoOp
  /\ out' = result

\* The end of lfs_dir_orphaningcommit: on success the caller's lfs_mdir and the
\* other copies in the mlist are updated, on failure they stay as they were.
Return(result, mdir) ==
  /\ pc' = "idle"
  /\ handle' = mdir
  /\ dir' = mdir
  /\ op' = NoOp
  /\ out' = result

\* A call that found the directory by its path has fetched the pair; a call on
\* an open file uses the copy in the file.
Begin(v) ==
  /\ pc = "idle"
  /\ \/ dir' = Fetch(disk, ref)
     \/ setup.handleOps /\ dir' = handle
  /\ op' = [NoOp EXCEPT !.want = v]
  /\ pc' = IF dir'.erased THEN "append" ELSE "compact"
  /\ out' = "none"
  /\ UNCHANGED <<disk, synced, health, setup, ref, handle>>

\* lfs_dir_commitattr and lfs_dir_commitcrc on the active block.
AppendUnit ==
  /\ pc = "append"
  /\ dir.off + op.done < Units
  /\ LET last == op.done + 1 = setup.append
     IN  /\ ProgramUnit(dir.pair[1], dir.off + op.done + 1, last)
         /\ pc' = IF last THEN "appended" ELSE "append"
  /\ UNCHANGED <<synced, health, setup, ref, handle, dir, out>>

\* NoSpace from lfs_dir_commitattr or Corrupt from the device: compact instead.
AppendStops ==
  /\ pc = "append"
  /\ dir.off + op.done = Units \/ ReportsCorrupt(dir.pair[1])
  /\ pc' = "compact"
  /\ UNCHANGED <<disk, synced, health, setup, ref, handle, dir, op, out>>

\* The commit is not read back.
BugAppendUnverified ==
  /\ pc = "appended"
  /\ synced' = disk
  /\ Return("ok", [dir EXCEPT !.off = @ + setup.append])
  /\ UNCHANGED <<disk, health, setup, ref>>

\* lfs_dir_commitcrc syncs, reads the commit back and checks its CRC.
AppendVerified ==
  /\ pc = "appended"
  /\ op.intact
  /\ synced' = disk
  /\ Return("ok", [dir EXCEPT !.off = @ + setup.append])
  /\ UNCHANGED <<disk, health, setup, ref>>

AppendMismatch ==
  /\ pc = "appended"
  /\ ~op.intact
  /\ synced' = disk
  /\ pc' = "compact"
  /\ UNCHANGED <<disk, health, setup, ref, handle, dir, op, out>>

\* Every search is its own checkpoint.
BugFreeAgain == Blocks \ {ref[1], ref[2]}

\* lfs_alloc: a block the traversal of the tree does not report, and this commit
\* has not been offered yet (the checkpoint lets it pass each block once).
Free == Blocks \ ({ref[1], ref[2]} \cup op.tried)

\* The start of lfs_dir_compact: the next revision, and a new block in place of
\* a worn one if there is any.
Compact ==
  /\ pc = "compact"
  /\ LET next == [dir EXCEPT !.rev = NextRev(@)]
         move == dir.rev \in Tired /\ ~setup.super
     IN  IF move /\ Free # {}
         THEN \E b \in Free :
                /\ dir' = [next EXCEPT !.pair = <<@[1], b>>]
                /\ op' = [op EXCEPT !.relocated = TRUE, !.tried = @ \cup {b}]
         ELSE /\ dir' = next
              /\ op' = [op EXCEPT !.relocated = move]
  /\ pc' = "erase"
  /\ UNCHANGED <<disk, synced, health, setup, ref, handle, out>>

\* lfs_bd_erase of the block that is not active.
Erase ==
  LET b == dir.pair[2]
  IN  /\ pc = "erase"
      /\ \/ /\ health[b] # "frozen"
            /\ \E image \in ErasedImages(disk[b]) : disk' = [disk EXCEPT ![b] = image]
         \/ /\ health[b] = "frozen"
            /\ UNCHANGED disk
      /\ op' = [op EXCEPT !.done = 0, !.intact = TRUE]
      /\ pc' = "copy"
      /\ UNCHANGED <<synced, health, setup, ref, handle, dir, out>>

\* The revision, the attributes that survive, the tail and the CRC.
CopyUnit ==
  /\ pc = "copy"
  /\ LET last == op.done + 1 = setup.compact
     IN  /\ ProgramUnit(dir.pair[2], op.done + 1, last)
         /\ pc' = IF last THEN "copied" ELSE "copy"
  /\ UNCHANGED <<synced, health, setup, ref, handle, dir, out>>

WriteStops ==
  /\ pc \in {"erase", "copy"}
  /\ ReportsCorrupt(dir.pair[2])
  /\ pc' = "relocate"
  /\ UNCHANGED <<disk, synced, health, setup, ref, handle, dir, op, out>>

BugSwappedKeepsOff == [dir EXCEPT !.pair = <<dir.pair[2], dir.pair[1]>>]

Swapped == [dir EXCEPT !.pair = <<dir.pair[2], dir.pair[1]>>, !.off = setup.compact]

CopyVerified ==
  /\ pc = "copied"
  /\ op.intact
  /\ synced' = disk
  /\ IF op.relocated
     THEN /\ pc' = "parent"
          /\ dir' = Swapped
          /\ handle' = Swapped
          /\ UNCHANGED <<op, out>>
     ELSE Return("ok", Swapped)
  /\ UNCHANGED <<disk, health, setup, ref>>

CopyMismatch ==
  /\ pc = "copied"
  /\ ~op.intact
  /\ synced' = disk
  /\ pc' = "relocate"
  /\ UNCHANGED <<disk, health, setup, ref, handle, dir, op, out>>

\* The new block is taken and "relocated" is not set.
BugRelocateUnnoticed ==
  /\ pc = "relocate"
  /\ ~setup.super
  /\ \E b \in Free :
       /\ dir' = [dir EXCEPT !.pair = <<@[1], b>>]
       /\ op' = [op EXCEPT !.tried = @ \cup {b}]
  /\ pc' = "erase"
  /\ UNCHANGED <<disk, synced, health, setup, ref, handle, out>>

\* lfs_dir_compact's relocate: a superblock cannot move, any other pair takes a
\* new block, and the call fails with NoSpace if there is none.
Relocate ==
  /\ pc = "relocate"
  /\ ~setup.super
  /\ \E b \in Free :
       /\ dir' = [dir EXCEPT !.pair = <<@[1], b>>]
       /\ op' = [op EXCEPT !.relocated = TRUE, !.tried = @ \cup {b}]
  /\ pc' = "erase"
  /\ UNCHANGED <<disk, synced, health, setup, ref, handle, out>>

RelocateFails ==
  /\ pc = "relocate"
  /\ setup.super \/ Free = {}
  /\ Return("err", handle)
  /\ UNCHANGED <<disk, synced, health, setup, ref>>

\* lfs_dir_orphaningcommit: the parent's commit, which is atomic itself, makes
\* the tree refer to the moved pair.
UpdateParent ==
  /\ pc = "parent"
  /\ ref' = dir.pair
  /\ Return("ok", dir)
  /\ UNCHANGED <<disk, synced, health, setup>>

UpdateParentFails ==
  /\ setup.parentFails
  /\ pc = "parent"
  /\ Return("err", dir)
  /\ UNCHANGED <<disk, synced, health, setup, ref>>

-----------------------------------------------------------------------------
(***************************************************************************)
(* Power loss and mount.                                                   *)
(***************************************************************************)

\* The unit that was being programmed may be torn: it is neither erased nor what
\* it should be.  Torn in the first unit, a log and its revision are gone.
Writing == IF pc = "append" THEN dir.pair[1] ELSE dir.pair[2]
Torn(b) ==
  IF health[b] = "frozen" THEN {}
  ELSE CASE pc = "append" /\ dir.off + op.done < Units ->
              {[disk[b] EXCEPT !.dirty = @ \cup {dir.off + op.done + 1}]}
         [] pc = "copy" /\ op.done > 0 ->
              {[disk[b] EXCEPT !.dirty = @ \cup {op.done + 1}]}
         [] pc = "copy" /\ op.done = 0 ->
              {[rev |-> r, off |-> 0, val |-> NoValue, dirty |-> {1}] : r \in ErasedRevs}
         [] OTHER -> {}

\* A block that was written since the last sync may turn out not to have been.
PowerLoss ==
  /\ pc # "down"
  /\ \E lost \in SUBSET {b \in Blocks : OutOfOrder /\ disk[b] # synced[b]},
        image \in Torn(Writing) \cup {disk[Writing]} :
       disk' = [b \in Blocks |-> IF b \in lost THEN synced[b]
                                 ELSE IF b = Writing THEN image ELSE disk[b]]
  /\ synced' = disk'
  /\ pc' = "down"
  /\ dir' = handle
  /\ op' = NoOp
  /\ out' = "none"
  /\ UNCHANGED <<health, setup, ref, handle>>

Mount ==
  /\ pc = "down"
  /\ Readable(disk, ref)
  /\ handle' = Fetch(disk, ref)
  /\ dir' = Fetch(disk, ref)
  /\ pc' = "idle"
  /\ UNCHANGED <<disk, synced, health, setup, ref, op, out>>

-----------------------------------------------------------------------------
\* A mounted pair: the active block holds a valid log, the other one an older
\* log, or nothing a mount would read (a new block, or a compaction that was
\* interrupted, perhaps behind a newer revision).
Init ==
  /\ setup \in Setups
  /\ ref \in Pairs
  /\ \E bad \in {s \in SUBSET (IF setup.super THEN {ref[1], ref[2]} ELSE Blocks) :
                  Cardinality(s) <= setup.bad} :
       health \in {h \in [Blocks -> {"good", "flaky", "frozen"}] :
                     \A b \in Blocks : h[b] # "good" <=> b \in bad}
  /\ \E v, w \in Values, r, s \in Revs, units \in setup.compact .. Units, valid \in BOOLEAN :
       /\ valid => Newer(r, s)
       /\ disk = [b \in Blocks |->
            IF b = ref[1]
            THEN [rev |-> r, off |-> units, val |-> v, dirty |-> 1 .. units]
            ELSE IF b = ref[2] /\ valid
            THEN [rev |-> s, off |-> setup.compact, val |-> w, dirty |-> 1 .. Units]
            ELSE [rev |-> s, off |-> 0, val |-> NoValue, dirty |-> 1 .. Units]]
  /\ synced = disk
  /\ handle = Fetch(disk, ref)
  /\ dir = handle
  /\ pc = "idle"
  /\ op = NoOp
  /\ out = "none"

CommitStep ==
  \/ AppendUnit \/ AppendStops \/ AppendVerified \/ AppendMismatch
  \/ Compact \/ Erase \/ CopyUnit \/ WriteStops \/ CopyVerified \/ CopyMismatch
  \/ Relocate \/ RelocateFails
  \/ UpdateParent \/ UpdateParentFails

Next ==
  \/ \E v \in Values : Begin(v)
  \/ CommitStep
  \/ PowerLoss
  \/ Mount

\* lfs_dir_commit is a function call: it runs until it returns or power is lost.
Fairness == WF_vars(CommitStep)

Spec == Init /\ [][Next]_vars /\ Fairness

-----------------------------------------------------------------------------
(***************************************************************************)
(* Properties.                                                             *)
(***************************************************************************)

\* A commit is atomic and durable: what a mount would find in the pair the
\* parent refers to changes as AtomicMdir allows.
Atomic == INSTANCE AtomicMdir WITH
  val <- Content(synced, ref),
  req <- op.want,
  out <- out
CommitIsAtomic == Atomic!Spec

\* The device's contract, "The block must have been erased before writing": no
\* unit is programmed twice between two erases that the device carried out.
\* Only of calls through paths: an lfs_mdir that a failed commit leaves behind
\* in an open file still says "erased" (lfs_dir_orphaningcommit).
ProgOnlyErased ==
  [][op'.done > op.done /\ ~setup.handleOps =>
       LET b == IF pc = "append" THEN dir.pair[1] ELSE dir.pair[2]
           u == IF pc = "append" THEN dir.off + op'.done ELSE op'.done
       IN  health[b] # "frozen" => u \notin disk[b].dirty]_vars

\* Between calls, the lfs_mdir an open file keeps is the log on the disk: a call
\* that fails, or one that fetched its own copy, has not left it behind.  Unless
\* the parent's commit fails: the handles have moved by then.
HandleCurrent ==
  pc = "idle" /\ ~setup.parentFails => LET f == Fetch(disk, ref)
                 IN  handle.pair = f.pair /\ handle.rev = f.rev /\ handle.off = f.off

\* What is left of a commit: blocks it may still be offered, then the steps of
\* the attempt on this block, then units.
Left ==
  LET order == <<"parent", "relocate", "copied", "copy", "erase", "compact", "appended", "append">>
      stage == CHOOSE i \in 1 .. 8 : order[i] = pc
  IN  (9 * Cardinality(Free) + stage) * (Units + 1) + (Units - op.done)

\* lfs_dir_commit returns, whatever the device reports: the loop of
\* lfs_dir_compact goes back to an erase only with a new block, a block is
\* offered once, and so every step of a commit ends it or leaves less to do.
CommitEnds ==
  [][{pc, pc'} \cap {"idle", "down"} = {} => Left' < Left]_vars
=============================================================================
