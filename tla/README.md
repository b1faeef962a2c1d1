# littlefs-rust: a TLA+ development

`littlefs-rust-core` is a function-by-function translation of the littlefs v2 C
library: a filesystem for microcontrollers that promises to survive a power loss
at any point, bad blocks and worn-out blocks, with bounded RAM and no free list
on disk.  Paths below are relative to `littlefs-rust-core/src/` unless they start
with a crate's name.

This directory holds the models of it, the TLC runs that check them on small
instances, and the TLAPS proofs.

| Module | What it is |
| --- | --- |
| `BlockAlloc` | the block allocator: lookahead window, checkpoints, scans |
| `BlockAllocProofs` | its inductive invariant and safety properties, proved |
| `MetadataPair` | a pair of logs: fetch, append, compact, relocate, power loss |
| `MetadataPairProofs` | its inductive invariant, atomicity and the end of a commit, proved |
| `AtomicMdir` | what a commit to a metadata pair promises (abstract) |
| `FsTree` | mkdir, remove, rename, relocation, global state and its repair |
| `FsTreeProofs` | its inductive invariant and safety properties, proved |
| `FsTreeRefinement` | that it implements `AtomicTree`, proved |
| `AtomicTree` | what a call promises about the names in the tree (abstract) |
| `Paths` | how a path is followed, and which calls accept it |
| `BdCache` | the read and program caches of the block device |
| `BdCacheProofs` | its inductive invariant, safety properties, and that it implements `PlainDevice`, proved |
| `PlainDevice` | a device without caches (abstract) |
| `Ctz` | the skip list of a file's blocks: its arithmetic, and walking it |
| `CtzProofs` | what the two walks find on a list, whatever its length, proved |
| `FileOps` | an open file: read, write, flush, sync, seek, truncate |
| `FileOpsProofs` | its types, the assertion of `lfs_bd_prog`, that the saved file stays readable and a handle is where its position is, proved |
| `PlainFile` | a sequence of bytes and a position (abstract) |
| `DirHandles` | a directory of several pairs under open handles |
| `PlainDir` | a set of names and readers that go through it (abstract) |
| `TagLog` | lookups in a log, and its compaction |
| `PlainEntries` | named entries with contents and attributes (abstract) |
| `Superblocks` | format, mount, the chain of superblocks, upgrade, grow |
| `SuperblocksProofs` | that `lfs` agrees with the disk, its type, and that it implements `PlainSuper`, proved |
| `PlainSuper` | a single superblock (abstract) |
| `MC...` | the instances of these modules for TLC |

Definitions named `Bug...` are plausible faults.  No specification uses them; each,
put in place of the definition it is named after, makes one property fail
(`PROJECT.json`, "mutants"), which shows that the property depends on that code.

A constant `Deviations` lists, by name, behaviours of the code that break the
abstract specification.  With `Deviations = {}` a model leaves out the step, or the
circumstance, in which the code deviates, and the run passes; with one name in it
TLC finds the counterexample that the section on the module describes.  Where the
code contradicts a text of the repository, a run keeps that instance
("violation", and `PROJECT.json` "findings").

## 1. Inventory of the system

**Block device cache** (`bd/bd.rs`).  State: a read cache and a program cache, each
a block, an offset and bytes.  Operations: read, prog, erase, sync, flush, cmp, crc.
Everything above goes through it.  Correct when a read returns what was last
programmed, whatever is cached, and when what is synced is on the device.

**Block allocator** (`block_alloc/alloc.rs`, `fs/lfs_lookahead.rs`).  State:
`lookahead.{start, size, next, ckpoint, buffer}`.  Operations: `lfs_alloc`,
`lfs_alloc_scan`, `lfs_alloc_lookahead`, `lfs_alloc_ckpoint`, `lfs_alloc_drop`.  It
calls `lfs_fs_traverse_` to find what is in use and is called by every operation
that needs a block.  Correct when no block is handed out twice, NoSpace is true,
and the search ends.

**Metadata pair log** (`dir/commit.rs`, `dir/fetch.rs`).  State: on disk, two
blocks, each a revision count and a log of commits with CRCs; in RAM, an
`LfsMdir {pair, rev, off, etag, count, erased, split, tail}` per user.
Operations: fetch, commit (append, compact, split, relocate, drop).  Calls the
cache, the allocator and, after a relocation, itself on the parent and on the
predecessor in the threaded list.  Correct when a commit is atomic and durable
under power loss, reordered writes and bad blocks, and when it ends.

**Tags and traversal** (`dir/traverse.rs`, `tag.rs`).  No state of its own: a
filter over the log that computes the attributes that survive a compaction, and
lookups of single attributes.  Correct when compaction preserves what a lookup finds.

**Path lookup** (`dir/find.rs`) and **directory iteration** (`dir/open.rs`).  The
iterator's state is a pair, an id and a position, adjusted by commits through the
list of open handles.

**Open handles** (`dir/lfs_mlist.rs`).  `lfs.mlist`: every open file and directory,
each with its own copy of its directory's `LfsMdir`, updated by commits.

**Threaded directory tree and global state** (`fs/mkdir.rs`, `fs/remove.rs`,
`fs/rename.rs`, `fs/superblock.rs`, `fs/parent.rs`, `fs/consistent.rs`,
`lfs_gstate.rs`).  State on disk: directory entries that refer to pairs, a list
of tails that threads all pairs, and global state distributed as XOR deltas over
the pairs: an orphan count and one pending move.  State in RAM: `gstate`,
`gdisk`, `gdelta`.  Operations: mkdir, remove, rename, and the repairs deorphan,
demove, desuperblock.  Correct when tree and list agree after repair, and a rename
is seen entirely or not at all.

**Mount, format, superblock, grow, gc** (`fs/mount.rs`, `fs/format.rs`,
`fs/grow.rs`, `fs/consistent.rs`).

**CTZ skip list** (`file/ctz.rs`) and **file operations** (`file/ops.rs`).  File
data is a reversed skip list of blocks, extended copy-on-write; a file is inline,
being written, or being read.  Correct when a file holds what was written, the
old content stays until sync, and a failed write does not lose it.

**Attributes, stat** (`fs/attr.rs`, `fs/stat.rs`), **traversal** (`fs/traverse.rs`),
**utilities** (`util.rs`, `crc.rs`).

**Safe wrapper** (`littlefs-rust/`): `RefCell`-guarded handles over the core.
**Test infrastructure** (`littlefs-rust-compat`, `littlefs-rust-test-macro`, benches).

What makes it hard: nothing runs concurrently, but power can be lost between any
two programs and writes may be reordered until a sync; several handles hold copies
of the same directory; operations consist of several commits, each of which may
move blocks, fail, or trigger further commits; and blocks go bad at any time.  The
list of hazards, each at its line, is in `PROJECT.json`.

## 2. Plan

The layers stand on each other, and each takes the one below at its abstract word:

| Layer | Modules | What the next layer takes from it |
| --- | --- | --- |
| device | `BdCache` | a read finds what was programmed (`PlainDevice`) |
| blocks | `BlockAlloc` | no block is handed out twice (`AllocReturnsFree`) |
| pair | `MetadataPair`, `TagLog` | a commit is atomic (`AtomicMdir`) and contains the tags it should (`PlainEntries`) |
| directory | `DirHandles`, `FsTree`, `Superblocks`, `Paths` | names, handles, the place of the root |
| file | `Ctz`, `FileOps` | bytes |

`FileOps` takes from `BdCache` that a read finds what was programmed, from
`BlockAlloc` that no block is offered twice between two checkpoints, and from
`MetadataPair` that a commit is atomic.  `FsTree`, `DirHandles`, `TagLog` and
`Superblocks` take the last of these too, each for one side of the directory
tree: which names there are and where, who is looking at them, how they are
logged, and where the root is.

Done: all of them checked by TLC; the allocator, the metadata pair and the block device
cache proved, with the refinements of the last two; in `Superblocks` that `lfs` agrees with
the disk and that it implements `PlainSuper`; in `FsTree`, while no pair moves, that
list, entries and global state agree and that it implements `AtomicTree`; and in `FileOps` that
the saved bytes stay and that a handle is where its position is.  Left, in this
order:

1. Proofs: that `FileOps` implements `PlainFile`; `DirHandles` and `TagLog`, once their
   recursive operators are functions.
2. A tree of directories that are split (`FsTree` over `DirHandles`), which would
   show the orphan handling together with half-written splits.

## 3. BlockAlloc

State.  `count`, `start`, `size`, `next`, `ckpoint` are the fields of the same
name; `marked` is the set of offsets whose bit is set in `lookahead.buffer`.
`used` stands for what `lfs_fs_traverse_` reports; `inflight` for blocks handed out
and not yet reachable; `freed` is history, the blocks given back since a scan last
looked at them.

Actions.  `lfs_alloc` is a loop: `AllocCall`, then `AllocSkip` (a block in use),
`AllocScan` or `AllocScanFails` (end of the window), and a return, `AllocTake` or
`AllocNoSpace`.  `AllocTake` includes the eager loop to the next free offset.  The
callers are `Ckpoint`, `Link` (a commit makes a block reachable), `Abandon`,
`Unlink`, `MarkBad` (`lfs_alloc_lookahead` on a bad block, which the operation
then drops), `Gc` and `Remount`.  `Ckpoint` requires that nothing is in flight, the
condition under which the callers call `lfs_alloc_ckpoint`; the model does not check
the callers.  `SpecGrow` adds `Grow`.

Run `block_alloc`: 5 blocks, a window of 3.  A window of 3 does not divide 5, so it
wraps around the end and is cut short by the checkpoint.  All subsets of used blocks
are initial states.  Fairness: WF of the steps of a running call, which is a
function call in one thread.

Run `alloc_grow` (violation): `lfs_fs_grow_` sets `block_count` (`fs/grow.rs:102`)
and leaves the window.  With 4 blocks, window start 3, block 0 in use: bit 1 is set,
for block (3+1) % 4 = 0.  After growing to 5, bit 1 means block 4 and bit 2, which is
clear, means block 0: `lfs_alloc` hands out block 0.

Proved in `BlockAllocProofs`, for every `BlockCount`, `Lookahead` and any order of
calls (`Spec`, that is without grow):

- `TypeCorrect`, `CkpointNeverWraps`, `NeverHandedOutTwice`, `NoSpaceIsTrue`.

The argument.  The safety of `lfs_alloc` is not visible in the window alone: a rescan
in the middle of an operation clears the bits of the blocks the operation holds.  What
protects them is that the cursor has passed them, and the checkpoint only lets it
travel once around the device.  `IInv` therefore has, besides the types and
`size - next <= ckpoint`:
`WindowSound` (offsets ahead of the cursor are correctly marked), `InflightBehind`
(a block in flight is at a distance of at least `ckpoint` from the cursor) and
`PassedAccounted` (so is every block that has not been looked at accounted for).
Arithmetic modulo the device size is in a few lemmas about `ModAdd` and `ModSub`; the
case `AdvanceIInv` covers both `AllocSkip` and `AllocTake`.  The assumptions are those
in `AllocAssumption`.  That the search ends (`AllocReturns`) is liveness and is only
model-checked.

## 4. MetadataPair

State.  `setup` says what the pair and its callers are and never changes.  A block is
`[rev, off, val, dirty]`: its revision field, the length of its
valid log in program units, the content at the last valid commit, and the units
programmed since the erase.  `disk` is what the program reads, `synced` what a sync has
made durable.  `ref` is the pair as the parent has it on disk, `handle` the `LfsMdir`
of an open file, `dir` the `ldir` of the commit in progress, `op` its registers.

Actions.  One per step of `lfs_dir_orphaningcommit` and what it calls that touches the
device: `Begin`; `AppendUnit`, `AppendStops` (does not fit, or Corrupt),
`AppendVerified` / `AppendMismatch` (`lfs_dir_commitcrc` reads the commit back);
`Compact` (next revision, a new block if worn), `Erase`, `CopyUnit`, `WriteStops`,
`CopyVerified` / `CopyMismatch`, `Relocate` / `RelocateFails`; `UpdateParent` /
`UpdateParentFails`; `PowerLoss`, which may tear the unit being programmed and undo
unsynced writes block by block, and `Mount`.

Abstractions.  The CRC detects every torn or missing unit.  The parent's commit is one
step, atomic by the same argument one level up.  The device: a good block does what it is
told; a flaky one may report Corrupt and then has done nothing; a frozen one reports
success and does nothing (the emulated device's `ProgNoop`).  Errors of reads and of
sync are not modelled.  An erase clears the block or keeps its bytes (a device without
an erase value).  The allocator offers each block once per commit (what `BlockAlloc`
shows of a checkpoint), and never a block of the referenced pair.  Not modelled here:
splitting, dropping, global-state deltas.

`AtomicMdir` says what a caller may rely on; `CommitIsAtomic` is the refinement, with
the content that a mount would find now for `val`.

Run `pair` begins in any of the three circumstances of `MCSetups` and keeps to it:

| `setup` | Instance |
| --- | --- |
| a movable pair under an open file | appends of 2 units, compactions of 1, one bad block, calls through the path and through the handle |
| the same through paths only | the parent's commit may fail |
| the pair {0, 1} | appends of 1, compactions of 2, two bad blocks; it cannot move |

It shows that commits are atomic and durable (`CommitIsAtomic`), that a handle
agrees with the log between calls (`HandleCurrent`), that no unit is programmed twice
between two erases (`ProgOnlyErased`), and that a commit ends (`CommitEnds`): the
number `Left` decreases with every step of a commit, so the loop of
`lfs_dir_compact`, which goes back to an erase with a new block after each failure, ends
because a block is offered once.  No fairness is needed for that beyond the function
running at all, and the property is an action property, which symmetry does not disturb.

Bounds.  Three blocks: the pair and one to move to; a second move in one call fails with
NoSpace, which is also a case.  Three units: a log can hold one append or a torn one, or
be full.  Revisions modulo 4: they wrap, and are always distinguishable by sign (two
logs of a pair are one apart).  Two contents.  `Tired = {2}`: every fourth revision
moves the pair.  Blocks and contents are interchangeable (only compared for equality).

Two circumstances are excluded, since the code does not survive them:

- A setup with handles and `parentFails`: `HandleCurrent` fails.  The relocated pair is
  moved in the open handles before the parent's commit (`dir/commit.rs:2259`) that then
  fails; they write to a pair that nothing refers to.
- `ProgOnlyErased` is not asked of calls through handles: a failed commit returns before
  the handle's `LfsMdir` is refreshed (`dir/commit.rs:2152`), so that its `erased` flag and
  offset describe the log before the partial append, and the next append programs the
  same units again.

Proved in `MetadataPairProofs`, for any number of blocks, units, contents and revisions,
any sizes of a commit and any blocks that fail, except the first of these circumstances
(`HandlesSurvive`): `PairTypeCorrect`, `HandlesAreCurrent`, `CommitsAreAtomic` (the refinement
of `AtomicMdir`), `ProgramsOnlyErased` and `CommitsEnd`.

The argument.  At every step one block of the pair, a, holds the content that a mount would
find, and the other, o, does not disturb it: `Chosen` says of a pair and an image that
`lfs_dir_fetch` reads a.  `IInv` says this twice: of the image as of the last sync (`Stored`),
which is what a power loss may go back to, and of the image with what was written since
(`Written`), up to the last unit of the commit, which makes the new content visible.
`Appending` and `Copying` say which units of which block the commit in progress has
programmed, so that a torn or an undone one only ever shortens a log that was not valid yet.
`Moved` holds from the last sync of a relocated pair until its parent refers to
it, and `Kept` is about the handles.  The comparison of revisions, which wrap, enters by two
facts only: the next revision is newer, and of two revisions not both are.

## 5. FsTree

State.  `disk` has, for each pair, what a fetch reads: the entries, the tail and the
global-state delta.  A pair is `<<directory, generation>>`: moving a pair begins a
generation, and two pairs of one directory count as sharing a block, as `lfs_pair_cmp`
sees them.  `gstate`, `gdisk` and `gdelta` are the fields of the same name; a delta is a
set of bits, one for the sign of the orphan count and one for each value of the move, and
XOR is the symmetric difference.  `op` holds the locals of the running call (its
`LfsMdir` copies with the content they had when fetched), `loc` those of the relocation
loop in `lfs_dir_orphaningcommit`, `walk` those of `lfs_fs_deorphan`.

Actions.  One per commit, with the code from the previous commit to this one.  Each
commit succeeds in place, or moves its pair, or fails (`CommitInPlace`, `CommitMoved`,
`CommitFails`: what `lfs_dir_relocatingcommit` does to the pair, to `gdisk` and to
`gdelta`, and `fixmlist` to the handles).

| Action | Code |
| --- | --- |
| `Create` | `lfs_file_opencfg_` of a new file |
| `Mkdir`, `MkdirAttach` | the commit to the new pair, then entry and tail in the parent |
| `Remove`, `Drop` | the entry, then `lfs_fs_pred` and `lfs_dir_drop` |
| `Rename`, `RenameDelete` or `RenameDeleted`, `Drop` | the new entry with the pending move, the old entry unless another commit has deleted it, the replaced directory |
| `RelocateParent`, `RelocatePred`, `RelocateEnds` | one round of the relocation loop |
| `Demove`, `Deorphan` | `lfs_fs_forceconsistency`, before every call that writes |
| `FixHalfOrphan`, `FixOrphan`, `WalkOn`, `EndPass` | the loop of `lfs_fs_deorphan` |
| `MkConsistent` | the commit of `lfs_fs_mkconsistent_` |
| `BeginGc`, `Gc` | the loop of `lfs_fs_gc_` that compacts long logs, a pair at a time |
| `PowerLoss` | power loss or unmount at any point, and `lfs_mount_` |

Calls that the code refuses without a change (no such path, not empty, exists) are not
steps.  An assertion that fails ends the program (`Restart`) and is recorded in `fault`.

Abstractions.  Entries are found by name where the code keeps ids, and an entry is a file
or a pair.  A directory is one pair, never split.  The root is {0, 1} and does not move.
File contents are not here.  lfs_rename_ does not check that a directory is moved below
itself, and the model leaves those renames out.

`AtomicTree` is the promise: the tree is a set of edges from a directory to a name and an
object, and each call replaces some of them in one step, at most once, before it returns
or power is lost.  `CallsAreAtomic` is the refinement: `Shown`, the names that a mount
would show from what is on disk now, stands for the tree.  Repairs, relocations and
power losses must be stutters.

Run `tree_ops`: two directories, one file, two names, four calls, and one commit that
moves its pair; a power loss after any commit, and any number of repairs.  Two directories
give nesting, a parent that is itself moved, and every order in the list; four calls reach
a rename that replaces a directory, and one more call after a failure or a power loss.  It
checks the refinement, that a call that returns Ok is visible, that list and tree agree
unless an orphan flag is on disk, that `gdisk` is what the deltas add up to, that copies in
RAM are current when a commit starts from them, two assertions of the code (`AssertsHold`: the
one on the orphan count, `OrphansCounted`, at `fs/remove.rs:166` and `fs/rename.rs:355`, and the one
that a moved pair with a parent has a predecessor, `ParentHasPred`, at `dir/commit.rs:2281`),
and that every call returns.  Fairness is WF of the steps of a running call, a function
call in one thread.
No symmetry, since one property is liveness.

`MovesIn` and `FailsIn` say which calls' commits may move their pair or fail.  What
`tree_ops` leaves out is what the code does not survive:

- `"replace"` in `MovesIn` (a rename over a directory): `CopiesCurrent` fails.  The replaced
  directory is no longer tracked during the second commit, and is dropped with a stale tail
  (`fs/rename.rs:340`).
- `"rename"` in `FailsIn`: `CallsAreAtomic` fails.  The prepared move stays in `lfs.gstate`
  (`fs/rename.rs:341`), a later commit writes it, and the source of a rename that returned
  an error is deleted.
- `"rename"` moves are in `tree_ops`, but a third assertion of the code is not in its
  `AssertsHold`: that a deleted last entry comes with a `pdir` (`DropHasPdir`, `dir/commit.rs:1745`).  A pending move completed by
  the predecessor's commit (`dir/commit.rs:2323`, which passes none) may empty that directory.
- `"mkdir"` moves: `ListIsTree` fails.  With a change of the global state pending in RAM,
  `lfs_mkdir_` writes the change into the new pair; if the attaching commit moves
  the parent and power is lost after the grandparent's commit, the flag that records the
  half-orphan cancels against the one still on disk.
- `LaterFails`: `ListIsTree` fails.  When the predecessor's commit fails, the orphan count
  has already gone back (`dir/commit.rs:2286`), and the half-orphan stays unrecorded.
- `MaxMoves = 2`: `ListIsTree` fails, in two ways.  `lfs_fs_parent` searches a list that
  still goes through the old pair of a moved directory and may find an entry there
  (`dir/commit.rs:2220`).  And when the parent of a moved pair moves too, the
  `lfs_fs_deorphan` that follows resets the count that `lfs_remove_` added, and the removed
  directory stays in the list for good (`fs/superblock.rs:442`; three directories).
  `CallsReturn` fails as well, with `MovesIn = {"gc"}`.  A directory stands before its
  parent in the list, and gc moves it and then, for the new entry, the parent.  The parent's
  predecessor in the list is the old pair, which gets the new tail; the new pair keeps the
  old one.  `lfs_fs_deorphan` then finds the new entry as long as the list goes through the
  old pair and the old entry as soon as it goes through the new one, and writes the tail
  to and fro for ever (`fs/superblock.rs:369`).  Two pairs of a directory that are two moves
  apart need not share a block, which `Same` does not tell.

Proved in `FsTreeProofs`, for any number of directories, files, names and calls, and for any
moves and failures, those excluded above among them: `TreeTypeCorrect` and `OrphansAreCounted`
(`OrphansCounted`, the first part of `AssertsHold`).  The invariant is `Typed` and `Counted`, and it knows
nothing of the list and the tree except that they consist of pairs, since that is all that is left
where pairs move.  Its centre is `Balanced`: in the first commit of a call that drops no
directory, the count is 1 between the update of a moved pair's parent and that of its
predecessor, and 0 otherwise, unless the repair that resets it is due before the commit
returns.  What the relocation loop adds it takes back in the next turn, or it passes
`orphans` on; so a call that finds something counted after its commit has counted it itself.
A count is bounded by the pairs that have moved and the call's own one.

The other two assertions have no theorem.  `DropHasPdir` may fail, as said.  `ParentHasPred`
follows from a list that threads the tree, which the cases above break where two pairs
move; `tree_ops` checks it for one.

Proved under the hypothesis `PairsStay`: `DeltasAddUp` and `CopiesAreCurrent`.  No commit moves its
pair (`block_cycles` is -1 and no block goes bad), and a commit that fails is the first of create,
mkdir, remove or gc.  A failing rename, repair or later commit leaves its change in `lfs_t`,
which is excluded above, and a relocation changes the list in three commits, two of them
in the middle of another call; what happens to these two properties then is only model-checked.

The argument, where pairs stay.  `Threaded` says that the tails go from the root through distinct pairs; `Listed`,
which is a bounded recursion in the model, is then the range of a sequence, and mkdir
and drop insert an element into it or take one out (`InsertedInList`, `RemovedFromList`).  `Entered` says that every
entry refers to a pair in the list and that a directory has one entry that is not waiting
to be deleted: two while a rename is under way, one of them in `gdisk.move`.
`Summed` adds the deltas up, where the pair that mkdir has written and not yet
attached counts too, since the change it holds is already in `gdisk`.  `Calling` and `Repairing`
say what is current of that which a call holds between its commits, `Victim` that
a directory to be dropped is no longer referred to.  That a repair drops only what is not
referred to, and that a drop hands on the delta and the tail of the pair, keeps the four parts
together.

Proved in `FsTreeRefinement`, under the same hypothesis: `TreeIsAtomic`, that `FsTree` implements
`AtomicTree`, `CallsDoTheirWork` (`ReturnsDone`) and `ListFollowsTree` (`ListIsTree`).  What a
mount shows is defined by following entries from the root, a bounded recursion.  The proof
does without its turns: `LiveFacts` says that the pairs so reached (`Live`) are the least set
that has the root and every directory that a visible entry of the set refers to, so that a
set with these two properties bounds `Live` from above.  A commit is then judged by the set
it must not leave.  The invariant `AInv` adds four parts to `IInv`.  `Asked` says that until
its commit a call finds the place of its new entry empty, and `Answered` that after it what
was asked is shown; a repair, a drop and a power loss change neither because they touch
neither a visible entry nor `gdisk.move` (except to complete the move, which shows the same).
`Rooted` says that a directory in the list to which no path leads is empty, and that there
is one only while the orphan count in RAM and the flag on disk say so.  `Walked` is the
reason why `lfs_fs_deorphan` may reset that count: behind the second pass the list has only
directories of the tree.  `Rooted` excludes cycles too: directories that only refer to
each other would be in the list, not empty, and without a path.  It holds since the model
leaves out the renames of a directory below itself.  The constants are assumed to keep
`Files` and `Dirs` apart, as the types of the entries do in the code.

None of these is among the runs; `PROJECT.json` "hazards" lists them with their lines.  Except
for the port's own slips named in the findings, the C code quoted above the functions does
the same.

### Paths

`FsTree` begins where the directory and the name are known.  `Paths` is the way there:
`lfs_dir_find` and the helpers of `util.rs`, and what `lfs_mkdir_`, `lfs_file_opencfg_`
with CREATE and `lfs_rename_` make of the answer before they change anything.  A path is a
sequence of words and slashes, and the code's slices of it are positions.

The code never looks `..` up.  Before each name it looks ahead for the `..` that takes the
name back (`TakenBack`, with the code's `depth`) and, if there is one, goes on behind it;
`nextname` has the turns of the loop.  `FindIsUsual` compares the answer with the usual
reading, which first brings the path to its shortest form with a stack and then follows
it: the same error or object, the same directory, and the caller's path left at the name
that the caller is to use.  `CreatedIsFound` says that a call which accepts a path for a
new entry creates what the next lookup of this path finds; this is where
`lfs_path_islast` and `lfs_path_isdir` matter, since `x/` may name a new directory and no
new file, and `x/.` neither.

Both are assumptions, which TLC evaluates at the start of `tree_ops`: 36 trees of two directories,
two names (one more name is longer than `name_max`, and a third directory is the one to be
created), and all paths of up to 7 tokens, which is enough for a name inside a name taken
back (`x/y/../..`).  The definitions are recursive functions over data, and nothing is
proved about them.

## 6. BdCache

State.  `rcache` and `pcache` are `LfsCache` records: a block, an offset, a size and
bytes; there are two program caches, that of an open file ("file") and `lfs.pcache`
("meta").  `disk` is the device.  `ses` is the callers' side of a block that is being
programmed: where it began, how far it has come, and whether its flushes are validated.
`firm` says how many bytes of a block the callers rely on.  `pc`, `reg` and `rd` are
the call in progress.

Actions.  One per turn of a loop: `ReadProgCache`, `ReadReadCache`, `ReadDevice` and
`FillReadCache` are the four branches of `lfs_bd_read`; `ProgCopy`, `ProgMap` and
`ProgDone` those of `lfs_bd_prog`; `FlushValidated` and `Flush` are `lfs_bd_flush`, with
`NextChunk`, `Mismatch` and `Validated` for the comparison by `lfs_bd_cmp`, which reads
through the same caches.  The callers are `EraseCall`, `AppendCall`, `ProgCall`, `FlushCall`,
`SyncCall`, `CheckCall` (the read-back of `lfs_dir_commitcrc`), `ReadAhead`, `Keep` and
`HandOver` (`lfs_file_relocate` takes over `lfs.pcache`), and `Drop` after an error.  Callers stay
within the block, so the range check at the head of `lfs_bd_read` never refuses, and the
device's own sync does not fail.

The callers do what `file/ops.rs`, `file/ctz.rs` and `dir/commit.rs` do: they program
upwards, a commit ends before anything else is programmed, and a block that is programmed
without validation is not the last one they read.  The last is a condition the code
meets by its order of calls, not by a test: `lfs_bd_erase` does not touch the read cache,
and a compaction reads the other block of the pair first.  A failed append without a
sync leaves the same exposure, which `Drop` closes by no longer relying on the block.

`PlainDevice` is a device without caches, on which what is programmed is there at once.
Run `bd_cache`: two blocks of four bytes, caches of two, programs of one and three
bytes (less and more than a cache), reads that hit, straddle and bypass the caches, and
one block that reports Corrupt or ignores writes.  It checks that every byte a read
delivers is current and that its loop gets on, that a program finds its cache empty or
continued (the assertion in `bd/bd.rs:604`), and the refinement.

Proved in `BdCacheProofs`, for any number of blocks, any sizes of a block, a cache, a read and
a program unit that divide as the code requires, any bad blocks and any sequence of calls:
`CachesTypeCorrect`, `ReadsSeeTheDevice` and `ProgramsFindRoom`, and, step by step,
`CachesImplementDevice`.  `BdAssumption` asks one thing of the callers besides
the order of calls: none reads with a hint of 0, and none does (with such a hint and an
aligned offset `lfs_bd_read` would fill a cache of size 0 and not get on).

The argument.  A program cache holds the last bytes that were programmed, in whole program
units (`Window`), and what a session has programmed before them is on the device.  Most
of `IInv` is about the read cache: `Fresh` says that a byte in it is the one on
the device unless it is `Stale`, that is, where no caller reads it before it is replaced:
the rest of a block that nobody relies on, a block that was erased and of which nothing has been
flushed, and the part of a commit that is not synced yet.  `Reading` carries what has been
compared so far by `lfs_bd_cmp`.  In the refinement a program is `Program` at the moment it is
copied into the cache, a flush is a stutter if it lands and `Lose` if the block ignores it, and
the end of a validated flush closes the session or changes nothing.

## 7. Ctz and FileOps

`Ctz` has the index arithmetic as operators: `lfs_ctz_index` by its closed formula with
`lfs_popc`, `lfs_ctz_find` by its jumps and `lfs_ctz_traverse` by its turns of two.  The
index is checked against a count of the bytes block by block, an assumption
of the module that TLC evaluates.

State of `FileOps`.  `file` is `LfsFile`: flags, position, block and offset, head and
size; `cells` the contents of the blocks, a pointer or a byte per cell; `entry` the struct
tag in the directory; `cache` and `pcache` what the file's cache and `lfs.pcache` hold
that is not on the device; `taken` what the allocator will not offer before the next
checkpoint; `pc`, `stack` and `reg` the running function, its callers and its locals.

Actions.  `Open`, `Write`, `Read`, `Seek`, `Truncate`, `Sync` (and close) begin a call; the
others are one turn of a loop of `lfs_file_flushedwrite`, `lfs_file_flushedread`,
`lfs_file_flush`, `lfs_file_relocate`, `lfs_ctz_extend`, `lfs_file_outline`, `lfs_file_seek_`,
`lfs_file_truncate_` and `lfs_file_sync_`, each with its error exits: a bad block, a failing
read, no block left, a failing commit.  `Crash` is power loss at any point.  A read may fail in
`lfs_ctz_find` (`ReadFails`) or after it, when the handle has its new block and offset
already (`ReadDataFails`); a handle that still carries a failed write, which only
`lfs_file_truncate_` reads through, is left as it was in both.  `Begin` makes the allocator's
checkpoint for all calls, where the code makes it for a block to be written and for an outline
(`file/ops.rs:646`, `1180`, `1228`); when the flush of a sync, seek or read has to
relocate a block, the code may therefore report NoSpace where the model still finds a block.

Run `files`: four blocks of six cells, a cache of three, inline files up to two bytes,
files up to twelve; writes of one and seven, reads of six, seeks and truncates to 1, 8 and
12; two edits and one failure.  Seven is more than a block, 12 takes three blocks, so a
list is extended, copied from its middle, cut, and read across a pointer.  It checks that
the bytes saved last can be read back at any point (`SavedIsIntact`), that block and
offset belong to the position (`PlaceIsCurrent`), that every call returns (`CallsReturn`, WF of the
steps of a call, one thread) and the refinement to `PlainFile`.

Run `file_open_fails` (violation): an open with LFS_O_TRUNC that fails on an attribute
closes the handle without LFS_F_ERRED, and the close empties the file.

Excluded, since the code does not survive it:

- `ScanMidway = TRUE` with two blocks, the second bad: `IsPlainFile` fails.  When the lookahead
  window ends in the middle of a write, the traversal of the open file starts from a block
  and a position that do not belong together (`fs/traverse.rs:225`), and a block in use may be
  offered.
- `SpecUnclean` (`RelocateReadFails` and `ExtendReadFails`) with `WriteSizes = {1, 6}`, `Targets = {12}`,
  `MaxEdits = 3`: `ProgFindsRoom` fails.  A read error in the middle of a copy leaves programs in
  `lfs.pcache` or the file's cache, and the next program asserts (`bd/bd.rs:604`).

Proved in `CtzProofs`, for lists of any length: `lfs_ctz_find` arrives at the block and
offset of any position (`FindOnList`), and `lfs_ctz_traverse` reports all the blocks of the
list and no others (`TraverseOnList`), where a list (`OnList`) is a sequence of blocks, each
with pointers to the blocks 1, 2, 4, ... before it as far as its number is divisible.
`TraverseSkewed` is about a list that is walked as if it were one block shorter, see below.

Proved in `FileOpsProofs`, for any sizes of a block, a cache and a file, any bad blocks and
failures and any calls: `TypesHold`, and `RoomHolds`, the assertion of `lfs_bd_prog`.  The
invariant is `Control`: what may be on the stack below each resume point (`StackOK`), which
blocks the caches and the handle may name (`CacheOK`, `BlockOK`), what the flags of
the handle say about its offset and size (`FlagsOK`, `PutOK`, `ReadOK`,
`InlineOK`), and what each call may count on (`OpOK`).  It does not mention the lists.

Also proved in `FileOpsProofs`: `SavedStaysIntact` and `PlaceStaysCurrent`.  The invariant `Listed`
says that there are three lists (they share their first blocks): the one the entry names, the one
the handle names, and the one that ends in the block that is written.  Each is a list in the
sense above, and the allocator will offer no block of it that has pointers while a call runs
(`Kept`; of the entry's list no block at all), so that no program changes it.  A written list
grows from the handle's, and both are what a scan sees: `lfs_alloc_scan` traverses the entries
on disk and the open files.
Both hold whatever `ScanMidway` is: a scan in the middle of a write may offer blocks of the
open file, never one that the entry leads to.

After an error a flush may leave the handle with a head that is one block further than its
size says (`Skewed`).  The scan then takes each block for the one before it, and by
`TraverseSkewed` reads a pointer where there is none, unless the list has at most three
blocks, of which it misses the first, a block without pointers.  The model lets such a read
end in `NotABlock`, since `lfs_bd_read` refuses a block that does not exist; the scan fails
and nothing is offered (`Safe`).  This is an assumption on the data: bytes of the file that
happen to be the number of a block would let the scan go on and miss blocks of this handle's
unsaved list.  What is proved of a handle after such an error rests on it; the entry's own
list is traversed from the disk and does not.

The proofs corrected the model in three places that the runs had not shown: where the
growing truncate begins, what a call may forget when the scan finds no end of a list, and
`TypeOK`, which had said too much of a handle after an error.

Free blocks are taken blank, and only one handle of the file is open.  Some of what the model shows
is allowed by `PlainFile`, since no text of the repository promises otherwise: a flush that fails half way leaves
the position at the end, a truncate whose seek fails has truncated, and a write after an
error clears LFS_F_ERRED, so that the next sync saves what is there.

## 8. DirHandles

State.  `disk` has for each pair its entries, its tail and whether the tail continues the
directory; `hs` are the handles of `lfs.mlist`, each with a copy of an `LfsMdir`, an id,
a head and a position; `top` is where lookups begin.  A call is one step; inside it a
record of these (a world) is passed from one commit to the next, so that a step has every
split, drop, expansion and move that the call may cause: `SplitAt` and `SplitOnce`
(`lfs_dir_splittingcompact`), `Split`, `Expand`, `Compact`, `FixMlist` (the end of
`lfs_dir_relocatingcommit`), `Drops`, `Relocated`.

Actions.  `Mkdir`, `CreateFile`, `RemoveFile`, `RenameInPair`, `RenameAcross`, `Setattr` and `Sync`
commit; `OpenFile`, `OpenDir`, `Close`, `Rewind`, `ReadDot`, `Read` and `Seek` are calls on handles.

`PlainDir` gives each reader the set of names ahead of it: those there from the
rewind on are returned once, in order; one that comes or goes meanwhile may be missed.

Run `dir_handles`: the root (with its superblock entry) or a subdirectory, three names,
one reader and one file, pairs of two units that are split to one, four calls that
commit, one of which may move its pair.  Three names in pairs of two make splits and drops
happen, and a directory of three pairs is reached.  It checks that the list stays sorted and without doubles, that the
copies in handles are current, that a position is what it says, and the refinement.

Run `dir_drop_moves` (violation, `Deviations = {"drop"}`): the predecessor of a dropped pair
moves while it takes over the tail, and what refers to it is never updated.

Other deviations:

- `"alias"`: `IsPlainDir` fails.  A removed file's handle is cut off from its pair by a
  null pair, but if its id was one past the end of a pair that continues,
  `dir/commit.rs:1901` follows the tail and the handle stands for another file.
- `"tell"`: `TellIsPlace` fails.  A commit that creates or deletes an entry before a reader's
  position shifts the id and not the position.
- `"head"`: `TellIsPlace` fails.  When {0, 1} is expanded while the root is open, the reader's
  head is the old root; a seek through it counts the superblock's entry wrongly.

One more is visible in `SplitOnce`: the variable `split` is set outside the loop
(`dir/commit.rs:1436`), so a head that is still too long after one split is not split again and
the commit ends with NoSpace while blocks are free.  No entry is lost by it.

## 9. TagLog

State.  `disk.log[p]` is the log of pair p, a sequence of tags with type, id and data;
`disk.move` the pending move of `lfs.gdisk`.  `view` is auxiliary: the entries as lookups
find them, kept so that TLC evaluates them once per state.

Operators.  `Fetch` reads a log forwards and counts ids (`lfs_dir_fetchmatch`), with a
search for a name (`lfs_dir_find_match`); `Back` goes backwards and
renumbers (`lfs_dir_getslice`); `Entries` is `lfs_dir_traverse` with
`lfs_dir_traverse_filter`, which keeps the tags that nothing later replaces.

Actions.  Create, remove, sync (with and without attributes), setattr and removeattr,
rename within a pair and between pairs, a power loss between the two commits of a
rename, and its repair.  Each commit appends, compacts, or splits its pair.

Run `tag_log`: names that are prefixes of each other (a prefix sorts after the longer
name, `LFS_CMP` of the lengths), two attribute types, three pairs of sixteen units, three
calls.  That is enough for a tag to be replaced, renumbered by a create or delete before
it, and then compacted or split away.  It checks that a listing by ids gives the names
that lookups find, that a compaction of any range keeps exactly what lookups say
(`CompactionIsExact`), and the refinement to `PlainEntries`.  A removed attribute's own
tag survives the compaction that is part of its commit; this is harmless, and
`CompactionIsExact` is about logs on disk.

Run `tag_userattrs` (violation, `Deviations = {"userattrs"}`): the attributes of an
open file are renumbered twice when their commit splits the pair.

Other deviations:

- `"hidden"`: `IsPlainEntries` fails.  With a move pending after a power loss,
  `lfs_dir_getslice` applies it before it goes back through the log (`dir/fetch.rs:104`), and
  `lfs_dir_fetchmatch` compares an id it has moved to a count it has not (`dir/fetch.rs:604`,
  `dir/fetch.rs:619`): entries after the moved one may be found and not read, until the first call that
  writes repairs the move.
- `"unrepaired"`: `IsPlainEntries` fails.  `lfs_setattr_` and `lfs_removeattr_` (`fs/attr.rs:122`) do not
  repair a pending move before they commit, and a split then hides or shows the wrong entry.

## 10. Superblocks

State.  `list` are the pairs from {0, 1} on, each with its place on the device, its superblock
(or none) and, for the root, a content; `end` is the tail of the last one.  `lfs` has the
fields that mount sets: root, block count, limit and the bit that asks for an upgrade.
`walk` is the loop of `lfs_mount_` with the tortoise.  `op` is the running call, with the
pairs it has written and not yet linked.

Actions.  `FormatCall` and `lfs_format_`; `MountCall`, `MountTurn` (a round of the loop) and
`MountEnds`; `Lose` (unmount or power loss); `Damage` (what the tests of `test_evil`
write); `PutCall` (any call that changes the root, after
`lfs_fs_desuperblock`) and `GrowCall`; then `CommitInPlace`, `CommitFails`, `Expand` and `ExpandHead` ({0, 1} is
worn and hands its entries to a new root), and `Move` (another pair is worn; its
predecessor follows).

Abstractions.  The three limits are one number, a pair one block, and the list is a
sequence, not pointers, except at its end.

`PlainSuper` is a filesystem with a single superblock.  Run `superblocks`: seven blocks; devices that an older, the
current or a newer version formatted, of five or seven blocks, with a root and up to three
more directories; four calls and three moves, enough for two expansions and for a cycle of
length three that does not go through the pair where the walk began.  It checks that
`lfs` is what a mount would find (`RamIsDisk`), that a mount returns whatever the tails are
(`MountReturns`, WF of the loop, one thread), and that the chain of superblocks behaves as
one (`IsPlainSuper`): a mount is refused exactly when the configuration does not fit or the
list is damaged.

Proved in `SuperblocksProofs`: `RamFollowsDisk`, for any number of blocks, directories, limits,
calls and moves, if none of the two deviations below that break it occurs
(`FailuresAreClean`).  The argument.  `LastSuper` says which pair the root is, and a mount has
learned the last superblock that it has passed (`Mounting`).  While a call runs, `lfs` is
already what the disk will be: `Span` says which pairs the copies that are written and not
yet linked stand for, and `Promised` that the last of them, the root's, has the place and
the superblock that `lfs` names.  Every expansion and move puts a copy in front of the
others, and the commit that links them splices them into the list in the place of the
originals (`Linked`), which is shown by lemmas about sequences.

`TypeOK`, proved under the same hypothesis, says two things that are not local to a step.
The pairs in flight fit on the device: no block is in two pairs, whether they are in the
list or waiting for it (`Apart`), and an injection into the blocks bounds their number.
And the period of the tortoise in `lfs_mount_` stays below twice the length of the list
(the run allows more): `Place` says where the walk is as seen from the tortoise.  Until the list turns back, the
tortoise is as far along as the period is long; once the tortoise is in the cycle, the walk
meets it before it has gone round.

Also proved in `SuperblocksProofs`: `IsPlainSuper`, without deviations.  The invariant above
says nothing of the superblocks before the root's, which a mount refuses by as well.  What
`RInv` adds: they have the root's block count, its limit or none, and no newer version
(`Dated`), so that a configuration that fits the root's superblock fits all, and one that is
refused by an earlier one is refused by the root's; what a running mount has passed did fit
and lies within the device (`Fitting`); a mounted list ends (`Settled`).  Of a commit in
progress, `Copies` says that what is written and not yet linked has the superblocks of
the pairs it will replace, and `Asked` that the copy of the root carries the whole change
that the call asks for.  An expansion or a move is then a stutter, and the commit that links
the copies is the step of `PlainSuper`.

Deviations, all of them also in the C code:

- `"stale"`: `IsPlainSuper` fails.  After an expansion, grow and upgrade rewrite the root's
  superblock only (`fs/grow.rs:107`).  A mount with the new block count is refused at {0, 1};
  one with block_count = 0 takes the old count from {0, 1} and refuses a root that has moved
  beyond it.  The tests grow only filesystems that never expanded.
- `"growfails"`: `RamIsDisk` fails.  `lfs.block_count` is set (`fs/grow.rs:102`) before the commit, which
  may fail; blocks beyond the count on disk may then be used.
- `"frozen"`: `RamIsDisk` fails.  `lfs.root` follows a new pair (`dir/commit.rs:690`,
  `dir/commit.rs:2194`) before the commit that links it, which may fail.

## 11. Bounds on the runs

Every counter that a cfg bounds is named `Max...`: calls, moves, edits, failures.
Each is large enough for every fault in `PROJECT.json` "mutants" and every deviation
above to show, and for every action to happen.
`CHECK_DEADLOCK FALSE` is set where a bounded number of calls ends a behaviour.

Fairness is only ever weak fairness of the steps of a call that is running: littlefs has
one thread, and a call, once made, runs until it returns or power is lost.  Nothing
makes a caller call.

## 12. What is proved, and what is model-checked

Proved by TLAPS for all values of the constants:

| Module | Properties | Hypothesis |
| --- | --- | --- |
| `BlockAllocProofs` | `TypeOK`, `CkpointCoversWindow`, `AllocReturnsFree`, `NoSpaceOnlyWhenFull` | none |
| `MetadataPairProofs` | `TypeOK`, `HandleCurrent`, `CommitIsAtomic`, `ProgOnlyErased`, `CommitEnds` | `HandlesSurvive` |
| `BdCacheProofs` | `TypeOK`, `ReadsAreCurrent`, `ProgFindsRoom`, `CachesAreInvisible` | none |
| `SuperblocksProofs` | `TypeOK`, `RamIsDisk` | `FailuresAreClean` |
| `SuperblocksProofs` | `IsPlainSuper` | `NoDeviations` |
| `FileOpsProofs` | `TypeOK`, `ProgFindsRoom`, `SavedIsIntact`, `PlaceIsCurrent` | none |
| `FsTreeProofs` | `TypeOK`, `OrphansCounted` | none |
| `FsTreeProofs` | `GdiskIsDisk`, `CopiesCurrent` | `PairsStay` |
| `FsTreeRefinement` | `CallsAreAtomic`, `ReturnsDone`, `ListIsTree` | `PairsStay` |

Each rests on an inductive invariant, `IInv` of its module (`AInv` in `FsTreeRefinement`,
`RInv` for `IsPlainSuper`, `Control` and `Listed` in `FileOpsProofs`, `Typed` and `Counted` for the
theorems of `FsTreeProofs` without a hypothesis), which
is itself a theorem and which TLC has checked on the instance of the run first.  The hypotheses leave out what the
sections above describe as not survived by the code; the runs leave it out too.

Only model-checked, on the instances above:

- Liveness (`AllocReturns`, `CallsReturn`, `MountReturns`) is beyond the prover.  For the
  commit, `CommitEnds` says by a decreasing number what liveness would say.
- `DirHandles` and `TagLog` have recursive operators, which the prover does not take: no theorem states
  their invariants.
- `IsPlainFile`, the refinement of `PlainFile`.
- `Paths` computes with recursive functions over data, of which the prover has no induction.
- In `FsTree`, every property but `TypeOK` and `OrphansCounted` where commits move their pair, and
  `ParentHasPred` always.

## 13. Not modelled

- `lfs_dir_getread`, which serves inline bytes through the cache: the bytes of an inline
  file are those of its tag.
- `lfs_stat_`, `lfs_fs_stat_`, `lfs_fs_size_`: a lookup, a copy, a count.
- Read errors in `lfs_dir_fetch` inside `lfs_dir_relocatingcommit`'s update of handles.
- A second handle of the same file: the code promises nothing of it.
- The safe wrapper (`littlefs-rust`): it borrows the filesystem for the length of one call
  and forwards it; `Drop` closes a handle and ignores the error.  It adds no state
  between calls except the handle itself.
- The C reference, the compatibility harness, the test macro, benches and examples: they are
  not part of the filesystem.
