----------------------------- MODULE BlockAlloc -----------------------------
(***************************************************************************)
(* The block allocator of littlefs-rust-core (block_alloc/alloc.rs).       *)
(*                                                                         *)
(* littlefs keeps no free list on disk.  A RAM window (the lookahead       *)
(* buffer) of at most Lookahead blocks starting at block "start" is filled *)
(* by traversing the filesystem; lfs_alloc hands out the unmarked blocks   *)
(* of the window and rescans the next window when it is used up.  Blocks   *)
(* handed out but not yet reachable from the filesystem ("in flight") are  *)
(* invisible to the traversal: what keeps them from being handed out twice *)
(* is the checkpoint counter, which lets the window advance over every     *)
(* block at most once between two checkpoints.                             *)
(*                                                                         *)
(* lfs_alloc is a loop, so a call is several steps: the call, skipped      *)
(* blocks, rescans, and a return.  The rest of the filesystem is reduced   *)
(* to what the allocator can observe of it: the set of blocks a traversal  *)
(* reports, which grows only by blocks the allocator handed out.           *)
(***************************************************************************)
EXTENDS Integers

CONSTANTS
  BlockCount,   \* lfs.block_count at mount
  Lookahead,    \* bits of the lookahead buffer, 8 * lookahead_buffer.len()
  NewCounts     \* block counts lfs_fs_grow may be called with (SpecGrow only)

ASSUME AllocAssumption ==
  /\ BlockCount \in Nat \ {0}
  /\ Lookahead \in Nat \ {0}
  /\ NewCounts \subseteq Nat \ {0}

VARIABLES
  count,      \* lfs.block_count
  start,      \* lookahead.start: first block of the window
  size,       \* lookahead.size: blocks in the window
  next,       \* lookahead.next: offset of the cursor in the window
  ckpoint,    \* lookahead.ckpoint: blocks that may still be looked at
  marked,     \* lookahead.buffer: offsets of the window whose bit is set
  used,       \* blocks lfs_fs_traverse_ reports: the tree and the open files
  inflight,   \* blocks handed out, not yet reachable, still needed
  freed,      \* history: blocks given back since a scan last looked at them
  pc,         \* "idle", or "search" inside lfs_alloc
  ret         \* outcome of the last lfs_alloc: a block, NoBlock or an error

vars == <<count, start, size, next, ckpoint, marked, used, inflight, freed, pc, ret>>
window == <<start, size, next, ckpoint, marked>>
client == <<used, inflight, freed>>

NoBlock == [ok |-> FALSE, err |-> "none", block |-> 0]
NoSpace == [ok |-> FALSE, err |-> "NoSpace", block |-> 0]
Corrupt == [ok |-> FALSE, err |-> "Corrupt", block |-> 0]
Got(b)  == [ok |-> TRUE, err |-> "none", block |-> b]

Blocks == 0 .. count - 1
MinOf(a, b) == IF a <= b THEN a ELSE b

\* (a + b) % n and (a - b + n) % n, as the code computes them, for a and b no
\* larger than n: one conditional subtraction or addition.
ModAdd(n, a, b) == IF a + b >= n THEN a + b - n ELSE a + b
ModSub(n, a, b) == IF a >= b THEN a - b ELSE a - b + n

\* The block at offset o of the window, and the offset of block b in a window
\* that starts at s.
BlockAt(o) == ModAdd(count, start, o)
OffsetFrom(s, b) == ModSub(count, b, s)

TypeOK ==
  /\ count \in Nat \ {0}
  /\ start \in 0 .. count - 1
  /\ size \in 0 .. MinOf(Lookahead, count)
  /\ next \in 0 .. size
  /\ ckpoint \in 0 .. count
  /\ marked \subseteq 0 .. Lookahead - 1
  /\ used \subseteq Blocks
  /\ inflight \subseteq Blocks
  /\ freed \subseteq Blocks
  /\ pc \in {"idle", "search"}
  /\ ret \in {NoBlock, NoSpace, Corrupt} \cup {Got(b) : b \in Blocks}

-----------------------------------------------------------------------------
(***************************************************************************)
(* lfs_mount_ ends with start = seed % block_count and lfs_alloc_drop.     *)
(***************************************************************************)
Mounted(n, u) ==
  /\ start' \in 0 .. n - 1
  /\ size' = 0
  /\ next' = 0
  /\ ckpoint' = n
  /\ marked' = {}
  /\ used' = u
  /\ inflight' = {}
  /\ freed' = {}
  /\ pc' = "idle"
  /\ ret' = NoBlock

Init ==
  /\ count = BlockCount
  /\ start \in 0 .. count - 1
  /\ size = 0
  /\ next = 0
  /\ ckpoint = count
  /\ marked = {}
  /\ used \in SUBSET Blocks
  /\ inflight = {}
  /\ freed = {}
  /\ pc = "idle"
  /\ ret = NoBlock

\* Power loss and a new mount.  Blocks only open files referred to are no longer
\* reachable; of the blocks in flight, those of a commit that reached the disk
\* before the power was lost are reachable, the others are forgotten.
Remount ==
  /\ \E u \in SUBSET (used \cup inflight) : Mounted(count, u)
  /\ UNCHANGED count

-----------------------------------------------------------------------------
(***************************************************************************)
(* The callers of the allocator.                                           *)
(***************************************************************************)

\* lfs_alloc_ckpoint.  Callers do this when none of their allocations is in
\* flight ("points where there are no in-flight allocations", lfs_alloc).
Ckpoint ==
  /\ pc = "idle"
  /\ inflight = {}
  /\ ckpoint' = count
  /\ UNCHANGED <<count, start, size, next, marked, client, pc, ret>>

\* A commit, or an open file that is being written, makes a block reachable.
Link(b) ==
  /\ pc = "idle"
  /\ b \in inflight
  /\ inflight' = inflight \ {b}
  /\ used' = used \cup {b}
  /\ UNCHANGED <<count, window, freed, pc, ret>>

\* An operation fails, or finds a block bad, and drops the block again.
Abandon(b) ==
  /\ pc = "idle"
  /\ b \in inflight
  /\ inflight' = inflight \ {b}
  /\ freed' = freed \cup {b}
  /\ UNCHANGED <<count, window, used, pc, ret>>

\* Remove, truncate, copy on write: a block is no longer reachable.
Unlink(b) ==
  /\ pc = "idle"
  /\ b \in used
  /\ used' = used \ {b}
  /\ freed' = freed \cup {b}
  /\ UNCHANGED <<count, window, inflight, pc, ret>>

\* lfs_dir_compact and lfs_ctz_extend call lfs_alloc_lookahead on a block that
\* turned out bad, so that this window does not offer it again; the operation
\* then drops the block.
MarkBad(b) ==
  /\ pc = "idle"
  /\ b \in inflight
  /\ marked' = IF OffsetFrom(start, b) < size
               THEN marked \cup {OffsetFrom(start, b)} ELSE marked
  /\ inflight' = inflight \ {b}
  /\ freed' = freed \cup {b}
  /\ UNCHANGED <<count, start, size, next, ckpoint, used, pc, ret>>

-----------------------------------------------------------------------------
(***************************************************************************)
(* lfs_alloc_scan: move the window to the cursor, limit it to the          *)
(* checkpoint, and mark what the traversal reports.                        *)
(***************************************************************************)
\* Variants named Bug... are plausible faults.  No specification uses them: each
\* one, put in place of the definition after it, must break a property.
BugScanStartUnwrapped == start + next
ScanStart == BlockAt(next)
BugScanSizeUnlimited == MinOf(Lookahead, count)
ScanSize  == MinOf(Lookahead, ckpoint)
InScan(b) == OffsetFrom(ScanStart, b) < ScanSize

\* The scan is taken for a checkpoint.
BugScanRenewsCkpoint ==
  /\ start' = ScanStart
  /\ next' = 0
  /\ size' = ScanSize
  /\ ckpoint' = count
  /\ marked' = {OffsetFrom(ScanStart, b) : b \in {u \in used : InScan(u)}}
  /\ freed' = {b \in freed : ~InScan(b)}
  /\ UNCHANGED <<count, used, inflight>>

Scan ==
  /\ start' = ScanStart
  /\ next' = 0
  /\ size' = ScanSize
  /\ marked' = {OffsetFrom(ScanStart, b) : b \in {u \in used : InScan(u)}}
  /\ freed' = {b \in freed : ~InScan(b)}
  /\ UNCHANGED <<count, ckpoint, used, inflight>>

\* The traversal fails: lfs_alloc_drop.  The caller's operation fails with it
\* and its in-flight blocks are given up.
ScanFails ==
  /\ start' = ScanStart
  /\ next' = 0
  /\ size' = 0
  /\ ckpoint' = count
  /\ marked' = {}
  /\ freed' = freed \cup inflight
  /\ inflight' = {}
  /\ UNCHANGED <<count, used>>

AllocCall ==
  /\ pc = "idle"
  /\ pc' = "search"
  /\ ret' = NoBlock
  /\ UNCHANGED <<count, window, client>>

\* The cursor is at a block in use: step over it.
AllocSkip ==
  /\ pc = "search"
  /\ next < size
  /\ next \in marked
  /\ next' = next + 1
  /\ ckpoint' = ckpoint - 1
  /\ UNCHANGED <<count, start, size, marked, client, pc, ret>>

\* The eager loop of lfs_alloc: having found a free block, advance to the next
\* free offset or to the end of the window.
NextFree(n) ==
  /\ n \in next + 1 .. size
  /\ n < size => n \notin marked
  /\ \A o \in next + 1 .. n - 1 : o \in marked

\* The eager loop counts the block it hands out and not those it steps over.
BugTakeCountsOne ==
  /\ pc = "search"
  /\ next < size
  /\ next \notin marked
  /\ \E n \in next + 1 .. size :
       /\ NextFree(n)
       /\ next' = n
  /\ ckpoint' = ckpoint - 1
  /\ ret' = Got(BlockAt(next))
  /\ inflight' = inflight \cup {BlockAt(next)}
  /\ freed' = freed \ {BlockAt(next)}
  /\ pc' = "idle"
  /\ UNCHANGED <<count, start, size, marked, used>>

AllocTake ==
  /\ pc = "search"
  /\ next < size
  /\ next \notin marked
  /\ \E n \in next + 1 .. size :
       /\ NextFree(n)
       /\ next' = n
       /\ ckpoint' = ckpoint - (n - next)
  /\ ret' = Got(BlockAt(next))
  /\ inflight' = inflight \cup {BlockAt(next)}
  /\ freed' = freed \ {BlockAt(next)}
  /\ pc' = "idle"
  /\ UNCHANGED <<count, start, size, marked, used>>

\* Gives up at the end of the window.
BugNoSpaceEarly ==
  /\ pc = "search"
  /\ next >= size
  /\ ret' = NoSpace
  /\ pc' = "idle"
  /\ UNCHANGED <<count, window, client>>

AllocNoSpace ==
  /\ pc = "search"
  /\ next >= size
  /\ ckpoint = 0
  /\ ret' = NoSpace
  /\ pc' = "idle"
  /\ UNCHANGED <<count, window, client>>

AllocScan ==
  /\ pc = "search"
  /\ next >= size
  /\ ckpoint # 0
  /\ Scan
  /\ UNCHANGED <<pc, ret>>

AllocScanFails ==
  /\ pc = "search"
  /\ next >= size
  /\ ckpoint # 0
  /\ ScanFails
  /\ ret' = Corrupt
  /\ pc' = "idle"

\* lfs_fs_gc_ refills the window ahead of time when it is not full.
Gc ==
  /\ pc = "idle"
  /\ size < MinOf(Lookahead, count)
  /\ Scan \/ ScanFails
  /\ UNCHANGED <<pc, ret>>

\* lfs_fs_grow_: the block count changes, the lookahead window does not.
\* Shrinking is refused while the traversal reports a block past the new end.
\* It is a call of its own, so nothing is in flight.
Grow(n) ==
  /\ pc = "idle"
  /\ inflight = {}
  /\ n # count
  /\ n < count => \A b \in used : b < n
  /\ count' = n
  /\ freed' = {b \in freed : b < n}
  /\ ret' = NoBlock
  /\ UNCHANGED <<window, used, inflight, pc>>

-----------------------------------------------------------------------------
AllocStep == AllocSkip \/ AllocTake \/ AllocNoSpace \/ AllocScan \/ AllocScanFails

Client ==
  \/ Ckpoint
  \/ AllocCall
  \/ \E b \in Blocks : Link(b) \/ Abandon(b) \/ Unlink(b) \/ MarkBad(b)
  \/ Gc
  \/ Remount

Next == Client \/ AllocStep

\* A call of lfs_alloc runs to its return: nothing else runs meanwhile.
Fairness == WF_vars(AllocStep)

Spec == Init /\ [][Next]_vars /\ Fairness

\* The same allocator in a filesystem that is resized while it is mounted.
SpecGrow == Init /\ [][Next \/ \E n \in NewCounts : Grow(n)]_vars

-----------------------------------------------------------------------------
(***************************************************************************)
(* Properties.                                                             *)
(***************************************************************************)

\* lfs_alloc's "found a free block": the block it returns is neither reachable
\* nor already promised to an operation that has not linked it yet.
AllocReturnsFree ==
  [][ret'.ok /\ pc = "search" /\ pc' = "idle" =>
       ret'.block \notin used \cup inflight]_vars

\* lfs_alloc_scan limits the window to the checkpoint, "this prevents the math
\* in lfs_alloc from underflowing": lookahead.ckpoint is a u32 that lfs_alloc
\* decrements with wrapping_sub once per offset it passes.
CkpointCoversWindow == size - next <= ckpoint

\* NoSpace is only reported when every block is in use, in flight, or was given
\* back after the scan that marked it (a later call will find it).
NoSpaceOnlyWhenFull ==
  [][ret' = NoSpace /\ pc = "search" /\ pc' = "idle" =>
       Blocks \subseteq used \cup inflight \cup freed]_vars

\* The search loop of lfs_alloc ends, whatever the window holds.
AllocReturns == (pc = "search") ~> (pc = "idle")

\* What makes the two action properties inductive.  The offsets the cursor has
\* not passed are correctly marked: an unmarked one is free, and a marked one is
\* in use or was given back after the scan.
WindowSound ==
  \A o \in next .. size - 1 :
    IF o \in marked THEN BlockAt(o) \in used \cup inflight \cup freed
                    ELSE BlockAt(o) \notin used \cup inflight

\* A block in flight is behind the cursor, further than the scans the remaining
\* checkpoint allows can reach: lfs_alloc counts every offset it passes.
InflightBehind ==
  \A b \in inflight : OffsetFrom(BlockAt(next), b) >= ckpoint

\* A block out of reach of the remaining checkpoint has been looked at.
PassedAccounted ==
  \A b \in Blocks :
    OffsetFrom(BlockAt(next), b) >= ckpoint => b \in used \cup inflight \cup freed

\* The inductive invariant of the allocator: the window never shows an
\* operation's own blocks as free, whatever the order of calls.
AllocInv == WindowSound /\ InflightBehind /\ PassedAccounted
=============================================================================
