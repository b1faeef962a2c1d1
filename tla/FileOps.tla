------------------------------ MODULE FileOps ------------------------------
(***************************************************************************)
(* An open file of littlefs-rust-core: file/ops.rs over the skip list of   *)
(* file/ctz.rs.                                                            *)
(*                                                                         *)
(* A short file is a tag of its directory, "inline"; a longer one is a CTZ  *)
(* list that is never written twice: a write copies the block it begins in *)
(* to a new one, and at the next flush the rest of the file is copied after *)
(* it.  lfs_file_sync_ then commits the new list in one commit of the      *)
(* directory, which MetadataPair shows to be atomic.                       *)
(*                                                                         *)
(* One handle of one file.  "pc" is the function the call in progress is   *)
(* in, "stack" where it returns to.  The cells of a block are what a read   *)
(* through the caches finds (BdCache); "cache" and "pcache" say of which    *)
(* block the file's program cache and lfs.pcache hold bytes that are not   *)
(* on the device.  lfs_alloc is taken at its word (BlockAlloc): it offers   *)
(* no block that the traversal reports, and none twice between two          *)
(* checkpoints.  It offers the first such block: free blocks differ in      *)
(* nothing, since each is erased before it is used.                        *)
(***************************************************************************)
EXTENDS Ctz, Sequences

CONSTANTS
  Blocks,       \* numbers from 1
  CacheSize,
  InlineMax,    \* lfs.inline_max
  WriteSizes, ReadSizes, \* lengths asked for
  Targets,      \* positions and sizes asked for
  Opens,        \* how it is opened: sets of "trunc", "append", "attrs"
  MaxEdits,     \* how many writes and truncates
  MaxTrouble,   \* how many blocks turn bad and reads fail, together
  ScanMidway,   \* may the lookahead window end between an allocation and the
                \* next checkpoint?
  Unknown

ASSUME FileAssumption ==
  /\ IsFiniteSet(Blocks) /\ Blocks \subseteq Nat \ {0}
  /\ PtrSize = 1
  /\ CacheSize \in Nat \ {0} /\ BlockSize % CacheSize = 0
  /\ InlineMax \in 0 .. CacheSize
  /\ {MaxEdits, MaxTrouble} \subseteq Nat
  /\ ScanMidway \in BOOLEAN
  /\ WriteSizes \cup ReadSizes \subseteq 1 .. FileMax /\ Targets \subseteq 0 .. FileMax
  /\ Opens \subseteq SUBSET {"trunc", "append", "attrs"}

VARIABLES
  cells,        \* the cells of each block
  entry,        \* the file's struct tag in its directory
  file,         \* LfsFile
  cache, pcache,\* what file.cache and lfs.pcache hold that the device does not
  taken,        \* blocks that lfs_alloc does not offer before the next checkpoint
  bad,          \* blocks found bad
  faults,       \* reads that failed
  stamp,        \* writes and truncates so far
  saved,        \* the bytes committed last: what entry should lead to
  pc, stack, reg

vars == <<cells, entry, file, cache, pcache, taken, bad, faults, stamp, saved, pc, stack, reg>>

Inline == NotABlock             \* LFS_BLOCK_INLINE: no block of the device
Byte(k, p) == <<"data", k, p>>
Zero == <<"data", 0, 0>>
NoBytes == [p \in {} |-> Zero]
Bytes(f, n) == [p \in 0 .. n - 1 |-> f[p]]

Flags == {"append", "inline", "dirty", "reading", "writing", "erred"}
Has(flag) == flag \in file.flags

NoFile == [open |-> FALSE, flags |-> {}, pos |-> 0, block |-> Inline, off |-> 0,
           head |-> Inline, size |-> 0, data |-> NoBytes]

\* A program cache: its block, its first offset, and the cells it holds.
NoCache == [block |-> NotABlock, off |-> 0, data |-> NoBytes]
Dirty(b, n) ==      \* after n cells of b were programmed
  IF n % CacheSize = 0 THEN NoCache
  ELSE [block |-> b, off |-> n - (n % CacheSize), data |-> NoBytes]

NoReg == [op |-> "none", arg |-> 0, to |-> 0, todo |-> <<>>, fill |-> 0, pos |-> 0,
          from |-> 0, left |-> 0, got |-> NoBytes, tainted |-> FALSE,
          was |-> [content |-> NoBytes, position |-> 0]]

-----------------------------------------------------------------------------
(***************************************************************************)
(* What a handle and an entry stand for.                                   *)
(***************************************************************************)
CellAt(head, size, p) ==
  LET at == lfs_ctz_find(cells, head, size, p)
  IN  IF at.block \in Blocks THEN cells[at.block][at.off] ELSE Gap

\* lfs_file_size_
FileSize == IF Has("writing") THEN Larger(file.pos, file.size) ELSE file.size

Content ==
  [p \in 0 .. FileSize - 1 |->
     IF Has("inline") THEN file.data[p]
     ELSE IF Has("writing") /\ p < file.pos THEN CellAt(file.block, file.pos, p)
     ELSE CellAt(file.head, file.size, p)]

EntryContent ==
  IF entry.type = "inline" THEN entry.data
  ELSE [p \in 0 .. entry.size - 1 |-> CellAt(entry.head, entry.size, p)]

EntryBlocks ==
  IF entry.type = "inline" THEN {} ELSE lfs_ctz_traverse(cells, entry.head, entry.size)

\* The lists of the open file that lfs_fs_traverse_ follows.  One that was
\* inline has none yet; the number reported for it is no block's.
OpenList(flag, head, size) ==
  IF Has(flag) /\ ~Has("inline") /\ head # Inline
  THEN lfs_ctz_traverse(cells, head, size) ELSE {}

BugOpenBlocks == OpenList("dirty", file.head, file.size)

OpenBlocks == OpenList("dirty", file.head, file.size)
              \cup OpenList("writing", file.block, file.pos)

Traversed == EntryBlocks \cup OpenBlocks

\* The search goes on from the last block offered, so not to one whose programs
\* an error has left in a cache.
Held == {cache.block, pcache.block} \ {NotABlock}
Ckpoint == IF ScanMidway THEN {} ELSE Traversed \cup Held

-----------------------------------------------------------------------------
(***************************************************************************)
(* Calls, returns and errors.                                              *)
(***************************************************************************)
Goto(label) == pc' = label /\ UNCHANGED stack
CallThen(label, return) == pc' = label /\ stack' = <<return>> \o stack
Return == pc' = Head(stack) /\ stack' = Tail(stack)

\* Blocks that nothing leads to are free, and free blocks differ in nothing.
Blank == [i \in 0 .. BlockSize - 1 |-> Gap]
Only(used, c) == [b \in Blocks |-> IF b \in used THEN c[b] ELSE Blank]

\* An operation starts: what the handle holds is noted for the abstraction, and
\* what nothing will read again is forgotten, unless the traversal meets a broken
\* list and no block is free.
Begin(op, arg, label, return) ==
  /\ pc = "idle" /\ file.open
  /\ cells' = IF NotABlock \in Traversed THEN cells
              ELSE Only(Traversed \cup {file.block}, cells)
  /\ taken' = Ckpoint
  /\ file' = IF Has("reading") \/ Has("writing") THEN file
             ELSE [file EXCEPT !.block = Inline, !.off = 0]
  /\ reg' = [NoReg EXCEPT !.op = op, !.arg = arg, !.tainted = reg.tainted,
                          !.to = IF op = "grow" THEN FileSize ELSE 0,
                          !.was = [content |-> Content, position |-> file.pos]]
  /\ pc' = label /\ stack' = return

Done == [NoReg EXCEPT !.tainted = reg.tainted]
Failed == [Done EXCEPT !.op = "failed"]

\* What a program cache that is dropped held is on no device.
Forget(c) ==
  IF c.block = NotABlock THEN cells
  ELSE [cells EXCEPT ![c.block] = [i \in DOMAIN @ |-> IF i < c.off THEN @[i] ELSE Gap]]

\* lfs_mlist_remove; the handle and its cache are the application's.
Gone ==
  /\ file' = NoFile /\ cache' = NoCache
  /\ cells' = Only(EntryBlocks, cells)
  /\ reg' = NoReg /\ pc' = "idle" /\ stack' = <<>>

\* Every caller passes an error on.  A write that failed is remembered, and so
\* is a flush or a commit that failed within a sync.
Sets(flag) == IF flag THEN {"erred"} ELSE {}
InSync == Sets(reg.op \in {"sync", "close"})

Fail(flags) ==
  IF reg.op = "close"
  THEN Gone
  ELSE /\ file' = [file EXCEPT !.flags = @ \cup flags]
       /\ reg' = [Failed EXCEPT !.tainted = @ \/ flags # {}]
       /\ pc' = "idle" /\ stack' = <<>>
       /\ UNCHANGED <<cells, cache>>

\* A read of the device fails.
Trouble == Cardinality(bad) + faults < MaxTrouble
Faulty == Trouble /\ faults' = faults + 1

-----------------------------------------------------------------------------
(***************************************************************************)
(* Allocation: lfs_alloc, lfs_bd_erase, and copying into the new block.    *)
(***************************************************************************)

Taken == taken \cup (IF ScanMidway THEN Traversed ELSE {})
Offer == CHOOSE b \in Blocks \ Taken : \A c \in Blocks \ Taken : b <= c
HasOffer == NotABlock \notin Taken /\ Blocks \ Taken # {}

\* LFS_ERR_NOSPC, or the scan met a broken list.
NoBlockLeft(flags) ==
  /\ ~HasOffer
  /\ Fail(flags)
  /\ UNCHANGED <<entry, pcache, taken, bad, faults, stamp, saved>>

\* The erase, or a flush while copying, reports Corrupt: try another block.
MayBeBad(b) == b \in bad \/ Trouble
OfferIsBad ==
  /\ HasOffer /\ MayBeBad(Offer)
  /\ bad' = bad \cup {Offer}
  /\ taken' = taken \cup {Offer}
  /\ UNCHANGED <<entry, file, faults, stamp, saved, pc, stack, reg>>

\* A block just erased, of which the first cells are programmed.
Fresh(n, data) == [i \in 0 .. BlockSize - 1 |-> IF i < n THEN data[i] ELSE Gap]

\* lfs_bd_prog asserts that the cache is empty or at the block and offset.
Room(c, b, off) == c = NoCache \/ (c.block = b /\ c.off <= off /\ off < c.off + CacheSize)
Panic ==
  /\ pc' = "panic"
  /\ UNCHANGED <<cells, entry, file, cache, pcache, taken, bad, faults, stamp, saved, stack, reg>>

\* lfs_file_relocate: the file's block up to its offset, in a new block.
RelocateIsBad ==
  /\ pc = "relocate" /\ OfferIsBad
  /\ pcache' = NoCache
  /\ UNCHANGED <<cells, cache>>

RelocateSets == InSync \cup Sets(Head(stack) # "copy")

RelocateNoSpace == pc = "relocate" /\ NoBlockLeft(RelocateSets)

\* What is copied: from the cache if the file is inline, or else the block.
Source == IF Has("inline") THEN file.data ELSE cells[file.block]

RelocateReadFails ==
  /\ pc = "relocate" /\ HasOffer /\ Faulty
  /\ ~Has("inline") /\ file.off > 0 /\ Room(pcache, Offer, 0)
  /\ \E n \in 0 .. file.off - 1 :
       LET left == Dirty(Offer, n)
       IN  /\ Fail(RelocateSets)
           /\ pcache' = IF left = NoCache THEN left
                        ELSE [left EXCEPT !.data = [i \in left.off .. n - 1 |-> Source[i]]]
  /\ taken' = taken \cup {Offer}
  /\ UNCHANGED <<entry, bad, stamp, saved>>

BugRelocate ==
  /\ pc = "relocate" /\ HasOffer
  /\ IF ~Room(pcache, Offer, 0) THEN Panic
     ELSE /\ cells' = [cells EXCEPT ![Offer] = Fresh(file.off, Source)]
          /\ cache' = Dirty(Offer, file.off)
          /\ pcache' = NoCache
          /\ file' = [file EXCEPT !.block = Offer, !.flags = @ \cup {"writing"}]
          /\ taken' = {}
          /\ Return
          /\ UNCHANGED <<entry, bad, faults, stamp, saved, reg>>

Relocate ==
  /\ pc = "relocate" /\ HasOffer
  /\ IF ~Room(pcache, Offer, 0) /\ file.off > 0 THEN Panic
     ELSE /\ cells' = [cells EXCEPT ![Offer] = Fresh(file.off, Source)]
          /\ cache' = Dirty(Offer, file.off)
          /\ pcache' = NoCache
          /\ file' = [file EXCEPT !.block = Offer, !.flags = @ \cup {"writing"}]
          /\ taken' = taken \cup {Offer}
          /\ Return
          /\ UNCHANGED <<entry, bad, faults, stamp, saved, reg>>

\* lfs_ctz_extend: the next block of the list, with its pointers; or, when the
\* write begins within a block, a copy of that block up to there.
ExtendIsBad ==
  /\ pc = "extend" /\ OfferIsBad
  /\ cache' = NoCache
  /\ UNCHANGED <<cells, pcache>>

ExtendNoSpace == pc = "extend" /\ NoBlockLeft({"erred"})

LastOff == Index[file.pos - 1].off + 1
NextIndex == Index[file.pos - 1].i + 1

\* How many cells it programs before the data.
Prefix == IF file.pos = 0 THEN 0
          ELSE IF LastOff # BlockSize THEN LastOff ELSE PtrSize * Skips(NextIndex)

ExtendReadFails ==
  /\ pc = "extend" /\ HasOffer /\ Faulty /\ Room(cache, Offer, 0)
  /\ \E n \in (IF file.pos # 0 /\ LastOff = BlockSize THEN 1 ELSE 0) .. Prefix - 1 :
       IF reg.op = "close" THEN Gone
       ELSE /\ file' = [file EXCEPT !.flags = @ \cup {"erred"}]
            /\ cache' = Dirty(Offer, n)
            /\ reg' = [Failed EXCEPT !.tainted = TRUE]
            /\ pc' = "idle" /\ stack' = <<>>
            /\ UNCHANGED cells
  /\ taken' = taken \cup {Offer}
  /\ UNCHANGED <<entry, pcache, bad, stamp, saved>>

\* Pointer j is read from the block that pointer j - 1 leads to.
BugPointers(head) == [j \in 0 .. Skips(NextIndex) - 1 |-> Ptr(head)]

Pointers(head) ==
  LET to[j \in 0 .. Skips(NextIndex) - 1] ==
        IF j = 0 THEN head ELSE PtrAt(cells, to[j - 1], j - 1)
  IN  [j \in 0 .. Skips(NextIndex) - 1 |-> Ptr(to[j])]

Extend ==
  /\ pc = "extend" /\ HasOffer
  /\ IF Prefix > 0 /\ ~Room(cache, Offer, 0) THEN Panic
     ELSE /\ cells' = [cells EXCEPT ![Offer] =
                         IF file.pos = 0 THEN Fresh(0, NoBytes)
                         ELSE IF LastOff # BlockSize THEN Fresh(Prefix, cells[file.block])
                         ELSE Fresh(Prefix, Pointers(file.block))]
          /\ cache' = IF Prefix > 0 THEN Dirty(Offer, Prefix) ELSE cache
          /\ file' = [file EXCEPT !.block = Offer, !.off = Prefix, !.flags = @ \cup {"writing"}]
          /\ taken' = taken \cup {Offer}
          /\ Goto("chunk")
          /\ UNCHANGED <<entry, pcache, bad, faults, stamp, saved, reg>>

-----------------------------------------------------------------------------
(***************************************************************************)
(* lfs_file_flushedwrite: "put" is its start, "chunk" a later turn of its    *)
(* loop.                                                                   *)
(***************************************************************************)

\* lfs_file_outline: an inline file that grows moves to a block.
Outlines == Has("inline") /\ Larger(file.pos + Len(reg.todo), file.size) > InlineMax

Outline ==
  /\ pc = "put" /\ Outlines
  /\ file' = [file EXCEPT !.off = file.pos]
  /\ taken' = Ckpoint
  /\ CallThen("relocate", "outlined")
  /\ UNCHANGED <<cells, entry, cache, pcache, bad, faults, stamp, saved, reg>>

Outlined ==
  /\ pc = "outlined"
  /\ file' = [file EXCEPT !.flags = @ \ {"inline"}, !.data = NoBytes]
  /\ Goto("chunk")
  /\ UNCHANGED <<cells, entry, cache, pcache, taken, bad, faults, stamp, saved, reg>>

Writing == pc = "chunk" \/ (pc = "put" /\ ~Outlines)
NeedsBlock == ~Has("writing") \/ file.off = BlockSize

ChunkInline ==
  /\ Writing /\ NeedsBlock /\ Has("inline")
  /\ file' = [file EXCEPT !.block = Inline, !.off = file.pos, !.flags = @ \cup {"writing"}]
  /\ Goto("chunk")
  /\ UNCHANGED <<cells, entry, cache, pcache, taken, bad, faults, stamp, saved, reg>>

\* The block of the byte before the position is extended.
Finds == ~Has("writing") /\ file.pos > 0
Before == lfs_ctz_find(cells, file.head, file.size, file.pos - 1).block

ChunkFindFails ==
  /\ Writing /\ NeedsBlock /\ ~Has("inline") /\ Finds
  /\ IF Before = NotABlock THEN UNCHANGED faults ELSE Faulty
  /\ Fail({"erred"})
  /\ UNCHANGED <<entry, pcache, taken, bad, stamp, saved>>

ChunkExtends ==
  /\ Writing /\ NeedsBlock /\ ~Has("inline")
  /\ Finds => Before # NotABlock
  /\ IF Finds THEN /\ file' = [file EXCEPT !.block = Before]
                   /\ cells' = Forget(cache) /\ cache' = NoCache
              ELSE UNCHANGED <<file, cells, cache>>
  /\ taken' = Ckpoint
  /\ Goto("extend")
  /\ UNCHANGED <<entry, pcache, bad, faults, stamp, saved, reg>>

Chunk == Lesser(Len(reg.todo), BlockSize - file.off)

\* lfs_bd_prog, which flushes and validates each time the cache is full.
ProgIsBad ==
  /\ Writing /\ ~NeedsBlock /\ ~Has("inline")
  /\ file.block \in bad \/ MayBeBad(file.block)
  /\ Room(cache, file.block, file.off)
  /\ file.off \div CacheSize # (file.off + Chunk) \div CacheSize
  /\ bad' = bad \cup {file.block}
  /\ CallThen("relocate", "chunk")
  /\ UNCHANGED <<cells, entry, file, cache, pcache, taken, faults, stamp, saved, reg>>

Prog ==
  /\ Writing /\ ~NeedsBlock
  /\ LET upto == file.off + Chunk
         put(old) == [i \in DOMAIN old |-> IF file.off <= i /\ i < upto
                                           THEN reg.todo[i - file.off + 1] ELSE old[i]]
     IN  /\ file' = [file EXCEPT !.pos = @ + Chunk, !.off = upto,
                                 !.data = IF Has("inline") THEN put(@) ELSE @]
         /\ IF Has("inline") THEN UNCHANGED <<cells, cache>>
            ELSE /\ cells' = [cells EXCEPT ![file.block] = put(@)]
                 /\ cache' = Dirty(file.block, upto)
  /\ reg' = [reg EXCEPT !.todo = SubSeq(@, Chunk + 1, Len(@))]
  /\ IF Has("inline") \/ Room(cache, file.block, file.off)
     THEN IF Chunk = Len(reg.todo) THEN Return ELSE Goto("chunk")
     ELSE Goto("panic")
  /\ UNCHANGED <<entry, pcache, bad, faults, stamp, saved>>
  /\ taken' = Ckpoint'

-----------------------------------------------------------------------------
(***************************************************************************)
(* lfs_file_flush: "flush" is its start, "copy" a turn of the loop that     *)
(* copies what follows the position from the old list, or the last flush.  *)
(***************************************************************************)
FlushReads ==
  /\ pc = "flush" /\ Has("reading")
  /\ file' = [file EXCEPT !.flags = @ \ {"reading"}]
  /\ IF Has("inline") THEN UNCHANGED <<cells, cache>>
     ELSE cells' = Forget(cache) /\ cache' = NoCache
  /\ UNCHANGED <<entry, pcache, taken, bad, faults, stamp, saved, pc, stack, reg>>

\* What was written becomes the file; the position is that of the caller.
Flushed(size, pos) ==
  [file EXCEPT !.head = file.block, !.size = size, !.pos = pos,
               !.flags = (@ \ {"writing"}) \cup {"dirty"}]

BugFlushInline ==
  /\ pc = "flush" /\ ~Has("reading")
  /\ ~Has("writing") \/ Has("inline")
  /\ file' = IF Has("writing") THEN Flushed(file.pos, file.pos) ELSE file
  /\ Return
  /\ UNCHANGED <<cells, entry, cache, pcache, taken, bad, faults, stamp, saved, reg>>

FlushInline ==
  /\ pc = "flush" /\ ~Has("reading")
  /\ ~Has("writing") \/ Has("inline")
  /\ file' = IF Has("writing") THEN Flushed(Larger(file.pos, file.size), file.pos) ELSE file
  /\ Return
  /\ UNCHANGED <<cells, entry, cache, pcache, taken, bad, faults, stamp, saved, reg>>

FlushBlocks ==
  /\ pc = "flush" /\ ~Has("reading")
  /\ Has("writing") /\ ~Has("inline")
  /\ reg' = [reg EXCEPT !.pos = file.pos, !.from = file.pos]
  /\ Goto("copy")
  /\ UNCHANGED <<cells, entry, file, cache, pcache, taken, bad, faults, stamp, saved>>

\* Through a handle of its own that reads the old list, a byte at a time.
Old == CellAt(file.head, file.size, reg.from)

CopyFails ==
  /\ pc = "copy" /\ file.pos < file.size
  /\ IF Old[1] # "data" THEN UNCHANGED faults ELSE Faulty
  /\ Fail(InSync)
  /\ UNCHANGED <<entry, pcache, taken, bad, stamp, saved>>

Copy ==
  /\ pc = "copy" /\ file.pos < file.size
  /\ Old[1] = "data"
  /\ reg' = [reg EXCEPT !.todo = <<Old>>, !.from = @ + 1]
  /\ CallThen("put", "copy")
  /\ UNCHANGED <<cells, entry, file, cache, pcache, taken, bad, faults, stamp, saved>>

Copied == pc = "copy" /\ file.pos >= file.size

BdFlushIsBad ==
  /\ Copied /\ cache # NoCache
  /\ cache.block = file.block /\ MayBeBad(file.block)
  /\ bad' = bad \cup {file.block}
  /\ CallThen("relocate", "copy")
  /\ UNCHANGED <<cells, entry, file, cache, pcache, taken, faults, stamp, saved, reg>>

BugBdFlush ==
  /\ Copied
  /\ file' = Flushed(file.pos, file.pos)
  /\ cache' = NoCache
  /\ Return
  /\ UNCHANGED <<cells, entry, pcache, taken, bad, faults, stamp, saved, reg>>

BdFlush ==
  /\ Copied
  /\ file' = Flushed(file.pos, reg.pos)
  /\ cache' = NoCache
  /\ Return
  /\ UNCHANGED <<cells, entry, pcache, taken, bad, faults, stamp, saved, reg>>

-----------------------------------------------------------------------------
(***************************************************************************)
(* The operations of a handle.                                             *)
(***************************************************************************)

\* lfs_file_write_
Write ==
  /\ stamp < MaxEdits
  /\ \E n \in WriteSizes :
       Begin("write", n, IF Has("reading") THEN "flush" ELSE "write",
             IF Has("reading") THEN <<"write", "idle">> ELSE <<"idle">>)
  /\ stamp' = stamp + 1
  /\ UNCHANGED <<entry, cache, pcache, bad, faults, saved>>

WritePos == IF Has("append") /\ file.pos < file.size THEN file.size ELSE file.pos
WriteData == [i \in 1 .. reg.arg |-> Byte(stamp, WritePos + i - 1)]

WriteTooBig ==
  /\ pc = "write" /\ WritePos + reg.arg > FileMax
  /\ file' = [file EXCEPT !.pos = WritePos]
  /\ reg' = Failed
  /\ Return
  /\ UNCHANGED <<cells, entry, cache, pcache, taken, bad, faults, stamp, saved>>

\* Writing past the end fills the gap with zeros first.
HasGap == ~Has("writing") /\ WritePos > file.size

WriteGap ==
  /\ pc = "write" /\ WritePos + reg.arg <= FileMax /\ HasGap
  /\ reg' = [reg EXCEPT !.fill = file.pos]
  /\ file' = [file EXCEPT !.pos = file.size]
  /\ Goto("fill")
  /\ UNCHANGED <<cells, entry, cache, pcache, taken, bad, faults, stamp, saved>>

WritePut ==
  /\ pc = "write" /\ WritePos + reg.arg <= FileMax /\ ~HasGap
  /\ file' = [file EXCEPT !.pos = WritePos]
  /\ reg' = [reg EXCEPT !.todo = WriteData]
  /\ CallThen("put", "wrote")
  /\ UNCHANGED <<cells, entry, cache, pcache, taken, bad, faults, stamp, saved>>

Fill ==
  /\ pc = "fill"
  /\ reg' = [reg EXCEPT !.todo = IF file.pos < reg.fill THEN <<Zero>> ELSE WriteData]
  /\ CallThen("put", IF file.pos < reg.fill THEN "fill" ELSE "wrote")
  /\ UNCHANGED <<cells, entry, file, cache, pcache, taken, bad, faults, stamp, saved>>

Wrote ==
  /\ pc = "wrote"
  /\ file' = [file EXCEPT !.flags = @ \ {"erred"}]
  /\ reg' = IF reg.op = "write" THEN Done ELSE reg
  /\ Return
  /\ UNCHANGED <<cells, entry, cache, pcache, taken, bad, faults, stamp, saved>>

\* lfs_file_read_ and lfs_file_flushedread, a turn of its loop.
Read ==
  /\ \E n \in ReadSizes :
       Begin("read", n, IF Has("writing") THEN "flush" ELSE "readstart",
             IF Has("writing") THEN <<"readstart", "idle">> ELSE <<"idle">>)
  /\ UNCHANGED <<entry, cache, pcache, bad, faults, stamp, saved>>

Remains == IF file.pos < file.size THEN file.size - file.pos ELSE 0
ReadStart ==
  /\ pc = "readstart"
  /\ reg' = [reg EXCEPT !.left = Lesser(reg.arg, Remains), !.got = NoBytes]
  /\ Goto("read")
  /\ UNCHANGED <<cells, entry, file, cache, pcache, taken, bad, faults, stamp, saved>>

Seeks == ~Has("reading") \/ file.off = BlockSize
Place == IF ~Seeks THEN [block |-> file.block, off |-> file.off]
         ELSE IF Has("inline") THEN [block |-> Inline, off |-> file.pos]
         ELSE lfs_ctz_find(cells, file.head, file.size, file.pos)

\* lfs_ctz_find fails, or the read of a block that was found before.
ReadFails ==
  /\ pc = "read" /\ reg.left > 0 /\ ~Has("inline")
  /\ IF Place.block \notin Blocks THEN UNCHANGED faults ELSE Faulty
  /\ Fail(InSync)
  /\ UNCHANGED <<entry, pcache, taken, bad, stamp, saved>>

\* The read after lfs_ctz_find fails: the handle has the place already.  Where a write
\* that failed is on the handle, this is left to ReadFails.
ReadDataFails ==
  /\ pc = "read" /\ reg.left > 0 /\ ~Has("inline") /\ ~Has("writing") /\ Place.block \in Blocks
  /\ Faulty
  /\ file' = [file EXCEPT !.block = Place.block, !.off = Place.off, !.flags = @ \cup {"reading"}]
  /\ reg' = Failed
  /\ pc' = "idle" /\ stack' = <<>>
  /\ UNCHANGED <<cells, entry, cache, pcache, taken, bad, stamp, saved>>

ReadTurn ==
  /\ pc = "read" /\ reg.left > 0
  /\ Has("inline") \/ Place.block \in Blocks
  /\ LET diff == Lesser(reg.left, BlockSize - Place.off)
         data == IF Has("inline") THEN file.data ELSE cells[Place.block]
         n == Cardinality(DOMAIN reg.got)
     IN  /\ reg' = [reg EXCEPT !.left = @ - diff,
                               !.got = [i \in 0 .. n + diff - 1 |->
                                          IF i < n THEN @[i] ELSE data[Place.off + i - n]]]
         /\ file' = [file EXCEPT !.block = Place.block, !.off = Place.off + diff,
                                 !.pos = @ + diff, !.flags = @ \cup {"reading"}]
  /\ UNCHANGED <<cells, entry, cache, pcache, taken, bad, faults, stamp, saved, pc, stack>>

ReadEnd ==
  /\ pc = "read" /\ reg.left = 0
  /\ Return
  /\ reg' = IF reg.op = "read" THEN [Done EXCEPT !.got = reg.got] ELSE reg
  /\ UNCHANGED <<cells, entry, file, cache, pcache, taken, bad, faults, stamp, saved>>

\* lfs_file_seek_, for the application and within a truncate.
Seek ==
  /\ \E p \in Targets : Begin("seek", p, "seek", <<"idle">>)
  /\ reg'.arg # file.pos
  /\ UNCHANGED <<entry, cache, pcache, bad, faults, stamp, saved>>

SeekTo == IF reg.op = "seek" THEN reg.arg ELSE reg.to
Leave == IF reg.op = "seek" \/ stack = <<"idle">> THEN Done ELSE reg

SeekNoop ==
  /\ pc = "seek" /\ file.pos = SeekTo
  /\ reg' = Leave
  /\ Return
  /\ UNCHANGED <<cells, entry, file, cache, pcache, taken, bad, faults, stamp, saved>>

\* A handle that reads need not flush if its cache has the new position.  What
\* the cache of a block has loaded is any part of it.
SameBlock == Index[file.pos].i = Index[SeekTo].i
BugInCache == Has("reading") /\ SameBlock

InCache == Has("reading") /\ file.off # BlockSize /\ SameBlock

SeekInCache ==
  /\ pc = "seek" /\ file.pos # SeekTo
  /\ InCache
  /\ Has("inline") => Index[SeekTo].off < CacheSize
  /\ file' = [file EXCEPT !.pos = SeekTo, !.off = Index[SeekTo].off]
  /\ reg' = Leave
  /\ Return
  /\ UNCHANGED <<cells, entry, cache, pcache, taken, bad, faults, stamp, saved>>

SeekFlush ==
  /\ pc = "seek" /\ file.pos # SeekTo
  /\ InCache /\ Has("inline") => Index[SeekTo].off >= CacheSize
  /\ CallThen("flush", "sought")
  /\ UNCHANGED <<cells, entry, file, cache, pcache, taken, bad, faults, stamp, saved, reg>>

Sought ==
  /\ pc = "sought"
  /\ file' = [file EXCEPT !.pos = SeekTo]
  /\ reg' = Leave
  /\ Return
  /\ UNCHANGED <<cells, entry, cache, pcache, taken, bad, faults, stamp, saved>>

\* lfs_file_truncate_: back to inline, a shorter list, or more zeros.
Truncate ==
  /\ stamp < MaxEdits
  /\ \E n \in Targets :
       /\ n # FileSize
       /\ IF n >= FileSize
          THEN Begin("grow", n, "seek", <<"growing", "idle">>)
          ELSE IF n <= InlineMax
          THEN Begin("shrink", n, "seek", <<"readstart", "revert", "idle">>)
          ELSE Begin("shrink", n, "flush", <<"cut", "idle">>)
  /\ stamp' = stamp + 1
  /\ UNCHANGED <<entry, cache, pcache, bad, faults, saved>>

Revert ==
  /\ pc = "revert"
  /\ file' = [file EXCEPT !.head = Inline, !.size = reg.arg,
                !.flags = @ \cup {"dirty", "reading", "inline"},
                !.data = [i \in 0 .. CacheSize - 1 |->
                            IF i < reg.arg THEN reg.got[i] ELSE Zero]]
  /\ cells' = Forget(cache) /\ cache' = NoCache
  /\ reg' = [reg EXCEPT !.to = reg.was.position]
  /\ Goto("seek")
  /\ UNCHANGED <<entry, pcache, taken, bad, faults, stamp, saved>>

NewHead == lfs_ctz_find(cells, file.head, file.size, reg.arg - 1).block

CutFails ==
  /\ pc = "cut"
  /\ IF NewHead \notin Blocks THEN UNCHANGED faults ELSE Faulty
  /\ Fail(InSync)
  /\ UNCHANGED <<entry, pcache, taken, bad, stamp, saved>>

Cut ==
  /\ pc = "cut" /\ NewHead \in Blocks
  /\ file' = [file EXCEPT !.pos = reg.arg, !.block = NewHead, !.head = NewHead,
                          !.size = reg.arg, !.flags = @ \cup {"dirty", "reading"}]
  /\ reg' = [reg EXCEPT !.to = reg.was.position]
  /\ Goto("seek")
  /\ UNCHANGED <<cells, entry, cache, pcache, taken, bad, faults, stamp, saved>>

\* By lfs_file_write_ of one zero after another.
Grow ==
  /\ pc = "growing" /\ file.pos < reg.arg
  /\ IF Has("reading") THEN CallThen("flush", "growing") /\ UNCHANGED reg
     ELSE /\ pc' = "put" /\ stack' = <<"wrote", "growing">> \o stack
          /\ reg' = [reg EXCEPT !.todo = <<Zero>>]
  /\ UNCHANGED <<cells, entry, file, cache, pcache, taken, bad, faults, stamp, saved>>

GrowEnd ==
  /\ pc = "growing" /\ file.pos = reg.arg
  /\ reg' = [reg EXCEPT !.to = reg.was.position]
  /\ Goto("seek")
  /\ UNCHANGED <<cells, entry, file, cache, pcache, taken, bad, faults, stamp, saved>>

\* lfs_file_sync_ and lfs_file_close_.
Sync ==
  /\ \E op \in {"sync", "close"} :
       Begin(op, 0, IF Has("erred") THEN "end" ELSE "flush",
             IF Has("erred") THEN <<"idle">> ELSE <<"commit", "idle">>)
  /\ UNCHANGED <<entry, cache, pcache, bad, faults, stamp, saved>>

\* lfs_bd_sync writes what lfs.pcache holds, whatever it is.
SyncDevice ==
  /\ pc = "commit" /\ Has("dirty") /\ ~Has("inline") /\ pcache # NoCache
  /\ cells' = [cells EXCEPT ![pcache.block] = [i \in DOMAIN @ |->
                           IF i \in DOMAIN pcache.data THEN pcache.data[i] ELSE @[i]]]
  /\ pcache' = NoCache
  /\ UNCHANGED <<entry, file, cache, taken, bad, faults, stamp, saved, pc, stack, reg>>

BugStruct == [type |-> "ctz", head |-> file.head, size |-> Larger(file.size, file.pos)]

Struct == IF Has("inline")
          THEN [type |-> "inline", data |-> Bytes(file.data, file.size)]
          ELSE [type |-> "ctz", head |-> file.head, size |-> file.size]

Commit ==
  /\ pc = "commit" /\ Has("dirty")
  /\ Has("inline") \/ pcache = NoCache
  /\ entry' = Struct
  /\ saved' = Content
  /\ file' = [file EXCEPT !.flags = @ \ {"dirty"}]
  /\ Goto("end")
  /\ UNCHANGED <<cells, cache, pcache, taken, bad, faults, stamp, reg>>

\* The device's sync fails; the handle does not remember it.
SyncFails ==
  /\ pc = "commit" /\ Has("dirty") /\ ~Has("inline") /\ Faulty
  /\ Fail({})
  /\ UNCHANGED <<entry, pcache, taken, bad, stamp, saved>>

\* lfs_dir_commit: no space, or no good block for the directory.
CommitFails ==
  /\ pc = "commit" /\ Has("dirty") /\ Faulty
  /\ Has("inline") \/ pcache = NoCache
  /\ Fail(InSync)
  /\ UNCHANGED <<entry, pcache, taken, bad, stamp, saved>>

CommitNothing ==
  /\ pc = "commit" /\ ~Has("dirty")
  /\ Goto("end")
  /\ UNCHANGED <<cells, entry, file, cache, pcache, taken, bad, faults, stamp, saved, reg>>

End ==
  /\ pc = "end"
  /\ IF reg.op = "close" THEN Gone
     ELSE Return /\ reg' = Done /\ UNCHANGED <<file, cache, cells>>
  /\ UNCHANGED <<entry, pcache, taken, bad, faults, stamp, saved>>

\* lfs_file_opencfg_ of a file that exists: what it loads, and its flags.
Opened(how) ==
  LET trunc == "trunc" \in how
      inline == trunc \/ entry.type = "inline"
      size == IF trunc THEN 0 ELSE IF inline THEN Cardinality(DOMAIN entry.data) ELSE entry.size
  IN  [NoFile EXCEPT !.open = TRUE, !.size = size,
         !.flags = (IF how \cap {"trunc", "attrs"} # {} THEN {"dirty"} ELSE {})
                   \cup (IF inline THEN {"inline"} ELSE {})
                   \cup (how \cap {"append"}),
         !.head = IF inline THEN Inline ELSE entry.head,
         !.data = IF ~inline THEN NoBytes
                  ELSE [i \in 0 .. CacheSize - 1 |-> IF i < size THEN entry.data[i] ELSE Zero]]

Open ==
  /\ pc = "idle" /\ ~file.open
  /\ \E how \in Opens : file' = Opened(how)
  /\ UNCHANGED <<cells, entry, cache, pcache, taken, bad, faults, stamp, saved, pc, stack, reg>>

\* An attribute is too big.  lfs_file_close_ commits what the handle has if an
\* attribute before it, or LFS_O_TRUNC, has set LFS_F_DIRTY: the list that was
\* loaded, the bytes of an inline file taken for one, or nothing yet.
OpenFails ==
  /\ pc = "idle" /\ ~file.open
  /\ \E how \in Opens :
       entry' = IF how \cap {"trunc", "attrs"} = {} THEN entry
                ELSE IF "trunc" \in how THEN [type |-> "ctz", head |-> NotABlock, size |-> 0]
                ELSE IF entry.type = "ctz" THEN entry
                ELSE [type |-> "ctz", head |-> NotABlock, size |-> Cardinality(DOMAIN entry.data)]
  /\ UNCHANGED <<cells, file, cache, pcache, taken, bad, faults, stamp, saved, pc, stack, reg>>

\* The power is lost; every block that is used again is erased first.
Crash ==
  /\ file.open \/ pc # "idle"
  /\ Gone
  /\ pcache' = NoCache /\ taken' = {}
  /\ UNCHANGED <<entry, bad, faults, stamp, saved>>

-----------------------------------------------------------------------------
Init ==
  /\ cells = [b \in Blocks |-> [i \in 0 .. BlockSize - 1 |-> Gap]]
  /\ entry = [type |-> "inline", data |-> NoBytes]
  /\ file = NoFile
  /\ cache = NoCache /\ pcache = NoCache
  /\ taken = {} /\ bad = {} /\ faults = 0 /\ stamp = 0
  /\ saved = NoBytes
  /\ pc = "idle" /\ stack = <<>> /\ reg = NoReg

Allocating ==
  \/ RelocateIsBad \/ RelocateNoSpace \/ Relocate
  \/ ExtendIsBad \/ ExtendNoSpace \/ Extend

Putting ==
  \/ Outline \/ Outlined \/ ChunkInline \/ ChunkFindFails \/ ChunkExtends
  \/ ProgIsBad \/ Prog

Flushing ==
  \/ FlushReads \/ FlushInline \/ FlushBlocks \/ CopyFails \/ Copy
  \/ BdFlushIsBad \/ BdFlush

Operating ==
  \/ WriteTooBig \/ WriteGap \/ WritePut \/ Fill \/ Wrote
  \/ ReadStart \/ ReadFails \/ ReadDataFails \/ ReadTurn \/ ReadEnd
  \/ SeekNoop \/ SeekInCache \/ SeekFlush \/ Sought
  \/ Revert \/ CutFails \/ Cut \/ Grow \/ GrowEnd
  \/ SyncFails \/ Commit \/ CommitFails \/ CommitNothing \/ End

Step == Allocating \/ Putting \/ Flushing \/ Operating

Next ==
  \/ Step
  \/ Write \/ Read \/ Seek \/ Truncate \/ Sync
  \/ Open \/ Crash

\* A call runs to its end: nothing else runs meanwhile.
Spec == Init /\ [][Next]_vars /\ WF_vars(Step)

\* With errors that the code does not clean up after: a read that fails while
\* a block is copied, and an open that fails.
NextUnclean == Next \/ RelocateReadFails \/ ExtendReadFails \/ SyncDevice \/ OpenFails
SpecUnclean == Init /\ [][NextUnclean]_vars

-----------------------------------------------------------------------------
Labels == {"idle", "panic", "relocate", "extend", "put", "outlined", "chunk", "flush", "copy",
           "write", "fill", "wrote", "readstart", "read", "seek", "sought", "revert", "cut",
           "growing", "commit", "end"}

\* Fields stay in range, the stack ends where the call began, a handle reads and
\* writes at once only after an error (a truncate to a size that fits inline,
\* from position 0, seeks nowhere and so flushes nothing), and a file that is
\* inline fits its cache.
TypeOK ==
  /\ \A b \in Blocks : DOMAIN cells[b] = 0 .. BlockSize - 1
  /\ entry.type = "ctz" => entry.size \in 1 .. FileMax /\ entry.head \in Blocks
  /\ entry.type = "inline" => Cardinality(DOMAIN entry.data) <= InlineMax
  /\ file.flags \subseteq Flags /\ file.block \in Blocks \cup {Inline}
  /\ {file.pos, file.size} \subseteq 0 .. FileMax /\ file.off \in 0 .. BlockSize
  /\ Has("reading") /\ Has("writing") => Has("erred")
  /\ Has("inline") => file.head \in Blocks \cup {Inline} /\ FileSize <= CacheSize
  /\ cache.block \in Blocks \cup {NotABlock} /\ pcache.block \in Blocks \cup {NotABlock}
  /\ taken \subseteq Blocks \cup {NotABlock} /\ bad \subseteq Blocks
  /\ faults \in 0 .. MaxTrouble /\ stamp \in 0 .. MaxEdits
  /\ pc \in Labels /\ (pc = "idle" <=> stack = <<>>)
  /\ \A i \in DOMAIN stack : stack[i] \in Labels /\ (stack[i] = "idle" <=> i = Len(stack))

\* What a committed entry leads to is what the handle held when it was
\* committed, byte for byte, whatever later writes, bad blocks, errors and power
\* losses do to blocks: none that it uses is erased or programmed again, and
\* all of it had reached the device (lfs_file_relocate, lfs_ctz_extend,
\* lfs_file_sync_).
SavedIsIntact == EntryContent = saved

\* A handle that reads or writes is where its position says (lfs_file_seek_,
\* lfs_file_truncate_: "set pos/block/off consistently").
PlaceIsCurrent ==
  pc = "idle" /\ ~reg.tainted /\ file.open /\ file.pos < file.size /\ ~Seeks /\ Has("reading")
  /\ ~Has("inline")
  => [block |-> file.block, off |-> file.off] = lfs_ctz_find(cells, file.head, file.size, file.pos)

\* Every call returns, however often blocks turn out bad: no block is offered
\* twice before a checkpoint (the loops of lfs_file_relocate, lfs_ctz_extend
\* and lfs_file_flush).
CallsReturn == pc # "idle" ~> pc \in {"idle", "panic"}

\* An open that fails leaves the file as it is (lfs_file_opencfg_).
FailedOpenKeepsFile == [][~file.open /\ ~file'.open => entry' = entry]_vars

\* Programs find the cache empty or at their block (lfs_bd_prog asserts it).
ProgFindsRoom == pc # "panic"

\* The handle and the entry implement PlainFile: between calls the bytes are
\* those of the lists, and during a call those from before it.
Idle == pc = "idle"
Promised == file.open /\ ~reg.tainted
Plain == INSTANCE PlainFile WITH
  MaxSize <- FileMax, Stamps <- 1 .. MaxEdits,
  status <- IF ~file.open THEN "closed" ELSE IF Promised THEN "open" ELSE "erred",
  content <- IF ~file.open THEN NoBytes ELSE IF ~Promised THEN Unknown
             ELSE IF Idle THEN Content ELSE reg.was.content,
  position <- IF ~Promised THEN 0 ELSE IF Idle THEN file.pos ELSE reg.was.position,
  call <- IF ~Promised \/ Idle THEN <<"none", 0>>
          ELSE <<IF reg.op \in {"grow", "shrink"} THEN "truncate" ELSE reg.op, reg.arg>>,
  got <- IF Promised /\ Idle THEN reg.got ELSE NoBytes,
  failed <- Promised /\ Idle /\ reg.op = "failed"

IsPlainFile == Plain!Spec
=============================================================================
