------------------------------- MODULE BdCache -------------------------------
(***************************************************************************)
(* The block device caches of littlefs-rust-core: bd/bd.rs.                *)
(*                                                                         *)
(* One read cache (lfs.rcache) and two program caches: lfs.pcache, "meta", *)
(* and the cache of an open file, "file".  lfs_bd_read takes each byte from *)
(* the program cache it is given, from the read cache or from the device;  *)
(* lfs_bd_prog collects bytes in a program cache and lfs_bd_flush writes    *)
(* them.  Each turn of a loop of these functions is an action.             *)
(*                                                                         *)
(* The callers program a block from its start, or from the end of its log, *)
(* upwards.  Files are programmed with validate, which reads back every    *)
(* flush; metadata without, and lfs_dir_commitcrc reads it back after      *)
(* lfs_bd_sync.  The bytes of one session have one value, its stamp, and a *)
(* cache holds a byte under its offset in the block.                       *)
(***************************************************************************)
EXTENDS Integers, FiniteSets

CONSTANTS
  Blocks,
  NoBlock,      \* LFS_BLOCK_NULL
  BlockSize, CacheSize, ReadSize, ProgSize,
  Chunk,        \* lfs_bd_cmp and lfs_bd_crc read 8 bytes at a time
  Stamps,       \* what a session programs
  Erased,       \* the value of an erased byte
  Lengths,      \* how many bytes a caller programs at once
  Reads,        \* <<offset, length, hint>> of the reads the callers make
  MaxBad        \* how many of the blocks may be bad

ASSUME BdAssumption ==
  /\ NoBlock \notin Blocks /\ Erased \notin Stamps
  /\ {BlockSize, CacheSize, ReadSize, ProgSize, Chunk} \subseteq Nat \ {0}
  /\ CacheSize % ReadSize = 0 /\ CacheSize % ProgSize = 0 /\ BlockSize % CacheSize = 0
  /\ Lengths \subseteq Nat \ {0} /\ MaxBad \in Nat
  /\ Reads \subseteq Nat \X Nat \X (Nat \ {0})      \* no caller reads with a hint of 0

VARIABLES
  disk,     \* the device: what each byte of each block holds
  health,   \* "good", "flaky": may report Corrupt, "frozen": ignores writes
  rcache,   \* lfs.rcache
  pcache,   \* lfs.pcache and the file's cache
  ses,      \* the blocks being programmed through each of them
  firm,     \* the callers' view: how many bytes of a block they rely on
  pc,       \* the function the call in progress is in
  reg,      \* registers of lfs_bd_prog, lfs_bd_flush and lfs_bd_sync
  rd        \* registers of lfs_bd_read, lfs_bd_cmp and lfs_bd_crc

vars == <<disk, health, rcache, pcache, ses, firm, pc, reg, rd>>

Offsets == 0 .. BlockSize - 1
Bytes == Stamps \cup {Erased}
Names == {"file", "meta"}
Blank == [i \in Offsets |-> Erased]

\* LfsCache: size bytes from off of a block.
NoCache == [block |-> NoBlock, off |-> 0, size |-> 0, data |-> Blank]
Caches == [block : Blocks \cup {NoBlock}, off : 0 .. BlockSize, size : 0 .. CacheSize,
           data : [Offsets -> Bytes]]

\* A block from its erase, or the end of its log, to the flush or read-back.
NoSession == [block |-> NoBlock, begin |-> 0, off |-> 0, validate |-> TRUE, stamp |-> Erased,
              state |-> "open"]
Sessions == [block : Blocks \cup {NoBlock}, begin : 0 .. BlockSize, off : 0 .. BlockSize,
             validate : BOOLEAN, stamp : Bytes, state : {"open", "synced", "kept"}]

NoReg == [op |-> "none", cache |-> "meta", off |-> 0, end |-> 0]
NoRead == [why |-> "none", passed |-> "none", block |-> NoBlock, off |-> 0, lim |-> 0,
           end |-> 0, hint |-> 0, current |-> TRUE, same |-> TRUE]

TypeOK ==
  /\ disk \in [Blocks -> [Offsets -> Bytes]]
  /\ health \in [Blocks -> {"good", "flaky", "frozen"}]
  /\ rcache \in Caches
  /\ pcache \in [Names -> Caches]
  /\ ses \in [Names -> Sessions]
  /\ firm \in [Blocks -> 0 .. BlockSize]
  /\ pc \in {"idle", "read", "prog", "flush", "failed"}
  /\ reg \in [op : {"none", "prog", "flush", "sync", "check"}, cache : Names,
              off : 0 .. BlockSize, end : 0 .. BlockSize]
  /\ rd \in [why : {"none", "read", "cmp", "check"}, passed : Names \cup {"none"},
             block : Blocks \cup {NoBlock}, off : 0 .. BlockSize, lim : 0 .. BlockSize,
             end : 0 .. BlockSize, hint : 0 .. 2 * BlockSize, current : BOOLEAN, same : BOOLEAN]

Least(a, b) == IF a < b THEN a ELSE b
Greatest(a, b) == IF a < b THEN b ELSE a
AlignDown(a, n) == a - (a % n)
AlignUp(a, n) == AlignDown(a + n - 1, n)

Fails(b) == health[b] = "flaky"

-----------------------------------------------------------------------------
(***************************************************************************)
(* lfs_bd_read: one action per turn of its loop.                           *)
(***************************************************************************)

\* The cache has bytes of the block at or after the offset that is read.
Ahead(c) == c.block = rd.block /\ rd.off < c.off + c.size
Hit(c) == Ahead(c) /\ c.off <= rd.off

Passed == IF rd.passed = "none" THEN NoCache ELSE pcache[rd.passed]

\* What is left to read, up to where a cache has bytes.
Left == rd.lim - rd.off
LeftBefore(c, n) == IF Ahead(c) THEN Least(n, c.off - rd.off) ELSE n
BeforeProg == LeftBefore(Passed, Left)
BeforeBoth == LeftBefore(rcache, BeforeProg)

\* What the reader should see, and what lfs_bd_cmp or the CRC compares with.
Visible(i) == IF rd.passed # "none" /\ Passed.block = rd.block
                 /\ Passed.off <= i /\ i < Passed.off + Passed.size
              THEN Passed.data[i] ELSE disk[rd.block][i]
Expected(i) == IF rd.why = "cmp" THEN pcache[reg.cache].data[i] ELSE ses[reg.cache].stamp

Deliver(n, data) ==
  LET range == rd.off .. rd.off + n - 1
  IN  rd' = [rd EXCEPT !.off = @ + n,
                       !.current = @ /\ \A i \in range : data[i] = Visible(i),
                       !.same = @ /\ (rd.why = "read" \/ \A i \in range : data[i] = Expected(i))]

ReadProgCache ==
  /\ pc = "read" /\ Left > 0
  /\ Hit(Passed)
  /\ Deliver(Least(Left, Passed.size - (rd.off - Passed.off)), Passed.data)
  /\ UNCHANGED <<disk, health, rcache, pcache, ses, firm, pc, reg>>

ReadReadCache ==
  /\ pc = "read" /\ Left > 0
  /\ ~Hit(Passed) /\ Hit(rcache)
  /\ Deliver(Least(BeforeProg, rcache.size - (rd.off - rcache.off)), rcache.data)
  /\ UNCHANGED <<disk, health, rcache, pcache, ses, firm, pc, reg>>

Misses == pc = "read" /\ Left > 0 /\ ~Hit(Passed) /\ ~Hit(rcache)

\* The device reads less than a unit.
BugBypasses == Left >= rd.hint /\ rd.off % ReadSize = 0

Bypasses == Left >= rd.hint /\ rd.off % ReadSize = 0 /\ Left >= ReadSize

ReadDevice ==
  /\ Misses /\ Bypasses
  /\ Deliver(AlignDown(BeforeBoth, ReadSize), disk[rd.block])
  /\ UNCHANGED <<disk, health, rcache, pcache, ses, firm, pc, reg>>

\* The hint is not cut to the size of the cache.
BugLoaded ==
  LET off == AlignDown(rd.off, ReadSize)
      end == Least(AlignUp(rd.off + rd.hint, ReadSize), BlockSize)
  IN  [block |-> rd.block, off |-> off, size |-> end - off, data |-> disk[rd.block]]

\* The read cache is loaded up to the hint; the next turn reads from it.
Loaded ==
  LET off == AlignDown(rd.off, ReadSize)
      end == Least(AlignUp(rd.off + rd.hint, ReadSize), BlockSize)
  IN  [block |-> rd.block, off |-> off, size |-> Least(end - off, CacheSize),
       data |-> disk[rd.block]]

FillReadCache ==
  /\ Misses /\ ~Bypasses
  /\ rcache' = [Loaded EXCEPT !.data = [i \in Offsets |->
        IF Loaded.off <= i /\ i < Loaded.off + Loaded.size THEN @[i] ELSE Erased]]
  /\ UNCHANGED <<disk, health, pcache, ses, firm, pc, reg, rd>>

\* A read that fails ends the call; what its caller does is Drop, or nothing if
\* it only reads.
EndRead(result) ==
  /\ pc' = IF result = "ok" \/ rd.why = "read" THEN "idle" ELSE "failed"
  /\ rd' = NoRead

\* The device reports Corrupt; a read cache that was not filled is dropped.
ReadFails ==
  /\ Misses
  /\ Fails(rd.block)
  /\ rcache' = IF Bypasses THEN rcache ELSE NoCache
  /\ EndRead("corrupt")
  /\ UNCHANGED <<disk, health, pcache, ses, firm, reg>>

ReadDone ==
  /\ pc = "read" /\ Left = 0 /\ rd.why = "read"
  /\ EndRead("ok")
  /\ UNCHANGED <<disk, health, rcache, pcache, ses, firm, reg>>

\* lfs_bd_cmp and lfs_bd_crc: the next chunk, with what is left of the hint.
NextChunk ==
  /\ pc = "read" /\ Left = 0 /\ rd.lim < rd.end
  /\ rd.why = "cmp" => rd.same
  /\ rd' = [rd EXCEPT !.lim = Least(@ + Chunk, rd.end), !.hint = @ - Least(@, Chunk)]
  /\ UNCHANGED <<disk, health, rcache, pcache, ses, firm, pc, reg>>

Mismatch ==
  /\ pc = "read" /\ Left = 0 /\ ~rd.same
  /\ rd.why = "cmp" \/ rd.lim = rd.end
  /\ EndRead("corrupt")
  /\ UNCHANGED <<disk, health, rcache, pcache, ses, firm, reg>>

-----------------------------------------------------------------------------
(***************************************************************************)
(* lfs_bd_prog, lfs_bd_flush, lfs_bd_sync.                                 *)
(***************************************************************************)

C == pcache[reg.cache]
S == ses[reg.cache]

Mapped == C.block = S.block /\ C.off <= reg.off /\ reg.off < C.off + CacheSize

\* Bytes go into the program cache; a full cache is flushed.
ProgCopy ==
  /\ pc = "prog" /\ reg.off < reg.end
  /\ Mapped
  /\ LET n == Least(reg.end - reg.off, CacheSize - (reg.off - C.off))
         range == reg.off .. reg.off + n - 1
         size == Greatest(C.size, reg.off + n - C.off)
     IN  /\ pcache' = [pcache EXCEPT ![reg.cache].size = size,
                          ![reg.cache].data = [i \in Offsets |-> IF i \in range THEN S.stamp ELSE @[i]]]
         /\ reg' = [reg EXCEPT !.off = @ + n]
         /\ pc' = IF size = CacheSize THEN "flush" ELSE "prog"
  /\ UNCHANGED <<disk, health, rcache, ses, firm, rd>>

ProgMap ==
  /\ pc = "prog" /\ reg.off < reg.end
  /\ C.block = NoBlock
  /\ pcache' = [pcache EXCEPT ![reg.cache] =
                  [NoCache EXCEPT !.block = S.block, !.off = AlignDown(reg.off, ProgSize)]]
  /\ UNCHANGED <<disk, health, rcache, ses, firm, pc, reg, rd>>

ProgDone ==
  /\ pc = "prog" /\ reg.off = reg.end
  /\ ses' = [ses EXCEPT ![reg.cache].off = reg.end]
  /\ pc' = "idle"
  /\ reg' = NoReg
  /\ UNCHANGED <<disk, health, rcache, pcache, firm, rd>>

\* The program cache is on the device, and read back if that was asked for.  A
\* file's session, or a commit's, ends with its last flush.
Flushed(cache) ==
  /\ pcache' = [pcache EXCEPT ![cache] = NoCache]
  /\ IF reg.op = "prog"
     THEN pc' = "prog" /\ UNCHANGED <<ses, reg, firm>>
     ELSE /\ pc' = "idle"
          /\ reg' = NoReg
          /\ ses' = IF S.validate THEN [ses EXCEPT ![cache] = NoSession]
                    ELSE [ses EXCEPT ![cache].state = "synced"]
          /\ UNCHANGED firm

FlushNothing ==
  /\ pc = "flush" /\ C.block = NoBlock
  /\ Flushed(reg.cache)
  /\ UNCHANGED <<disk, health, rcache, rd>>

\* The program units the cache covers; what lies beyond its bytes is padding.
Written(image) ==
  [i \in Offsets |-> IF C.off <= i /\ i < C.off + C.size THEN C.data[i]
                     ELSE IF C.off <= i /\ i < C.off + AlignUp(C.size, ProgSize) THEN Erased
                     ELSE image[i]]

DeviceWrite(b) ==
  disk' = IF health[b] = "frozen" THEN disk ELSE [disk EXCEPT ![b] = Written(@)]

\* The read cache is not dropped before the comparison.
BugFlushCompareCached ==
  /\ pc = "flush" /\ C.block # NoBlock /\ S.validate
  /\ DeviceWrite(C.block)
  /\ LET diff == AlignUp(C.size, ProgSize)
     IN  rd' = [why |-> "cmp", passed |-> "none", block |-> C.block, off |-> C.off,
                lim |-> C.off + Least(Chunk, diff), end |-> C.off + diff, hint |-> diff,
                current |-> TRUE, same |-> TRUE]
  /\ pc' = "read"
  /\ UNCHANGED <<health, rcache, pcache, ses, firm, reg>>

\* Nothing is read back.
BugFlushUnvalidated ==
  /\ pc = "flush" /\ C.block # NoBlock /\ S.validate
  /\ DeviceWrite(C.block)
  /\ Flushed(reg.cache)
  /\ UNCHANGED <<health, rcache, rd>>

\* The block is written; the read cache is dropped before it is compared.
FlushValidated ==
  /\ pc = "flush" /\ C.block # NoBlock /\ S.validate
  /\ DeviceWrite(C.block)
  /\ rcache' = NoCache
  /\ LET diff == AlignUp(C.size, ProgSize)
     IN  rd' = [why |-> "cmp", passed |-> "none", block |-> C.block, off |-> C.off,
                lim |-> C.off + Least(Chunk, diff), end |-> C.off + diff, hint |-> diff,
                current |-> TRUE, same |-> TRUE]
  /\ pc' = "read"
  /\ UNCHANGED <<health, pcache, ses, firm, reg>>

Validated ==
  /\ pc = "read" /\ rd.why = "cmp" /\ Left = 0 /\ rd.lim = rd.end /\ rd.same
  /\ Flushed(reg.cache)
  /\ rd' = NoRead
  /\ UNCHANGED <<disk, health, rcache>>

Flush ==
  /\ pc = "flush" /\ C.block # NoBlock /\ ~S.validate
  /\ DeviceWrite(C.block)
  /\ Flushed(reg.cache)
  /\ UNCHANGED <<health, rcache, rd>>

FlushFails ==
  /\ pc = "flush" /\ C.block # NoBlock
  /\ Fails(C.block)
  /\ pc' = "failed"
  /\ UNCHANGED <<disk, health, rcache, pcache, ses, firm, reg, rd>>

-----------------------------------------------------------------------------
(***************************************************************************)
(* The callers: file/ops.rs, file/ctz.rs, dir/commit.rs, dir/fetch.rs.     *)
(* They use one block for one thing at a time, and read what they rely on. *)
(***************************************************************************)

InSession(b) == \E c \in Names : ses[c].block = b
Start(b, n, validate, s) ==
  [block |-> b, begin |-> n, off |-> n, validate |-> validate, stamp |-> s, state |-> "open"]

\* A commit runs from its erase, or its append, to its read-back, and nothing
\* else is written meanwhile.
NoCommit == pc = "idle" /\ ses["meta"] = NoSession

\* lfs_bd_erase, before a block is programmed from its start: for a file through
\* its cache (lfs_ctz_extend) or through lfs.pcache (lfs_file_relocate), for
\* metadata by lfs_dir_compact.  The block is free, or the older of a pair, and
\* the caller has read another block since it read this one.
EraseCall(c, b, validate) ==
  /\ NoCommit /\ ses[c] = NoSession /\ ~InSession(b)
  /\ c = "file" => validate
  /\ ~validate => rcache.block # b
  /\ disk' = IF health[b] = "frozen" THEN disk ELSE [disk EXCEPT ![b] = Blank]
  /\ \E s \in Stamps : ses' = [ses EXCEPT ![c] = Start(b, 0, validate, s)]
  /\ firm' = [firm EXCEPT ![b] = IF validate THEN BlockSize ELSE 0]
  /\ UNCHANGED <<health, rcache, pcache, pc, reg, rd>>

EraseFails(b) ==
  /\ NoCommit /\ ~InSession(b) /\ Fails(b)
  /\ firm' = [firm EXCEPT ![b] = 0]
  /\ UNCHANGED <<disk, health, rcache, pcache, ses, pc, reg, rd>>

\* lfs_dir_relocatingcommit appends to a log whose end is erased.
AppendCall(b) ==
  /\ NoCommit /\ ~InSession(b) /\ firm[b] = BlockSize
  /\ \E n \in 1 .. BlockSize - 1, s \in Stamps :
       /\ n % ProgSize = 0
       /\ disk[b][n - 1] # Erased /\ \A i \in n .. BlockSize - 1 : disk[b][i] = Erased
       /\ ses' = [ses EXCEPT !["meta"] = Start(b, n, FALSE, s)]
       /\ firm' = [firm EXCEPT ![b] = n]
  /\ UNCHANGED <<disk, health, rcache, pcache, pc, reg, rd>>

ProgCall(c, n) ==
  /\ pc = "idle" /\ ses[c].block # NoBlock /\ ses[c].state = "open"
  /\ c = "file" => NoCommit
  /\ ses[c].off + n <= BlockSize
  /\ reg' = [op |-> "prog", cache |-> c, off |-> ses[c].off, end |-> ses[c].off + n]
  /\ pc' = "prog"
  /\ UNCHANGED <<disk, health, rcache, pcache, ses, firm, rd>>

\* lfs_file_flush, at the end of what was written.
FlushCall ==
  /\ NoCommit /\ ses["file"].off > 0 /\ ses["file"].state = "open"
  /\ reg' = [NoReg EXCEPT !.op = "flush", !.cache = "file"]
  /\ pc' = "flush"
  /\ UNCHANGED <<disk, health, rcache, pcache, ses, firm, rd>>

\* lfs_bd_sync, from lfs_dir_commitcrc.
SyncCall ==
  /\ pc = "idle" /\ ~ses["meta"].validate /\ ses["meta"].state = "open"
  /\ ses["meta"].off > ses["meta"].begin
  /\ rcache' = NoCache
  /\ reg' = [NoReg EXCEPT !.op = "sync", !.cache = "meta"]
  /\ pc' = "flush"
  /\ UNCHANGED <<disk, health, pcache, ses, firm, rd>>

\* lfs_dir_commitcrc's lfs_bd_crc over the commit it has synced.
CheckCall ==
  /\ pc = "idle" /\ ses["meta"].state = "synced"
  /\ LET s == ses["meta"]
     IN  rd' = [why |-> "check", passed |-> "none", block |-> s.block, off |-> s.begin,
                lim |-> s.begin + Least(Chunk, s.off - s.begin), end |-> s.off,
                hint |-> s.off, current |-> TRUE, same |-> TRUE]
  /\ reg' = [NoReg EXCEPT !.op = "check"]
  /\ pc' = "read"
  /\ UNCHANGED <<disk, health, rcache, pcache, ses, firm>>

Checked ==
  /\ pc = "read" /\ rd.why = "check" /\ Left = 0 /\ rd.lim = rd.end /\ rd.same
  /\ firm' = [firm EXCEPT ![S.block] = BlockSize]
  /\ ses' = [ses EXCEPT !["meta"] = NoSession]
  /\ pc' = "idle" /\ reg' = NoReg /\ rd' = NoRead
  /\ UNCHANGED <<disk, health, rcache, pcache>>

Read(b, off, n, hint, passed) ==
  /\ off + n <= BlockSize
  /\ rd' = [why |-> "read", passed |-> passed, block |-> b, off |-> off, lim |-> off + n,
            end |-> off + n, hint |-> Least(hint, BlockSize), current |-> TRUE, same |-> TRUE]
  /\ pc' = "read"
  /\ UNCHANGED <<disk, health, rcache, pcache, ses, firm, reg>>

\* A block in use; a file's block that is being written is read with its cache.
ReadCall(b, off, n, hint) ==
  /\ pc = "idle"
  /\ off + n <= firm[b]
  /\ b # ses["meta"].block
  /\ \/ b # ses["file"].block /\ Read(b, off, n, hint, "none")
     \/ off + n <= ses["file"].off /\ Read(b, off, n, hint, "file")

\* lfs_dir_commitcrc looks at the erased bytes behind its commit.
ReadAhead ==
  LET s == ses["meta"]
  IN  /\ pc = "idle" /\ ~s.validate /\ s.state = "open" /\ s.off > s.begin
      /\ AlignUp(s.off, ProgSize) < BlockSize
      /\ Read(s.block, AlignUp(s.off, ProgSize), 1, ProgSize, "none")

\* After Corrupt: the cache is dropped and the block given up ...
Drop ==
  /\ pc = "failed"
  /\ firm' = [firm EXCEPT ![S.block] = Least(@, S.begin)]
  /\ pcache' = [pcache EXCEPT ![reg.cache] = NoCache]
  /\ ses' = [ses EXCEPT ![reg.cache] = NoSession]
  /\ pc' = "idle" /\ reg' = NoReg
  /\ UNCHANGED <<disk, health, rcache, rd>>

\* ... or lfs_file_relocate copies what the file has of it to a new block,
Keep ==
  /\ pc = "failed" /\ reg.cache = "file"
  /\ ses' = [ses EXCEPT !["file"].state = "kept"]
  /\ pc' = "idle" /\ reg' = NoReg
  /\ UNCHANGED <<disk, health, rcache, pcache, firm, rd>>

\* lfs.pcache keeps the block.
BugHandOver ==
  /\ pc = "idle" /\ ses["meta"].validate /\ ses["meta"].off > 0
  /\ pcache' = [pcache EXCEPT !["file"] = pcache["meta"]]
  /\ ses' = [file |-> ses["meta"], meta |-> NoSession]
  /\ firm' = [b \in Blocks |-> IF b = ses["file"].block THEN 0 ELSE firm[b]]
  /\ UNCHANGED <<disk, health, rcache, pc, reg, rd>>

\* and takes over lfs.pcache with what is not flushed yet.
HandOver ==
  /\ pc = "idle" /\ ses["meta"].validate /\ ses["meta"].off > 0
  /\ pcache' = [file |-> pcache["meta"], meta |-> NoCache]
  /\ ses' = [file |-> ses["meta"], meta |-> NoSession]
  /\ firm' = [b \in Blocks |-> IF b = ses["file"].block THEN 0 ELSE firm[b]]
  /\ UNCHANGED <<disk, health, rcache, pc, reg, rd>>

Init ==
  /\ disk \in [Blocks -> {[i \in Offsets |-> s] : s \in Bytes}]
  /\ health \in {h \in [Blocks -> {"good", "flaky", "frozen"}] :
                  Cardinality({b \in Blocks : h[b] # "good"}) <= MaxBad}
  /\ rcache = NoCache
  /\ pcache = [c \in Names |-> NoCache]
  /\ ses = [c \in Names |-> NoSession]
  /\ firm = [b \in Blocks |-> BlockSize]
  /\ pc = "idle" /\ reg = NoReg /\ rd = NoRead

\* A call in progress.
Step ==
  \/ ReadProgCache \/ ReadReadCache \/ ReadDevice \/ FillReadCache \/ ReadFails
  \/ ReadDone \/ NextChunk \/ Mismatch \/ Validated \/ Checked
  \/ ProgCopy \/ ProgMap \/ ProgDone
  \/ FlushNothing \/ FlushValidated \/ Flush \/ FlushFails

Next ==
  \/ Step
  \/ \E c \in Names, b \in Blocks, validate \in BOOLEAN : EraseCall(c, b, validate)
  \/ \E b \in Blocks : EraseFails(b) \/ AppendCall(b)
  \/ \E c \in Names, n \in Lengths : ProgCall(c, n)
  \/ \E b \in Blocks, r \in Reads : ReadCall(b, r[1], r[2], r[3])
  \/ ReadAhead \/ FlushCall \/ SyncCall \/ CheckCall
  \/ Drop \/ Keep \/ HandOver

Spec == Init /\ [][Next]_vars

-----------------------------------------------------------------------------
(***************************************************************************)
(* Properties.                                                             *)
(***************************************************************************)

\* A turn of lfs_bd_read's loop that goes to the device gets at least one byte,
\* or loads the byte that is wanted; otherwise the loop would not end.
ReadsAdvance ==
  Misses => IF Bypasses THEN AlignDown(BeforeBoth, ReadSize) > 0
            ELSE Loaded.off <= rd.off /\ rd.off < Loaded.off + Loaded.size

\* Every byte lfs_bd_read returns is the one in the program cache it was given,
\* or else the one on the device now: the read cache is never stale for a block
\* that is read, though no erase and no unvalidated flush touches it; and its loop
\* gets on.
ReadsAreCurrent == rd.current /\ ReadsAdvance

\* lfs_bd_prog finds its program cache empty, or holding the bytes before.
ProgFindsRoom == pc = "prog" /\ reg.off < reg.end => Mapped \/ C.block = NoBlock

\* The caches are invisible: a caller sees a device on which what it programmed
\* is there at once, and is lost only where PlainDevice says.
Overlay == [b \in Blocks |-> [i \in Offsets |->
  IF \E c \in Names : /\ ses[c].block = b /\ pcache[c].block = b
                      /\ pcache[c].off <= i /\ i < pcache[c].off + pcache[c].size
  THEN pcache[CHOOSE c \in Names : ses[c].block = b /\ pcache[c].block = b].data[i]
  ELSE disk[b][i]]]
Plain == INSTANCE PlainDevice WITH
  mem <- Overlay, open <- {ses[c].block : c \in Names} \ {NoBlock}, firm <- firm
CachesAreInvisible == Plain!Spec
=============================================================================
