--------------------------- MODULE BlockAllocProofs ---------------------------
(***************************************************************************)
(* What the allocator guarantees for every device size, lookahead size,    *)
(* traversal and order of calls.  The device is not resized (Spec, not     *)
(* SpecGrow): NewCounts plays no part.                                     *)
(***************************************************************************)
EXTENDS BlockAlloc, TLAPS

IInv == TypeOK /\ CkpointCoversWindow /\ AllocInv

-----------------------------------------------------------------------------
(***************************************************************************)
(* The window arithmetic of alloc.rs: ModAdd and ModSub are the remainders *)
(* of lfs_alloc and lfs_alloc_lookahead.                                   *)
(***************************************************************************)

\* The block of an offset is a block of the device.
LEMMA ModAddRange ==
  ASSUME NEW n \in Nat \ {0}, NEW s \in 0 .. n - 1, NEW o \in 0 .. n
  PROVE  ModAdd(n, s, o) \in 0 .. n - 1
BY DEF ModAdd

\* Offset 0 is the first block of the window.
LEMMA ModAddZero ==
  ASSUME NEW n \in Nat \ {0}, NEW s \in 0 .. n - 1
  PROVE  ModAdd(n, s, 0) = s
BY DEF ModAdd

\* lfs_alloc_lookahead's offset is in the range of lfs_alloc's cursor.
LEMMA ModSubRange ==
  ASSUME NEW n \in Nat \ {0}, NEW s \in 0 .. n - 1, NEW b \in 0 .. n - 1
  PROVE  ModSub(n, b, s) \in 0 .. n - 1
BY DEF ModSub

\* lfs_alloc_lookahead marks the offset that lfs_alloc reads for a block...
LEMMA ModSubOfAdd ==
  ASSUME NEW n \in Nat \ {0}, NEW s \in 0 .. n - 1, NEW o \in 0 .. n - 1
  PROVE  ModSub(n, ModAdd(n, s, o), s) = o
BY DEF ModAdd, ModSub

\* ... and no two blocks share an offset.
LEMMA ModAddOfSub ==
  ASSUME NEW n \in Nat \ {0}, NEW s \in 0 .. n - 1, NEW b \in 0 .. n - 1
  PROVE  ModAdd(n, s, ModSub(n, b, s)) = b
BY DEF ModAdd, ModSub

\* Moving the cursor from offset i to offset j brings the blocks it has not
\* passed j - i closer, and takes those it passes to the far end.
LEMMA CursorMoves ==
  ASSUME NEW n \in Nat \ {0}, NEW s \in 0 .. n - 1, NEW b \in 0 .. n - 1,
         NEW i \in 0 .. n, NEW j \in i .. n,
         NEW d, d = ModSub(n, b, ModAdd(n, s, i))
  PROVE  /\ ModSub(n, b, ModAdd(n, s, j)) =
              IF d >= j - i THEN d - (j - i) ELSE d - (j - i) + n
         /\ d < j - i => b = ModAdd(n, s, i + d)
BY DEF ModAdd, ModSub

-----------------------------------------------------------------------------
(***************************************************************************)
(* The invariant holds after mount and is preserved by every step.         *)
(***************************************************************************)

\* lfs_alloc_scan moves the window to a block of the device.
LEMMA CursorInDevice == TypeOK => next \in 0 .. count /\ BlockAt(next) \in Blocks
<1> SUFFICES ASSUME TypeOK PROVE next \in 0 .. count /\ BlockAt(next) \in Blocks
  OBVIOUS
<1>1. next \in 0 .. count /\ count \in Nat \ {0} /\ start \in 0 .. count - 1
  BY AllocAssumption DEF TypeOK, MinOf
<1> QED
  BY <1>1, ModAddRange DEF BlockAt, Blocks

\* After lfs_alloc_drop the window is empty and every block is within reach of
\* the checkpoint: the invariant says nothing yet.
LEMMA EmptyWindow ==
  TypeOK /\ size = 0 /\ ckpoint = count /\ inflight = {} => IInv
<1> SUFFICES ASSUME TypeOK, size = 0, ckpoint = count, inflight = {} PROVE IInv
  OBVIOUS
<1>1. next = 0
  BY DEF TypeOK, MinOf
<1>2. \A b \in Blocks : ModSub(count, b, start) \in 0 .. count - 1
  BY ModSubRange DEF TypeOK, Blocks
<1>3. BlockAt(next) = start
  BY <1>1, ModAddZero DEF BlockAt, TypeOK
<1>4. PassedAccounted
  BY <1>2, <1>3 DEF PassedAccounted, OffsetFrom, TypeOK, Blocks
<1> QED
  BY <1>1, <1>4 DEF IInv, AllocInv, CkpointCoversWindow, WindowSound, InflightBehind, TypeOK

\* The same of the state after a step.
LEMMA EmptyWindowNext ==
  (TypeOK /\ size = 0 /\ ckpoint = count /\ inflight = {})' => IInv'
BY EmptyWindow, PTL

\* A mounted filesystem satisfies the invariant.
LEMMA InitIInv == Init => IInv
<1> SUFFICES ASSUME Init PROVE IInv
  OBVIOUS
<1>1. TypeOK
  BY AllocAssumption DEF Init, TypeOK, MinOf, Blocks, NoBlock
<1> QED
  BY <1>1, EmptyWindow DEF Init

-----------------------------------------------------------------------------
(***************************************************************************)
(* One lemma for each step that moves the window or the cursor.            *)
(***************************************************************************)

\* A new mount forgets the window, the checkpoint and the blocks in flight.
LEMMA RemountIInv == IInv /\ Remount => IInv'
<1> SUFFICES ASSUME IInv, NEW u \in SUBSET (used \cup inflight), Mounted(count, u), count' = count
             PROVE  IInv'
  BY DEF Remount
<1>1. TypeOK'
  BY AllocAssumption DEF IInv, Mounted, TypeOK, MinOf, Blocks, NoBlock
<1> QED
  BY <1>1, EmptyWindowNext DEF Mounted

\* A failed scan drops the window, and the operation its blocks with it.
LEMMA ScanFailsIInv ==
  ASSUME IInv, ScanFails, pc' \in {"idle", "search"}, ret' = ret \/ ret' = Corrupt
  PROVE  IInv'
<1>1. ScanStart \in Blocks
  BY CursorInDevice DEF IInv, ScanStart
<1>2. TypeOK'
  BY <1>1, AllocAssumption
     DEF IInv, ScanFails, TypeOK, MinOf, Blocks
<1> QED
  BY <1>2, EmptyWindowNext DEF ScanFails

\* lfs_alloc_scan rebuilds the window at the cursor.
LEMMA ScanIInv ==
  ASSUME IInv, Scan, pc' = pc, ret' = ret
  PROVE  IInv'
<1>a. /\ count \in Nat \ {0} /\ ckpoint \in 0 .. count
      /\ Lookahead \in Nat \ {0}
      /\ used \subseteq Blocks /\ inflight \subseteq Blocks /\ freed \subseteq Blocks
  BY AllocAssumption DEF IInv, TypeOK
<1>b. /\ count' = count /\ ckpoint' = ckpoint /\ used' = used /\ inflight' = inflight
      /\ start' = ScanStart /\ size' = ScanSize /\ next' = 0
  BY DEF Scan
<1>1. ScanStart \in Blocks
  BY CursorInDevice DEF IInv, ScanStart
<1>2. ScanSize \in 0 .. MinOf(Lookahead, count) /\ ScanSize <= ckpoint /\ ScanSize <= Lookahead
  BY <1>a DEF ScanSize, MinOf
<1>3. \A b \in Blocks : OffsetFrom(ScanStart, b) \in 0 .. count - 1
  BY <1>a, <1>1, ModSubRange DEF OffsetFrom, Blocks
<1>4. TypeOK'
  <2>1. marked' \subseteq 0 .. Lookahead - 1
    BY <1>a, <1>2, <1>3 DEF Scan, InScan
  <2>2. freed' \subseteq Blocks
    BY <1>a DEF Scan
  <2> QED
    BY <1>a, <1>b, <1>1, <1>2, <2>1, <2>2 DEF IInv, TypeOK, Blocks
<1>5. CkpointCoversWindow'
  BY <1>a, <1>b, <1>2 DEF CkpointCoversWindow, MinOf
<1>6. BlockAt(next)' = ScanStart
  BY <1>a, <1>b, <1>1, ModAddZero DEF BlockAt, Blocks
<1>7. \A b \in Blocks : OffsetFrom(BlockAt(next), b)' = OffsetFrom(ScanStart, b)
  BY <1>b, <1>6 DEF OffsetFrom
<1>8. WindowSound'
  <2> SUFFICES ASSUME NEW o \in 0 .. ScanSize - 1
               PROVE  IF o \in marked' THEN BlockAt(o)' \in used \cup inflight \cup freed'
                                       ELSE BlockAt(o)' \notin used \cup inflight
    BY <1>b DEF WindowSound
  <2> DEFINE B == ModAdd(count, ScanStart, o)
  <2>1. BlockAt(o)' = B
    BY <1>b DEF BlockAt
  <2>2. o \in 0 .. count - 1 /\ o < ckpoint
    BY <1>a, <1>2 DEF MinOf
  <2>3. B \in Blocks /\ OffsetFrom(ScanStart, B) = o
    BY <1>a, <1>1, <2>2, ModAddRange, ModSubOfAdd DEF Blocks, OffsetFrom
  <2> HIDE DEF B
  <2>4. InScan(B)
    BY <2>3, <1>a, <1>2 DEF InScan
  <2>5. B \notin inflight
    BY <2>2, <2>3, <1>a DEF IInv, AllocInv, InflightBehind, ScanStart
  <2>6. ASSUME NEW v \in used, OffsetFrom(ScanStart, v) = o
        PROVE  v = B
    BY <2>6, <1>a, <1>1, ModAddOfSub DEF B, OffsetFrom, Blocks
  <2>7. o \in marked' <=> B \in used
    BY <2>3, <2>4, <2>6 DEF Scan
  <2> QED
    BY <2>1, <2>5, <2>7
<1>9. InflightBehind'
  BY <1>a, <1>b, <1>7 DEF IInv, AllocInv, InflightBehind, ScanStart
<1>10. PassedAccounted'
  <2> SUFFICES ASSUME NEW b \in Blocks, OffsetFrom(ScanStart, b) >= ckpoint
               PROVE  b \in used \cup inflight \cup freed'
    BY <1>b, <1>7 DEF PassedAccounted, Blocks
  <2>1. b \in used \cup inflight \cup freed
    BY DEF IInv, AllocInv, PassedAccounted, ScanStart
  <2>2. ~InScan(b)
    BY <1>a, <1>2, <1>3 DEF InScan, MinOf
  <2> QED
    BY <2>1, <2>2 DEF Scan
<1> QED
  BY <1>4, <1>5, <1>8, <1>9, <1>10 DEF IInv, AllocInv

\* lfs_alloc moves the cursor over marked blocks, after the block at the cursor
\* itself, which is marked or taken.
LEMMA AdvanceIInv ==
  ASSUME IInv,
         NEW n \in next + 1 .. size, next' = n, ckpoint' = ckpoint - (n - next),
         \A o \in next + 1 .. n - 1 : o \in marked,
         UNCHANGED <<count, start, size, marked, used>>,
         \/ next \in marked /\ inflight' = inflight /\ freed' = freed
         \/ /\ next \notin marked
            /\ inflight' = inflight \cup {BlockAt(next)}
            /\ freed' = freed \ {BlockAt(next)}
  PROVE  CkpointCoversWindow' /\ AllocInv'
<1> DEFINE here == BlockAt(next)
           accounted == used \cup inflight \cup freed
<1>a. /\ count \in Nat \ {0} /\ start \in 0 .. count - 1 /\ ckpoint \in 0 .. count
      /\ size \in 0 .. count /\ next \in 0 .. size
      /\ used \subseteq Blocks /\ inflight \subseteq Blocks
      /\ size - next <= ckpoint
  BY AllocAssumption DEF IInv, TypeOK, MinOf, CkpointCoversWindow
<1>b. n \in 1 .. count /\ n - next \in 1 .. ckpoint /\ next \in 0 .. count - 1
  BY <1>a
<1>1. \A o : BlockAt(o)' = BlockAt(o)
  BY DEF BlockAt
<1>2. \A b \in Blocks : OffsetFrom(BlockAt(next), b)' = OffsetFrom(BlockAt(n), b)
  <2>1. BlockAt(next)' = BlockAt(n)
    BY DEF BlockAt
  <2> QED
    BY <2>1 DEF OffsetFrom
<1>3. here \in Blocks /\ BlockAt(n) \in Blocks
  <2>1. next \in 0 .. count /\ n \in 0 .. count
    BY <1>a, <1>b
  <2> QED
    BY <2>1, <1>a, ModAddRange DEF BlockAt, Blocks
<1>4. ASSUME NEW b \in Blocks
      PROVE  LET d == OffsetFrom(here, b)
             IN  /\ d \in 0 .. count - 1
                 /\ OffsetFrom(BlockAt(n), b) =
                      IF d >= n - next THEN d - (n - next) ELSE d - (n - next) + count
                 /\ d < n - next => b = BlockAt(next + d)
  <2> DEFINE d == OffsetFrom(here, b)
  <2>1. d \in 0 .. count - 1
    BY <1>a, <1>3, ModSubRange DEF Blocks, OffsetFrom
  <2>2. next \in 0 .. count /\ n \in next .. count /\ b \in 0 .. count - 1
    BY <1>a, <1>b DEF Blocks
  <2>3. d = ModSub(count, b, ModAdd(count, start, next))
    BY DEF OffsetFrom, BlockAt
  <2> QED
    BY SMTT(30), <2>1, <2>2, <2>3, <1>a, CursorMoves DEF OffsetFrom, BlockAt
<1>5. \A b \in used' \cup inflight' : b \in used \cup inflight \/ b = here
  OBVIOUS
<1>6. accounted \subseteq (used \cup inflight \cup freed)'
  BY DEF accounted
<1>7. CkpointCoversWindow'
  BY <1>a, <1>b DEF CkpointCoversWindow
<1>8. WindowSound'
  <2> SUFFICES ASSUME NEW o \in n .. size - 1
               PROVE  IF o \in marked THEN BlockAt(o) \in (used \cup inflight \cup freed)'
                                      ELSE BlockAt(o) \notin used' \cup inflight'
    BY <1>1 DEF WindowSound
  <2>1. o \in next .. size - 1 /\ o \in 0 .. count - 1 /\ o # next
    BY <1>a, <1>b
  <2>2. BlockAt(o) # here
    BY <2>1, <1>a, <1>b, ModSubOfAdd DEF BlockAt
  <2>3. IF o \in marked THEN BlockAt(o) \in accounted ELSE BlockAt(o) \notin used \cup inflight
    BY <2>1 DEF IInv, AllocInv, WindowSound
  <2> QED
    BY <2>2, <2>3, <1>5, <1>6
<1>9. InflightBehind'
  <2> SUFFICES ASSUME NEW b \in inflight' PROVE OffsetFrom(BlockAt(n), b) >= ckpoint - (n - next)
    BY <1>2, <1>a, <1>3 DEF InflightBehind
  <2>1. CASE b \in inflight
    <3>1. OffsetFrom(here, b) >= ckpoint /\ b \in Blocks
      BY <2>1, <1>a DEF IInv, AllocInv, InflightBehind
    <3> QED
      BY <3>1, <1>4, <1>a, <1>b
  <2>2. CASE b = here
    <3>1. OffsetFrom(here, b) = 0
      BY <2>2, <1>a, <1>3 DEF OffsetFrom, ModSub, Blocks
    <3> QED
      BY <3>1, <2>2, <1>3, <1>4, <1>a, <1>b
  <2> QED
    BY <2>1, <2>2
<1>10. PassedAccounted'
  <2> SUFFICES ASSUME NEW b \in Blocks, OffsetFrom(BlockAt(n), b) >= ckpoint - (n - next)
               PROVE  b \in (used \cup inflight \cup freed)'
    BY <1>2 DEF PassedAccounted, Blocks
  <2> DEFINE d == OffsetFrom(here, b)
  <2>1. CASE d >= n - next
    <3>1. d >= ckpoint
      BY <2>1, <1>4, <1>a, <1>b
    <3> QED
      BY <3>1, <1>6 DEF IInv, AllocInv, PassedAccounted
  <2>2. CASE d < n - next /\ d > 0
    <3>1. next + d \in next + 1 .. n - 1 /\ next + d \in next .. size - 1 /\ b = BlockAt(next + d)
      BY <2>2, <1>4, <1>a, <1>b
    <3>2. b \in accounted
      BY <3>1 DEF IInv, AllocInv, WindowSound
    <3> QED
      BY <3>2, <1>6
  <2>3. CASE d = 0
    <3>1. b = BlockAt(next + 0) /\ next + 0 = next /\ next \in next .. size - 1
      BY <2>3, <1>4, <1>a, <1>b
    <3>2. next \in marked => here \in accounted
      BY <3>1 DEF IInv, AllocInv, WindowSound
    <3> QED
      BY <3>1, <3>2, <1>6
  <2> QED
    BY <2>1, <2>2, <2>3, <1>4, <1>a, <1>b
<1> QED
  BY <1>7, <1>8, <1>9, <1>10 DEF AllocInv

-----------------------------------------------------------------------------
(***************************************************************************)
(* The theorems.                                                           *)
(***************************************************************************)

\* Every step preserves the invariant.
LEMMA NextIInv == IInv /\ [Next]_vars => IInv'
<1> SUFFICES ASSUME IInv, [Next]_vars PROVE IInv'
  OBVIOUS
<1>a. /\ count \in Nat \ {0} /\ start \in 0 .. count - 1 /\ ckpoint \in 0 .. count
      /\ size \in 0 .. count /\ size <= Lookahead /\ next \in 0 .. size
      /\ used \subseteq Blocks /\ inflight \subseteq Blocks /\ freed \subseteq Blocks
      /\ size - next <= ckpoint
  BY AllocAssumption DEF IInv, TypeOK, MinOf, CkpointCoversWindow
<1>b. (\A o : BlockAt(o)' = BlockAt(o)) \/ count' # count \/ start' # start
  BY DEF BlockAt
<1>1. CASE Ckpoint
  <2>1. TypeOK'
    <3>1. Blocks' = Blocks
      BY <1>1 DEF Ckpoint, Blocks
    <3> QED
      BY <3>1, <1>1, <1>a DEF IInv, TypeOK, Ckpoint, client
  <2>2. CkpointCoversWindow'
    BY <1>1, <1>a DEF CkpointCoversWindow, Ckpoint
  <2>3. \A b \in Blocks : ~(OffsetFrom(BlockAt(next), b) >= count)
    BY <1>a, ModSubRange, CursorInDevice DEF IInv, OffsetFrom, Blocks
  <2>4. AllocInv'
    BY <1>1, <2>3
       DEF IInv, AllocInv, WindowSound, InflightBehind, PassedAccounted, Ckpoint, client,
           Blocks, BlockAt, OffsetFrom
  <2> QED
    BY <2>1, <2>2, <2>4 DEF IInv
<1>2. CASE AllocCall
  BY <1>2 DEF IInv, TypeOK, CkpointCoversWindow, AllocInv, WindowSound, InflightBehind,
              PassedAccounted, AllocCall, window, client, Blocks, BlockAt, OffsetFrom
<1>3. ASSUME NEW b \in Blocks, Link(b) PROVE IInv'
  BY <1>3, <1>a DEF IInv, TypeOK, CkpointCoversWindow, AllocInv, WindowSound, InflightBehind,
              PassedAccounted, Link, window, Blocks, BlockAt, OffsetFrom
<1>4. ASSUME NEW b \in Blocks, Abandon(b) PROVE IInv'
  BY <1>4, <1>a DEF IInv, TypeOK, CkpointCoversWindow, AllocInv, WindowSound, InflightBehind,
              PassedAccounted, Abandon, window, Blocks, BlockAt, OffsetFrom
<1>5. ASSUME NEW b \in Blocks, Unlink(b) PROVE IInv'
  BY <1>5, <1>a DEF IInv, TypeOK, CkpointCoversWindow, AllocInv, WindowSound, InflightBehind,
              PassedAccounted, Unlink, window, Blocks, BlockAt, OffsetFrom
<1>6. ASSUME NEW b \in Blocks, MarkBad(b) PROVE IInv'
  <2>1. OffsetFrom(start, b) \in 0 .. count - 1 /\ BlockAt(OffsetFrom(start, b)) = b
    BY <1>a, ModSubRange, ModAddOfSub DEF OffsetFrom, BlockAt, Blocks
  <2>2. TypeOK'
    <3>1. Blocks' = Blocks
      BY <1>6 DEF MarkBad, Blocks
    <3>2. marked' \subseteq 0 .. Lookahead - 1
      <4>1. marked \subseteq 0 .. Lookahead - 1 /\ Lookahead \in Nat
        BY AllocAssumption DEF IInv, TypeOK
      <4>2. CASE OffsetFrom(start, b) < size
        <5>1. OffsetFrom(start, b) \in 0 .. Lookahead - 1
          BY <4>1, <4>2, <1>a, <2>1
        <5>2. marked' = marked \cup {OffsetFrom(start, b)}
          BY <4>2, <1>6 DEF MarkBad
        <5> QED
          BY <4>1, <5>1, <5>2
      <4>3. CASE ~(OffsetFrom(start, b) < size)
        BY <4>1, <4>3, <1>6 DEF MarkBad
      <4> QED
        BY <4>2, <4>3
    <3> QED
      BY <3>1, <3>2, <1>6, <1>a DEF IInv, TypeOK, MarkBad
  <2>3. CkpointCoversWindow' /\ InflightBehind' /\ PassedAccounted'
    BY <1>6, <1>a DEF IInv, CkpointCoversWindow, AllocInv, InflightBehind, PassedAccounted,
              MarkBad, Blocks, BlockAt, OffsetFrom
  <2>4. WindowSound'
    <3> SUFFICES ASSUME NEW o \in next .. size - 1
                 PROVE  IF o \in marked' THEN BlockAt(o) \in (used \cup inflight \cup freed)'
                                         ELSE BlockAt(o) \notin used' \cup inflight'
      BY <1>6 DEF WindowSound, MarkBad, BlockAt
    <3>1. IF o \in marked THEN BlockAt(o) \in used \cup inflight \cup freed
                          ELSE BlockAt(o) \notin used \cup inflight
      BY DEF IInv, AllocInv, WindowSound
    <3>2. o \in marked' /\ o \notin marked => BlockAt(o) = b
      BY <1>6, <2>1 DEF MarkBad
    <3> QED
      BY <1>6, <3>1, <3>2 DEF MarkBad
  <2> QED
    BY <2>2, <2>3, <2>4 DEF IInv, AllocInv
<1>7. CASE Gc
  <2>1. pc' \in {"idle", "search"} /\ ret' = ret /\ pc' = pc
    BY <1>7 DEF Gc, IInv, TypeOK
  <2> QED
    BY <1>7, <2>1, ScanIInv, ScanFailsIInv DEF Gc
<1>8. CASE Remount
  BY <1>8, RemountIInv
<1>9. CASE AllocSkip
  <2>1. CkpointCoversWindow' /\ AllocInv'
    BY <1>9, <1>a, AdvanceIInv DEF AllocSkip, client
  <2>2. TypeOK'
    BY <1>9, <1>a DEF IInv, TypeOK, AllocSkip, client, Blocks, CkpointCoversWindow
  <2> QED
    BY <2>1, <2>2 DEF IInv
<1>10. CASE AllocTake
  <2>1. PICK n \in next + 1 .. size : NextFree(n) /\ next' = n /\ ckpoint' = ckpoint - (n - next)
    BY <1>10 DEF AllocTake
  <2>2. CkpointCoversWindow' /\ AllocInv'
    BY <1>10, <2>1, AdvanceIInv DEF AllocTake, NextFree
  <2>3. BlockAt(next) \in Blocks
    BY CursorInDevice DEF IInv
  <2>4. TypeOK'
    <3>1. Blocks' = Blocks
      BY <1>10 DEF AllocTake, Blocks
    <3>2. ckpoint' \in 0 .. count' /\ next' \in 0 .. size'
      BY <1>10, <1>a, <2>1 DEF AllocTake
    <3>3. ret' \in {Got(b) : b \in Blocks}
      BY <1>10, <2>3 DEF AllocTake
    <3> QED
      BY <3>1, <3>2, <3>3, <1>10, <2>3 DEF IInv, TypeOK, AllocTake
  <2> QED
    BY <2>2, <2>4 DEF IInv
<1>11. CASE AllocNoSpace
  BY <1>11 DEF IInv, TypeOK, CkpointCoversWindow, AllocInv, WindowSound, InflightBehind,
              PassedAccounted, AllocNoSpace, window, client, Blocks, BlockAt, OffsetFrom
<1>12. CASE AllocScan
  BY <1>12, ScanIInv DEF AllocScan
<1>13. CASE AllocScanFails
  BY <1>13, ScanFailsIInv DEF AllocScanFails
<1>14. CASE UNCHANGED vars
  BY <1>14 DEF IInv, TypeOK, CkpointCoversWindow, AllocInv, WindowSound, InflightBehind,
              PassedAccounted, vars, Blocks, BlockAt, OffsetFrom
<1> QED
  BY <1>1, <1>2, <1>3, <1>4, <1>5, <1>6, <1>7, <1>8, <1>9, <1>10, <1>11, <1>12, <1>13, <1>14
     DEF Next, Client, AllocStep

\* Every reachable state of the allocator satisfies the invariant: the window
\* shows exactly the blocks that may be handed out.
THEOREM Invariance == Spec => []IInv
BY InitIInv, NextIInv, PTL DEF Spec

\* Types: in particular the cursor and the checkpoint stay in range.
THEOREM TypeCorrect == Spec => []TypeOK
BY Invariance, PTL DEF IInv

\* lookahead.ckpoint never wraps below zero in lfs_alloc.
THEOREM CkpointNeverWraps == Spec => []CkpointCoversWindow
BY Invariance, PTL DEF IInv

\* lfs_alloc never returns a block that is reachable or in flight.
THEOREM NeverHandedOutTwice == Spec => AllocReturnsFree
<1>1. IInv /\ [Next]_vars => [ret'.ok /\ pc = "search" /\ pc' = "idle" =>
                                ret'.block \notin used \cup inflight]_vars
  <2> SUFFICES ASSUME IInv, Next, ret'.ok, pc = "search", pc' = "idle"
               PROVE  ret'.block \notin used \cup inflight
    BY DEF vars
  <2>1. AllocTake
    BY DEF Next, Client, AllocStep, Ckpoint, AllocCall, Link, Abandon, Unlink, MarkBad, Gc,
           Remount, Mounted, AllocSkip, AllocNoSpace, AllocScan, AllocScanFails,
           NoSpace, Corrupt, NoBlock
  <2>2. next \in next .. size - 1 /\ next \notin marked /\ ret'.block = BlockAt(next)
    BY <2>1 DEF AllocTake, Got, IInv, TypeOK, MinOf
  <2> QED
    BY <2>2 DEF IInv, AllocInv, WindowSound
<1> QED
  BY <1>1, Invariance, PTL DEF Spec, AllocReturnsFree

\* lfs_alloc reports NoSpace only when it has looked at every block since the
\* last checkpoint and each was in use, in flight or given back meanwhile.
THEOREM NoSpaceIsTrue == Spec => NoSpaceOnlyWhenFull
<1>1. IInv /\ [Next]_vars => [ret' = NoSpace /\ pc = "search" /\ pc' = "idle" =>
                                Blocks \subseteq used \cup inflight \cup freed]_vars
  <2> SUFFICES ASSUME IInv, Next, ret' = NoSpace, pc = "search", pc' = "idle"
               PROVE  Blocks \subseteq used \cup inflight \cup freed
    BY DEF vars
  <2>1. AllocNoSpace
    BY DEF Next, Client, AllocStep, Ckpoint, AllocCall, Link, Abandon, Unlink, MarkBad, Gc,
           Remount, Mounted, AllocSkip, AllocTake, AllocScan, AllocScanFails,
           NoSpace, Corrupt, NoBlock, Got
  <2>2. \A b \in Blocks : OffsetFrom(BlockAt(next), b) >= ckpoint
    <3>1. ckpoint = 0 /\ count \in Nat \ {0} /\ BlockAt(next) \in 0 .. count - 1
      BY <2>1, CursorInDevice DEF AllocNoSpace, IInv, TypeOK, Blocks
    <3> QED
      BY <3>1, ModSubRange DEF OffsetFrom, Blocks
  <2> QED
    BY <2>2 DEF IInv, AllocInv, PassedAccounted
<1> QED
  BY <1>1, Invariance, PTL DEF Spec, NoSpaceOnlyWhenFull
=============================================================================
