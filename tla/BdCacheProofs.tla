---------------------------- MODULE BdCacheProofs ----------------------------
(***************************************************************************)
(* The caches of the block device are invisible, for any geometry, any     *)
(* number of blocks, bad ones among them, and any calls.                   *)
(***************************************************************************)
EXTENDS BdCache, TLAPS

-----------------------------------------------------------------------------
(***************************************************************************)
(* The inductive invariant.                                                *)
(***************************************************************************)

Aligned(a, n) == a % n = 0

Active(c) == ses[c].block # NoBlock
Cached(c) == pcache[c].block # NoBlock

\* Up to where the callers have programmed the block.
Tip(c) == IF reg.op = "prog" /\ reg.cache = c THEN reg.off ELSE ses[c].off

\* The program cache holds offset i of its block.
InCache(c, i) == Cached(c) /\ pcache[c].off <= i /\ i < pcache[c].off + pcache[c].size

Comparing(c) == pc = "read" /\ rd.why = "cmp" /\ reg.cache = c

\* What the callers ask for.
Session(c) ==
  /\ ~Active(c) => ses[c] = NoSession
  /\ ses[c].begin <= ses[c].off
  /\ Aligned(ses[c].begin, ProgSize)
  /\ c = "file" => ses[c].validate
  /\ Active(c) =>
       IF ses[c].validate THEN ses[c].begin = 0 /\ firm[ses[c].block] = BlockSize
                          ELSE firm[ses[c].block] <= ses[c].begin
  /\ ses[c].state = "synced" => ~ses[c].validate /\ ~Cached(c)
  /\ ses[c].state = "kept" => c = "file"

Asked ==
  /\ \A c \in Names : Session(c)
  /\ Active("file") => ses["file"].block # ses["meta"].block

\* The call in progress is at the flush of the cache.
Flushing(c) == reg.cache = c /\ reg.op # "none" /\ pc # "prog"

\* A program cache holds the last bytes that were programmed, in whole program
\* units and, if they are read back, in whole caches.
Window(c) ==
  /\ ~Cached(c) => pcache[c] = NoCache
  /\ Cached(c) =>
       /\ pcache[c].block = ses[c].block
       /\ ses[c].begin <= pcache[c].off
       /\ Aligned(pcache[c].off, ProgSize)
       /\ ses[c].validate => Aligned(pcache[c].off, CacheSize)
       /\ pcache[c].off + pcache[c].size <= BlockSize
       /\ IF ses[c].state = "open" THEN pcache[c].off + pcache[c].size = Tip(c)
                                   ELSE ses[c].off <= pcache[c].off + pcache[c].size
       /\ ses[c].state = "open" /\ ~Flushing(c) => pcache[c].size < CacheSize
  /\ Active(c) /\ ~Cached(c) /\ ses[c].state = "open" =>
       Aligned(Tip(c), ProgSize) /\ (ses[c].validate => Aligned(Tip(c), CacheSize))

\* The call in progress, and the session it is about.
Call ==
  /\ pc = "idle" => reg = NoReg
  /\ pc = "prog" => reg.op = "prog"
  /\ pc = "flush" => reg.op \in {"prog", "flush", "sync"}
  /\ pc = "flush" /\ reg.op = "prog" => Cached(reg.cache) /\ C.size = CacheSize
  /\ pc = "failed" => reg.op # "none"
  /\ reg.op = "none" => reg = NoReg
  /\ reg.op = "prog" =>
       /\ Active(reg.cache) /\ S.state = "open"
       /\ S.off <= reg.off /\ reg.off <= reg.end
  /\ reg.op = "flush" => reg.cache = "file" /\ Active("file") /\ S.state = "open" /\ S.off > 0
  /\ reg.op = "sync" =>
       reg.cache = "meta" /\ Active("meta") /\ S.state = "open" /\ ~S.validate /\ S.begin < S.off
  /\ reg.op = "check" =>
       /\ reg.cache = "meta" /\ Active("meta") /\ S.state = "synced"
       /\ pc = "failed" \/ (pc = "read" /\ rd.why = "check")

\* The read in progress.
Reading ==
  /\ pc # "read" => rd = NoRead
  /\ pc = "read" =>
       /\ rd.why # "none" /\ rd.block \in Blocks /\ rd.current
       /\ rd.off <= rd.lim /\ rd.lim <= rd.end
       /\ rd.off < rd.lim => rd.hint > 0
       /\ rd.lim < rd.end => rd.hint >= rd.end - rd.lim + Chunk
  /\ rd.why = "read" => reg.op = "none" /\ rd.lim = rd.end
  /\ rd.passed # "none" => rd.why = "read" /\ rd.passed = "file"
  /\ rd.why = "check" => reg.op = "check" /\ rd.block = S.block /\ rd.end = S.off
  /\ rd.why = "cmp" =>
       /\ reg.op \in {"prog", "flush"} /\ S.validate /\ Cached(reg.cache) /\ rd.block = C.block
       /\ C.off <= rd.off /\ rd.end = C.off + AlignUp(C.size, ProgSize)
       /\ reg.op = "prog" => C.size = CacheSize
       /\ rd.same => \A i \in C.off .. rd.off - 1 : disk[rd.block][i] = C.data[i]

\* What was erased for a file is erased, from where it was programmed to.
Unwritten(c) ==
  Active(c) /\ ses[c].validate /\ ses[c].state = "open" /\ health[ses[c].block] # "frozen" =>
    \A i \in Tip(c) .. BlockSize - 1 : disk[ses[c].block][i] = Erased

\* Nothing of the session is on the device yet.
Unflushed(c) == IF Cached(c) THEN pcache[c].off = 0 ELSE Tip(c) = 0

\* Where the read cache may hold what is on the device no more: where no caller
\* reads it.
Stale(b, i) ==
  \/ ~InSession(b) /\ firm[b] <= i
  \/ \E c \in Names : ses[c].block = b /\ ses[c].validate /\ Unflushed(c) /\ ~Comparing(c)
  \/ \E c \in Names : /\ ses[c].block = b /\ ~ses[c].validate
                      /\ ses[c].state = "open"
                      /\ ses[c].begin <= i /\ i < Tip(c)

InReadCache(i) == rcache.off <= i /\ i < rcache.off + rcache.size

\* lfs_bd_read takes offset i from the program cache it was given.
Masked(i) == Passed.block = rd.block /\ Passed.off <= i /\ i < Passed.off + Passed.size

Fresh ==
  /\ rcache.block = NoBlock => rcache = NoCache
  /\ reg.op = "sync" => rcache.block # S.block
  /\ Aligned(rcache.off, ReadSize) /\ rcache.off + rcache.size <= BlockSize
  /\ rcache.block # NoBlock =>
       \A i \in Offsets :
         InReadCache(i) => \/ rcache.data[i] = disk[rcache.block][i]
                           \/ Stale(rcache.block, i)
  /\ pc = "read" /\ rcache.block = rd.block =>
       \A i \in rd.off .. rd.end - 1 :
         InReadCache(i) => \/ rcache.data[i] = disk[rd.block][i]
                           \/ Masked(i)

IInv ==
  /\ TypeOK /\ Asked /\ (\A c \in Names : Window(c)) /\ Call /\ Reading
  /\ (\A c \in Names : Unwritten(c)) /\ Fresh

-----------------------------------------------------------------------------
(***************************************************************************)
(* Multiples.                                                              *)
(***************************************************************************)

LEMMA Divided ==
  ASSUME NEW a \in Nat, NEW n \in Nat \ {0}
  PROVE  /\ a % n \in 0 .. n - 1
         /\ \E q \in Nat : a = n * q + (a % n)
<1>1. a % n \in 0 .. n - 1
  OBVIOUS
<1>2. a = n * (a \div n) + (a % n)
  OBVIOUS
<1>3. a \div n \in Nat
  OBVIOUS
<1> QED
  BY <1>1, <1>2, <1>3

LEMMA AlignedIsMultiple ==
  ASSUME NEW a \in Nat, NEW n \in Nat \ {0}
  PROVE  Aligned(a, n) <=> \E q \in Nat : a = n * q
<1>1. ASSUME NEW q \in Nat, a = n * q PROVE a % n = 0
  BY <1>1
<1>2. ASSUME a % n = 0 PROVE \E q \in Nat : a = n * q
  <2>1. PICK q \in Nat : a = n * q + (a % n)
    BY Divided
  <2>2. n * q \in Nat
    BY <2>1
  <2> QED
    BY <1>2, <2>1, <2>2
<1> QED
  BY <1>1, <1>2 DEF Aligned

LEMMA AlignedZero ==
  ASSUME NEW n \in Nat \ {0}
  PROVE  Aligned(0, n)
BY DEF Aligned

LEMMA AlignedSum ==
  ASSUME NEW a \in Nat, NEW b \in Nat, NEW n \in Nat \ {0}, Aligned(a, n), Aligned(b, n)
  PROVE  Aligned(a + b, n)
<1>1. PICK q \in Nat : a = n * q
  BY AlignedIsMultiple
<1>2. PICK r \in Nat : b = n * r
  BY AlignedIsMultiple
<1>3. a + b = n * (q + r) /\ q + r \in Nat /\ a + b \in Nat
  BY <1>1, <1>2
<1> QED
  BY <1>3, AlignedIsMultiple

\* Two multiples are one step apart at least.
LEMMA AlignedApart ==
  ASSUME NEW a \in Nat, NEW b \in Nat, NEW n \in Nat \ {0}, Aligned(a, n), Aligned(b, n), b < a
  PROVE  b + n <= a
<1>1. PICK q \in Nat : a = n * q
  BY AlignedIsMultiple
<1>2. PICK r \in Nat : b = n * r
  BY AlignedIsMultiple
<1>3. r < q
  <2> SUFFICES ASSUME q <= r PROVE FALSE
    OBVIOUS
  <2>1. n * q <= n * r
    OBVIOUS
  <2> QED
    BY <1>1, <1>2, <2>1
<1>4. PICK d \in Nat : q = r + 1 + d
  <2>1. q - r - 1 \in Nat /\ q = r + 1 + (q - r - 1)
    BY <1>3
  <2> QED
    BY <2>1
<1>5. n * q = n * r + n + n * d /\ n * d \in Nat /\ n * r \in Nat
  BY <1>4
<1> QED
  BY <1>1, <1>2, <1>5

LEMMA AlignedThrough ==
  ASSUME NEW a \in Nat, NEW n \in Nat \ {0}, NEW m \in Nat \ {0}, Aligned(a, n), Aligned(n, m)
  PROVE  Aligned(a, m)
<1>1. PICK q \in Nat : a = n * q
  BY AlignedIsMultiple
<1>2. PICK r \in Nat : n = m * r
  BY AlignedIsMultiple
<1>3. a = m * (r * q) /\ r * q \in Nat
  BY <1>1, <1>2
<1> QED
  BY <1>3, AlignedIsMultiple

LEMMA Down ==
  ASSUME NEW a \in Nat, NEW n \in Nat \ {0}
  PROVE  /\ AlignDown(a, n) \in Nat /\ Aligned(AlignDown(a, n), n)
         /\ AlignDown(a, n) <= a /\ a < AlignDown(a, n) + n
         /\ \A b \in Nat : Aligned(b, n) /\ b <= a => b <= AlignDown(a, n)
         /\ Aligned(a, n) => AlignDown(a, n) = a
<1>1. PICK q \in Nat : a = n * q + (a % n)
  BY Divided
<1> PICK r, d : r = a % n /\ d = AlignDown(a, n)
  OBVIOUS
<1>2. r \in 0 .. n - 1 /\ d = a - r
  BY Divided DEF AlignDown
<1>3. d = n * q /\ d \in Nat
  <2>1. n * q \in Nat
    BY <1>1
  <2> QED
    BY <1>1, <1>2, <2>1
<1>4. Aligned(d, n)
  BY <1>3, AlignedIsMultiple
<1>5. ASSUME NEW b \in Nat, Aligned(b, n), b <= a PROVE b <= d
  <2> SUFFICES ASSUME d < b PROVE FALSE
    BY <1>3
  <2>1. d + n <= b
    BY <1>3, <1>4, <1>5, AlignedApart
  <2> QED
    BY <1>2, <1>3, <1>5, <2>1
<1>6. Aligned(a, n) => d = a
  BY <1>2 DEF Aligned
<1> QED
  BY <1>2, <1>3, <1>4, <1>5, <1>6

LEMMA Up ==
  ASSUME NEW a \in Nat, NEW n \in Nat \ {0}
  PROVE  /\ AlignUp(a, n) \in Nat /\ Aligned(AlignUp(a, n), n)
         /\ a <= AlignUp(a, n) /\ AlignUp(a, n) < a + n
         /\ \A b \in Nat : Aligned(b, n) /\ a <= b => AlignUp(a, n) <= b
         /\ Aligned(a, n) => AlignUp(a, n) = a
<1> PICK u : u = AlignUp(a, n)
  OBVIOUS
<1>1. u = AlignDown(a + n - 1, n) /\ a + n - 1 \in Nat
  BY DEF AlignUp
<1>2. u \in Nat /\ Aligned(u, n) /\ u <= a + n - 1 /\ a + n - 1 < u + n
  BY <1>1, Down
<1>3. ASSUME NEW b \in Nat, Aligned(b, n), a <= b PROVE u <= b
  <2> SUFFICES ASSUME b < u PROVE FALSE
    BY <1>2
  <2>1. b + n <= u
    BY <1>2, <1>3, AlignedApart
  <2> QED
    BY <1>2, <1>3, <2>1
<1>4. a <= u /\ u < a + n
  BY <1>2
<1>5. Aligned(a, n) => u = a
  BY <1>2, <1>3, <1>4
<1> QED
  BY <1>2, <1>3, <1>4, <1>5

\* The geometry that lfs_init asserts.
LEMMA Geometry ==
  /\ BlockSize \in Nat \ {0} /\ CacheSize \in Nat \ {0} /\ ReadSize \in Nat \ {0}
  /\ ProgSize \in Nat \ {0} /\ Chunk \in Nat \ {0}
  /\ Aligned(CacheSize, ReadSize) /\ Aligned(CacheSize, ProgSize)
  /\ Aligned(BlockSize, CacheSize) /\ Aligned(BlockSize, ReadSize) /\ Aligned(BlockSize, ProgSize)
  /\ CacheSize <= BlockSize
<1>1. /\ BlockSize \in Nat \ {0} /\ CacheSize \in Nat \ {0} /\ ReadSize \in Nat \ {0}
      /\ ProgSize \in Nat \ {0} /\ Chunk \in Nat \ {0}
  BY BdAssumption
<1>2. /\ Aligned(CacheSize, ReadSize) /\ Aligned(CacheSize, ProgSize)
      /\ Aligned(BlockSize, CacheSize)
  BY BdAssumption DEF Aligned
<1>3. Aligned(BlockSize, ReadSize) /\ Aligned(BlockSize, ProgSize)
  BY <1>1, <1>2, AlignedThrough
<1>4. CacheSize <= BlockSize
  <2>1. 0 + CacheSize <= BlockSize
    BY <1>1, <1>2, AlignedZero, AlignedApart
  <2> QED
    BY <1>1, <2>1
<1> QED
  BY <1>1, <1>2, <1>3, <1>4

-----------------------------------------------------------------------------
(***************************************************************************)
(* The turns of lfs_bd_read.                                               *)
(***************************************************************************)

LEMMA Typing ==
  ASSUME TypeOK
  PROVE  /\ rd.off \in 0 .. BlockSize /\ rd.lim \in 0 .. BlockSize /\ rd.end \in 0 .. BlockSize
         /\ rd.hint \in 0 .. 2 * BlockSize
         /\ reg.cache \in Names /\ reg.off \in 0 .. BlockSize /\ reg.end \in 0 .. BlockSize
         /\ rcache.block \in Blocks \cup {NoBlock} /\ rcache.off \in 0 .. BlockSize
         /\ rcache.size \in 0 .. CacheSize /\ rcache.data \in [Offsets -> Bytes]
         /\ \A c \in Names :
              /\ ses[c] \in Sessions /\ pcache[c] \in Caches
              /\ ses[c].block \in Blocks \cup {NoBlock}
              /\ ses[c].begin \in 0 .. BlockSize /\ ses[c].off \in 0 .. BlockSize
              /\ ses[c].stamp \in Bytes /\ ses[c].validate \in BOOLEAN
              /\ ses[c].state \in {"open", "synced", "kept"}
              /\ pcache[c].block \in Blocks \cup {NoBlock}
              /\ pcache[c].off \in 0 .. BlockSize /\ pcache[c].size \in 0 .. CacheSize
              /\ pcache[c].data \in [Offsets -> Bytes]
              /\ Tip(c) \in 0 .. BlockSize
<1>1. /\ rd.off \in 0 .. BlockSize /\ rd.lim \in 0 .. BlockSize /\ rd.end \in 0 .. BlockSize
      /\ rd.hint \in 0 .. 2 * BlockSize
  BY DEF TypeOK
<1>2. reg.cache \in Names /\ reg.off \in 0 .. BlockSize /\ reg.end \in 0 .. BlockSize
  BY DEF TypeOK
<1>3. /\ rcache.block \in Blocks \cup {NoBlock} /\ rcache.off \in 0 .. BlockSize
      /\ rcache.size \in 0 .. CacheSize /\ rcache.data \in [Offsets -> Bytes]
  BY DEF TypeOK, Caches
<1>4. ASSUME NEW c \in Names
      PROVE  /\ ses[c] \in Sessions /\ pcache[c] \in Caches
             /\ ses[c].block \in Blocks \cup {NoBlock}
             /\ ses[c].begin \in 0 .. BlockSize /\ ses[c].off \in 0 .. BlockSize
             /\ ses[c].stamp \in Bytes /\ ses[c].validate \in BOOLEAN
             /\ ses[c].state \in {"open", "synced", "kept"}
  <2>1. ses[c] \in Sessions /\ pcache[c] \in Caches
    BY DEF TypeOK
  <2> QED
    BY <2>1 DEF Sessions
<1>5. ASSUME NEW c \in Names
      PROVE  /\ pcache[c].block \in Blocks \cup {NoBlock}
             /\ pcache[c].off \in 0 .. BlockSize /\ pcache[c].size \in 0 .. CacheSize
             /\ pcache[c].data \in [Offsets -> Bytes]
  BY <1>4 DEF Caches
<1>6. \A c \in Names : Tip(c) \in 0 .. BlockSize
  BY <1>2, <1>4 DEF Tip
<1> QED
  BY <1>1, <1>2, <1>3, <1>4, <1>5, <1>6

\* A turn of lfs_bd_read, lfs_bd_cmp or lfs_bd_crc changes the read cache and the
\* registers of the read.
LEMMA TurnSafe ==
  ASSUME IInv, pc = "read", UNCHANGED <<disk, health, pcache, ses, firm, pc, reg>>,
         TypeOK', Reading', Fresh', rd'.why = rd.why
  PROVE  IInv'
<1>1. Asked'
  BY DEF IInv, Asked, Session, Active, Cached
<1>2. ASSUME NEW c \in Names PROVE Window(c)'
  <2>1. Window(c)
    BY DEF IInv
  <2> QED
    BY <2>1 DEF Window, Active, Cached, Tip, Flushing
<1>3. Call'
  BY DEF IInv, Call, Active, Cached, C, S
<1>4. ASSUME NEW c \in Names PROVE Unwritten(c)'
  <2>1. Unwritten(c)
    BY DEF IInv
  <2> QED
    BY <2>1 DEF Unwritten, Active, Tip
<1> QED
  BY <1>1, <1>2, <1>3, <1>4 DEF IInv

\* What is delivered is what the reader should see.
LEMMA DeliverSafe ==
  ASSUME IInv, pc = "read", NEW n \in 0 .. Left, NEW data, Deliver(n, data),
         \A i \in rd.off .. rd.off + n - 1 : data[i] = Visible(i),
         UNCHANGED <<disk, health, rcache, pcache, ses, firm, pc, reg>>
  PROVE  IInv'
<1> DEFINE range == rd.off .. rd.off + n - 1
           same == rd.same /\ (rd.why = "read" \/ \A i \in range : data[i] = Expected(i))
<1>1. TypeOK /\ Reading /\ Fresh /\ BlockSize \in Nat
  BY Geometry DEF IInv
<1>2. rd.off \in Nat /\ rd.lim \in Nat /\ n \in Nat /\ rd.off + n <= rd.lim /\ rd.lim <= BlockSize
  <2>1. rd.off \in 0 .. BlockSize /\ rd.lim \in 0 .. BlockSize
    BY <1>1, Typing
  <2> QED
    BY <1>1, <2>1 DEF Left
<1>3. rd.current = TRUE
  BY <1>1 DEF Reading, TypeOK
<1>4. rd' = [rd EXCEPT !.off = rd.off + n, !.current = TRUE, !.same = same]
  <2>1. rd' = [rd EXCEPT !.off = @ + n,
                         !.current = @ /\ \A i \in range : data[i] = Visible(i),
                         !.same = @ /\ (rd.why = "read" \/ \A i \in range : data[i] = Expected(i))]
    BY DEF Deliver
  <2>2. (rd.current /\ \A i \in range : data[i] = Visible(i)) = TRUE
    BY <1>3
  <2> QED
    BY <2>1, <2>2
<1>5. same \in BOOLEAN
  OBVIOUS
<1> HIDE DEF same
<1>6. /\ rd'.why = rd.why /\ rd'.passed = rd.passed /\ rd'.block = rd.block /\ rd'.lim = rd.lim
      /\ rd'.end = rd.end /\ rd'.hint = rd.hint
      /\ rd'.off = rd.off + n /\ rd'.current = TRUE /\ rd'.same = same
  BY <1>1, <1>4 DEF TypeOK
<1>7. rd.off + n \in 0 .. BlockSize
  BY <1>1, <1>2
<1>8. TypeOK'
  BY <1>1, <1>4, <1>5, <1>7 DEF TypeOK
<1>9. Reading'
  <2>0. C.off \in Nat /\ C' = C /\ S' = S /\ (Cached(reg.cache)' <=> Cached(reg.cache))
    BY <1>1, Typing DEF C, S, Cached
  <2>1. rd.why = "cmp" /\ same => \A i \in C.off .. rd.off + n - 1 : disk[rd.block][i] = C.data[i]
    <3> SUFFICES ASSUME rd.why = "cmp", same, NEW i \in C.off .. rd.off + n - 1
                 PROVE  disk[rd.block][i] = C.data[i]
      OBVIOUS
    <3>1. rd.same /\ \A j \in range : data[j] = Expected(j)
      BY DEF same
    <3>2. C.off \in Nat
      BY <1>1, Typing DEF C
    <3>3. rd.passed = "none" /\ \A j \in C.off .. rd.off - 1 : disk[rd.block][j] = C.data[j]
      BY <1>1, <3>1 DEF Reading
    <3>4. CASE i \in C.off .. rd.off - 1
      BY <3>3, <3>4
    <3>5. CASE i \in range
      <4>1. data[i] = Visible(i) /\ data[i] = Expected(i)
        BY <3>1, <3>5
      <4>2. Visible(i) = disk[rd.block][i]
        BY <3>3 DEF Visible
      <4>3. Expected(i) = C.data[i]
        BY DEF Expected, C
      <4> QED
        BY <4>1, <4>2, <4>3
    <3> QED
      BY <1>2, <3>2, <3>4, <3>5
  <2>2. rd'.why = "cmp" =>
          /\ reg'.op \in {"prog", "flush"} /\ S'.validate /\ Cached(reg.cache)'
          /\ rd'.block = C'.block
          /\ C'.off <= rd'.off /\ rd'.end = C'.off + AlignUp(C'.size, ProgSize)
          /\ reg'.op = "prog" => C'.size = CacheSize
          /\ rd'.same => \A i \in C'.off .. rd'.off - 1 : disk'[rd'.block][i] = C'.data[i]
    <3>1. rd.why = "cmp" =>
            /\ reg.op \in {"prog", "flush"} /\ S.validate /\ Cached(reg.cache)
            /\ rd.block = C.block
            /\ C.off <= rd.off /\ rd.end = C.off + AlignUp(C.size, ProgSize)
            /\ reg.op = "prog" => C.size = CacheSize
      BY <1>1 DEF Reading
    <3> QED
      BY <1>2, <1>6, <2>0, <2>1, <3>1
  <2>3. rd'.why = "check" => reg'.op = "check" /\ rd'.block = S'.block /\ rd'.end = S'.off
    BY <1>1, <1>6, <2>0 DEF Reading
  <2> QED
    BY <1>1, <1>2, <1>6, <2>2, <2>3 DEF Reading
<1>10. Fresh'
  <2>1. \A i \in rd.off + n .. rd.end - 1 : i \in rd.off .. rd.end - 1
    <3>1. rd.end \in Nat
      BY <1>1, Typing
    <3> QED
      BY <1>2, <3>1
  <2>2. \A b, i : Stale(b, i)' <=> Stale(b, i)
    BY <1>6 DEF Stale, InSession, Unflushed, Comparing, Tip, Cached
  <2>3. \A i : (InReadCache(i)' <=> InReadCache(i)) /\ (Masked(i)' <=> Masked(i))
    BY <1>6 DEF InReadCache, Masked, Passed
  <2> QED
    BY <1>1, <1>6, <2>1, <2>2, <2>3 DEF Fresh, S
<1> QED
  BY <1>6, <1>8, <1>9, <1>10, TurnSafe

\* Before a program cache, and before the read cache.
LEMMA Before ==
  ASSUME IInv, pc = "read", 0 < Left, ~Hit(Passed)
  PROVE  /\ BeforeProg \in 1 .. Left
         /\ \A i \in rd.off .. rd.off + BeforeProg - 1 : ~Masked(i)
         /\ ~Hit(rcache) => BeforeBoth \in 1 .. BeforeProg
<1>1. TypeOK /\ BlockSize \in Nat /\ CacheSize \in Nat
  BY Geometry DEF IInv
<1>2. rd.off \in Nat /\ rd.lim \in Nat /\ Left \in Nat
  BY <1>1, Typing DEF Left
<1>3. Passed.off \in Nat /\ Passed.size \in Nat
  BY <1>1, Typing, SMT DEF Passed, NoCache, TypeOK
<1>4. rcache.off \in Nat /\ rcache.size \in Nat
  BY <1>1, Typing
<1>5. BeforeProg \in 1 .. Left
  BY <1>2, <1>3 DEF BeforeProg, LeftBefore, Hit, Ahead, Least
<1>6. ASSUME NEW i \in rd.off .. rd.off + BeforeProg - 1 PROVE ~Masked(i)
  BY <1>2, <1>3, <1>5, <1>6 DEF BeforeProg, LeftBefore, Hit, Ahead, Least, Masked
<1>7. ASSUME ~Hit(rcache) PROVE BeforeBoth \in 1 .. BeforeProg
  BY <1>2, <1>4, <1>5, <1>7 DEF BeforeBoth, LeftBefore, Hit, Ahead, Least
<1> QED
  BY <1>5, <1>6, <1>7

\* Outside the program cache the reader should see the device.
LEMMA VisibleIsDisk ==
  ASSUME TypeOK, NEW i, ~Masked(i)
  PROVE  Visible(i) = disk[rd.block][i]
BY DEF Visible, Masked

LEMMA ReadProgCacheSafe ==
  ASSUME IInv, ReadProgCache
  PROVE  IInv'
<1> PICK n : n = Least(Left, Passed.size - (rd.off - Passed.off))
  OBVIOUS
<1>1. /\ pc = "read" /\ Left > 0 /\ Hit(Passed) /\ Deliver(n, Passed.data)
      /\ UNCHANGED <<disk, health, rcache, pcache, ses, firm, pc, reg>>
  BY DEF ReadProgCache
<1>2. TypeOK /\ rd.off \in Nat /\ rd.lim \in Nat /\ Left \in Nat
  BY <1>1, Typing, Geometry DEF IInv, Left
<1>3. Passed.off \in Nat /\ Passed.size \in Nat
  BY <1>2, Typing, Geometry DEF Passed, NoCache, TypeOK
<1>4. n \in 0 .. Left /\ rd.off + n <= Passed.off + Passed.size
  BY <1>1, <1>2, <1>3 DEF Least, Hit, Ahead
<1>5. rd.passed # "none" /\ Passed.block = rd.block /\ Passed.off <= rd.off
  <2>1. rd.block \in Blocks
    BY <1>1 DEF IInv, Reading
  <2>2. NoBlock \notin Blocks
    BY BdAssumption
  <2> QED
    BY <1>1, <2>1, <2>2 DEF Hit, Ahead, Passed, NoCache
<1>6. \A i \in rd.off .. rd.off + n - 1 : Passed.data[i] = Visible(i)
  BY <1>2, <1>3, <1>4, <1>5 DEF Visible
<1> QED
  BY <1>1, <1>4, <1>6, DeliverSafe

LEMMA ReadReadCacheSafe ==
  ASSUME IInv, ReadReadCache
  PROVE  IInv'
<1> PICK n : n = Least(BeforeProg, rcache.size - (rd.off - rcache.off))
  OBVIOUS
<1>1. /\ pc = "read" /\ 0 < Left /\ ~Hit(Passed) /\ Hit(rcache) /\ Deliver(n, rcache.data)
      /\ UNCHANGED <<disk, health, rcache, pcache, ses, firm, pc, reg>>
  BY DEF ReadReadCache
<1>2. /\ TypeOK /\ rd.off \in Nat /\ rd.lim \in Nat /\ rd.end \in Nat /\ Left \in Nat
      /\ rcache.off \in Nat /\ rcache.size \in Nat /\ Fresh /\ rd.lim <= rd.end
  BY <1>1, Typing, Geometry DEF IInv, Left, Reading
<1>3. BeforeProg \in 1 .. Left /\ \A i \in rd.off .. rd.off + BeforeProg - 1 : ~Masked(i)
  BY <1>1, Before
<1>4. /\ n \in 0 .. Left /\ n <= BeforeProg /\ rd.off + n <= rcache.off + rcache.size
      /\ rd.off + n <= rd.end /\ rcache.off <= rd.off /\ rcache.block = rd.block
  BY <1>1, <1>2, <1>3 DEF Least, Hit, Ahead, Left
<1>5. ASSUME NEW i \in rd.off .. rd.off + n - 1 PROVE rcache.data[i] = Visible(i)
  <2>1. ~Masked(i) /\ InReadCache(i) /\ i \in rd.off .. rd.end - 1
    BY <1>2, <1>3, <1>4 DEF InReadCache
  <2>2. rcache.data[i] = disk[rd.block][i]
    BY <1>1, <1>2, <1>4, <2>1 DEF Fresh
  <2> QED
    BY <1>2, <2>1, <2>2, VisibleIsDisk
<1> QED
  BY <1>1, <1>4, <1>5, DeliverSafe

LEMMA ReadDeviceSafe ==
  ASSUME IInv, ReadDevice
  PROVE  IInv'
<1> PICK n : n = AlignDown(BeforeBoth, ReadSize)
  OBVIOUS
<1>1. /\ pc = "read" /\ 0 < Left /\ ~Hit(Passed) /\ ~Hit(rcache) /\ Deliver(n, disk[rd.block])
      /\ UNCHANGED <<disk, health, rcache, pcache, ses, firm, pc, reg>>
  BY DEF ReadDevice, Misses
<1>2. TypeOK /\ rd.off \in Nat /\ Left \in Nat
  BY <1>1, Typing, Geometry DEF IInv, Left
<1>3. /\ BeforeProg \in 1 .. Left /\ \A i \in rd.off .. rd.off + BeforeProg - 1 : ~Masked(i)
      /\ BeforeBoth \in 1 .. BeforeProg
  BY <1>1, Before
<1>4. n \in Nat /\ n <= BeforeBoth
  BY <1>2, <1>3, Down, Geometry
<1>5. n \in 0 .. Left /\ n <= BeforeProg
  BY <1>2, <1>3, <1>4
<1>6. ASSUME NEW i \in rd.off .. rd.off + n - 1 PROVE disk[rd.block][i] = Visible(i)
  <2>1. ~Masked(i)
    BY <1>2, <1>3, <1>5
  <2> QED
    BY <1>2, <2>1, VisibleIsDisk
<1> QED
  BY <1>1, <1>5, <1>6, DeliverSafe

LEMMA AlignedSelf ==
  ASSUME NEW n \in Nat \ {0}
  PROVE  Aligned(n, n)
<1>1. n = n * 1 /\ 1 \in Nat
  OBVIOUS
<1> QED
  BY <1>1, AlignedIsMultiple

\* What lfs_bd_read loads begins before what is read, and reaches beyond it.
LEMMA LoadedFields ==
  ASSUME IInv, pc = "read"
  PROVE  /\ Loaded.block = rd.block /\ rd.block \in Blocks /\ rd.block # NoBlock
         /\ Loaded.data = disk[rd.block] /\ Loaded.data \in [Offsets -> Bytes]
         /\ Loaded.off \in 0 .. BlockSize /\ Loaded.size \in 0 .. CacheSize
         /\ Aligned(Loaded.off, ReadSize) /\ Loaded.off + Loaded.size <= BlockSize
         /\ rd.off < rd.lim => Loaded.off <= rd.off /\ rd.off < Loaded.off + Loaded.size
<1> PICK off, up : off = AlignDown(rd.off, ReadSize) /\ up = AlignUp(rd.off + rd.hint, ReadSize)
  OBVIOUS
<1> PICK end : end = Least(up, BlockSize)
  OBVIOUS
<1>1. /\ BlockSize \in Nat /\ CacheSize \in Nat /\ ReadSize \in Nat \ {0}
      /\ TypeOK /\ Reading
  BY Geometry DEF IInv
<1>2. /\ rd.off \in Nat /\ rd.hint \in Nat /\ rd.off <= BlockSize /\ rd.lim <= BlockSize
      /\ rd.lim \in Nat /\ (rd.off < rd.lim => rd.hint > 0)
  BY <1>1, Typing DEF Reading
<1>3. off \in Nat /\ off <= rd.off /\ rd.off < off + ReadSize /\ Aligned(off, ReadSize)
  BY <1>1, <1>2, Down
<1>4. up \in Nat /\ rd.off + rd.hint <= up
  <2>1. rd.off + rd.hint \in Nat
    BY <1>2
  <2> QED
    BY <1>1, <2>1, Up
<1>5. end \in Nat /\ end <= BlockSize /\ off <= end /\ (rd.off < rd.lim => rd.off < end)
  BY <1>1, <1>2, <1>3, <1>4 DEF Least
<1>6. ReadSize <= CacheSize
  <2>1. 0 + ReadSize <= CacheSize
    BY Geometry, AlignedZero, AlignedApart
  <2> QED
    BY <1>1, <2>1
<1>7. Loaded = [block |-> rd.block, off |-> off, size |-> Least(end - off, CacheSize),
                data |-> disk[rd.block]]
  BY DEF Loaded
<1>8. rd.block \in Blocks /\ rd.block # NoBlock /\ disk[rd.block] \in [Offsets -> Bytes]
  BY <1>1, BdAssumption DEF Reading, TypeOK
<1>9. /\ Loaded.block = rd.block /\ Loaded.data = disk[rd.block] /\ Loaded.off = off
      /\ Loaded.size = Least(end - off, CacheSize)
  BY <1>7
<1>10. /\ Loaded.size \in 0 .. CacheSize /\ off + Loaded.size <= BlockSize
       /\ rd.off < rd.lim => rd.off < off + Loaded.size
  <2>1. end - off \in Nat
    BY <1>3, <1>5
  <2>2. /\ Least(end - off, CacheSize) \in 0 .. CacheSize
        /\ off + Least(end - off, CacheSize) <= BlockSize
        /\ rd.off < rd.lim => rd.off < off + Least(end - off, CacheSize)
    BY <1>1, <1>2, <1>3, <1>5, <1>6, <2>1 DEF Least
  <2> QED
    BY <1>9, <2>2
<1> QED
  BY <1>1, <1>2, <1>3, <1>5, <1>8, <1>9, <1>10

LEMMA FillReadCacheSafe ==
  ASSUME IInv, FillReadCache
  PROVE  IInv'
<1>1. /\ pc = "read" /\ UNCHANGED <<disk, health, pcache, ses, firm, pc, reg, rd>>
      /\ TypeOK /\ Reading /\ Fresh
  BY DEF FillReadCache, Misses, IInv
<1> DEFINE data == [i \in Offsets |-> IF Loaded.off <= i /\ i < Loaded.off + Loaded.size
                                     THEN Loaded.data[i] ELSE Erased]
<1>2. rcache' = [Loaded EXCEPT !.data = data]
  BY DEF FillReadCache
<1> PICK d : d = data
  OBVIOUS
<1>3. /\ Loaded.block = rd.block /\ rd.block \in Blocks /\ rd.block # NoBlock
      /\ Loaded.data = disk[rd.block] /\ Loaded.data \in [Offsets -> Bytes]
      /\ Loaded.off \in 0 .. BlockSize /\ Loaded.size \in 0 .. CacheSize
      /\ Aligned(Loaded.off, ReadSize) /\ Loaded.off + Loaded.size <= BlockSize
  BY <1>1, LoadedFields
<1>4. /\ d \in [Offsets -> Bytes]
      /\ \A i \in Offsets : Loaded.off <= i /\ i < Loaded.off + Loaded.size => d[i] = disk[rd.block][i]
  BY <1>3 DEF Bytes
<1>5. /\ rcache'.block = rd.block /\ rcache'.off = Loaded.off /\ rcache'.size = Loaded.size
      /\ rcache'.data = d
      /\ rcache' = [block |-> rd.block, off |-> Loaded.off, size |-> Loaded.size, data |-> d]
  BY <1>2, <1>3 DEF Loaded
<1>6. TypeOK'
  <2>1. rcache' \in Caches
    BY <1>3, <1>4, <1>5 DEF Caches
  <2> QED
    BY <1>1, <2>1 DEF TypeOK
<1>7. Reading'
  BY <1>1 DEF Reading, C, S, Cached
<1>8. Fresh'
  <2>1. \A i \in Offsets : InReadCache(i)' => rcache'.data[i] = disk'[rd.block][i]
    BY <1>1, <1>4, <1>5 DEF InReadCache
  <2>2. \A i \in rd.off .. rd.end - 1 : i \in Offsets
    BY SMTT(30), <1>1, Typing, Geometry DEF Offsets
  <2>3. reg.op # "sync"
    BY <1>1, SMT DEF Reading, TypeOK
  <2> QED
    BY <1>1, <1>3, <1>5, <2>1, <2>2, <2>3 DEF Fresh
<1> QED
  BY <1>1, <1>6, <1>7, <1>8, TurnSafe

LEMMA NextChunkSafe ==
  ASSUME IInv, NextChunk
  PROVE  IInv'
<1>1. /\ pc = "read" /\ Left = 0 /\ rd.lim < rd.end
      /\ rd' = [rd EXCEPT !.lim = Least(rd.lim + Chunk, rd.end), !.hint = rd.hint - Least(rd.hint, Chunk)]
      /\ UNCHANGED <<disk, health, rcache, pcache, ses, firm, pc, reg>>
      /\ TypeOK /\ Reading /\ Fresh
  BY DEF NextChunk, IInv
<1>2. /\ rd.off \in Nat /\ rd.lim \in Nat /\ rd.end \in Nat /\ rd.end <= BlockSize /\ rd.hint \in Nat
      /\ rd.hint <= 2 * BlockSize /\ BlockSize \in Nat /\ Chunk \in Nat \ {0}
      /\ rd.hint >= rd.end - rd.lim + Chunk /\ rd.off = rd.lim
  BY <1>1, Typing, Geometry DEF Reading, Left
<1> PICK lim, hint : lim = Least(rd.lim + Chunk, rd.end) /\ hint = rd.hint - Least(rd.hint, Chunk)
  OBVIOUS
<1>3. /\ lim \in 0 .. BlockSize /\ hint \in 0 .. 2 * BlockSize
      /\ rd.off < lim /\ lim <= rd.end /\ hint > 0 /\ (lim < rd.end => hint >= rd.end - lim + Chunk)
  BY <1>1, <1>2 DEF Least
<1>4. /\ rd'.why = rd.why /\ rd'.passed = rd.passed /\ rd'.block = rd.block /\ rd'.lim = lim
      /\ rd'.end = rd.end /\ rd'.hint = hint
      /\ rd'.off = rd.off /\ rd'.current = rd.current /\ rd'.same = rd.same
      /\ rd' = [rd EXCEPT !.lim = lim, !.hint = hint]
  BY <1>1 DEF TypeOK
<1>5. TypeOK'
  BY <1>1, <1>3, <1>4 DEF TypeOK
<1>6. Reading'
  <2>1. rd.why # "read"
    BY <1>1, <1>2 DEF Reading
  <2> QED
    BY <1>1, <1>2, <1>3, <1>4, <2>1 DEF Reading, C, S, Cached
<1>7. Fresh'
  BY <1>1, <1>4 DEF Fresh, S, Stale, InSession, Unflushed, Comparing, Tip, Cached, InReadCache,
                    Masked, Passed
<1> QED
  BY <1>1, <1>4, <1>5, <1>6, <1>7, TurnSafe

\* The loop of lfs_bd_read gets on.
LEMMA ReadsGetOn ==
  ASSUME IInv
  PROVE  ReadsAdvance
<1> SUFFICES ASSUME Misses
             PROVE  IF Bypasses THEN AlignDown(BeforeBoth, ReadSize) > 0
                    ELSE Loaded.off <= rd.off /\ rd.off < Loaded.off + Loaded.size
  BY DEF ReadsAdvance
<1>1. /\ pc = "read" /\ 0 < Left /\ ~Hit(Passed) /\ ~Hit(rcache) /\ TypeOK
      /\ BlockSize \in Nat /\ CacheSize \in Nat \ {0} /\ ReadSize \in Nat \ {0}
  BY Geometry DEF Misses, IInv
<1>2. rd.off \in Nat /\ rd.lim \in Nat /\ Left \in Nat /\ rd.off < rd.lim
  BY <1>1, Typing DEF Left
<1>3. Passed.off \in Nat /\ Passed.size \in Nat /\ rcache.off \in Nat /\ rcache.size \in Nat
  BY <1>1, Typing, SMT DEF Passed, NoCache, TypeOK
<1>4. CASE ~Bypasses
  BY <1>1, <1>2, <1>4, LoadedFields
<1>5. CASE Bypasses
  <2>1. Aligned(rd.off, ReadSize) /\ ReadSize <= Left
    BY <1>1, <1>2, <1>5 DEF Bypasses, Aligned
  <2>2. ASSUME Ahead(Passed) PROVE ReadSize <= Passed.off - rd.off
    <3>1. rd.block # NoBlock
      BY <1>1, BdAssumption DEF IInv, Reading
    <3>2. Passed.block = rd.block /\ rd.passed # "none"
      BY <2>2, <3>1 DEF Ahead, Passed, NoCache
    <3>3. Passed = pcache["file"]
      BY <3>2 DEF IInv, Reading, Passed
    <3>4. Window("file") /\ Cached("file") /\ Session("file")
      BY <3>1, <3>2, <3>3 DEF IInv, Asked, Cached, Names
    <3>5. Aligned(Passed.off, CacheSize)
      BY <3>3, <3>4 DEF Window, Session
    <3>6. Aligned(Passed.off, ReadSize)
      BY <1>1, <1>3, <3>5, AlignedThrough, Geometry
    <3>7. rd.off < Passed.off
      BY <1>1, <1>2, <1>3, <2>2 DEF Hit
    <3>8. rd.off + ReadSize <= Passed.off
      BY <1>1, <1>2, <1>3, <2>1, <3>6, <3>7, AlignedApart
    <3> QED
      BY <1>1, <1>2, <1>3, <3>8
  <2>3. ASSUME Ahead(rcache) PROVE ReadSize <= rcache.off - rd.off
    <3>1. Aligned(rcache.off, ReadSize)
      BY DEF IInv, Fresh
    <3>2. rd.off < rcache.off
      BY <1>1, <1>2, <1>3, <2>3 DEF Hit
    <3>3. rd.off + ReadSize <= rcache.off
      BY <1>1, <1>2, <1>3, <2>1, <3>1, <3>2, AlignedApart
    <3> QED
      BY <1>1, <1>2, <1>3, <3>3
  <2>4. BeforeBoth \in Nat /\ ReadSize <= BeforeBoth
    <3>1. BeforeProg \in Nat /\ ReadSize <= BeforeProg
      BY <1>1, <1>2, <1>3, <2>1, <2>2 DEF BeforeProg, LeftBefore, Least
    <3> QED
      BY <1>1, <1>2, <1>3, <2>3, <3>1 DEF BeforeBoth, LeftBefore, Least
  <2>5. ReadSize <= AlignDown(BeforeBoth, ReadSize)
    BY <1>1, <2>4, AlignedSelf, Down
  <2>6. AlignDown(BeforeBoth, ReadSize) \in Nat
    BY <1>1, <2>4, Down
  <2> QED
    BY <1>1, <1>5, <2>5, <2>6
<1> QED
  BY <1>4, <1>5

\* The read cache goes stale where it may.
LEMMA StaysFresh ==
  ASSUME IInv, UNCHANGED <<rcache, disk>>, pc' # "read",
         reg'.op = "sync" => rcache.block # S'.block,
         rcache.block # NoBlock => \A i \in Offsets : Stale(rcache.block, i) => Stale(rcache.block, i)'
  PROVE  Fresh'
BY DEF IInv, Fresh, InReadCache

\* A read cache that was dropped is not stale.
LEMMA DroppedIsFresh ==
  ASSUME rcache' = NoCache, pc' = "read" => rd'.block # NoBlock,
         reg'.op = "sync" => S'.block # NoBlock
  PROVE  Fresh' /\ rcache' \in Caches
BY AlignedZero, Geometry DEF Fresh, NoCache, InReadCache, Caches, Blank, Bytes

\* A read that ends, well or not, unless it is a read-back that succeeds.
LEMMA EndReadSafe ==
  ASSUME IInv, pc = "read", NEW result, EndRead(result), rd.why # "read" => result # "ok",
         rcache' \in {rcache, NoCache}, UNCHANGED <<disk, health, pcache, ses, firm, reg>>
  PROVE  IInv'
<1>1. /\ TypeOK /\ Reading /\ rd' = NoRead /\ rd.why # "none"
      /\ pc' = IF rd.why = "read" THEN "idle" ELSE "failed"
  BY DEF IInv, EndRead, Reading
<1>2. NoRead \in [why : {"none", "read", "cmp", "check"}, passed : Names \cup {"none"},
             block : Blocks \cup {NoBlock}, off : 0 .. BlockSize, lim : 0 .. BlockSize,
             end : 0 .. BlockSize, hint : 0 .. 2 * BlockSize, current : BOOLEAN, same : BOOLEAN]
  BY Geometry DEF NoRead
<1>3. Fresh' /\ rcache' \in Caches
  <2>1. CASE rcache' = NoCache
    <3>1. pc' # "read" /\ (reg'.op = "sync" => S'.block # NoBlock)
      BY <1>1 DEF IInv, Call, S, Active
    <3> QED
      BY <2>1, <3>1, DroppedIsFresh
  <2>2. CASE rcache' = rcache
    <3>1. \A b, i : Stale(b, i) => Stale(b, i)'
      BY <1>1 DEF Stale, InSession, Unflushed, Comparing, Tip, Cached
    <3>2. pc' # "read"
      BY <1>1
    <3>3. reg'.op = "sync" => rcache.block # S'.block
      BY DEF IInv, Fresh, S
    <3> QED
      BY <1>1, <2>2, <3>1, <3>2, <3>3, StaysFresh DEF TypeOK
  <2> QED
    BY <2>1, <2>2
<1>4. TypeOK'
  BY <1>1, <1>2, <1>3 DEF TypeOK
<1>5. Asked'
  BY DEF IInv, Asked, Session, Active, Cached
<1>6. ASSUME NEW c \in Names PROVE Window(c)'
  <2>1. Window(c) /\ (Flushing(c)' <=> Flushing(c))
    BY <1>1 DEF IInv, Flushing
  <2> QED
    BY <2>1 DEF Window, Active, Cached, Tip
<1>7. Call'
  <2>1. CASE rd.why = "read"
    BY <1>1, <2>1 DEF IInv, Call, Reading
  <2>2. CASE rd.why # "read"
    <3>1. reg.op # "none"
      BY <1>1, <2>2, SMT DEF Reading, TypeOK
    <3> QED
      BY <1>1, <2>2, <3>1 DEF IInv, Call, Active, Cached, C, S
  <2> QED
    BY <2>1, <2>2
<1>8. Reading'
  BY <1>1 DEF Reading, NoRead
<1>9. ASSUME NEW c \in Names PROVE Unwritten(c)'
  <2>1. Unwritten(c)
    BY DEF IInv
  <2> QED
    BY <2>1 DEF Unwritten, Active, Tip
<1> QED
  BY <1>3, <1>4, <1>5, <1>6, <1>7, <1>8, <1>9 DEF IInv

LEMMA ReadFailsSafe ==
  ASSUME IInv, ReadFails
  PROVE  IInv'
<1>1. /\ pc = "read" /\ EndRead("corrupt") /\ rcache' \in {rcache, NoCache}
      /\ UNCHANGED <<disk, health, pcache, ses, firm, reg>>
  BY DEF ReadFails, Misses
<1> QED
  BY <1>1, EndReadSafe

LEMMA ReadDoneSafe ==
  ASSUME IInv, ReadDone
  PROVE  IInv'
<1>1. /\ pc = "read" /\ EndRead("ok") /\ rd.why = "read" /\ rcache' = rcache
      /\ UNCHANGED <<disk, health, pcache, ses, firm, reg>>
  BY DEF ReadDone
<1> QED
  BY <1>1, EndReadSafe

LEMMA MismatchSafe ==
  ASSUME IInv, Mismatch
  PROVE  IInv'
<1>1. /\ pc = "read" /\ EndRead("corrupt") /\ rcache' = rcache
      /\ UNCHANGED <<disk, health, pcache, ses, firm, reg>>
  BY DEF Mismatch
<1> QED
  BY <1>1, EndReadSafe

-----------------------------------------------------------------------------
(***************************************************************************)
(* The calls that read.                                                    *)
(***************************************************************************)

\* Two sessions are about two blocks.
LEMMA TwoBlocks ==
  ASSUME Asked, NEW c \in Names, NEW d \in Names, c # d, Active(c)
  PROVE  ses[c].block # ses[d].block
BY DEF Asked, Active, Names

\* The session of a cache that a step leaves alone.
LEMMA OtherSafe ==
  ASSUME IInv, NEW d \in Names, ses'[d] = ses[d], pcache'[d] = pcache[d], Tip(d)' = Tip(d),
         Flushing(d) => Flushing(d)', health' = health,
         Active(d) => /\ disk'[ses[d].block] = disk[ses[d].block]
                      /\ firm'[ses[d].block] = firm[ses[d].block]
  PROVE  Session(d)' /\ Window(d)' /\ Unwritten(d)'
<1>1. Session(d) /\ Window(d) /\ Unwritten(d)
  BY DEF IInv, Asked
<1>2. (Active(d)' <=> Active(d)) /\ (Cached(d)' <=> Cached(d))
  BY DEF Active, Cached
<1>3. Session(d)'
  BY <1>1, <1>2 DEF Session, Active
<1>4. Window(d)'
  BY <1>1, <1>2 DEF Window
<1>5. Unwritten(d)'
  BY <1>1, <1>2 DEF Unwritten
<1> QED
  BY <1>3, <1>4, <1>5

\* A call, which changes nothing yet but the registers.
LEMMA CallSafe ==
  ASSUME IInv, pc = "idle", UNCHANGED <<disk, health, pcache, ses, firm>>,
         rcache' \in {rcache, NoCache}, reg'.op = "sync" => rcache' = NoCache /\ S'.block # NoBlock,
         reg'.op = "prog" => pc' = "prog" /\ reg'.off = ses[reg'.cache].off,
         TypeOK', Call', Reading', rd'.why # "cmp",
         pc' = "read" /\ rcache'.block = rd'.block =>
           \A i \in rd'.off .. rd'.end - 1 : InReadCache(i)' => ~Stale(rd'.block, i) \/ Masked(i)'
  PROVE  IInv'
<1>1. TypeOK /\ reg = NoReg /\ Fresh /\ Asked /\ BlockSize \in Nat
  BY Geometry DEF IInv, Call
<1>2. \A c \in Names : Tip(c)' = Tip(c) /\ ~Flushing(c)
  BY <1>1 DEF Tip, NoReg, Flushing
<1>3. \A c \in Names : Session(c)' /\ Window(c)' /\ Unwritten(c)'
  BY <1>2, OtherSafe
<1>4. Asked'
  BY <1>1, <1>3 DEF Asked, Active
<1>5. \A b, i : Stale(b, i) <=> Stale(b, i)'
  BY <1>2 DEF Stale, InSession, Unflushed, Comparing, Cached
<1>6. Fresh'
  <2>1. CASE rcache' = NoCache
    <3>1. pc' = "read" => rd'.block # NoBlock
      BY BdAssumption DEF Reading
    <3> QED
      BY <2>1, <3>1, DroppedIsFresh
  <2>2. CASE rcache' = rcache
    <3>1. reg'.op = "sync" => rcache.block # S'.block
      BY <2>2 DEF NoCache
    <3>2. ASSUME pc' = "read", rcache'.block = rd'.block,
                 NEW i \in rd'.off .. rd'.end - 1, InReadCache(i)'
          PROVE  rcache'.data[i] = disk'[rd'.block][i] \/ Masked(i)'
      <4>1. ~Stale(rd'.block, i) \/ Masked(i)'
        BY <3>2
      <4>2. InReadCache(i)
        BY <2>2, <3>2 DEF InReadCache
      <4>3. i \in Offsets /\ rcache.block # NoBlock
        <5>1. rd'.off \in 0 .. BlockSize /\ rd'.end \in 0 .. BlockSize
          BY DEF TypeOK
        <5> QED
          BY <1>1, <2>2, <3>2, <5>1, BdAssumption DEF Offsets, Reading
      <4> QED
        BY <1>1, <2>2, <3>2, <4>1, <4>2, <4>3 DEF Fresh
    <3> QED
      BY <1>1, <1>5, <2>2, <3>1, <3>2 DEF Fresh, InReadCache
  <2> QED
    BY <2>1, <2>2
<1> QED
  BY <1>3, <1>4, <1>6 DEF IInv

\* The bytes that a caller reads are not stale, or in the cache it passes.
LEMMA ReadSafe ==
  ASSUME IInv, pc = "idle", NEW b \in Blocks, NEW off \in Nat, NEW n \in Nat, NEW hint \in Nat,
         n > 0 => hint > 0,
         NEW passed \in {"none", "file"}, Read(b, off, n, hint, passed),
         \A i \in off .. off + n - 1 : ~Stale(b, i) \/ Masked(i)'
  PROVE  IInv'
<1> PICK h : h = Least(hint, BlockSize)
  OBVIOUS
<1>1. /\ rd' = [why |-> "read", passed |-> passed, block |-> b, off |-> off, lim |-> off + n,
                end |-> off + n, hint |-> h, current |-> TRUE, same |-> TRUE]
      /\ pc' = "read" /\ UNCHANGED <<disk, health, rcache, pcache, ses, firm, reg>>
      /\ off + n <= BlockSize /\ BlockSize \in Nat \ {0} /\ TypeOK /\ reg = NoReg /\ Chunk \in Nat
  BY Geometry DEF Read, IInv, Call
<1>2. /\ rd'.why = "read" /\ rd'.passed = passed /\ rd'.block = b /\ rd'.off = off
      /\ rd'.lim = off + n /\ rd'.end = off + n /\ rd'.hint = h /\ rd'.current
  BY <1>1
<1>3. h \in 0 .. 2 * BlockSize /\ (n > 0 => h > 0)
  BY <1>1 DEF Least
<1>4. TypeOK'
  <2>1. rd' \in [why : {"none", "read", "cmp", "check"}, passed : Names \cup {"none"},
             block : Blocks \cup {NoBlock}, off : 0 .. BlockSize, lim : 0 .. BlockSize,
             end : 0 .. BlockSize, hint : 0 .. 2 * BlockSize, current : BOOLEAN, same : BOOLEAN]
    <3>1. off \in 0 .. BlockSize /\ off + n \in 0 .. BlockSize /\ passed \in Names \cup {"none"}
      BY <1>1 DEF Names
    <3> QED
      BY <1>1, <1>3, <3>1
  <2> QED
    BY <1>1, <2>1 DEF TypeOK
<1>5. Call'
  BY <1>1, <1>2 DEF Call, NoReg
<1>6. Reading'
  BY <1>1, <1>2, <1>3 DEF Reading, NoReg
<1> QED
  BY <1>1, <1>2, <1>4, <1>5, <1>6, CallSafe DEF NoReg

LEMMA ReadCallSafe ==
  ASSUME IInv, NEW b \in Blocks, NEW r \in Reads, ReadCall(b, r[1], r[2], r[3])
  PROVE  IInv'
<1> PICK off, n, hint : off = r[1] /\ n = r[2] /\ hint = r[3]
  OBVIOUS
<1>1. off \in Nat /\ n \in Nat /\ hint \in Nat /\ hint > 0
  BY BdAssumption
<1>2. /\ pc = "idle" /\ off + n <= firm[b] /\ b # ses["meta"].block
      /\ \/ b # ses["file"].block /\ Read(b, off, n, hint, "none")
         \/ off + n <= ses["file"].off /\ Read(b, off, n, hint, "file")
  BY DEF ReadCall
<1>3. TypeOK /\ reg = NoReg /\ b # NoBlock /\ firm[b] \in Nat
  BY <1>2, BdAssumption, Geometry DEF IInv, Call, TypeOK
<1>4. CASE b # ses["file"].block
  <2>1. ASSUME NEW i \in off .. off + n - 1 PROVE ~Stale(b, i)
    <3>1. ~InSession(b)
      BY <1>2, <1>4 DEF InSession, Names
    <3>2. ~(firm[b] <= i)
      BY <1>1, <1>2, <1>3
    <3> QED
      BY <3>1, <3>2 DEF Stale, InSession
  <2> QED
    BY <1>1, <1>2, <2>1, ReadSafe
<1>5. CASE b = ses["file"].block
  <2>1. off + n <= ses["file"].off /\ Read(b, off, n, hint, "file")
    BY <1>2, <1>5
  <2>2. /\ Session("file") /\ Window("file") /\ Active("file") /\ "file" \in Names
    BY <1>3, <1>5 DEF IInv, Asked, Active, Names
  <2>3. /\ ses["file"].validate /\ Tip("file") = ses["file"].off /\ ses["file"].off \in Nat
        /\ pcache["file"].off \in Nat /\ pcache["file"].size \in Nat
    BY <1>3, <2>2, Typing, Geometry DEF Session, Tip, NoReg
  <2>4. rd'.passed = "file" /\ rd'.block = b /\ pcache' = pcache
    BY <2>1 DEF Read
  <2>5. ASSUME NEW i \in off .. off + n - 1, Stale(b, i) PROVE Masked(i)'
    <3>1. Unflushed("file")
      <4>1. InSession(b)
        BY <1>5, <2>2 DEF InSession
      <4>2. \A c \in Names : ses[c].block = b => c = "file"
        BY <1>2 DEF Names
      <4> QED
        BY <2>3, <2>5, <4>1, <4>2 DEF Stale
    <3>2. ses["file"].off > 0
      BY <1>1, <2>1, <2>3
    <3>3. Cached("file") /\ pcache["file"].off = 0
      BY <2>3, <3>1, <3>2 DEF Unflushed
    <3>4. pcache["file"].block = b /\ ses["file"].off <= pcache["file"].off + pcache["file"].size
      BY <1>5, <2>2, <2>3, <3>3 DEF Window
    <3> QED
      BY <1>1, <2>1, <2>3, <2>4, <3>3, <3>4 DEF Masked, Passed
  <2> QED
    BY <1>1, <1>2, <2>1, <2>5, ReadSafe
<1> QED
  BY <1>4, <1>5

LEMMA ReadAheadSafe ==
  ASSUME IInv, ReadAhead
  PROVE  IInv'
<1> PICK s : s = ses["meta"]
  OBVIOUS
<1> PICK off : off = AlignUp(s.off, ProgSize)
  OBVIOUS
<1>1. /\ pc = "idle" /\ ~s.validate /\ s.state = "open" /\ Read(s.block, off, 1, ProgSize, "none")
      /\ "meta" \in Names
  BY DEF ReadAhead, Names
<1>2. TypeOK /\ Session("meta") /\ Asked /\ reg = NoReg
  BY <1>1 DEF IInv, Asked, Call
<1>3. Active("meta") /\ s.block \in Blocks
  BY <1>1, <1>2, Typing DEF Session, NoSession, Active
<1>4. off \in Nat /\ s.off <= off /\ s.off \in Nat /\ ProgSize \in Nat \ {0}
  BY <1>1, <1>2, Typing, Geometry, Up
<1>5. Tip("meta") = s.off
  BY <1>2 DEF Tip, NoReg
<1>6. \A i \in off .. off + 1 - 1 : ~Stale(s.block, i)
  <2> SUFFICES ASSUME NEW i \in off .. off + 1 - 1 PROVE ~Stale(s.block, i)
    OBVIOUS
  <2>1. InSession(s.block) /\ \A c \in Names : ses[c].block = s.block => c = "meta"
    BY <1>1, <1>2, <1>3, TwoBlocks DEF InSession
  <2>2. ~(i < Tip("meta"))
    BY <1>4, <1>5
  <2> QED
    BY <1>1, <2>1, <2>2 DEF Stale
<1> QED
  BY <1>1, <1>3, <1>4, <1>6, ReadSafe

LEMMA FlushCallSafe ==
  ASSUME IInv, FlushCall
  PROVE  IInv'
<1>1. /\ pc = "idle" /\ ses["file"].off > 0 /\ ses["file"].state = "open"
      /\ reg' = [NoReg EXCEPT !.op = "flush", !.cache = "file"] /\ pc' = "flush"
      /\ UNCHANGED <<disk, health, rcache, pcache, ses, firm, rd>>
  BY DEF FlushCall, NoCommit
<1>2. TypeOK /\ rd = NoRead /\ Session("file") /\ rd.why = "none" /\ rd.passed = "none"
  BY <1>1 DEF IInv, Reading, Asked, Names, NoRead
<1>3. reg'.op = "flush" /\ reg'.cache = "file" /\ reg' = [op |-> "flush", cache |-> "file", off |-> 0, end |-> 0]
  BY <1>1 DEF NoReg
<1>4. Active("file")
  BY <1>1, <1>2, Geometry DEF Session, NoSession
<1>5. TypeOK'
  <2>1. reg' \in [op : {"none", "prog", "flush", "sync", "check"}, cache : Names,
              off : 0 .. BlockSize, end : 0 .. BlockSize]
    BY <1>3, Geometry DEF Names
  <2> QED
    BY <1>1, <1>2, <2>1 DEF TypeOK
<1>6. Call'
  BY <1>1, <1>3, <1>4 DEF Call, Active, S, Cached
<1>7. Reading'
  BY <1>1, <1>2 DEF Reading
<1> QED
  BY <1>1, <1>2, <1>3, <1>5, <1>6, <1>7, CallSafe

LEMMA SyncCallSafe ==
  ASSUME IInv, SyncCall
  PROVE  IInv'
<1>1. /\ pc = "idle" /\ ~ses["meta"].validate /\ ses["meta"].state = "open"
      /\ ses["meta"].off > ses["meta"].begin /\ rcache' = NoCache
      /\ reg' = [NoReg EXCEPT !.op = "sync", !.cache = "meta"] /\ pc' = "flush"
      /\ UNCHANGED <<disk, health, pcache, ses, firm, rd>>
  BY DEF SyncCall
<1>2. TypeOK /\ rd = NoRead /\ Session("meta") /\ rd.why = "none" /\ rd.passed = "none"
  BY <1>1 DEF IInv, Reading, Asked, Names, NoRead
<1>3. reg'.op = "sync" /\ reg'.cache = "meta" /\ reg' = [op |-> "sync", cache |-> "meta", off |-> 0, end |-> 0]
  BY <1>1 DEF NoReg
<1>4. Active("meta") /\ S'.block # NoBlock
  BY <1>1, <1>2, <1>3 DEF Session, NoSession, Active, S
<1>5. TypeOK'
  <2>1. reg' \in [op : {"none", "prog", "flush", "sync", "check"}, cache : Names,
              off : 0 .. BlockSize, end : 0 .. BlockSize]
    BY <1>3, Geometry DEF Names
  <2>2. rcache' \in Caches
    BY <1>1, <1>4, DroppedIsFresh
  <2> QED
    BY <1>1, <1>2, <2>1, <2>2 DEF TypeOK
<1>6. Call'
  <2>1. ses["meta"].begin < ses["meta"].off
    BY <1>1, <1>2, Typing, Geometry DEF Names
  <2> QED
    BY <1>1, <1>3, <1>4, <2>1 DEF Call, Active, S, Cached
<1>7. Reading'
  BY <1>1, <1>2 DEF Reading
<1> QED
  BY <1>1, <1>2, <1>3, <1>4, <1>5, <1>6, <1>7, CallSafe

LEMMA CheckCallSafe ==
  ASSUME IInv, CheckCall
  PROVE  IInv'
<1> PICK s : s = ses["meta"]
  OBVIOUS
<1> PICK lim : lim = s.begin + Least(Chunk, s.off - s.begin)
  OBVIOUS
<1>1. /\ pc = "idle" /\ s.state = "synced" /\ pc' = "read" /\ reg' = [NoReg EXCEPT !.op = "check"]
      /\ rd' = [why |-> "check", passed |-> "none", block |-> s.block, off |-> s.begin,
                lim |-> lim, end |-> s.off, hint |-> s.off, current |-> TRUE, same |-> TRUE]
      /\ UNCHANGED <<disk, health, rcache, pcache, ses, firm>>
  BY DEF CheckCall
<1>2. /\ TypeOK /\ Session("meta") /\ Asked /\ "meta" \in Names /\ BlockSize \in Nat
      /\ Chunk \in Nat \ {0}
  BY <1>1, Geometry DEF IInv, Asked, Names
<1>3. reg'.op = "check" /\ reg'.cache = "meta" /\ reg' = [op |-> "check", cache |-> "meta", off |-> 0, end |-> 0]
  BY <1>1 DEF NoReg
<1>4. Active("meta") /\ s.block \in Blocks /\ ~s.validate
  BY <1>1, <1>2, Typing DEF Session, NoSession, Active
<1>5. s.begin \in Nat /\ s.off \in Nat /\ s.begin <= s.off /\ s.off <= BlockSize
  BY <1>2, Typing DEF Session
<1>6. /\ lim \in 0 .. BlockSize /\ s.begin <= lim /\ lim <= s.off
      /\ s.begin < lim => s.off > 0
      /\ lim < s.off => s.off >= s.off - lim + Chunk
  BY <1>2, <1>5 DEF Least
<1>7. /\ rd'.why = "check" /\ rd'.passed = "none" /\ rd'.block = s.block /\ rd'.off = s.begin
      /\ rd'.lim = lim /\ rd'.end = s.off /\ rd'.hint = s.off /\ rd'.current
  BY <1>1
<1>8. TypeOK'
  <2>1. reg' \in [op : {"none", "prog", "flush", "sync", "check"}, cache : Names,
              off : 0 .. BlockSize, end : 0 .. BlockSize]
    BY <1>3, Geometry DEF Names
  <2>2. rd' \in [why : {"none", "read", "cmp", "check"}, passed : Names \cup {"none"},
             block : Blocks \cup {NoBlock}, off : 0 .. BlockSize, lim : 0 .. BlockSize,
             end : 0 .. BlockSize, hint : 0 .. 2 * BlockSize, current : BOOLEAN, same : BOOLEAN]
    <3>1. s.begin \in 0 .. BlockSize /\ s.off \in 0 .. BlockSize /\ s.off \in 0 .. 2 * BlockSize
      BY <1>2, <1>5
    <3> QED
      BY <1>1, <1>4, <1>6, <3>1
  <2> QED
    BY <1>1, <1>2, <2>1, <2>2 DEF TypeOK
<1>9. S' = s
  BY <1>1, <1>3 DEF S
<1>10. Call'
  BY <1>1, <1>3, <1>4, <1>7, <1>9 DEF Call, Active
<1>11. Reading'
  BY <1>1, <1>3, <1>4, <1>5, <1>6, <1>7, <1>9 DEF Reading
<1>12. \A i : ~Stale(s.block, i)
  <2>1. InSession(s.block) /\ \A c \in Names : ses[c].block = s.block => c = "meta"
    BY <1>2, <1>4, TwoBlocks DEF InSession
  <2> QED
    BY <1>1, <1>4, <2>1 DEF Stale
<1> QED
  BY <1>1, <1>3, <1>7, <1>8, <1>10, <1>11, <1>12, CallSafe

-----------------------------------------------------------------------------
(***************************************************************************)
(* lfs_bd_prog.                                                            *)
(***************************************************************************)

LEMMA ProgCallSafe ==
  ASSUME IInv, NEW c \in Names, NEW n \in Lengths, ProgCall(c, n)
  PROVE  IInv'
<1> PICK s : s = ses[c]
  OBVIOUS
<1>1. /\ pc = "idle" /\ s.block # NoBlock /\ s.state = "open" /\ s.off + n <= BlockSize
      /\ reg' = [op |-> "prog", cache |-> c, off |-> s.off, end |-> s.off + n] /\ pc' = "prog"
      /\ UNCHANGED <<disk, health, rcache, pcache, ses, firm, rd>>
  BY DEF ProgCall
<1>2. /\ TypeOK /\ rd = NoRead /\ rd.why = "none" /\ rd.passed = "none" /\ n \in Nat
      /\ BlockSize \in Nat
  BY <1>1, BdAssumption, Geometry DEF IInv, Reading, NoRead
<1>3. s.off \in 0 .. BlockSize /\ s.off + n \in 0 .. BlockSize
  BY <1>1, <1>2, Typing
<1>4. reg'.op = "prog" /\ reg'.cache = c /\ reg'.off = s.off /\ reg'.end = s.off + n
  BY <1>1
<1>5. TypeOK'
  <2>1. reg' \in [op : {"none", "prog", "flush", "sync", "check"}, cache : Names,
              off : 0 .. BlockSize, end : 0 .. BlockSize]
    BY <1>1, <1>3
  <2> QED
    BY <1>1, <1>2, <2>1 DEF TypeOK
<1>6. Call'
  BY <1>1, <1>2, <1>3, <1>4 DEF Call, Active, S, Cached
<1>7. Reading'
  BY <1>1, <1>2 DEF Reading
<1> QED
  BY <1>1, <1>2, <1>4, <1>5, <1>6, <1>7, CallSafe

\* A step of one session.
LEMMA OneSession ==
  ASSUME IInv, NEW c \in Names, health' = health,
         reg.op # "none" => reg.cache = c, reg'.op # "none" => reg'.cache = c,
         Session(c)', Window(c)', Unwritten(c)',
         \A d \in Names \ {c} :
           /\ ses'[d] = ses[d] /\ pcache'[d] = pcache[d]
           /\ Active(d) => /\ disk'[ses[d].block] = disk[ses[d].block]
                           /\ firm'[ses[d].block] = firm[ses[d].block]
                           /\ ses'[c].block # ses[d].block
  PROVE  Asked' /\ (\A d \in Names : Window(d)' /\ Unwritten(d)')
<1>1. ASSUME NEW d \in Names \ {c} PROVE Session(d)' /\ Window(d)' /\ Unwritten(d)'
  <2>1. Tip(d)' = Tip(d) /\ ~Flushing(d)
    BY DEF Tip, Flushing
  <2> QED
    BY <2>1, OtherSafe
<1>2. \A d \in Names : Session(d)' /\ Window(d)' /\ Unwritten(d)'
  BY <1>1
<1>3. Active("file")' => ses'["file"].block # ses'["meta"].block
  <2>1. CASE c = "file"
    <3>1. "meta" \in Names \ {c}
      BY <2>1 DEF Names
    <3>2. CASE Active("meta")
      BY <2>1, <3>1, <3>2
    <3>3. CASE ~Active("meta")
      BY <2>1, <3>1, <3>3 DEF Active
    <3> QED
      BY <3>2, <3>3
  <2>2. CASE c = "meta"
    <3>1. "file" \in Names \ {c} /\ ses'["file"] = ses["file"]
      BY <2>2 DEF Names
    <3> QED
      BY <2>2, <3>1 DEF Active
  <2> QED
    BY <2>1, <2>2 DEF Names
<1> QED
  BY <1>2, <1>3 DEF Asked

\* The same, of a session that keeps its block.
LEMMA SameBlocks ==
  ASSUME IInv, NEW c \in Names, health' = health, Active(c),
         reg.op # "none" => reg.cache = c, reg'.op # "none" => reg'.cache = c,
         Session(c)', Window(c)', Unwritten(c)',
         \A d \in Names \ {c} : ses'[d] = ses[d] /\ pcache'[d] = pcache[d],
         \A b \in Blocks : b # ses[c].block => disk'[b] = disk[b] /\ firm'[b] = firm[b],
         ses'[c].block \in {ses[c].block, NoBlock}
  PROVE  Asked' /\ (\A d \in Names : Window(d)' /\ Unwritten(d)')
<1>1. TypeOK /\ Asked
  BY DEF IInv
<1>2. ASSUME NEW d \in Names \ {c}, Active(d)
      PROVE  /\ disk'[ses[d].block] = disk[ses[d].block]
             /\ firm'[ses[d].block] = firm[ses[d].block]
             /\ ses'[c].block # ses[d].block
  <2>1. ses[d].block \in Blocks /\ ses[d].block # NoBlock
    BY <1>1, <1>2, Typing DEF Active
  <2>2. ses[c].block # ses[d].block
    BY <1>1, <1>2, TwoBlocks
  <2> QED
    BY <2>1, <2>2
<1> QED
  BY <1>2, OneSession

LEMMA ProgMapSafe ==
  ASSUME IInv, ProgMap
  PROVE  IInv'
<1> PICK c : c = reg.cache
  OBVIOUS
<1>1. /\ pc = "prog" /\ pcache[c].block = NoBlock
      /\ pcache' = [pcache EXCEPT ![c] =
                      [NoCache EXCEPT !.block = ses[c].block, !.off = AlignDown(reg.off, ProgSize)]]
      /\ UNCHANGED <<disk, health, rcache, ses, firm, pc, reg, rd>>
  BY DEF ProgMap, C, S
<1>2. /\ TypeOK /\ Asked /\ c \in Names /\ reg.op = "prog" /\ Active(c) /\ ses[c].state = "open"
      /\ Session(c) /\ Window(c) /\ Unwritten(c) /\ ses[c].off <= reg.off
      /\ BlockSize \in Nat \ {0} /\ ProgSize \in Nat \ {0} /\ CacheSize \in Nat \ {0}
  BY <1>1, Geometry DEF IInv, Call, S, TypeOK, Asked
<1>3. /\ reg.off \in Nat /\ ses[c].off \in Nat /\ ses[c].begin \in Nat /\ ses[c].begin <= ses[c].off
      /\ ses[c].block \in Blocks /\ reg.off <= BlockSize
  BY <1>2, Typing DEF Session, Active
<1>4. Tip(c) = reg.off /\ ~Cached(c)
  BY <1>1, <1>2 DEF Tip, Cached
<1>5. Aligned(reg.off, ProgSize) /\ (ses[c].validate => Aligned(reg.off, CacheSize))
  BY <1>2, <1>4 DEF Window
<1>6. AlignDown(reg.off, ProgSize) = reg.off
  BY <1>2, <1>3, <1>5, Down
<1>7. pcache'[c] = [block |-> ses[c].block, off |-> reg.off, size |-> 0, data |-> Blank]
  BY <1>1, <1>2, <1>6 DEF TypeOK, NoCache
<1>8. /\ pcache'[c].block = ses[c].block /\ pcache'[c].off = reg.off /\ pcache'[c].size = 0
      /\ Cached(c)' /\ Tip(c)' = Tip(c)
  <2>1. pcache'[c].block = ses[c].block /\ pcache'[c].off = reg.off /\ pcache'[c].size = 0
    BY <1>7
  <2>2. Tip(c)' = Tip(c)
    BY <1>1 DEF Tip
  <2> QED
    BY <1>2, <2>1, <2>2 DEF Cached, Active
<1>9. TypeOK'
  <2>1. pcache'[c] \in Caches
    BY <1>2, <1>3, <1>7 DEF Caches, Blank, Bytes
  <2>2. pcache' \in [Names -> Caches]
    BY <1>1, <1>2, <2>1 DEF TypeOK
  <2> QED
    BY <1>1, <1>2, <2>2 DEF TypeOK
<1>10. Session(c)'
  BY <1>1, <1>2 DEF Session, Active, Cached
<1>11. Window(c)'
  BY <1>1, <1>2, <1>3, <1>4, <1>5, <1>8 DEF Window, Active
<1>12. Unwritten(c)'
  BY <1>1, <1>2, <1>8 DEF Unwritten, Active
<1>13. Asked' /\ (\A d \in Names : Window(d)' /\ Unwritten(d)')
  BY <1>1, <1>2, <1>10, <1>11, <1>12, SameBlocks
<1>14. Call'
  BY <1>1, <1>2 DEF IInv, Call, Active, S
<1>15. Reading'
  <2>1. rd = NoRead /\ rd.why = "none" /\ rd.passed = "none"
    BY <1>1 DEF IInv, Reading, NoRead
  <2> QED
    BY <1>1, <2>1 DEF Reading
<1>16. Fresh'
  <2>1. \A d \in Names : Unflushed(d) <=> Unflushed(d)'
    <3>1. Unflushed(c) <=> Unflushed(c)'
      BY <1>4, <1>8 DEF Unflushed
    <3>2. ASSUME NEW d \in Names, d # c PROVE Unflushed(d) <=> Unflushed(d)'
      BY <1>1, <3>2 DEF Unflushed, Cached, Tip
    <3> QED
      BY <3>1, <3>2
  <2>2. \A b, i : Stale(b, i) => Stale(b, i)'
    BY <1>1, <2>1 DEF Stale, InSession, Comparing, Tip
  <2> QED
    BY <1>1, <1>2, <2>2, StaysFresh
<1> QED
  BY <1>9, <1>13, <1>14, <1>15, <1>16 DEF IInv

LEMMA ProgDoneSafe ==
  ASSUME IInv, ProgDone
  PROVE  IInv'
<1> PICK c : c = reg.cache
  OBVIOUS
<1>1. /\ pc = "prog" /\ reg.off = reg.end /\ ses' = [ses EXCEPT ![c].off = reg.off]
      /\ pc' = "idle" /\ reg' = NoReg
      /\ UNCHANGED <<disk, health, rcache, pcache, firm, rd>>
  BY DEF ProgDone
<1>2. /\ TypeOK /\ Asked /\ c \in Names /\ reg.op = "prog" /\ Active(c) /\ ses[c].state = "open"
      /\ Session(c) /\ Window(c) /\ Unwritten(c) /\ ses[c].off <= reg.off
      /\ BlockSize \in Nat
  BY <1>1, Geometry DEF IInv, Call, S, TypeOK, Asked
<1>3. /\ reg.off \in Nat /\ ses[c].off \in Nat /\ ses[c].begin \in Nat /\ ses[c].begin <= ses[c].off
      /\ reg.off \in 0 .. BlockSize
  BY <1>2, Typing DEF Session
<1>4. /\ ses'[c] = [ses[c] EXCEPT !.off = reg.off] /\ ses'[c].block = ses[c].block
      /\ ses'[c].begin = ses[c].begin /\ ses'[c].off = reg.off
      /\ ses'[c].validate = ses[c].validate /\ ses'[c].state = ses[c].state
  <2>1. ses[c] \in Sessions /\ ses'[c] = [ses[c] EXCEPT !.off = reg.off]
    BY <1>1, <1>2 DEF TypeOK
  <2> QED
    BY <2>1 DEF Sessions
<1>5. reg'.op = "none"
  BY <1>1 DEF NoReg
<1>6. (Active(c)' <=> Active(c)) /\ (Cached(c)' <=> Cached(c)) /\ Tip(c)' = Tip(c)
  BY <1>1, <1>2, <1>4, <1>5 DEF Active, Cached, Tip
<1>7. TypeOK'
  <2>1. ses'[c] \in Sessions
    BY <1>2, <1>3, <1>4 DEF TypeOK, Sessions
  <2>2. ses' \in [Names -> Sessions]
    BY <1>1, <1>2, <2>1 DEF TypeOK
  <2>3. reg' \in [op : {"none", "prog", "flush", "sync", "check"}, cache : Names,
              off : 0 .. BlockSize, end : 0 .. BlockSize]
    BY <1>1, <1>2 DEF NoReg, Names
  <2> QED
    BY <1>1, <1>2, <2>2, <2>3 DEF TypeOK
<1>8. Session(c)'
  BY <1>1, <1>2, <1>3, <1>4, <1>6 DEF Session
<1>9. Window(c)'
  <2>1. ~Flushing(c)
    BY <1>1 DEF Flushing
  <2> QED
    BY <1>1, <1>2, <1>4, <1>6, <2>1 DEF Window
<1>10. Unwritten(c)'
  BY <1>1, <1>2, <1>4, <1>6 DEF Unwritten
<1>11. Asked' /\ (\A d \in Names : Window(d)' /\ Unwritten(d)')
  BY <1>1, <1>2, <1>4, <1>5, <1>8, <1>9, <1>10, SameBlocks
<1>12. Call'
  BY <1>1, <1>5 DEF Call
<1>13. Reading'
  <2>1. rd = NoRead /\ rd.why = "none" /\ rd.passed = "none"
    BY <1>1 DEF IInv, Reading, NoRead
  <2> QED
    BY <1>1, <2>1 DEF Reading
<1>14. Fresh'
  <2>1. \A d \in Names : /\ ses'[d].block = ses[d].block /\ ses'[d].validate = ses[d].validate
                         /\ ses'[d].state = ses[d].state /\ ses'[d].begin = ses[d].begin
                         /\ Tip(d)' = Tip(d)
    BY <1>1, <1>2, <1>4, <1>5, <1>6 DEF Tip
  <2>2. \A d \in Names : Unflushed(d) <=> Unflushed(d)'
    BY <1>1, <2>1 DEF Unflushed, Cached
  <2>3. \A b, i : Stale(b, i) => Stale(b, i)'
    BY <1>1, <2>1, <2>2 DEF Stale, InSession, Comparing
  <2> QED
    BY <1>1, <1>5, <2>3, StaysFresh
<1> QED
  BY <1>7, <1>11, <1>12, <1>13, <1>14 DEF IInv

\* What a turn of lfs_bd_prog's loop copies: the next n bytes, behind the others.
CopiesBytes(c, n) ==
  /\ reg.off + n <= reg.end /\ reg.off + n <= pcache[c].off + CacheSize
  /\ pcache' = [pcache EXCEPT ![c].size = @ + n,
       ![c].data = [i \in Offsets |->
         IF i \in reg.off .. reg.off + n - 1 THEN ses[c].stamp ELSE @[i]]]
  /\ reg' = [reg EXCEPT !.off = @ + n]
  /\ pc' = IF pcache[c].size + n = CacheSize THEN "flush" ELSE "prog"
  /\ c \in Names /\ reg.op = "prog" /\ Active(c) /\ Cached(c) /\ ses[c].state = "open"
  /\ pcache[c].off + pcache[c].size = reg.off /\ reg.off < pcache[c].off + CacheSize

LEMMA ProgCopied ==
  ASSUME IInv, ProgCopy, NEW c, c = reg.cache
  PROVE  \E n \in Nat \ {0} : CopiesBytes(c, n)
<1> PICK n : n = Least(reg.end - reg.off, CacheSize - (reg.off - C.off))
  OBVIOUS
<1> PICK size : size = Greatest(C.size, reg.off + n - C.off)
  OBVIOUS
<1>1. /\ pc = "prog" /\ reg.off < reg.end /\ pcache[c].block = ses[c].block
      /\ pcache[c].off <= reg.off /\ reg.off < pcache[c].off + CacheSize
      /\ pcache' = [pcache EXCEPT ![c].size = size,
           ![c].data = [i \in Offsets |->
             IF i \in reg.off .. reg.off + n - 1 THEN ses[c].stamp ELSE @[i]]]
      /\ reg' = [reg EXCEPT !.off = @ + n]
      /\ pc' = IF size = CacheSize THEN "flush" ELSE "prog"
  BY DEF ProgCopy, Mapped, C, S
<1>2. /\ TypeOK /\ c \in Names /\ reg.op = "prog" /\ Active(c) /\ ses[c].state = "open" /\ Window(c)
      /\ BlockSize \in Nat /\ CacheSize \in Nat
  BY <1>1, Geometry DEF IInv, Call, S, TypeOK
<1>3. /\ reg.off \in Nat /\ reg.end \in Nat /\ pcache[c].off \in Nat /\ pcache[c].size \in Nat
  BY <1>2, Typing
<1>4. Cached(c)
  BY <1>1, <1>2 DEF Active, Cached
<1>5. pcache[c].off + pcache[c].size = reg.off
  BY <1>2, <1>4 DEF Window, Tip
<1>6. n \in Nat \ {0} /\ reg.off + n <= reg.end /\ reg.off + n <= pcache[c].off + CacheSize
  BY <1>1, <1>2, <1>3 DEF Least, C
<1>7. size = pcache[c].size + n
  BY <1>3, <1>5, <1>6 DEF Greatest, C
<1>8. pcache' = [pcache EXCEPT ![c].size = @ + n,
           ![c].data = [i \in Offsets |->
             IF i \in reg.off .. reg.off + n - 1 THEN ses[c].stamp ELSE @[i]]]
  BY <1>1, <1>7
<1>9. CopiesBytes(c, n)
  BY ONLY <1>1, <1>2, <1>4, <1>5, <1>6, <1>7, <1>8 DEF CopiesBytes
<1> QED
  BY ONLY <1>6, <1>9

LEMMA ProgCopySafe ==
  ASSUME IInv, ProgCopy
  PROVE  IInv'
<1> PICK c : c = reg.cache
  OBVIOUS
<1>0. PICK n \in Nat \ {0} : CopiesBytes(c, n)
  BY ProgCopied
<1>1. /\ reg.off + n <= reg.end /\ reg.off + n <= pcache[c].off + CacheSize
      /\ pcache' = [pcache EXCEPT ![c].size = @ + n,
           ![c].data = [i \in Offsets |->
             IF i \in reg.off .. reg.off + n - 1 THEN ses[c].stamp ELSE @[i]]]
      /\ reg' = [reg EXCEPT !.off = @ + n]
      /\ pc' = IF pcache[c].size + n = CacheSize THEN "flush" ELSE "prog"
      /\ c \in Names /\ reg.op = "prog" /\ Active(c) /\ Cached(c) /\ ses[c].state = "open"
      /\ pcache[c].off + pcache[c].size = reg.off /\ reg.off < pcache[c].off + CacheSize
  BY ONLY <1>0 DEF CopiesBytes
<1>2. /\ TypeOK /\ Asked /\ Session(c) /\ Window(c) /\ Unwritten(c) /\ ses[c].off <= reg.off
      /\ pc = "prog" /\ UNCHANGED <<disk, health, rcache, ses, firm, rd>>
      /\ BlockSize \in Nat /\ CacheSize \in Nat
  BY <1>1, Geometry DEF IInv, Call, S, TypeOK, Asked, ProgCopy
<1>3. /\ reg.off \in Nat /\ reg.end \in 0 .. BlockSize /\ pcache[c].off \in Nat
      /\ pcache[c].size \in Nat /\ ses[c].stamp \in Bytes /\ ses[c].off \in Nat
      /\ ses[c].begin \in Nat /\ pcache[c].data \in [Offsets -> Bytes] /\ pcache[c] \in Caches
  BY <1>1, <1>2, Typing
<1> PICK data : data = [i \in Offsets |->
                  IF i \in reg.off .. reg.off + n - 1 THEN ses[c].stamp ELSE pcache[c].data[i]]
  OBVIOUS
<1>4. data \in [Offsets -> Bytes]
  BY <1>3
<1> PICK new : new = [pcache[c] EXCEPT !.size = pcache[c].size + n, !.data = data]
  OBVIOUS
<1>17. pcache' = [pcache EXCEPT ![c] = new]
  BY <1>1
<1>18. pcache'[c] = new /\ \A d \in Names : d # c => pcache'[d] = pcache[d]
  BY <1>1, <1>2, <1>17 DEF TypeOK
<1>19. pcache[c].size + n \in 0 .. CacheSize
  BY <1>1, <1>2, <1>3
<1>5. pcache'[c] = [pcache[c] EXCEPT !.size = pcache[c].size + n, !.data = data]
  BY <1>18
<1>6. /\ pcache'[c].block = pcache[c].block /\ pcache'[c].off = pcache[c].off
      /\ pcache'[c].size = pcache[c].size + n
  BY <1>3, <1>5 DEF Caches
<1>7. reg'.op = "prog" /\ reg'.cache = c /\ reg'.off = reg.off + n /\ reg'.end = reg.end
  BY <1>1, <1>2 DEF TypeOK
<1>8. Tip(c) = reg.off /\ Tip(c)' = reg.off + n /\ Cached(c)'
  BY <1>1, <1>6, <1>7 DEF Tip, Cached
<1>9. TypeOK'
  <2>1. new \in Caches
    BY <1>3, <1>4, <1>19 DEF Caches
  <2>2. pcache' \in [Names -> Caches]
    BY <1>2, <1>17, <2>1 DEF TypeOK
  <2>3. reg' \in [op : {"none", "prog", "flush", "sync", "check"}, cache : Names,
              off : 0 .. BlockSize, end : 0 .. BlockSize]
    BY SMTT(30), <1>1, <1>2, <1>3 DEF TypeOK
  <2> QED
    BY SMTT(30), <1>1, <1>2, <2>2, <2>3 DEF TypeOK
<1>10. Session(c)'
  BY <1>1, <1>2 DEF Session, Active, Cached
<1>11. Window(c)'
  BY <1>1, <1>2, <1>3, <1>6, <1>7, <1>8 DEF Window, Active, Flushing
<1>12. Unwritten(c)'
  <2>1. \A i \in reg.off + n .. BlockSize - 1 : i \in reg.off .. BlockSize - 1
    BY <1>2, <1>3
  <2> QED
    BY <1>2, <1>8, <2>1 DEF Unwritten, Active
<1>13. Asked' /\ (\A d \in Names : Window(d)' /\ Unwritten(d)')
  <2>1. reg'.op # "none" => reg'.cache = c
    BY <1>7
  <2>2. \A d \in Names \ {c} : ses'[d] = ses[d] /\ pcache'[d] = pcache[d]
    BY <1>2, <1>18
  <2>3. \A b \in Blocks : b # ses[c].block => disk'[b] = disk[b] /\ firm'[b] = firm[b]
    BY <1>2
  <2>4. ses'[c].block \in {ses[c].block, NoBlock} /\ health' = health /\ c \in Names /\ Active(c)
    BY SMTT(30), <1>1, <1>2
  <2> QED
    BY <1>10, <1>11, <1>12, <2>1, <2>2, <2>3, <2>4, SameBlocks
<1>14. Call'
  BY <1>1, <1>2, <1>3, <1>6, <1>7, <1>8 DEF IInv, Call, Active, S, C
<1>15. Reading'
  <2>1. rd = NoRead /\ rd.why = "none" /\ rd.passed = "none"
    BY <1>2 DEF IInv, Reading, NoRead
  <2> QED
    BY <1>1, <1>2, <2>1 DEF Reading
<1>16. Fresh'
  <2>1. \A d \in Names : d # c => pcache'[d] = pcache[d] /\ Tip(d)' = Tip(d)
    BY <1>1, <1>2, <1>7, <1>18 DEF Tip
  <2>2. \A d \in Names : Unflushed(d) => Unflushed(d)'
    BY <1>1, <1>6, <1>8, <2>1 DEF Unflushed, Cached
  <2>3. Tip(c) <= Tip(c)'
    BY <1>3, <1>8
  <2>4. \A d \in Names, i \in Offsets : i < Tip(d) => i < Tip(d)'
    <3>1. \A i \in Offsets : i < Tip(c) => i < Tip(c)'
      BY <1>2, <1>3, <1>8 DEF Offsets
    <3> QED
      BY <2>1, <3>1
  <2>5. \A b : \A i \in Offsets : Stale(b, i) => Stale(b, i)'
    BY <1>1, <1>2, <2>2, <2>4 DEF Stale, InSession, Comparing
  <2>6. pc' # "read" /\ reg'.op # "sync"
    BY <1>1, <1>7
  <2>7. rcache' = rcache /\ disk' = disk
    BY <1>2
  <2>8. \A i \in Offsets : Stale(rcache.block, i) => Stale(rcache.block, i)'
    BY <2>5, <2>7
  <2> QED
    BY SMTT(30), <2>6, <2>7, <2>8, StaysFresh
<1> QED
  BY <1>9, <1>13, <1>14, <1>15, <1>16 DEF IInv

-----------------------------------------------------------------------------
(***************************************************************************)
(* lfs_bd_flush.                                                           *)
(***************************************************************************)

LEMMA AlignedDifference ==
  ASSUME NEW a \in Nat, NEW b \in Nat, NEW n \in Nat \ {0}, Aligned(a, n), Aligned(b, n), b <= a
  PROVE  a - b \in Nat /\ Aligned(a - b, n)
<1>1. PICK q \in Nat : a = n * q
  BY AlignedIsMultiple
<1>2. PICK r \in Nat : b = n * r
  BY AlignedIsMultiple
<1>3. r <= q
  <2> SUFFICES ASSUME q < r PROVE FALSE
    OBVIOUS
  <2>1. PICK d \in Nat : r = q + 1 + d
    <3>1. r - q - 1 \in Nat /\ r = q + 1 + (r - q - 1)
      OBVIOUS
    <3> QED
      BY <3>1
  <2>2. n * r = n * q + n + n * d /\ n * d \in Nat /\ n * q \in Nat
    BY <2>1
  <2> QED
    BY <1>1, <1>2, <2>2
<1>4. PICK d \in Nat : q = r + d
  <2>1. q - r \in Nat /\ q = r + (q - r)
    BY <1>3
  <2> QED
    BY <2>1
<1>5. n * q = n * r + n * d /\ n * d \in Nat /\ n * r \in Nat
  BY <1>4
<1>6. a - b = n * d /\ a - b \in Nat
  BY <1>1, <1>2, <1>5
<1> QED
  BY <1>6, AlignedIsMultiple

\* What the cache holds and its padding stay in the block.
LEMMA FlushFits ==
  ASSUME IInv, NEW c \in Names, Cached(c)
  PROVE  /\ AlignUp(pcache[c].size, ProgSize) \in Nat
         /\ pcache[c].size <= AlignUp(pcache[c].size, ProgSize)
         /\ pcache[c].off + AlignUp(pcache[c].size, ProgSize) <= BlockSize
         /\ pcache[c].size = CacheSize => AlignUp(pcache[c].size, ProgSize) = CacheSize
         /\ pcache[c].block = ses[c].block /\ Active(c) /\ pcache[c].block \in Blocks
         /\ pcache[c].off \in 0 .. BlockSize /\ pcache[c].size \in 0 .. CacheSize
<1>1. /\ TypeOK /\ Window(c) /\ BlockSize \in Nat \ {0} /\ ProgSize \in Nat \ {0}
      /\ CacheSize \in Nat \ {0} /\ Aligned(CacheSize, ProgSize) /\ Aligned(BlockSize, ProgSize)
  BY Geometry DEF IInv
<1>2. /\ pcache[c].off \in 0 .. BlockSize /\ pcache[c].size \in 0 .. CacheSize
      /\ pcache[c].block \in Blocks /\ pcache[c].block # NoBlock
  BY <1>1, Typing DEF Cached
<1>3. /\ pcache[c].block = ses[c].block /\ Aligned(pcache[c].off, ProgSize)
      /\ pcache[c].off + pcache[c].size <= BlockSize
  BY <1>1 DEF Window
<1>4. BlockSize - pcache[c].off \in Nat /\ Aligned(BlockSize - pcache[c].off, ProgSize)
  BY <1>1, <1>2, <1>3, AlignedDifference
<1>5. pcache[c].size <= BlockSize - pcache[c].off /\ pcache[c].size \in Nat
  BY <1>1, <1>2, <1>3
<1>6. /\ AlignUp(pcache[c].size, ProgSize) \in Nat
      /\ pcache[c].size <= AlignUp(pcache[c].size, ProgSize)
      /\ AlignUp(pcache[c].size, ProgSize) <= BlockSize - pcache[c].off
      /\ pcache[c].size = CacheSize => AlignUp(pcache[c].size, ProgSize) = CacheSize
  <2>1. /\ AlignUp(pcache[c].size, ProgSize) \in Nat
        /\ pcache[c].size <= AlignUp(pcache[c].size, ProgSize)
        /\ \A b \in Nat : Aligned(b, ProgSize) /\ pcache[c].size <= b =>
                         AlignUp(pcache[c].size, ProgSize) <= b
        /\ Aligned(pcache[c].size, ProgSize) => AlignUp(pcache[c].size, ProgSize) = pcache[c].size
    BY <1>1, <1>5, Up
  <2>2. AlignUp(pcache[c].size, ProgSize) <= BlockSize - pcache[c].off
    BY <1>4, <1>5, <2>1
  <2> QED
    BY <1>1, <2>1, <2>2
<1>7. pcache[c].off + AlignUp(pcache[c].size, ProgSize) <= BlockSize
  BY <1>1, <1>2, <1>6
<1> QED
  BY <1>2, <1>3, <1>6, <1>7 DEF Active

\* What the device holds after a write.
LEMMA DeviceWritten ==
  ASSUME IInv, Cached(reg.cache), DeviceWrite(C.block)
  PROVE  /\ disk' \in [Blocks -> [Offsets -> Bytes]]
         /\ \A b \in Blocks : b # C.block => disk'[b] = disk[b]
         /\ health[C.block] = "frozen" => disk' = disk
         /\ health[C.block] # "frozen" =>
              \A i \in Offsets :
                disk'[C.block][i] =
                  IF C.off <= i /\ i < C.off + C.size THEN C.data[i]
                  ELSE IF C.off <= i /\ i < C.off + AlignUp(C.size, ProgSize) THEN Erased
                  ELSE disk[C.block][i]
<1>1. TypeOK /\ C.block \in Blocks /\ C.data \in [Offsets -> Bytes] /\ Erased \in Bytes
  BY FlushFits, Typing DEF IInv, C, Bytes, TypeOK
<1>2. disk \in [Blocks -> [Offsets -> Bytes]]
  BY <1>1 DEF TypeOK
<1> PICK image : image = Written(disk[C.block])
  OBVIOUS
<1>3. \A i \in Offsets :
        image[i] = IF C.off <= i /\ i < C.off + C.size THEN C.data[i]
                   ELSE IF C.off <= i /\ i < C.off + AlignUp(C.size, ProgSize) THEN Erased
                   ELSE disk[C.block][i]
  BY <1>1, <1>2 DEF Written
<1>4. image \in [Offsets -> Bytes]
  BY <1>1, <1>2 DEF Written
<1>5. disk' = IF health[C.block] = "frozen" THEN disk ELSE [disk EXCEPT ![C.block] = image]
  BY DEF DeviceWrite
<1> QED
  BY <1>1, <1>2, <1>3, <1>4, <1>5

\* A flush that begins, or fails: only the read cache, the device and the registers.
LEMMA FlushFailsSafe ==
  ASSUME IInv, FlushFails
  PROVE  IInv'
<1>1. pc = "flush" /\ pc' = "failed" /\ UNCHANGED <<disk, health, rcache, pcache, ses, firm, reg, rd>>
  BY DEF FlushFails
<1>2. TypeOK'
  BY <1>1 DEF IInv, TypeOK
<1>3. Asked'
  BY <1>1 DEF IInv, Asked, Session, Active, Cached
<1>4. ASSUME NEW c \in Names PROVE Window(c)' /\ Unwritten(c)'
  <2>1. Window(c) /\ Unwritten(c) /\ (Flushing(c)' <=> Flushing(c))
    BY <1>1 DEF IInv, Flushing
  <2> QED
    BY <1>1, <2>1 DEF Window, Unwritten, Active, Cached, Tip
<1>5. Call'
  BY <1>1 DEF IInv, Call, Active, C, S, Cached
<1>6. Reading'
  <2>1. rd = NoRead /\ rd.why = "none" /\ rd.passed = "none"
    BY <1>1 DEF IInv, Reading, NoRead
  <2> QED
    BY <1>1, <2>1 DEF Reading
<1>7. Fresh'
  <2>1. \A b, i : Stale(b, i) => Stale(b, i)'
    BY <1>1 DEF Stale, InSession, Unflushed, Comparing, Tip, Cached
  <2>2. reg'.op = "sync" => rcache.block # S'.block
    BY <1>1 DEF IInv, Fresh, S
  <2> QED
    BY <1>1, <2>1, <2>2, StaysFresh
<1> QED
  BY <1>2, <1>3, <1>4, <1>5, <1>6, <1>7 DEF IInv

LEMMA FlushValidatedSafe ==
  ASSUME IInv, FlushValidated
  PROVE  IInv'
<1> PICK c : c = reg.cache
  OBVIOUS
<1> PICK diff : diff = AlignUp(pcache[c].size, ProgSize)
  OBVIOUS
<1> PICK lim : lim = pcache[c].off + Least(Chunk, diff)
  OBVIOUS
<1>1. /\ pc = "flush" /\ pcache[c].block # NoBlock /\ ses[c].validate /\ DeviceWrite(C.block)
      /\ rcache' = NoCache
      /\ rd' = [why |-> "cmp", passed |-> "none", block |-> pcache[c].block, off |-> pcache[c].off,
                lim |-> lim, end |-> pcache[c].off + diff, hint |-> diff,
                current |-> TRUE, same |-> TRUE]
      /\ pc' = "read" /\ UNCHANGED <<health, pcache, ses, firm, reg>>
  BY DEF FlushValidated, C, S
<1>2. /\ TypeOK /\ Asked /\ Call /\ Reading /\ c \in Names /\ Cached(c)
      /\ Session(c) /\ Window(c) /\ Unwritten(c) /\ C = pcache[c] /\ S = ses[c]
      /\ BlockSize \in Nat \ {0} /\ Chunk \in Nat \ {0} /\ CacheSize \in Nat
  BY <1>1, Geometry DEF IInv, TypeOK, Asked, Cached, C, S
<1>3. /\ diff \in Nat /\ pcache[c].size <= diff /\ pcache[c].off + diff <= BlockSize
      /\ pcache[c].block = ses[c].block /\ Active(c) /\ pcache[c].block \in Blocks
      /\ pcache[c].off \in 0 .. BlockSize /\ pcache[c].size \in 0 .. CacheSize
  BY SMTT(30), <1>2, FlushFits
<1>4. /\ disk' \in [Blocks -> [Offsets -> Bytes]]
      /\ \A b \in Blocks : b # ses[c].block => disk'[b] = disk[b]
      /\ health[ses[c].block] # "frozen" =>
           \A i \in Offsets :
             disk'[ses[c].block][i] =
               IF pcache[c].off <= i /\ i < pcache[c].off + pcache[c].size THEN pcache[c].data[i]
               ELSE IF pcache[c].off <= i /\ i < pcache[c].off + diff THEN Erased
               ELSE disk[ses[c].block][i]
  BY <1>1, <1>2, <1>3, DeviceWritten
<1>5. reg.op \in {"prog", "flush"} /\ (reg.op = "prog" => pcache[c].size = CacheSize)
  BY <1>1, <1>2 DEF Call
<1>6. /\ lim \in 0 .. BlockSize /\ pcache[c].off <= lim /\ lim <= pcache[c].off + diff
      /\ pcache[c].off < lim => diff > 0
      /\ lim < pcache[c].off + diff => diff >= pcache[c].off + diff - lim + Chunk
      /\ pcache[c].off + diff \in 0 .. BlockSize /\ diff \in 0 .. 2 * BlockSize
  BY <1>2, <1>3 DEF Least
<1>7. /\ rd'.why = "cmp" /\ rd'.passed = "none" /\ rd'.block = pcache[c].block
      /\ rd'.off = pcache[c].off /\ rd'.lim = lim /\ rd'.end = pcache[c].off + diff
      /\ rd'.hint = diff /\ rd'.current
  BY <1>1
<1>8. Fresh' /\ rcache' \in Caches
  <2>1. reg'.op # "sync" /\ rd'.block # NoBlock
    BY <1>1, <1>5, <1>7
  <2> QED
    BY <1>1, <2>1, DroppedIsFresh
<1>9. TypeOK'
  <2>1. rd' \in [why : {"none", "read", "cmp", "check"}, passed : Names \cup {"none"},
             block : Blocks \cup {NoBlock}, off : 0 .. BlockSize, lim : 0 .. BlockSize,
             end : 0 .. BlockSize, hint : 0 .. 2 * BlockSize, current : BOOLEAN, same : BOOLEAN]
    BY <1>1, <1>3, <1>6
  <2> QED
    BY <1>1, <1>2, <1>4, <1>8, <2>1 DEF TypeOK
<1>10. Session(c)'
  BY <1>1, <1>2 DEF Session, Active, Cached
<1>11. Window(c)'
  <2>1. Flushing(c) <=> Flushing(c)'
    BY <1>1 DEF Flushing
  <2> QED
    BY <1>1, <1>2, <2>1 DEF Window, Active, Cached, Tip
<1>12. Unwritten(c)'
  <2> SUFFICES ASSUME ses[c].state = "open", health[ses[c].block] # "frozen",
                      NEW i \in Tip(c) .. BlockSize - 1
               PROVE  disk'[ses[c].block][i] = Erased
    BY <1>1 DEF Unwritten, Active, Tip
  <2>1. disk[ses[c].block][i] = Erased
    BY <1>1, <1>2, <1>3 DEF Unwritten
  <2>2. Tip(c) = pcache[c].off + pcache[c].size
    BY <1>2 DEF Window
  <2>3. i \in Offsets /\ ~(i < pcache[c].off + pcache[c].size)
    BY <1>2, <1>3, <2>2 DEF Offsets
  <2> QED
    BY <1>4, <2>1, <2>3
<1>13. Asked' /\ (\A d \in Names : Window(d)' /\ Unwritten(d)')
  <2>1. \A d \in Names \ {c} : ses'[d] = ses[d] /\ pcache'[d] = pcache[d]
    BY <1>1
  <2>2. \A b \in Blocks : b # ses[c].block => disk'[b] = disk[b] /\ firm'[b] = firm[b]
    BY <1>1, <1>4
  <2>3. ses'[c].block \in {ses[c].block, NoBlock} /\ health' = health /\ reg'.cache = c
    BY <1>1
  <2> QED
    BY <1>2, <1>3, <1>10, <1>11, <1>12, <2>1, <2>2, <2>3, SameBlocks
<1>14. Call'
  BY SMTT(30), <1>1, <1>2, <1>5 DEF Call, Active, S, Cached, C
<1>15. Reading'
  <2>1. \A i : i \notin C'.off .. rd'.off - 1
    BY <1>1, <1>2, <1>3, <1>7 DEF C
  <2>2. /\ reg'.op \in {"prog", "flush"} /\ S'.validate /\ Cached(reg.cache)' /\ rd'.block = C'.block
        /\ C'.off <= rd'.off /\ rd'.end = C'.off + AlignUp(C'.size, ProgSize)
        /\ reg'.op = "prog" => C'.size = CacheSize
    BY <1>1, <1>2, <1>3, <1>5, <1>7 DEF C, S, Cached
  <2> QED
    BY <1>1, <1>2, <1>3, <1>6, <1>7, <2>1, <2>2 DEF Reading
<1> QED
  BY <1>8, <1>9, <1>13, <1>14, <1>15 DEF IInv

\* The full cache of lfs_bd_prog is on the device.
LEMMA FlushedFull ==
  ASSUME IInv, reg.op = "prog", NEW c \in Names, c = reg.cache, Flushed(c), Cached(c),
         pcache[c].size = CacheSize, rd' = NoRead, UNCHANGED <<rcache, health>>,
         disk' \in [Blocks -> [Offsets -> Bytes]],
         \A b \in Blocks : b # ses[c].block => disk'[b] = disk[b],
         ses[c].validate => disk' = disk, Fresh'
  PROVE  IInv'
<1>1. /\ TypeOK /\ Asked /\ Call /\ Session(c) /\ Window(c) /\ Unwritten(c)
      /\ BlockSize \in Nat \ {0} /\ CacheSize \in Nat \ {0} /\ ProgSize \in Nat \ {0}
      /\ Aligned(CacheSize, ProgSize)
  BY Geometry DEF IInv, Asked
<1>2. /\ pcache' = [pcache EXCEPT ![c] = NoCache] /\ pc' = "prog" /\ UNCHANGED <<ses, reg, firm>>
  BY DEF Flushed
<1>3. Active(c) /\ ses[c].state = "open" /\ ses[c].off <= reg.off /\ reg.off <= reg.end
  BY <1>1 DEF Call, S
<1>4. NoCache \in Caches /\ NoCache.block = NoBlock
  BY <1>1 DEF Caches, NoCache, Blank, Bytes
<1>5. pcache'[c] = NoCache /\ ~Cached(c)' /\ Tip(c)' = Tip(c)
  <2>1. pcache'[c] = NoCache
    BY <1>1, <1>2 DEF TypeOK
  <2>2. Tip(c)' = Tip(c)
    BY <1>2 DEF Tip
  <2> QED
    BY <1>4, <2>1, <2>2 DEF Cached
<1>6. Aligned(Tip(c), ProgSize) /\ (ses[c].validate => Aligned(Tip(c), CacheSize))
  <2>1. /\ Tip(c) = pcache[c].off + CacheSize /\ Aligned(pcache[c].off, ProgSize)
        /\ (ses[c].validate => Aligned(pcache[c].off, CacheSize))
    BY <1>1, <1>3 DEF Window
  <2>2. pcache[c].off \in Nat /\ Aligned(CacheSize, CacheSize)
    BY <1>1, Typing DEF Aligned
  <2> QED
    BY <1>1, <2>1, <2>2, AlignedSum
<1>7. TypeOK'
  <2>1. pcache' \in [Names -> Caches]
    BY <1>1, <1>2, <1>4 DEF TypeOK
  <2>2. NoRead \in [why : {"none", "read", "cmp", "check"}, passed : Names \cup {"none"},
             block : Blocks \cup {NoBlock}, off : 0 .. BlockSize, lim : 0 .. BlockSize,
             end : 0 .. BlockSize, hint : 0 .. 2 * BlockSize, current : BOOLEAN, same : BOOLEAN]
    BY <1>1 DEF NoRead
  <2> QED
    BY <1>1, <1>2, <2>1, <2>2 DEF TypeOK
<1>8. Session(c)'
  BY <1>1, <1>2, <1>3, <1>5 DEF Session, Active
<1>9. Window(c)'
  BY <1>2, <1>5, <1>6 DEF Window
<1>10. Unwritten(c)'
  BY <1>1, <1>2, <1>5 DEF Unwritten, Active
<1>11. Asked' /\ (\A d \in Names : Window(d)' /\ Unwritten(d)')
  <2>1. \A d \in Names \ {c} : ses'[d] = ses[d] /\ pcache'[d] = pcache[d]
    BY <1>1, <1>2 DEF TypeOK
  <2>2. \A b \in Blocks : b # ses[c].block => disk'[b] = disk[b] /\ firm'[b] = firm[b]
    BY <1>2
  <2>3. ses'[c].block \in {ses[c].block, NoBlock} /\ health' = health /\ reg'.cache = c
    BY <1>2
  <2> QED
    BY <1>3, <1>8, <1>9, <1>10, <2>1, <2>2, <2>3, SameBlocks
<1>12. Call'
  BY <1>1, <1>2, <1>3 DEF Call, Active, S
<1>13. Reading'
  BY <1>2 DEF Reading, NoRead
<1> QED
  BY <1>7, <1>11, <1>12, <1>13 DEF IInv

\* The last flush of a session, or of a commit.
LEMMA FlushedLast ==
  ASSUME IInv, reg.op \in {"flush", "sync"}, NEW c \in Names, c = reg.cache, Flushed(c),
         rd' = NoRead, UNCHANGED <<rcache, health>>,
         disk' \in [Blocks -> [Offsets -> Bytes]],
         \A b \in Blocks : b # ses[c].block => disk'[b] = disk[b], Fresh'
  PROVE  IInv'
<1>1. /\ TypeOK /\ Asked /\ Call /\ Session(c) /\ BlockSize \in Nat /\ ProgSize \in Nat \ {0}
  BY Geometry DEF IInv, Asked
<1>2. /\ pcache' = [pcache EXCEPT ![c] = NoCache] /\ pc' = "idle" /\ UNCHANGED firm
      /\ reg' = NoReg
      /\ ses' = IF ses[c].validate THEN [ses EXCEPT ![c] = NoSession]
                ELSE [ses EXCEPT ![c].state = "synced"]
  BY DEF Flushed, S
<1>3. Active(c) /\ ses[c].state = "open"
  BY <1>1 DEF Call, S
<1>4. NoCache \in Caches /\ NoCache.block = NoBlock
  BY Geometry DEF Caches, NoCache, Blank, Bytes
<1>5. pcache'[c] = NoCache /\ ~Cached(c)' /\ reg'.op = "none"
  BY <1>1, <1>2, <1>4 DEF TypeOK, Cached, NoReg
<1>6. NoSession \in Sessions /\ NoSession.block = NoBlock /\ NoSession.state = "open"
      /\ NoSession.off = 0 /\ NoSession.begin = 0 /\ NoSession.validate = TRUE
  BY <1>1 DEF Sessions, NoSession, Bytes
<1>7. /\ ses' \in [Names -> Sessions] /\ Session(c)' /\ Window(c)' /\ Unwritten(c)'
      /\ ses'[c].block \in {ses[c].block, NoBlock}
      /\ \A d \in Names \ {c} : ses'[d] = ses[d]
  <2>1. CASE ses[c].validate
    <3>1. ses' \in [Names -> Sessions] /\ ses'[c] = NoSession /\ \A d \in Names \ {c} : ses'[d] = ses[d]
      BY <1>1, <1>2, <1>6, <2>1 DEF TypeOK
    <3>2. ~Active(c)'
      BY <1>6, <3>1 DEF Active
    <3>3. Session(c)'
      BY <1>1, <1>6, <3>1, <3>2, AlignedZero DEF Session
    <3>4. Window(c)' /\ Unwritten(c)'
      BY <1>5, <3>2 DEF Window, Unwritten
    <3> QED
      BY <1>6, <3>1, <3>3, <3>4
  <2>2. CASE ~ses[c].validate
    <3> PICK new : new = [ses[c] EXCEPT !.state = "synced"]
      OBVIOUS
    <3>1. /\ new \in Sessions /\ new.block = ses[c].block /\ new.begin = ses[c].begin
          /\ new.off = ses[c].off /\ new.validate = ses[c].validate /\ new.state = "synced"
      <4>1. ses[c] \in Sessions
        BY <1>1 DEF TypeOK
      <4> QED
        BY <4>1 DEF Sessions
    <3>2. ses' = [ses EXCEPT ![c] = new]
      BY <1>2, <2>2
    <3>3. ses' \in [Names -> Sessions] /\ ses'[c] = new /\ \A d \in Names \ {c} : ses'[d] = ses[d]
      BY <1>1, <3>1, <3>2 DEF TypeOK
    <3>4. Session(c)'
      BY <1>1, <1>2, <1>3, <1>5, <2>2, <3>1, <3>3 DEF Session, Active
    <3>5. Window(c)' /\ Unwritten(c)'
      BY <1>5, <2>2, <3>1, <3>3 DEF Window, Unwritten
    <3> QED
      BY <3>1, <3>3, <3>4, <3>5
  <2> QED
    BY <2>1, <2>2
<1>8. TypeOK'
  <2>1. pcache' \in [Names -> Caches]
    BY <1>1, <1>2, <1>4 DEF TypeOK
  <2>2. NoRead \in [why : {"none", "read", "cmp", "check"}, passed : Names \cup {"none"},
             block : Blocks \cup {NoBlock}, off : 0 .. BlockSize, lim : 0 .. BlockSize,
             end : 0 .. BlockSize, hint : 0 .. 2 * BlockSize, current : BOOLEAN, same : BOOLEAN]
    BY <1>1 DEF NoRead
  <2>3. reg' \in [op : {"none", "prog", "flush", "sync", "check"}, cache : Names,
              off : 0 .. BlockSize, end : 0 .. BlockSize]
    BY <1>1, <1>2 DEF NoReg, Names
  <2> QED
    BY <1>1, <1>2, <1>7, <2>1, <2>2, <2>3 DEF TypeOK
<1>9. Asked' /\ (\A d \in Names : Window(d)' /\ Unwritten(d)')
  <2>1. \A d \in Names \ {c} : ses'[d] = ses[d] /\ pcache'[d] = pcache[d]
    BY <1>1, <1>2, <1>7 DEF TypeOK
  <2>2. \A b \in Blocks : b # ses[c].block => disk'[b] = disk[b] /\ firm'[b] = firm[b]
    BY <1>2
  <2>3. health' = health /\ reg'.op = "none"
    BY <1>5
  <2> QED
    BY <1>3, <1>7, <2>1, <2>2, <2>3, SameBlocks
<1>10. Call'
  BY <1>2, <1>5 DEF Call
<1>11. Reading'
  BY <1>2 DEF Reading, NoRead
<1> QED
  BY <1>8, <1>9, <1>10, <1>11 DEF IInv

\* A session that ends: nothing of its block is stale.
LEMMA EndIsFresh ==
  ASSUME IInv, NEW c \in Names, Active(c), \A i : ~Stale(ses[c].block, i) \/ rcache.block # ses[c].block,
         \A d \in Names \ {c} : ses'[d] = ses[d] /\ pcache'[d] = pcache[d] /\ Tip(d)' = Tip(d),
         \A b : b # ses[c].block => firm'[b] = firm[b],
         ses'[c].block \in {ses[c].block, NoBlock},
         UNCHANGED <<rcache, disk>>, pc' # "read", reg'.op = "none"
  PROVE  Fresh'
<1>1. ASSUME rcache.block # NoBlock, NEW i \in Offsets, Stale(rcache.block, i)
      PROVE  Stale(rcache.block, i)'
  <2>1. rcache.block # ses[c].block
    BY <1>1
  <2>2. \A d \in Names : ses[d].block = rcache.block =>
           /\ ses'[d] = ses[d] /\ Tip(d)' = Tip(d)
           /\ Unflushed(d)' <=> Unflushed(d)
    BY <2>1 DEF Unflushed, Cached
  <2>3. \A d \in Names : ses'[d].block = rcache.block => ses[d].block = rcache.block
    BY <1>1, <2>1
  <2>4. InSession(rcache.block)' => InSession(rcache.block)
    BY <2>3 DEF InSession
  <2>5. firm'[rcache.block] = firm[rcache.block]
    BY <2>1
  <2> QED
    BY <1>1, <2>2, <2>4, <2>5 DEF Stale, Comparing
<1> QED
  BY <1>1, StaysFresh

LEMMA FlushNothingSafe ==
  ASSUME IInv, FlushNothing
  PROVE  IInv'
<1> PICK c : c = reg.cache
  OBVIOUS
<1>1. pc = "flush" /\ pcache[c].block = NoBlock /\ Flushed(c) /\ UNCHANGED <<disk, health, rcache, rd>>
  BY DEF FlushNothing, C
<1>2. /\ TypeOK /\ Asked /\ Call /\ Reading /\ Session(c) /\ c \in Names /\ C = pcache[c]
      /\ S = ses[c] /\ ~Cached(c) /\ BlockSize \in Nat
  BY <1>1, Geometry DEF IInv, Asked, TypeOK, C, S, Cached
<1>3. reg.op \in {"flush", "sync"} /\ Active(c) /\ rd = NoRead /\ ses[c].state = "open"
  <2>1. reg.op # "prog"
    BY <1>1, <1>2 DEF Call
  <2> QED
    BY <1>1, <1>2, <2>1 DEF Call, Reading
<1>4. /\ pcache' = [pcache EXCEPT ![c] = NoCache] /\ pc' = "idle" /\ UNCHANGED firm
      /\ reg' = NoReg
      /\ ses' = IF ses[c].validate THEN [ses EXCEPT ![c] = NoSession]
                ELSE [ses EXCEPT ![c].state = "synced"]
  BY <1>1, <1>2, <1>3 DEF Flushed
<1>5. \A d \in Names \ {c} : ses'[d] = ses[d] /\ pcache'[d] = pcache[d] /\ Tip(d)' = Tip(d)
  BY <1>2, <1>3, <1>4 DEF TypeOK, Tip, NoReg
<1>6. ses'[c].block \in {ses[c].block, NoBlock}
  BY <1>2, <1>4 DEF TypeOK, Sessions, NoSession
<1>7. ASSUME rcache.block = ses[c].block, NEW i PROVE ~Stale(ses[c].block, i)
  <2>1. reg.op = "flush"
    BY <1>2, <1>3, <1>7 DEF IInv, Fresh
  <2>2. c = "file" /\ ses[c].off > 0 /\ ses[c].validate /\ ses[c].off \in Nat
    BY <1>2, <2>1, Typing DEF Call, Session
  <2>3. ~Unflushed(c)
    BY <1>2, <2>1, <2>2 DEF Unflushed, Tip
  <2>4. \A d \in Names : ses[d].block = ses[c].block => d = c
    BY <1>2, <1>3, TwoBlocks
  <2> QED
    BY <1>2, <2>2, <2>3, <2>4 DEF Stale, InSession
<1>8. Fresh'
  <2>1. \A i : ~Stale(ses[c].block, i) \/ rcache.block # ses[c].block
    BY <1>7
  <2>2. reg'.op = "none" /\ pc' # "read"
    BY <1>4 DEF NoReg
  <2>3. \A b : b # ses[c].block => firm'[b] = firm[b]
    BY <1>4
  <2> QED
    BY <1>1, <1>2, <1>3, <1>5, <1>6, <2>1, <2>2, <2>3, EndIsFresh
<1>9. disk' \in [Blocks -> [Offsets -> Bytes]] /\ \A b \in Blocks : disk'[b] = disk[b]
  BY <1>1, <1>2 DEF TypeOK
<1> QED
  BY <1>1, <1>2, <1>3, <1>8, <1>9, FlushedLast

LEMMA ValidatedSafe ==
  ASSUME IInv, Validated
  PROVE  IInv'
<1> PICK c : c = reg.cache
  OBVIOUS
<1>1. /\ pc = "read" /\ rd.why = "cmp" /\ Flushed(c) /\ rd' = NoRead
      /\ UNCHANGED <<disk, health, rcache>>
  BY DEF Validated
<1>2. /\ TypeOK /\ Asked /\ Call /\ Reading /\ Session(c) /\ c \in Names /\ C = pcache[c]
      /\ S = ses[c] /\ BlockSize \in Nat
  BY Geometry DEF IInv, Asked, TypeOK, C, S
<1>3. /\ reg.op \in {"prog", "flush"} /\ ses[c].validate /\ Cached(c) /\ Comparing(c)
      /\ reg.op = "prog" => pcache[c].size = CacheSize
      /\ Active(c)
  BY <1>1, <1>2 DEF Reading, Call, Comparing
<1>4. disk' \in [Blocks -> [Offsets -> Bytes]] /\ (\A b \in Blocks : disk'[b] = disk[b]) /\ disk' = disk
  BY <1>1, <1>2 DEF TypeOK
<1>5. \A i : ~Stale(ses[c].block, i)
  <2>1. \A d \in Names : ses[d].block = ses[c].block => d = c
    BY <1>2, <1>3, TwoBlocks
  <2> QED
    BY <1>2, <1>3, <2>1 DEF Stale, InSession
<1>6. CASE reg.op = "prog"
  <2>1. /\ pcache' = [pcache EXCEPT ![c] = NoCache] /\ pc' = "prog" /\ UNCHANGED <<ses, reg, firm>>
    BY <1>1, <1>6 DEF Flushed
  <2>2. \A d \in Names \ {c} : pcache'[d] = pcache[d] /\ Tip(d)' = Tip(d)
    BY <1>2, <2>1 DEF TypeOK, Tip
  <2>3. ASSUME NEW i \in Offsets, Stale(rcache.block, i) PROVE Stale(rcache.block, i)'
    <3>1. rcache.block # ses[c].block
      BY <1>5, <2>3
    <3>2. \A d \in Names : ses[d].block = rcache.block =>
            /\ Tip(d)' = Tip(d)
            /\ Unflushed(d)' <=> Unflushed(d)
      BY <2>1, <2>2, <3>1 DEF Unflushed, Cached
    <3> QED
      BY <1>1, <2>1, <2>3, <3>2 DEF Stale, InSession, Comparing
  <2>4. Fresh'
    BY <1>1, <1>6, <2>1, <2>3, StaysFresh
  <2> QED
    BY <1>1, <1>2, <1>3, <1>4, <1>6, <2>4, FlushedFull
<1>7. CASE reg.op = "flush"
  <2>1. /\ pcache' = [pcache EXCEPT ![c] = NoCache] /\ pc' = "idle" /\ UNCHANGED firm
        /\ reg' = NoReg /\ ses' = [ses EXCEPT ![c] = NoSession]
    BY <1>1, <1>2, <1>3, <1>7 DEF Flushed
  <2>2. \A d \in Names \ {c} : ses'[d] = ses[d] /\ pcache'[d] = pcache[d] /\ Tip(d)' = Tip(d)
    BY <1>2, <1>7, <2>1 DEF TypeOK, Tip, NoReg
  <2>3. ses'[c].block \in {ses[c].block, NoBlock}
    BY <1>2, <2>1 DEF TypeOK, NoSession
  <2>4. Fresh'
    <3>1. reg'.op = "none" /\ pc' # "read" /\ \A b : b # ses[c].block => firm'[b] = firm[b]
      BY <2>1 DEF NoReg
    <3> QED
      BY <1>1, <1>2, <1>3, <1>5, <2>2, <2>3, <3>1, EndIsFresh
  <2> QED
    BY <1>1, <1>2, <1>4, <1>7, <2>4, FlushedLast
<1> QED
  BY <1>3, <1>6, <1>7

LEMMA FlushSafe ==
  ASSUME IInv, Flush
  PROVE  IInv'
<1> PICK c : c = reg.cache
  OBVIOUS
<1> PICK diff : diff = AlignUp(pcache[c].size, ProgSize)
  OBVIOUS
<1>1. /\ pc = "flush" /\ pcache[c].block # NoBlock /\ ~ses[c].validate /\ DeviceWrite(C.block)
      /\ Flushed(c) /\ UNCHANGED <<health, rcache, rd>>
  BY DEF Flush, C, S
<1>2. /\ TypeOK /\ Asked /\ Call /\ Reading /\ Session(c) /\ Window(c) /\ c \in Names /\ C = pcache[c]
      /\ S = ses[c] /\ BlockSize \in Nat /\ Cached(c) /\ Fresh /\ CacheSize \in Nat
  BY <1>1, Geometry DEF IInv, Asked, TypeOK, C, S, Cached
<1>3. /\ pcache[c].block = ses[c].block /\ Active(c) /\ pcache[c].block \in Blocks
      /\ pcache[c].off \in 0 .. BlockSize /\ pcache[c].size \in 0 .. CacheSize
      /\ pcache[c].size = CacheSize => diff = CacheSize
  BY <1>2, FlushFits
<1>4. /\ disk' \in [Blocks -> [Offsets -> Bytes]]
      /\ \A b \in Blocks : b # ses[c].block => disk'[b] = disk[b]
      /\ health[ses[c].block] = "frozen" => disk' = disk
      /\ health[ses[c].block] # "frozen" =>
           \A i \in Offsets :
             disk'[ses[c].block][i] =
               IF pcache[c].off <= i /\ i < pcache[c].off + pcache[c].size THEN pcache[c].data[i]
               ELSE IF pcache[c].off <= i /\ i < pcache[c].off + diff THEN Erased
               ELSE disk[ses[c].block][i]
  BY <1>1, <1>2, <1>3, DeviceWritten
<1>5. reg.op \in {"prog", "sync"} /\ (reg.op = "prog" => pcache[c].size = CacheSize) /\ rd = NoRead
  <2>1. reg.op # "flush"
    BY <1>1, <1>2 DEF Call, Session
  <2> QED
    BY <1>1, <1>2, <2>1 DEF Call, Reading
<1>6. CASE reg.op = "prog"
  <2>1. /\ pcache' = [pcache EXCEPT ![c] = NoCache] /\ pc' = "prog" /\ UNCHANGED <<ses, reg, firm>>
    BY <1>1, <1>6 DEF Flushed
  <2>2. /\ \A d \in Names \ {c} : pcache'[d] = pcache[d]
        /\ \A d \in Names : Tip(d)' = Tip(d)
    BY <1>2, <2>1 DEF TypeOK, Tip
  <2>3. ses[c].state = "open" /\ Tip(c) = pcache[c].off + CacheSize /\ ses[c].begin <= pcache[c].off
        /\ ses[c].begin \in Nat
    BY <1>2, <1>5, <1>6, Typing DEF Call, Window
  <2>4. ASSUME NEW i \in Offsets, Stale(rcache.block, i) PROVE Stale(rcache.block, i)'
    <3>1. \A d \in Names : ~ses[d].validate \/ d # c
      BY <1>1
    <3>2. \A d \in Names : d # c => (Unflushed(d)' <=> Unflushed(d))
      BY <2>1, <2>2 DEF Unflushed, Cached
    <3> QED
      BY <1>1, <2>1, <2>2, <2>4, <3>1, <3>2 DEF Stale, InSession, Comparing
  <2>5. ASSUME rcache.block # NoBlock, NEW i \in Offsets, InReadCache(i)
        PROVE  rcache.data[i] = disk'[rcache.block][i] \/ Stale(rcache.block, i)'
    <3>1. CASE disk'[rcache.block][i] = disk[rcache.block][i]
      BY <1>2, <2>4, <2>5, <3>1 DEF Fresh
    <3>2. CASE disk'[rcache.block][i] # disk[rcache.block][i]
      <4>1. rcache.block = ses[c].block
        BY <1>2, <1>4, <2>5, <3>2, Typing
      <4>2. health[ses[c].block] # "frozen"
        BY <1>4, <3>2
      <4>3. i \in Nat /\ pcache[c].off <= i /\ i < pcache[c].off + CacheSize
        BY <1>2, <1>3, <1>4, <1>5, <1>6, <3>2, <4>1, <4>2 DEF Offsets
      <4>4. ses[c].begin <= i /\ i < Tip(c)
        BY <1>2, <1>3, <2>3, <4>3
      <4>5. ses'[c] = ses[c] /\ Tip(c)' = Tip(c)
        BY <2>1, <2>2, <1>2
      <4> QED
        BY <1>1, <1>2, <2>3, <4>1, <4>4, <4>5 DEF Stale
    <3> QED
      BY <3>1, <3>2
  <2>6. Fresh'
    <3>1. reg'.op # "sync" /\ pc' # "read" /\ rcache' = rcache
      BY <1>1, <1>6, <2>1
    <3>2. /\ rcache.block = NoBlock => rcache = NoCache
          /\ Aligned(rcache.off, ReadSize) /\ rcache.off + rcache.size <= BlockSize
      BY <1>2 DEF Fresh
    <3> QED
      BY <2>5, <3>1, <3>2 DEF Fresh, InReadCache
  <2> QED
    BY <1>1, <1>2, <1>3, <1>4, <1>5, <1>6, <2>6, FlushedFull
<1>7. CASE reg.op = "sync"
  <2>1. /\ pcache' = [pcache EXCEPT ![c] = NoCache] /\ pc' = "idle" /\ UNCHANGED firm
        /\ reg' = NoReg /\ ses' = [ses EXCEPT ![c].state = "synced"]
    BY <1>1, <1>2, <1>7 DEF Flushed
  <2>2. rcache.block # ses[c].block
    BY <1>2, <1>7 DEF Fresh
  <2>3. \A d \in Names \ {c} : ses'[d] = ses[d] /\ pcache'[d] = pcache[d] /\ Tip(d)' = Tip(d)
    BY <1>2, <1>7, <2>1 DEF TypeOK, Tip, NoReg
  <2>4. ses'[c].block = ses[c].block
    BY <1>2, <2>1 DEF TypeOK, Sessions
  <2>5. ASSUME rcache.block # NoBlock, NEW i \in Offsets, InReadCache(i)
        PROVE  rcache.data[i] = disk'[rcache.block][i] \/ Stale(rcache.block, i)'
    <3>1. disk'[rcache.block][i] = disk[rcache.block][i]
      BY <1>2, <1>4, <2>2, <2>5, Typing
    <3>2. Stale(rcache.block, i) => Stale(rcache.block, i)'
      <4>1. \A d \in Names : ses[d].block = rcache.block =>
              /\ ses'[d] = ses[d] /\ Tip(d)' = Tip(d)
              /\ Unflushed(d)' <=> Unflushed(d)
        BY <2>2, <2>3 DEF Unflushed, Cached
      <4>2. InSession(rcache.block)' => InSession(rcache.block)
        BY <1>1, <2>3, <2>4 DEF InSession
      <4> QED
        BY <1>1, <2>1, <4>1, <4>2 DEF Stale, Comparing
    <3> QED
      BY <1>2, <2>5, <3>1, <3>2 DEF Fresh
  <2>6. Fresh'
    <3>1. reg'.op # "sync" /\ pc' # "read" /\ rcache' = rcache
      BY <1>1, <2>1 DEF NoReg
    <3>2. /\ rcache.block = NoBlock => rcache = NoCache
          /\ Aligned(rcache.off, ReadSize) /\ rcache.off + rcache.size <= BlockSize
      BY <1>2 DEF Fresh
    <3> QED
      BY <2>5, <3>1, <3>2 DEF Fresh, InReadCache
  <2> QED
    BY <1>1, <1>2, <1>4, <1>5, <1>7, <2>6, FlushedLast
<1> QED
  BY <1>5, <1>6, <1>7

-----------------------------------------------------------------------------
(***************************************************************************)
(* The callers.                                                            *)
(***************************************************************************)

\* Between two calls, what the registers hold is well typed.
LEMMA RestTyped ==
  /\ NoReg \in [op : {"none", "prog", "flush", "sync", "check"}, cache : Names,
                off : 0 .. BlockSize, end : 0 .. BlockSize]
  /\ NoRead \in [why : {"none", "read", "cmp", "check"}, passed : Names \cup {"none"},
             block : Blocks \cup {NoBlock}, off : 0 .. BlockSize, lim : 0 .. BlockSize,
             end : 0 .. BlockSize, hint : 0 .. 2 * BlockSize, current : BOOLEAN, same : BOOLEAN]
  /\ NoCache \in Caches /\ NoSession \in Sessions
  /\ reg' = NoReg /\ pc' = "idle" => Call'
  /\ rd' = NoRead /\ pc' # "read" => Reading'
<1>1. BlockSize \in Nat
  BY Geometry
<1>2. NoReg \in [op : {"none", "prog", "flush", "sync", "check"}, cache : Names,
                 off : 0 .. BlockSize, end : 0 .. BlockSize]
  BY <1>1 DEF NoReg, Names
<1>3. NoRead \in [why : {"none", "read", "cmp", "check"}, passed : Names \cup {"none"},
             block : Blocks \cup {NoBlock}, off : 0 .. BlockSize, lim : 0 .. BlockSize,
             end : 0 .. BlockSize, hint : 0 .. 2 * BlockSize, current : BOOLEAN, same : BOOLEAN]
  BY <1>1 DEF NoRead
<1>4. NoCache \in Caches
  BY Geometry DEF NoCache, Caches, Blank, Bytes
<1>5. NoSession \in Sessions
  BY <1>1 DEF NoSession, Sessions, Bytes
<1>6. reg' = NoReg /\ pc' = "idle" => Call'
  BY DEF Call, NoReg
<1>7. rd' = NoRead /\ pc' # "read" => Reading'
  BY DEF Reading, NoRead
<1> QED
  BY <1>2, <1>3, <1>4, <1>5, <1>6, <1>7

\* No session, and nothing in the cache.
LEMMA NothingSafe ==
  ASSUME NEW c \in Names, ses'[c] = NoSession, pcache'[c] = NoCache
  PROVE  Session(c)' /\ Window(c)' /\ Unwritten(c)'
<1>1. ~Active(c)' /\ ~Cached(c)'
  BY DEF Active, Cached, NoSession, NoCache
<1>2. Session(c)'
  BY <1>1, AlignedZero, Geometry DEF Session, NoSession
<1> QED
  BY <1>1, <1>2 DEF Window, Unwritten

\* A cache without a session is empty.
LEMMA NoWindow ==
  ASSUME IInv, NEW c \in Names, ~Active(c) \/ ses[c].state = "synced"
  PROVE  pcache[c] = NoCache
<1>1. Window(c) /\ Session(c)
  BY DEF IInv, Asked
<1>2. CASE ses[c].state = "synced"
  BY <1>1, <1>2 DEF Session, Window
<1>3. CASE ~Active(c)
  BY <1>1, <1>3 DEF Window, Active, Cached
<1> QED
  BY <1>2, <1>3

LEMMA CheckedSafe ==
  ASSUME IInv, Checked
  PROVE  IInv'
<1>1. /\ pc = "read" /\ rd.why = "check"
      /\ firm' = [firm EXCEPT ![S.block] = BlockSize]
      /\ ses' = [ses EXCEPT !["meta"] = NoSession]
      /\ pc' = "idle" /\ reg' = NoReg /\ rd' = NoRead
      /\ UNCHANGED <<disk, health, rcache, pcache>>
  BY DEF Checked
<1> PICK c : c = "meta"
  OBVIOUS
<1>2. /\ TypeOK /\ Asked /\ Call /\ Reading /\ c \in Names /\ Session(c) /\ BlockSize \in Nat
  BY Geometry DEF IInv, Asked, Names
<1>3. reg.op = "check" /\ reg.cache = c /\ Active(c) /\ S = ses[c] /\ ses[c].state = "synced"
  BY <1>1, <1>2, SMT DEF Call, Reading, S
<1>4. /\ ses'[c] = NoSession /\ pcache'[c] = NoCache /\ ses'[c].block = NoBlock
      /\ \A d \in Names \ {c} : ses'[d] = ses[d] /\ pcache'[d] = pcache[d] /\ Tip(d)' = Tip(d)
  <2>1. pcache[c] = NoCache
    BY <1>2, <1>3, NoWindow
  <2> QED
    BY <1>1, <1>2, <1>3, <2>1 DEF TypeOK, Tip, NoReg, NoSession
<1>5. TypeOK'
  <2>1. ses' \in [Names -> Sessions]
    BY <1>1, <1>2, RestTyped DEF TypeOK
  <2>2. firm' \in [Blocks -> 0 .. BlockSize]
    <3>1. firm \in [Blocks -> 0 .. BlockSize] /\ BlockSize \in 0 .. BlockSize
      BY <1>2 DEF TypeOK
    <3>2. firm' = [firm EXCEPT ![S.block] = BlockSize]
      BY <1>1
    <3> QED
      BY <3>1, <3>2
  <2> QED
    BY <1>1, <1>2, <2>1, <2>2, RestTyped DEF TypeOK
<1>6. \A b : b # ses[c].block => firm'[b] = firm[b]
  BY <1>1, <1>2, <1>3 DEF TypeOK
<1>7. Asked' /\ (\A d \in Names : Window(d)' /\ Unwritten(d)')
  <2>1. reg'.op = "none" /\ health' = health
    BY <1>1 DEF NoReg
  <2>2. Session(c)' /\ Window(c)' /\ Unwritten(c)'
    BY <1>2, <1>4, NothingSafe
  <2>3. \A b \in Blocks : b # ses[c].block => disk'[b] = disk[b] /\ firm'[b] = firm[b]
    BY <1>1, <1>6
  <2> QED
    BY <1>2, <1>3, <1>4, <2>1, <2>2, <2>3, SameBlocks
<1>8. Fresh'
  <2>1. \A i : ~Stale(ses[c].block, i)
    <3>1. \A d \in Names : ses[d].block = ses[c].block => d = c
      BY <1>2, <1>3, TwoBlocks
    <3> QED
      BY <1>2, <1>3, <3>1 DEF Stale, InSession, Session
  <2>2. pc' # "read" /\ reg'.op = "none"
    BY <1>1 DEF NoReg
  <2> QED
    BY <1>1, <1>2, <1>3, <1>4, <1>6, <2>1, <2>2, EndIsFresh
<1> QED
  BY <1>1, <1>5, <1>7, <1>8, RestTyped DEF IInv

LEMMA DropSafe ==
  ASSUME IInv, Drop
  PROVE  IInv'
<1> PICK c : c = reg.cache
  OBVIOUS
<1> PICK n : n = Least(firm[ses[c].block], ses[c].begin)
  OBVIOUS
<1>1. /\ pc = "failed" /\ firm' = [firm EXCEPT ![ses[c].block] = n]
      /\ pcache' = [pcache EXCEPT ![c] = NoCache]
      /\ ses' = [ses EXCEPT ![c] = NoSession]
      /\ pc' = "idle" /\ reg' = NoReg
      /\ UNCHANGED <<disk, health, rcache, rd>>
  BY DEF Drop, S
<1>2. /\ TypeOK /\ Asked /\ Call /\ Reading /\ c \in Names /\ Session(c) /\ BlockSize \in Nat
  BY Geometry DEF IInv, Asked, TypeOK
<1>3. Active(c) /\ rd = NoRead
  BY <1>1, <1>2 DEF Call, Reading, TypeOK
<1>4. ses[c].begin \in 0 .. BlockSize /\ ses[c].block \in Blocks /\ firm[ses[c].block] \in 0 .. BlockSize
  <2>1. ses[c].begin \in 0 .. BlockSize /\ ses[c].block \in Blocks
    BY <1>2, <1>3, Typing DEF Active
  <2> QED
    BY <1>2, <2>1 DEF TypeOK
<1>5. n \in 0 .. BlockSize /\ n <= ses[c].begin /\ n <= firm[ses[c].block]
  BY <1>2, <1>4 DEF Least
<1>6. /\ ses'[c] = NoSession /\ pcache'[c] = NoCache /\ ses'[c].block = NoBlock
      /\ \A d \in Names \ {c} : ses'[d] = ses[d] /\ pcache'[d] = pcache[d] /\ Tip(d)' = Tip(d)
  BY <1>1, <1>2 DEF TypeOK, Tip, NoReg, NoSession
<1>7. firm'[ses[c].block] = n /\ \A b : b # ses[c].block => firm'[b] = firm[b]
  BY <1>1, <1>2, <1>4 DEF TypeOK
<1>8. TypeOK'
  <2>1. ses' \in [Names -> Sessions] /\ pcache' \in [Names -> Caches]
    BY <1>1, <1>2, RestTyped DEF TypeOK
  <2>2. firm' \in [Blocks -> 0 .. BlockSize]
    BY <1>1, <1>2, <1>5 DEF TypeOK
  <2> QED
    BY <1>1, <1>2, <2>1, <2>2, RestTyped DEF TypeOK
<1>9. Asked' /\ (\A d \in Names : Window(d)' /\ Unwritten(d)')
  <2>1. reg'.op = "none" /\ health' = health
    BY <1>1 DEF NoReg
  <2>2. Session(c)' /\ Window(c)' /\ Unwritten(c)'
    BY <1>2, <1>6, NothingSafe
  <2>3. \A b \in Blocks : b # ses[c].block => disk'[b] = disk[b] /\ firm'[b] = firm[b]
    BY <1>1, <1>7
  <2> QED
    BY <1>2, <1>3, <1>6, <2>1, <2>2, <2>3, SameBlocks
<1>10. ASSUME NEW b \in Blocks, NEW i \in Offsets, Stale(b, i) PROVE Stale(b, i)'
  <2>1. CASE b = ses[c].block
    <3>1. \A d \in Names : ses[d].block = ses[c].block => d = c
      BY <1>2, <1>3, TwoBlocks
    <3>2. ~InSession(b)'
      BY <1>3, <1>4, <1>6, <2>1, <3>1, BdAssumption DEF InSession
    <3>3. ses[c].begin <= i
      <4>1. i \in Nat
        BY <1>2 DEF Offsets
      <4>2. ses[c].validate => ses[c].begin = 0
        BY <1>2, <1>3 DEF Session
      <4>3. ses[c].validate \/ ses[c].begin <= i
        BY <1>2, <1>10, <2>1, <3>1 DEF Stale, InSession
      <4> QED
        BY <4>1, <4>2, <4>3
    <3>4. firm'[b] <= i
      BY <1>2, <1>4, <1>5, <1>7, <2>1, <3>3 DEF Offsets
    <3> QED
      BY <3>2, <3>4 DEF Stale
  <2>2. CASE b # ses[c].block
    <3>1. \A d \in Names : ses[d].block = b =>
            /\ d # c /\ ses'[d] = ses[d] /\ Tip(d)' = Tip(d)
            /\ Unflushed(d)' <=> Unflushed(d)
      BY <1>6, <2>2 DEF Unflushed, Cached
    <3>2. CASE InSession(b)
      BY <1>1, <1>10, <3>1, <3>2 DEF Stale, Comparing
    <3>3. CASE ~InSession(b)
      <4>1. ~InSession(b)'
        BY <1>6, <3>3, BdAssumption DEF InSession
      <4>2. firm[b] <= i
        BY <1>10, <3>3 DEF Stale, InSession
      <4> QED
        BY <1>7, <2>2, <4>1, <4>2 DEF Stale
    <3> QED
      BY <3>2, <3>3
  <2> QED
    BY <2>1, <2>2
<1>11. Fresh'
  <2>1. pc' # "read" /\ reg'.op # "sync" /\ UNCHANGED <<rcache, disk>>
    BY <1>1 DEF NoReg
  <2>2. rcache.block # NoBlock =>
          \A i \in Offsets : Stale(rcache.block, i) => Stale(rcache.block, i)'
    BY <1>2, <1>10, <2>1, Typing
  <2> QED
    BY <2>1, <2>2, StaysFresh
<1>12. Reading'
  BY <1>1, <1>3, RestTyped
<1> QED
  BY <1>1, <1>8, <1>9, <1>11, <1>12, RestTyped DEF IInv

LEMMA KeepSafe ==
  ASSUME IInv, Keep
  PROVE  IInv'
<1> PICK c : c = "file"
  OBVIOUS
<1> PICK new : new = [ses[c] EXCEPT !.state = "kept"]
  OBVIOUS
<1>1. /\ pc = "failed" /\ reg.cache = c /\ ses' = [ses EXCEPT ![c] = new]
      /\ pc' = "idle" /\ reg' = NoReg
      /\ UNCHANGED <<disk, health, rcache, pcache, firm, rd>>
  BY DEF Keep
<1>2. /\ TypeOK /\ Asked /\ Call /\ Reading /\ c \in Names /\ Session(c) /\ Window(c)
      /\ BlockSize \in Nat
  BY Geometry DEF IInv, Asked, Names
<1>3. Active(c) /\ rd = NoRead /\ reg.op \in {"prog", "flush"} /\ ses[c].state = "open"
  <2>1. reg.op \in {"prog", "flush"}
    BY <1>1, <1>2 DEF Call, TypeOK
  <2> QED
    BY <1>1, <1>2, <2>1 DEF Call, Reading, S
<1>4. /\ new \in Sessions /\ new.block = ses[c].block /\ new.begin = ses[c].begin
      /\ new.off = ses[c].off /\ new.validate = ses[c].validate /\ new.state = "kept"
  <2>1. ses[c] \in Sessions
    BY <1>2 DEF TypeOK
  <2> QED
    BY <2>1 DEF Sessions
<1>5. /\ ses'[c] = new /\ ses' \in [Names -> Sessions]
      /\ \A d \in Names \ {c} : ses'[d] = ses[d] /\ pcache'[d] = pcache[d] /\ Tip(d)' = Tip(d)
  BY <1>1, <1>2, <1>4 DEF TypeOK, Tip, NoReg
<1>6. /\ Tip(c) \in Nat /\ Tip(c)' = ses[c].off /\ ses[c].off <= Tip(c)
      /\ ses[c].off \in Nat /\ pcache[c].off \in Nat /\ pcache[c].size \in Nat
  <2>1. Tip(c)' = ses[c].off
    BY <1>1, <1>4, <1>5 DEF Tip, NoReg
  <2>2. ses[c].off \in 0 .. BlockSize /\ Tip(c) \in 0 .. BlockSize /\ pcache[c].off \in 0 .. BlockSize
        /\ pcache[c].size \in 0 .. CacheSize
    BY <1>2, Typing
  <2>3. ses[c].off <= Tip(c)
    BY <1>1, <1>2, <1>3, <2>2 DEF Tip, Call, S
  <2> QED
    BY <1>2, <2>1, <2>2, <2>3, Geometry
<1>7. (Active(c)' <=> Active(c)) /\ (Cached(c)' <=> Cached(c))
  BY <1>1, <1>4, <1>5 DEF Active, Cached
<1>8. TypeOK'
  BY <1>1, <1>2, <1>5, RestTyped DEF TypeOK
<1>9. Session(c)'
  BY <1>1, <1>2, <1>3, <1>4, <1>5, <1>7 DEF Session
<1>10. Window(c)'
  BY <1>1, <1>2, <1>3, <1>4, <1>5, <1>6, <1>7 DEF Window
<1>11. Unwritten(c)'
  BY <1>4, <1>5 DEF Unwritten
<1>12. Asked' /\ (\A d \in Names : Window(d)' /\ Unwritten(d)')
  <2>1. reg'.op = "none" /\ health' = health
    BY <1>1 DEF NoReg
  <2>2. \A b \in Blocks : b # ses[c].block => disk'[b] = disk[b] /\ firm'[b] = firm[b]
    BY <1>1
  <2>3. ses'[c].block \in {ses[c].block, NoBlock}
    BY <1>4, <1>5
  <2> QED
    BY <1>1, <1>2, <1>3, <1>5, <1>9, <1>10, <1>11, <2>1, <2>2, <2>3, SameBlocks
<1>13. ASSUME NEW i \in Offsets, Stale(rcache.block, i) PROVE Stale(rcache.block, i)'
  <2>1. Unflushed(c) => Unflushed(c)'
    BY <1>1, <1>6, <1>7 DEF Unflushed
  <2>2. \A d \in Names : Unflushed(d) => Unflushed(d)'
    BY <1>1, <1>5, <2>1 DEF Unflushed, Cached
  <2>3. \A d \in Names : /\ ses'[d].block = ses[d].block /\ ses'[d].validate = ses[d].validate
                         /\ ses'[d].begin = ses[d].begin
    BY <1>4, <1>5
  <2>4. \A d \in Names : ~ses[d].validate => ses'[d] = ses[d] /\ Tip(d)' = Tip(d)
    BY <1>2, <1>5 DEF Session
  <2>5. InSession(rcache.block) <=> InSession(rcache.block)'
    BY <1>1, <2>3 DEF InSession
  <2> QED
    BY ZenonT(60), <1>1, <1>13, <2>2, <2>3, <2>4, <2>5 DEF Stale, Comparing
<1>14. Fresh'
  <2>1. pc' # "read" /\ reg'.op # "sync"
    BY <1>1 DEF NoReg
  <2> QED
    BY <1>1, <1>13, <2>1, StaysFresh
<1> QED
  BY <1>1, <1>3, <1>8, <1>12, <1>14, RestTyped DEF IInv

LEMMA HandOverSafe ==
  ASSUME IInv, HandOver
  PROVE  IInv'
<1> PICK s, p : s = ses["meta"] /\ p = pcache["meta"]
  OBVIOUS
<1>1. /\ pc = "idle" /\ s.validate /\ s.off > 0
      /\ pcache' = [file |-> p, meta |-> NoCache]
      /\ ses' = [file |-> s, meta |-> NoSession]
      /\ firm' = [b \in Blocks |-> IF b = ses["file"].block THEN 0 ELSE firm[b]]
      /\ UNCHANGED <<disk, health, rcache, pc, reg, rd>>
  BY DEF HandOver
<1>2. /\ TypeOK /\ Asked /\ reg = NoReg /\ Reading /\ rd = NoRead /\ Session("meta")
      /\ Session("file") /\ Window("meta") /\ Unwritten("meta") /\ BlockSize \in Nat
  BY <1>1, Geometry DEF IInv, Asked, Names, Call, Reading
<1>3. s \in Sessions /\ p \in Caches
  BY <1>2 DEF TypeOK, Names
<1>4. Active("meta") /\ s.block \in Blocks /\ s.block # NoBlock /\ s.block # ses["file"].block
  <2>1. Active("meta")
    BY <1>1, <1>2 DEF Session, NoSession
  <2>2. s.block \in Blocks
    BY <1>3, <2>1 DEF Sessions, Active
  <2>3. s.block # ses["file"].block
    BY <1>2, <2>1 DEF Asked, Active
  <2> QED
    BY <2>1, <2>2, <2>3 DEF Active
<1>5. /\ ses'["file"] = s /\ ses'["meta"] = NoSession /\ pcache'["file"] = p /\ pcache'["meta"] = NoCache
      /\ ses' \in [Names -> Sessions] /\ pcache' \in [Names -> Caches]
  BY <1>1, <1>3, RestTyped DEF Names
<1>6. Tip("file")' = Tip("meta")
  BY <1>1, <1>2, <1>5 DEF Tip, NoReg
<1>7. firm' \in [Blocks -> 0 .. BlockSize]
  BY <1>1, <1>2 DEF TypeOK
<1>8. TypeOK'
  BY <1>1, <1>2, <1>5, <1>7 DEF TypeOK
<1>9. /\ Session("file")'
  <2>1. firm'[s.block] = firm[s.block]
    BY <1>1, <1>4
  <2> QED
    BY <1>1, <1>2, <1>4, <1>5, <2>1 DEF Session, Active, Cached
<1>10. Window("file")'
  <2>1. ~Flushing("meta")
    BY <1>2 DEF Flushing, NoReg
  <2> QED
    BY <1>1, <1>2, <1>5, <1>6, <2>1 DEF Window, Active, Cached
<1>11. Unwritten("file")'
  BY <1>1, <1>2, <1>5, <1>6 DEF Unwritten, Active
<1>12. Session("meta")' /\ Window("meta")' /\ Unwritten("meta")'
  BY <1>5, NothingSafe DEF Names
<1>13. Asked' /\ (\A d \in Names : Window(d)' /\ Unwritten(d)')
  <2>1. ses'["file"].block # ses'["meta"].block
    BY <1>4, <1>5 DEF NoSession
  <2> QED
    BY <1>9, <1>10, <1>11, <1>12, <2>1 DEF Asked, Names
<1>14. Call'
  BY <1>1, <1>2, RestTyped
<1>15. Reading'
  BY <1>1, <1>2, RestTyped
<1>16. ASSUME NEW b \in Blocks, NEW i \in Offsets, Stale(b, i) PROVE Stale(b, i)'
  <2>1. i \in Nat /\ b # NoBlock
    BY <1>2, BdAssumption DEF Offsets
  <2>2. CASE b = s.block
    <3>1. ses["meta"].block = b /\ ses["meta"].validate /\ ses["file"].block # b
      BY <1>1, <1>4, <2>2
    <3>2. Unflushed("meta")
      BY <1>16, <3>1 DEF Stale, InSession, Names
    <3>3. Unflushed("file")'
      BY <1>5, <1>6, <3>2 DEF Unflushed, Cached
    <3> QED
      BY <1>1, <1>5, <2>2, <3>3 DEF Stale, Comparing, Names
  <2>3. CASE b # s.block
    <3>1. ~InSession(b)'
      BY <1>5, <2>1, <2>3 DEF InSession, Names, NoSession
    <3>2. CASE b = ses["file"].block
      <4>1. firm'[b] = 0
        BY <1>1, <3>2
      <4> QED
        BY <2>1, <3>1, <4>1 DEF Stale
    <3>3. CASE b # ses["file"].block
      <4>1. ~InSession(b)
        BY <2>3, <3>3 DEF InSession, Names
      <4>2. firm[b] <= i
        BY <1>16, <4>1 DEF Stale, InSession
      <4>3. firm'[b] = firm[b]
        BY <1>1, <3>3
      <4> QED
        BY <3>1, <4>2, <4>3 DEF Stale
    <3> QED
      BY <3>2, <3>3
  <2> QED
    BY <2>2, <2>3
<1>17. Fresh'
  <2>1. pc' # "read" /\ reg'.op # "sync" /\ UNCHANGED <<rcache, disk>>
    BY <1>1, <1>2 DEF NoReg
  <2>2. rcache.block # NoBlock =>
          \A i \in Offsets : Stale(rcache.block, i) => Stale(rcache.block, i)'
    BY <1>2, <1>16, <2>1, Typing
  <2> QED
    BY <2>1, <2>2, StaysFresh
<1> QED
  BY <1>8, <1>13, <1>14, <1>15, <1>17 DEF IInv

LEMMA EraseFailsSafe ==
  ASSUME IInv, NEW b \in Blocks, EraseFails(b)
  PROVE  IInv'
<1>1. /\ pc = "idle" /\ ~InSession(b) /\ firm' = [firm EXCEPT ![b] = 0]
      /\ UNCHANGED <<disk, health, rcache, pcache, ses, pc, reg, rd>>
  BY DEF EraseFails, NoCommit
<1>2. TypeOK /\ Asked /\ reg = NoReg /\ rd = NoRead /\ BlockSize \in Nat
  BY <1>1, Geometry DEF IInv, Call, Reading
<1>3. firm' \in [Blocks -> 0 .. BlockSize] /\ firm'[b] = 0 /\ \A x : x # b => firm'[x] = firm[x]
  BY <1>1, <1>2 DEF TypeOK
<1>4. TypeOK'
  BY <1>1, <1>2, <1>3 DEF TypeOK
<1>5. ASSUME NEW d \in Names PROVE Session(d)' /\ Window(d)' /\ Unwritten(d)'
  <2>1. Tip(d)' = Tip(d) /\ ~Flushing(d)
    BY <1>1, <1>2 DEF Tip, Flushing, NoReg
  <2>2. ses[d].block # b
    BY <1>1 DEF InSession
  <2> QED
    BY <1>1, <1>3, <2>1, <2>2, OtherSafe
<1>6. Asked'
  BY <1>1, <1>2, <1>5 DEF Asked, Active
<1>7. \A x : \A i \in Offsets : Stale(x, i) => Stale(x, i)'
  <2>1. \A x : \A i \in Offsets : firm[x] <= i => firm'[x] <= i
    BY <1>2, <1>3 DEF Offsets
  <2> QED
    BY <1>1, <2>1 DEF Stale, InSession, Unflushed, Comparing, Tip, Cached
<1>8. Fresh'
  <2>1. pc' # "read" /\ reg'.op # "sync"
    BY <1>1, <1>2 DEF NoReg
  <2>2. \A i \in Offsets : Stale(rcache.block, i) => Stale(rcache.block, i)'
    BY <1>1, <1>7
  <2> QED
    BY <1>1, <2>1, <2>2, StaysFresh
<1> QED
  BY <1>1, <1>2, <1>4, <1>5, <1>6, <1>8, RestTyped DEF IInv

\* A session starts, with the block erased from its start or its end.
LEMMA StartSafe ==
  ASSUME IInv, pc = "idle", NEW c \in Names, ses[c] = NoSession, NEW b \in Blocks, ~InSession(b),
         NEW n \in 0 .. BlockSize, Aligned(n, ProgSize), NEW validate \in BOOLEAN, NEW s \in Stamps,
         c = "file" => validate, validate => n = 0,
         ses' = [ses EXCEPT ![c] = Start(b, n, validate, s)],
         firm' = [firm EXCEPT ![b] = IF validate THEN BlockSize ELSE n],
         disk' \in [Blocks -> [Offsets -> Bytes]], \A x \in Blocks : x # b => disk'[x] = disk[x],
         validate /\ health[b] # "frozen" => \A i \in Offsets : disk'[b][i] = Erased,
         rcache.block = b => validate \/ (disk'[b] = disk[b] /\ firm[b] = BlockSize),
         UNCHANGED <<health, rcache, pcache, pc, reg, rd>>
  PROVE  IInv'
<1> PICK new : new = Start(b, n, validate, s)
  OBVIOUS
<1>1. TypeOK /\ Asked /\ reg = NoReg /\ rd = NoRead /\ BlockSize \in Nat /\ b # NoBlock /\ n \in Nat
  BY Geometry, BdAssumption DEF IInv, Call, Reading
<1>2. /\ new \in Sessions /\ new.block = b /\ new.begin = n /\ new.off = n
      /\ new.validate = validate /\ new.state = "open"
  BY <1>1 DEF Start, Sessions, Bytes
<1>3. /\ ses' = [ses EXCEPT ![c] = new] /\ ses' \in [Names -> Sessions] /\ ses'[c] = new
      /\ \A d \in Names \ {c} : ses'[d] = ses[d] /\ pcache'[d] = pcache[d] /\ Tip(d)' = Tip(d)
  BY <1>1, <1>2 DEF TypeOK, Tip
<1>4. /\ firm' \in [Blocks -> 0 .. BlockSize] /\ firm'[b] = (IF validate THEN BlockSize ELSE n)
      /\ \A x : x # b => firm'[x] = firm[x]
  <2> PICK m : m = IF validate THEN BlockSize ELSE n
    OBVIOUS
  <2>1. m \in 0 .. BlockSize /\ firm' = [firm EXCEPT ![b] = m]
    BY <1>1
  <2> QED
    BY <1>1, <2>1 DEF TypeOK
<1>5. pcache[c] = NoCache /\ ~Active(c)
  <2>1. ~Active(c)
    BY DEF Active, NoSession
  <2> QED
    BY <2>1, NoWindow
<1>6. Active(c)' /\ ~Cached(c)' /\ Tip(c)' = n
  <2>1. reg'.op # "prog"
    BY <1>1 DEF NoReg
  <2> QED
    BY <1>1, <1>2, <1>3, <1>5, <2>1 DEF Active, Cached, Tip, NoCache
<1>7. TypeOK'
  BY <1>1, <1>3, <1>4 DEF TypeOK
<1>8. Session(c)'
  BY <1>1, <1>2, <1>3, <1>4, <1>6 DEF Session
<1>9. Window(c)'
  <2>1. validate => Aligned(n, CacheSize)
    BY AlignedZero, Geometry
  <2> QED
    BY <1>2, <1>3, <1>5, <1>6, <2>1 DEF Window
<1>10. Unwritten(c)'
  <2>1. \A i \in n .. BlockSize - 1 : i \in Offsets
    BY <1>1 DEF Offsets
  <2>2. /\ ses'[c].block = b /\ (ses'[c].validate <=> validate) /\ Tip(c)' = n
        /\ health'[b] = health[b]
    BY <1>2, <1>3, <1>6
  <2>3. validate /\ health[b] # "frozen" => \A i \in n .. BlockSize - 1 : disk'[b][i] = Erased
    BY <2>1
  <2> QED
    BY <2>2, <2>3 DEF Unwritten
<1>11. Asked' /\ (\A d \in Names : Window(d)' /\ Unwritten(d)')
  <2>1. ASSUME NEW d \in Names \ {c}, Active(d)
        PROVE  /\ disk'[ses[d].block] = disk[ses[d].block]
               /\ firm'[ses[d].block] = firm[ses[d].block]
               /\ ses'[c].block # ses[d].block
    <3>1. ses[d].block # b /\ ses[d].block \in Blocks
      BY <1>1, <2>1, Typing DEF InSession, Active
    <3> QED
      BY <1>2, <1>3, <1>4, <3>1
  <2>2. reg.op = "none" /\ reg'.op = "none"
    BY <1>1 DEF NoReg
  <2> QED
    BY <1>3, <1>8, <1>9, <1>10, <2>1, <2>2, OneSession
<1>12. ASSUME rcache.block # NoBlock, NEW i \in Offsets, InReadCache(i)
       PROVE  rcache.data[i] = disk'[rcache.block][i] \/ Stale(rcache.block, i)'
  <2>1. rcache.data[i] = disk[rcache.block][i] \/ Stale(rcache.block, i)
    BY <1>12 DEF IInv, Fresh
  <2>2. CASE rcache.block = b /\ validate
    <3>1. Unflushed(c)'
      BY <1>5, <1>6, <2>2 DEF Unflushed
    <3>2. ~Comparing(c)'
      BY DEF Comparing
    <3> QED
      BY <1>2, <1>3, <2>2, <3>1, <3>2 DEF Stale
  <2>3. CASE rcache.block = b /\ ~validate
    <3>1. disk'[b] = disk[b] /\ firm[b] = BlockSize
      BY <2>3
    <3>2. ~Stale(b, i)
      <4>1. ~(firm[b] <= i)
        BY <1>1, <3>1 DEF Offsets
      <4> QED
        BY <4>1 DEF Stale, InSession
    <3> QED
      BY <2>1, <2>3, <3>1, <3>2
  <2>4. CASE rcache.block # b
    <3>1. disk'[rcache.block] = disk[rcache.block]
      BY <1>1, <1>12, <2>4, Typing
    <3>2. \A d \in Names : ses[d].block = rcache.block =>
            /\ ses'[d] = ses[d] /\ Tip(d)' = Tip(d)
            /\ Unflushed(d)' <=> Unflushed(d)
      <4>1. \A d \in Names : ses[d].block = rcache.block => d # c
        BY <1>5, <1>12 DEF Active
      <4> QED
        BY <1>3, <4>1 DEF Unflushed, Cached
    <3>3. InSession(rcache.block)' => InSession(rcache.block)
      BY <1>2, <1>3, <2>4 DEF InSession
    <3>4. firm'[rcache.block] = firm[rcache.block]
      BY <1>4, <2>4
    <3>5. Stale(rcache.block, i) => Stale(rcache.block, i)'
      BY <3>2, <3>3, <3>4 DEF Stale, Comparing
    <3> QED
      BY <2>1, <3>1, <3>5
  <2> QED
    BY <2>2, <2>3, <2>4
<1>13. Fresh'
  <2>1. pc' # "read" /\ reg'.op # "sync"
    BY <1>1 DEF NoReg
  <2>2. /\ rcache.block = NoBlock => rcache = NoCache
        /\ Aligned(rcache.off, ReadSize) /\ rcache.off + rcache.size <= BlockSize
    BY DEF IInv, Fresh
  <2> QED
    BY <1>12, <2>1, <2>2 DEF Fresh, InReadCache
<1> QED
  BY <1>1, <1>7, <1>11, <1>13, RestTyped DEF IInv

LEMMA EraseCallSafe ==
  ASSUME IInv, NEW c \in Names, NEW b \in Blocks, NEW validate \in BOOLEAN, EraseCall(c, b, validate)
  PROVE  IInv'
<1>1. /\ pc = "idle" /\ ses[c] = NoSession /\ ~InSession(b) /\ (c = "file" => validate)
      /\ ~validate => rcache.block # b
      /\ disk' = IF health[b] = "frozen" THEN disk ELSE [disk EXCEPT ![b] = Blank]
      /\ firm' = [firm EXCEPT ![b] = IF validate THEN BlockSize ELSE 0]
      /\ UNCHANGED <<health, rcache, pcache, pc, reg, rd>>
  BY DEF EraseCall, NoCommit
<1>2. PICK s \in Stamps : ses' = [ses EXCEPT ![c] = Start(b, 0, validate, s)]
  BY DEF EraseCall
<1>3. TypeOK /\ 0 \in 0 .. BlockSize /\ Aligned(0, ProgSize)
  BY AlignedZero, Geometry DEF IInv
<1>4. /\ disk' \in [Blocks -> [Offsets -> Bytes]] /\ \A x \in Blocks : x # b => disk'[x] = disk[x]
      /\ health[b] # "frozen" => \A i \in Offsets : disk'[b][i] = Erased
  <2>1. Blank \in [Offsets -> Bytes] /\ \A i \in Offsets : Blank[i] = Erased
    BY DEF Blank, Bytes
  <2>2. disk \in [Blocks -> [Offsets -> Bytes]]
    BY <1>3 DEF TypeOK
  <2> QED
    BY <1>1, <2>1, <2>2
<1> QED
  BY <1>1, <1>2, <1>3, <1>4, StartSafe

LEMMA AppendCallSafe ==
  ASSUME IInv, NEW b \in Blocks, AppendCall(b)
  PROVE  IInv'
<1>1. /\ pc = "idle" /\ ses["meta"] = NoSession /\ ~InSession(b) /\ firm[b] = BlockSize
      /\ UNCHANGED <<disk, health, rcache, pcache, pc, reg, rd>>
  BY DEF AppendCall, NoCommit
<1>2. PICK n \in 1 .. BlockSize - 1, s \in Stamps :
        /\ n % ProgSize = 0 /\ ses' = [ses EXCEPT !["meta"] = Start(b, n, FALSE, s)]
        /\ firm' = [firm EXCEPT ![b] = n]
  BY DEF AppendCall
<1>3. /\ n \in 0 .. BlockSize /\ Aligned(n, ProgSize) /\ "meta" \in Names
      /\ disk' \in [Blocks -> [Offsets -> Bytes]] /\ \A x \in Blocks : disk'[x] = disk[x]
  BY <1>1, <1>2, Geometry DEF Aligned, Names, IInv, TypeOK
<1> QED
  BY <1>1, <1>2, <1>3, StartSafe

-----------------------------------------------------------------------------
(***************************************************************************)
(* The specification.                                                      *)
(***************************************************************************)

LEMMA InitSafe ==
  ASSUME Init
  PROVE  IInv
<1>1. BlockSize \in Nat
  BY Geometry
<1>2. /\ rcache = NoCache /\ pcache = [c \in Names |-> NoCache] /\ ses = [c \in Names |-> NoSession]
      /\ firm = [b \in Blocks |-> BlockSize] /\ pc = "idle" /\ reg = NoReg /\ rd = NoRead
  BY DEF Init
<1>3. disk \in [Blocks -> [Offsets -> Bytes]] /\ health \in [Blocks -> {"good", "flaky", "frozen"}]
  BY DEF Init
<1>4. TypeOK
  BY <1>1, <1>2, <1>3, RestTyped DEF TypeOK
<1>5. ASSUME NEW c \in Names PROVE Session(c) /\ Window(c) /\ Unwritten(c)
  <2>1. ses[c] = NoSession /\ pcache[c] = NoCache /\ ~Active(c) /\ ~Cached(c)
    BY <1>2 DEF Active, Cached, NoSession, NoCache
  <2>2. Session(c)
    BY <2>1, AlignedZero, Geometry DEF Session, NoSession
  <2> QED
    BY <2>1, <2>2 DEF Window, Unwritten
<1>6. Asked
  BY <1>2, <1>5 DEF Asked, Active, Names, NoSession
<1>7. Call /\ Reading
  BY <1>2 DEF Call, NoReg, Reading, NoRead
<1>8. Fresh
  BY <1>1, <1>2, AlignedZero, Geometry DEF Fresh, NoCache, NoReg
<1> QED
  BY <1>4, <1>5, <1>6, <1>7, <1>8 DEF IInv

\* No step of a call, of a caller or of the device breaks the invariant.
LEMMA NextSafe ==
  ASSUME IInv, [Next]_vars
  PROVE  IInv'
<1>1. CASE Step
  BY <1>1, ReadProgCacheSafe, ReadReadCacheSafe, ReadDeviceSafe, FillReadCacheSafe, ReadFailsSafe,
     ReadDoneSafe, NextChunkSafe, MismatchSafe, ValidatedSafe, CheckedSafe, ProgCopySafe,
     ProgMapSafe, ProgDoneSafe, FlushNothingSafe, FlushValidatedSafe, FlushSafe, FlushFailsSafe
  DEF Step
<1>2. ASSUME NEW c \in Names, NEW b \in Blocks, NEW validate \in BOOLEAN, EraseCall(c, b, validate)
      PROVE  IInv'
  BY <1>2, EraseCallSafe
<1>3. ASSUME NEW b \in Blocks, EraseFails(b) \/ AppendCall(b) PROVE IInv'
  BY <1>3, EraseFailsSafe, AppendCallSafe
<1>4. ASSUME NEW c \in Names, NEW n \in Lengths, ProgCall(c, n) PROVE IInv'
  BY <1>4, ProgCallSafe
<1>5. ASSUME NEW b \in Blocks, NEW r \in Reads, ReadCall(b, r[1], r[2], r[3]) PROVE IInv'
  BY <1>5, ReadCallSafe
<1>6. CASE ReadAhead \/ FlushCall \/ SyncCall \/ CheckCall
  BY <1>6, ReadAheadSafe, FlushCallSafe, SyncCallSafe, CheckCallSafe
<1>7. CASE Drop \/ Keep \/ HandOver
  BY SMTT(30), <1>7, DropSafe, KeepSafe, HandOverSafe
<1>8. CASE UNCHANGED vars
  BY <1>8 DEF vars, IInv, TypeOK, Asked, Session, Active, Cached, Window, Flushing, Tip, Call, C, S,
     Reading, Comparing, Unwritten, Unflushed, Stale, InSession, InReadCache, Masked, Passed, Fresh
<1> QED
  BY <1>1, <1>2, <1>3, <1>4, <1>5, <1>6, <1>7, <1>8 DEF Next

\* Whatever the geometry, the calls and the bad blocks, the program caches hold the
\* last bytes of their sessions, and the read cache is stale only where no caller
\* reads it.
THEOREM CachesAreSafe == Spec => []IInv
<1>1. Init => IInv
  BY InitSafe
<1>2. IInv /\ [Next]_vars => IInv'
  BY NextSafe
<1> QED
  BY <1>1, <1>2, PTL DEF Spec

\* TypeOK: no register leaves its range, so no cache is filled beyond its size and
\* nothing is read or programmed past the end of a block.
THEOREM CachesTypeCorrect == Spec => []TypeOK
<1>1. IInv => TypeOK
  BY DEF IInv
<1> QED
  BY <1>1, CachesAreSafe, PTL

\* ReadsAreCurrent: lfs_bd_read never returns a stale byte, and its loop gets on.
THEOREM ReadsSeeTheDevice == Spec => []ReadsAreCurrent
<1>1. IInv => ReadsAreCurrent
  <2> SUFFICES ASSUME IInv PROVE ReadsAreCurrent
    OBVIOUS
  <2>1. rd.current
    BY DEF IInv, Reading, NoRead
  <2> QED
    BY <2>1, ReadsGetOn DEF ReadsAreCurrent
<1> QED
  BY <1>1, CachesAreSafe, PTL

\* ProgFindsRoom: lfs_bd_prog needs no flush before it copies.
THEOREM ProgramsFindRoom == Spec => []ProgFindsRoom
<1>1. IInv => ProgFindsRoom
  <2> SUFFICES ASSUME IInv, pc = "prog", reg.off < reg.end, C.block # NoBlock PROVE Mapped
    BY DEF ProgFindsRoom
  <2> PICK c : c = reg.cache
    OBVIOUS
  <2>1. /\ TypeOK /\ c \in Names /\ Window(c) /\ Cached(c) /\ C = pcache[c] /\ S = ses[c]
        /\ reg.op = "prog" /\ ses[c].state = "open" /\ CacheSize \in Nat
    BY Geometry DEF IInv, TypeOK, Call, Cached, C, S
  <2>2. ~Flushing(c)
    BY DEF Flushing
  <2>3. /\ pcache[c].block = ses[c].block /\ pcache[c].size < CacheSize
        /\ pcache[c].off + pcache[c].size = reg.off
    BY <2>1, <2>2 DEF Window, Tip
  <2>4. pcache[c].off \in Nat /\ pcache[c].size \in Nat /\ reg.off \in Nat
    BY <2>1, Typing, Geometry
  <2> QED
    BY <2>1, <2>3, <2>4 DEF Mapped
<1> QED
  BY <1>1, CachesAreSafe, PTL

-----------------------------------------------------------------------------
(***************************************************************************)
(* bd/bd.rs implements a device without caches, for any geometry, any      *)
(* number of blocks, bad ones among them, and any calls: each step of      *)
(* BdCache is a step of PlainDevice or changes nothing that a caller sees. *)
(***************************************************************************)

Open == {ses[c].block : c \in Names} \ {NoBlock}
seen == <<Overlay, Open, firm>>

\* What a caller sees of the block of a session.
Image(c) == [i \in Offsets |-> IF InCache(c, i) THEN pcache[c].data[i] ELSE disk[ses[c].block][i]]

-----------------------------------------------------------------------------
(***************************************************************************)
(* What the callers see.                                                   *)
(***************************************************************************)

LEMMA SeenInSession ==
  ASSUME IInv, NEW c \in Names, Active(c)
  PROVE  ses[c].block \in Blocks /\ Overlay[ses[c].block] = Image(c) /\ Image(c) \in [Offsets -> Bytes]
<1> PICK b : b = ses[c].block
  OBVIOUS
<1>1. TypeOK /\ Asked /\ b \in Blocks /\ b # NoBlock /\ (Cached(c) => pcache[c].block = b)
  BY Typing DEF IInv, Active, Window
<1>2. \A d \in Names : ses[d].block = b => d = c
  BY <1>1, TwoBlocks
<1>3. (pcache[c].block = b) <=> Cached(c)
  BY <1>1 DEF Cached
<1>4. ASSUME NEW i \in Offsets
      PROVE  (IF \E d \in Names : /\ ses[d].block = b /\ pcache[d].block = b
                                  /\ pcache[d].off <= i /\ i < pcache[d].off + pcache[d].size
              THEN pcache[CHOOSE d \in Names : ses[d].block = b /\ pcache[d].block = b].data[i]
              ELSE disk[b][i]) = IF InCache(c, i) THEN pcache[c].data[i] ELSE disk[b][i]
  <2>1. CASE InCache(c, i)
    <3>1. ses[c].block = b /\ pcache[c].block = b /\ pcache[c].off <= i /\ i < pcache[c].off + pcache[c].size
      BY <1>3, <2>1 DEF InCache
    <3>2. (CHOOSE d \in Names : ses[d].block = b /\ pcache[d].block = b) = c
      BY <1>2, <3>1
    <3> QED
      BY <2>1, <3>1, <3>2
  <2>2. CASE ~InCache(c, i)
    BY <1>2, <1>3, <2>2 DEF InCache
  <2> QED
    BY <2>1, <2>2
<1>5. Overlay[b] = Image(c)
  BY <1>1, <1>4 DEF Overlay, Image
<1>6. Image(c) \in [Offsets -> Bytes]
  <2>1. pcache[c].data \in [Offsets -> Bytes] /\ disk[b] \in [Offsets -> Bytes]
    BY <1>1, Typing DEF TypeOK
  <2> QED
    BY <2>1 DEF Image
<1> QED
  BY <1>1, <1>5, <1>6

LEMMA SeenInSessions ==
  IInv => \A c \in Names : Active(c) =>
    /\ ses[c].block \in Blocks /\ Overlay[ses[c].block] = Image(c)
    /\ Image(c) \in [Offsets -> Bytes]
BY SeenInSession

LEMMA SeenInSessionsNext ==
  IInv' => (\A c \in Names : Active(c) =>
    /\ ses[c].block \in Blocks /\ Overlay[ses[c].block] = Image(c)
    /\ Image(c) \in [Offsets -> Bytes])'
BY SeenInSessions, PTL

LEMMA SeenOnDisk ==
  ASSUME NEW b \in Blocks, ~InSession(b)
  PROVE  Overlay[b] = [i \in Offsets |-> disk[b][i]]
BY DEF Overlay, InSession

LEMMA SeenTyped ==
  ASSUME IInv
  PROVE  Overlay \in [Blocks -> [Offsets -> Bytes]]
<1>1. ASSUME NEW b \in Blocks PROVE Overlay[b] \in [Offsets -> Bytes]
  <2>1. CASE InSession(b)
    <3>1. PICK c \in Names : ses[c].block = b
      BY <2>1 DEF InSession
    <3> QED
      BY <3>1, SeenInSession, BdAssumption DEF Active
  <2>2. CASE ~InSession(b)
    BY <2>2, SeenOnDisk DEF IInv, TypeOK
  <2> QED
    BY <2>1, <2>2
<1> QED
  BY <1>1 DEF Overlay

LEMMA SeenTypedNext ==
  IInv' => Overlay' \in [Blocks -> [Offsets -> Bytes]]
<1>1. IInv => Overlay \in [Blocks -> [Offsets -> Bytes]]
  BY SeenTyped
<1>2. IInv' => (Overlay \in [Blocks -> [Offsets -> Bytes]])'
  BY <1>1, PTL
<1> QED
  BY <1>2

\* A block whose sessions and caches a step leaves alone.
LEMMA SameSeen ==
  ASSUME NEW b \in Blocks, disk'[b] = disk[b],
         \A c \in Names : ses[c].block = b \/ ses'[c].block = b =>
                            ses'[c].block = ses[c].block /\ pcache'[c] = pcache[c]
  PROVE  Overlay'[b] = Overlay[b]
<1>1. \A c \in Names : ses'[c].block = b /\ pcache'[c].block = b
                         <=> ses[c].block = b /\ pcache[c].block = b
  OBVIOUS
<1> PICK d : d = CHOOSE e \in Names : ses[e].block = b /\ pcache[e].block = b
  OBVIOUS
<1>2. d = CHOOSE e \in Names : ses'[e].block = b /\ pcache'[e].block = b
  BY <1>1
<1>3. ASSUME NEW i \in Offsets PROVE Overlay'[b][i] = Overlay[b][i]
  <2>1. (\E c \in Names : /\ ses'[c].block = b /\ pcache'[c].block = b
                          /\ pcache'[c].off <= i /\ i < pcache'[c].off + pcache'[c].size)
        <=> \E c \in Names : /\ ses[c].block = b /\ pcache[c].block = b
                             /\ pcache[c].off <= i /\ i < pcache[c].off + pcache[c].size
    BY <1>1
  <2>2. CASE \E c \in Names : ses[c].block = b /\ pcache[c].block = b
    <3>1. d \in Names /\ ses[d].block = b /\ pcache'[d] = pcache[d]
      BY <2>2
    <3> QED
      BY <1>2, <2>1, <3>1 DEF Overlay
  <2>3. CASE ~\E c \in Names : ses[c].block = b /\ pcache[c].block = b
    BY <2>1, <2>3 DEF Overlay
  <2> QED
    BY <2>2, <2>3
<1>4. Overlay[b] = [i \in Offsets |-> Overlay[b][i]] /\ Overlay'[b] = [i \in Offsets |-> Overlay'[b][i]]
  BY DEF Overlay
<1> QED
  BY <1>3, <1>4

\* A step that leaves the blocks of the sessions, what their caches hold and the
\* device alone is not seen.
LEMMA Unseen ==
  ASSUME UNCHANGED <<disk, pcache, firm>>, \A c \in Names : ses'[c].block = ses[c].block
  PROVE  UNCHANGED seen
<1>1. ASSUME NEW b \in Blocks PROVE Overlay'[b] = Overlay[b]
  BY SameSeen
<1>2. UNCHANGED Overlay
  BY <1>1 DEF Overlay
<1>3. UNCHANGED Open
  BY DEF Open
<1> QED
  BY <1>2, <1>3 DEF seen

\* A step of one session: only its block changes for a caller.
LEMMA OneSeen ==
  ASSUME NEW c \in Names, NEW b \in Blocks,
         ses[c].block \in {b, NoBlock}, ses'[c].block \in {b, NoBlock},
         \A d \in Names \ {c} : ses'[d].block = ses[d].block /\ pcache'[d] = pcache[d],
         \A x \in Blocks : x # b => disk'[x] = disk[x]
  PROVE  Overlay' = [Overlay EXCEPT ![b] = Overlay'[b]]
<1>1. ASSUME NEW x \in Blocks, x # b PROVE Overlay'[x] = Overlay[x]
  <2>1. x # NoBlock
    BY BdAssumption
  <2>2. \A d \in Names : ses[d].block = x \/ ses'[d].block = x => d # c
    BY <1>1, <2>1
  <2> QED
    BY <1>1, <2>2, SameSeen
<1>2. Overlay' = [x \in Blocks |-> Overlay'[x]] /\ Overlay = [x \in Blocks |-> Overlay[x]]
  BY DEF Overlay
<1> QED
  BY <1>1, <1>2

LEMMA Opened ==
  ASSUME NEW c \in Names, NEW b \in Blocks, ses[c].block = NoBlock, ses'[c].block = b,
         \A d \in Names \ {c} : ses'[d] = ses[d]
  PROVE  Open' = Open \cup {b}
<1>1. b # NoBlock
  BY BdAssumption
<1> QED
  BY <1>1 DEF Open

LEMMA Closed ==
  ASSUME Asked, NEW c \in Names, Active(c), ses'[c].block = NoBlock,
         \A d \in Names \ {c} : ses'[d] = ses[d]
  PROVE  Open' = Open \ {ses[c].block} /\ ses[c].block \in Open
<1>1. \A d \in Names \ {c} : ses[d].block # ses[c].block
  BY TwoBlocks
<1> QED
  BY <1>1 DEF Open, Active

\* The step is a step of the abstract device in block b.
LEMMA StepsOfDevice ==
  ASSUME NEW b \in Blocks
  PROVE  /\ b \notin Open /\ Open' = Open \cup {b}
            /\ (Overlay' = [Overlay EXCEPT ![b] = Blank] \/ UNCHANGED Overlay)
            /\ (\E n \in {0, BlockSize} : firm' = [firm EXCEPT ![b] = n])
              => Plain!Next
         /\ b \notin Open /\ firm' = [firm EXCEPT ![b] = 0] /\ UNCHANGED <<Overlay, Open>>
              => Plain!Next
         /\ b \notin Open /\ Open' = Open \cup {b} /\ UNCHANGED Overlay
            /\ (\E n \in 0 .. BlockSize : firm' = [firm EXCEPT ![b] = n])
              => Plain!Next
         /\ b \in Open /\ UNCHANGED <<Open, firm>>
            /\ (\E s \in Bytes, i, j \in Offsets :
                  Overlay' = [Overlay EXCEPT ![b] =
                                [k \in Offsets |-> IF i <= k /\ k <= j THEN s ELSE @[k]]])
              => Plain!Next
         /\ b \in Open /\ UNCHANGED <<Open, firm>>
            /\ (\E image \in [Offsets -> Bytes] :
                  /\ \A i \in 0 .. firm[b] - 1 : image[i] = Overlay[b][i]
                  /\ Overlay' = [Overlay EXCEPT ![b] = image])
              => Plain!Next
         /\ b \in Open /\ Open' = Open \ {b} /\ firm' = [firm EXCEPT ![b] = BlockSize]
            /\ UNCHANGED Overlay
              => Plain!Next
         /\ b \in Open /\ Open' = Open \ {b}
            /\ (\E n \in 0 .. firm[b] : firm' = [firm EXCEPT ![b] = n])
            /\ (\E image \in [Offsets -> Bytes] :
                  /\ \A i \in 0 .. firm'[b] - 1 : image[i] = Overlay[b][i]
                  /\ Overlay' = [Overlay EXCEPT ![b] = image])
              => Plain!Next
<1> USE DEF Open, Offsets, Blank, Plain!Offsets, Plain!Images
<1>1. b \notin Open /\ Open' = Open \cup {b}
      /\ (Overlay' = [Overlay EXCEPT ![b] = Blank] \/ UNCHANGED Overlay)
      /\ (\E n \in {0, BlockSize} : firm' = [firm EXCEPT ![b] = n])
        => Plain!Erase(b)
  BY DEF Plain!Erase
<1>2. b \notin Open /\ firm' = [firm EXCEPT ![b] = 0] /\ UNCHANGED <<Overlay, Open>>
        => Plain!EraseFails(b)
  BY DEF Plain!EraseFails
<1>3. b \notin Open /\ Open' = Open \cup {b} /\ UNCHANGED Overlay
      /\ (\E n \in 0 .. BlockSize : firm' = [firm EXCEPT ![b] = n])
        => Plain!Append(b)
  BY DEF Plain!Append
<1>4. b \in Open /\ UNCHANGED <<Open, firm>>
      /\ (\E s \in Bytes, i, j \in Offsets :
            Overlay' = [Overlay EXCEPT ![b] =
                          [k \in Offsets |-> IF i <= k /\ k <= j THEN s ELSE @[k]]])
        => Plain!Program(b)
  BY DEF Plain!Program
<1>5. b \in Open /\ UNCHANGED <<Open, firm>>
      /\ (\E image \in [Offsets -> Bytes] :
            /\ \A i \in 0 .. firm[b] - 1 : image[i] = Overlay[b][i]
            /\ Overlay' = [Overlay EXCEPT ![b] = image])
        => Plain!Lose(b)
  BY DEF Plain!Lose
<1>6. b \in Open /\ Open' = Open \ {b} /\ firm' = [firm EXCEPT ![b] = BlockSize] /\ UNCHANGED Overlay
        => Plain!Close(b)
  BY DEF Plain!Close
<1>7. b \in Open /\ Open' = Open \ {b}
      /\ (\E n \in 0 .. firm[b] : firm' = [firm EXCEPT ![b] = n])
      /\ (\E image \in [Offsets -> Bytes] :
            /\ \A i \in 0 .. firm'[b] - 1 : image[i] = Overlay[b][i]
            /\ Overlay' = [Overlay EXCEPT ![b] = image])
        => Plain!GiveUp(b)
  BY DEF Plain!GiveUp
<1> QED
  BY <1>1, <1>2, <1>3, <1>4, <1>5, <1>6, <1>7 DEF Plain!Next

\* A session ends: what is seen of its block is on the device.
LEMMA SessionEnds ==
  ASSUME TypeOK, Asked, NEW c \in Names, Active(c), ses'[c].block = NoBlock, UNCHANGED disk,
         \A d \in Names \ {c} : ses'[d] = ses[d] /\ pcache'[d] = pcache[d]
  PROVE  /\ Open' = Open \ {ses[c].block} /\ ses[c].block \in Open
         /\ Overlay' = [Overlay EXCEPT ![ses[c].block] =
                          [i \in Offsets |-> disk[ses[c].block][i]]]
<1> PICK b : b = ses[c].block
  OBVIOUS
<1>1. b \in Blocks /\ b # NoBlock
  BY Typing DEF Active
<1>2. Open' = Open \ {b} /\ b \in Open
  BY Closed
<1>3. ~InSession(b)'
  <2>1. \A d \in Names : ses[d].block = b => d = c
    BY SMTT(30), <1>1, TwoBlocks
  <2> QED
    BY <1>1, <2>1 DEF InSession
<1>4. Overlay'[b] = [i \in Offsets |-> disk[b][i]]
  BY <1>1, <1>3 DEF Overlay, InSession
<1>5. Overlay' = [Overlay EXCEPT ![b] = Overlay'[b]]
  BY <1>1, OneSeen
<1> QED
  BY <1>2, <1>4, <1>5

-----------------------------------------------------------------------------
(***************************************************************************)
(* The steps.                                                              *)
(***************************************************************************)

LEMMA ProgCopyProgram ==
  ASSUME IInv, IInv', ProgCopy
  PROVE  Plain!Next
<1> PICK c : c = reg.cache
  OBVIOUS
<1> PICK b : b = ses[c].block
  OBVIOUS
<1>0. PICK n \in Nat \ {0} : CopiesBytes(c, n)
  BY ProgCopied
<1>1. /\ reg.off + n <= reg.end /\ reg.off + n <= pcache[c].off + CacheSize
      /\ pcache' = [pcache EXCEPT ![c].size = @ + n,
           ![c].data = [i \in Offsets |->
             IF i \in reg.off .. reg.off + n - 1 THEN ses[c].stamp ELSE @[i]]]
      /\ reg' = [reg EXCEPT !.off = @ + n]
      /\ pc' = IF pcache[c].size + n = CacheSize THEN "flush" ELSE "prog"
      /\ c \in Names /\ reg.op = "prog" /\ Active(c) /\ Cached(c) /\ ses[c].state = "open"
      /\ pcache[c].off + pcache[c].size = reg.off /\ reg.off < pcache[c].off + CacheSize
  BY ONLY <1>0 DEF CopiesBytes
<1> PICK data : data = [i \in Offsets |->
                  IF i \in reg.off .. reg.off + n - 1 THEN ses[c].stamp ELSE pcache[c].data[i]]
  OBVIOUS
<1> PICK new : new = [pcache[c] EXCEPT !.size = pcache[c].size + n, !.data = data]
  OBVIOUS
<1>2. /\ TypeOK /\ UNCHANGED <<disk, ses, firm>> /\ BlockSize \in Nat /\ b \in Blocks
      /\ Overlay[b] = Image(c) /\ reg.off \in Nat /\ reg.end \in 0 .. BlockSize
      /\ pcache[c].off \in Nat /\ pcache[c].size \in Nat /\ ses[c].stamp \in Bytes
      /\ pcache[c] \in Caches
  BY <1>1, SeenInSession, Typing, Geometry DEF IInv, ProgCopy
<1>3. pcache' = [pcache EXCEPT ![c] = new]
  BY <1>1
<1>4. pcache'[c] = new /\ \A d \in Names \ {c} : pcache'[d] = pcache[d]
  BY <1>1, <1>2, <1>3 DEF TypeOK
<1>5. /\ new.block = pcache[c].block /\ new.off = pcache[c].off /\ new.size = pcache[c].size + n
      /\ new.data = data
  BY SMTT(30), <1>2 DEF Caches
<1>6. Active(c)' /\ Cached(c)' /\ ses'[c].block = b
  BY <1>1, <1>2, <1>4, <1>5 DEF Active, Cached
<1>7. Overlay'[b] = Image(c)'
  BY <1>1, <1>6, SeenInSessionsNext
<1> PICK i, j : i = reg.off /\ j = reg.off + n - 1
  OBVIOUS
<1>8. i \in Offsets /\ j \in Offsets
  BY SMTT(30), <1>1, <1>2 DEF Offsets
<1>9. Image(c)' = [k \in Offsets |-> IF i <= k /\ k <= j THEN ses[c].stamp ELSE Image(c)[k]]
  <2>1. ASSUME NEW k \in Offsets
        PROVE  (IF InCache(c, k)' THEN pcache'[c].data[k] ELSE disk'[ses'[c].block][k])
                 = IF i <= k /\ k <= j THEN ses[c].stamp ELSE Image(c)[k]
    <3>1. k \in Nat
      BY <1>2 DEF Offsets
    <3>2. InCache(c, k)' <=> (pcache[c].off <= k /\ k < reg.off + n)
      <4>1. pcache'[c].off = pcache[c].off /\ pcache'[c].size = pcache[c].size + n /\ Cached(c)'
        BY <1>4, <1>5, <1>6
      <4>2. pcache[c].off + (pcache[c].size + n) = reg.off + n
        BY <1>1, <1>2
      <4> QED
        BY <4>1, <4>2 DEF InCache
    <3>3. InCache(c, k) <=> (pcache[c].off <= k /\ k < reg.off)
      BY <1>1, <1>2, <3>1 DEF InCache
    <3>4. pcache'[c].data[k] = IF i <= k /\ k <= j THEN ses[c].stamp ELSE pcache[c].data[k]
      BY <1>2, <1>4, <1>5, <3>1
    <3>5. Image(c)[k] = IF InCache(c, k) THEN pcache[c].data[k] ELSE disk[b][k]
      BY DEF Image
    <3>6. disk'[ses'[c].block][k] = disk[b][k]
      BY <1>2
    <3>7. pcache[c].off <= reg.off
      BY <1>1, <1>2
    <3>8. CASE i <= k /\ k <= j
      BY <1>1, <1>2, <3>1, <3>2, <3>4, <3>7, <3>8
    <3>9. CASE ~(i <= k /\ k <= j)
      <4>1. InCache(c, k)' <=> InCache(c, k)
        BY <1>1, <1>2, <3>1, <3>2, <3>3, <3>9
      <4> QED
        BY <3>4, <3>5, <3>6, <3>9, <4>1
    <3> QED
      BY <3>8, <3>9
  <2> QED
    BY <2>1 DEF Image
<1>10. Overlay' = [Overlay EXCEPT ![b] = Overlay'[b]]
  <2>1. \A d \in Names \ {c} : ses'[d].block = ses[d].block /\ pcache'[d] = pcache[d]
    BY <1>2, <1>4
  <2>2. c \in Names /\ ses[c].block \in {b, NoBlock} /\ ses'[c].block \in {b, NoBlock}
    BY <1>1, <1>2
  <2>3. \A x \in Blocks : x # b => disk'[x] = disk[x]
    BY <1>2
  <2> QED
    BY <1>2, <2>1, <2>2, <2>3, OneSeen
<1>11. Overlay' = [Overlay EXCEPT ![b] =
                    [k \in Offsets |-> IF i <= k /\ k <= j THEN ses[c].stamp ELSE @[k]]]
  BY <1>2, <1>7, <1>9, <1>10
<1>12. b \in Open /\ UNCHANGED <<Open, firm>>
  BY <1>1, <1>2 DEF Open, Active
<1>13. \E s \in Bytes, k, l \in Offsets :
         Overlay' = [Overlay EXCEPT ![b] =
                       [m \in Offsets |-> IF k <= m /\ m <= l THEN s ELSE @[m]]]
  BY ZenonT(60), <1>2, <1>8, <1>11
<1> QED
  BY <1>2, <1>12, <1>13, StepsOfDevice

LEMMA ProgMapUnseen ==
  ASSUME IInv, IInv', ProgMap
  PROVE  UNCHANGED seen
<1> PICK c : c = reg.cache
  OBVIOUS
<1> PICK b : b = ses[c].block
  OBVIOUS
<1> PICK new : new = [NoCache EXCEPT !.block = b, !.off = AlignDown(reg.off, ProgSize)]
  OBVIOUS
<1>1. /\ pc = "prog" /\ pcache[c].block = NoBlock /\ pcache' = [pcache EXCEPT ![c] = new]
      /\ UNCHANGED <<disk, ses, firm, reg>>
  BY DEF ProgMap, C, S
<1>2. /\ TypeOK /\ c \in Names /\ Active(c) /\ ~Cached(c) /\ Active(c)' /\ BlockSize \in Nat
  BY <1>1, Geometry DEF IInv, TypeOK, Call, Active, Cached
<1>3. pcache'[c] = new /\ \A d \in Names \ {c} : pcache'[d] = pcache[d]
  BY <1>1, <1>2 DEF TypeOK
<1>4. new.size = 0 /\ pcache'[c].size = 0 /\ pcache'[c].off \in Nat
  <2>1. reg.off \in Nat
    BY <1>2, Typing
  <2>2. AlignDown(reg.off, ProgSize) \in Nat
    BY <2>1, Down, Geometry
  <2>3. new.size = 0 /\ new.off = AlignDown(reg.off, ProgSize)
    BY DEF NoCache
  <2> QED
    BY <1>3, <2>2, <2>3
<1>5. \A i \in Offsets : ~InCache(c, i) /\ ~InCache(c, i)'
  BY <1>2, <1>4 DEF InCache, Offsets
<1>6. Overlay[b] = Image(c) /\ Overlay'[b] = Image(c)' /\ b \in Blocks
  BY <1>1, <1>2, SeenInSession, SeenInSessionsNext
<1>7. Overlay'[b] = Overlay[b]
  BY <1>1, <1>5, <1>6 DEF Image
<1>8. Overlay' = [Overlay EXCEPT ![b] = Overlay'[b]]
  BY SMTT(30), <1>1, <1>2, <1>3, <1>6, OneSeen
<1>9. UNCHANGED Overlay
  BY <1>6, <1>7, <1>8 DEF Overlay
<1> QED
  BY <1>1, <1>9 DEF seen, Open

LEMMA FlushValidatedUnseen ==
  ASSUME IInv, IInv', FlushValidated
  PROVE  UNCHANGED seen
<1> PICK c : c = reg.cache
  OBVIOUS
<1> PICK b : b = ses[c].block
  OBVIOUS
<1> PICK diff : diff = AlignUp(pcache[c].size, ProgSize)
  OBVIOUS
<1>1. /\ pc = "flush" /\ pcache[c].block # NoBlock /\ ses[c].validate /\ DeviceWrite(C.block)
      /\ UNCHANGED <<health, pcache, ses, firm, reg>>
  BY DEF FlushValidated, C, S
<1>2. /\ TypeOK /\ Call /\ c \in Names /\ Cached(c) /\ Session(c) /\ Window(c) /\ Unwritten(c)
      /\ C = pcache[c] /\ S = ses[c] /\ BlockSize \in Nat
  BY <1>1, Geometry DEF IInv, Asked, TypeOK, Cached, C, S
<1>3. /\ diff \in Nat /\ pcache[c].size <= diff /\ pcache[c].off + diff <= BlockSize
      /\ pcache[c].block = b /\ Active(c) /\ b \in Blocks
      /\ pcache[c].off \in 0 .. BlockSize /\ pcache[c].size \in 0 .. CacheSize
  BY SMTT(30), <1>2, FlushFits
<1>4. /\ \A x \in Blocks : x # b => disk'[x] = disk[x]
      /\ health[b] = "frozen" => disk' = disk
      /\ health[b] # "frozen" =>
           \A i \in Offsets :
             disk'[b][i] =
               IF pcache[c].off <= i /\ i < pcache[c].off + pcache[c].size THEN pcache[c].data[i]
               ELSE IF pcache[c].off <= i /\ i < pcache[c].off + diff THEN Erased
               ELSE disk[b][i]
  BY <1>1, <1>2, <1>3, DeviceWritten
<1>5. ses[c].state = "open" /\ Tip(c) = pcache[c].off + pcache[c].size
  <2>1. reg.op # "sync"
    BY <1>1, <1>2 DEF Call
  <2>2. ses[c].state = "open"
    BY <1>1, <1>2, <2>1 DEF Call
  <2> QED
    BY <1>2, <2>2 DEF Window
<1>6. ASSUME NEW i \in Offsets, ~InCache(c, i) PROVE disk'[b][i] = disk[b][i]
  <2>1. i \in Nat /\ i < BlockSize
    BY <1>2 DEF Offsets
  <2>2. ~(pcache[c].off <= i /\ i < pcache[c].off + pcache[c].size)
    BY <1>2, <1>6 DEF InCache
  <2>3. CASE health[b] = "frozen"
    BY <1>4, <2>3
  <2>4. CASE health[b] # "frozen" /\ pcache[c].off <= i /\ i < pcache[c].off + diff
    <3>1. i \in Tip(c) .. BlockSize - 1
      BY <1>2, <1>3, <1>5, <2>1, <2>2, <2>4
    <3>2. disk[b][i] = Erased
      BY <1>1, <1>2, <1>3, <1>5, <2>4, <3>1 DEF Unwritten
    <3> QED
      BY <1>4, <2>2, <2>4, <3>2
  <2>5. CASE health[b] # "frozen" /\ ~(pcache[c].off <= i /\ i < pcache[c].off + diff)
    BY <1>4, <2>2, <2>5
  <2> QED
    BY <2>3, <2>4, <2>5
<1>7. Overlay[b] = Image(c) /\ Overlay'[b] = Image(c)'
  <2>1. Active(c)'
    BY <1>1, <1>3 DEF Active
  <2>2. ses'[c].block = b
    BY <1>1
  <2> QED
    BY <1>2, <1>3, <2>1, <2>2, SeenInSession, SeenInSessionsNext
<1>8. Image(c)' = Image(c)
  <2>1. \A i \in Offsets : InCache(c, i)' <=> InCache(c, i)
    BY <1>1 DEF InCache, Cached
  <2> QED
    BY <1>1, <1>6, <2>1 DEF Image
<1>9. Overlay' = [Overlay EXCEPT ![b] = Overlay'[b]]
  BY SMTT(30), <1>1, <1>2, <1>3, <1>4, OneSeen
<1>10. UNCHANGED Overlay
  BY ZenonT(60), <1>3, <1>7, <1>8, <1>9 DEF Overlay
<1> QED
  BY <1>1, <1>10 DEF seen, Open

\* What was read back is what the cache holds.
LEMMA ComparedIsSeen ==
  ASSUME IInv, Validated, NEW c, c = reg.cache
  PROVE  /\ c \in Names /\ Active(c) /\ ses[c].validate /\ Cached(c)
         /\ Image(c) = [i \in Offsets |-> disk[ses[c].block][i]]
<1>1. /\ pc = "read" /\ rd.why = "cmp" /\ Left = 0 /\ rd.lim = rd.end /\ rd.same
      /\ TypeOK /\ Reading /\ Call /\ BlockSize \in Nat
  BY Geometry DEF Validated, IInv
<1>2. c \in Names /\ C = pcache[c] /\ S = ses[c]
  BY <1>1 DEF TypeOK, C, S
<1>3. /\ ses[c].validate /\ Cached(c) /\ rd.block = pcache[c].block /\ rd.end = pcache[c].off + AlignUp(pcache[c].size, ProgSize)
      /\ \A i \in pcache[c].off .. rd.off - 1 : disk[rd.block][i] = pcache[c].data[i]
  BY <1>1, <1>2 DEF Reading
<1>4. Active(c) /\ pcache[c].block = ses[c].block /\ pcache[c].size <= AlignUp(pcache[c].size, ProgSize)
      /\ AlignUp(pcache[c].size, ProgSize) \in Nat /\ pcache[c].off \in Nat /\ pcache[c].size \in Nat
  BY <1>1, <1>2, <1>3, FlushFits, Geometry
<1>5. rd.off = rd.end /\ rd.off \in Nat
  BY <1>1, Typing DEF Left
<1>6. ASSUME NEW i \in Offsets, InCache(c, i) PROVE disk[ses[c].block][i] = pcache[c].data[i]
  <2>1. i \in pcache[c].off .. rd.off - 1
    BY <1>1, <1>3, <1>4, <1>5, <1>6 DEF InCache, Offsets
  <2> QED
    BY <1>3, <1>4, <2>1
<1> QED
  BY <1>2, <1>3, <1>4, <1>6 DEF Image

LEMMA ValidatedCloses ==
  ASSUME IInv, IInv', Validated
  PROVE  Plain!Next \/ UNCHANGED seen
<1> PICK c : c = reg.cache
  OBVIOUS
<1> PICK b : b = ses[c].block
  OBVIOUS
<1>1. /\ c \in Names /\ Active(c) /\ ses[c].validate /\ Cached(c)
      /\ Image(c) = [i \in Offsets |-> disk[b][i]]
  BY ComparedIsSeen
<1>2. Flushed(c) /\ UNCHANGED disk
  BY DEF Validated
<1>3. /\ TypeOK /\ Asked /\ Session(c) /\ Overlay[b] = Image(c) /\ b \in Blocks /\ S = ses[c]
  BY <1>1, SeenInSession DEF IInv, Asked, S
<1>4. firm[b] = BlockSize /\ firm' = firm
  BY <1>1, <1>2, <1>3 DEF Session, Flushed
<1>5. pcache' = [pcache EXCEPT ![c] = NoCache] /\ pcache'[c] = NoCache
  BY <1>1, <1>2, <1>3 DEF Flushed, TypeOK
<1>6. \A i : ~InCache(c, i)'
  BY <1>5 DEF InCache, Cached, NoCache
<1>7. CASE reg.op = "prog"
  <2>1. ses' = ses
    BY <1>2, <1>7 DEF Flushed
  <2>2. Active(c)'
    BY <1>1, <2>1 DEF Active
  <2>3. Overlay'[b] = Image(c)'
    BY <1>1, <2>1, <2>2, SeenInSessionsNext
  <2>4. Image(c)' = Image(c)
    BY <1>1, <1>2, <1>6, <2>1 DEF Image
  <2>5. Overlay' = [Overlay EXCEPT ![b] = Overlay'[b]]
    <3>1. \A d \in Names \ {c} : ses'[d].block = ses[d].block /\ pcache'[d] = pcache[d]
      BY SMTT(30), <1>3, <1>5, <2>1 DEF TypeOK
    <3> QED
      BY <1>1, <1>2, <1>3, <2>1, <3>1, OneSeen
  <2>6. UNCHANGED Overlay
    BY ZenonT(60), <1>3, <2>3, <2>4, <2>5 DEF Overlay
  <2> QED
    BY <1>4, <2>1, <2>6 DEF seen, Open
<1>8. CASE reg.op # "prog"
  <2>1. ses' = [ses EXCEPT ![c] = NoSession]
    BY <1>1, <1>2, <1>3, <1>8 DEF Flushed
  <2>2. ses'[c].block = NoBlock /\ \A d \in Names \ {c} : ses'[d] = ses[d] /\ pcache'[d] = pcache[d]
    BY <1>1, <1>3, <1>5, <2>1 DEF TypeOK, NoSession
  <2>3. /\ Open' = Open \ {b} /\ b \in Open
        /\ Overlay' = [Overlay EXCEPT ![b] = [i \in Offsets |-> disk[b][i]]]
    BY <1>1, <1>2, <1>3, <2>2, SessionEnds
  <2>4. Overlay[b] = [i \in Offsets |-> disk[b][i]]
    BY <1>1, <1>3
  <2>5. UNCHANGED Overlay
    BY <2>3, <2>4 DEF Overlay
  <2>8. firm' = [firm EXCEPT ![b] = BlockSize]
    BY <1>3, <1>4 DEF TypeOK
  <2> QED
    BY <1>3, <2>3, <2>5, <2>8, StepsOfDevice
<1> QED
  BY <1>7, <1>8

LEMMA FlushNothingCloses ==
  ASSUME IInv, FlushNothing
  PROVE  Plain!Next \/ UNCHANGED seen
<1> PICK c : c = reg.cache
  OBVIOUS
<1> PICK b : b = ses[c].block
  OBVIOUS
<1>1. pc = "flush" /\ pcache[c].block = NoBlock /\ Flushed(c) /\ UNCHANGED disk
  BY DEF FlushNothing, C
<1>2. /\ TypeOK /\ Asked /\ Call /\ Session(c) /\ Window(c) /\ c \in Names /\ S = ses[c]
      /\ C = pcache[c] /\ ~Cached(c)
  BY <1>1 DEF IInv, Asked, TypeOK, S, C, Cached
<1>3. reg.op \in {"flush", "sync"} /\ Active(c)
  <2>1. reg.op # "prog"
    BY <1>1, <1>2 DEF Call
  <2> QED
    BY <1>1, <1>2, <2>1 DEF Call
<1>4. /\ pcache' = [pcache EXCEPT ![c] = NoCache] /\ firm' = firm
      /\ ses' = IF ses[c].validate THEN [ses EXCEPT ![c] = NoSession]
                ELSE [ses EXCEPT ![c].state = "synced"]
  BY <1>1, <1>2, <1>3 DEF Flushed
<1>5. pcache[c] = NoCache /\ pcache' = pcache
  BY SMTT(30), <1>2, <1>4 DEF Window, TypeOK
<1>6. CASE ses[c].validate
  <2>1. ses'[c].block = NoBlock /\ \A d \in Names \ {c} : ses'[d] = ses[d] /\ pcache'[d] = pcache[d]
    BY <1>2, <1>4, <1>5, <1>6 DEF TypeOK, NoSession
  <2>2. /\ Open' = Open \ {b} /\ b \in Open
        /\ Overlay' = [Overlay EXCEPT ![b] = [i \in Offsets |-> disk[b][i]]]
    BY <1>1, <1>2, <1>3, <2>1, SessionEnds
  <2>3. Overlay[b] = Image(c) /\ b \in Blocks
    BY <1>2, <1>3, SeenInSession
  <2>4. Image(c) = [i \in Offsets |-> disk[b][i]]
    BY SMTT(30), <1>2 DEF Image, InCache
  <2>5. UNCHANGED Overlay
    BY <2>2, <2>3, <2>4 DEF Overlay
  <2>6. firm' = [firm EXCEPT ![b] = BlockSize]
    BY <1>2, <1>3, <1>4, <1>6 DEF Session, TypeOK
  <2> QED
    BY <2>2, <2>3, <2>5, <2>6, StepsOfDevice
<1>7. CASE ~ses[c].validate
  <2>1. \A d \in Names : ses'[d].block = ses[d].block
    BY <1>2, <1>4, <1>7 DEF TypeOK, Sessions
  <2> QED
    BY <1>1, <1>4, <1>5, <2>1, Unseen
<1> QED
  BY <1>6, <1>7

\* Only metadata is flushed without validation: what is lost is behind what the
\* callers rely on.
LEMMA FlushLoses ==
  ASSUME IInv, IInv', Flush
  PROVE  Plain!Next
<1> PICK c : c = reg.cache
  OBVIOUS
<1> PICK b : b = ses[c].block
  OBVIOUS
<1> PICK diff : diff = AlignUp(pcache[c].size, ProgSize)
  OBVIOUS
<1>1. /\ pc = "flush" /\ pcache[c].block # NoBlock /\ ~ses[c].validate /\ DeviceWrite(C.block)
      /\ Flushed(c)
  BY DEF Flush, C, S
<1>2. /\ TypeOK /\ Call /\ Session(c) /\ Window(c) /\ c \in Names /\ C = pcache[c]
      /\ S = ses[c] /\ BlockSize \in Nat /\ Cached(c)
  BY <1>1, Geometry DEF IInv, Asked, TypeOK, C, S, Cached
<1>3. /\ pcache[c].block = b /\ Active(c) /\ b \in Blocks
      /\ pcache[c].off \in 0 .. BlockSize /\ pcache[c].size \in 0 .. CacheSize
  BY <1>2, FlushFits
<1>4. /\ disk' \in [Blocks -> [Offsets -> Bytes]]
      /\ \A x \in Blocks : x # b => disk'[x] = disk[x]
      /\ health[b] = "frozen" => disk' = disk
      /\ health[b] # "frozen" =>
           \A i \in Offsets :
             disk'[b][i] =
               IF pcache[c].off <= i /\ i < pcache[c].off + pcache[c].size THEN pcache[c].data[i]
               ELSE IF pcache[c].off <= i /\ i < pcache[c].off + diff THEN Erased
               ELSE disk[b][i]
  BY <1>1, <1>2, <1>3, DeviceWritten
<1>5. /\ pcache' = [pcache EXCEPT ![c] = NoCache] /\ firm' = firm
      /\ \A d \in Names : ses'[d].block = ses[d].block
  <2>1. ses' \in {ses, [ses EXCEPT ![c].state = "synced"]}
    BY <1>1, <1>2 DEF Flushed
  <2>2. \A d \in Names : ses'[d].block = ses[d].block
    BY <1>2, <2>1 DEF TypeOK, Sessions
  <2> QED
    BY <1>1, <2>2 DEF Flushed
<1>6. firm[b] <= pcache[c].off /\ firm[b] \in 0 .. BlockSize
  <2>1. firm[b] <= ses[c].begin /\ ses[c].begin <= pcache[c].off
    BY <1>1, <1>2, <1>3 DEF Session, Window
  <2>2. firm[b] \in 0 .. BlockSize /\ ses[c].begin \in 0 .. BlockSize
    BY <1>2, <1>3, Typing DEF TypeOK
  <2> QED
    BY <1>2, <1>3, <2>1, <2>2
<1>7. /\ Overlay[b] = Image(c) /\ Overlay'[b] = Image(c)' /\ Image(c)' \in [Offsets -> Bytes]
      /\ pcache'[c] = NoCache
  <2>1. Active(c)' /\ ses'[c].block = b
    BY <1>2, <1>3, <1>5 DEF Active
  <2>2. pcache'[c] = NoCache
    BY <1>2, <1>5 DEF TypeOK
  <2> QED
    BY <1>2, <1>3, <2>1, <2>2, SeenInSession, SeenInSessionsNext
<1>8. ASSUME NEW i \in 0 .. firm[b] - 1 PROVE Image(c)'[i] = Overlay[b][i]
  <2>1. i \in Offsets /\ ~(pcache[c].off <= i)
    BY <1>2, <1>3, <1>6 DEF Offsets
  <2>2. disk'[b][i] = disk[b][i]
    BY <1>4, <2>1
  <2>3. Overlay[b][i] = disk[b][i]
    BY SMTT(30), <1>7, <2>1 DEF Image, InCache
  <2>4. Image(c)'[i] = disk'[b][i]
    BY <1>5, <1>7, <1>2, <2>1 DEF Image, InCache, Cached, NoCache
  <2> QED
    BY <2>2, <2>3, <2>4
<1>9. Overlay' = [Overlay EXCEPT ![b] = Image(c)']
  <2>1. \A d \in Names \ {c} : ses'[d].block = ses[d].block /\ pcache'[d] = pcache[d]
    BY <1>2, <1>5 DEF TypeOK
  <2>2. ses[c].block \in {b, NoBlock} /\ ses'[c].block \in {b, NoBlock}
    BY <1>2, <1>5
  <2>3. Overlay' = [Overlay EXCEPT ![b] = Overlay'[b]]
    BY <1>2, <1>3, <1>4, <2>1, <2>2, OneSeen
  <2> QED
    BY <1>7, <2>3
<1>10. b \in Open /\ UNCHANGED <<Open, firm>>
  BY <1>2, <1>3, <1>5 DEF Open, Active
<1>11. \E image \in [Offsets -> Bytes] :
         /\ \A i \in 0 .. firm[b] - 1 : image[i] = Overlay[b][i]
         /\ Overlay' = [Overlay EXCEPT ![b] = image]
  BY <1>7, <1>8, <1>9
<1> QED
  BY <1>3, <1>10, <1>11, StepsOfDevice

LEMMA CheckedCloses ==
  ASSUME IInv, Checked
  PROVE  Plain!Next
<1> PICK c : c = "meta"
  OBVIOUS
<1> PICK b : b = ses[c].block
  OBVIOUS
<1>1. /\ pc = "read" /\ rd.why = "check"
      /\ firm' = [firm EXCEPT ![S.block] = BlockSize]
      /\ ses' = [ses EXCEPT ![c] = NoSession]
      /\ UNCHANGED <<disk, pcache>>
  BY DEF Checked
<1>2. TypeOK /\ Asked /\ Call /\ Reading /\ c \in Names
  BY DEF IInv, Names
<1>3. reg.op = "check" /\ Active(c) /\ S.block = b /\ ses[c].state = "synced"
  BY <1>1, <1>2, SMT DEF Call, Reading, S
<1>4. ses'[c].block = NoBlock /\ \A d \in Names \ {c} : ses'[d] = ses[d] /\ pcache'[d] = pcache[d]
  BY <1>1, <1>2 DEF TypeOK, NoSession
<1>5. /\ Open' = Open \ {b} /\ b \in Open
      /\ Overlay' = [Overlay EXCEPT ![b] = [i \in Offsets |-> disk[b][i]]]
  BY <1>1, <1>2, <1>3, <1>4, SessionEnds
<1>6. Overlay[b] = Image(c) /\ b \in Blocks /\ ~Cached(c)
  <2>1. pcache[c] = NoCache
    BY <1>2, <1>3, NoWindow
  <2> QED
    BY <1>2, <1>3, <2>1, SeenInSession DEF Cached, NoCache
<1>7. Image(c) = [i \in Offsets |-> disk[b][i]]
  BY SMTT(30), <1>6 DEF Image, InCache
<1>8. UNCHANGED Overlay
  BY ZenonT(60), <1>5, <1>6, <1>7 DEF Overlay
<1> QED
  BY <1>1, <1>3, <1>5, <1>6, <1>8, StepsOfDevice

LEMMA DropGivesUp ==
  ASSUME IInv, Drop
  PROVE  Plain!Next
<1> PICK c : c = reg.cache
  OBVIOUS
<1> PICK b : b = ses[c].block
  OBVIOUS
<1> PICK n : n = Least(firm[b], ses[c].begin)
  OBVIOUS
<1>1. /\ pc = "failed" /\ firm' = [firm EXCEPT ![b] = n]
      /\ pcache' = [pcache EXCEPT ![c] = NoCache]
      /\ ses' = [ses EXCEPT ![c] = NoSession]
      /\ UNCHANGED disk
  BY DEF Drop, S
<1>2. /\ TypeOK /\ Asked /\ Call /\ c \in Names /\ Session(c) /\ Window(c) /\ BlockSize \in Nat
  BY Geometry DEF IInv, Asked, TypeOK
<1>3. Active(c)
  BY <1>1, <1>2 DEF Call, TypeOK
<1>4. /\ Overlay[b] = Image(c) /\ b \in Blocks /\ firm[b] \in 0 .. BlockSize
      /\ ses[c].begin \in 0 .. BlockSize /\ pcache[c].off \in 0 .. BlockSize
      /\ disk[b] \in [Offsets -> Bytes]
  <2>1. Overlay[b] = Image(c) /\ b \in Blocks
    BY <1>2, <1>3, SeenInSession
  <2>2. firm[b] \in 0 .. BlockSize /\ disk[b] \in [Offsets -> Bytes]
    BY <1>2, <2>1 DEF TypeOK
  <2>3. ses[c].begin \in 0 .. BlockSize /\ pcache[c].off \in 0 .. BlockSize
    BY <1>2, Typing
  <2> QED
    BY <2>1, <2>2, <2>3
<1>5. n \in 0 .. firm[b] /\ n <= ses[c].begin /\ n <= BlockSize /\ firm'[b] = n
  <2>1. n \in 0 .. firm[b] /\ n <= ses[c].begin /\ n <= BlockSize
    BY <1>2, <1>4 DEF Least
  <2> QED
    BY <1>1, <1>2, <1>4, <2>1 DEF TypeOK
<1> PICK image : image = [i \in Offsets |-> disk[b][i]]
  OBVIOUS
<1>6. ASSUME NEW i \in 0 .. firm'[b] - 1 PROVE image[i] = Overlay[b][i]
  <2>1. i \in Offsets /\ i < ses[c].begin
    BY <1>2, <1>4, <1>5 DEF Offsets
  <2>2. ~InCache(c, i)
    <3>1. Cached(c) => ses[c].begin <= pcache[c].off
      BY <1>2 DEF Window
    <3>2. i \in Nat /\ ses[c].begin \in Nat /\ pcache[c].off \in Nat
      BY <1>2, <1>4, <2>1 DEF Offsets
    <3> QED
      BY <2>1, <3>1, <3>2 DEF InCache
  <2> QED
    BY <1>4, <2>1, <2>2 DEF Image
<1>7. ses'[c].block = NoBlock /\ \A d \in Names \ {c} : ses'[d] = ses[d] /\ pcache'[d] = pcache[d]
  BY <1>1, <1>2 DEF TypeOK, NoSession
<1>8. /\ Open' = Open \ {b} /\ b \in Open /\ Overlay' = [Overlay EXCEPT ![b] = image]
  BY <1>1, <1>2, <1>3, <1>7, SessionEnds
<1>9. image \in [Offsets -> Bytes]
  BY SMTT(30), <1>4
<1>10. \E m \in 0 .. firm[b] : firm' = [firm EXCEPT ![b] = m]
  BY <1>1, <1>5
<1>11. \E im \in [Offsets -> Bytes] :
         /\ \A i \in 0 .. firm'[b] - 1 : im[i] = Overlay[b][i]
         /\ Overlay' = [Overlay EXCEPT ![b] = im]
  BY <1>6, <1>8, <1>9
<1> QED
  BY <1>4, <1>8, <1>10, <1>11, StepsOfDevice

\* The block the file had is given up; the other is seen as before, through the
\* file's cache.
LEMMA HandOverGivesUp ==
  ASSUME IInv, IInv', HandOver
  PROVE  Plain!Next \/ UNCHANGED seen
<1> PICK s, p, old : s = ses["meta"] /\ p = pcache["meta"] /\ old = ses["file"].block
  OBVIOUS
<1>1. /\ s.validate /\ s.off > 0
      /\ pcache' = [file |-> p, meta |-> NoCache]
      /\ ses' = [file |-> s, meta |-> NoSession]
      /\ firm' = [b \in Blocks |-> IF b = old THEN 0 ELSE firm[b]]
      /\ UNCHANGED disk
  BY DEF HandOver
<1>2. TypeOK /\ Asked /\ Session("meta") /\ BlockSize \in Nat
  BY Geometry DEF IInv, Asked, Names
<1>3. Active("meta") /\ s.block # NoBlock
  BY <1>1, <1>2 DEF Session, NoSession, Active
<1>4. s.block \in Blocks /\ s.block # old /\ old \in Blocks \cup {NoBlock}
  BY <1>2, <1>3, Typing DEF Asked, Active, Names
<1>5. /\ ses'["file"] = s /\ ses'["meta"].block = NoBlock /\ pcache'["file"] = p /\ Active("file")'
  BY <1>1, <1>3 DEF NoSession, Active
<1>6. Overlay'[s.block] = Overlay[s.block]
  <2>1. Overlay[s.block] = Image("meta") /\ Overlay'[s.block] = Image("file")'
    BY <1>3, <1>5, SeenInSession, SeenInSessionsNext DEF Names
  <2>2. \A i \in Offsets : InCache("file", i)' <=> InCache("meta", i)
    BY <1>5 DEF InCache, Cached
  <2>3. Image("file")' = Image("meta")
    BY <1>1, <1>5, <2>2 DEF Image
  <2> QED
    BY <2>1, <2>3
<1>7. ASSUME NEW b \in Blocks, b # s.block, b # old PROVE Overlay'[b] = Overlay[b]
  <2>1. b # NoBlock
    BY BdAssumption
  <2>2. \A d \in Names : ses[d].block # b /\ ses'[d].block # b
    BY <1>5, <1>7, <2>1 DEF Names
  <2> QED
    BY <1>1, <2>2, SameSeen
<1>8. CASE old = NoBlock
  <2>1. UNCHANGED Overlay
    <3>1. \A b \in Blocks : Overlay'[b] = Overlay[b]
      BY <1>6, <1>7, <1>8, BdAssumption
    <3>2. Overlay' = [b \in Blocks |-> Overlay'[b]] /\ Overlay = [b \in Blocks |-> Overlay[b]]
      BY DEF Overlay
    <3> QED
      BY <3>1, <3>2
  <2>2. UNCHANGED Open
    BY <1>5, <1>8 DEF Open, Names
  <2>3. UNCHANGED firm
    BY <1>1, <1>2, <1>8, BdAssumption DEF TypeOK
  <2> QED
    BY <2>1, <2>2, <2>3 DEF seen
<1>9. CASE old # NoBlock
  <2>1. old \in Blocks /\ old # NoBlock /\ firm[old] \in 0 .. BlockSize
    BY <1>2, <1>4, <1>9 DEF TypeOK
  <2>2. Open' = Open \ {old} /\ old \in Open
    BY <1>3, <1>4, <1>5, <2>1 DEF Open, Names
  <2>3. firm' = [firm EXCEPT ![old] = 0] /\ firm'[old] = 0
    BY <1>1, <1>2, <2>1 DEF TypeOK
  <2>4. Overlay' = [Overlay EXCEPT ![old] = Overlay'[old]]
    <3>1. \A b \in Blocks : b # old => Overlay'[b] = Overlay[b]
      BY <1>6, <1>7
    <3>2. Overlay' = [b \in Blocks |-> Overlay'[b]] /\ Overlay = [b \in Blocks |-> Overlay[b]]
      BY DEF Overlay
    <3> QED
      BY <3>1, <3>2
  <2>5. Overlay'[old] \in [Offsets -> Bytes]
    BY <2>1, SeenTypedNext
  <2>6. \E n \in 0 .. firm[old] : firm' = [firm EXCEPT ![old] = n]
    <3>1. 0 \in 0 .. firm[old]
      BY <1>2, <2>1
    <3> QED
      BY <2>3, <3>1
  <2>7. \A i \in 0 .. firm'[old] - 1 : FALSE
    BY <2>3
  <2>8. \E image \in [Offsets -> Bytes] :
          /\ \A i \in 0 .. firm'[old] - 1 : image[i] = Overlay[old][i]
          /\ Overlay' = [Overlay EXCEPT ![old] = image]
    BY <2>4, <2>5, <2>7
  <2> QED
    BY <2>1, <2>2, <2>6, <2>8, StepsOfDevice
<1> QED
  BY <1>8, <1>9

LEMMA EraseCallErases ==
  ASSUME IInv, NEW c \in Names, NEW b \in Blocks, NEW validate \in BOOLEAN, EraseCall(c, b, validate)
  PROVE  Plain!Next
<1>1. /\ ses[c] = NoSession /\ ~InSession(b)
      /\ disk' = IF health[b] = "frozen" THEN disk ELSE [disk EXCEPT ![b] = Blank]
      /\ firm' = [firm EXCEPT ![b] = IF validate THEN BlockSize ELSE 0]
      /\ UNCHANGED pcache
  BY DEF EraseCall
<1>2. PICK s \in Stamps : ses' = [ses EXCEPT ![c] = Start(b, 0, validate, s)]
  BY DEF EraseCall
<1>3. TypeOK /\ b # NoBlock /\ disk \in [Blocks -> [Offsets -> Bytes]]
  BY BdAssumption DEF IInv, TypeOK
<1>4. ses[c].block = NoBlock /\ ses'[c].block = b /\ \A d \in Names \ {c} : ses'[d] = ses[d]
  BY <1>1, <1>2, <1>3 DEF TypeOK, Start, NoSession
<1>5. Open' = Open \cup {b} /\ b \notin Open
  BY <1>1, <1>4, Opened DEF Open, InSession
<1>6. \E n \in {0, BlockSize} : firm' = [firm EXCEPT ![b] = n]
  BY <1>1
<1>7. Overlay' = [Overlay EXCEPT ![b] = Overlay'[b]]
  <2>1. \A x \in Blocks : x # b => disk'[x] = disk[x]
    BY <1>1, <1>3
  <2> QED
    BY <1>1, <1>4, <2>1, OneSeen
<1>8. Overlay'[b] = [i \in Offsets |-> disk'[b][i]] /\ Overlay[b] = [i \in Offsets |-> disk[b][i]]
  <2>1. pcache[c] = NoCache
    <3>1. ~Active(c)
      BY <1>4 DEF Active
    <3> QED
      BY <3>1, NoWindow
  <2>2. \A d \in Names : ~(ses'[d].block = b /\ pcache'[d].block = b)
    BY <1>1, <1>3, <1>4, <2>1 DEF InSession, NoCache
  <2> QED
    BY <1>1, <2>2, SeenOnDisk DEF Overlay
<1>9. Overlay' = [Overlay EXCEPT ![b] = Blank] \/ UNCHANGED Overlay
  <2>1. CASE health[b] = "frozen"
    <3>1. Overlay'[b] = Overlay[b]
      BY <1>1, <1>8, <2>1
    <3> QED
      BY <1>7, <3>1 DEF Overlay
  <2>2. CASE health[b] # "frozen"
    <3>1. Overlay'[b] = Blank
      BY <1>1, <1>3, <1>8, <2>2 DEF Blank
    <3> QED
      BY <1>7, <3>1
  <2> QED
    BY SMTT(30), <2>1, <2>2
<1> QED
  BY <1>5, <1>6, <1>9, StepsOfDevice

LEMMA EraseFailsFails ==
  ASSUME IInv, NEW b \in Blocks, EraseFails(b)
  PROVE  Plain!Next
<1>1. ~InSession(b) /\ firm' = [firm EXCEPT ![b] = 0] /\ UNCHANGED <<disk, pcache, ses>>
  BY DEF EraseFails
<1>2. b \notin Open /\ UNCHANGED Open
  BY <1>1 DEF Open, InSession
<1>3. UNCHANGED Overlay
  BY <1>1 DEF Overlay
<1> QED
  BY <1>1, <1>2, <1>3, StepsOfDevice

LEMMA AppendCallAppends ==
  ASSUME IInv, NEW b \in Blocks, AppendCall(b)
  PROVE  Plain!Next
<1> PICK c : c = "meta"
  OBVIOUS
<1>1. ses[c] = NoSession /\ ~InSession(b) /\ UNCHANGED <<disk, pcache>> /\ c \in Names
  BY DEF AppendCall, NoCommit, Names
<1>2. PICK n \in 1 .. BlockSize - 1, s \in Stamps :
        /\ ses' = [ses EXCEPT ![c] = Start(b, n, FALSE, s)]
        /\ firm' = [firm EXCEPT ![b] = n]
  BY DEF AppendCall
<1>3. TypeOK /\ b # NoBlock /\ BlockSize \in Nat
  BY BdAssumption, Geometry DEF IInv
<1>4. ses[c].block = NoBlock /\ ses'[c].block = b /\ \A d \in Names \ {c} : ses'[d] = ses[d]
  BY <1>1, <1>2, <1>3 DEF TypeOK, Start, NoSession
<1>5. Open' = Open \cup {b} /\ b \notin Open
  BY <1>1, <1>4, Opened DEF Open, InSession
<1>6. \E m \in 0 .. BlockSize : firm' = [firm EXCEPT ![b] = m]
  <2>1. n \in 0 .. BlockSize
    BY <1>3
  <2> QED
    BY <1>2, <2>1
<1>7. UNCHANGED Overlay
  <2>1. pcache[c] = NoCache
    <3>1. ~Active(c)
      BY <1>4 DEF Active
    <3> QED
      BY <1>1, <3>1, NoWindow
  <2>2. \A d \in Names : ~(ses'[d].block = b /\ pcache'[d].block = b)
    <3>1. pcache'[c].block = NoBlock
      BY <1>1, <2>1 DEF NoCache
    <3>2. \A d \in Names \ {c} : ses'[d].block # b
      BY <1>1, <1>4 DEF InSession
    <3> QED
      BY <1>3, <3>1, <3>2
  <2>3. Overlay'[b] = Overlay[b]
    BY <1>1, <2>2, SeenOnDisk DEF Overlay
  <2>4. Overlay' = [Overlay EXCEPT ![b] = Overlay'[b]]
    BY <1>1, <1>4, OneSeen
  <2> QED
    BY <2>3, <2>4 DEF Overlay
<1> QED
  BY <1>5, <1>6, <1>7, StepsOfDevice

\* No caller sees what the other steps do.
LEMMA OthersUnseen ==
  ASSUME IInv, \/ ReadProgCache \/ ReadReadCache \/ ReadDevice \/ FillReadCache \/ ReadFails
               \/ ReadDone \/ NextChunk \/ Mismatch \/ ProgDone \/ FlushFails
               \/ (\E c \in Names, n \in Lengths : ProgCall(c, n))
               \/ (\E b \in Blocks, r \in Reads : ReadCall(b, r[1], r[2], r[3]))
               \/ ReadAhead \/ FlushCall \/ SyncCall \/ CheckCall \/ Keep \/ UNCHANGED vars
  PROVE  UNCHANGED seen
<1>1. ses \in [Names -> Sessions] /\ reg.cache \in Names
  BY DEF IInv, TypeOK
<1>2. UNCHANGED <<disk, pcache, firm>>
  BY DEF ReadProgCache, ReadReadCache, ReadDevice, FillReadCache, ReadFails, ReadDone, NextChunk,
     Mismatch, ProgDone, FlushFails, ProgCall, ReadCall, Read, ReadAhead, FlushCall, SyncCall,
     CheckCall, Keep, vars
<1>3. \/ UNCHANGED ses
      \/ ses' = [ses EXCEPT ![reg.cache].off = reg.end]
      \/ ses' = [ses EXCEPT !["file"].state = "kept"]
  BY DEF ReadProgCache, ReadReadCache, ReadDevice, FillReadCache, ReadFails, ReadDone, NextChunk,
     Mismatch, ProgDone, FlushFails, ProgCall, ReadCall, Read, ReadAhead, FlushCall, SyncCall,
     CheckCall, Keep, vars
<1>4. \A c \in Names : ses'[c].block = ses[c].block
  BY <1>1, <1>3 DEF Sessions, Names
<1> QED
  BY <1>2, <1>4, Unseen

LEMMA InitIsPlain ==
  ASSUME Init
  PROVE  Plain!Init
<1>1. /\ pcache = [c \in Names |-> NoCache] /\ ses = [c \in Names |-> NoSession]
      /\ firm = [b \in Blocks |-> BlockSize]
  BY DEF Init
<1>2. Overlay \in [Blocks -> [Offsets -> Bytes]]
  BY InitSafe, SeenTyped
<1>3. Open = {}
  BY <1>1 DEF Open, NoSession
<1> QED
  BY <1>1, <1>2, <1>3 DEF Plain!Init, Plain!Images, Plain!Offsets, Offsets, Open

LEMMA StepIsPlain ==
  ASSUME IInv, [Next]_vars
  PROVE  Plain!Next \/ UNCHANGED seen
<1>1. IInv'
  BY NextSafe
<1>2. CASE Step
  BY <1>1, <1>2, OthersUnseen, ValidatedCloses, CheckedCloses, ProgCopyProgram, ProgMapUnseen,
     FlushNothingCloses, FlushValidatedUnseen, FlushLoses DEF Step
<1>3. ASSUME NEW c \in Names, NEW b \in Blocks, NEW validate \in BOOLEAN, EraseCall(c, b, validate)
      PROVE  Plain!Next
  BY <1>3, EraseCallErases
<1>4. ASSUME NEW b \in Blocks, EraseFails(b) \/ AppendCall(b) PROVE Plain!Next
  BY <1>4, EraseFailsFails, AppendCallAppends
<1>5. CASE Drop \/ HandOver
  BY <1>1, <1>5, DropGivesUp, HandOverGivesUp
<1> QED
  BY <1>2, <1>3, <1>4, <1>5, OthersUnseen DEF Next

\* CachesAreInvisible: BdCache implements PlainDevice.  What a caller programs is
\* what it reads, from the call on, whatever is in a cache and whatever the read
\* cache held before; only what it was told, or programmed without validation, is
\* lost.
THEOREM CachesImplementDevice == Spec => CachesAreInvisible
<1>1. Init => Plain!Init
  BY InitIsPlain
<1>2. IInv /\ [Next]_vars => [Plain!Next]_<<Overlay, {ses[c].block : c \in Names} \ {NoBlock}, firm>>
  BY StepIsPlain DEF seen, Open
<1> QED
  BY <1>1, <1>2, CachesAreSafe, PTL DEF CachesAreInvisible, Spec, Plain!Spec
===============================================================================
