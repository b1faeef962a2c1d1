-------------------------------- MODULE Ctz --------------------------------
(***************************************************************************)
(* The CTZ skip list of littlefs-rust-core: file/ctz.rs.                   *)
(*                                                                         *)
(* The blocks of a file are numbered from 0.  Block i > 0 begins with       *)
(* pointers to the blocks i-1, i-2, i-4, ... i-2^k, where 2^k is the        *)
(* largest power of two that divides i; the rest of it is data.  Sizes are *)
(* counted in units of one pointer (PtrSize is 1 where the code has 4).    *)
(***************************************************************************)
EXTENDS Integers, FiniteSets

CONSTANTS
  BlockSize,
  PtrSize,
  FileMax       \* lfs.file_max

NotABlock == 0

Ptr(b) == <<"ptr", b>>
Gap == <<"erased", NotABlock>>

Lesser(a, b) == IF a < b THEN a ELSE b
Larger(a, b) == IF a < b THEN b ELSE a

\* The bit counts of util.rs, for numbers below 2^8.
Bit(k) == <<1, 2, 4, 8, 16, 32, 64, 128, 256>>[k + 1]

lfs_popc(n) == Cardinality({k \in 0..7 : (n \div Bit(k)) % 2 = 1})
lfs_ctz(n) == CHOOSE k \in 0..7 : n % Bit(k+1) = Bit(k)
lfs_npw2(n) == CHOOSE k \in 1..8 : n <= Bit(k) /\ \A j \in 1..(k-1) : Bit(j) < n

\* lfs_ctz_index: the block that holds byte pos, and where in it.  The number
\* of bytes in the blocks before it is only estimated, then corrected.
lfs_ctz_index(pos) ==
  LET b == BlockSize - 2 * PtrSize
      i == pos \div b
  IN  IF i = 0 THEN [i |-> 0, off |-> pos]
      ELSE LET j == (pos - PtrSize * (lfs_popc(i - 1) + 2)) \div b
           IN  [i |-> j, off |-> pos - b * j - PtrSize * lfs_popc(j)]

Index == [pos \in 0 .. FileMax |-> lfs_ctz_index(pos)]

\* How many pointers block i begins with.
Skips(i) == IF i = 0 THEN 0 ELSE lfs_ctz(i) + 1

\* The place of the byte after the one at p: counting is the reference for
\* lfs_ctz_index.
NextPlace(p) == IF p.off < BlockSize - 1 THEN [p EXCEPT !.off = @ + 1]
                ELSE [i |-> p.i + 1, off |-> PtrSize * Skips(p.i + 1)]

\* A block has room for its pointers and more: lfs_init asserts it.
ASSUME CtzAssumption ==
  /\ {BlockSize, PtrSize, FileMax} \subseteq Nat \ {0}
  /\ Index[0] = [i |-> 0, off |-> 0]
  /\ \A pos \in 1 .. FileMax : Index[pos] = NextPlace(Index[pos - 1])
  /\ Index[FileMax].i < Bit(8)
  /\ \A i \in 1 .. Index[FileMax].i : PtrSize * Skips(i) < BlockSize

-----------------------------------------------------------------------------
(***************************************************************************)
(* Walking the list.  Cells maps each block to its cells; what is read      *)
(* where a pointer should be and is none leads to NotABlock, and so does    *)
(* what is read from it: lfs_bd_read refuses a block that does not exist.  *)
(***************************************************************************)
PtrAt(cells, b, j) ==
  IF /\ b \in DOMAIN cells
     /\ cells[b][PtrSize * j][1] = "ptr" /\ cells[b][PtrSize * j][2] \in DOMAIN cells
  THEN cells[b][PtrSize * j][2] ELSE NotABlock

\* lfs_ctz_find: from the last block to the one that holds pos, as far at a
\* time as its pointers allow.
BugLeap(i, to) == Lesser(lfs_npw2(i - to + 1), lfs_ctz(i))

Leap(i, to) == Lesser(lfs_npw2(i - to + 1) - 1, lfs_ctz(i))

Leaps == [i \in 1 .. Index[FileMax].i |-> [to \in 0 .. i - 1 |-> Leap(i, to)]]

lfs_ctz_find(cells, head, size, pos) ==
  LET to == Index[pos].i
      walk[i \in 0 .. Index[FileMax].i] == [b \in DOMAIN cells \cup {NotABlock} |->
        IF i <= to THEN b
        ELSE walk[i - Bit(Leaps[i][to])][PtrAt(cells, b, Leaps[i][to])]]
  IN  IF size = 0 THEN [block |-> NotABlock, off |-> 0]
      ELSE [block |-> walk[Index[size - 1].i][head], off |-> Index[pos].off]

\* lfs_ctz_traverse: two blocks a turn, by the pointers of an even block.
\* The blocks it reports; NotABlock among them when it met no pointer.
lfs_ctz_traverse(cells, head, size) ==
  LET visit[i \in 0 .. Index[FileMax].i] == [b \in DOMAIN cells \cup {NotABlock} |->
        IF i = 0 \/ b = NotABlock THEN {b}
        ELSE IF i % 2 = 0
        THEN {b, PtrAt(cells, b, 0)} \cup visit[i - 2][PtrAt(cells, b, 1)]
        ELSE {b} \cup visit[i - 1][PtrAt(cells, b, 0)]]
  IN  IF size = 0 THEN {} ELSE visit[Index[size - 1].i][head]
=============================================================================
