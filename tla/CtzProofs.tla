----------------------------- MODULE CtzProofs -----------------------------
(***************************************************************************)
(* Proofs about Ctz: the arithmetic of the skip list, what the two walks   *)
(* find on a list of any length, and what makes another list of a list.    *)
(***************************************************************************)
EXTENDS Ctz, FiniteSetTheorems, WellFoundedInduction, TLAPS

\* A set of numbers has a least one.
LEMMA Least ==
  ASSUME NEW T \in SUBSET Nat, T # {}
  PROVE  \E k \in T : \A j \in T : k <= j
<1> DEFINE R == {x \in Nat \X Nat : x[1] < x[2]}
<1>1. IsWellFoundedOn(R, Nat)
  BY NatLessThanWellFounded DEF OpToRel
<1>2. PICK k \in T : \A j \in T : ~(<<j, k>> \in R)
  <2> HIDE DEF R
  <2> QED
    BY <1>1, WFMin
<1>3. ASSUME NEW j \in T PROVE k <= j
  <2>1. j \in Nat /\ k \in Nat
    OBVIOUS
  <2>2. <<j, k>> \notin R
    BY <1>2
  <2> QED
    BY <2>1, <2>2
<1> QED
  BY <1>3

LEMMA Bits ==
  /\ Bit(0) = 1 /\ Bit(1) = 2 /\ Bit(2) = 4 /\ Bit(3) = 8 /\ Bit(4) = 16
  /\ Bit(5) = 32 /\ Bit(6) = 64 /\ Bit(7) = 128 /\ Bit(8) = 256
BY DEF Bit

LEMMA BitTyped ==
  /\ \A k \in 0 .. 8 : Bit(k) \in 1 .. 256
  /\ \A k \in 0 .. 7 : Bit(k + 1) = 2 * Bit(k)
BY Bits

\* The lowest bit of a number that is set.
LEMMA CtzIs ==
  ASSUME NEW i \in 1 .. 255
  PROVE  lfs_ctz(i) \in 0 .. 7 /\ i % Bit(lfs_ctz(i) + 1) = Bit(lfs_ctz(i))
<1>1. \E k \in 0 .. 7 : i % Bit(k + 1) = Bit(k)
  BY Bits
<1> QED
  BY <1>1 DEF lfs_ctz

LEMMA BitFits ==
  ASSUME NEW i \in 1 .. 255, NEW k \in 0 .. lfs_ctz(i)
  PROVE  k \in 0 .. 7 /\ Bit(k) \in 1 .. i
<1> PICK c : c = lfs_ctz(i)
  OBVIOUS
<1>1. c \in 0 .. 7 /\ i % Bit(c + 1) = Bit(c) /\ k \in 0 .. c
  BY CtzIs
<1>2. \A j \in 0 .. 7 : \A l \in 0 .. j : Bit(l) <= Bit(j)
  BY Bits
<1>3. \A j \in 0 .. 7 : i % Bit(j + 1) = Bit(j) => Bit(j) <= i
  BY Bits
<1>4. Bit(k) <= Bit(c) /\ Bit(c) <= i /\ k \in 0 .. 7
  BY ONLY <1>1, <1>2, <1>3
<1>5. Bit(k) \in 1 .. 256 /\ Bit(c) \in 1 .. 256
  BY <1>1, <1>4, BitTyped
<1> QED
  BY ONLY <1>4, <1>5, i \in 1 .. 255

\* Pointer j of the block before it leads as far again.
LEMMA CtzBefore ==
  ASSUME NEW i \in 1 .. 255, NEW j \in 0 .. lfs_ctz(i) - 1
  PROVE  i - Bit(j) \in 1 .. 255 /\ lfs_ctz(i - Bit(j)) = j
<1> PICK c : c = lfs_ctz(i)
  OBVIOUS
<1>1. c \in 0 .. 7 /\ i % Bit(c + 1) = Bit(c) /\ j \in 0 .. c - 1 /\ j \in 0 .. 6
  BY CtzIs
<1>2. \A k \in 0 .. 7 : \A l \in 0 .. k - 1 : i % Bit(k + 1) = Bit(k) =>
        Bit(l) < i /\ (i - Bit(l)) % Bit(l + 1) = Bit(l)
  BY Bits
<1>3. Bit(j) < i /\ (i - Bit(j)) % Bit(j + 1) = Bit(j)
  BY <1>1, <1>2
<1>4. i - Bit(j) \in 1 .. 255
  <2>1. Bit(j) \in 1 .. 256
    BY <1>1, BitTyped
  <2> PICK b : b = Bit(j)
    OBVIOUS
  <2>2. b \in 1 .. 256 /\ b < i
    BY <1>3, <2>1
  <2>3. i - b \in 1 .. 255
    BY ONLY <2>2, i \in 1 .. 255
  <2> QED
    BY <2>3
<1> PICK m : m = i - Bit(j)
  OBVIOUS
<1>5. \A k, l \in 0 .. 7 : m % Bit(k + 1) = Bit(k) /\ m % Bit(l + 1) = Bit(l) => k = l
  BY <1>4, Bits
<1>6. lfs_ctz(m) \in 0 .. 7 /\ m % Bit(lfs_ctz(m) + 1) = Bit(lfs_ctz(m))
  BY <1>4, CtzIs
<1>7. m % Bit(j + 1) = Bit(j) /\ j \in 0 .. 7
  BY <1>1, <1>3
<1>8. lfs_ctz(m) = j
  BY ONLY <1>5, <1>6, <1>7
<1> QED
  BY <1>4, <1>8

\* An even block has two pointers, an odd one has one.
LEMMA EvenSkips ==
  ASSUME NEW i \in 1 .. 255
  PROVE  /\ lfs_ctz(i) \in 0 .. 7
         /\ i % 2 = 0 => 0 \in 0 .. lfs_ctz(i) /\ 1 \in 0 .. lfs_ctz(i) /\ 1 \in 1 .. lfs_ctz(i)
         /\ i % 2 = 1 => lfs_ctz(i) = 0
<1> PICK t : t = lfs_ctz(i)
  OBVIOUS
<1>1. t \in 0 .. 7 /\ i % Bit(t + 1) = Bit(t)
  BY CtzIs
<1>2. i % 2 = 0 => t # 0
  BY <1>1, Bits
<1>3. i % 2 = 1 => t = 0
  BY <1>1, Bits
<1> QED
  BY <1>1, <1>2, <1>3

LEMMA LeapFits ==
  ASSUME NEW i \in 1 .. 255, NEW to \in 0 .. i - 1
  PROVE  Leap(i, to) \in 0 .. lfs_ctz(i) /\ i - Bit(Leap(i, to)) \in to .. i - 1
<1> DEFINE a == i - to + 1
<1>1. a \in 2 .. 256
  OBVIOUS
<1>2. \E k \in 1 .. 8 : a <= Bit(k) /\ \A j \in 1 .. (k - 1) : Bit(j) < a
  BY <1>1, Bits
<1>3. lfs_npw2(a) \in 1 .. 8 /\ a <= Bit(lfs_npw2(a)) /\ \A j \in 1 .. (lfs_npw2(a) - 1) : Bit(j) < a
  BY <1>2 DEF lfs_npw2
<1>4. lfs_npw2(a) \in 1 .. 8
  BY <1>3
<1>5. lfs_ctz(i) \in 0 .. 7
  BY CtzIs
<1>6. Leap(i, to) \in 0 .. lfs_npw2(a) - 1 /\ Leap(i, to) \in 0 .. lfs_ctz(i)
  BY <1>4, <1>5 DEF Leap, Lesser
<1> HIDE DEF a
<1>7. Bit(Leap(i, to)) < a
  <2>1. CASE Leap(i, to) = 0
    BY <1>1, <2>1, Bits
  <2>2. CASE Leap(i, to) # 0
    <3>1. Leap(i, to) \in 1 .. (lfs_npw2(a) - 1)
      BY <1>4, <1>6, <2>2
    <3> QED
      BY <1>3, <3>1
  <2> QED
    BY <2>1, <2>2
<1>8. Bit(Leap(i, to)) \in 1 .. 256
  <2>1. Leap(i, to) \in 0 .. 8
    BY <1>4, <1>6
  <2> QED
    BY ONLY <2>1, BitTyped
<1>9. Bit(Leap(i, to)) < i - to + 1
  BY <1>7 DEF a
<1> QED
  BY <1>6, <1>8, <1>9

-----------------------------------------------------------------------------
(***************************************************************************)
(* Places.                                                                 *)
(***************************************************************************)

Most == Index[FileMax].i

LEMMA Constants ==
  BlockSize \in Nat \ {0} /\ PtrSize \in Nat \ {0} /\ FileMax \in Nat \ {0}
BY CtzAssumption

LEMMA PlaceIsRecord ==
  ASSUME NEW p \in 0 .. FileMax
  PROVE  Index[p] = [i |-> Index[p].i, off |-> Index[p].off]
BY DEF Index, lfs_ctz_index

\* The next place is in the same block, or the next.
LEMMA NextPlaceIs ==
  ASSUME NEW p \in 0 .. FileMax - 1
  PROVE  \/ Index[p].off < BlockSize - 1
            /\ Index[p + 1].i = Index[p].i /\ Index[p + 1].off = Index[p].off + 1
         \/ ~(Index[p].off < BlockSize - 1)
            /\ Index[p + 1].i = Index[p].i + 1
            /\ Index[p + 1].off = PtrSize * Skips(Index[p].i + 1)
<1>1. p + 1 \in 1 .. FileMax /\ (p + 1) - 1 = p /\ p \in 0 .. FileMax
  BY Constants
<1>2. Index[p + 1] = NextPlace(Index[p])
  BY <1>1, CtzAssumption
<1>3. PICK a, b : a = Index[p].i /\ b = Index[p].off
  OBVIOUS
<1>4. Index[p] = [i |-> a, off |-> b]
  BY <1>1, <1>3, PlaceIsRecord
<1> QED
  BY ONLY <1>2, <1>3, <1>4 DEF NextPlace

LEMMA BlockGrows ==
  ASSUME NEW p \in 0 .. FileMax
  PROVE  Index[p].i \in Nat /\ \A q \in 0 .. p : Index[q].i <= Index[p].i
<1> DEFINE G == {k \in 0 .. FileMax : Index[k].i \in Nat /\ \A q \in 0 .. k : Index[q].i <= Index[k].i}
           T == (0 .. FileMax) \ G
<1>1. SUFFICES ASSUME T # {} PROVE FALSE
  OBVIOUS
<1>2. T \in SUBSET Nat
  BY Constants
<1>3. PICK k \in T : \A j \in T : k <= j
  <2> HIDE DEF T
  <2> QED
    BY <1>1, <1>2, Least
<1>4. k # 0
  BY CtzAssumption
<1>5. k \in 1 .. FileMax /\ k - 1 \in 0 .. FileMax - 1 /\ (k - 1) + 1 = k
  BY <1>4, Constants
<1>6. k - 1 \notin T
  <2> HIDE DEF T
  <2> QED
    BY <1>3, <1>5
<1>7. Index[k - 1].i \in Nat /\ \A q \in 0 .. k - 1 : Index[q].i <= Index[k - 1].i
  <2>1. k - 1 \in G
    <3> HIDE DEF G
    <3> QED
      BY <1>5, <1>6, Constants
  <2> QED
    BY <2>1
<1>8. Index[k].i = Index[k - 1].i \/ Index[k].i = Index[k - 1].i + 1
  BY <1>5, NextPlaceIs
<1>9. ASSUME NEW q \in 0 .. k PROVE Index[q].i <= Index[k].i
  <2>0. Index[k].i \in Nat
    BY ONLY <1>7, <1>8
  <2>1. q = k \/ q \in 0 .. k - 1
    BY <1>5
  <2>2. CASE q = k
    BY ONLY <2>0, <2>2
  <2>3. CASE q \in 0 .. k - 1
    <3>1. Index[q].i <= Index[k - 1].i
      BY <1>7, <2>3
    <3>2. Index[q].i \in Int
      <4>1. q \notin T
        <5> HIDE DEF T
        <5> QED
          BY <1>3, <1>5, <2>3
      <4>2. q \in G
        <5> HIDE DEF G
        <5> QED
          BY <4>1, <2>3, <1>5, Constants
      <4> QED
        BY <4>2
    <3> QED
      BY ONLY <3>1, <3>2, <1>7, <1>8
  <2> QED
    BY <2>1, <2>2, <2>3
<1> QED
  BY <1>7, <1>8, <1>9

LEMMA BlocksAreFew ==
  /\ Most \in 0 .. 255
  /\ \A p \in 0 .. FileMax : Index[p].i \in 0 .. Most
<1>1. Most \in Nat /\ \A q \in 0 .. FileMax : Index[q].i <= Most
  BY BlockGrows, Constants DEF Most
<1>2. Most < 256
  BY CtzAssumption, Bits DEF Most
<1> QED
  BY <1>1, <1>2, BlockGrows

LEMMA SkipsTyped ==
  ASSUME NEW i \in 0 .. Most
  PROVE  Skips(i) \in 0 .. 8 /\ PtrSize * Skips(i) \in 0 .. BlockSize - 1
<1>1. CASE i = 0
  BY <1>1, Constants DEF Skips
<1>2. CASE i # 0
  <2>1. i \in 1 .. 255 /\ i \in 1 .. Most
    BY SMTT(30), <1>2, BlocksAreFew
  <2>2. Skips(i) \in 1 .. 8
    <3>1. PICK c : c = lfs_ctz(i)
      OBVIOUS
    <3>2. c \in 0 .. 7 /\ Skips(i) = c + 1
      BY <2>1, <3>1, CtzIs DEF Skips
    <3> QED
      BY ONLY <3>2
  <2>3. PtrSize * Skips(i) < BlockSize
    BY <2>1, CtzAssumption DEF Most
  <2>4. PtrSize * Skips(i) \in Nat
    BY <2>2, Constants
  <2> QED
    BY <2>2, <2>3, <2>4, Constants
<1> QED
  BY <1>1, <1>2

LEMMA PlaceTyped ==
  ASSUME NEW p \in 0 .. FileMax
  PROVE  /\ Index[p].i \in 0 .. Most
         /\ Index[p].off \in PtrSize * Skips(Index[p].i) .. BlockSize - 1
<1>0. \A q \in 0 .. FileMax : Index[q].i \in 0 .. Most
  BY BlocksAreFew
<1> DEFINE T == {k \in 0 .. FileMax : ~(Index[k].off \in PtrSize * Skips(Index[k].i) .. BlockSize - 1)}
<1>1. SUFFICES ASSUME T # {} PROVE FALSE
  BY <1>0
<1>2. T \in SUBSET Nat
  BY Constants
<1>3. PICK k \in T : \A j \in T : k <= j
  <2> HIDE DEF T
  <2> QED
    BY <1>1, <1>2, Least
<1>4. k # 0
  BY CtzAssumption, Constants DEF Skips
<1>5. k \in 1 .. FileMax /\ k - 1 \in 0 .. FileMax - 1 /\ (k - 1) + 1 = k /\ k - 1 \in 0 .. FileMax
  BY <1>4, Constants
<1>6. k - 1 \notin T
  <2> HIDE DEF T
  <2> QED
    BY <1>3, <1>5
<1>7. Index[k - 1].off \in PtrSize * Skips(Index[k - 1].i) .. BlockSize - 1
  BY <1>5, <1>6
<1>8. PICK a : a = PtrSize * Skips(Index[k - 1].i)
  OBVIOUS
<1>9. PICK b : b = PtrSize * Skips(Index[k].i)
  OBVIOUS
<1>10. a \in 0 .. BlockSize - 1 /\ b \in 0 .. BlockSize - 1
  BY <1>0, <1>5, <1>8, <1>9, SkipsTyped
<1>11. ~(Index[k].off \in b .. BlockSize - 1)
  BY <1>9
<1>12. CASE Index[k - 1].off < BlockSize - 1
  <2>1. Index[k].i = Index[k - 1].i /\ Index[k].off = Index[k - 1].off + 1
    BY <1>5, <1>12, NextPlaceIs
  <2>2. a = b
    BY <2>1, <1>8, <1>9
  <2> QED
    BY <2>1, <2>2, <1>7, <1>8, <1>10, <1>11, <1>12, Constants
<1>13. CASE ~(Index[k - 1].off < BlockSize - 1)
  <2>1. Index[k].i = Index[k - 1].i + 1 /\ Index[k].off = PtrSize * Skips(Index[k - 1].i + 1)
    BY <1>5, <1>13, NextPlaceIs
  <2>2. Index[k].off = b
    BY <2>1, <1>9
  <2> QED
    BY <2>2, <1>10, <1>11, Constants
<1> QED
  BY <1>12, <1>13

\* Bytes of one block are at places next to one another.
LEMMA PlacesInBlock ==
  ASSUME NEW p \in 0 .. FileMax, NEW d \in Nat, p + d <= FileMax, Index[p].off + d < BlockSize
  PROVE  Index[p + d].i = Index[p].i /\ Index[p + d].off = Index[p].off + d
<1> DEFINE T == {k \in 0 .. d : ~(Index[p + k].i = Index[p].i /\ Index[p + k].off = Index[p].off + k)}
<1>0. PICK o : o = Index[p].off
  OBVIOUS
<1>1. o \in 0 .. BlockSize - 1
  <2>1. PICK a : a = PtrSize * Skips(Index[p].i)
    OBVIOUS
  <2>2. o \in a .. BlockSize - 1 /\ a \in 0 .. BlockSize - 1
    BY <1>0, <2>1, PlaceTyped, SkipsTyped
  <2> QED
    BY <2>2, Constants
<1>2. SUFFICES ASSUME T # {} PROVE FALSE
  BY Constants
<1>3. T \in SUBSET Nat
  OBVIOUS
<1>4. PICK k \in T : \A j \in T : k <= j
  <2> HIDE DEF T
  <2> QED
    BY <1>2, <1>3, Least
<1>5. k # 0
  BY <1>0, <1>1, Constants
<1>6. k \in 1 .. d /\ k - 1 \in 0 .. d /\ p + (k - 1) \in 0 .. FileMax - 1 /\ (p + (k - 1)) + 1 = p + k
  BY <1>5, Constants
<1>7. k - 1 \notin T
  <2> HIDE DEF T
  <2> QED
    BY <1>4, <1>6
<1>8. Index[p + (k - 1)].i = Index[p].i /\ Index[p + (k - 1)].off = o + (k - 1)
  BY <1>0, <1>6, <1>7
<1>9. o + (k - 1) < BlockSize - 1
  BY <1>0, <1>1, <1>6, Constants
<1>10. Index[p + k].i = Index[p].i /\ Index[p + k].off = o + (k - 1) + 1
  BY <1>6, <1>8, <1>9, NextPlaceIs
<1> QED
  BY <1>0, <1>1, <1>6, <1>10

LEMMA FirstBlock ==
  ASSUME NEW p \in 0 .. FileMax, p < BlockSize
  PROVE  Index[p].i = 0 /\ Index[p].off = p
<1>1. Index[0].i = 0 /\ Index[0].off = 0
  BY CtzAssumption
<1>2. 0 \in 0 .. FileMax /\ p \in Nat /\ 0 + p <= FileMax /\ Index[0].off + p < BlockSize
  BY <1>1, Constants
<1>3. Index[0 + p].i = Index[0].i /\ Index[0 + p].off = Index[0].off + p
  BY <1>2, PlacesInBlock
<1> QED
  BY <1>1, <1>3

LEMMA OnlyFirst ==
  ASSUME NEW p \in 0 .. FileMax, Index[p].i = 0
  PROVE  p < BlockSize
<1>1. SUFFICES ASSUME p >= BlockSize PROVE FALSE
  BY Constants
<1>2. /\ BlockSize - 1 \in 0 .. FileMax - 1 /\ BlockSize - 1 \in 0 .. FileMax /\ BlockSize - 1 < BlockSize
      /\ (BlockSize - 1) + 1 = BlockSize /\ BlockSize \in 0 .. p
  BY <1>1, Constants
<1>3. Index[BlockSize - 1].i = 0 /\ Index[BlockSize - 1].off = BlockSize - 1
  BY <1>2, FirstBlock
<1>4. Index[BlockSize].i = 0 + 1
  BY <1>2, <1>3, NextPlaceIs, Constants
<1>5. Index[BlockSize].i <= Index[p].i
  BY <1>2, BlockGrows
<1> QED
  BY <1>4, <1>5

-----------------------------------------------------------------------------
(***************************************************************************)
(* The functions that walk the list are what their equations say.          *)
(***************************************************************************)

Known(c) == DOMAIN c \cup {NotABlock}

LEMMA PtrIsKnown ==
  ASSUME NEW c, NEW b, NEW j
  PROVE  PtrAt(c, b, j) \in Known(c)
BY DEF PtrAt, Known

WalkOf(c, to, m, w) ==
  w = [i \in 0 .. m |-> [b \in Known(c) |->
         IF i <= to THEN b ELSE w[i - Bit(Leaps[i][to])][PtrAt(c, b, Leaps[i][to])]]]

LEMMA LeapsFit ==
  ASSUME NEW i \in 1 .. Most, NEW to \in Nat, i > to
  PROVE  /\ Leaps[i][to] \in 0 .. lfs_ctz(i) /\ i - Bit(Leaps[i][to]) \in to .. i - 1
         /\ i \in 1 .. 255 /\ to \in 0 .. i - 1
<1>1. i \in 1 .. 255 /\ to \in 0 .. i - 1
  BY BlocksAreFew
<1>2. Leaps[i][to] = Leap(i, to)
  BY <1>1 DEF Leaps, Most
<1> QED
  BY Zenon, <1>1, <1>2, LeapFits

LEMMA WalkExists ==
  ASSUME NEW c, NEW to \in Nat
  PROVE  \E w : WalkOf(c, to, Most, w)
<1> DEFINE G == {m \in 0 .. Most : \E w : WalkOf(c, to, m, w)}
           T == (0 .. Most) \ G
<1>0. Most \in 0 .. 255
  BY BlocksAreFew
<1>1. SUFFICES ASSUME T # {} PROVE FALSE
  BY <1>0
<1>2. PICK k \in T : \A j \in T : k <= j
  <2>1. T \in SUBSET Nat
    OBVIOUS
  <2> HIDE DEF T
  <2> QED
    BY <1>1, <2>1, Least
<1>3. CASE k = 0
  <2> DEFINE w == [i \in 0 .. k |-> [b \in Known(c) |-> b]]
  <2>1. WalkOf(c, to, k, w)
    BY <1>3 DEF WalkOf
  <2> QED
    BY <2>1, <1>3
<1>4. CASE k # 0
  <2>1. k \in 1 .. Most /\ k - 1 \in 0 .. Most /\ k \in Nat
    BY <1>0, <1>4
  <2>2. k - 1 \in G
    <3> HIDE DEF G
    <3> QED
      BY <1>2, <2>1, <1>0
  <2>3. PICK w : WalkOf(c, to, k - 1, w)
    BY <2>2
  <2> DEFINE v == [i \in 0 .. k |-> [b \in Known(c) |->
                     IF i <= to THEN b ELSE w[i - Bit(Leaps[i][to])][PtrAt(c, b, Leaps[i][to])]]]
  <2>4. ASSUME NEW i \in 0 .. k - 1, NEW b \in Known(c) PROVE v[i][b] = w[i][b]
    <3>1. w[i][b] = IF i <= to THEN b ELSE w[i - Bit(Leaps[i][to])][PtrAt(c, b, Leaps[i][to])]
      <4> HIDE DEF v
      <4>1. w[i] = [d \in Known(c) |->
              IF i <= to THEN d ELSE w[i - Bit(Leaps[i][to])][PtrAt(c, d, Leaps[i][to])]]
        BY <2>3, <2>1 DEF WalkOf
      <4> QED
        BY SMTT(30), <4>1
    <3> QED
      BY <3>1, <2>1
  <2>5. ASSUME NEW i \in 0 .. k, NEW b \in Known(c)
        PROVE  v[i][b] = IF i <= to THEN b ELSE v[i - Bit(Leaps[i][to])][PtrAt(c, b, Leaps[i][to])]
    <3>1. CASE i <= to
      BY <3>1
    <3>2. CASE i > to
      <4>1. i \in 1 .. Most
        BY <3>2, <2>1, <1>0
      <4>2. PICK a, d : a = i - Bit(Leaps[i][to]) /\ d = PtrAt(c, b, Leaps[i][to])
        OBVIOUS
      <4>3. a \in 0 .. k - 1 /\ d \in Known(c)
        BY <4>1, <4>2, <3>2, LeapsFit, PtrIsKnown
      <4>4. v[a][d] = w[a][d]
        <5> HIDE DEF v
        <5> QED
          BY <4>3, <2>4
      <4>5. v[i][b] = w[a][d]
        BY <3>2, <4>2
      <4> QED
        BY Zenon, <4>2, <4>4, <4>5, <3>2
    <3> QED
      BY <3>1, <3>2
  <2>6. v = [i \in 0 .. k |-> [b \in Known(c) |->
               IF i <= to THEN b ELSE v[i - Bit(Leaps[i][to])][PtrAt(c, b, Leaps[i][to])]]]
    BY SMTT(30), <2>5
  <2>7. WalkOf(c, to, k, v)
    <3> HIDE DEF v
    <3> QED
      BY <2>6 DEF WalkOf
  <2> QED
    BY <2>7
<1> QED
  BY <1>3, <1>4

VisitOf(c, m, w) ==
  w = [i \in 0 .. m |-> [b \in Known(c) |->
        IF i = 0 \/ b = NotABlock THEN {b}
        ELSE IF i % 2 = 0
        THEN {b, PtrAt(c, b, 0)} \cup w[i - 2][PtrAt(c, b, 1)]
        ELSE {b} \cup w[i - 1][PtrAt(c, b, 0)]]]

\* What a visit of block b, number i, reports.
Visit(c, i, b, w) ==
  IF i = 0 \/ b = NotABlock THEN {b}
  ELSE IF i % 2 = 0
  THEN {b, PtrAt(c, b, 0)} \cup w[i - 2][PtrAt(c, b, 1)]
  ELSE {b} \cup w[i - 1][PtrAt(c, b, 0)]

LEMMA VisitIs ==
  ASSUME NEW c, NEW m, NEW w
  PROVE  VisitOf(c, m, w) <=> w = [i \in 0 .. m |-> [b \in Known(c) |-> Visit(c, i, b, w)]]
BY DEF VisitOf, Visit

LEMMA VisitExists ==
  ASSUME NEW c
  PROVE  \E w : VisitOf(c, Most, w)
<1> DEFINE G == {m \in 0 .. Most : \E w : VisitOf(c, m, w)}
           T == (0 .. Most) \ G
<1>0. Most \in 0 .. 255
  BY BlocksAreFew
<1>1. SUFFICES ASSUME T # {} PROVE FALSE
  BY <1>0
<1>2. PICK k \in T : \A j \in T : k <= j
  <2>1. T \in SUBSET Nat
    OBVIOUS
  <2> HIDE DEF T
  <2> QED
    BY <1>1, <2>1, Least
<1>3. CASE k = 0
  <2> DEFINE w == [i \in 0 .. k |-> [b \in Known(c) |-> {b}]]
  <2>1. VisitOf(c, k, w)
    BY <1>3 DEF VisitOf
  <2> QED
    BY <2>1, <1>3
<1>4. CASE k # 0
  <2>1. k \in 1 .. Most /\ k - 1 \in 0 .. Most /\ k \in Nat /\ k \in 0 .. Most
    BY <1>0, <1>4
  <2>2. k - 1 \in G
    <3> HIDE DEF G
    <3> QED
      BY <1>2, <2>1, <1>0
  <2>3. PICK w : VisitOf(c, k - 1, w)
    BY <2>2
  <2>4. w = [i \in 0 .. k - 1 |-> [b \in Known(c) |-> Visit(c, i, b, w)]]
    BY <2>1, <2>3, VisitIs
  <2> DEFINE v == [i \in 0 .. k |-> [b \in Known(c) |-> Visit(c, i, b, w)]]
  <2>5. ASSUME NEW i \in 0 .. k - 1, NEW b \in Known(c) PROVE v[i][b] = w[i][b]
    <3>1. w[i][b] = Visit(c, i, b, w)
      <4> HIDE DEF v
      <4>1. w[i] = [d \in Known(c) |-> Visit(c, i, d, w)]
        BY <2>4, <2>1
      <4> QED
        BY <4>1
    <3> QED
      BY <3>1, <2>1
  <2>6. ASSUME NEW i \in 0 .. k, NEW b \in Known(c)
        PROVE  v[i][b] = Visit(c, i, b, v)
    <3>0. v[i][b] = Visit(c, i, b, w)
      OBVIOUS
    <3> HIDE DEF v
    <3>1. CASE i = 0
      BY <3>0, <3>1 DEF Visit
    <3>2. CASE i # 0
      <4>1. i \in 1 .. k
        BY <3>2, <2>1
      <4>2. CASE i % 2 = 0
        <5>1. i - 2 \in 0 .. k - 1
          BY <4>1, <4>2, <2>1
        <5>2. v[i - 2][PtrAt(c, b, 1)] = w[i - 2][PtrAt(c, b, 1)]
          BY <5>1, <2>5, PtrIsKnown
        <5> QED
          BY <3>0, <4>2, <5>2 DEF Visit
      <4>3. CASE i % 2 # 0
        <5>1. i - 1 \in 0 .. k - 1
          BY <4>1, <4>3, <2>1
        <5>2. v[i - 1][PtrAt(c, b, 0)] = w[i - 1][PtrAt(c, b, 0)]
          BY <5>1, <2>5, PtrIsKnown
        <5> QED
          BY <3>0, <4>3, <5>2 DEF Visit
      <4> QED
        BY <4>2, <4>3
    <3> QED
      BY <3>1, <3>2
  <2>7. v = [i \in 0 .. k |-> [b \in Known(c) |-> Visit(c, i, b, v)]]
    BY <2>6
  <2>8. VisitOf(c, k, v)
    <3> HIDE DEF v
    <3> QED
      BY <2>7, <2>1, VisitIs
  <2> QED
    BY <2>8, <2>1
<1> QED
  BY <1>3, <1>4

LEMMA FindIs ==
  ASSUME NEW c, NEW h, NEW size, NEW pos \in 0 .. FileMax
  PROVE  \E w : /\ WalkOf(c, Index[pos].i, Most, w)
                /\ size # 0 => lfs_ctz_find(c, h, size, pos)
                     = [block |-> w[Index[size - 1].i][h], off |-> Index[pos].off]
<1> DEFINE w == CHOOSE w : WalkOf(c, Index[pos].i, Most, w)
<1>1. Index[pos].i \in Nat
  BY BlocksAreFew
<1>2. WalkOf(c, Index[pos].i, Most, w)
  BY <1>1, WalkExists
<1>3. size # 0 => lfs_ctz_find(c, h, size, pos)
        = [block |-> w[Index[size - 1].i][h], off |-> Index[pos].off]
  BY Zenon DEF lfs_ctz_find, WalkOf, Known, Most
<1> QED
  BY <1>2, <1>3

LEMMA FindNothing ==
  ASSUME NEW c, NEW h, NEW pos
  PROVE  lfs_ctz_find(c, h, 0, pos) = [block |-> NotABlock, off |-> 0]
BY DEF lfs_ctz_find

LEMMA TraverseIs ==
  ASSUME NEW c, NEW h, NEW size
  PROVE  \E w : /\ VisitOf(c, Most, w)
                /\ size # 0 => lfs_ctz_traverse(c, h, size) = w[Index[size - 1].i][h]
<1> DEFINE w == CHOOSE w : VisitOf(c, Most, w)
<1>1. VisitOf(c, Most, w)
  BY VisitExists
<1>2. size # 0 => lfs_ctz_traverse(c, h, size) = w[Index[size - 1].i][h]
  BY DEF lfs_ctz_traverse, VisitOf, Known, Most
<1> QED
  BY <1>1, <1>2

LEMMA TraverseNothing ==
  ASSUME NEW c, NEW h
  PROVE  lfs_ctz_traverse(c, h, 0) = {}
BY DEF lfs_ctz_traverse

-----------------------------------------------------------------------------
(***************************************************************************)
(* Lists.                                                                  *)
(***************************************************************************)

\* In c, the block h is the last of the blocks L[0] .. L[n] of a list: each has
\* the pointers of its number, and one of an odd number no more than the one.
Links(c, n, L) ==
  /\ \A i \in 1 .. n : \A j \in 0 .. lfs_ctz(i) : PtrAt(c, L[i], j) = L[i - Bit(j)]
  /\ \A i \in 2 .. n : i % 2 = 1 => \A j \in 1 .. lfs_ctz(i - 1) : PtrAt(c, L[i], j) = NotABlock

OnList(c, n, h, L) ==
  n \in 0 .. Most /\ L \in [0 .. n -> DOMAIN c \ {NotABlock}] /\ L[n] = h /\ Links(c, n, L)

Last(size) == Index[size - 1].i

LEMMA LastTyped ==
  ASSUME NEW size \in 1 .. FileMax
  PROVE  Last(size) \in 0 .. Most /\ size - 1 \in 0 .. FileMax
         /\ \A p \in 0 .. size - 1 : p \in 0 .. FileMax /\ Index[p].i \in 0 .. Last(size)
<1>1. size - 1 \in 0 .. FileMax
  BY Constants
<1>2. Last(size) \in 0 .. Most /\ Last(size) \in Nat /\ \A p \in 0 .. size - 1 : Index[p].i <= Last(size)
  BY <1>1, BlocksAreFew, BlockGrows DEF Last
<1>3. \A p \in 0 .. size - 1 : p \in 0 .. FileMax /\ Index[p].i \in 0 .. Most
  BY <1>1, BlocksAreFew, Constants
<1> QED
  BY <1>1, <1>2, <1>3, BlocksAreFew

\* On a list of blocks with the right pointers lfs_ctz_find arrives at the block
\* of the position, by whichever pointers it jumps.
THEOREM FindOnList ==
  ASSUME NEW c, NEW h, NEW L, NEW size \in 1 .. FileMax, NEW pos \in 0 .. FileMax,
         OnList(c, Last(size), h, L), Index[pos].i <= Last(size)
  PROVE  lfs_ctz_find(c, h, size, pos) = [block |-> L[Index[pos].i], off |-> Index[pos].off]
<1> PICK n, to : n = Last(size) /\ to = Index[pos].i
  OBVIOUS
<1>0. n \in 0 .. Most /\ to \in 0 .. n /\ Most \in 0 .. 255
  BY LastTyped, BlocksAreFew
<1>1. L \in [0 .. n -> DOMAIN c] /\ L[n] = h /\ Links(c, n, L)
  BY DEF OnList
<1>2. PICK w : /\ WalkOf(c, to, Most, w)
               /\ size # 0 => lfs_ctz_find(c, h, size, pos)
                    = [block |-> w[Index[size - 1].i][h], off |-> Index[pos].off]
  BY FindIs
<1> DEFINE G == {i \in to .. n : w[i][L[i]] = L[to]}
           T == (to .. n) \ G
<1>3. T = {}
  <2>1. SUFFICES ASSUME T # {} PROVE FALSE
    OBVIOUS
  <2>2. PICK k \in T : \A j \in T : k <= j
    <3>1. T \in SUBSET Nat
      BY <1>0
    <3> HIDE DEF T
    <3> QED
      BY Zenon, <2>1, <3>1, Least
  <2>3. k \in to .. n /\ k \in 0 .. Most /\ L[k] \in Known(c)
    <3>1. k \in to .. n /\ k \in 0 .. Most /\ k \in 0 .. n
      <4> HIDE DEF G
      <4> QED
        BY <1>0
    <3> QED
      BY <3>1, <1>1 DEF Known
  <2>4. w[k] = [b \in Known(c) |->
           IF k <= to THEN b ELSE w[k - Bit(Leaps[k][to])][PtrAt(c, b, Leaps[k][to])]]
    BY Zenon, <1>2, <2>3 DEF WalkOf
  <2>5. w[k][L[k]] = IF k <= to THEN L[k] ELSE w[k - Bit(Leaps[k][to])][PtrAt(c, L[k], Leaps[k][to])]
    BY <2>3, <2>4
  <2>6. CASE k = to
    BY <2>5, <2>6, <1>0
  <2>7. CASE k > to
    <3>1. k \in 1 .. Most /\ to \in Nat
      BY <2>3, <2>7, <1>0
    <3> PICK l, a : l = Leaps[k][to] /\ a = k - Bit(l)
      OBVIOUS
    <3>2. l \in 0 .. lfs_ctz(k) /\ a \in to .. k - 1
      BY <3>1, <2>7, LeapsFit
    <3>3. PtrAt(c, L[k], l) = L[a]
      BY <1>1, <2>3, <3>1, <3>2 DEF Links
    <3>4. w[a][L[a]] = L[to]
      <4>1. a \in G
        <5> HIDE DEF G
        <5> QED
          BY <2>2, <2>3, <3>2, <1>0
      <4> QED
        BY <4>1
    <3>5. w[k][L[k]] = L[to]
      BY ONLY <2>5, <2>7, <3>1, <3>3, <3>4, l = Leaps[k][to], a = k - Bit(l)
    <3> QED
      BY <3>5, <2>3
  <2> QED
    BY <2>3, <2>6, <2>7, <1>0
<1>4. w[n][L[n]] = L[to]
  <2>1. n \in G
    <3> HIDE DEF G
    <3> QED
      BY <1>0, <1>3
  <2> QED
    BY <2>1
<1>5. Index[size - 1].i = n /\ size # 0
  BY DEF Last
<1> QED
  BY <1>1, <1>2, <1>4, <1>5

\* On such a list lfs_ctz_traverse reports the blocks of the list, all of them and
\* no others.
THEOREM TraverseOnList ==
  ASSUME NEW c, NEW h, NEW L, NEW size \in 1 .. FileMax, OnList(c, Last(size), h, L)
  PROVE  lfs_ctz_traverse(c, h, size) = {L[i] : i \in 0 .. Last(size)}
<1> PICK n : n = Last(size)
  OBVIOUS
<1>0. n \in 0 .. Most /\ Most \in 0 .. 255
  BY LastTyped, BlocksAreFew
<1>1. L \in [0 .. n -> DOMAIN c \ {NotABlock}] /\ L[n] = h /\ Links(c, n, L)
  BY DEF OnList
<1>2. PICK w : /\ VisitOf(c, Most, w)
               /\ size # 0 => lfs_ctz_traverse(c, h, size) = w[Index[size - 1].i][h]
  BY TraverseIs
<1> DEFINE G == {i \in 0 .. n : w[i][L[i]] = {L[j] : j \in 0 .. i}}
           T == (0 .. n) \ G
<1>3. T = {}
  <2>1. SUFFICES ASSUME T # {} PROVE FALSE
    OBVIOUS
  <2>2. PICK k \in T : \A j \in T : k <= j
    <3>1. T \in SUBSET Nat
      BY <1>0
    <3> HIDE DEF T
    <3> QED
      BY <2>1, <3>1, Least
  <2>3. k \in 0 .. n /\ k \in 0 .. Most /\ L[k] \in Known(c) /\ L[k] # NotABlock
    BY <1>0, <1>1 DEF Known
  <2>4. w[k] = [b \in Known(c) |-> Visit(c, k, b, w)]
    <3>1. w = [i \in 0 .. Most |-> [b \in Known(c) |-> Visit(c, i, b, w)]]
      BY <1>2, VisitIs
    <3> QED
      BY <3>1, <2>3
  <2>5. w[k][L[k]] = Visit(c, k, L[k], w)
    BY <2>3, <2>4
  <2>6. CASE k = 0
    <3>1. w[k][L[k]] = {L[0]}
      BY <2>5, <2>6 DEF Visit
    <3>2. {L[j] : j \in 0 .. k} = {L[0]}
      BY <2>6
    <3> QED
      BY <3>1, <3>2, <2>3
  <2>7. CASE k # 0 /\ k % 2 = 0
    <3>1. k \in 1 .. 255 /\ k - 2 \in 0 .. n /\ k - 2 < k /\ k \in 1 .. n
      BY <2>3, <2>7, <1>0
    <3>2. 0 \in 0 .. lfs_ctz(k) /\ 1 \in 0 .. lfs_ctz(k)
      BY <3>1, <2>7, EvenSkips
    <3>3. PtrAt(c, L[k], 0) = L[k - 1] /\ PtrAt(c, L[k], 1) = L[k - 2]
      <4>1. Bit(0) = 1 /\ Bit(1) = 2
        BY Bits
      <4>2. \A j \in 0 .. lfs_ctz(k) : PtrAt(c, L[k], j) = L[k - Bit(j)]
        BY <1>1, <3>1 DEF Links
      <4> QED
        BY <3>2, <4>1, <4>2
    <3>4. w[k - 2][L[k - 2]] = {L[j] : j \in 0 .. k - 2}
      <4>1. k - 2 \in G
        <5> HIDE DEF G
        <5> QED
          BY <2>2, <3>1, <1>0
      <4> QED
        BY <4>1
    <3>5. w[k][L[k]] = {L[k], L[k - 1]} \cup {L[j] : j \in 0 .. k - 2}
      BY <2>3, <2>5, <2>7, <3>3, <3>4 DEF Visit
    <3>6. \A j : j \in 0 .. k <=> j = k \/ j = k - 1 \/ j \in 0 .. k - 2
      BY <3>1
    <3>7. w[k][L[k]] = {L[j] : j \in 0 .. k}
      BY <3>5, <3>6
    <3> QED
      BY <3>7, <2>3
  <2>8. CASE k # 0 /\ k % 2 # 0
    <3>1. k \in 1 .. 255 /\ k - 1 \in 0 .. n /\ k - 1 < k /\ k \in 1 .. n
      BY <2>3, <2>8, <1>0
    <3>2. 0 \in 0 .. lfs_ctz(k)
      BY <3>1, CtzIs
    <3>3. PtrAt(c, L[k], 0) = L[k - 1]
      BY <1>1, <3>1, <3>2, Bits DEF Links
    <3>4. w[k - 1][L[k - 1]] = {L[j] : j \in 0 .. k - 1}
      <4>1. k - 1 \in G
        <5> HIDE DEF G
        <5> QED
          BY <2>2, <3>1, <1>0
      <4> QED
        BY <4>1
    <3>5. w[k][L[k]] = {L[k]} \cup {L[j] : j \in 0 .. k - 1}
      BY <2>3, <2>5, <2>8, <3>3, <3>4 DEF Visit
    <3>6. \A j : j \in 0 .. k <=> j = k \/ j \in 0 .. k - 1
      BY <3>1
    <3>7. w[k][L[k]] = {L[j] : j \in 0 .. k}
      BY <3>5, <3>6
    <3> QED
      BY <3>7, <2>3
  <2> QED
    BY <2>6, <2>7, <2>8
<1>4. w[n][L[n]] = {L[j] : j \in 0 .. n}
  <2>1. n \in G
    <3> HIDE DEF G
    <3> QED
      BY <1>0, <1>3
  <2> QED
    BY <2>1
<1>5. Index[size - 1].i = n /\ size # 0
  BY DEF Last
<1> QED
  BY <1>1, <1>2, <1>4, <1>5

\* A list that is walked as if it were one block shorter: the traversal meets a
\* block that has no second pointer, unless there are too few.
LEMMA TraverseSkewed ==
  ASSUME NEW c, NEW h, NEW L, NEW size \in 1 .. FileMax, OnList(c, Last(size) + 1, h, L),
         NotABlock \notin DOMAIN c
  PROVE  IF Last(size) >= 2 THEN NotABlock \in lfs_ctz_traverse(c, h, size)
         ELSE lfs_ctz_traverse(c, h, size) = {L[i] : i \in 1 .. Last(size) + 1}
<1> PICK n : n = Last(size)
  OBVIOUS
<1>0. n \in 0 .. Most /\ Most \in 0 .. 255 /\ n + 1 \in 0 .. Most
  BY LastTyped, BlocksAreFew DEF OnList
<1>1. L \in [0 .. n + 1 -> DOMAIN c \ {NotABlock}] /\ L[n + 1] = h /\ Links(c, n + 1, L)
  BY DEF OnList
<1>2. PICK w : /\ VisitOf(c, Most, w)
               /\ size # 0 => lfs_ctz_traverse(c, h, size) = w[Index[size - 1].i][h]
  BY TraverseIs
<1>3. w = [i \in 0 .. Most |-> [b \in Known(c) |-> Visit(c, i, b, w)]]
  BY <1>2, VisitIs
<1>4. ASSUME NEW i \in 0 .. Most, NEW b \in Known(c)
      PROVE  w[i][b] = Visit(c, i, b, w)
  <2>1. w[i] = [d \in Known(c) |-> Visit(c, i, d, w)]
    BY <1>3
  <2> QED
    BY <2>1
<1>5. \A i \in 0 .. n + 1 : L[i] \in Known(c) /\ L[i] # NotABlock
  BY <1>1 DEF Known
<1>6. lfs_ctz_traverse(c, h, size) = w[n][L[n + 1]]
  BY <1>1, <1>2 DEF Last
<1>7. \A i \in 1 .. n + 1 : PtrAt(c, L[i], 0) = L[i - 1]
  <2>1. ASSUME NEW i \in 1 .. n + 1 PROVE PtrAt(c, L[i], 0) = L[i - 1]
    <3>1. i \in 1 .. 255
      BY <1>0
    <3>2. 0 \in 0 .. lfs_ctz(i)
      BY <3>1, CtzIs
    <3> QED
      BY <1>1, <3>2, Bits DEF Links
  <2> QED
    BY <2>1
<1>8. \A i \in 2 .. n + 1 : i % 2 = 1 => PtrAt(c, L[i], 1) = NotABlock
  <2> SUFFICES ASSUME NEW i \in 2 .. n + 1, i % 2 = 1 PROVE 1 \in 1 .. lfs_ctz(i - 1)
    BY <1>1 DEF Links
  <2> PICK k : k = i - 1
    OBVIOUS
  <2>1. k \in 1 .. 255 /\ k % 2 = 0
    BY <1>0
  <2> QED
    BY <2>1, EvenSkips
<1>9. \A i \in 0 .. Most : NotABlock \in w[i][NotABlock]
  <2>1. NotABlock \in Known(c)
    BY DEF Known
  <2> QED
    BY <1>4, <2>1 DEF Visit
<1>10. CASE n = 0
  <2>0. 0 \in 0 .. Most /\ 1 \in 0 .. n + 1 /\ L[1] \in Known(c)
    BY <1>0, <1>5, <1>10
  <2>1. w[0][L[1]] = {L[1]}
    BY <1>4, <2>0 DEF Visit
  <2>2. {L[i] : i \in 1 .. n + 1} = {L[1]}
    BY <1>10
  <2> QED
    BY <2>1, <2>2, <1>6, <1>10
<1>11. CASE n = 1
  <2>0. /\ 0 \in 0 .. Most /\ 1 \in 0 .. Most /\ 1 \in 0 .. n + 1 /\ 2 \in 0 .. n + 1 /\ 2 \in 1 .. n + 1
        /\ 1 # 0 /\ 1 % 2 # 0 /\ 1 - 1 = 0 /\ 2 - 1 = 1
    BY <1>0, <1>11
  <2>1. w[1][L[2]] = {L[2]} \cup w[0][L[1]]
    <3>1. w[1][L[2]] = Visit(c, 1, L[2], w)
      BY <1>4, <1>5, <2>0
    <3>2. PtrAt(c, L[2], 0) = L[1] /\ L[2] # NotABlock
      BY <1>5, <1>7, <2>0
    <3> QED
      BY <3>1, <3>2, <2>0 DEF Visit
  <2>2. w[0][L[1]] = {L[1]}
    BY <1>4, <1>5, <2>0 DEF Visit
  <2>3. {L[i] : i \in 1 .. n + 1} = {L[1], L[2]}
    <3>1. \A i : i \in 1 .. 2 <=> i = 1 \/ i = 2
      OBVIOUS
    <3> QED
      BY <3>1, <1>11
  <2> QED
    BY <2>1, <2>2, <2>3, <1>6, <1>11
<1>12. CASE n >= 2 /\ n % 2 = 0
  <2>1. n + 1 \in 2 .. n + 1 /\ (n + 1) % 2 = 1 /\ n - 2 \in 0 .. Most /\ n \in 0 .. Most /\ n + 1 \in 0 .. n + 1
    BY <1>0, <1>12
  <2>2. PtrAt(c, L[n + 1], 1) = NotABlock
    BY <1>8, <2>1
  <2>3. w[n][L[n + 1]] = {L[n + 1], PtrAt(c, L[n + 1], 0)} \cup w[n - 2][NotABlock]
    <3> PICK b : b = L[n + 1]
      OBVIOUS
    <3>1. b \in Known(c) /\ b # NotABlock /\ n # 0 /\ n % 2 = 0 /\ PtrAt(c, b, 1) = NotABlock
      BY <1>5, <1>12, <2>1, <2>2
    <3>2. w[n][b] = {b, PtrAt(c, b, 0)} \cup w[n - 2][PtrAt(c, b, 1)]
      BY <1>4, <2>1, <3>1 DEF Visit
    <3> QED
      BY <3>1, <3>2
  <2> QED
    BY <2>1, <2>3, <1>6, <1>9, <1>12
<1>13. CASE n >= 2 /\ n % 2 # 0
  <2>1. /\ n >= 3 /\ n \in 2 .. n + 1 /\ n % 2 = 1 /\ n - 1 \in 0 .. Most /\ n - 3 \in 0 .. Most
        /\ n \in 0 .. Most /\ n \in 0 .. n + 1 /\ n + 1 \in 0 .. n + 1 /\ n + 1 \in 1 .. n + 1
        /\ (n + 1) - 1 = n /\ (n - 1) - 2 = n - 3 /\ (n - 1) % 2 = 0
    BY <1>0, <1>13
  <2>2. PtrAt(c, L[n], 1) = NotABlock
    BY <1>8, <2>1
  <2>3. w[n][L[n + 1]] = {L[n + 1]} \cup w[n - 1][L[n]]
    <3> PICK b : b = L[n + 1]
      OBVIOUS
    <3>1. b \in Known(c) /\ b # NotABlock /\ n # 0 /\ n % 2 # 0 /\ PtrAt(c, b, 0) = L[n]
      <4>1. b \in Known(c) /\ b # NotABlock /\ n # 0 /\ n % 2 # 0
        BY <1>0, <1>5, <1>13, <2>1
      <4>2. PtrAt(c, L[n + 1], 0) = L[(n + 1) - 1]
        BY ONLY <1>7, <2>1
      <4> QED
        BY <4>1, <4>2, <2>1
    <3>2. w[n][b] = {b} \cup w[n - 1][PtrAt(c, b, 0)]
      BY <1>4, <2>1, <3>1 DEF Visit
    <3> QED
      BY <3>1, <3>2
  <2>4. w[n - 1][L[n]] = {L[n], PtrAt(c, L[n], 0)} \cup w[n - 3][NotABlock]
    <3> PICK a, b : a = n - 1 /\ b = L[n]
      OBVIOUS
    <3>1. a \in 0 .. Most /\ b \in Known(c) /\ b # NotABlock /\ a # 0 /\ a % 2 = 0 /\ a - 2 = n - 3
      <4>1. a \in 0 .. Most /\ a % 2 = 0 /\ a - 2 = n - 3
        BY ONLY <2>1, a = n - 1
      <4>2. a # 0
        BY ONLY <2>1, <1>0, a = n - 1
      <4>3. b \in Known(c) /\ b # NotABlock
        BY <1>5, <2>1
      <4> QED
        BY <4>1, <4>2, <4>3
    <3>2. PtrAt(c, b, 1) = NotABlock
      BY <2>2
    <3>3. w[a][b] = {b, PtrAt(c, b, 0)} \cup w[a - 2][PtrAt(c, b, 1)]
      BY <1>4, <3>1 DEF Visit
    <3> QED
      BY <3>1, <3>2, <3>3
  <2>5. NotABlock \in w[n - 1][L[n]]
    BY <2>1, <2>4, <1>9
  <2>6. NotABlock \in lfs_ctz_traverse(c, h, size)
    BY <2>3, <2>5, <1>6
  <2> QED
    BY <2>6, <1>13
<1> QED
  BY <1>0, <1>10, <1>11, <1>12, <1>13

\* What is found and reported are blocks, or none.
LEMMA FindTyped ==
  ASSUME NEW c, NEW h \in Known(c), NEW size \in 0 .. FileMax, NEW pos \in 0 .. FileMax
  PROVE  /\ lfs_ctz_find(c, h, size, pos).block \in Known(c)
         /\ lfs_ctz_find(c, h, size, pos).off \in 0 .. BlockSize - 1
<1> PICK to : to = Index[pos].i
  OBVIOUS
<1>0. to \in 0 .. Most /\ Most \in 0 .. 255
  BY BlocksAreFew
<1>1. PICK w : /\ WalkOf(c, to, Most, w)
               /\ size # 0 => lfs_ctz_find(c, h, size, pos)
                    = [block |-> w[Index[size - 1].i][h], off |-> Index[pos].off]
  BY FindIs
<1> DEFINE G == {i \in 0 .. Most : \A b \in Known(c) : w[i][b] \in Known(c)}
           T == (0 .. Most) \ G
<1>2. T = {}
  <2>1. SUFFICES ASSUME T # {} PROVE FALSE
    OBVIOUS
  <2>2. PICK k \in T : \A j \in T : k <= j
    <3>1. T \in SUBSET Nat
      BY <1>0
    <3> HIDE DEF T
    <3> QED
      BY <2>1, <3>1, Least
  <2>3. k \in 0 .. Most
    OBVIOUS
  <2>4. ASSUME NEW b \in Known(c) PROVE w[k][b] \in Known(c)
    <3>1. w[k] = [d \in Known(c) |->
             IF k <= to THEN d ELSE w[k - Bit(Leaps[k][to])][PtrAt(c, d, Leaps[k][to])]]
      BY Zenon, <1>1, <2>3 DEF WalkOf
    <3>2. w[k][b] = IF k <= to THEN b ELSE w[k - Bit(Leaps[k][to])][PtrAt(c, b, Leaps[k][to])]
      BY <3>1
    <3>3. CASE k > to
      <4> PICK l, a : l = Leaps[k][to] /\ a = k - Bit(l)
        OBVIOUS
      <4>1. k \in 1 .. Most /\ to \in Nat
        BY <2>3, <3>3, <1>0
      <4>2. a \in to .. k - 1
        BY <4>1, <3>3, LeapsFit
      <4>3. a \in G
        <5>1. a \in 0 .. Most /\ a < k
          BY <4>1, <4>2, <1>0
        <5> HIDE DEF G
        <5> QED
          BY <2>2, <5>1, <4>1
      <4>4. w[a][PtrAt(c, b, l)] \in Known(c)
        BY <4>3, PtrIsKnown
      <4> QED
        BY ONLY <3>2, <3>3, <4>1, <4>4, l = Leaps[k][to], a = k - Bit(l), <1>0
    <3> QED
      BY <3>2, <3>3, <2>3, <1>0
  <2>5. k \in G
    BY <2>3, <2>4
  <2> QED
    <3> HIDE DEF G
    <3> QED
      BY <2>5
<1>3. ASSUME size # 0 PROVE w[Index[size - 1].i][h] \in Known(c)
  <2>1. Index[size - 1].i \in 0 .. Most
    BY <1>3, LastTyped DEF Last
  <2>2. Index[size - 1].i \in G
    <3> HIDE DEF G
    <3> QED
      BY <2>1, <1>2
  <2> QED
    BY <2>2
<1>4. Index[pos].off \in 0 .. BlockSize - 1
  BY PlaceTyped, SkipsTyped, Constants
<1>5. CASE size = 0
  BY <1>5, FindNothing, Constants DEF Known
<1>6. CASE size # 0
  BY <1>1, <1>3, <1>4, <1>6
<1> QED
  BY <1>5, <1>6

LEMMA TraverseTyped ==
  ASSUME NEW c, NEW h \in Known(c), NEW size \in 0 .. FileMax
  PROVE  lfs_ctz_traverse(c, h, size) \subseteq Known(c)
<1>0. Most \in 0 .. 255
  BY BlocksAreFew
<1>1. PICK w : /\ VisitOf(c, Most, w)
               /\ size # 0 => lfs_ctz_traverse(c, h, size) = w[Index[size - 1].i][h]
  BY TraverseIs
<1> DEFINE G == {i \in 0 .. Most : \A b \in Known(c) : w[i][b] \subseteq Known(c)}
           T == (0 .. Most) \ G
<1>2. T = {}
  <2>1. SUFFICES ASSUME T # {} PROVE FALSE
    OBVIOUS
  <2>2. PICK k \in T : \A j \in T : k <= j
    <3>1. T \in SUBSET Nat
      BY <1>0
    <3> HIDE DEF T
    <3> QED
      BY <2>1, <3>1, Least
  <2>3. k \in 0 .. Most /\ k \in Nat
    BY <1>0
  <2>4. ASSUME NEW i \in 0 .. k - 1 PROVE \A d \in Known(c) : w[i][d] \subseteq Known(c)
    <3>1. i \in G
      <4> HIDE DEF G
      <4> QED
        BY <2>2, <2>3, <1>0
    <3> QED
      BY <3>1
  <2>5. ASSUME NEW b \in Known(c) PROVE w[k][b] \subseteq Known(c)
    <3>1. w[k] = [d \in Known(c) |-> Visit(c, k, d, w)]
      <4>1. w = [i \in 0 .. Most |-> [d \in Known(c) |-> Visit(c, i, d, w)]]
        BY <1>1, VisitIs
      <4> QED
        BY <4>1, <2>3
    <3>2. w[k][b] = Visit(c, k, b, w)
      BY <3>1
    <3>3. CASE k = 0 \/ b = NotABlock
      BY <3>2, <3>3 DEF Visit
    <3>4. CASE k # 0 /\ b # NotABlock /\ k % 2 = 0
      <4>1. k - 2 \in 0 .. k - 1
        BY <2>3, <3>4
      <4>2. w[k - 2][PtrAt(c, b, 1)] \subseteq Known(c)
        BY <4>1, <2>4, PtrIsKnown
      <4> QED
        BY <3>2, <3>4, <4>2, PtrIsKnown DEF Visit
    <3>5. CASE k # 0 /\ b # NotABlock /\ k % 2 # 0
      <4>1. k - 1 \in 0 .. k - 1
        BY <2>3, <3>5
      <4>2. w[k - 1][PtrAt(c, b, 0)] \subseteq Known(c)
        BY <4>1, <2>4, PtrIsKnown
      <4> QED
        BY <3>2, <3>5, <4>2, PtrIsKnown DEF Visit
    <3> QED
      BY <3>3, <3>4, <3>5
  <2>6. k \in G
    BY <2>3, <2>5
  <2> QED
    <3> HIDE DEF G
    <3> QED
      BY <2>6
<1>3. CASE size # 0
  <2>1. Index[size - 1].i \in 0 .. Most
    BY <1>3, LastTyped DEF Last
  <2>2. Index[size - 1].i \in G
    <3> HIDE DEF G
    <3> QED
      BY <2>1, <1>2
  <2> QED
    BY <2>2, <1>1, <1>3
<1>4. CASE size = 0
  BY <1>4, TraverseNothing
<1> QED
  BY <1>3, <1>4

-----------------------------------------------------------------------------
(***************************************************************************)
(* What makes another list of a list.                                      *)
(***************************************************************************)
\* Block i of a list has its pointers within the first eight cells.
LEMMA SkipBound ==
  ASSUME NEW n \in 0 .. Most, NEW i \in 1 .. n
  PROVE  i \in 1 .. 255 /\ lfs_ctz(i) \in 0 .. 7 /\ \A j \in 0 .. lfs_ctz(i) : j \in 0 .. 7 /\ i - Bit(j) \in 0 .. i - 1
<1>1. i \in 1 .. 255
  BY BlocksAreFew
<1>2. lfs_ctz(i) \in 0 .. 7
  BY <1>1, CtzIs
<1>3. ASSUME NEW j \in 0 .. lfs_ctz(i) PROVE j \in 0 .. 7 /\ i - Bit(j) \in 0 .. i - 1
  <2>1. j \in 0 .. 7 /\ Bit(j) \in 1 .. i
    BY <1>1, BitFits
  <2> PICK b : b = Bit(j)
    OBVIOUS
  <2> QED
    BY <2>1, <1>1
<1> QED
  BY <1>1, <1>2, <1>3

\* A list stays one while the pointers of its blocks do; those of block 0 do not
\* count.
LEMMA SameList ==
  ASSUME NEW c, NEW d, NEW n, NEW h, NEW L, OnList(c, n, h, L), DOMAIN d = DOMAIN c,
         \A i \in 1 .. n : \A j \in 0 .. lfs_ctz(i) : PtrAt(d, L[i], j) = PtrAt(c, L[i], j),
         \A i \in 2 .. n : i % 2 = 1 => \A j \in 1 .. lfs_ctz(i - 1) :
            PtrAt(d, L[i], j) \in {PtrAt(c, L[i], j), NotABlock}
  PROVE  OnList(d, n, h, L)
<1>1. ASSUME NEW i \in 1 .. n, NEW j \in 0 .. lfs_ctz(i) PROVE PtrAt(d, L[i], j) = L[i - Bit(j)]
  BY DEF OnList, Links
<1>2. ASSUME NEW i \in 2 .. n, i % 2 = 1, NEW j \in 1 .. lfs_ctz(i - 1) PROVE PtrAt(d, L[i], j) = NotABlock
  BY <1>2 DEF OnList, Links
<1>3. Links(d, n, L)
  BY <1>1, <1>2 DEF Links
<1> QED
  BY <1>3 DEF OnList

LEMMA SameCells ==
  ASSUME NEW c, NEW d, NEW n, NEW h, NEW L, OnList(c, n, h, L), DOMAIN d = DOMAIN c,
         \A i \in 1 .. n : d[L[i]] = c[L[i]]
  PROVE  OnList(d, n, h, L)
<1>1. \A i \in 1 .. n : \A j : PtrAt(d, L[i], j) = PtrAt(c, L[i], j)
  BY DEF PtrAt
<1>2. \A i \in 2 .. n : i \in 1 .. n
  OBVIOUS
<1> QED
  BY <1>1, <1>2, SameList

\* The first blocks of a list are a list.
LEMMA Shorter ==
  ASSUME NEW c, NEW n, NEW h, NEW L, OnList(c, n, h, L), NEW m \in 0 .. n
  PROVE  OnList(c, m, L[m], [i \in 0 .. m |-> L[i]])
<1> DEFINE K == [i \in 0 .. m |-> L[i]]
<1>1. n \in 0 .. Most /\ Most \in 0 .. 255 /\ m \in 0 .. Most /\ m \in 0 .. m
  BY BlocksAreFew DEF OnList
<1>2. K \in [0 .. m -> DOMAIN c \ {NotABlock}] /\ \A i \in 0 .. m : K[i] = L[i]
  BY <1>1 DEF OnList
<1> HIDE DEF K
<1>3. ASSUME NEW i \in 1 .. m, NEW j \in 0 .. lfs_ctz(i) PROVE PtrAt(c, K[i], j) = K[i - Bit(j)]
  <2>1. i \in 1 .. n /\ i \in 0 .. m
    BY <1>1
  <2>2. PtrAt(c, L[i], j) = L[i - Bit(j)]
    BY <2>1 DEF OnList, Links
  <2>3. i - Bit(j) \in 0 .. i - 1
    BY <1>1, SkipBound
  <2>4. i - Bit(j) \in 0 .. m
    BY <1>1, <2>3
  <2> QED
    BY <1>2, <2>1, <2>2, <2>4
<1>4. ASSUME NEW i \in 2 .. m, i % 2 = 1, NEW j \in 1 .. lfs_ctz(i - 1) PROVE PtrAt(c, K[i], j) = NotABlock
  <2>1. i \in 2 .. n /\ i \in 0 .. m
    BY <1>1
  <2> QED
    BY <1>2, <1>4, <2>1 DEF OnList, Links
<1>5. Links(c, m, K)
  BY <1>3, <1>4 DEF Links
<1> QED
  BY <1>1, <1>2, <1>5 DEF OnList, K

\* One block is a list.
LEMMA FirstOfList ==
  ASSUME NEW c, NEW b \in DOMAIN c \ {NotABlock}
  PROVE  OnList(c, 0, b, [i \in 0 .. 0 |-> b])
<1>1. 0 \in 0 .. Most /\ 1 .. 0 = {} /\ 2 .. 0 = {} /\ 0 \in 0 .. 0
  BY BlocksAreFew
<1> QED
  BY <1>1 DEF OnList, Links

Then(L, n, b) == [i \in 0 .. n |-> IF i = n THEN b ELSE L[i]]

\* lfs_ctz_extend: a block with the pointers of its number, and no more, is the
\* next one of a list.
LEMMA Longer ==
  ASSUME NEW c, NEW n, NEW h, NEW L, n \in 1 .. Most, OnList(c, n - 1, h, L),
         NEW b \in DOMAIN c \ {NotABlock},
         \A j \in 0 .. lfs_ctz(n) : PtrAt(c, b, j) = L[n - Bit(j)],
         n >= 2 /\ n % 2 = 1 => \A j \in 1 .. lfs_ctz(n - 1) : PtrAt(c, b, j) = NotABlock
  PROVE  OnList(c, n, b, Then(L, n, b))
<1> DEFINE K == Then(L, n, b)
<1>1. n \in 1 .. 255 /\ n \in 0 .. Most /\ Most \in 0 .. 255 /\ n \in 0 .. n
  BY BlocksAreFew
<1>2. L \in [0 .. n - 1 -> DOMAIN c \ {NotABlock}]
  BY DEF OnList
<1>3. K \in [0 .. n -> DOMAIN c \ {NotABlock}] /\ K[n] = b /\ \A i \in 0 .. n - 1 : K[i] = L[i]
  BY <1>1, <1>2 DEF Then
<1> HIDE DEF K
<1>4. ASSUME NEW i \in 1 .. n, NEW j \in 0 .. lfs_ctz(i) PROVE PtrAt(c, K[i], j) = K[i - Bit(j)]
  <2>1. i - Bit(j) \in 0 .. i - 1
    BY <1>1, SkipBound
  <2>2. i - Bit(j) \in 0 .. n - 1
    BY <1>1, <2>1
  <2>3. CASE i = n
    BY <2>2, <2>3, <1>3
  <2>4. CASE i # n
    <3>1. i \in 1 .. n - 1 /\ i \in 0 .. n - 1
      BY <1>1, <2>4
    <3>2. PtrAt(c, L[i], j) = L[i - Bit(j)]
      BY <3>1 DEF OnList, Links
    <3> QED
      BY <3>1, <3>2, <2>2, <1>3
  <2> QED
    BY <2>3, <2>4
<1>5. ASSUME NEW i \in 2 .. n, i % 2 = 1, NEW j \in 1 .. lfs_ctz(i - 1) PROVE PtrAt(c, K[i], j) = NotABlock
  <2>1. CASE i = n
    BY <2>1, <1>3, <1>5, <1>1
  <2>2. CASE i # n
    <3>1. i \in 2 .. n - 1 /\ i \in 0 .. n - 1
      BY <1>1, <2>2
    <3> QED
      BY <3>1, <1>3, <1>5 DEF OnList, Links
  <2> QED
    BY <2>1, <2>2
<1>6. Links(c, n, K)
  BY <1>4, <1>5 DEF Links
<1> QED
  BY <1>1, <1>3, <1>6 DEF OnList, K

\* What is left of a short list without its first block is a list.
LEMMA Shifted ==
  ASSUME NEW c, NEW n \in 0 .. 1, NEW h, NEW L, OnList(c, n + 1, h, L)
  PROVE  OnList(c, n, h, [i \in 0 .. n |-> L[i + 1]])
<1> DEFINE K == [i \in 0 .. n |-> L[i + 1]]
<1>1. n + 1 \in 0 .. Most /\ Most \in 0 .. 255 /\ n \in 0 .. Most /\ n \in 0 .. n
  BY BlocksAreFew DEF OnList
<1>2. \A i \in 0 .. n : i + 1 \in 0 .. n + 1
  OBVIOUS
<1>3. K \in [0 .. n -> DOMAIN c \ {NotABlock}] /\ K[n] = h /\ \A i \in 0 .. n : K[i] = L[i + 1]
  BY <1>1, <1>2 DEF OnList
<1> HIDE DEF K
<1>4. ASSUME NEW i \in 1 .. n, NEW j \in 0 .. lfs_ctz(i) PROVE PtrAt(c, K[i], j) = K[i - Bit(j)]
  <2>1. n = 1 /\ i = 1 /\ 1 \in 1 .. 255 /\ 2 \in 1 .. 255 /\ 1 % 2 = 1 /\ 2 \in 1 .. n + 1
    OBVIOUS
  <2>2. lfs_ctz(1) = 0 /\ 0 \in 0 .. lfs_ctz(2)
    BY <2>1, EvenSkips
  <2>3. j = 0
    BY <2>1, <2>2
  <2>4. PtrAt(c, L[2], 0) = L[2 - Bit(0)]
    BY <2>1, <2>2 DEF OnList, Links
  <2>5. Bit(0) = 1 /\ 0 \in 0 .. n /\ 1 \in 0 .. n
    BY <2>1, Bits
  <2>6. K[0] = L[1] /\ K[1] = L[2]
    BY <1>3, <2>5
  <2> QED
    BY <2>1, <2>3, <2>4, <2>5, <2>6
<1>5. 2 .. n = {}
  OBVIOUS
<1>6. Links(c, n, K)
  BY <1>4, <1>5 DEF Links
<1> QED
  BY <1>1, <1>3, <1>6 DEF OnList, K

LEMMA FindStops ==
  ASSUME NEW c, NEW to \in 0 .. Most, NEW w, WalkOf(c, to, Most, w), NotABlock \notin DOMAIN c
  PROVE  \A i \in 0 .. Most : w[i][NotABlock] = NotABlock
<1>0. Most \in 0 .. 255 /\ NotABlock \in Known(c)
  BY BlocksAreFew DEF Known
<1> DEFINE G == {i \in 0 .. Most : w[i][NotABlock] = NotABlock}
           T == (0 .. Most) \ G
<1>1. T = {}
  <2>1. SUFFICES ASSUME T # {} PROVE FALSE
    OBVIOUS
  <2>2. PICK k \in T : \A j \in T : k <= j
    <3>1. T \in SUBSET Nat
      BY <1>0
    <3> HIDE DEF T
    <3> QED
      BY <2>1, <3>1, Least
  <2>3. k \in 0 .. Most
    BY SMTT(30)
  <2>4. w[k] = [d \in Known(c) |->
           IF k <= to THEN d ELSE w[k - Bit(Leaps[k][to])][PtrAt(c, d, Leaps[k][to])]]
    BY <2>3 DEF WalkOf
  <2>5. w[k][NotABlock] = IF k <= to THEN NotABlock
                          ELSE w[k - Bit(Leaps[k][to])][PtrAt(c, NotABlock, Leaps[k][to])]
    BY <2>4, <1>0
  <2>6. PtrAt(c, NotABlock, Leaps[k][to]) = NotABlock
    BY DEF PtrAt
  <2>7. CASE k > to
    <3>1. k \in 1 .. Most /\ to \in Nat
      BY <2>3, <2>7, <1>0
    <3> PICK a : a = k - Bit(Leaps[k][to])
      OBVIOUS
    <3>2. a \in to .. k - 1
      BY <3>1, <2>7, LeapsFit
    <3>3. a \in G
      <4>1. a \in 0 .. Most /\ a < k
        BY <3>1, <3>2, <1>0
      <4> HIDE DEF G
      <4> QED
        BY <2>2, <4>1, <3>1
    <3>4. w[a][NotABlock] = NotABlock
      BY <3>3
    <3>5. ~(k <= to)
      BY ONLY <2>7, <3>1
    <3> QED
      BY <2>5, <2>6, <3>4, <3>5, <2>3
  <2>8. CASE ~(k > to)
    <3>1. k <= to
      BY <2>3, <2>8, <1>0
    <3> QED
      BY <2>5, <3>1, <2>3
  <2> QED
    BY <2>7, <2>8
<1> QED
  BY <1>1

\* A list that is searched as if it were one block shorter: what is found is the
\* block after the one looked for, or none.
LEMMA FindSkewed ==
  ASSUME NEW c, NEW h, NEW L, NEW size \in 1 .. FileMax, NEW pos \in 0 .. FileMax,
         OnList(c, Last(size) + 1, h, L), Index[pos].i <= Last(size), NotABlock \notin DOMAIN c
  PROVE  lfs_ctz_find(c, h, size, pos).block \in {L[Index[pos].i + 1], NotABlock}
<1> PICK n, to : n = Last(size) /\ to = Index[pos].i
  OBVIOUS
<1>0. /\ n \in 0 .. Most /\ to \in 0 .. n /\ Most \in 0 .. 255 /\ n + 1 \in 0 .. Most /\ to \in 0 .. Most
  BY LastTyped, BlocksAreFew DEF OnList
<1>1. L \in [0 .. n + 1 -> DOMAIN c \ {NotABlock}] /\ L[n + 1] = h /\ Links(c, n + 1, L)
  BY DEF OnList
<1>2. PICK w : /\ WalkOf(c, to, Most, w)
               /\ size # 0 => lfs_ctz_find(c, h, size, pos)
                    = [block |-> w[Index[size - 1].i][h], off |-> Index[pos].off]
  BY FindIs
<1>3. \A i \in 0 .. Most : w[i][NotABlock] = NotABlock
  BY <1>0, <1>2, FindStops
<1> DEFINE G == {i \in to .. n : w[i][L[i + 1]] \in {L[to + 1], NotABlock}}
           T == (to .. n) \ G
<1>4. T = {}
  <2>1. SUFFICES ASSUME T # {} PROVE FALSE
    OBVIOUS
  <2>2. PICK k \in T : \A j \in T : k <= j
    <3>1. T \in SUBSET Nat
      BY <1>0
    <3> HIDE DEF T
    <3> QED
      BY Zenon, <2>1, <3>1, Least
  <2>3. k \in to .. n /\ k \in 0 .. Most /\ L[k + 1] \in Known(c)
    <3>1. k \in to .. n /\ k \in 0 .. Most /\ k + 1 \in 0 .. n + 1
      <4> HIDE DEF G
      <4> QED
        BY <1>0
    <3> QED
      BY <3>1, <1>1 DEF Known
  <2>4. w[k] = [b \in Known(c) |->
           IF k <= to THEN b ELSE w[k - Bit(Leaps[k][to])][PtrAt(c, b, Leaps[k][to])]]
    BY Zenon, <1>2, <2>3 DEF WalkOf
  <2> PICK e : e = L[k + 1]
    BY SMTT(30)
  <2>5. w[k][e] = IF k <= to THEN e ELSE w[k - Bit(Leaps[k][to])][PtrAt(c, e, Leaps[k][to])]
    BY <2>3, <2>4
  <2>6. CASE k = to
    <3>1. k <= to
      BY <2>6, <1>0
    <3> QED
      BY <2>5, <2>6, <3>1, <2>3
  <2>7. CASE k # to
    <3>0. k > to
      BY ONLY <2>3, <2>7, <1>0
    <3>1. k \in 1 .. Most /\ to \in Nat /\ ~(k <= to) /\ k + 1 \in 1 .. n + 1 /\ k + 1 \in 2 .. n + 1
      BY ONLY <2>3, <3>0, <1>0
    <3> PICK l, a : l = Leaps[k][to] /\ a = k - Bit(l)
      OBVIOUS
    <3>2. l \in 0 .. lfs_ctz(k) /\ a \in to .. k - 1
      BY <3>0, <3>1, LeapsFit
    <3>3. w[k][e] = w[a][PtrAt(c, e, l)]
      BY <2>5, <3>1
    <3>4. PtrAt(c, e, l) \in {L[a + 1], NotABlock}
      <4> PICK i : i = k + 1
        OBVIOUS
      <4>1. i \in 1 .. 255 /\ k \in 1 .. 255 /\ i \in 1 .. n + 1 /\ i - 1 = k /\ i \in 2 .. n + 1
        BY ONLY <3>1, <1>0, i = k + 1
      <4>2. CASE l \in 0 .. lfs_ctz(i)
        <5>1. PtrAt(c, L[i], l) = L[i - Bit(l)]
          BY SMTT(30), <1>1, <4>1, <4>2 DEF Links
        <5>2. l \in 0 .. 7
          BY <4>1, <4>2, BitFits
        <5>3. PICK b : b = Bit(l)
          OBVIOUS
        <5>4. b \in Nat
          BY SMTT(30), <5>2, <5>3, BitTyped
        <5>5. i - b = (k - b) + 1
          BY ONLY <5>4, <4>1, i = k + 1
        <5> QED
          BY <5>1, <5>3, <5>5
      <4>3. CASE l \notin 0 .. lfs_ctz(i)
        <5>1. lfs_ctz(i) \in 0 .. 7 /\ lfs_ctz(k) \in 0 .. 7
          BY <4>1, CtzIs
        <5>2. l \in 1 .. lfs_ctz(k)
          BY <3>2, <4>3, <5>1
        <5>3. k % 2 # 1
          BY <4>1, <5>2, EvenSkips
        <5>4. i % 2 = 1
          BY ONLY <5>3, <4>1, i = k + 1
        <5>5. PtrAt(c, L[i], l) = NotABlock
          BY <1>1, <4>1, <5>2, <5>4 DEF Links
        <5> QED
          BY <5>5
      <4> QED
        BY <4>2, <4>3
    <3>5. w[a][L[a + 1]] \in {L[to + 1], NotABlock}
      <4>1. a \in G
        <5> HIDE DEF G
        <5> QED
          BY <2>2, <2>3, <3>1, <3>2, <1>0
      <4> QED
        BY <4>1
    <3>6. w[a][NotABlock] = NotABlock
      <4>1. a \in 0 .. Most
        BY ONLY <3>1, <3>2, <1>0
      <4> QED
        BY <1>3, <4>1
    <3>7. w[k][e] \in {L[to + 1], NotABlock}
      BY <3>3, <3>4, <3>5, <3>6
    <3> QED
      BY <3>7, <2>3
  <2> QED
    BY <2>6, <2>7
<1>5. w[n][L[n + 1]] \in {L[to + 1], NotABlock}
  <2>1. n \in G
    <3> HIDE DEF G
    <3> QED
      BY <1>0, <1>4
  <2> QED
    BY <2>1
<1>6. Index[size - 1].i = n /\ size # 0
  BY DEF Last
<1> QED
  BY <1>1, <1>2, <1>5, <1>6
=============================================================================
