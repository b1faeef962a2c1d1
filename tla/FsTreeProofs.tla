---------------------------- MODULE FsTreeProofs ----------------------------
(***************************************************************************)
(* The threaded list of metadata pairs and the global state agree, for any *)
(* number of directories, files, names and calls, and power losses between *)
(* any two commits.                                                        *)
(*                                                                         *)
(* In the first part pairs stay where they are (PairsStay): block_cycles   *)
(* is -1 and no block goes bad.  A commit that fails is the first of its   *)
(* call, and not that of a repair or a rename, which prepare a change of   *)
(* the global state that they do not take back.  The last part, on types   *)
(* and on what is counted, is about commits that move their pair and fail, *)
(* in any call.                                                            *)
(***************************************************************************)
EXTENDS FsTree, FiniteSetTheorems, WellFoundedInduction, TLAPS

\* No commit moves its pair, and what fails leaves no deltas in lfs_t.
PairsStay ==
  /\ MovesIn = {}
  /\ FailsIn \cap {"rename", "replace", "repair"} = {}
  /\ ~LaterFails

-----------------------------------------------------------------------------
(***************************************************************************)
(* The inductive invariant.                                                *)
(***************************************************************************)

\* Pairs that have not moved.
Firsts == {p \in Pairs : p[2] = 0}

\* The list is s[1], ..., s[n], without repetition.
IsList(s, n) ==
  /\ s \in [1 .. n -> Firsts]
  /\ s[1] = RootPair /\ disk[s[n]].tail = None
  /\ \A i \in 1 .. n - 1 : disk[s[i]].tail = s[i + 1]
  /\ \A i, j \in 1 .. n : s[i] = s[j] => i = j

Threaded == \E n \in Nat \ {0} : \E s \in [1 .. n -> Firsts] : IsList(s, n)

\* Entry n of pair a refers to pair d.
Entry(a, n, d) == disk[a].ents[n] = d /\ d \in Pairs

\* The directories that entries refer to are in the list, and each has one entry
\* that is not to be deleted.
Entered ==
  /\ \A a \in Listed, n \in Names : disk[a].ents[n] \in Pairs =>
       disk[a].ents[n] \in Listed \ {RootPair}
  /\ \A a, b \in Listed, n, k \in Names :
       /\ disk[a].ents[n] \in Pairs /\ disk[a].ents[n] = disk[b].ents[k]
       /\ ~Hidden(gdisk.move, a, n) /\ ~Hidden(gdisk.move, b, k)
       => a = b /\ n = k

Unreferred(p) == \A a \in Listed, n \in Names : disk[a].ents[n] # p

\* The global state in lfs_t is the sum of the deltas in the list; a new pair that is
\* not in the list yet may hold its change.
Summed ==
  /\ gdelta = {}
  /\ gstate.orphans \in 0 .. 1 /\ gdisk.orphans \in 0 .. 1
  /\ gstate.move = gdisk.move
  /\ gdisk.move # None => gdisk.move[1] \in Listed
  /\ IF op.stage = "attach"
     THEN /\ Bits(gdisk) = Xor(DiskBits, disk[op.new].delta)
          /\ DiskBits \subseteq {OrphanBit} /\ disk[op.new].delta \subseteq {OrphanBit}
     ELSE Bits(gdisk) = DiskBits

\* A copy of a pair of the list.
Copy(m) == m.pair \in Listed /\ m.log = disk[m.pair]

\* The directory that is to be dropped.
Victim ==
  /\ gstate.orphans > 0 <=> op.vic # None
  /\ op.vic # None =>
       /\ Copy(op.vic) /\ op.vic.pair # RootPair
       /\ Unreferred(op.vic.pair)

Moving ==
  /\ Victim
  /\ IF op.cwd = None THEN gdisk.move = None
     ELSE /\ Copy(op.cwd)
          /\ gdisk.move = <<op.cwd.pair, op.name>>
          /\ op.vic # None => op.vic.pair # op.cwd.pair

Attaching ==
  /\ op.call = "mkdir"
  /\ op.cwd # None /\ Copy(op.cwd) /\ op.name \in Names
  /\ op.new \in Firsts \ Listed
  /\ Unreferred(op.new)
  /\ disk[op.new].tail = op.cwd.log.tail
  /\ \A n \in Names : disk[op.new].ents[n] = None

\* The call in progress.
Calling ==
  /\ op.stage = "idle" <=> op = NoOp
  /\ op.stage \in {"deorphan", "ready", "attach", "gc", "drop", "end"} => gdisk.move = None
  /\ op.stage \in {"attach", "gc", "end"} => gstate.orphans = 0
  /\ op.stage = "ready" /\ walk = None => gstate.orphans = 0
  /\ op.stage = "attach" => Attaching
  /\ op.stage = "moved" => Moving
  /\ op.stage = "drop" => Victim
  /\ op.stage = "gc" => op.new \in Listed

\* The walk of lfs_fs_deorphan.
Repairing ==
  walk # None => op.stage = "ready" /\ op.call = "repair" /\ Copy(walk.pdir)

IInv ==
  /\ TypeOK
  /\ loc = None /\ fault = "none"
  /\ Threaded /\ Entered /\ Summed /\ Calling /\ Repairing

-----------------------------------------------------------------------------
(***************************************************************************)
(* Pairs and what is none.                                                 *)
(***************************************************************************)

LEMMA PairsAreFinite == IsFiniteSet(Pairs) /\ Cardinality(Pairs) \in Nat
<1>1. IsFiniteSet(Dirs \cup {Root})
  BY TreeAssumption, FS_AddElement
<1>2. IsFiniteSet(0 .. MaxMoves)
  BY TreeAssumption, FS_Interval
<1>3. IsFiniteSet(Pairs)
  BY <1>1, <1>2, FS_Product DEF Pairs
<1> QED
  BY <1>3, FS_CardinalityType

LEMMA PairsAreDistinct ==
  /\ None \notin Pairs /\ Files \cap Pairs = {}
  /\ None \notin GMoves /\ OrphanBit \notin GMoves
  /\ None \notin Names /\ None \notin Files
  /\ RootPair \in Firsts /\ Firsts \subseteq Pairs
  /\ RootPair # None
<1>1. Pairs \subseteq (Dirs \cup {Root}) \X Nat
  BY TreeAssumption DEF Pairs
<1>2. None \notin Pairs /\ Files \cap Pairs = {} /\ None \notin GMoves
  BY <1>1, TreeAssumption DEF GMoves
<1>3. OrphanBit \notin GMoves
  BY TreeAssumption DEF OrphanBit, GMoves
<1>4. RootPair \in Firsts /\ Firsts \subseteq Pairs
  BY TreeAssumption DEF RootPair, Firsts, Pairs
<1> QED
  BY <1>2, <1>3, <1>4, TreeAssumption

\* Pairs that have not moved share a block only if they are the same.
LEMMA SameIsEqual ==
  ASSUME NEW a \in Firsts, NEW b \in Firsts
  PROVE  Same(a, b) <=> a = b
BY DEF Firsts, Same, Pairs

-----------------------------------------------------------------------------
(***************************************************************************)
(* The list.                                                               *)
(***************************************************************************)

\* A set of numbers has a least one.
LEMMA Least ==
  ASSUME NEW T \in SUBSET Nat, T # {}
  PROVE  \E k \in T : \A j \in T : k <= j
<1> DEFINE R == {x \in Nat \X Nat : x[1] < x[2]}
<1>1. IsWellFoundedOn(R, Nat)
  BY NatLessThanWellFounded DEF OpToRel
<1>2. PICK k \in T : \A j \in T : ~(<<j, k>> \in R)
  <2> HIDE DEF R
  <2> QED
    BY <1>1, WFMin
<1>3. ASSUME NEW j \in T PROVE k <= j
  <2>1. j \in Nat /\ k \in Nat
    OBVIOUS
  <2>2. <<j, k>> \notin R
    BY <1>2
  <2> QED
    BY <2>1, <2>2
<1> QED
  BY <1>3

\* A list does not have more pairs than there are.
LEMMA ListIsShort ==
  ASSUME NEW n \in Nat \ {0}, NEW s, IsList(s, n)
  PROVE  n <= Cardinality(Pairs)
<1>1. s \in Injection(1 .. n, Pairs)
  BY PairsAreDistinct DEF IsList, Injection, IsInjective
<1>2. Cardinality(1 .. n) <= Cardinality(Pairs)
  BY <1>1, PairsAreFinite, FS_Injection
<1>3. Cardinality(1 .. n) = n
  BY FS_Interval
<1> QED
  BY <1>2, <1>3

\* NthListed follows the tails to the end, and stays there.
LEMMA ListIsNth ==
  ASSUME NEW n \in Nat \ {0}, NEW s, IsList(s, n)
  PROVE  NthListed = [i \in 1 .. Cardinality(Pairs) |-> IF i <= n THEN s[i] ELSE None]
<1> PICK N : N = Cardinality(Pairs)
  OBVIOUS
<1> PICK g : g = [i \in 1 .. N |-> IF i <= n THEN s[i] ELSE None]
  OBVIOUS
<1>1. N \in Nat /\ n <= N
  BY PairsAreFinite, ListIsShort
<1>2. g = [i \in 1 .. N |-> IF i = 1 THEN RootPair ELSE Tails[g[i - 1]]]
  <2>1. ASSUME NEW i \in 1 .. N
        PROVE  g[i] = IF i = 1 THEN RootPair ELSE Tails[g[i - 1]]
    <3>1. CASE i = 1
      BY <1>1, <3>1 DEF IsList
    <3>2. CASE i # 1 /\ i <= n
      <4>1. i - 1 \in 1 .. n - 1 /\ i - 1 \in 1 .. N /\ i - 1 \in 1 .. n /\ i - 1 + 1 = i
        BY <1>1, <3>2
      <4>2. disk[s[i - 1]].tail = s[i] /\ s[i - 1] \in Pairs
        BY <4>1, PairsAreDistinct DEF IsList
      <4>3. Tails[s[i - 1]] = s[i]
        BY <4>2, PairsAreDistinct DEF Tails
      <4> QED
        BY <3>2, <4>1, <4>3
    <3>3. CASE i = n + 1
      <4>1. i - 1 = n /\ n \in 1 .. N /\ ~(i <= n) /\ i # 1 /\ n \in 1 .. n
        BY <1>1, <3>3
      <4>2. disk[s[n]].tail = None /\ s[n] \in Pairs
        BY <4>1, PairsAreDistinct DEF IsList
      <4>3. Tails[s[n]] = None
        BY <4>2, PairsAreDistinct DEF Tails
      <4> QED
        BY <4>1, <4>3
    <3>4. CASE i > n + 1
      <4>1. i - 1 \in 1 .. N /\ ~(i - 1 <= n) /\ ~(i <= n) /\ i # 1
        BY <1>1, <3>4
      <4>2. Tails[None] = None
        BY DEF Tails
      <4> QED
        BY <4>1, <4>2
    <3> QED
      BY <1>1, <3>1, <3>2, <3>3, <3>4
  <2> QED
    BY <2>1
<1>3. NthListed = [i \in 1 .. N |-> IF i = 1 THEN RootPair ELSE Tails[NthListed[i - 1]]]
  <2>1. \E at : at = [i \in 1 .. Cardinality(Pairs) |-> IF i = 1 THEN RootPair ELSE Tails[at[i - 1]]]
    BY ZenonT(60), <1>2
  <2>2. NthListed = CHOOSE at : at = [i \in 1 .. Cardinality(Pairs) |->
                                        IF i = 1 THEN RootPair ELSE Tails[at[i - 1]]]
    BY DEF NthListed
  <2> QED
    BY <2>1, <2>2
<1>4. ASSUME NthListed # g PROVE FALSE
  <2> PICK D : D = {i \in 1 .. N : NthListed[i] # g[i]}
    OBVIOUS
  <2>1. D # {} /\ D \in SUBSET Nat
    BY <1>3, <1>4
  <2>2. PICK k \in D : \A j \in D : k <= j
    BY <2>1, Least
  <2>3. k \in 1 .. N /\ k # 1 /\ NthListed[k] # g[k]
    BY <1>1, <1>2, <1>3, <2>2
  <2>4. k - 1 \in 1 .. N /\ k - 1 \notin D
    BY <1>1, <2>2, <2>3
  <2>5. NthListed[k - 1] = g[k - 1]
    BY <2>4
  <2>6. NthListed[k] = Tails[NthListed[k - 1]]
    BY <1>3, <2>3
  <2>7. g[k] = Tails[g[k - 1]]
    BY <1>2, <2>3
  <2> QED
    BY <2>3, <2>5, <2>6, <2>7
<1> QED
  BY <1>4

\* The list, as a set and as a sequence.
LEMMA ListIsListed ==
  ASSUME NEW n \in Nat \ {0}, NEW s, IsList(s, n)
  PROVE  Listed = {s[i] : i \in 1 .. n}
<1> PICK N : N = Cardinality(Pairs)
  OBVIOUS
<1>1. N \in Nat /\ n <= N /\ \A i \in 1 .. n : i \in 1 .. N
  BY PairsAreFinite, ListIsShort
<1>2. \A i \in 1 .. N : NthListed[i] = IF i <= n THEN s[i] ELSE None
  BY ListIsNth
<1>3. \A i \in 1 .. n : s[i] # None
  BY PairsAreDistinct DEF IsList
<1>4. Listed = {NthListed[i] : i \in 1 .. N} \ {None}
  BY DEF Listed
<1>5. ASSUME NEW p \in Listed PROVE p \in {s[i] : i \in 1 .. n}
  <2>1. PICK i \in 1 .. N : p = NthListed[i] /\ p # None
    BY <1>4
  <2>2. i <= n /\ p = s[i]
    BY <1>2, <2>1
  <2>3. i \in 1 .. n
    BY <2>2
  <2> QED
    BY <2>2, <2>3
<1>6. ASSUME NEW i \in 1 .. n PROVE s[i] \in Listed
  <2>1. i \in 1 .. N /\ NthListed[i] = s[i]
    BY <1>1, <1>2
  <2> QED
    BY <1>3, <1>4, <2>1
<1> QED
  BY <1>5, <1>6

LEMMA ListIsThread ==
  ASSUME NEW n \in Nat \ {0}, NEW s, IsList(s, n)
  PROVE  DOMAIN Thread = 1 .. n /\ \A i \in 1 .. n : Thread[i] = s[i]
<1> PICK N : N = Cardinality(Pairs)
  OBVIOUS
<1>1. N \in Nat /\ n <= N /\ \A i \in 1 .. n : i \in 1 .. N
  BY PairsAreFinite, ListIsShort
<1>2. \A i \in 1 .. N : NthListed[i] = IF i <= n THEN s[i] ELSE None
  BY ListIsNth
<1>3. \A i \in 1 .. n : s[i] # None
  BY PairsAreDistinct DEF IsList
<1>4. {i \in 1 .. N : NthListed[i] # None} = 1 .. n
  <2>1. ASSUME NEW i \in 1 .. N, NthListed[i] # None PROVE i \in 1 .. n
    BY <1>2, <2>1
  <2>2. ASSUME NEW i \in 1 .. n PROVE i \in 1 .. N /\ NthListed[i] # None
    BY <1>1, <1>2, <1>3
  <2> QED
    BY <2>1, <2>2
<1>5. Cardinality(1 .. n) = n
  BY FS_Interval
<1>6. Thread = [i \in 1 .. n |-> NthListed[i]]
  BY <1>4, <1>5 DEF Thread
<1> QED
  BY <1>1, <1>2, <1>6

LEMMA ThreadedIsList ==
  Threaded <=> \E n \in Nat \ {0} : \E s : IsList(s, n)
BY DEF Threaded, IsList

\* Everything the list is, in terms of its set.
LEMMA ListedPairs ==
  ASSUME Threaded
  PROVE  /\ Listed \subseteq Firsts /\ RootPair \in Listed
         /\ Listed \subseteq Pairs /\ IsFiniteSet(Listed)
         /\ \A p \in Listed : disk[p].tail \in (Listed \ {RootPair}) \cup {None}
         /\ \A p, q \in Listed : disk[p].tail = disk[q].tail => p = q
         /\ \A p \in Listed : disk[p].tail # p
         /\ \A p \in Listed \ {RootPair} : \E q \in Listed : disk[q].tail = p
<1> PICK n \in Nat \ {0} : \E s : IsList(s, n)
  BY ThreadedIsList
<1> PICK s : IsList(s, n)
  OBVIOUS
<1>1. Listed = {s[i] : i \in 1 .. n}
  BY ListIsListed
<1>2. /\ s \in [1 .. n -> Firsts]
      /\ s[1] = RootPair /\ disk[s[n]].tail = None
      /\ \A i \in 1 .. n - 1 : disk[s[i]].tail = s[i + 1]
      /\ \A i, j \in 1 .. n : s[i] = s[j] => i = j
  BY DEF IsList
<1>3. 1 \in 1 .. n /\ n \in 1 .. n
  OBVIOUS
<1>4. Listed \subseteq Firsts /\ RootPair \in Listed
  BY <1>1, <1>2, <1>3
<1>5. Listed \subseteq Pairs /\ IsFiniteSet(Listed)
  BY <1>4, PairsAreDistinct, PairsAreFinite, FS_Subset
<1>6. \A i \in 1 .. n : disk[s[i]].tail = IF i = n THEN None ELSE s[i + 1]
  <2>1. \A i \in 1 .. n : i # n => i \in 1 .. n - 1
    OBVIOUS
  <2> QED
    BY <1>2, <2>1
<1>7. \A i \in 1 .. n : s[i] # None
  BY <1>2, PairsAreDistinct
<1>8. ASSUME NEW p \in Listed PROVE disk[p].tail \in (Listed \ {RootPair}) \cup {None}
  <2>1. PICK i \in 1 .. n : p = s[i]
    BY <1>1
  <2>2. CASE i = n
    BY <1>6, <2>1, <2>2
  <2>3. CASE i # n
    <3>1. i + 1 \in 1 .. n /\ i + 1 # 1 /\ disk[p].tail = s[i + 1]
      BY <1>6, <2>1, <2>3
    <3>2. s[i + 1] # RootPair /\ s[i + 1] \in Listed
      BY <1>1, <1>2, <1>3, <3>1
    <3> QED
      BY <3>1, <3>2
  <2> QED
    BY <2>2, <2>3
<1>9. ASSUME NEW p \in Listed, NEW q \in Listed, disk[p].tail = disk[q].tail PROVE p = q
  <2>1. PICK i \in 1 .. n, j \in 1 .. n : p = s[i] /\ q = s[j]
    BY <1>1
  <2>2. disk[p].tail = (IF i = n THEN None ELSE s[i + 1]) /\ disk[q].tail = IF j = n THEN None ELSE s[j + 1]
    BY <1>6, <2>1
  <2>3. CASE i = n \/ j = n
    <3>1. (i # n => i + 1 \in 1 .. n) /\ (j # n => j + 1 \in 1 .. n)
      OBVIOUS
    <3>2. (i # n => s[i + 1] # None) /\ (j # n => s[j + 1] # None)
      BY <1>7, <3>1
    <3> QED
      BY <1>9, <2>1, <2>2, <2>3, <3>2
  <2>4. CASE i # n /\ j # n
    <3>1. i + 1 \in 1 .. n /\ j + 1 \in 1 .. n
      BY <2>4
    <3>2. s[i + 1] = s[j + 1]
      BY <1>9, <2>2, <2>4
    <3>3. i + 1 = j + 1
      BY <1>2, <3>1, <3>2
    <3> QED
      BY <2>1, <3>3
  <2> QED
    BY <2>3, <2>4
<1>10. ASSUME NEW p \in Listed \ {RootPair} PROVE \E q \in Listed : disk[q].tail = p
  <2>1. PICK i \in 1 .. n : p = s[i]
    BY <1>1
  <2>2. i - 1 \in 1 .. n - 1 /\ i - 1 \in 1 .. n /\ i - 1 + 1 = i
    BY <1>2, <2>1
  <2>3. disk[s[i - 1]].tail = p
    BY <1>2, <2>1, <2>2
  <2> QED
    BY <1>1, <2>2, <2>3
<1>11. ASSUME NEW p \in Listed PROVE disk[p].tail # p
  <2>1. PICK i \in 1 .. n : p = s[i]
    BY <1>1
  <2>2. CASE i = n
    BY <1>2, <1>7, <2>1, <2>2
  <2>3. CASE i # n
    <3>1. i + 1 \in 1 .. n /\ i + 1 # i /\ disk[p].tail = s[i + 1]
      BY <1>6, <2>1, <2>3
    <3> QED
      BY <1>2, <2>1, <3>1
  <2> QED
    BY <2>2, <2>3
<1> QED
  BY <1>4, <1>5, <1>8, <1>9, <1>10, <1>11

ListFacts ==
  /\ \A n \in Nat \ {0} : \A s : IsList(s, n) => Listed = {s[i] : i \in 1 .. n}
  /\ (\E n \in Nat \ {0} : \E s : IsList(s, n)) => Threaded

LEMMA ListLemmas == ListFacts
BY ListIsListed, ThreadedIsList DEF ListFacts

\* The same, after a step.
LEMMA ListLemmasNext == ListFacts'
BY ListLemmas, PTL

\* A list whose tails do not change stays.
LEMMA SameList ==
  ASSUME Threaded, \A p \in Listed : disk'[p].tail = disk[p].tail
  PROVE  Threaded' /\ Listed' = Listed
<1> PICK n \in Nat \ {0} : \E s : IsList(s, n)
  BY ThreadedIsList
<1> PICK s : IsList(s, n)
  OBVIOUS
<1>1. Listed = {s[i] : i \in 1 .. n}
  BY ListIsListed
<1>2. \A i \in 1 .. n : disk'[s[i]].tail = disk[s[i]].tail
  BY <1>1
<1>3. n \in 1 .. n /\ \A i \in 1 .. n - 1 : i \in 1 .. n
  OBVIOUS
<1>4. IsList(s, n)'
  BY <1>2, <1>3 DEF IsList
<1> QED
  BY <1>1, <1>4, ListLemmasNext DEF ListFacts

\* Pair y is put into the list after x.
LEMMA InsertedInList ==
  ASSUME Threaded, NEW x \in Listed, NEW y \in Firsts \ Listed,
         disk'[x].tail = y, disk'[y].tail = disk[x].tail,
         \A p \in Listed \ {x} : disk'[p].tail = disk[p].tail
  PROVE  Threaded' /\ Listed' = Listed \cup {y}
<1> PICK n \in Nat \ {0} : \E s : IsList(s, n)
  BY ThreadedIsList
<1> PICK s : IsList(s, n)
  OBVIOUS
<1>1. Listed = {s[i] : i \in 1 .. n}
  BY ListIsListed
<1>2. /\ s \in [1 .. n -> Firsts]
      /\ s[1] = RootPair /\ disk[s[n]].tail = None
      /\ \A i \in 1 .. n - 1 : disk[s[i]].tail = s[i + 1]
      /\ \A i, j \in 1 .. n : s[i] = s[j] => i = j
  BY DEF IsList
<1>3. PICK k \in 1 .. n : s[k] = x
  BY <1>1
<1> PICK N \in Nat \ {0} : N = n + 1
  OBVIOUS
<1> PICK u : u = [i \in 1 .. N |-> IF i <= k THEN s[i] ELSE IF i = k + 1 THEN y ELSE s[i - 1]]
  OBVIOUS
<1>4. /\ \A i \in 1 .. k : i \in 1 .. n /\ i \in 1 .. N /\ u[i] = s[i]
      /\ k + 1 \in 1 .. N /\ u[k + 1] = y
      /\ \A i \in k + 2 .. N : i - 1 \in 1 .. n /\ i - 1 # k /\ i \in 1 .. N /\ u[i] = s[i - 1]
      /\ \A i \in 1 .. N : i \in 1 .. k \/ i = k + 1 \/ i \in k + 2 .. N
  OBVIOUS
<1>5. \A i \in 1 .. n : s[i] \in Listed /\ s[i] # y
  BY <1>1
<1>6. \A i \in 1 .. n : i # k => disk'[s[i]].tail = disk[s[i]].tail
  BY <1>2, <1>3, <1>5
<1>7. u \in [1 .. N -> Firsts]
  <2>1. \A i \in 1 .. N : u[i] \in Firsts
    BY <1>2, <1>4
  <2> QED
    BY <2>1
<1>8. u[1] = RootPair
  <2>1. 1 \in 1 .. k
    OBVIOUS
  <2> QED
    BY <1>2, <1>4, <2>1
<1>9. disk'[u[N]].tail = None
  <2>1. CASE k = n
    BY <1>2, <1>3, <1>4, <2>1
  <2>2. CASE k # n
    <3>1. N \in k + 2 .. N /\ N - 1 = n /\ n \in 1 .. n
      BY <2>2
    <3> QED
      BY <1>2, <1>4, <1>6, <2>2, <3>1
  <2> QED
    BY <2>1, <2>2
<1>10. ASSUME NEW i \in 1 .. n PROVE disk'[u[i]].tail = u[i + 1]
  <2>1. CASE i < k
    <3>1. i \in 1 .. k /\ i + 1 \in 1 .. k /\ i \in 1 .. n - 1 /\ i # k
      BY <2>1
    <3> QED
      BY <1>2, <1>4, <1>6, <3>1
  <2>2. CASE i = k
    <3>1. i \in 1 .. k
      BY <2>2
    <3> QED
      BY <1>3, <1>4, <2>2, <3>1
  <2>3. CASE i = k + 1
    <3>1. i + 1 \in k + 2 .. N /\ i + 1 - 1 = k + 1 /\ k \in 1 .. n - 1
      BY <2>3
    <3> QED
      BY <1>2, <1>3, <1>4, <2>3, <3>1
  <2>4. CASE i > k + 1
    <3>1. /\ i \in k + 2 .. N /\ i + 1 \in k + 2 .. N
          /\ i + 1 - 1 = i /\ i - 1 + 1 = i /\ i - 1 \in 1 .. n - 1 /\ i - 1 # k /\ i - 1 \in 1 .. n
      BY <2>4
    <3>2. disk'[s[i - 1]].tail = disk[s[i - 1]].tail
      BY <1>6, <3>1
    <3>3. u[i] = s[i - 1] /\ u[i + 1] = s[i]
      BY <1>4, <3>1
    <3> QED
      BY <1>2, <3>1, <3>2, <3>3
  <2> QED
    BY <2>1, <2>2, <2>3, <2>4
<1>11. ASSUME NEW i \in 1 .. N, NEW j \in 1 .. N, u[i] = u[j] PROVE i = j
  <2> PICK v : v = [h \in 1 .. N |-> IF h <= k THEN h ELSE h - 1]
    OBVIOUS
  <2>1. \A h \in 1 .. N : h # k + 1 => v[h] \in 1 .. n /\ u[h] = s[v[h]]
    BY <1>4
  <2>2. \A h \in 1 .. N : h # k + 1 => u[h] # y
    BY <1>5, <2>1
  <2>3. CASE i = k + 1 \/ j = k + 1
    <3>1. u[i] = y \/ u[j] = y
      BY <1>4, <2>3
    <3>2. u[i] = y /\ u[j] = y
      BY <1>11, <3>1
    <3>3. i = k + 1 /\ j = k + 1
      BY ONLY <2>2, <3>2, i \in 1 .. N, j \in 1 .. N
    <3> QED
      BY ONLY <3>3
  <2>4. CASE i # k + 1 /\ j # k + 1
    <3>1. v[i] = v[j]
      BY <1>2, <1>11, <2>1, <2>4
    <3> QED
      BY <2>4, <3>1
  <2> QED
    BY <2>3, <2>4
<1>12. IsList(u, N)'
  <2>1. \A i \in 1 .. N - 1 : i \in 1 .. n
    OBVIOUS
  <2>2. \A i \in 1 .. N - 1 : disk'[u[i]].tail = u[i + 1]
    BY <1>10, <2>1
  <2> QED
    BY <1>7, <1>8, <1>9, <1>11, <2>2 DEF IsList
<1>13. Threaded' /\ Listed' = {u[i] : i \in 1 .. N}
  <2>1. N \in Nat \ {0}
    OBVIOUS
  <2> QED
    BY ONLY <1>12, <2>1, ListLemmasNext DEF ListFacts
<1>14. {u[i] : i \in 1 .. N} = Listed \cup {y}
  <2>1. ASSUME NEW i \in 1 .. N PROVE u[i] \in Listed \cup {y}
    BY <1>4, <1>5
  <2>2. ASSUME NEW i \in 1 .. n PROVE \E j \in 1 .. N : u[j] = s[i]
    <3>1. CASE i <= k
      BY <1>4, <3>1
    <3>2. CASE i > k
      <4> PICK j \in Nat : j = i + 1
        OBVIOUS
      <4>1. j \in k + 2 .. N /\ j - 1 = i
        BY <3>2
      <4> QED
        BY <1>4, <4>1
    <3> QED
      BY <3>1, <3>2
  <2>3. \E j \in 1 .. N : u[j] = y
    BY <1>4
  <2>4. ASSUME NEW p \in Listed PROVE \E j \in 1 .. N : u[j] = p
    <3>1. PICK i \in 1 .. n : p = s[i]
      BY <1>1
    <3> QED
      BY <2>2, <3>1
  <2> QED
    BY ONLY <2>1, <2>3, <2>4
<1> QED
  BY <1>13, <1>14

\* Pair y, which follows x, is taken out of the list.
LEMMA RemovedFromList ==
  ASSUME Threaded, NEW x \in Listed, NEW y \in Listed,
         disk[x].tail = y, disk'[x].tail = disk[y].tail,
         \A p \in Listed \ {x, y} : disk'[p].tail = disk[p].tail
  PROVE  Threaded' /\ Listed' = Listed \ {y}
<1> PICK n \in Nat \ {0} : \E s : IsList(s, n)
  BY ThreadedIsList
<1> PICK s : IsList(s, n)
  OBVIOUS
<1>1. Listed = {s[i] : i \in 1 .. n}
  BY ListIsListed
<1>2. /\ s \in [1 .. n -> Firsts]
      /\ s[1] = RootPair /\ disk[s[n]].tail = None
      /\ \A i \in 1 .. n - 1 : disk[s[i]].tail = s[i + 1]
      /\ \A i, j \in 1 .. n : s[i] = s[j] => i = j
  BY DEF IsList
<1>3. PICK k \in 1 .. n : s[k] = x
  BY <1>1
<1>4. k # n
  BY <1>2, <1>3, PairsAreDistinct, ListedPairs
<1>5. k \in 1 .. n - 1 /\ k + 1 \in 1 .. n /\ s[k + 1] = y
  <2>1. k \in 1 .. n - 1 /\ k + 1 \in 1 .. n
    BY <1>4
  <2> QED
    BY <1>2, <1>3, <2>1
<1> PICK u : u = [i \in 1 .. n - 1 |-> IF i <= k THEN s[i] ELSE s[i + 1]]
  OBVIOUS
<1>6. /\ \A i \in 1 .. k : i \in 1 .. n - 1 /\ i \in 1 .. n /\ i # k + 1 /\ u[i] = s[i]
      /\ \A i \in k + 1 .. n - 1 : i + 1 \in 1 .. n /\ i + 1 # k /\ i + 1 # k + 1 /\ u[i] = s[i + 1]
      /\ \A i \in 1 .. n - 1 : i \in 1 .. k \/ i \in k + 1 .. n - 1
  BY <1>5
<1>7. \A i \in 1 .. n : s[i] \in Listed
  BY <1>1
<1>8. \A i \in 1 .. n : i # k /\ i # k + 1 => disk'[s[i]].tail = disk[s[i]].tail
  BY <1>2, <1>3, <1>5, <1>7
<1>9. disk'[s[k]].tail = IF k + 1 = n THEN None ELSE s[k + 2]
  <2>1. CASE k + 1 = n
    BY <1>2, <1>3, <1>5, <2>1
  <2>2. CASE k + 1 # n
    <3>1. k + 1 \in 1 .. n - 1 /\ k + 1 + 1 = k + 2
      BY <1>5, <2>2
    <3> QED
      BY <1>2, <1>3, <1>5, <2>2, <3>1
  <2> QED
    BY <2>1, <2>2
<1>10. u \in [1 .. n - 1 -> Firsts]
  <2>1. \A i \in 1 .. n - 1 : u[i] \in Firsts
    BY <1>2, <1>6
  <2> QED
    BY <2>1
<1>11. u[1] = RootPair
  <2>1. 1 \in 1 .. k
    OBVIOUS
  <2> QED
    BY <1>2, <1>6, <2>1
<1>12. disk'[u[n - 1]].tail = None
  <2>1. CASE k + 1 = n
    <3>1. n - 1 = k /\ k \in 1 .. k
      BY <2>1
    <3> QED
      BY <1>6, <1>9, <2>1, <3>1
  <2>2. CASE k + 1 # n
    <3>1. n - 1 \in k + 1 .. n - 1 /\ n - 1 + 1 = n /\ n \in 1 .. n /\ n # k /\ n # k + 1
      BY <1>5, <2>2
    <3> QED
      BY <1>2, <1>6, <1>8, <3>1
  <2> QED
    BY <2>1, <2>2
<1>13. ASSUME NEW i \in 1 .. n - 1 - 1 PROVE disk'[u[i]].tail = u[i + 1]
  <2>1. CASE i < k
    <3>1. i \in 1 .. k /\ i + 1 \in 1 .. k /\ i \in 1 .. n - 1 /\ i # k /\ i # k + 1 /\ i \in 1 .. n
      BY <1>5, <2>1
    <3>2. u[i] = s[i] /\ u[i + 1] = s[i + 1]
      BY <1>6, <3>1
    <3> QED
      BY <1>2, <1>8, <3>1, <3>2
  <2>2. CASE i = k
    <3>1. i \in 1 .. k /\ i + 1 \in k + 1 .. n - 1 /\ i + 1 + 1 = k + 2 /\ k + 1 # n
      BY <1>5, <2>2
    <3> QED
      BY <1>6, <1>9, <2>2, <3>1
  <2>3. CASE i > k
    <3>1. /\ i \in k + 1 .. n - 1 /\ i + 1 \in k + 1 .. n - 1
          /\ i + 1 \in 1 .. n - 1 /\ i + 1 \in 1 .. n /\ i + 1 # k /\ i + 1 # k + 1
      BY <1>5, <2>3
    <3>2. u[i] = s[i + 1] /\ u[i + 1] = s[i + 1 + 1]
      BY <1>6, <3>1
    <3> QED
      BY <1>2, <1>8, <3>1, <3>2
  <2> QED
    BY <2>1, <2>2, <2>3
<1>14. ASSUME NEW i \in 1 .. n - 1, NEW j \in 1 .. n - 1, u[i] = u[j] PROVE i = j
  <2> PICK v : v = [h \in 1 .. n - 1 |-> IF h <= k THEN h ELSE h + 1]
    OBVIOUS
  <2>1. \A h \in 1 .. n - 1 : v[h] \in 1 .. n /\ u[h] = s[v[h]]
    BY <1>6
  <2>2. v[i] = v[j]
    BY <1>2, <1>14, <2>1
  <2> QED
    BY <2>2
<1>15. n - 1 \in Nat \ {0}
  BY <1>5
<1>16. IsList(u, n - 1)'
  BY <1>10, <1>11, <1>12, <1>13, <1>14 DEF IsList
<1>17. Threaded' /\ Listed' = {u[i] : i \in 1 .. n - 1}
  BY SMTT(30), <1>15, <1>16, ListLemmasNext DEF ListFacts
<1>18. {u[i] : i \in 1 .. n - 1} = Listed \ {y}
  <2>1. ASSUME NEW i \in 1 .. n - 1 PROVE u[i] \in Listed \ {y}
    <3>1. PICK h \in 1 .. n : h # k + 1 /\ u[i] = s[h]
      BY <1>6
    <3> QED
      BY <1>2, <1>5, <1>7, <3>1
  <2>2. ASSUME NEW i \in 1 .. n, s[i] # y PROVE \E j \in 1 .. n - 1 : u[j] = s[i]
    <3>1. i # k + 1
      BY <1>5, <2>2
    <3>2. CASE i <= k
      BY <1>6, <3>2
    <3>3. CASE i > k
      <4>1. i - 1 \in k + 1 .. n - 1 /\ i - 1 + 1 = i /\ i - 1 \in 1 .. n - 1
        BY <1>5, <3>1, <3>3
      <4> QED
        BY <1>6, <4>1
    <3> QED
      BY <3>2, <3>3
  <2>3. ASSUME NEW p \in Listed \ {y} PROVE \E j \in 1 .. n - 1 : u[j] = p
    <3>1. PICK i \in 1 .. n : p = s[i]
      BY <1>1
    <3> QED
      BY <2>2, <3>1
  <2> QED
    BY ONLY <2>1, <2>3
<1> QED
  BY <1>17, <1>18

-----------------------------------------------------------------------------
(***************************************************************************)
(* Sums of deltas.                                                         *)
(***************************************************************************)

AllBits == GMoves \cup {OrphanBit}

\* The sum of the deltas that content d has in a set of pairs.
Sum(L, d) == {b \in AllBits : Cardinality({p \in L : b \in d[p].delta}) % 2 = 1}

LEMMA XorIsSum ==
  \A A, B, C, D :
    /\ Xor(A, {}) = A /\ Xor({}, A) = A /\ Xor(A, A) = {}
    /\ Xor(A, B) = Xor(B, A)
    /\ Xor(Xor(A, B), C) = Xor(A, Xor(B, C))
    /\ A \subseteq D /\ B \subseteq D => Xor(A, B) \subseteq D
BY DEF Xor

\* What is added twice is not there.
LEMMA XorCancels ==
  \A A, B, C : /\ Xor(A, Xor(B, A)) = B /\ Xor(A, Xor(A, B)) = B
               /\ Xor(Xor(A, B), B) = A
               /\ Xor(Xor(A, B), Xor(B, C)) = Xor(A, C)
BY DEF Xor

LEMMA SumsAreSame ==
  ASSUME NEW L, NEW d, NEW e, \A p \in L : d[p].delta = e[p].delta
  PROVE  Sum(L, d) = Sum(L, e)
<1>1. \A b : {p \in L : b \in d[p].delta} = {p \in L : b \in e[p].delta}
  OBVIOUS
<1> QED
  BY <1>1 DEF Sum

\* A pair's delta counts once.
LEMMA SumGrows ==
  ASSUME NEW L, IsFiniteSet(L), NEW d, NEW y, y \notin L, d[y].delta \subseteq AllBits
  PROVE  Sum(L \cup {y}, d) = Xor(Sum(L, d), d[y].delta)
<1>1. ASSUME NEW b \in AllBits
      PROVE  b \in Sum(L \cup {y}, d) <=> b \in Xor(Sum(L, d), d[y].delta)
  <2> PICK S : S = {p \in L : b \in d[p].delta}
    OBVIOUS
  <2>1. IsFiniteSet(S) /\ Cardinality(S) \in Nat /\ y \notin S
    <3>1. S \subseteq L
      OBVIOUS
    <3> QED
      BY <3>1, FS_Subset, FS_CardinalityType
  <2>2. b \in Sum(L, d) <=> Cardinality(S) % 2 = 1
    BY DEF Sum
  <2>3. CASE b \in d[y].delta
    <3>1. {p \in L \cup {y} : b \in d[p].delta} = S \cup {y}
      BY <2>3
    <3>2. Cardinality(S \cup {y}) = Cardinality(S) + 1
      BY <2>1, FS_AddElement
    <3>3. b \in Sum(L \cup {y}, d) <=> (Cardinality(S) + 1) % 2 = 1
      BY <3>1, <3>2 DEF Sum
    <3>4. (Cardinality(S) + 1) % 2 = 1 <=> ~(Cardinality(S) % 2 = 1)
      BY ONLY <2>1
    <3> QED
      BY <2>2, <2>3, <3>3, <3>4 DEF Xor
  <2>4. CASE b \notin d[y].delta
    <3>1. {p \in L \cup {y} : b \in d[p].delta} = S
      BY <2>4
    <3>2. b \in Sum(L \cup {y}, d) <=> Cardinality(S) % 2 = 1
      BY <3>1 DEF Sum
    <3> QED
      BY <2>2, <2>4, <3>2 DEF Xor
  <2> QED
    BY <2>3, <2>4
<1>2. Sum(L \cup {y}, d) \subseteq AllBits /\ Xor(Sum(L, d), d[y].delta) \subseteq AllBits
  BY DEF Sum, Xor
<1> QED
  BY <1>1, <1>2

LEMMA SumShrinks ==
  ASSUME NEW L, IsFiniteSet(L), NEW d, NEW y \in L, d[y].delta \subseteq AllBits
  PROVE  Sum(L \ {y}, d) = Xor(Sum(L, d), d[y].delta)
<1>1. IsFiniteSet(L \ {y}) /\ y \notin L \ {y} /\ (L \ {y}) \cup {y} = L
  BY FS_Subset
<1>2. Sum(L, d) = Xor(Sum(L \ {y}, d), d[y].delta)
  BY <1>1, SumGrows
<1> QED
  BY <1>2, XorCancels

\* A change of a delta is a change of the sum.
LEMMA SumChanges ==
  ASSUME NEW L, IsFiniteSet(L), NEW d, NEW e, NEW m \in L, NEW D \in SUBSET AllBits,
         d[m].delta \subseteq AllBits, e[m].delta = Xor(d[m].delta, D),
         \A p \in L \ {m} : e[p].delta = d[p].delta
  PROVE  Sum(L, e) = Xor(Sum(L, d), D)
<1>1. IsFiniteSet(L \ {m}) /\ m \notin L \ {m} /\ (L \ {m}) \cup {m} = L
  BY FS_Subset
<1>2. e[m].delta \subseteq AllBits
  BY XorIsSum
<1>3. Sum(L, d) = Xor(Sum(L \ {m}, d), d[m].delta)
  BY <1>1, SumGrows
<1>4. Sum(L, e) = Xor(Sum(L \ {m}, e), e[m].delta)
  <2>1. Sum((L \ {m}) \cup {m}, e) = Xor(Sum(L \ {m}, e), e[m].delta)
    BY ONLY <1>1, <1>2, SumGrows
  <2> QED
    BY <1>1, <2>1
<1>5. Sum(L \ {m}, e) = Sum(L \ {m}, d)
  BY SumsAreSame
<1> QED
  BY <1>3, <1>4, <1>5, XorIsSum

\* What a mount collects is the sum of the deltas in the list.
SumFact ==
  Threaded /\ (\A p \in Listed : disk[p].delta \subseteq AllBits) => DiskBits = Sum(Listed, disk)

LEMMA DiskBitsIsSum == SumFact
<1> SUFFICES ASSUME Threaded, \A p \in Listed : disk[p].delta \subseteq AllBits
             PROVE  DiskBits = Sum(Listed, disk)
  BY DEF SumFact
<1> PICK L : L = Listed
  OBVIOUS
<1>1. IsFiniteSet(L) /\ \A p \in L : disk[p].delta \subseteq AllBits
  BY ListedPairs
<1>2. DiskBits = {b \in UNION {disk[p].delta : p \in L} : Cardinality({p \in L : b \in disk[p].delta}) % 2 = 1}
  BY DEF DiskBits
<1>3. UNION {disk[p].delta : p \in L} \subseteq AllBits
  BY <1>1
<1>4. ASSUME NEW b \in AllBits, Cardinality({p \in L : b \in disk[p].delta}) % 2 = 1
      PROVE  b \in UNION {disk[p].delta : p \in L}
  <2>1. CASE {p \in L : b \in disk[p].delta} = {}
    <3>1. Cardinality({p \in L : b \in disk[p].delta}) = 0
      BY <2>1, FS_EmptySet
    <3>2. 0 % 2 # 1
      OBVIOUS
    <3> QED
      BY <1>4, <3>1, <3>2
  <2>2. CASE {p \in L : b \in disk[p].delta} # {}
    BY <2>2
  <2> QED
    BY <2>1, <2>2
<1>5. Sum(L, disk) = {b \in AllBits : Cardinality({p \in L : b \in disk[p].delta}) % 2 = 1}
  BY DEF Sum
<1> QED
  BY <1>2, <1>3, <1>4, <1>5

LEMMA DiskBitsIsSumNext == SumFact'
BY DiskBitsIsSum, PTL

-----------------------------------------------------------------------------
(***************************************************************************)
(* Searches along the list and down the tree.                              *)
(***************************************************************************)

LEMMA PredPrecedes ==
  ASSUME Threaded, NEW y \in Listed \ {RootPair}
  PROVE  Pred(y) \in Listed /\ disk[Pred(y)].tail = y
<1> PICK n \in Nat \ {0} : \E s : IsList(s, n)
  BY ThreadedIsList
<1> PICK s : IsList(s, n)
  OBVIOUS
<1>1. Listed = {s[i] : i \in 1 .. n}
  BY ListIsListed
<1> PICK t : t = Thread
  OBVIOUS
<1>2. DOMAIN t = 1 .. n /\ \A i \in 1 .. n : t[i] = s[i]
  BY ListIsThread
<1> PICK I : I = {i \in 1 .. n : disk[t[i]].tail # None /\ Same(disk[t[i]].tail, y)}
  OBVIOUS
<1>3. I # {}
  <2>1. PICK q \in Listed : disk[q].tail = y
    BY ListedPairs
  <2>2. PICK i \in 1 .. n : q = s[i]
    BY <1>1
  <2>3. i \in I
    BY <1>2, <2>1, <2>2, ListedPairs, PairsAreDistinct DEF Same
  <2> QED
    BY <2>3
<1>4. PICK k : k = CHOOSE i \in I : \A j \in I : i <= j
  BY SMTT(30)
<1>5. k \in I
  <2>1. I \in SUBSET Nat
    OBVIOUS
  <2>2. \E i \in I : \A j \in I : i <= j
    BY <1>3, <2>1, Least
  <2> QED
    BY <1>4, <2>2
<1>6. Pred(y) = t[k]
  <2>1. Pred(y) = LET J == {i \in DOMAIN t : disk[t[i]].tail # None /\ Same(disk[t[i]].tail, y)}
                  IN  IF J = {} THEN None ELSE t[CHOOSE i \in J : \A j \in J : i <= j]
    BY DEF Pred, First
  <2> QED
    BY <1>2, <1>3, <1>4, <2>1
<1>7. t[k] \in Listed /\ disk[t[k]].tail # None /\ Same(disk[t[k]].tail, y)
  BY <1>1, <1>2, <1>5
<1>8. disk[t[k]].tail \in Firsts /\ y \in Firsts
  BY <1>7, ListedPairs
<1> QED
  BY <1>6, <1>7, <1>8, SameIsEqual

LEMMA ParentRefers ==
  ASSUME Threaded, NEW a
  PROVE  /\ Parent(a) = None =>
              \A p \in Listed, n \in Names : Refers(p, n, a) => Hidden(gdisk.move, p, n)
         /\ Parent(a) # None =>
              /\ Parent(a) \in Listed
              /\ \E n \in Names : Refers(Parent(a), n, a) /\ ~Hidden(gdisk.move, Parent(a), n)
<1> PICK n \in Nat \ {0} : \E s : IsList(s, n)
  BY ThreadedIsList
<1> PICK s : IsList(s, n)
  OBVIOUS
<1>1. Listed = {s[i] : i \in 1 .. n}
  BY ListIsListed
<1> PICK t : t = Thread
  OBVIOUS
<1>2. DOMAIN t = 1 .. n /\ \A i \in 1 .. n : t[i] = s[i]
  BY ListIsThread
<1> DEFINE Ok(p) == \E k \in Names : Refers(p, k, a) /\ ~Hidden(gdisk.move, p, k)
<1> PICK I : I = {i \in 1 .. n : Ok(t[i])}
  OBVIOUS
<1>3. Parent(a) = IF I = {} THEN None ELSE t[CHOOSE i \in I : \A j \in I : i <= j]
  <2>1. Parent(a) = LET J == {i \in DOMAIN t : Ok(t[i])}
                    IN  IF J = {} THEN None ELSE t[CHOOSE i \in J : \A j \in J : i <= j]
    BY DEF Parent, First
  <2> QED
    BY <1>2, <2>1
<1>4. \A i \in 1 .. n : t[i] # None
  BY <1>1, <1>2, ListedPairs, PairsAreDistinct
<1>5. CASE I = {}
  <2>1. \A p \in Listed : ~Ok(p)
    BY <1>1, <1>2, <1>5
  <2> QED
    BY <1>3, <1>5, <2>1
<1>6. CASE I # {}
  <2> HIDE DEF Ok
  <2>1. I \in SUBSET Nat
    OBVIOUS
  <2>2. \E i \in I : \A j \in I : i <= j
    BY <1>6, <2>1, Least
  <2>3. PICK k : k = CHOOSE i \in I : \A j \in I : i <= j
    OBVIOUS
  <2>4. k \in I
    BY <2>2, <2>3
  <2>5. k \in 1 .. n /\ Ok(t[k])
    BY <2>4
  <2>6. Parent(a) = t[k]
    BY <1>3, <1>6, <2>3
  <2>7. t[k] \in Listed /\ t[k] # None
    BY <1>1, <1>2, <1>4, <2>5
  <2> QED
    BY <2>5, <2>6, <2>7 DEF Ok
<1> QED
  BY <1>5, <1>6

\* Paths lead to pairs of the list.
LEMMA BelowIsListed ==
  ASSUME Threaded, Entered, NEW a \in Listed, NEW m
  PROVE  Below(a, m) \subseteq Listed
<1> DEFINE St(S) == UNION {{p} \cup Subdirs(p, m) : p \in S}
<1>1. ASSUME NEW S \in SUBSET Listed PROVE St(S) \subseteq Listed
  BY DEF Entered, Subdirs
<1> HIDE DEF St
<1> PICK T : T = {n \in Nat : ~\E r : r = [k \in 0 .. n |-> IF k = 0 THEN {a} ELSE St(r[k - 1])]}
  OBVIOUS
<1>2. ASSUME T # {} PROVE FALSE
  <2>1. T \in SUBSET Nat
    OBVIOUS
  <2>2. PICK n \in T : \A j \in T : n <= j
    BY <1>2, <2>1, Least
  <2>3. n # 0
    <3>1. ASSUME n = 0 PROVE FALSE
      <4> PICK r : r = [k \in 0 .. n |-> {a}]
        OBVIOUS
      <4>1. r = [k \in 0 .. n |-> IF k = 0 THEN {a} ELSE St(r[k - 1])]
        BY <3>1
      <4> QED
        BY <4>1, <2>2
    <3> QED
      BY <3>1
  <2>4. n - 1 \in Nat /\ n - 1 \notin T
    <3>1. n \in Nat
      BY <2>1
    <3> QED
      BY ONLY <2>2, <2>3, <3>1
  <2>5. PICK r : r = [k \in 0 .. n - 1 |-> IF k = 0 THEN {a} ELSE St(r[k - 1])]
    BY <2>4
  <2> PICK f : f = [k \in 0 .. n |-> IF k = n THEN St(r[n - 1]) ELSE r[k]]
    OBVIOUS
  <2>6. ASSUME NEW k \in 0 .. n PROVE f[k] = IF k = 0 THEN {a} ELSE St(f[k - 1])
    <3>1. CASE k = n
      <4>1. n - 1 \in 0 .. n /\ n - 1 # n /\ f[n - 1] = r[n - 1]
        BY <2>1, <2>3
      <4> QED
        BY <2>3, <3>1, <4>1
    <3>2. CASE k # n /\ k # 0
      <4>1. k \in 0 .. n - 1 /\ k - 1 \in 0 .. n /\ k - 1 # n
        BY <2>1, <3>2
      <4> QED
        BY <2>5, <3>2, <4>1
    <3>3. CASE k = 0
      <4>1. k \in 0 .. n - 1 /\ k # n
        BY <2>1, <2>3, <3>3
      <4> QED
        BY <2>5, <3>3, <4>1
    <3> QED
      BY <3>1, <3>2, <3>3
  <2>7. f = [k \in 0 .. n |-> IF k = 0 THEN {a} ELSE St(f[k - 1])]
    BY <2>6
  <2> QED
    BY <2>2, <2>7
<1> PICK N \in Nat : N = Cardinality(Dirs)
  BY TreeAssumption, FS_CardinalityType
<1>3. PICK r : r = CHOOSE q : q = [k \in 0 .. N |-> IF k = 0 THEN {a} ELSE St(q[k - 1])]
  OBVIOUS
<1>4. r = [k \in 0 .. N |-> IF k = 0 THEN {a} ELSE St(r[k - 1])]
  <2>1. \E q : q = [k \in 0 .. N |-> IF k = 0 THEN {a} ELSE St(q[k - 1])]
    <3>1. N \notin T
      BY <1>2
    <3> QED
      BY <3>1
  <2> QED
    BY ONLY <1>3, <2>1
<1>5. Below(a, m) = r[N]
  BY <1>3 DEF Below, St
<1>6. ASSUME r[N] \notin SUBSET Listed PROVE FALSE
  <2> PICK D : D = {k \in 0 .. N : r[k] \notin SUBSET Listed}
    OBVIOUS
  <2>1. D # {} /\ D \in SUBSET Nat
    BY <1>6
  <2>2. PICK k \in D : \A j \in D : k <= j
    BY <2>1, Least
  <2>3. k # 0
    BY <1>4, <2>2
  <2>4. k \in 1 .. N /\ k - 1 \in 0 .. N /\ k - 1 \notin D
    BY <2>2, <2>3
  <2>5. r[k - 1] \in SUBSET Listed
    BY <2>4
  <2>6. r[k] = St(r[k - 1])
    BY <1>4, <2>3, <2>4
  <2> QED
    BY <1>1, <2>2, <2>5, <2>6
<1> QED
  BY <1>5, <1>6

\* No entry refers to an older pair: pairs have not moved.
LEMMA NoHalfOrphan ==
  ASSUME Threaded, Entered, NEW t \in Listed
  PROVE  Parent(t) # None => disk[Parent(t)].ents[EntryOf(Parent(t), t)] = t
<1> SUFFICES ASSUME Parent(t) # None
             PROVE  disk[Parent(t)].ents[EntryOf(Parent(t), t)] = t
  OBVIOUS
<1> PICK p : p = Parent(t)
  OBVIOUS
<1>1. p \in Listed /\ \E n \in Names : Refers(p, n, t) /\ ~Hidden(gdisk.move, p, n)
  BY ParentRefers
<1> PICK e : e = EntryOf(p, t)
  OBVIOUS
<1>2. e \in Names /\ Refers(p, e, t)
  BY <1>1 DEF EntryOf
<1>3. disk[p].ents[e] \in Firsts /\ t \in Firsts
  BY <1>1, <1>2, ListedPairs DEF Entered, Refers
<1> QED
  BY <1>2, <1>3, SameIsEqual DEF Refers

LEMMA OrphanIsUnreferred ==
  ASSUME Threaded, NEW t \in Listed, gdisk.move = None, Parent(t) = None
  PROVE  Unreferred(t)
<1>1. \A p \in Listed, n \in Names : ~Refers(p, n, t)
  BY ParentRefers DEF Hidden
<1> QED
  BY <1>1, ListedPairs DEF Unreferred, Refers, Same

-----------------------------------------------------------------------------
(***************************************************************************)
(* Commits.                                                                *)
(***************************************************************************)

DiskOK == disk \in [Pairs -> Logs]

LEMMA BitsAreBits ==
  ASSUME NEW g \in Gstates
  PROVE  /\ Bits(g) \subseteq AllBits
         /\ OrphanBit \in Bits(g) <=> g.orphans > 0
         /\ \A b \in GMoves : b \in Bits(g) <=> b = g.move
BY PairsAreDistinct DEF Bits, Gstates, AllBits

\* Where pairs stay, a commit is written in place, or is the first of a call other
\* than a repair or a rename and fails.
LEMMA CommitEither ==
  ASSUME PairsStay, NEW m, NEW log, NEW g, NEW d, NEW o, Commits(m, log, g, d, o)
  PROVE  \/ CommitInPlace(m, log, g, d, o, None, FALSE)
         \/ /\ CommitFails(g, d, o)
            /\ o.call \notin {"rename", "replace", "repair"} /\ op.stage \in {"idle", "ready"}
BY DEF PairsStay, Commits, Commit, CommitMoved, CommitFails

\* What is on the disk and in RAM when a commit has been written.
WrittenAs(m, log, g, d, o, mine) ==
  /\ DiskOK'
  /\ \A p \in Pairs \ {m.pair} : disk'[p] = disk[p]
  /\ disk'[m.pair].ents = log.ents /\ disk'[m.pair].tail = log.tail
  /\ disk'[m.pair].delta = Xor(log.delta, Xor(d, Xor(Bits(g), Bits(gdisk))))
  /\ gstate' = g /\ gdisk' = g /\ gdelta' = {} /\ loc' = None /\ fault' = "none"
  /\ moves' = moves
  /\ op' = IF Tracked(o) /\ Same(o.vic.pair, m.pair)
           THEN [o EXCEPT !.vic = [pair |-> m.pair, log |-> disk'[m.pair]]] ELSE o
  /\ walk' = IF mine THEN [walk EXCEPT !.pdir = [pair |-> m.pair, log |-> disk'[m.pair]]]
             ELSE walk
  /\ calls' \in 0 .. MaxCalls => TypeOK'

LEMMA Written ==
  ASSUME TypeOK, NEW m \in Mdirs, NEW log \in Logs, NEW g \in Gstates,
         NEW d \in SUBSET AllBits, NEW o \in Ops, NEW mine \in BOOLEAN, mine => walk # None,
         CommitInPlace(m, log, g, d, o, None, mine)
  PROVE  WrittenAs(m, log, g, d, o, mine)
<1> PICK D : D = Xor(d, Xor(Bits(g), Bits(gdisk)))
  OBVIOUS
<1> PICK c : c = [log EXCEPT !.delta = Xor(@, D)]
  OBVIOUS
<1>1. D \in SUBSET AllBits
  BY BitsAreBits, XorIsSum DEF TypeOK
<1>2. c \in Logs /\ c.ents = log.ents /\ c.tail = log.tail /\ c.delta = Xor(log.delta, D)
  <2>1. Xor(log.delta, D) \in SUBSET AllBits
    <3>1. log.delta \in SUBSET AllBits
      BY DEF Logs, AllBits
    <3> QED
      BY ONLY <1>1, <3>1 DEF Xor
  <2> QED
    BY <2>1 DEF Logs, AllBits
<1>3. /\ disk' = [disk EXCEPT ![m.pair] = c]
      /\ op' = Track(o, [pair |-> m.pair, log |-> c])
      /\ walk' = Follow([pair |-> m.pair, log |-> c], mine)
  BY DEF CommitInPlace
<1>4. disk \in [Pairs -> Logs] /\ m.pair \in Pairs
  BY DEF TypeOK, Mdirs
<1>5. disk' \in [Pairs -> Logs] /\ disk'[m.pair] = c /\ \A p \in Pairs \ {m.pair} : disk'[p] = disk[p]
  BY <1>2, <1>3, <1>4
<1>6. [pair |-> m.pair, log |-> c] \in Mdirs
  BY <1>2, <1>4 DEF Mdirs
<1>7. op' \in Ops /\ walk' \in Walks \cup {None}
  <2>1. op' \in Ops
    BY <1>3, <1>6 DEF Track, Ops
  <2>2. walk' \in Walks \cup {None}
    BY <1>3, <1>6 DEF Follow, Walks, TypeOK
  <2> QED
    BY <2>1, <2>2
<1>8. /\ gstate' = g /\ gdisk' = g /\ gdelta' = {} /\ loc' = None /\ fault' = "none"
      /\ moves' = moves
  BY DEF CommitInPlace
<1>9. /\ op' = IF Tracked(o) /\ Same(o.vic.pair, m.pair)
                 THEN [o EXCEPT !.vic = [pair |-> m.pair, log |-> disk'[m.pair]]] ELSE o
      /\ walk' = IF mine THEN [walk EXCEPT !.pdir = [pair |-> m.pair, log |-> disk'[m.pair]]]
                 ELSE walk
  BY <1>3, <1>5 DEF Track, Follow
<1>10. calls' \in 0 .. MaxCalls => TypeOK'
  <2>1. gdelta' \subseteq AllBits /\ gstate' \in Gstates /\ gdisk' \in Gstates
    BY <1>8
  <2>2. loc' \in Locs \cup {None} /\ moves' \in 0 .. MaxMoves /\ fault' \in Faults
    BY <1>8 DEF TypeOK, Faults
  <2> QED
    BY <1>5, <1>7, <2>1, <2>2 DEF TypeOK, AllBits
<1> QED
  BY <1>2, <1>5, <1>8, <1>9, <1>10 DEF DiskOK, WrittenAs

\* The sums of the deltas, before and after.
LEMMA DiskBitsAre ==
  ASSUME DiskOK, Threaded
  PROVE  /\ DiskBits = Sum(Listed, disk)
         /\ IsFiniteSet(Listed) /\ Listed \subseteq Pairs
         /\ \A p \in Pairs : disk[p].delta \subseteq AllBits
<1>1. \A p \in Pairs : disk[p].delta \subseteq AllBits
  BY DEF DiskOK, Logs, AllBits
<1> QED
  BY <1>1, ListedPairs, DiskBitsIsSum DEF SumFact

LEMMA DiskBitsAreNext ==
  ASSUME DiskOK', Threaded', Listed' \subseteq Pairs
  PROVE  DiskBits' = Sum(Listed', disk')
<1>1. \A p \in Pairs : disk'[p].delta \subseteq AllBits
  BY DEF DiskOK, Logs, AllBits
<1> QED
  BY <1>1, DiskBitsIsSumNext DEF SumFact

\* A commit of entries.
LEMMA CommitStays ==
  ASSUME DiskOK, DiskOK', Threaded, NEW x \in Listed, NEW D \in SUBSET AllBits,
         \A p \in Pairs \ {x} : disk'[p] = disk[p],
         disk'[x].tail = disk[x].tail, disk'[x].delta = Xor(disk[x].delta, D)
  PROVE  Threaded' /\ Listed' = Listed /\ DiskBits' = Xor(DiskBits, D)
<1>1. Listed \subseteq Pairs
  BY DiskBitsAre
<1>2. Threaded' /\ Listed' = Listed
  BY <1>1, SameList
<1>3. Sum(Listed, disk') = Xor(Sum(Listed, disk), D)
  <2>1. IsFiniteSet(Listed) /\ disk[x].delta \subseteq AllBits
    BY <1>1, DiskBitsAre
  <2>2. \A p \in Listed \ {x} : disk'[p].delta = disk[p].delta
    BY <1>1
  <2> QED
    BY <2>1, <2>2, SumChanges
<1> QED
  BY <1>1, <1>2, <1>3, DiskBitsAre, DiskBitsAreNext

\* A commit that puts pair y into the list.
LEMMA CommitInserts ==
  ASSUME DiskOK, DiskOK', Threaded, NEW x \in Listed, NEW y \in Firsts \ Listed,
         NEW D \in SUBSET AllBits,
         \A p \in Pairs \ {x} : disk'[p] = disk[p],
         disk'[x].tail = y, disk[y].tail = disk[x].tail, disk'[x].delta = Xor(disk[x].delta, D)
  PROVE  /\ Threaded' /\ Listed' = Listed \cup {y}
         /\ DiskBits' = Xor(Xor(DiskBits, D), disk[y].delta)
<1>1. Listed \subseteq Pairs /\ y \in Pairs
  BY DiskBitsAre, PairsAreDistinct
<1>2. Threaded' /\ Listed' = Listed \cup {y}
  <2>1. disk'[y] = disk[y] /\ \A p \in Listed \ {x} : disk'[p].tail = disk[p].tail
    BY <1>1
  <2> QED
    BY <2>1, InsertedInList
<1>3. Sum(Listed, disk') = Xor(Sum(Listed, disk), D)
  <2>1. IsFiniteSet(Listed) /\ disk[x].delta \subseteq AllBits
    BY <1>1, DiskBitsAre
  <2>2. \A p \in Listed \ {x} : disk'[p].delta = disk[p].delta
    BY <1>1
  <2> QED
    BY <2>1, <2>2, SumChanges
<1>4. disk'[y].delta = disk[y].delta /\ disk'[y].delta \subseteq AllBits
  BY <1>1, DiskBitsAre
<1>5. Sum(Listed \cup {y}, disk') = Xor(Sum(Listed, disk'), disk'[y].delta)
  BY <1>4, DiskBitsAre, SumGrows
<1>6. DiskBits' = Sum(Listed \cup {y}, disk')
  BY <1>1, <1>2, DiskBitsAreNext
<1> QED
  BY <1>2, <1>3, <1>4, <1>5, <1>6, DiskBitsAre

\* A commit that takes pair y out of the list.
LEMMA CommitRemoves ==
  ASSUME DiskOK, DiskOK', Threaded, NEW x \in Listed, NEW y \in Listed, x # y,
         NEW D \in SUBSET AllBits,
         \A p \in Pairs \ {x} : disk'[p] = disk[p],
         disk[x].tail = y, disk'[x].tail = disk[y].tail, disk'[x].delta = Xor(disk[x].delta, D)
  PROVE  /\ Threaded' /\ Listed' = Listed \ {y}
         /\ DiskBits' = Xor(Xor(DiskBits, D), disk[y].delta)
<1>1. Listed \subseteq Pairs
  BY DiskBitsAre
<1>2. Threaded' /\ Listed' = Listed \ {y}
  BY <1>1, RemovedFromList
<1>3. Sum(Listed, disk') = Xor(Sum(Listed, disk), D)
  <2>1. IsFiniteSet(Listed) /\ disk[x].delta \subseteq AllBits
    BY <1>1, DiskBitsAre
  <2>2. \A p \in Listed \ {x} : disk'[p].delta = disk[p].delta
    BY <1>1
  <2> QED
    BY <2>1, <2>2, SumChanges
<1>4. disk'[y].delta = disk[y].delta /\ disk'[y].delta \subseteq AllBits
  BY <1>1, DiskBitsAre
<1>5. Sum(Listed \ {y}, disk') = Xor(Sum(Listed, disk'), disk'[y].delta)
  BY <1>4, DiskBitsAre, SumShrinks
<1>6. DiskBits' = Sum(Listed \ {y}, disk')
  BY <1>1, <1>2, DiskBitsAreNext
<1> QED
  BY <1>2, <1>3, <1>4, <1>5, <1>6, DiskBitsAre

\* Commit log of m has been written, with global state g, by call o.
Landed(m, log, g, o, mine) ==
  /\ calls' \in 0 .. MaxCalls => TypeOK'
  /\ loc' = None /\ fault' = "none" /\ gstate' = g /\ gdisk' = g
  /\ \A p \in Pairs \ {m.pair} : disk'[p] = disk[p]
  /\ disk'[m.pair].ents = log.ents
  /\ op' = IF Tracked(o) /\ Same(o.vic.pair, m.pair)
           THEN [o EXCEPT !.vic = [pair |-> m.pair, log |-> disk'[m.pair]]] ELSE o
  /\ walk' = IF mine THEN [walk EXCEPT !.pdir = [pair |-> m.pair, log |-> disk'[m.pair]]]
             ELSE walk

\* A commit of entries, with the global state, in the list.
LEMMA Edited ==
  ASSUME IInv, op.stage # "attach", NEW m \in Mdirs, Copy(m),
         NEW log \in Logs, log.tail = m.log.tail, log.delta = m.log.delta,
         NEW g \in Gstates, g.orphans \in 0 .. 1, g.move # None => g.move[1] \in Listed,
         NEW o \in Ops, o.stage # "attach", NEW mine \in BOOLEAN, mine => walk # None,
         CommitInPlace(m, log, g, gdelta, o, None, mine)
  PROVE  Threaded' /\ Listed' = Listed /\ Summed' /\ Landed(m, log, g, o, mine)
<1> PICK D : D = Xor(gdelta, Xor(Bits(g), Bits(gdisk)))
  OBVIOUS
<1>1. TypeOK /\ DiskOK /\ Threaded /\ gdelta = {} /\ Bits(gdisk) = DiskBits
  BY DEF IInv, Summed, TypeOK, DiskOK
<1>2. gdelta \in SUBSET AllBits
  BY <1>1
<1>3. WrittenAs(m, log, g, gdelta, o, mine)
  BY <1>1, <1>2, Written
<1>4. /\ DiskOK'
      /\ \A p \in Pairs \ {m.pair} : disk'[p] = disk[p]
      /\ disk'[m.pair].tail = disk[m.pair].tail
      /\ disk'[m.pair].delta = Xor(disk[m.pair].delta, D)
      /\ gstate' = g /\ gdisk' = g /\ gdelta' = {}
      /\ op'.stage = o.stage
  <2>1. /\ DiskOK'
        /\ \A p \in Pairs \ {m.pair} : disk'[p] = disk[p]
        /\ disk'[m.pair].tail = log.tail
        /\ disk'[m.pair].delta = Xor(log.delta, D)
        /\ gstate' = g /\ gdisk' = g /\ gdelta' = {}
        /\ op' = IF Tracked(o) /\ Same(o.vic.pair, m.pair)
                 THEN [o EXCEPT !.vic = [pair |-> m.pair, log |-> disk'[m.pair]]] ELSE o
    BY <1>3 DEF WrittenAs
  <2>2. op'.stage = o.stage
    BY <2>1 DEF Ops
  <2> QED
    BY <2>1, <2>2 DEF Copy
<1>5. D \in SUBSET AllBits
  BY <1>1, <1>2, BitsAreBits, XorIsSum DEF TypeOK
<1>6. Threaded' /\ Listed' = Listed /\ DiskBits' = Xor(DiskBits, D)
  BY <1>1, <1>4, <1>5, CommitStays DEF Copy
<1>7. DiskBits' = Bits(g)
  BY ONLY <1>1, <1>6, D = Xor(gdelta, Xor(Bits(g), Bits(gdisk))) DEF Xor
<1>8. Bits(gdisk)' = Bits(g)
  BY <1>4 DEF Bits
<1>9. Summed'
  BY <1>4, <1>6, <1>7, <1>8 DEF Summed
<1>10. /\ calls' \in 0 .. MaxCalls => TypeOK'
      /\ loc' = None /\ fault' = "none"
      /\ disk'[m.pair].ents = log.ents
  BY <1>3 DEF WrittenAs
<1>11. /\ op' = IF Tracked(o) /\ Same(o.vic.pair, m.pair)
                THEN [o EXCEPT !.vic = [pair |-> m.pair, log |-> disk'[m.pair]]] ELSE o
       /\ walk' = IF mine THEN [walk EXCEPT !.pdir = [pair |-> m.pair, log |-> disk'[m.pair]]]
                  ELSE walk
  BY <1>3 DEF WrittenAs
<1> QED
  BY <1>4, <1>6, <1>9, <1>10, <1>11 DEF Landed

\* A commit that takes pair y out of the list, and keeps its delta.
LEMMA Dropped ==
  ASSUME IInv, op.stage # "attach", NEW m \in Mdirs, Copy(m), NEW y \in Listed, m.pair # y,
         m.log.tail = y,
         NEW log \in Logs, log.tail = disk[y].tail, log.delta = m.log.delta,
         NEW g \in Gstates, g.orphans \in 0 .. 1, g.move = None,
         NEW o \in Ops, o.stage # "attach", NEW mine \in BOOLEAN, mine => walk # None,
         NEW d, d = Xor(gdelta, disk[y].delta),
         CommitInPlace(m, log, g, d, o, None, mine)
  PROVE  Threaded' /\ Listed' = Listed \ {y} /\ Summed' /\ Landed(m, log, g, o, mine)
<1> PICK D : D = Xor(d, Xor(Bits(g), Bits(gdisk)))
  OBVIOUS
<1>1. TypeOK /\ DiskOK /\ Threaded /\ gdelta = {} /\ Bits(gdisk) = DiskBits
  BY DEF IInv, Summed, TypeOK, DiskOK
<1>2. disk[y].delta \in SUBSET AllBits /\ d = disk[y].delta
  <2>1. disk[y].delta \in SUBSET AllBits
    BY <1>1, DiskBitsAre
  <2> QED
    BY <1>1, <2>1, XorIsSum
<1>3. WrittenAs(m, log, g, d, o, mine)
  BY <1>1, <1>2, Written
<1>4. /\ DiskOK'
      /\ \A p \in Pairs \ {m.pair} : disk'[p] = disk[p]
      /\ disk'[m.pair].tail = disk[y].tail
      /\ disk'[m.pair].delta = Xor(disk[m.pair].delta, D)
      /\ gstate' = g /\ gdisk' = g /\ gdelta' = {}
      /\ op'.stage = o.stage
  <2>1. /\ DiskOK'
        /\ \A p \in Pairs \ {m.pair} : disk'[p] = disk[p]
        /\ disk'[m.pair].tail = log.tail
        /\ disk'[m.pair].delta = Xor(log.delta, D)
        /\ gstate' = g /\ gdisk' = g /\ gdelta' = {}
        /\ op' = IF Tracked(o) /\ Same(o.vic.pair, m.pair)
                 THEN [o EXCEPT !.vic = [pair |-> m.pair, log |-> disk'[m.pair]]] ELSE o
    BY <1>3 DEF WrittenAs
  <2>2. op'.stage = o.stage
    BY <2>1 DEF Ops
  <2> QED
    BY <2>1, <2>2 DEF Copy
<1>5. D \in SUBSET AllBits
  BY <1>1, <1>2, BitsAreBits, XorIsSum DEF TypeOK
<1>6. Threaded' /\ Listed' = Listed \ {y} /\ DiskBits' = Xor(Xor(DiskBits, D), disk[y].delta)
  BY <1>1, <1>4, <1>5, CommitRemoves DEF Copy
<1>7. DiskBits' = Bits(g)
  BY ONLY <1>1, <1>2, <1>6, D = Xor(d, Xor(Bits(g), Bits(gdisk))) DEF Xor
<1>8. Bits(gdisk)' = Bits(g)
  BY <1>4 DEF Bits
<1>9. Summed'
  BY <1>4, <1>6, <1>7, <1>8 DEF Summed
<1>10. /\ calls' \in 0 .. MaxCalls => TypeOK'
      /\ loc' = None /\ fault' = "none"
      /\ disk'[m.pair].ents = log.ents
  BY <1>3 DEF WrittenAs
<1>11. /\ op' = IF Tracked(o) /\ Same(o.vic.pair, m.pair)
                THEN [o EXCEPT !.vic = [pair |-> m.pair, log |-> disk'[m.pair]]] ELSE o
       /\ walk' = IF mine THEN [walk EXCEPT !.pdir = [pair |-> m.pair, log |-> disk'[m.pair]]]
                  ELSE walk
  BY <1>3 DEF WrittenAs
<1> QED
  BY <1>4, <1>6, <1>9, <1>10, <1>11 DEF Landed

-----------------------------------------------------------------------------
(***************************************************************************)
(* What the actions have in common.                                        *)
(***************************************************************************)

LEMMA DiskStays ==
  ASSUME IInv, disk' = disk
  PROVE  Threaded' /\ Listed' = Listed /\ DiskBits' = DiskBits
<1>1. Threaded /\ DiskOK /\ DiskOK'
  BY DEF IInv, TypeOK, DiskOK
<1>2. Threaded' /\ Listed' = Listed
  BY <1>1, SameList
<1> QED
  BY <1>1, <1>2, DiskBitsAre, DiskBitsAreNext

LEMMA FetchIsCopy ==
  ASSUME TypeOK, Threaded, NEW a \in Listed
  PROVE  /\ Fetch(a) \in Mdirs /\ Copy(Fetch(a))
         /\ Fetch(a).pair = a /\ Fetch(a).log = disk[a] /\ disk[a] \in Logs /\ a \in Pairs
BY ListedPairs DEF TypeOK, Fetch, Copy, Mdirs

LEMMA EntryIsLog ==
  ASSUME NEW log \in Logs, NEW n \in Names, NEW e \in Objects
  PROVE  /\ [log EXCEPT !.ents[n] = e] \in Logs
         /\ [log EXCEPT !.ents[n] = e].tail = log.tail
         /\ [log EXCEPT !.ents[n] = e].delta = log.delta
         /\ [log EXCEPT !.ents[n] = e].ents = [log.ents EXCEPT ![n] = e]
         /\ \A k \in Names : [log EXCEPT !.ents[n] = e].ents[k] = IF k = n THEN e ELSE log.ents[k]
BY DEF Logs

LEMMA WithoutIsLog ==
  ASSUME NEW log \in Logs, NEW n \in Names
  PROVE  /\ Without(log, n) \in Logs
         /\ Without(log, n).tail = log.tail /\ Without(log, n).delta = log.delta
         /\ \A k \in Names : Without(log, n).ents[k] = IF k = n THEN None ELSE log.ents[k]
<1>1. None \in Objects
  BY DEF Objects
<1> QED
  BY <1>1, EntryIsLog DEF Without

\* Entries that there have been, hidden no more than before, of pairs that are still
\* in the list.
LEMMA EnteredAfter ==
  ASSUME Entered, Listed' \subseteq Listed,
         \A a \in Listed', n \in Names : disk'[a].ents[n] \in Pairs =>
           /\ disk'[a].ents[n] = disk[a].ents[n] /\ disk[a].ents[n] \in Listed'
           /\ Hidden(gdisk.move, a, n) => Hidden(gdisk'.move, a, n)
  PROVE  Entered'
<1>1. \A a \in Listed', n \in Names : disk'[a].ents[n] \in Pairs =>
        disk'[a].ents[n] \in Listed' \ {RootPair}
  BY DEF Entered
<1>2. ASSUME NEW a \in Listed', NEW b \in Listed', NEW n \in Names, NEW k \in Names,
             disk'[a].ents[n] \in Pairs, disk'[a].ents[n] = disk'[b].ents[k],
             ~Hidden(gdisk'.move, a, n), ~Hidden(gdisk'.move, b, k)
      PROVE  a = b /\ n = k
  BY <1>2 DEF Entered
<1> QED
  BY <1>1, <1>2 DEF Entered

\* A first commit that fails changes nothing but what is prepared in RAM.
LEMMA FailKeeps ==
  ASSUME IInv, op.stage # "attach", NEW g \in Gstates, g.orphans \in 0 .. 1, g.move = gstate.move,
         NEW o, CommitFails(g, gdelta, o), calls' \in 0 .. MaxCalls
  PROVE  IInv'
<1>1. /\ disk' = disk /\ gdisk' = gdisk /\ moves' = moves
      /\ gstate' = g /\ gdelta' = gdelta /\ op' = NoOp /\ loc' = None /\ walk' = None
      /\ fault' = "none"
  BY DEF CommitFails
<1>2. Threaded' /\ Listed' = Listed /\ DiskBits' = DiskBits
  BY <1>1, DiskStays
<1>3. TypeOK'
  BY <1>1 DEF IInv, TypeOK, NoOp, Ops, Stages, NoChange, Faults
<1>4. Entered'
  <2>1. \A a \in Listed, n \in Names : disk[a].ents[n] \in Pairs => disk[a].ents[n] \in Listed
    BY DEF IInv, Entered
  <2> QED
    BY <1>1, <1>2, <2>1, EnteredAfter DEF IInv
<1>5. Bits(gdisk)' = Bits(gdisk)
  BY <1>1 DEF Bits
<1>6. Summed'
  BY <1>1, <1>2, <1>5 DEF IInv, Summed, NoOp
<1>7. Calling' /\ Repairing'
  BY <1>1 DEF Calling, Repairing, NoOp
<1> QED
  BY <1>1, <1>2, <1>3, <1>4, <1>6, <1>7 DEF IInv

\* Power is lost, and what is mounted is what was there.
LEMMA PowerLossKeeps ==
  ASSUME IInv, PowerLoss, calls' \in 0 .. MaxCalls
  PROVE  IInv'
<1> PICK g : g = [orphans |-> IF OrphanBit \in DiskBits THEN 1 ELSE 0, move |-> DiskMove]
  OBVIOUS
<1>1. /\ disk' = disk /\ gdisk' = g /\ moves' = moves
      /\ gstate' = g /\ gdelta' = {} /\ op' = NoOp /\ loc' = None /\ walk' = None
      /\ fault' = "none"
  BY DEF PowerLoss, Restart
<1>2. Threaded' /\ Listed' = Listed /\ DiskBits' = DiskBits
  BY <1>1, DiskStays
<1>3. gdisk \in Gstates /\ gstate \in Gstates /\ TypeOK
  BY DEF IInv, TypeOK
<1>4. /\ g.move = gdisk.move /\ g.move \in GMoves \cup {None}
      /\ DiskBits \subseteq AllBits
      /\ \A b \in GMoves : b \in DiskBits <=> b = g.move
  <2>1. CASE op.stage = "attach"
    <3>1. DiskBits \subseteq {OrphanBit} /\ gdisk.move = None
      BY <2>1 DEF IInv, Summed, Calling
    <3>2. DiskMove = None
      BY <3>1 DEF DiskMove
    <3> QED
      BY <3>1, <3>2, PairsAreDistinct DEF AllBits
  <2>2. CASE op.stage # "attach"
    <3>1. Bits(gdisk) = DiskBits
      BY <2>2 DEF IInv, Summed
    <3>2. gdisk.move \in GMoves \cup {None}
      BY <1>3 DEF Gstates
    <3>3. DiskBits \ {OrphanBit} = IF gdisk.move = None THEN {} ELSE {gdisk.move}
      BY <3>1, <3>2, PairsAreDistinct DEF Bits
    <3>4. DiskMove = gdisk.move
      BY <3>3 DEF DiskMove
    <3> QED
      BY <1>3, <3>1, <3>2, <3>4, BitsAreBits
  <2> QED
    BY <2>1, <2>2
<1>5. g \in Gstates /\ g.orphans \in 0 .. 1 /\ (g.orphans > 0 <=> OrphanBit \in DiskBits)
  <2>1. {0, 1} \subseteq 0 .. MaxMoves + 1
    BY TreeAssumption
  <2> QED
    BY <1>4, <2>1 DEF Gstates
<1>6. Bits(g) = DiskBits
  <2>1. Bits(g) \subseteq AllBits
    BY <1>5, BitsAreBits
  <2>2. \A b \in AllBits : b \in Bits(g) <=> b \in DiskBits
    BY <1>4, <1>5, BitsAreBits DEF AllBits
  <2> QED
    BY <1>4, <2>1, <2>2
<1>7. TypeOK'
  BY <1>1, <1>3, <1>5 DEF TypeOK, NoOp, Ops, Stages, NoChange, Faults
<1>8. Entered'
  <2>1. \A a \in Listed, n \in Names : disk[a].ents[n] \in Pairs => disk[a].ents[n] \in Listed
    BY DEF IInv, Entered
  <2> QED
    BY <1>1, <1>2, <1>4, <2>1, EnteredAfter DEF IInv
<1>9. Bits(gdisk)' = Bits(g)
  BY <1>1 DEF Bits
<1>10. Summed'
  <2>1. gdisk.move # None => gdisk.move[1] \in Listed
    BY DEF IInv, Summed
  <2> QED
    BY <1>1, <1>2, <1>4, <1>5, <1>6, <1>9, <2>1 DEF Summed, NoOp
<1>11. Calling' /\ Repairing'
  BY <1>1 DEF Calling, Repairing, NoOp
<1> QED
  BY <1>1, <1>2, <1>7, <1>8, <1>10, <1>11 DEF IInv

LEMMA CallIsOp ==
  ASSUME NEW c \in Calls, NEW st \in Stages, NEW del \in SUBSET Edges, NEW add \in SUBSET Edges
  PROVE  /\ Call(c, st, del, add) \in Ops
         /\ Call(c, st, del, add).call = c /\ Call(c, st, del, add).stage = st
         /\ Call(c, st, del, add).cwd = None /\ Call(c, st, del, add).name = None
         /\ Call(c, st, del, add).new = None /\ Call(c, st, del, add).vic = None
<1>1. [del |-> del, add |-> add] \in [del : SUBSET Edges, add : SUBSET Edges]
  OBVIOUS
<1> QED
  BY <1>1 DEF Call, NoOp, NoChange, Ops

LEMMA RepairIsOp ==
  ASSUME NEW st \in Stages, NEW o, o = [NoOp EXCEPT !.call = "repair", !.stage = st]
  PROVE  /\ o \in Ops /\ o.call = "repair" /\ o.stage = st
         /\ o.cwd = None /\ o.name = None /\ o.new = None /\ o.vic = None
<1>1. NoChange \in [del : SUBSET Edges, add : SUBSET Edges]
  BY DEF NoChange
<1> QED
  BY <1>1 DEF NoOp, Ops, Calls

\* What an entry of the list refers to is an end of an edge.
LEMMA EdgeIsEdge ==
  ASSUME IInv, NEW a \in Listed, NEW n \in Names, disk[a].ents[n] # None,
         NEW b \in Listed, NEW k \in Names
  PROVE  /\ Edge(b, k, disk[a].ents[n]) \in Edges
         /\ EdgesAt(b, k) \in SUBSET Edges
<1>1. ASSUME NEW p \in Listed, NEW h \in Names, disk[p].ents[h] # None
      PROVE  Id(disk[p].ents[h]) \in Dirs \cup Files
  <2>1. disk[p].ents[h] \in Objects
    BY FetchIsCopy DEF IInv, Logs
  <2>2. CASE disk[p].ents[h] \in Pairs
    <3>1. disk[p].ents[h] \in Firsts \ {RootPair}
      BY <2>2, ListedPairs DEF IInv, Entered
    <3> QED
      BY <2>2, <3>1 DEF Id, Firsts, Pairs, RootPair
  <2>3. CASE disk[p].ents[h] \notin Pairs
    BY <1>1, <2>1, <2>3 DEF Id, Objects
  <2> QED
    BY <2>2, <2>3
<1>2. b[1] \in Dirs \cup {Root}
  BY ListedPairs DEF IInv, Pairs
<1> QED
  BY <1>1, <1>2 DEF Edge, EdgesAt, Edges

LEMMA FreshGstates ==
  ASSUME IInv
  PROVE  /\ gstate \in Gstates /\ gstate.orphans \in 0 .. 1 /\ gstate.move = gdisk.move
         /\ gdisk \in Gstates /\ gdisk.move \in GMoves \cup {None}
         /\ PrepMove(gstate, None) \in Gstates
         /\ PrepMove(gstate, None).orphans = gstate.orphans /\ PrepMove(gstate, None).move = None
         /\ gstate.orphans = 0 =>
              /\ PrepOrphans(gstate, 1) \in Gstates
              /\ PrepOrphans(gstate, 1).orphans = 1 /\ PrepOrphans(gstate, 1).move = gstate.move
         /\ gstate.orphans = 1 =>
              /\ PrepOrphans(gstate, -1) \in Gstates
              /\ PrepOrphans(gstate, -1).orphans = 0 /\ PrepOrphans(gstate, -1).move = gstate.move
<1>1. gstate \in Gstates /\ gstate.orphans \in 0 .. 1 /\ gstate.move = gdisk.move
      /\ gdisk \in Gstates
  BY DEF IInv, TypeOK, Summed
<1>2. 0 \in 0 .. MaxMoves + 1 /\ 1 \in 0 .. MaxMoves + 1
  BY TreeAssumption
<1> QED
  BY <1>1, <1>2 DEF Gstates, PrepMove, PrepOrphans

\* Steps that change nothing on the disk.
LEMMA QuietKeeps ==
  ASSUME IInv, op'.stage # "attach", op.stage # "attach",
         disk' = disk, gdisk' = gdisk, gdelta' = gdelta,
         gstate'.orphans \in 0 .. 1, gstate'.move = gstate.move
  PROVE  Threaded' /\ Entered' /\ Summed' /\ Listed' = Listed
<1>1. Threaded' /\ Listed' = Listed /\ DiskBits' = DiskBits
  BY DiskStays
<1>2. Entered'
  <2>1. \A a \in Listed, n \in Names : disk[a].ents[n] \in Pairs => disk[a].ents[n] \in Listed
    BY DEF IInv, Entered
  <2> QED
    BY <1>1, <2>1, EnteredAfter DEF IInv
<1>3. Bits(gdisk)' = Bits(gdisk)
  BY DEF Bits
<1> QED
  BY <1>1, <1>2, <1>3 DEF IInv, Summed

\* A commit changes nothing of the call but the tracked directory.
LEMMA LandedOp ==
  ASSUME NEW m, NEW log, NEW g, NEW o \in Ops, NEW mine \in BOOLEAN, Landed(m, log, g, o, mine)
  PROVE  /\ op'.call = o.call /\ op'.stage = o.stage /\ op'.cwd = o.cwd /\ op'.name = o.name
         /\ op'.new = o.new
         /\ op'.vic = IF Tracked(o) /\ Same(o.vic.pair, m.pair)
                      THEN [pair |-> m.pair, log |-> disk'[m.pair]] ELSE o.vic
BY DEF Landed, Ops

LEMMA ReadyState ==
  ASSUME IInv, Ready
  PROVE  /\ TypeOK /\ Threaded /\ Entered /\ gdelta = {} /\ loc = None /\ walk = None
         /\ gdisk.move = None /\ gstate.move = None /\ gstate.orphans = 0
         /\ op.stage \in {"idle", "ready"}
BY DEF IInv, Summed, Calling, Ready, Free, NoOp

-----------------------------------------------------------------------------
(***************************************************************************)
(* One lemma for each action: repair.                                      *)
(***************************************************************************)

LEMMA DemoveKeeps ==
  ASSUME IInv, PairsStay, Demove, calls' \in 0 .. MaxCalls
  PROVE  IInv'
<1> PICK a : a = gdisk.move[1]
  OBVIOUS
<1> PICK n : n = gdisk.move[2]
  OBVIOUS
<1> PICK m : m = Fetch(a)
  OBVIOUS
<1> PICK log : log = Without(disk[a], n)
  OBVIOUS
<1> PICK g : g = PrepMove(gstate, None)
  OBVIOUS
<1> PICK o : o = [NoOp EXCEPT !.call = "repair", !.stage = "deorphan"]
  OBVIOUS
<1>1. /\ TypeOK /\ Threaded /\ Entered /\ gdelta = {}
      /\ op = NoOp /\ walk = None /\ gdisk.move \in GMoves /\ gdisk.move # None
  BY FreshGstates DEF IInv, Summed, Demove, Idle, Free
<1>2. a \in Listed /\ n \in Names /\ gdisk.move = <<a, n>>
  BY <1>1 DEF IInv, Summed, GMoves
<1>3. /\ m \in Mdirs /\ Copy(m) /\ m.pair = a /\ m.log = disk[a]
      /\ disk[a] \in Logs /\ a \in Pairs
  BY <1>1, <1>2, FetchIsCopy
<1>4. /\ log \in Logs /\ log.tail = m.log.tail /\ log.delta = m.log.delta
      /\ \A k \in Names : log.ents[k] = IF k = n THEN None ELSE disk[a].ents[k]
  BY <1>2, <1>3, WithoutIsLog
<1>5. g \in Gstates /\ g.orphans \in 0 .. 1 /\ g.move = None
  BY FreshGstates
<1>6. o \in Ops /\ o.stage = "deorphan" /\ o.call = "repair" /\ o.vic = None
  <2>1. "deorphan" \in Stages
    BY DEF Stages
  <2> QED
    BY ONLY <2>1, o = [NoOp EXCEPT !.call = "repair", !.stage = "deorphan"], RepairIsOp
<1>7. CommitInPlace(m, log, g, gdelta, o, None, FALSE)
  <2>1. Commits(m, log, g, gdelta, o)
    BY DEF Demove
  <2> QED
    BY ONLY PairsStay, <1>6, <2>1, CommitEither
<1>8. op.stage # "attach"
  BY <1>1 DEF NoOp
<1>9. Threaded' /\ Listed' = Listed /\ Summed' /\ Landed(m, log, g, o, FALSE)
  BY ZenonT(60), <1>3, <1>4, <1>5, <1>6, <1>7, <1>8, Edited
<1>10. /\ TypeOK' /\ loc' = None /\ fault' = "none" /\ gstate' = g /\ gdisk' = g
       /\ \A p \in Pairs \ {a} : disk'[p] = disk[p]
       /\ disk'[a].ents = log.ents
       /\ walk' = walk /\ op' = o
  BY <1>3, <1>6, <1>9 DEF Landed, Tracked
<1>11. Entered'
  <2>1. ASSUME NEW b \in Listed, NEW k \in Names, disk'[b].ents[k] \in Pairs
        PROVE  /\ disk'[b].ents[k] = disk[b].ents[k] /\ disk[b].ents[k] \in Listed
               /\ ~Hidden(gdisk.move, b, k)
    <3>1. disk'[b].ents[k] = disk[b].ents[k] /\ ~(b = a /\ k = n)
      BY <1>1, <1>4, <1>10, <2>1, PairsAreDistinct, ListedPairs
    <3>2. disk[b].ents[k] \in Listed
      BY <1>1, <2>1, <3>1 DEF Entered
    <3>3. ~Hidden(gdisk.move, b, k)
      BY <1>1, <1>2, <3>1, ListedPairs, SameIsEqual DEF Hidden
    <3> QED
      BY <3>1, <3>2, <3>3
  <2> QED
    BY <1>1, <1>9, <1>10, <2>1, EnteredAfter
<1>12. Calling' /\ Repairing'
  BY <1>1, <1>5, <1>6, <1>10 DEF Calling, Repairing, NoOp
<1> QED
  BY <1>9, <1>10, <1>11, <1>12 DEF IInv

LEMMA DeorphanKeeps ==
  ASSUME IInv, Deorphan, calls' \in 0 .. MaxCalls
  PROVE  IInv'
<1>1. /\ disk' = disk /\ gstate' = gstate /\ gdisk' = gdisk /\ gdelta' = gdelta
      /\ loc' = loc /\ moves' = moves /\ fault' = "none"
      /\ op' = [NoOp EXCEPT !.call = "repair", !.stage = "ready"]
      /\ walk' = NewWalk(TRUE)
      /\ op.stage # "attach" /\ gdisk.move = None
  BY DEF Deorphan, IInv, Calling, NoOp
<1>2. op' \in Ops /\ op'.stage = "ready" /\ op'.call = "repair" /\ op' # NoOp
  BY <1>1, RepairIsOp DEF Stages, NoOp
<1>3. Threaded' /\ Entered' /\ Summed' /\ Listed' = Listed
  BY <1>1, <1>2, FreshGstates, QuietKeeps
<1>4. /\ Fetch(RootPair) \in Mdirs /\ Fetch(RootPair).pair = RootPair
      /\ Fetch(RootPair).log = disk[RootPair] /\ RootPair \in Listed
  BY ListedPairs, FetchIsCopy DEF IInv
<1>5. /\ walk' \in Walks \cup {None}
      /\ walk' # None => walk'.pdir = Fetch(RootPair)
      /\ walk' = None => gstate.orphans = 0
  <2>1. gstate.orphans \in 0 .. 1
    BY FreshGstates
  <2>2. CASE gstate.orphans > 0
    <3>1. walk' = [pass |-> 0, pdir |-> Fetch(RootPair), more |-> FALSE, powerloss |-> TRUE]
      BY <1>1, <2>2 DEF NewWalk
    <3>2. walk' \in Walks
      BY <1>4, <3>1 DEF Walks
    <3>3. gstate.orphans # 0
      BY <2>1, <2>2
    <3>4. walk' # None /\ walk'.pdir = Fetch(RootPair)
      BY <3>1, <3>2, NoneAssumption
    <3> QED
      BY <3>2, <3>3, <3>4
  <2>3. CASE gstate.orphans = 0
    BY <1>1, <2>3 DEF NewWalk
  <2> QED
    BY <2>1, <2>2, <2>3
<1>6. TypeOK'
  BY <1>1, <1>2, <1>5 DEF IInv, TypeOK, Faults
<1>7. Calling'
  BY <1>1, <1>2, <1>5 DEF Calling
<1>8. Repairing'
  BY <1>1, <1>2, <1>3, <1>4, <1>5 DEF Repairing, Copy
<1> QED
  BY <1>1, <1>3, <1>6, <1>7, <1>8 DEF IInv

LEMMA MkConsistentKeeps ==
  ASSUME IInv, PairsStay, MkConsistent, calls' \in 0 .. MaxCalls
  PROVE  IInv'
<1> PICK m : m = Fetch(RootPair)
  OBVIOUS
<1> PICK o : o = [NoOp EXCEPT !.call = "repair", !.stage = "end"]
  OBVIOUS
<1>1. /\ TypeOK /\ Threaded /\ Entered /\ gdelta = {} /\ walk = None
      /\ gdisk.move = None /\ gstate.move = None /\ gstate.orphans = 0
      /\ op.stage # "attach"
  BY ReadyState DEF MkConsistent
<1>2. /\ m \in Mdirs /\ Copy(m) /\ m.pair = RootPair /\ m.log = disk[RootPair] /\ m.log \in Logs
  BY <1>1, ListedPairs, FetchIsCopy
<1>3. gstate \in Gstates /\ gstate.orphans \in 0 .. 1
  BY FreshGstates
<1>4. o \in Ops /\ o.stage = "end" /\ o.call = "repair" /\ o.vic = None
  <2>1. "end" \in Stages
    BY DEF Stages
  <2> QED
    BY ONLY <2>1, o = [NoOp EXCEPT !.call = "repair", !.stage = "end"], RepairIsOp
<1>5. CommitInPlace(m, m.log, gstate, gdelta, o, None, FALSE)
  <2>1. Commits(m, m.log, gstate, gdelta, o)
    BY <1>2 DEF MkConsistent
  <2> QED
    BY <1>4, <2>1, CommitEither
<1>6. Threaded' /\ Listed' = Listed /\ Summed' /\ Landed(m, m.log, gstate, o, FALSE)
  BY <1>1, <1>2, <1>3, <1>4, <1>5, Edited
<1>7. /\ TypeOK' /\ loc' = None /\ fault' = "none" /\ gstate' = gstate /\ gdisk' = gstate
      /\ \A p \in Pairs \ {RootPair} : disk'[p] = disk[p]
      /\ disk'[RootPair].ents = disk[RootPair].ents
      /\ walk' = walk /\ op' = o
  BY <1>2, <1>4, <1>6 DEF Landed, Tracked
<1>8. Entered'
  <2>1. \A a \in Listed, n \in Names : disk'[a].ents[n] = disk[a].ents[n]
    BY <1>1, <1>7, ListedPairs
  <2>2. \A a \in Listed, n \in Names : disk[a].ents[n] \in Pairs => disk[a].ents[n] \in Listed
    BY <1>1 DEF Entered
  <2> QED
    BY <1>1, <1>6, <2>1, <2>2, EnteredAfter DEF Hidden
<1>9. Calling' /\ Repairing'
  BY <1>1, <1>4, <1>7 DEF Calling, Repairing, NoOp
<1> QED
  BY <1>6, <1>7, <1>8, <1>9 DEF IInv

\* The walk of lfs_fs_deorphan.
LEMMA WalkState ==
  ASSUME IInv, walk # None
  PROVE  /\ op.stage = "ready" /\ op.call = "repair" /\ Copy(walk.pdir)
         /\ walk \in Walks /\ walk.pdir \in Mdirs
         /\ gdisk.move = None /\ gstate.move = None
         /\ walk.pdir.log.tail # None =>
              /\ walk.pdir.log.tail \in Listed \ {RootPair}
              /\ disk[walk.pdir.pair].tail = walk.pdir.log.tail
              /\ walk.pdir.pair # walk.pdir.log.tail
<1>1. op.stage = "ready" /\ op.call = "repair" /\ Copy(walk.pdir)
  BY DEF IInv, Repairing
<1>2. walk \in Walks /\ walk.pdir \in Mdirs
  BY DEF IInv, TypeOK, Walks
<1>3. gdisk.move = None /\ gstate.move = None
  BY <1>1 DEF IInv, Calling, Summed
<1>4. Threaded
  BY DEF IInv
<1> QED
  BY <1>1, <1>2, <1>3, <1>4, ListedPairs DEF Copy

\* The walk goes on with a copy of pair a.
LEMMA WalkKeeps ==
  ASSUME IInv, walk # None, disk' = disk, gdisk' = gdisk, gdelta' = gdelta, gstate' = gstate,
         op' = op, loc' = loc, moves' = moves, fault' = "none", calls' \in 0 .. MaxCalls,
         NEW a \in Listed, walk' \in Walks, walk'.pdir = Fetch(a)
  PROVE  IInv'
<1>1. Threaded' /\ Entered' /\ Summed' /\ Listed' = Listed
  <2>1. op.stage # "attach"
    BY WalkState
  <2> QED
    BY <2>1, FreshGstates, QuietKeeps
<1>2. TypeOK'
  BY DEF IInv, TypeOK, Faults
<1>3. walk' # None
  BY NoneAssumption
<1>4. op.stage = "ready" /\ op.call = "repair" /\ gdisk.move = None
  BY WalkState
<1>5. Calling'
  BY <1>3, <1>4 DEF IInv, Calling
<1>6. Repairing'
  <2>1. Fetch(a).pair = a /\ Fetch(a).log = disk[a]
    BY DEF Fetch
  <2> QED
    BY <1>1, <1>4, <2>1 DEF Repairing, Copy
<1> QED
  BY <1>1, <1>2, <1>5, <1>6 DEF IInv

LEMMA WalkOnKeeps ==
  ASSUME IInv, WalkOn, calls' \in 0 .. MaxCalls
  PROVE  IInv'
<1> PICK t : t = AheadOf(walk)
  OBVIOUS
<1>1. walk # None /\ t \in Listed /\ walk \in Walks
  BY WalkState DEF WalkOn, Walking, AheadOf
<1>2. Fetch(t) \in Mdirs
  BY <1>1, FetchIsCopy DEF IInv
<1>3. walk' = [walk EXCEPT !.pdir = Fetch(t)]
  BY DEF WalkOn
<1>4. walk' \in Walks /\ walk'.pdir = Fetch(t)
  BY <1>1, <1>2, <1>3 DEF Walks
<1> QED
  BY <1>1, <1>4, WalkKeeps DEF WalkOn

LEMMA EndPassKeeps ==
  ASSUME IInv, EndPass, calls' \in 0 .. MaxCalls
  PROVE  IInv'
<1>1. walk # None /\ walk \in Walks /\ op.stage = "ready" /\ op.call = "repair" /\ gdisk.move = None
  BY WalkState DEF EndPass
<1>2. /\ fault' = "none" /\ disk' = disk /\ gdisk' = gdisk /\ gdelta' = gdelta /\ op' = op
      /\ loc' = loc /\ moves' = moves
  BY DEF EndPass
<1>3. CASE walk.pass = 1 /\ ~walk.more
  <2>1. walk' = None /\ gstate' = [gstate EXCEPT !.orphans = 0]
    BY <1>3 DEF EndPass
  <2>2. gstate' \in Gstates /\ gstate'.orphans = 0 /\ gstate'.move = gstate.move
    <3>1. gstate \in Gstates /\ 0 \in 0 .. MaxMoves + 1
      BY FreshGstates, TreeAssumption
    <3> QED
      BY <2>1, <3>1 DEF Gstates
  <2>3. Threaded' /\ Entered' /\ Summed' /\ Listed' = Listed
    <3>1. gstate'.orphans \in 0 .. 1
      BY <2>2
    <3> QED
      BY <1>1, <1>2, <2>2, <3>1, QuietKeeps
  <2>4. TypeOK'
    BY <1>2, <2>1, <2>2 DEF IInv, TypeOK, Faults
  <2>5. Calling' /\ Repairing'
    BY <1>1, <1>2, <2>1, <2>2 DEF IInv, Calling, Repairing
  <2> QED
    BY <1>2, <2>3, <2>4, <2>5 DEF IInv
<1>4. CASE ~(walk.pass = 1 /\ ~walk.more)
  <2>1. /\ gstate' = gstate
        /\ walk' = [walk EXCEPT !.pass = IF walk.more THEN 0 ELSE 1, !.more = FALSE,
                                !.pdir = Fetch(RootPair)]
    BY <1>4 DEF EndPass
  <2>2. RootPair \in Listed /\ Fetch(RootPair) \in Mdirs
    BY ListedPairs, FetchIsCopy DEF IInv
  <2>3. walk' \in Walks /\ walk'.pdir = Fetch(RootPair)
    BY <1>1, <2>1, <2>2 DEF Walks
  <2> QED
    BY <1>1, <1>2, <2>1, <2>2, <2>3, WalkKeeps
<1> QED
  BY <1>3, <1>4

LEMMA FixHalfOrphanKeeps ==
  ASSUME IInv, FixHalfOrphan
  PROVE  IInv'
<1> PICK t : t = AheadOf(walk)
  OBVIOUS
<1>1. t \in Listed
  BY WalkState DEF FixHalfOrphan, Walking, AheadOf
<1>2. Parent(t) # None /\ disk[Parent(t)].ents[EntryOf(Parent(t), t)] # t
  BY DEF FixHalfOrphan, HalfOrphan
<1> QED
  BY <1>1, <1>2, NoHalfOrphan DEF IInv

LEMMA FixOrphanKeeps ==
  ASSUME IInv, PairsStay, FixOrphan, calls' \in 0 .. MaxCalls
  PROVE  IInv'
<1> PICK t : t = AheadOf(walk)
  OBVIOUS
<1> PICK m : m = walk.pdir
  OBVIOUS
<1> PICK log : log = [m.log EXCEPT !.tail = disk[t].tail]
  OBVIOUS
<1> PICK d : d = Xor(gdelta, disk[t].delta)
  OBVIOUS
<1>1. /\ walk # None /\ walk \in Walks /\ m \in Mdirs /\ Copy(m)
      /\ op.stage = "ready" /\ op.call = "repair"
      /\ gdisk.move = None /\ gstate.move = None
      /\ t \in Listed \ {RootPair} /\ m.log.tail = t /\ m.pair # t
  BY WalkState DEF FixOrphan, Walking, AheadOf
<1>2. TypeOK /\ Threaded /\ Entered /\ op \in Ops
  BY DEF IInv, TypeOK
<1>3. log \in Logs /\ log.tail = disk[t].tail /\ log.delta = m.log.delta /\ log.ents = m.log.ents
  <2>1. m.log \in Logs
    BY <1>1 DEF Mdirs
  <2>2. disk[t].tail \in Pairs \cup {None}
    BY <1>1, <1>2, ListedPairs
  <2> QED
    BY <2>1, <2>2 DEF Logs
<1>4. gstate \in Gstates /\ gstate.orphans \in 0 .. 1
  BY FreshGstates
<1>5. CommitInPlace(m, log, gstate, d, op, None, TRUE)
  <2>1. Commit(m, log, gstate, d, op, None, FALSE, TRUE)
    BY DEF FixOrphan
  <2> QED
    BY <1>1, <2>1 DEF PairsStay, Commit, CommitMoved, CommitFails
<1>6. Threaded' /\ Listed' = Listed \ {t} /\ Summed' /\ Landed(m, log, gstate, op, TRUE)
  <2>1. op.stage # "attach" /\ t \in Listed
    BY <1>1
  <2> QED
    BY <1>1, <1>2, <1>3, <1>4, <1>5, <2>1, Dropped
<1>7. /\ TypeOK' /\ loc' = None /\ fault' = "none" /\ gstate' = gstate /\ gdisk' = gstate
      /\ \A p \in Pairs \ {m.pair} : disk'[p] = disk[p]
      /\ disk'[m.pair].ents = log.ents
      /\ walk' = [walk EXCEPT !.pdir = [pair |-> m.pair, log |-> disk'[m.pair]]]
      /\ op' = op
  BY <1>1, <1>6 DEF Landed, Tracked
<1>8. Unreferred(t)
  <2>1. Parent(t) = None
    BY DEF FixOrphan, FullOrphan
  <2> QED
    BY <1>1, <1>2, <2>1, OrphanIsUnreferred
<1>9. Entered'
  <2>1. \A a \in Listed, n \in Names : disk'[a].ents[n] = disk[a].ents[n]
    BY <1>1, <1>2, <1>3, <1>7, ListedPairs DEF Copy
  <2>2. \A a \in Listed, n \in Names : disk[a].ents[n] \in Pairs => disk[a].ents[n] \in Listed \ {t}
    BY <1>2, <1>8 DEF Entered, Unreferred
  <2> QED
    BY <1>1, <1>2, <1>6, <2>1, <2>2, EnteredAfter DEF Hidden
<1>10. /\ walk'.pdir = [pair |-> m.pair, log |-> disk'[m.pair]]
       /\ walk' # None
  <2>1. [pair |-> m.pair, log |-> disk'[m.pair]] \in Mdirs
    BY <1>1, <1>7 DEF TypeOK, Mdirs
  <2>2. walk' \in Walks
    BY <1>1, <1>7, <2>1 DEF Walks
  <2> QED
    BY <1>1, <1>7, <2>2, NoneAssumption DEF Walks
<1>11. Calling' /\ Repairing'
  <2>1. m.pair \in Listed'
    BY <1>1, <1>6 DEF Copy
  <2>2. op # NoOp
    BY <1>1 DEF NoOp
  <2>3. Calling'
    BY <1>1, <1>7, <1>10, <2>2 DEF Calling
  <2>4. Repairing'
    BY <1>1, <1>7, <1>10, <2>1 DEF Repairing, Copy
  <2> QED
    BY <2>3, <2>4
<1> QED
  BY <1>6, <1>7, <1>9, <1>11 DEF IInv

-----------------------------------------------------------------------------
(***************************************************************************)
(* One lemma for each action: the calls.                                   *)
(***************************************************************************)

LEMMA CreateKeeps ==
  ASSUME IInv, PairsStay, NEW a \in Listed, NEW n \in Names, NEW f \in Files, Create(a, n, f),
         calls' \in 0 .. MaxCalls
  PROVE  IInv'
<1> PICK m : m = Fetch(a)
  OBVIOUS
<1> PICK log : log = [disk[a] EXCEPT !.ents[n] = f]
  OBVIOUS
<1> PICK o : o = Call("create", "end", {}, {Edge(a, n, f)})
  OBVIOUS
<1>1. /\ TypeOK /\ Threaded /\ Entered /\ gdelta = {} /\ walk = None
      /\ gdisk.move = None /\ gstate.move = None /\ gstate.orphans = 0
      /\ op.stage # "attach"
  BY ReadyState DEF Create
<1>2. /\ m \in Mdirs /\ Copy(m) /\ m.pair = a /\ m.log = disk[a] /\ m.log \in Logs /\ a \in Pairs
  BY <1>1, FetchIsCopy
<1>3. gstate \in Gstates /\ gstate.orphans \in 0 .. 1
  BY FreshGstates
<1>4. /\ log \in Logs /\ log.tail = m.log.tail /\ log.delta = m.log.delta
      /\ \A k \in Names : log.ents[k] = IF k = n THEN f ELSE disk[a].ents[k]
  <2>1. f \in Objects
    BY DEF Objects
  <2> QED
    BY <1>2, <2>1, EntryIsLog
<1>5. o \in Ops /\ o.stage = "end" /\ o.call = "create" /\ o.vic = None
  <2>1. {} \in SUBSET Edges /\ {Edge(a, n, f)} \in SUBSET Edges
    BY <1>2, PairsAreDistinct DEF Edge, Edges, Id, Pairs
  <2>2. "create" \in Calls /\ "end" \in Stages
    BY DEF Calls, Stages
  <2> QED
    BY <2>1, <2>2, CallIsOp
<1>6. Commits(m, log, gstate, gdelta, o)
  BY DEF Create
<1>7. CASE CommitFails(gstate, gdelta, o)
  BY <1>1, <1>3, <1>7, FailKeeps
<1>8. CASE CommitInPlace(m, log, gstate, gdelta, o, None, FALSE)
  <2>1. Threaded' /\ Listed' = Listed /\ Summed' /\ Landed(m, log, gstate, o, FALSE)
    BY <1>1, <1>2, <1>3, <1>4, <1>5, <1>8, Edited
  <2>2. /\ TypeOK' /\ loc' = None /\ fault' = "none" /\ gstate' = gstate /\ gdisk' = gstate
        /\ \A p \in Pairs \ {a} : disk'[p] = disk[p]
        /\ disk'[a].ents = log.ents
        /\ walk' = walk /\ op' = o
    BY <1>2, <1>5, <2>1 DEF Landed, Tracked
  <2>3. Entered'
    <3>1. \A b \in Listed, k \in Names :
            disk'[b].ents[k] = IF b = a /\ k = n THEN f ELSE disk[b].ents[k]
      <4>1. Listed \subseteq Pairs
        BY <1>1, ListedPairs
      <4> QED
        BY ONLY <1>4, <2>2, <4>1
    <3>2. f \notin Pairs
      BY PairsAreDistinct
    <3>3. \A b \in Listed, k \in Names :
            disk'[b].ents[k] \in Pairs => disk'[b].ents[k] = disk[b].ents[k]
      BY <3>1, <3>2
    <3>4. \A b \in Listed, k \in Names : disk[b].ents[k] \in Pairs => disk[b].ents[k] \in Listed
      BY <1>1 DEF Entered
    <3> QED
      BY <1>1, <2>1, <3>3, <3>4, EnteredAfter DEF Hidden
  <2>4. Calling' /\ Repairing'
    BY <1>1, <1>5, <2>2 DEF Calling, Repairing, NoOp
  <2> QED
    BY <2>1, <2>2, <2>3, <2>4 DEF IInv
<1> QED
  BY <1>6, <1>7, <1>8, CommitEither

\* A directory that is not empty has no entry here; a directory has one entry.
LEMMA OneEntry ==
  ASSUME Entered, gdisk.move = None, NEW a \in Listed, NEW b \in Listed,
         NEW n \in Names, NEW k \in Names,
         disk[a].ents[n] \in Pairs, disk[a].ents[n] = disk[b].ents[k]
  PROVE  a = b /\ n = k
BY DEF Entered, Hidden

LEMMA RemoveKeeps ==
  ASSUME IInv, PairsStay, NEW a \in Listed, NEW n \in Names, Remove(a, n),
         calls' \in 0 .. MaxCalls
  PROVE  IInv'
<1> PICK e : e = disk[a].ents[n]
  OBVIOUS
<1> PICK m : m = Fetch(a)
  OBVIOUS
<1> PICK log : log = Without(disk[a], n)
  OBVIOUS
<1> PICK c : c = Call("remove", "drop", {Edge(a, n, e)}, {})
  OBVIOUS
<1>1. /\ TypeOK /\ Threaded /\ Entered /\ gdelta = {} /\ walk = None
      /\ gdisk.move = None /\ gstate.move = None /\ gstate.orphans = 0
      /\ op.stage # "attach"
  BY ReadyState DEF Remove
<1>2. /\ m \in Mdirs /\ Copy(m) /\ m.pair = a /\ m.log = disk[a] /\ m.log \in Logs /\ a \in Pairs
  BY <1>1, FetchIsCopy
<1>3. e # None
  BY DEF Remove
<1>4. /\ log \in Logs /\ log.tail = m.log.tail /\ log.delta = m.log.delta
      /\ \A k \in Names : log.ents[k] = IF k = n THEN None ELSE disk[a].ents[k]
  BY <1>2, WithoutIsLog
<1>5. /\ c \in Ops /\ c.stage = "drop" /\ c.call = "remove" /\ c.vic = None
  <2>1. {} \in SUBSET Edges /\ {Edge(a, n, e)} \in SUBSET Edges
    BY <1>3, EdgeIsEdge
  <2>2. "remove" \in Calls /\ "drop" \in Stages
    BY DEF Calls, Stages
  <2> QED
    BY <2>1, <2>2, CallIsOp
<1> PICK g : g = IF e \in Pairs THEN PrepOrphans(gstate, 1) ELSE gstate
  OBVIOUS
<1> PICK o : o = IF e \in Pairs THEN [c EXCEPT !.vic = Fetch(e)] ELSE c
  OBVIOUS
<1>6. /\ g \in Gstates /\ g.orphans \in 0 .. 1 /\ g.move = None
      /\ g.orphans > 0 <=> e \in Pairs
  BY <1>1, FreshGstates
<1>7. e \in Pairs => /\ e \in Listed \ {RootPair} /\ Fetch(e) \in Mdirs /\ Fetch(e).pair = e
                     /\ Fetch(e).log = disk[e] /\ Fetch(e) # None
  <2>1. ASSUME e \in Pairs PROVE e \in Listed \ {RootPair}
    BY <1>1, <2>1 DEF Entered
  <2> QED
    BY <1>1, <2>1, FetchIsCopy, NoneAssumption
<1>8. /\ o \in Ops /\ o.stage = "drop" /\ o.call = "remove"
      /\ o.vic = IF e \in Pairs THEN Fetch(e) ELSE None
  <2>1. CASE e \in Pairs
    <3>1. o = [c EXCEPT !.vic = Fetch(e)]
      BY <2>1
    <3> QED
      BY ZenonT(60), <1>5, <1>7, <2>1, <3>1 DEF Ops
  <2>2. CASE e \notin Pairs
    BY <1>5, <2>2
  <2> QED
    BY <2>1, <2>2
<1>9. Commits(m, log, g, gdelta, o)
  BY DEF Remove
<1>10. CASE CommitFails(g, gdelta, o)
  BY <1>1, <1>6, <1>10, FailKeeps
<1>11. CASE CommitInPlace(m, log, g, gdelta, o, None, FALSE)
  <2>1. Threaded' /\ Listed' = Listed /\ Summed' /\ Landed(m, log, g, o, FALSE)
    BY <1>1, <1>2, <1>4, <1>6, <1>8, <1>11, Edited
  <2>2. /\ TypeOK' /\ loc' = None /\ fault' = "none" /\ gstate' = g /\ gdisk' = g
        /\ \A p \in Pairs \ {a} : disk'[p] = disk[p]
        /\ disk'[a].ents = log.ents
        /\ walk' = walk
    BY <1>2, <2>1 DEF Landed
  <2>3. \A b \in Listed, k \in Names :
          disk'[b].ents[k] = IF b = a /\ k = n THEN None ELSE disk[b].ents[k]
    BY <1>1, <1>4, <2>2, ListedPairs
  <2>4. Entered'
    <3>1. \A b \in Listed, k \in Names : disk[b].ents[k] \in Pairs => disk[b].ents[k] \in Listed
      BY <1>1 DEF Entered
    <3> QED
      BY <1>1, <2>1, <2>3, <3>1, PairsAreDistinct, EnteredAfter DEF Hidden
  <2>5. op'.stage = "drop" /\ (op'.vic # None <=> e \in Pairs)
        /\ (e \in Pairs => op'.vic.pair = e /\ op'.vic.log = disk'[e])
    <3>1. /\ op'.stage = "drop"
          /\ op'.vic = IF Tracked(o) /\ Same(o.vic.pair, a)
                       THEN [pair |-> a, log |-> disk'[a]] ELSE o.vic
      BY ONLY <1>2, <1>8, <2>1, LandedOp
    <3>2. CASE e \in Pairs
      <4>1. e \in Firsts /\ a \in Firsts /\ disk'[a] \in Logs /\ (e # a => disk'[e] = disk[e])
        BY <1>1, <1>2, <1>7, <2>2, <3>2, ListedPairs DEF TypeOK
      <4>2. Tracked(o) /\ (Same(o.vic.pair, a) <=> e = a)
        BY <1>7, <1>8, <3>2, <4>1, SameIsEqual DEF Tracked
      <4>3. [pair |-> a, log |-> disk'[a]] \in Mdirs
        BY <1>2, <4>1 DEF Mdirs
      <4> QED
        BY <1>7, <1>8, <3>1, <3>2, <4>1, <4>2, <4>3, NoneAssumption
    <3>3. CASE e \notin Pairs
      BY <1>8, <3>1, <3>3 DEF Tracked
    <3> QED
      BY <3>1, <3>2, <3>3
  <2>6. e \in Pairs => \A b \in Listed, k \in Names : disk'[b].ents[k] # e
    BY <1>1, <2>3, OneEntry, PairsAreDistinct
  <2>7. Victim'
    BY <1>6, <1>7, <2>1, <2>2, <2>5, <2>6 DEF Victim, Copy, Unreferred
  <2>8. Calling' /\ Repairing'
    <3>1. op' # NoOp
      BY <2>5 DEF NoOp
    <3> QED
      BY <1>1, <1>6, <2>2, <2>5, <2>7, <3>1 DEF Calling, Repairing
  <2> QED
    BY <2>1, <2>2, <2>4, <2>8 DEF IInv
<1> QED
  BY <1>9, <1>10, <1>11, CommitEither

LEMMA BeginGcKeeps ==
  ASSUME IInv, Ready, BeginGc, calls' \in 0 .. MaxCalls
  PROVE  IInv'
<1>1. /\ TypeOK /\ Threaded /\ gdelta = {} /\ walk = None /\ loc = None
      /\ gdisk.move = None /\ gstate.orphans = 0 /\ op.stage # "attach"
  BY ReadyState
<1>2. /\ op' = [Call("gc", "gc", {}, {}) EXCEPT !.new = RootPair] /\ fault' = "none"
      /\ disk' = disk /\ gstate' = gstate /\ gdisk' = gdisk /\ gdelta' = gdelta
      /\ loc' = loc /\ walk' = walk /\ moves' = moves
  BY DEF BeginGc
<1>3. RootPair \in Listed /\ RootPair \in Pairs
  BY <1>1, ListedPairs
<1>4. op' \in Ops /\ op'.stage = "gc" /\ op'.new = RootPair
  <2>1. {} \in SUBSET Edges /\ "gc" \in Calls /\ "gc" \in Stages
    BY DEF Calls, Stages
  <2>2. Call("gc", "gc", {}, {}) \in Ops /\ Call("gc", "gc", {}, {}).stage = "gc"
    BY <2>1, CallIsOp
  <2> QED
    BY <1>2, <1>3, <2>2 DEF Ops
<1>5. Threaded' /\ Entered' /\ Summed' /\ Listed' = Listed
  BY <1>1, <1>2, <1>4, FreshGstates, QuietKeeps
<1>6. TypeOK'
  BY <1>1, <1>2, <1>4 DEF TypeOK, Faults
<1>7. Calling' /\ Repairing'
  BY <1>1, <1>2, <1>3, <1>4, <1>5 DEF Calling, Repairing, NoOp
<1> QED
  BY <1>1, <1>2, <1>5, <1>6, <1>7 DEF IInv

LEMMA GcKeeps ==
  ASSUME IInv, PairsStay, Gc, calls' \in 0 .. MaxCalls
  PROVE  IInv'
<1> PICK m : m = Fetch(op.new)
  OBVIOUS
<1> PICK o : o = [op EXCEPT !.new = m.log.tail,
                            !.stage = IF m.log.tail = None THEN "end" ELSE "gc"]
  OBVIOUS
<1>1. /\ TypeOK /\ Threaded /\ Entered /\ op \in Ops /\ op.stage = "gc" /\ op.new \in Listed
      /\ gdisk.move = None /\ gstate.move = None /\ gstate.orphans = 0 /\ loc = None /\ walk = None
  BY DEF IInv, Calling, Summed, TypeOK, Gc, Free
<1>2. /\ m \in Mdirs /\ Copy(m) /\ m.pair = op.new /\ m.log = disk[op.new] /\ m.log \in Logs
  BY <1>1, FetchIsCopy
<1>3. m.log.tail \in Listed \cup {None} /\ m.log.tail \in Pairs \cup {None}
  BY <1>1, <1>2, ListedPairs
<1>4. /\ o \in Ops /\ o.stage \in {"gc", "end"} /\ o.new = m.log.tail
      /\ o.stage = "gc" => m.log.tail # None
  BY ZenonT(60), <1>1, <1>3 DEF Ops, Stages
<1>5. gstate \in Gstates /\ gstate.orphans \in 0 .. 1
  BY FreshGstates
<1>6. CASE /\ op' = o /\ fault' = "none"
           /\ UNCHANGED <<disk, gstate, gdisk, gdelta, loc, walk, moves>>
  <2>1. Threaded' /\ Entered' /\ Summed' /\ Listed' = Listed
    BY <1>1, <1>4, <1>6, FreshGstates, QuietKeeps
  <2>2. TypeOK'
    BY <1>1, <1>4, <1>6 DEF TypeOK, Faults
  <2>3. o # NoOp
    BY <1>4 DEF NoOp
  <2>4. Calling' /\ Repairing'
    BY <1>1, <1>3, <1>4, <1>6, <2>1, <2>3 DEF Calling, Repairing
  <2> QED
    BY <1>1, <1>6, <2>1, <2>2, <2>4 DEF IInv
<1>7. CASE Commits(m, m.log, gstate, gdelta, o)
  <2>1. CommitInPlace(m, m.log, gstate, gdelta, o, None, FALSE)
    BY <1>1, <1>7, CommitEither
  <2>2. Threaded' /\ Listed' = Listed /\ Summed' /\ Landed(m, m.log, gstate, o, FALSE)
    BY <1>1, <1>2, <1>4, <1>5, <2>1, Edited
  <2>3. /\ TypeOK' /\ loc' = None /\ fault' = "none" /\ gstate' = gstate /\ gdisk' = gstate
        /\ \A p \in Pairs \ {m.pair} : disk'[p] = disk[p]
        /\ disk'[m.pair].ents = disk[m.pair].ents
        /\ walk' = walk
    BY <1>2, <2>2 DEF Landed
  <2>4. op'.stage = o.stage /\ op'.new = o.new
    BY ONLY <1>4, <2>2, LandedOp
  <2>5. Entered'
    <3>1. \A a \in Listed, n \in Names : disk'[a].ents[n] = disk[a].ents[n]
      BY <1>1, <2>3, ListedPairs
    <3>2. \A a \in Listed, n \in Names : disk[a].ents[n] \in Pairs => disk[a].ents[n] \in Listed
      BY <1>1 DEF Entered
    <3> QED
      BY <1>1, <2>2, <3>1, <3>2, EnteredAfter DEF Hidden
  <2>6. Calling' /\ Repairing'
    <3>1. op' # NoOp
      BY <1>4, <2>4 DEF NoOp
    <3> QED
      BY <1>1, <1>3, <1>4, <2>2, <2>3, <2>4, <3>1 DEF Calling, Repairing
  <2> QED
    BY <2>2, <2>3, <2>5, <2>6 DEF IInv
<1> QED
  BY <1>6, <1>7 DEF Gc

LEMMA ReturnKeeps ==
  ASSUME IInv, Return, calls' \in 0 .. MaxCalls
  PROVE  IInv'
<1>1. /\ TypeOK /\ walk = None /\ loc = None /\ op.stage # "attach"
  BY DEF IInv, Return, Free
<1>2. /\ op' = NoOp /\ fault' = "none"
      /\ disk' = disk /\ gstate' = gstate /\ gdisk' = gdisk /\ gdelta' = gdelta
      /\ loc' = loc /\ walk' = walk /\ moves' = moves
  BY DEF Return
<1>3. op' \in Ops /\ op'.stage = "idle"
  BY <1>2 DEF NoOp, Ops, Stages, NoChange
<1>4. Threaded' /\ Entered' /\ Summed' /\ Listed' = Listed
  BY <1>1, <1>2, <1>3, FreshGstates, QuietKeeps
<1>5. TypeOK'
  BY <1>1, <1>2, <1>3 DEF TypeOK, Faults
<1>6. Calling' /\ Repairing'
  BY <1>1, <1>2, <1>3 DEF Calling, Repairing
<1> QED
  BY <1>1, <1>2, <1>4, <1>5, <1>6 DEF IInv

LEMMA RenameDeletedKeeps ==
  ASSUME IInv, RenameDeleted, calls' \in 0 .. MaxCalls
  PROVE  IInv'
<1>1. /\ TypeOK /\ op \in Ops /\ walk = None /\ loc = None /\ op.stage = "moved" /\ Moving
      /\ gstate.move = gdisk.move
  BY DEF IInv, TypeOK, Calling, Summed, RenameDeleted, Free
<1>2. /\ op' = [op EXCEPT !.stage = "drop", !.cwd = None] /\ fault' = "none"
      /\ disk' = disk /\ gstate' = gstate /\ gdisk' = gdisk /\ gdelta' = gdelta
      /\ loc' = loc /\ walk' = walk /\ moves' = moves
  BY DEF RenameDeleted
<1>3. op' \in Ops /\ op'.stage = "drop" /\ op'.vic = op.vic
  BY <1>1, <1>2 DEF Ops, Stages
<1>4. gdisk.move = None
  BY <1>1 DEF Moving, RenameDeleted
<1>5. Threaded' /\ Entered' /\ Summed' /\ Listed' = Listed
  BY <1>1, <1>2, <1>3, FreshGstates, QuietKeeps
<1>6. TypeOK'
  BY <1>1, <1>2, <1>3 DEF TypeOK, Faults
<1>7. Victim'
  BY <1>1, <1>2, <1>3, <1>5 DEF Moving, Victim, Copy, Unreferred
<1>8. op' # NoOp
  BY <1>3 DEF NoOp
<1>9. Calling' /\ Repairing'
  BY <1>1, <1>2, <1>3, <1>4, <1>7, <1>8 DEF Calling, Repairing
<1> QED
  BY <1>1, <1>2, <1>5, <1>6, <1>9 DEF IInv

LEMMA RenameDeleteKeeps ==
  ASSUME IInv, PairsStay, RenameDelete, calls' \in 0 .. MaxCalls
  PROVE  IInv'
<1> PICK m : m = op.cwd
  OBVIOUS
<1> PICK a : a = m.pair
  OBVIOUS
<1> PICK n : n = op.name
  OBVIOUS
<1> PICK log : log = Without(m.log, n)
  OBVIOUS
<1> PICK g : g = PrepMove(gstate, None)
  OBVIOUS
<1> PICK o : o = [op EXCEPT !.stage = "drop", !.cwd = None]
  OBVIOUS
<1>1. /\ TypeOK /\ Threaded /\ Entered /\ op \in Ops /\ walk = None /\ loc = None
      /\ op.stage = "moved" /\ m # None /\ Victim
      /\ Copy(m) /\ gdisk.move = <<a, n>> /\ (op.vic # None => op.vic.pair # a)
      /\ gdisk.move # None /\ gdisk.move \in GMoves
  <2>1. gdisk.move # None /\ gdisk.move \in GMoves
    BY FreshGstates DEF RenameDelete
  <2> QED
    BY <2>1 DEF IInv, TypeOK, Calling, Moving, RenameDelete, Free
<1>2. /\ m \in Mdirs /\ m.log = disk[a] /\ m.log \in Logs /\ a \in Listed /\ a \in Pairs
      /\ n \in Names
  BY <1>1 DEF Copy, Ops, Mdirs, GMoves
<1>3. /\ log \in Logs /\ log.tail = m.log.tail /\ log.delta = m.log.delta
      /\ \A k \in Names : log.ents[k] = IF k = n THEN None ELSE disk[a].ents[k]
  BY SMTT(30), <1>2, WithoutIsLog
<1>4. g \in Gstates /\ g.orphans \in 0 .. 1 /\ g.move = None /\ g.orphans = gstate.orphans
  BY FreshGstates
<1>5. /\ o \in Ops /\ o.stage = "drop" /\ o.call = op.call /\ o.vic = op.vic
  BY <1>1 DEF Ops, Stages
<1>6. CommitInPlace(m, log, g, gdelta, o, None, FALSE)
  <2>1. Commits(m, log, g, gdelta, o)
    BY DEF RenameDelete
  <2> QED
    BY ONLY PairsStay, <1>1, <2>1, CommitEither
<1>7. Threaded' /\ Listed' = Listed /\ Summed' /\ Landed(m, log, g, o, FALSE)
  BY <1>1, <1>2, <1>3, <1>4, <1>5, <1>6, Edited
<1>8. /\ TypeOK' /\ loc' = None /\ fault' = "none" /\ gstate' = g /\ gdisk' = g
      /\ \A p \in Pairs \ {a} : disk'[p] = disk[p]
      /\ disk'[a].ents = log.ents
      /\ walk' = walk
  BY <1>7 DEF Landed
<1>9. \A b \in Listed, k \in Names :
        disk'[b].ents[k] = IF b = a /\ k = n THEN None ELSE disk[b].ents[k]
  <2>1. Listed \subseteq Pairs
    BY <1>1, ListedPairs
  <2> QED
    BY ONLY <1>3, <1>8, <2>1
<1>10. Entered'
  <2>1. ASSUME NEW b \in Listed, NEW k \in Names, disk'[b].ents[k] \in Pairs
        PROVE  /\ disk'[b].ents[k] = disk[b].ents[k] /\ disk[b].ents[k] \in Listed
               /\ ~Hidden(gdisk.move, b, k)
    <3>1. disk'[b].ents[k] = disk[b].ents[k] /\ ~(b = a /\ k = n)
      BY <1>9, <2>1, PairsAreDistinct
    <3>2. disk[b].ents[k] \in Listed
      BY <1>1, <2>1, <3>1 DEF Entered
    <3>3. ~Hidden(gdisk.move, b, k)
      BY <1>1, <1>2, <3>1, ListedPairs, SameIsEqual DEF Hidden
    <3> QED
      BY <3>1, <3>2, <3>3
  <2> QED
    BY <1>1, <1>7, <2>1, EnteredAfter
<1>11. op'.stage = "drop" /\ op'.vic = op.vic
  <2>1. /\ op'.stage = "drop"
        /\ op'.vic = IF Tracked(o) /\ Same(o.vic.pair, a)
                     THEN [pair |-> a, log |-> disk'[a]] ELSE op.vic
    BY ONLY <1>5, <1>7, a = m.pair, LandedOp
  <2>2. Tracked(o) => op.vic # None
    BY <1>5 DEF Tracked
  <2>3. op.vic # None => ~Same(o.vic.pair, a)
    BY <1>1, <1>2, <1>5, ListedPairs, SameIsEqual DEF Victim, Copy
  <2> QED
    BY <2>1, <2>2, <2>3
<1>12. Victim'
  <2>1. op.vic # None => op.vic.pair \in Pairs
    BY <1>1, ListedPairs DEF Victim, Copy
  <2>2. op.vic # None => disk'[op.vic.pair] = disk[op.vic.pair]
    BY <1>1, <1>8, <2>1
  <2>3. op.vic # None => \A b \in Listed, k \in Names : disk'[b].ents[k] # op.vic.pair
    BY <1>1, <1>9, <2>1, PairsAreDistinct DEF Victim, Unreferred
  <2> QED
    BY <1>1, <1>4, <1>7, <1>8, <1>11, <2>2, <2>3 DEF Victim, Copy, Unreferred
<1>13. Calling' /\ Repairing'
  <2>1. op' # NoOp
    BY <1>11 DEF NoOp
  <2> QED
    BY <1>1, <1>4, <1>8, <1>11, <1>12, <2>1 DEF Calling, Repairing
<1> QED
  BY <1>7, <1>8, <1>10, <1>13 DEF IInv

LEMMA DropKeeps ==
  ASSUME IInv, PairsStay, Drop, calls' \in 0 .. MaxCalls
  PROVE  IInv'
<1> PICK v : v = op.vic
  OBVIOUS
<1> PICK o : o = [op EXCEPT !.stage = "end", !.vic = None]
  OBVIOUS
<1>1. /\ TypeOK /\ Threaded /\ Entered /\ op \in Ops /\ walk = None /\ loc = None
      /\ op.stage = "drop" /\ Victim /\ gdelta = {}
      /\ gdisk.move = None /\ gstate.move = None
  BY DEF IInv, TypeOK, Calling, Summed, Drop, Free
<1>2. o \in Ops /\ o.stage = "end" /\ o.vic = None /\ o # NoOp
  BY <1>1 DEF Ops, Stages, NoOp
<1>3. gstate.orphans \in 0 .. 1 /\ gstate \in Gstates
  BY FreshGstates
<1>4. CASE gstate.orphans = 0
  <2>1. /\ op' = o /\ fault' = "none"
        /\ disk' = disk /\ gstate' = gstate /\ gdisk' = gdisk /\ gdelta' = gdelta
        /\ loc' = loc /\ walk' = walk /\ moves' = moves
    BY <1>4 DEF Drop
  <2>2. Threaded' /\ Entered' /\ Summed' /\ Listed' = Listed
    BY <1>1, <1>2, <1>3, <2>1, QuietKeeps
  <2>3. TypeOK'
    BY <1>1, <1>2, <2>1 DEF TypeOK, Faults
  <2>4. Calling' /\ Repairing'
    BY <1>1, <1>2, <1>4, <2>1 DEF Calling, Repairing
  <2> QED
    BY <1>1, <2>1, <2>2, <2>3, <2>4 DEF IInv
<1>5. CASE gstate.orphans = 1
  <2> PICK y : y = v.pair
    OBVIOUS
  <2> PICK q : q = Pred(y)
    OBVIOUS
  <2> PICK m : m = Fetch(q)
    OBVIOUS
  <2> PICK log : log = [disk[q] EXCEPT !.tail = v.log.tail]
    OBVIOUS
  <2> PICK g : g = PrepOrphans(gstate, -1)
    OBVIOUS
  <2> PICK d : d = Xor(gdelta, v.log.delta)
    OBVIOUS
  <2>1. /\ v # None /\ y \in Listed \ {RootPair} /\ v.log = disk[y] /\ Unreferred(y)
    BY <1>1, <1>5 DEF Victim, Copy
  <2>2. q \in Listed /\ disk[q].tail = y
    BY <1>1, <2>1, PredPrecedes
  <2>3. /\ m \in Mdirs /\ Copy(m) /\ m.pair = q /\ m.log = disk[q] /\ disk[q] \in Logs /\ q \in Pairs
        /\ q # None /\ q # y
    BY <1>1, <2>2, FetchIsCopy, PairsAreDistinct, ListedPairs
  <2>4. g \in Gstates /\ g.orphans = 0 /\ g.orphans \in 0 .. 1 /\ g.move = None
    BY <1>1, <1>5, FreshGstates
  <2>5. /\ log \in Logs /\ log.tail = disk[y].tail /\ log.delta = m.log.delta /\ log.ents = disk[q].ents
    <3>1. disk[y].tail \in Pairs \cup {None}
      BY <1>1, <2>1, ListedPairs
    <3> QED
      BY <2>1, <2>3, <3>1 DEF Logs
  <2>6. CommitInPlace(m, log, g, d, o, None, FALSE)
    <3>1. Commits(m, log, g, d, o)
      BY <1>5, <2>1, <2>3 DEF Drop
    <3> QED
      BY ONLY PairsStay, <1>1, <3>1, CommitEither
  <2>7. Threaded' /\ Listed' = Listed \ {y} /\ Summed' /\ Landed(m, log, g, o, FALSE)
    <3>1. d = Xor(gdelta, disk[y].delta) /\ m.log.tail = y /\ y \in Listed /\ o.stage # "attach"
      BY <1>2, <2>1, <2>2, <2>3
    <3> QED
      BY ZenonT(60), <1>1, <1>2, <2>3, <2>4, <2>5, <2>6, <3>1, Dropped
  <2>8. /\ TypeOK' /\ loc' = None /\ fault' = "none" /\ gstate' = g /\ gdisk' = g
        /\ \A p \in Pairs \ {q} : disk'[p] = disk[p]
        /\ disk'[q].ents = log.ents
        /\ walk' = walk /\ op' = o
    BY <1>2, <2>3, <2>7 DEF Landed, Tracked
  <2>9. Entered'
    <3>1. \A a \in Listed, n \in Names : disk'[a].ents[n] = disk[a].ents[n]
      BY <1>1, <2>5, <2>8, ListedPairs
    <3>2. \A a \in Listed, n \in Names : disk[a].ents[n] \in Pairs => disk[a].ents[n] \in Listed \ {y}
      BY <1>1, <2>1 DEF Entered, Unreferred
    <3> QED
      BY <1>1, <2>7, <3>1, <3>2, EnteredAfter DEF Hidden
  <2>10. Calling' /\ Repairing'
    BY <1>1, <1>2, <2>4, <2>8 DEF Calling, Repairing
  <2> QED
    BY <2>7, <2>8, <2>9, <2>10 DEF IInv
<1> QED
  BY <1>3, <1>4, <1>5

LEMMA MkdirAttachKeeps ==
  ASSUME IInv, PairsStay, MkdirAttach, calls' \in 0 .. MaxCalls
  PROVE  IInv'
<1> PICK m : m = op.cwd
  OBVIOUS
<1> PICK x : x = m.pair
  OBVIOUS
<1> PICK n : n = op.name
  OBVIOUS
<1> PICK y : y = op.new
  OBVIOUS
<1> PICK log : log = [m.log EXCEPT !.ents[n] = y, !.tail = y]
  OBVIOUS
<1> PICK o : o = [op EXCEPT !.stage = "end", !.cwd = None]
  OBVIOUS
<1> PICK D : D = Xor(gdelta, Xor(Bits(gstate), Bits(gdisk)))
  OBVIOUS
<1>1. /\ TypeOK /\ DiskOK /\ Threaded /\ Entered /\ op \in Ops /\ walk = None /\ loc = None
      /\ op.stage = "attach" /\ Attaching /\ gdelta = {}
      /\ gdisk.move = None /\ gstate.move = None /\ gstate.orphans = 0
      /\ Bits(gdisk) = Xor(DiskBits, disk[y].delta)
  BY DEF IInv, TypeOK, DiskOK, Calling, Summed, MkdirAttach, Free
<1>2. /\ op.call = "mkdir" /\ m # None /\ Copy(m) /\ n \in Names
      /\ y \in Firsts \ Listed /\ Unreferred(y)
      /\ disk[y].tail = m.log.tail /\ \A k \in Names : disk[y].ents[k] = None
  BY <1>1 DEF Attaching
<1>3. x \in Listed /\ m.log = disk[x] /\ x \in Pairs /\ y \in Pairs /\ disk[x] \in Logs /\ x # y
  BY <1>1, <1>2, ListedPairs, PairsAreDistinct DEF Copy, DiskOK
<1>4. m \in Mdirs
  BY <1>1, <1>2 DEF Ops
<1>5. /\ log \in Logs /\ log.tail = y /\ log.delta = disk[x].delta
      /\ \A k \in Names : log.ents[k] = IF k = n THEN y ELSE disk[x].ents[k]
  <2> PICK b : b = [m.log EXCEPT !.ents[n] = y]
    OBVIOUS
  <2>1. y \in Objects
    BY <1>3 DEF Objects
  <2>2. /\ b \in Logs /\ b.delta = disk[x].delta
        /\ \A k \in Names : b.ents[k] = IF k = n THEN y ELSE disk[x].ents[k]
    BY <1>2, <1>3, <2>1, EntryIsLog
  <2>3. log = [b EXCEPT !.tail = y]
    OBVIOUS
  <2> QED
    BY ONLY <1>3, <2>2, <2>3 DEF Logs
<1>6. gstate \in Gstates /\ gdisk \in Gstates
  BY FreshGstates
<1>7. o \in Ops /\ o.stage = "end" /\ o.call = "mkdir" /\ ~Tracked(o) /\ o # NoOp
  BY <1>1, <1>2 DEF Ops, Stages, Tracked, NoOp
<1>8. CommitInPlace(m, log, gstate, gdelta, o, None, FALSE)
  <2>1. Commits(m, log, gstate, gdelta, o)
    BY DEF MkdirAttach
  <2> QED
    BY ONLY PairsStay, <1>1, <2>1, CommitEither
<1>9. gdelta \in SUBSET AllBits /\ D \in SUBSET AllBits
  BY <1>1, <1>6, BitsAreBits, XorIsSum
<1>10. WrittenAs(m, log, gstate, gdelta, o, FALSE)
  BY <1>1, <1>4, <1>5, <1>6, <1>7, <1>8, <1>9, Written
<1>11. /\ DiskOK' /\ TypeOK' /\ loc' = None /\ fault' = "none"
       /\ \A p \in Pairs \ {x} : disk'[p] = disk[p]
       /\ disk'[x].ents = log.ents /\ disk'[x].tail = y
       /\ disk'[x].delta = Xor(disk[x].delta, D)
       /\ gstate' = gstate /\ gdisk' = gstate /\ gdelta' = {}
  BY <1>5, <1>10 DEF WrittenAs
<1>12. op' = o /\ walk' = walk
  BY <1>7, <1>10 DEF WrittenAs
<1>13. /\ Threaded' /\ Listed' = Listed \cup {y}
       /\ DiskBits' = Xor(Xor(DiskBits, D), disk[y].delta)
  BY <1>1, <1>2, <1>3, <1>9, <1>11, CommitInserts
<1>14. Bits(gdisk)' = DiskBits'
  <2>1. Bits(gdisk)' = Bits(gstate)
    BY <1>11 DEF Bits
  <2>2. Xor(Xor(DiskBits, D), disk[y].delta) = Bits(gstate)
    BY ONLY <1>1, D = Xor(gdelta, Xor(Bits(gstate), Bits(gdisk))) DEF Xor
  <2> QED
    BY <1>13, <2>1, <2>2
<1>15. Summed'
  <2>1. gstate'.orphans \in 0 .. 1 /\ gdisk'.orphans \in 0 .. 1 /\ gdisk'.move = None
        /\ gstate'.move = None
    BY <1>1, <1>11
  <2> QED
    BY <1>7, <1>11, <1>12, <1>14, <2>1 DEF Summed
<1>16. \A b \in Listed', k \in Names :
         disk'[b].ents[k] = IF b = x /\ k = n THEN y ELSE disk[b].ents[k]
  <2>1. Listed' \subseteq Pairs
    BY <1>1, <1>3, <1>13, ListedPairs
  <2> QED
    BY ONLY <1>5, <1>11, <2>1
<1>17. Entered'
  <2>1. ASSUME NEW b \in Listed', NEW k \in Names, disk'[b].ents[k] \in Pairs
        PROVE  disk'[b].ents[k] \in Listed' \ {RootPair}
    <3>1. CASE b = x /\ k = n
      BY <1>1, <1>2, <1>13, <1>16, <3>1, ListedPairs
    <3>2. CASE ~(b = x /\ k = n) /\ b \in Listed
      BY <1>1, <1>13, <1>16, <2>1, <3>2 DEF Entered
    <3>3. CASE b = y
      BY <1>2, <1>3, <1>16, <2>1, <3>3, PairsAreDistinct
    <3> QED
      BY <1>13, <3>1, <3>2, <3>3
  <2>2. ASSUME NEW a \in Listed', NEW b \in Listed', NEW h \in Names, NEW k \in Names,
               disk'[a].ents[h] \in Pairs, disk'[a].ents[h] = disk'[b].ents[k]
        PROVE  a = b /\ h = k
    <3>1. \A p \in Listed', j \in Names : disk'[p].ents[j] = y => p = x /\ j = n
      BY <1>2, <1>3, <1>13, <1>16, PairsAreDistinct DEF Unreferred
    <3>2. CASE disk'[a].ents[h] = y
      BY <2>2, <3>1, <3>2
    <3>3. CASE disk'[a].ents[h] # y
      <4>1. a \in Listed /\ b \in Listed
        BY <1>2, <1>3, <1>13, <1>16, <2>2, <3>3, PairsAreDistinct
      <4>2. disk[a].ents[h] = disk'[a].ents[h] /\ disk[b].ents[k] = disk'[b].ents[k]
        BY <1>16, <2>2, <3>3
      <4> QED
        BY <1>1, <2>2, <4>1, <4>2, OneEntry
    <3> QED
      BY <3>2, <3>3
  <2> QED
    BY <2>1, <2>2 DEF Entered
<1>18. Calling' /\ Repairing'
  BY <1>1, <1>7, <1>11, <1>12 DEF Calling, Repairing
<1> QED
  BY <1>11, <1>13, <1>15, <1>17, <1>18 DEF IInv

LEMMA MkdirKeeps ==
  ASSUME IInv, PairsStay, NEW a \in Listed, NEW n \in Names, NEW d \in Dirs, Mkdir(a, n, d),
         calls' \in 0 .. MaxCalls
  PROVE  IInv'
<1> PICK y : y = <<d, 0>>
  OBVIOUS
<1> PICK c : c = Call("mkdir", "attach", {}, {<<a[1], n, d>>})
  OBVIOUS
<1> PICK change : change = Xor(Bits(gstate), Bits(gdisk))
  OBVIOUS
<1> PICK log : log = [Blank EXCEPT !.tail = disk[a].tail, !.delta = Xor(gdelta, change)]
  OBVIOUS
<1> PICK o : o = [c EXCEPT !.cwd = Fetch(a), !.name = n, !.new = y]
  OBVIOUS
<1>1. /\ TypeOK /\ Threaded /\ Entered /\ gdelta = {} /\ walk = None /\ loc = None
      /\ gdisk.move = None /\ gstate.move = None /\ gstate.orphans = 0
      /\ op.stage # "attach" /\ d \notin InUse
      /\ gstate \in Gstates /\ gdisk \in Gstates /\ Bits(gdisk) = DiskBits
  BY ReadyState, FreshGstates DEF Mkdir, IInv, Summed
<1>2. /\ Fetch(a) \in Mdirs /\ Fetch(a).pair = a /\ Fetch(a).log = disk[a]
      /\ Fetch(a) # None /\ disk[a] \in Logs /\ a \in Pairs /\ Listed \subseteq Pairs
  BY <1>1, FetchIsCopy, NoneAssumption, ListedPairs
<1>3. y \in Firsts /\ y \in Pairs /\ y # RootPair /\ y # None
  BY TreeAssumption, PairsAreDistinct DEF Firsts, Pairs, RootPair
<1>4. c \in Ops /\ c.stage = "attach" /\ c.call = "mkdir" /\ c.vic = None
  <2>1. {} \in SUBSET Edges /\ {<<a[1], n, d>>} \in SUBSET Edges
    BY <1>2 DEF Edges, Pairs
  <2>2. "mkdir" \in Calls /\ "attach" \in Stages
    BY DEF Calls, Stages
  <2> QED
    BY <2>1, <2>2, CallIsOp
<1>5. CASE /\ disk' = [p \in Pairs |-> IF p = y THEN log ELSE IF p[1] = d THEN Blank ELSE disk[p]]
           /\ gdisk' = gstate /\ gdelta' = {} /\ gstate' = gstate /\ op' = o /\ fault' = "none"
           /\ loc' = loc /\ walk' = walk /\ moves' = moves
  <2>1. /\ o \in Ops /\ o.stage = "attach" /\ o.call = "mkdir" /\ o.cwd = Fetch(a)
        /\ o.name = n /\ o.new = y
    BY ZenonT(60), <1>2, <1>3, <1>4 DEF Ops
  <2>2. log \in Logs /\ Blank \in Logs /\ log.tail = disk[a].tail /\ log.delta = change
        /\ \A k \in Names : log.ents[k] = None
    <3>1. change \in SUBSET AllBits /\ Xor(gdelta, change) = change
      BY <1>1, BitsAreBits, XorIsSum
    <3>2. disk[a].tail \in Pairs \cup {None}
      BY <1>2 DEF Logs
    <3>3. [k \in Names |-> None] \in [Names -> Objects]
      BY DEF Objects
    <3> QED
      BY <3>1, <3>2, <3>3 DEF Blank, Logs, AllBits
  <2>3. \A p \in Listed : p[1] # d
    BY <1>1 DEF InUse
  <2>4. \A p \in Listed, k \in Names : disk[p].ents[k] \in Pairs => disk[p].ents[k][1] # d
    <3> SUFFICES ASSUME NEW p \in Listed, NEW k \in Names, disk[p].ents[k] \in Pairs,
                        disk[p].ents[k][1] = d
                 PROVE  FALSE
      OBVIOUS
    <3>1. <<p, k>> \in {z \in Listed \X Names : disk[z[1]].ents[z[2]] \in Pairs}
      OBVIOUS
    <3>2. d \in {disk[z[1]].ents[z[2]][1] :
                   z \in {z \in Listed \X Names : disk[z[1]].ents[z[2]] \in Pairs}}
      BY <3>1
    <3> QED
      BY <1>1, <3>2 DEF InUse
  <2>5. y \notin Listed /\ y[1] = d
    BY <2>3
  <2>6. disk'[y] = log /\ \A p \in Listed : disk'[p] = disk[p]
    BY <1>2, <1>3, <1>5, <2>3, <2>5
  <2>7. DiskOK /\ DiskOK'
    BY <1>1, <1>5, <2>2 DEF DiskOK, TypeOK
  <2>8. Threaded' /\ Listed' = Listed /\ DiskBits' = DiskBits
    <3>1. Threaded' /\ Listed' = Listed
      BY <1>1, <2>6, SameList
    <3>2. Sum(Listed, disk') = Sum(Listed, disk)
      BY <2>6, SumsAreSame
    <3> QED
      BY <1>1, <1>2, <2>7, <3>1, <3>2, DiskBitsAre, DiskBitsAreNext
  <2>9. TypeOK'
    BY <1>1, <1>5, <2>1, <2>7 DEF TypeOK, DiskOK, Faults
  <2>10. Entered'
    <3>1. \A p \in Listed, k \in Names : disk[p].ents[k] \in Pairs => disk[p].ents[k] \in Listed
      BY <1>1 DEF Entered
    <3> QED
      BY <1>1, <2>6, <2>8, <3>1, EnteredAfter DEF Hidden
  <2>11. Bits(gstate) \subseteq {OrphanBit} /\ Bits(gdisk) \subseteq {OrphanBit}
    BY <1>1 DEF Bits
  <2>12. Summed'
    <3>1. Bits(gdisk)' = Bits(gstate)
      BY <1>5 DEF Bits
    <3>2. change \subseteq {OrphanBit} /\ Bits(gstate) = Xor(DiskBits, change)
      BY ONLY <1>1, <2>11, change = Xor(Bits(gstate), Bits(gdisk)) DEF Xor
    <3>3. gdisk'.move = None /\ gstate'.move = None
          /\ gdisk'.orphans \in 0 .. 1 /\ gstate'.orphans \in 0 .. 1
      BY <1>1, <1>5
    <3>4. disk'[op'.new].delta = change /\ op'.stage = "attach"
      BY <1>5, <2>1, <2>2, <2>6
    <3>5. DiskBits' \subseteq {OrphanBit}
      BY <1>1, <2>8, <2>11
    <3> QED
      BY <1>5, <2>8, <3>1, <3>2, <3>3, <3>4, <3>5 DEF Summed
  <2>13. Attaching'
    <3>1. op'.call = "mkdir" /\ op'.cwd # None /\ op'.name \in Names /\ op'.new = y
          /\ op'.cwd.pair = a /\ op'.cwd.log = disk[a]
      BY <1>2, <1>5, <2>1
    <3>2. disk'[a] = disk[a]
      BY <2>6
    <3>3. Unreferred(y)'
      BY <1>3, <2>4, <2>5, <2>6, <2>8 DEF Unreferred
    <3>4. Unreferred(op.new)'
      BY <2>6, <2>8, <3>1, <3>3 DEF Unreferred
    <3> QED
      <4>1. Copy(op.cwd)' /\ op'.new \in Firsts \ Listed'
        BY <1>3, <2>5, <2>8, <3>1, <3>2 DEF Copy
      <4>2. disk'[op'.new].tail = op'.cwd.log.tail /\ \A k \in Names : disk'[op'.new].ents[k] = None
        BY ONLY <2>2, <2>6, <3>1
      <4> QED
        BY <3>1, <3>4, <4>1, <4>2 DEF Attaching
  <2>14. Calling' /\ Repairing'
    <3>1. o # NoOp
      BY <2>1 DEF NoOp
    <3> QED
      BY <1>1, <1>5, <2>1, <2>13, <3>1 DEF Calling, Repairing
  <2> QED
    BY <1>1, <1>5, <2>8, <2>9, <2>10, <2>12, <2>14 DEF IInv
<1> QED
  <2>1. "mkdir" \notin MovesIn
    BY DEF PairsStay
  <2>2. CASE CommitFails(gstate, gdelta, Call("mkdir", "attach", {}, {}))
    BY <1>1, <2>2, FreshGstates, FailKeeps
  <2>3. CASE ~CommitFails(gstate, gdelta, Call("mkdir", "attach", {}, {}))
    <3>1. PICK r \in BOOLEAN :
            LET delta == IF r THEN {} ELSE change
                new == [Blank EXCEPT !.tail = disk[a].tail, !.delta = Xor(gdelta, delta)]
            IN  /\ r => moves < MaxMoves /\ "mkdir" \in MovesIn
                /\ moves' = IF r THEN moves + 1 ELSE moves
                /\ disk' = [p \in Pairs |-> IF p = y THEN new ELSE IF p[1] = d THEN Blank ELSE disk[p]]
                /\ gdisk' = IF r THEN gdisk ELSE gstate
                /\ gdelta' = {} /\ op' = o /\ fault' = "none"
                /\ UNCHANGED <<gstate, loc, walk>>
      BY <2>3 DEF Mkdir
    <3>2. r = FALSE
      BY <2>1, <3>1
    <3> QED
      BY <1>5, <3>1, <3>2
  <2> QED
    BY <2>2, <2>3

\* The new entry has the place of the old one, which is hidden or deleted.
LEMMA RenameKeeps ==
  ASSUME IInv, PairsStay, NEW a \in Listed, NEW n \in Names, NEW b \in Listed, NEW k \in Names,
         Rename(a, n, b, k), calls' \in 0 .. MaxCalls
  PROVE  IInv'
<1> PICK e : e = disk[a].ents[n]
  OBVIOUS
<1> PICK prev : prev = disk[b].ents[k]
  OBVIOUS
<1> PICK m : m = Fetch(b)
  OBVIOUS
<1> PICK new : new = [disk[b] EXCEPT !.ents[k] = e]
  OBVIOUS
<1> PICK log : log = IF Same(a, b) THEN Without(new, n) ELSE new
  OBVIOUS
<1> PICK h : h = IF prev \in Pairs THEN PrepOrphans(gstate, 1) ELSE gstate
  OBVIOUS
<1> PICK g : g = IF Same(a, b) THEN h ELSE PrepMove(h, <<a, n>>)
  OBVIOUS
<1> PICK c : c = Call(IF prev \in Pairs THEN "replace" ELSE "rename", "moved",
                      {Edge(a, n, e)} \cup EdgesAt(b, k), {Edge(b, k, e)})
  OBVIOUS
<1> PICK cwd : cwd = IF Same(a, b) THEN None ELSE Fetch(a)
  OBVIOUS
<1> PICK vic : vic = IF prev \in Pairs THEN Fetch(prev) ELSE None
  OBVIOUS
<1> PICK o : o = [c EXCEPT !.cwd = cwd, !.name = n, !.vic = vic]
  OBVIOUS
<1>1. /\ TypeOK /\ Threaded /\ Entered /\ gdelta = {} /\ walk = None /\ loc = None
      /\ gdisk.move = None /\ gstate.move = None /\ gstate.orphans = 0
      /\ op.stage # "attach" /\ gstate \in Gstates
      /\ ~(a = b /\ n = k) /\ e # None
  BY ReadyState, FreshGstates DEF Rename
<1>2. a \in Pairs /\ b \in Pairs /\ a \in Firsts /\ b \in Firsts /\ Listed \subseteq Firsts
      /\ Listed \subseteq Pairs /\ (Same(a, b) <=> a = b) /\ a # None
  BY <1>1, ListedPairs, SameIsEqual, PairsAreDistinct
<1>3. /\ m \in Mdirs /\ Copy(m) /\ m.pair = b /\ m.log = disk[b] /\ disk[b] \in Logs
      /\ Fetch(a) \in Mdirs /\ Fetch(a).pair = a /\ Fetch(a).log = disk[a] /\ Fetch(a) # None
      /\ disk[a] \in Logs
  BY <1>1, FetchIsCopy, NoneAssumption
<1>4. /\ log \in Logs /\ log.tail = m.log.tail /\ log.delta = m.log.delta
      /\ \A i \in Names : log.ents[i] = IF a = b /\ i = n THEN None
                                         ELSE IF i = k THEN e ELSE disk[b].ents[i]
  <2>1. e \in Objects
    BY <1>3 DEF Logs
  <2>2. /\ new \in Logs /\ new.tail = m.log.tail /\ new.delta = m.log.delta
        /\ \A i \in Names : new.ents[i] = IF i = k THEN e ELSE disk[b].ents[i]
    BY <1>3, <2>1, EntryIsLog
  <2>3. CASE a = b
    <3>1. log = Without(new, n)
      BY <1>2, <2>3
    <3> QED
      BY ONLY SMTT(30), <2>2, <2>3, <3>1, n \in Names, WithoutIsLog
  <2>4. CASE a # b
    <3>1. log = new
      BY <1>2, <2>4
    <3> QED
      BY ONLY <2>2, <2>4, <3>1
  <2> QED
    BY <2>3, <2>4
<1>5. /\ g \in Gstates /\ g.orphans \in 0 .. 1
      /\ g.orphans > 0 <=> prev \in Pairs
      /\ g.move = IF a = b THEN None ELSE <<a, n>>
  <2>1. /\ h \in Gstates /\ h.orphans \in 0 .. 1 /\ h.move = None
        /\ h.orphans > 0 <=> prev \in Pairs
    BY <1>1, FreshGstates
  <2>2. <<a, n>> \in GMoves
    BY <1>2 DEF GMoves
  <2>3. CASE a = b
    BY <1>2, <2>1, <2>3
  <2>4. CASE a # b
    <3>1. g = [h EXCEPT !.move = <<a, n>>]
      BY <1>2, <2>4 DEF PrepMove
    <3> QED
      BY <2>1, <2>2, <2>4, <3>1 DEF Gstates
  <2> QED
    BY <2>3, <2>4
<1>6. g.move # None => g.move[1] \in Listed
  BY <1>5
<1>7. prev \in Pairs =>
        /\ prev \in Listed \ {RootPair} /\ Fetch(prev) \in Mdirs /\ Fetch(prev).pair = prev
        /\ Fetch(prev).log = disk[prev] /\ Fetch(prev) # None
        /\ prev # a /\ prev # e
  <2> SUFFICES ASSUME prev \in Pairs
               PROVE  /\ prev \in Listed \ {RootPair} /\ Fetch(prev) \in Mdirs /\ Fetch(prev).pair = prev
                      /\ Fetch(prev).log = disk[prev] /\ Fetch(prev) # None
                      /\ prev # a /\ prev # e
    OBVIOUS
  <2>1. prev \in Listed \ {RootPair}
    BY <1>1 DEF Entered
  <2>2. Fetch(prev) \in Mdirs /\ Fetch(prev).pair = prev /\ Fetch(prev).log = disk[prev]
        /\ Fetch(prev) # None
    BY <1>1, <2>1, FetchIsCopy, NoneAssumption
  <2>3. IsEmptyLog(disk[prev])
    BY DEF Rename
  <2>4. prev # a
    BY <1>1, <2>3 DEF IsEmptyLog
  <2>5. prev # e
    BY <1>1, OneEntry
  <2> QED
    BY <2>1, <2>2, <2>4, <2>5
<1>8. /\ o \in Ops /\ o.stage = "moved" /\ o.call \in {"rename", "replace"}
      /\ o.cwd = cwd /\ o.name = n /\ o.vic = vic
  <2>1. /\ {Edge(a, n, e)} \cup EdgesAt(b, k) \in SUBSET Edges
        /\ {Edge(b, k, e)} \in SUBSET Edges
    BY <1>1, EdgeIsEdge
  <2>2. "rename" \in Calls /\ "replace" \in Calls /\ "moved" \in Stages
    BY DEF Calls, Stages
  <2>3. c \in Ops /\ c.stage = "moved" /\ c.call \in {"rename", "replace"}
    BY <2>1, <2>2, CallIsOp
  <2>4. cwd \in Mdirs \cup {None} /\ vic \in Mdirs \cup {None}
    BY <1>3, <1>7
  <2> QED
    BY ONLY <2>3, <2>4, n \in Names, o = [c EXCEPT !.cwd = cwd, !.name = n, !.vic = vic] DEF Ops
<1>9. CommitInPlace(m, log, g, gdelta, o, None, FALSE)
  <2>1. Commits(m, log, g, gdelta, o)
    BY DEF Rename
  <2> QED
    BY ONLY PairsStay, <1>8, <2>1, CommitEither
<1>10. Threaded' /\ Listed' = Listed /\ Summed' /\ Landed(m, log, g, o, FALSE)
  BY ONLY IInv, <1>1, <1>3, <1>4, <1>5, <1>6, <1>8, <1>9, Edited
<1>11. /\ TypeOK' /\ loc' = None /\ fault' = "none" /\ gstate' = g /\ gdisk' = g
       /\ \A p \in Pairs \ {b} : disk'[p] = disk[p]
       /\ disk'[b].ents = log.ents
       /\ walk' = walk
  BY <1>3, <1>10 DEF Landed
<1>12. \A p \in Listed, i \in Names :
         disk'[p].ents[i] = IF p = b
                            THEN IF a = b /\ i = n THEN None ELSE IF i = k THEN e ELSE disk[b].ents[i]
                            ELSE disk[p].ents[i]
  BY ONLY <1>2, <1>4, <1>11
<1>13. Entered'
  <2>1. ASSUME NEW p \in Listed, NEW i \in Names, disk'[p].ents[i] \in Pairs
        PROVE  disk'[p].ents[i] \in Listed \ {RootPair}
    BY <1>1, <1>12, <2>1, PairsAreDistinct DEF Entered
  <2>2. \A p \in Listed, i \in Names :
          disk'[p].ents[i] \in Pairs /\ ~Hidden(gdisk'.move, p, i) => ~(p = a /\ i = n)
    <3> SUFFICES ASSUME disk'[a].ents[n] \in Pairs, ~Hidden(gdisk'.move, a, n) PROVE FALSE
      OBVIOUS
    <3>1. CASE a = b
      BY <1>12, <3>1, PairsAreDistinct
    <3>2. CASE a # b
      <4>1. gdisk'.move = <<a, n>>
        BY <1>5, <1>11, <3>2
      <4>2. gdisk'.move # None
        BY <1>2, <4>1, PairsAreDistinct DEF GMoves
      <4> QED
        BY <4>1, <4>2 DEF Hidden, Same
    <3> QED
      BY <3>1, <3>2
  <2>3. ASSUME NEW p \in Listed, NEW i \in Names, disk'[p].ents[i] \in Pairs,
               ~Hidden(gdisk'.move, p, i), ~(p = b /\ i = k)
        PROVE  disk'[p].ents[i] = disk[p].ents[i]
    BY <1>12, <2>3, PairsAreDistinct
  <2>4. ASSUME NEW p \in Listed, NEW q \in Listed, NEW i \in Names, NEW j \in Names,
               disk'[p].ents[i] \in Pairs, disk'[p].ents[i] = disk'[q].ents[j],
               ~Hidden(gdisk'.move, p, i), ~Hidden(gdisk'.move, q, j)
        PROVE  p = q /\ i = j
    <3>1. ~(p = a /\ i = n) /\ ~(q = a /\ j = n)
      BY <2>2, <2>4
    <3>2. \A r \in Listed, l \in Names : r = b /\ l = k => disk'[r].ents[l] = e
      BY <1>1, <1>12
    <3>3. CASE p = b /\ i = k /\ ~(q = b /\ j = k)
      <4>1. disk[q].ents[j] = e /\ e \in Pairs
        BY <2>3, <2>4, <3>2, <3>3
      <4> QED
        BY <1>1, <3>1, <4>1, OneEntry
    <3>4. CASE q = b /\ j = k /\ ~(p = b /\ i = k)
      <4>1. disk[p].ents[i] = e /\ e \in Pairs
        BY <2>3, <2>4, <3>2, <3>4
      <4> QED
        BY <1>1, <3>1, <4>1, OneEntry
    <3>5. CASE ~(p = b /\ i = k) /\ ~(q = b /\ j = k)
      <4>1. disk[p].ents[i] = disk'[p].ents[i] /\ disk[q].ents[j] = disk'[q].ents[j]
        BY <2>3, <2>4, <3>5
      <4> QED
        BY <1>1, <2>4, <4>1, OneEntry
    <3> QED
      BY <3>3, <3>4, <3>5
  <2> QED
    BY ONLY <1>10, <2>1, <2>4 DEF Entered
<1>14. /\ op'.stage = "moved" /\ op'.cwd = cwd /\ op'.name = n
       /\ op'.vic = IF Tracked(o) /\ Same(o.vic.pair, b)
                    THEN [pair |-> b, log |-> disk'[b]] ELSE o.vic
  BY ONLY <1>3, <1>8, <1>10, LandedOp
<1>15. /\ op'.vic # None <=> prev \in Pairs
       /\ prev \in Pairs => op'.vic.pair = prev /\ op'.vic.log = disk'[prev]
  <2>1. CASE prev \in Pairs
    <3>1. vic = Fetch(prev) /\ Tracked(o) /\ (Same(o.vic.pair, b) <=> prev = b)
      BY <1>2, <1>7, <1>8, <2>1, SameIsEqual DEF Tracked
    <3>2. prev # b => disk'[prev] = disk[prev]
      BY <1>11, <2>1
    <3>3. [pair |-> b, log |-> disk'[b]] # None
      <4>1. [pair |-> b, log |-> disk'[b]] \in Mdirs
        BY <1>2, <1>11 DEF Mdirs, TypeOK
      <4> QED
        BY <4>1, NoneAssumption
    <3> QED
      BY <1>7, <1>8, <1>14, <2>1, <3>1, <3>2, <3>3
  <2>2. CASE prev \notin Pairs
    BY SMTT(30), <1>8, <1>14, <2>2 DEF Tracked
  <2> QED
    BY <2>1, <2>2
<1>16. Victim'
  <2>1. prev \in Pairs => \A p \in Listed, i \in Names : disk'[p].ents[i] # prev
    <3> SUFFICES ASSUME prev \in Pairs, NEW p \in Listed, NEW i \in Names, disk'[p].ents[i] = prev
                 PROVE  FALSE
      OBVIOUS
    <3>1. disk[p].ents[i] = prev /\ ~(p = b /\ i = k)
      BY <1>1, <1>7, <1>12, PairsAreDistinct
    <3> QED
      BY <1>1, <3>1, OneEntry
  <2> QED
    BY <1>5, <1>7, <1>10, <1>11, <1>15, <2>1 DEF Victim, Copy, Unreferred
<1>17. Moving'
  <2>1. CASE a = b
    BY <1>2, <1>5, <1>11, <1>14, <1>16, <2>1 DEF Moving
  <2>2. CASE a # b
    <3>1. cwd = Fetch(a) /\ disk'[a] = disk[a]
      BY SMTT(30), <1>2, <1>11, <2>2
    <3>2. op'.cwd # None /\ Copy(op.cwd)' /\ gdisk'.move = <<op'.cwd.pair, op'.name>>
      BY SMTT(30), <1>3, <1>5, <1>10, <1>11, <1>14, <2>2, <3>1 DEF Copy
    <3>3. op'.vic # None => op'.vic.pair # op'.cwd.pair
      BY <1>3, <1>7, <1>14, <1>15, <3>1
    <3> QED
      BY <1>16, <3>2, <3>3 DEF Moving
  <2> QED
    BY <2>1, <2>2
<1>18. Calling' /\ Repairing'
  <2>1. op' # NoOp
    BY <1>14 DEF NoOp
  <2> QED
    BY <1>1, <1>11, <1>14, <1>17, <2>1 DEF Calling, Repairing
<1> QED
  BY <1>10, <1>11, <1>13, <1>18 DEF IInv

-----------------------------------------------------------------------------
(***************************************************************************)
(* The theorems.                                                           *)
(***************************************************************************)

LEMMA InitIsSafe == Init => IInv
<1> SUFFICES ASSUME Init PROVE IInv
  OBVIOUS
<1> PICK s : s = [i \in 1 .. 1 |-> RootPair]
  OBVIOUS
<1>1. /\ disk = [p \in Pairs |-> Blank] /\ gstate = NoGstate /\ gdisk = NoGstate /\ gdelta = {}
      /\ op = NoOp /\ loc = None /\ walk = None /\ calls = 0 /\ moves = 0 /\ fault = "none"
  BY DEF Init
<1>2. TypeOK
  <2>1. Blank \in Logs
    BY DEF Blank, Logs, Objects
  <2>2. NoGstate \in Gstates
    BY TreeAssumption DEF NoGstate, Gstates
  <2>3. NoOp \in Ops
    BY DEF NoOp, Ops, NoChange, Stages
  <2> QED
    BY <1>1, <2>1, <2>2, <2>3, TreeAssumption DEF TypeOK, Faults
<1>3. IsList(s, 1)
  <2>1. RootPair \in Firsts /\ disk[RootPair].tail = None
    BY <1>1, PairsAreDistinct DEF Blank
  <2> QED
    BY <2>1 DEF IsList
<1>4. Threaded /\ Listed = {RootPair}
  <2>1. Threaded
    <3>1. 1 \in Nat \ {0} /\ s \in [1 .. 1 -> Firsts]
      BY <1>3 DEF IsList
    <3> QED
      BY <1>3, <3>1 DEF Threaded
  <2>2. Listed = {s[i] : i \in 1 .. 1}
    BY <1>3, ListIsListed
  <2> QED
    BY <2>1, <2>2
<1>5. Entered
  BY <1>1, <1>4, PairsAreDistinct DEF Entered, Blank
<1>6. Summed
  <2>1. DiskBits = {}
    <3>1. disk[RootPair].delta = {}
      BY <1>1, PairsAreDistinct DEF Blank
    <3> QED
      BY <1>4, <3>1 DEF DiskBits
  <2>2. Bits(gdisk) = {}
    BY <1>1 DEF Bits, NoGstate
  <2> QED
    BY <1>1, <2>1, <2>2 DEF Summed, NoGstate, NoOp
<1>7. Calling /\ Repairing
  BY <1>1 DEF Calling, Repairing, NoOp
<1> QED
  BY <1>1, <1>2, <1>4, <1>5, <1>6, <1>7 DEF IInv

LEMMA NextIsSafe ==
  ASSUME PairsStay, IInv, [Next]_vars
  PROVE  IInv'
<1>1. loc = None /\ calls \in 0 .. MaxCalls /\ Threaded /\ Entered
  BY DEF IInv, TypeOK
<1>2. Found \subseteq Listed
  BY <1>1, ListedPairs, BelowIsListed DEF Found
<1>3. calls' = calls => calls' \in 0 .. MaxCalls
  BY <1>1
<1>4. calls < MaxCalls /\ calls' = calls + 1 => calls' \in 0 .. MaxCalls
  BY <1>1, TreeAssumption
<1>5. CASE (Demove \/ Deorphan \/ MkConsistent) /\ UNCHANGED calls
  BY <1>3, <1>5, DemoveKeeps, DeorphanKeeps, MkConsistentKeeps
<1>6. ASSUME calls < MaxCalls, calls' = calls + 1, NEW a \in Found, NEW n \in Names,
             \/ \E f \in Files : Create(a, n, f)
             \/ \E d \in Dirs : Mkdir(a, n, d)
             \/ Remove(a, n)
             \/ \E b \in Found, m \in Names : Rename(a, n, b, m)
      PROVE  IInv'
  BY <1>2, <1>4, <1>6, CreateKeeps, MkdirKeeps, RemoveKeeps, RenameKeeps
<1>7. CASE Ready /\ calls < MaxCalls /\ calls' = calls + 1 /\ BeginGc
  BY <1>4, <1>7, BeginGcKeeps
<1>8. CASE Begin
  BY <1>5, <1>6, <1>7, <1>8 DEF Begin
<1>9. CASE Step /\ UNCHANGED calls
  <2>1. ~RelocateParent /\ ~RelocatePred /\ ~RelocateEnds
    BY <1>1 DEF RelocateParent, RelocatePred, RelocateEnds
  <2>2. CASE FixHalfOrphan \/ FixOrphan \/ WalkOn \/ EndPass
    BY <1>3, <1>9, <2>2, FixHalfOrphanKeeps, FixOrphanKeeps, WalkOnKeeps, EndPassKeeps
  <2>3. CASE Deorphan \/ MkdirAttach \/ RenameDelete \/ RenameDeleted
    BY <1>3, <1>9, <2>3, DeorphanKeeps, MkdirAttachKeeps, RenameDeleteKeeps, RenameDeletedKeeps
  <2>4. CASE Drop \/ Gc \/ Return
    BY <1>3, <1>9, <2>4, DropKeeps, GcKeeps, ReturnKeeps
  <2> QED
    BY <1>9, <2>1, <2>2, <2>3, <2>4 DEF Step
<1>10. CASE PowerLoss /\ UNCHANGED calls
  BY <1>3, <1>10, PowerLossKeeps
<1>11. CASE UNCHANGED vars
  <2>1. /\ disk' = disk /\ gstate' = gstate /\ gdisk' = gdisk /\ gdelta' = gdelta /\ op' = op
        /\ loc' = loc /\ walk' = walk /\ calls' = calls /\ moves' = moves /\ fault' = fault
    BY <1>11 DEF vars
  <2>2. Threaded' /\ Listed' = Listed /\ DiskBits' = DiskBits
    BY <2>1, DiskStays
  <2>3. TypeOK' /\ Entered' /\ (Bits(gdisk))' = Bits(gdisk)
    BY <2>1, <2>2 DEF IInv, TypeOK, Entered, Bits
  <2>4. Summed'
    BY <2>1, <2>2, <2>3 DEF IInv, Summed
  <2>5. Calling'
    BY <2>1, <2>2 DEF IInv, Calling, Attaching, Moving, Victim, Copy, Unreferred
  <2>6. Repairing'
    BY <2>1, <2>2 DEF IInv, Repairing, Copy
  <2> QED
    BY <2>1, <2>2, <2>3, <2>4, <2>5, <2>6 DEF IInv
<1> QED
  BY <1>8, <1>9, <1>10, <1>11 DEF Next

\* The inductive invariant where pairs stay: the list is a list, each directory of it
\* has at most one entry that counts, and the deltas in it add up.
THEOREM TreeIsSafe == PairsStay => (Spec => []IInv)
<1> SUFFICES ASSUME PairsStay PROVE Spec => []IInv
  OBVIOUS
<1>1. IInv /\ [Next]_vars => IInv'
  BY NextIsSafe
<1> QED
  BY <1>1, InitIsSafe, PTL DEF Spec

\* Where pairs stay, lfs.gdisk is between calls the XOR of the deltas in the list, for
\* directories that have been put into it and taken out of it, with power losses in
\* between.
THEOREM DeltasAddUp == PairsStay => (Spec => []GdiskIsDisk)
<1> SUFFICES ASSUME PairsStay PROVE Spec => []GdiskIsDisk
  OBVIOUS
<1>1. IInv => GdiskIsDisk
  BY DEF IInv, Summed, GdiskIsDisk, Idle, NoOp
<1> QED
  BY <1>1, TreeIsSafe, PTL

\* Where pairs stay, the copies of a pair that mkdir, remove, rename and
\* lfs_fs_deorphan keep over commits to other pairs are what a fetch would read.
THEOREM CopiesAreCurrent == PairsStay => (Spec => []CopiesCurrent)
<1> SUFFICES ASSUME PairsStay PROVE Spec => []CopiesCurrent
  OBVIOUS
<1>1. IInv => CopiesCurrent
  <2> SUFFICES ASSUME IInv PROVE CopiesCurrent
    OBVIOUS
  <2>1. walk # None => Current(walk.pdir)
    BY DEF IInv, Repairing, Copy, Current
  <2>2. op.stage = "attach" => Current(op.cwd)
    BY DEF IInv, Calling, Attaching, Copy, Current
  <2>3. op.stage = "moved" => Current(op.cwd)
    BY DEF IInv, Calling, Moving, Copy, Current
  <2>4. op.stage = "drop" => Current(op.vic)
    BY DEF IInv, Calling, Victim, Copy, Current
  <2> QED
    BY <2>1, <2>2, <2>3, <2>4 DEF CopiesCurrent
<1> QED
  BY <1>1, TreeIsSafe, PTL

-----------------------------------------------------------------------------
(***************************************************************************)
(* Where pairs move and any commit may fail: what is counted.  From here   *)
(* on there is no hypothesis on MovesIn, FailsIn and LaterFails, and       *)
(* nothing is known of the list but that it goes through pairs.            *)
(***************************************************************************)

\* Contents in which no entry refers to the root, and copies of them.
TreeLogs == {log \in Logs : \A n \in Names :
               log.ents[n] \in Files \cup (Dirs \X (0 .. MaxMoves)) \cup {None}}
TreeMdirs == {m \in Mdirs : m.log \in TreeLogs}
TreeLocs == {l \in Locs : l.ldir[1] # Root}

\* Calls: what they hold between two commits is there.
TreeOps ==
  {o \in Ops :
    /\ o.cwd \in TreeMdirs \cup {None} /\ o.vic \in TreeMdirs \cup {None}
    /\ o.stage = "attach" =>
         o.cwd # None /\ o.name # None /\ o.new # None /\ o.new[1] # Root
    /\ o.stage = "moved" /\ o.cwd # None => o.name # None
    /\ o.stage = "gc" => o.new # None}

\* The types, where pairs move: nothing refers to the root.
Typed ==
  /\ TypeOK
  /\ disk \in [Pairs -> TreeLogs]
  /\ op \in TreeOps
  /\ walk # None => walk.pdir \in TreeMdirs
  /\ loc \in TreeLocs \cup {None}

\* In a call that has no directory to drop, nothing is counted but the half-orphan
\* between the update of the parent and that of the predecessor, unless what is
\* counted is about to be repaired.
Balanced ==
  op.stage \in {"ready", "moved", "drop"} /\ op.vic = None /\ walk = None
    /\ (loc # None => ~loc.orphans)
  => gstate.orphans = IF loc # None /\ loc.at = "pred" THEN 1 ELSE 0

\* A pair that has moved is counted at most once.
Counted ==
  /\ gstate.orphans <= IF loc # None /\ loc.at = "parent" THEN moves ELSE moves + 1
  /\ op.stage = "ready" => op.vic = None
  /\ loc # None /\ loc.at = "pred" => loc.hasparent
  /\ Balanced
  /\ fault # "type"

-----------------------------------------------------------------------------
(***************************************************************************)
(* The list and the tree, of any content.                                  *)
(***************************************************************************)

\* r begins with a and goes on by F.
Chain(r, b, n, a, F) == r = [i \in b .. n |-> IF i = b THEN a ELSE F[r[i - 1]]]

\* A recursion over b, ..., n has a solution, and its values are in the set that the
\* step stays in.
LEMMA ChainExists ==
  ASSUME NEW b \in Nat, NEW n \in Nat, NEW S, NEW a \in S, NEW F \in [S -> S]
  PROVE  /\ \E r : Chain(r, b, n, a, F)
         /\ \A r : Chain(r, b, n, a, F) => \A i \in b .. n : r[i] \in S
<1> PICK T : T = {k \in Nat : ~\E r : r = [i \in b .. k |-> IF i = b THEN a ELSE F[r[i - 1]]]}
  OBVIOUS
<1>1. ASSUME T # {} PROVE FALSE
  <2>1. T \in SUBSET Nat
    OBVIOUS
  <2>2. PICK k \in T : \A j \in T : k <= j
    BY <1>1, <2>1, Least
  <2>3. k > b
    <3>1. ASSUME ~(k > b) PROVE FALSE
      <4> PICK r : r = [i \in b .. k |-> a]
        OBVIOUS
      <4>1. \A i \in b .. k : i = b
        BY <2>1, <3>1
      <4>2. r = [i \in b .. k |-> IF i = b THEN a ELSE F[r[i - 1]]]
        BY <4>1
      <4> QED
        BY <2>2, <4>2
    <3> QED
      BY <2>1, <3>1
  <2>4. k - 1 \in Nat /\ k - 1 \notin T
    <3>1. k \in Nat
      BY <2>1
    <3> QED
      BY ONLY <2>2, <2>3, <3>1, b \in Nat
  <2>5. PICK r : r = [i \in b .. k - 1 |-> IF i = b THEN a ELSE F[r[i - 1]]]
    BY <2>4
  <2> PICK f : f = [i \in b .. k |-> IF i = k THEN F[r[k - 1]] ELSE r[i]]
    OBVIOUS
  <2>6. ASSUME NEW i \in b .. k PROVE f[i] = IF i = b THEN a ELSE F[f[i - 1]]
    <3>1. CASE i = k
      <4>1. k - 1 \in b .. k /\ k - 1 # k /\ f[k - 1] = r[k - 1]
        BY <2>1, <2>3
      <4> QED
        BY <2>3, <3>1, <4>1
    <3>2. CASE i # k /\ i # b
      <4>1. i \in b .. k - 1 /\ i - 1 \in b .. k /\ i - 1 # k
        BY <2>1, <3>2
      <4> QED
        BY <2>5, <3>2, <4>1
    <3>3. CASE i = b
      <4>1. i \in b .. k - 1 /\ i # k
        BY <2>1, <2>3, <3>3
      <4> QED
        BY <2>5, <3>3, <4>1
    <3> QED
      BY <3>1, <3>2, <3>3
  <2>7. f = [i \in b .. k |-> IF i = b THEN a ELSE F[f[i - 1]]]
    BY <2>6
  <2> QED
    BY <2>2, <2>7
<1>2. n \notin T
  BY <1>1
<1>3. ASSUME NEW r, r = [i \in b .. n |-> IF i = b THEN a ELSE F[r[i - 1]]],
             NEW i \in b .. n, r[i] \notin S
      PROVE  FALSE
  <2> PICK D : D = {k \in b .. n : r[k] \notin S}
    OBVIOUS
  <2>1. D # {} /\ D \in SUBSET Nat
    <3>1. \A k \in b .. n : k \in Nat
      OBVIOUS
    <3> QED
      BY <1>3, <3>1
  <2>2. PICK k \in D : \A j \in D : k <= j
    BY <2>1, Least
  <2>3. k # b /\ k \in b .. n
    BY <1>3, <2>2
  <2>4. k - 1 \in b .. n /\ k - 1 \notin D
    BY <2>2, <2>3
  <2>5. r[k] = F[r[k - 1]] /\ r[k - 1] \in S
    BY <1>3, <2>3, <2>4
  <2> QED
    BY <2>2, <2>5
<1> QED
  BY <1>2, <1>3 DEF Chain

\* Wherever the tails lead, they lead to pairs.
LEMMA NthIsPair ==
  ASSUME disk \in [Pairs -> Logs], NEW i \in 1 .. Cardinality(Pairs)
  PROVE  NthListed[i] \in Pairs \cup {None}
<1> PICK S : S = Pairs \cup {None}
  OBVIOUS
<1> PICK N : N = Cardinality(Pairs)
  OBVIOUS
<1>1. N \in Nat
  BY PairsAreFinite
<1>2. RootPair \in S /\ Tails \in [S -> S]
  BY PairsAreDistinct DEF Tails, Logs
<1>3. /\ \E r : Chain(r, 1, N, RootPair, Tails)
      /\ \A r : Chain(r, 1, N, RootPair, Tails) => \A j \in 1 .. N : r[j] \in S
  BY <1>1, <1>2, ChainExists
<1>4. NthListed = CHOOSE r : Chain(r, 1, N, RootPair, Tails)
  BY DEF NthListed, Chain
<1>5. Chain(NthListed, 1, N, RootPair, Tails)
  BY <1>3, <1>4
<1> QED
  BY <1>3, <1>5

LEMMA ListedArePairs ==
  ASSUME disk \in [Pairs -> Logs]
  PROVE  /\ Listed \subseteq Pairs
         /\ \A i \in DOMAIN Thread : Thread[i] \in Pairs \cup {None}
         /\ DOMAIN Thread \subseteq Nat
<1> PICK N : N = Cardinality(Pairs)
  OBVIOUS
<1>1. N \in Nat
  BY PairsAreFinite
<1>2. Listed \subseteq Pairs
  BY NthIsPair DEF Listed
<1> PICK I : I = {i \in 1 .. N : NthListed[i] # None}
  OBVIOUS
<1> PICK len : len = Cardinality(I)
  OBVIOUS
<1>3. len \in Nat /\ len <= N
  <2>1. IsFiniteSet(1 .. N) /\ Cardinality(1 .. N) = N
    BY <1>1, FS_Interval
  <2>2. I \subseteq 1 .. N
    OBVIOUS
  <2> QED
    BY <2>1, <2>2, FS_Subset, FS_CardinalityType
<1>4. Thread = [i \in 1 .. len |-> NthListed[i]]
  BY DEF Thread
<1>5. \A i \in 1 .. len : i \in 1 .. N
  BY <1>1, <1>3
<1>6. \A i \in 1 .. len : NthListed[i] \in Pairs \cup {None}
  BY <1>5, NthIsPair
<1> QED
  BY <1>2, <1>3, <1>4, <1>6

LEMMA PredIsPair ==
  ASSUME disk \in [Pairs -> Logs], NEW a
  PROVE  Pred(a) \in Pairs \cup {None}
<1> PICK t : t = Thread
  OBVIOUS
<1>1. DOMAIN t \subseteq Nat /\ \A i \in DOMAIN t : t[i] \in Pairs \cup {None}
  BY ListedArePairs
<1> PICK I : I = {i \in DOMAIN t : disk[t[i]].tail # None /\ Same(disk[t[i]].tail, a)}
  OBVIOUS
<1>2. Pred(a) = IF I = {} THEN None ELSE t[CHOOSE i \in I : \A j \in I : i <= j]
  BY DEF Pred, First
<1>3. CASE I # {}
  <2>1. I \in SUBSET Nat
    BY <1>1
  <2>2. \E i \in I : \A j \in I : i <= j
    BY <1>3, <2>1, Least
  <2>3. PICK k : k = CHOOSE i \in I : \A j \in I : i <= j
    OBVIOUS
  <2>4. k \in DOMAIN t
    BY <2>2, <2>3
  <2> QED
    BY <1>1, <1>2, <1>3, <2>3, <2>4
<1> QED
  BY <1>2, <1>3

LEMMA ParentIsPair ==
  ASSUME disk \in [Pairs -> Logs], NEW a, Parent(a) # None
  PROVE  /\ Parent(a) \in Pairs
         /\ EntryOf(Parent(a), a) \in Names
         /\ disk[Parent(a)].ents[EntryOf(Parent(a), a)] \in Pairs
<1> PICK t : t = Thread
  OBVIOUS
<1>1. DOMAIN t \subseteq Nat /\ \A i \in DOMAIN t : t[i] \in Pairs \cup {None}
  BY ListedArePairs
<1> DEFINE Ok(p) == \E k \in Names : Refers(p, k, a) /\ ~Hidden(gdisk.move, p, k)
<1> PICK I : I = {i \in DOMAIN t : Ok(t[i])}
  OBVIOUS
<1>2. Parent(a) = IF I = {} THEN None ELSE t[CHOOSE i \in I : \A j \in I : i <= j]
  BY DEF Parent, First
<1>3. EntryOf(Parent(a), a) = CHOOSE n \in Names : Refers(Parent(a), n, a) /\ ~Hidden(gdisk.move, Parent(a), n)
  BY DEF EntryOf
<1>4. Ok(Parent(a)) /\ Parent(a) \in Pairs
  <2> HIDE DEF Ok
  <2>1. I \in SUBSET Nat
    BY <1>1
  <2>2. \E i \in I : \A j \in I : i <= j
    BY <1>2, <2>1, Least
  <2>3. PICK k : k = CHOOSE i \in I : \A j \in I : i <= j
    OBVIOUS
  <2>4. k \in DOMAIN t /\ Ok(t[k])
    BY <2>2, <2>3
  <2> QED
    BY <1>1, <1>2, <2>2, <2>3, <2>4
<1> PICK n : n = EntryOf(Parent(a), a)
  OBVIOUS
<1>5. n \in Names /\ Refers(Parent(a), n, a)
  BY <1>3, <1>4
<1> QED
  BY <1>4, <1>5 DEF Refers

LEMMA BelowArePairs ==
  ASSUME disk \in [Pairs -> Logs], NEW a \in Pairs, NEW m
  PROVE  Below(a, m) \subseteq Pairs
<1> DEFINE St(X) == UNION {{p} \cup Subdirs(p, m) : p \in X}
<1>1. ASSUME NEW X \in SUBSET Pairs PROVE St(X) \in SUBSET Pairs
  BY DEF Subdirs
<1> HIDE DEF St
<1> PICK S : S = SUBSET Pairs
  OBVIOUS
<1> PICK F : F = [X \in S |-> St(X)]
  OBVIOUS
<1>2. {a} \in S /\ F \in [S -> S]
  BY <1>1
<1> PICK N \in Nat : N = Cardinality(Dirs)
  BY TreeAssumption, FS_CardinalityType
<1> DEFINE Eq(r) == Chain(r, 0, N, {a}, F)
<1>3. (\E r : Eq(r)) /\ \A r : Eq(r) => \A k \in 0 .. N : r[k] \in S
  BY <1>2, ChainExists
<1> DEFINE Eq2(r) == r = [k \in 0 .. N |-> IF k = 0 THEN {a} ELSE St(r[k - 1])]
<1>4. \A r : Eq(r) => Eq2(r)
  <2> SUFFICES ASSUME NEW r, Eq(r) PROVE Eq2(r)
    OBVIOUS
  <2>1. \A k \in 0 .. N : r[k] \in S
    BY <1>3
  <2>2. ASSUME NEW k \in 0 .. N, k # 0 PROVE F[r[k - 1]] = St(r[k - 1])
    <3>1. k - 1 \in 0 .. N
      BY <2>2
    <3> QED
      BY <2>1, <3>1
  <2> QED
    BY <2>2 DEF Chain
<1>5. Below(a, m) = (CHOOSE r : Eq2(r))[N]
  BY DEF Below, St
<1>6. PICK r : r = CHOOSE q : Eq2(q)
  OBVIOUS
<1>7. Eq2(r)
  <2> HIDE DEF Eq, Eq2
  <2> QED
    BY <1>3, <1>4, <1>6
<1>8. ASSUME r[N] \notin SUBSET Pairs PROVE FALSE
  <2> PICK D : D = {k \in 0 .. N : r[k] \notin SUBSET Pairs}
    OBVIOUS
  <2>1. D # {} /\ D \in SUBSET Nat
    BY <1>8
  <2>2. PICK k \in D : \A j \in D : k <= j
    BY <2>1, Least
  <2>3. k # 0
    BY <1>7, <2>2
  <2>4. k \in 1 .. N /\ k - 1 \in 0 .. N /\ k - 1 \notin D
    BY <2>2, <2>3
  <2>5. r[k - 1] \in SUBSET Pairs
    BY <2>4
  <2>6. r[k] = St(r[k - 1])
    BY <1>7, <2>3, <2>4
  <2> QED
    BY <1>1, <2>2, <2>5, <2>6
<1> QED
  BY <1>5, <1>6, <1>8

\* A mount finds a move of an entry, or none.
LEMMA DiskMoveIsMove ==
  ASSUME disk \in [Pairs -> Logs]
  PROVE  DiskMove \in GMoves \cup {None}
<1>1. \A p \in Listed : disk[p].delta \subseteq AllBits
  BY ListedArePairs DEF Logs, AllBits
<1>2. DiskBits \subseteq AllBits
  BY <1>1 DEF DiskBits
<1> QED
  BY <1>2 DEF DiskMove, AllBits

-----------------------------------------------------------------------------
(***************************************************************************)
(* Commits, of pairs that may move.                                        *)
(***************************************************************************)

\* How a commit of call o leaves the loops: the call goes on, with the loop of
\* relocations as it should be or begun anew, or it has failed.
Going(o) ==
  op'.stage = o.stage /\ (op'.vic = None <=> o.vic = None) /\ (walk' = None <=> walk = None)
CommitEnds(o, done, orphans) ==
  \/ loc' = done /\ moves' = moves /\ Going(o)
  \/ /\ loc' # None /\ loc'.at = "parent" /\ loc'.orphans = orphans
     /\ moves' = moves + 1 /\ Going(o)
  \/ op' = NoOp /\ loc' = None /\ moves' = moves

LEMMA NoOpIsOp == NoOp \in TreeOps /\ NoOp.stage = "idle" /\ NoOp.vic = None
<1>1. NoOp \in Ops
  BY DEF NoOp, Ops, Stages, NoChange
<1> QED
  BY <1>1 DEF NoOp, TreeOps

\* A directory that is in the list of handles is followed.
LEMMA TrackIsOp ==
  ASSUME NEW o \in TreeOps, NEW m \in TreeMdirs
  PROVE  /\ Track(o, m) \in TreeOps
         /\ Track(o, m).stage = o.stage /\ (Track(o, m).vic = None <=> o.vic = None)
<1>1. m # None /\ o \in Ops
  BY NoneAssumption DEF TreeMdirs, TreeOps
<1>2. CASE Tracked(o) /\ Same(o.vic.pair, m.pair)
  <2>1. Track(o, m) = [o EXCEPT !.vic = m] /\ o.vic # None
    BY <1>2 DEF Track, Tracked
  <2>2. [o EXCEPT !.vic = m] \in Ops
    BY <1>1 DEF Ops, TreeMdirs
  <2> QED
    BY <1>1, <2>1, <2>2 DEF TreeOps, Ops
<1>3. CASE ~(Tracked(o) /\ Same(o.vic.pair, m.pair))
  BY <1>3 DEF Track
<1> QED
  BY <1>2, <1>3

LEMMA DeltaIsLog ==
  ASSUME NEW log \in TreeLogs, NEW d \in SUBSET AllBits
  PROVE  [log EXCEPT !.delta = Xor(@, d)] \in TreeLogs
<1>1. log \in Logs /\ log.delta \in SUBSET AllBits
  BY DEF TreeLogs, Logs, AllBits
<1>2. Xor(log.delta, d) \in SUBSET AllBits
  BY ONLY <1>1, d \in SUBSET AllBits DEF Xor
<1> QED
  BY <1>1, <1>2 DEF TreeLogs, Logs, AllBits

LEMMA CommitTyped ==
  ASSUME Typed, NEW m \in TreeMdirs, NEW log \in TreeLogs, NEW g \in Gstates,
         NEW d \in SUBSET AllBits, NEW o \in TreeOps, NEW done \in TreeLocs \cup {None},
         NEW orphans \in BOOLEAN, NEW mine \in BOOLEAN, mine => walk # None,
         calls' \in 0 .. MaxCalls, Commit(m, log, g, d, o, done, orphans, mine)
  PROVE  Typed' /\ gstate' = g /\ fault' = "none" /\ CommitEnds(o, done, orphans)
<1>1. /\ TypeOK /\ disk \in [Pairs -> TreeLogs] /\ gdisk \in Gstates /\ m.pair \in Pairs
      /\ moves \in 0 .. MaxMoves /\ walk \in Walks \cup {None}
      /\ walk # None => walk.pdir \in TreeMdirs
      /\ done \in Locs \cup {None}
  BY DEF Typed, TypeOK, TreeMdirs, Mdirs, TreeLocs
<1>2. "none" \in Faults /\ {} \subseteq AllBits /\ \A x : x \in TreeOps => x \in Ops
  BY DEF Faults, TreeOps
<1>3. ASSUME NEW p \in Pairs, NEW l \in TreeLogs, NEW c, c = [pair |-> p, log |-> l]
      PROVE  /\ c \in TreeMdirs /\ [disk EXCEPT ![p] = l] \in [Pairs -> TreeLogs]
             /\ Follow(c, mine) \in Walks \cup {None}
             /\ Follow(c, mine) # None => Follow(c, mine).pdir \in TreeMdirs
             /\ Follow(c, mine) = None <=> walk = None
  <2>1. c \in TreeMdirs
    BY <1>3 DEF TreeMdirs, Mdirs, TreeLogs
  <2>2. [disk EXCEPT ![p] = l] \in [Pairs -> TreeLogs]
    BY <1>1
  <2>3. /\ Follow(c, mine) \in Walks \cup {None}
        /\ Follow(c, mine) # None => Follow(c, mine).pdir \in TreeMdirs
        /\ Follow(c, mine) = None <=> walk = None
    <3>1. CASE mine
      <4>1. Follow(c, mine) = [walk EXCEPT !.pdir = c] /\ walk \in Walks
        BY <1>1, <3>1 DEF Follow
      <4>2. [walk EXCEPT !.pdir = c] \in Walks /\ [walk EXCEPT !.pdir = c].pdir = c
        BY <2>1, <4>1 DEF Walks, TreeMdirs
      <4>3. Follow(c, mine) # None /\ walk # None
        BY <4>1, <4>2, NoneAssumption
      <4> QED
        BY <2>1, <4>1, <4>2, <4>3
    <3>2. CASE ~mine
      <4>1. Follow(c, mine) = walk
        BY <3>2 DEF Follow
      <4> QED
        BY <1>1, <4>1
    <3> QED
      BY <3>1, <3>2
  <2> QED
    BY <2>1, <2>2, <2>3
<1>4. ASSUME NEW l \in TreeLogs, disk' = [disk EXCEPT ![m.pair] = l]
      PROVE  disk' \in [Pairs -> Logs]
  BY <1>1, <1>4 DEF TreeLogs
<1>5. CASE CommitInPlace(m, log, g, d, o, done, mine)
  <2> PICK D : D = Xor(d, Xor(Bits(g), Bits(gdisk)))
    OBVIOUS
  <2>1. D \in SUBSET AllBits
    BY <1>1, BitsAreBits, XorIsSum
  <2> PICK l : l = [log EXCEPT !.delta = Xor(@, D)]
    OBVIOUS
  <2>2. l \in TreeLogs
    BY <2>1, DeltaIsLog
  <2> PICK c : c = [pair |-> m.pair, log |-> l]
    OBVIOUS
  <2>3. /\ disk' = [disk EXCEPT ![m.pair] = l] /\ op' = Track(o, c) /\ walk' = Follow(c, mine)
        /\ gstate' = g /\ gdisk' = g /\ gdelta' = {} /\ loc' = done /\ fault' = "none"
        /\ moves' = moves
    BY <1>5 DEF CommitInPlace
  <2>4. c \in TreeMdirs /\ disk' \in [Pairs -> TreeLogs] /\ walk' \in Walks \cup {None}
        /\ (walk' # None => walk'.pdir \in TreeMdirs) /\ (walk' = None <=> walk = None)
    BY <1>1, <1>3, <2>2, <2>3
  <2>5. op' \in TreeOps /\ op'.stage = o.stage /\ (op'.vic = None <=> o.vic = None)
    BY <2>3, <2>4, TrackIsOp
  <2>6. Typed'
    <3>1. disk' \in [Pairs -> Logs]
      BY <1>4, <2>2, <2>3
    <3> QED
      BY <1>1, <1>2, <2>3, <2>4, <2>5, <3>1 DEF Typed, TypeOK, AllBits
  <2> QED
    BY <2>3, <2>4, <2>5, <2>6 DEF CommitEnds, Going
<1>6. CASE CommitMoved(m, log, g, d, o, orphans, mine)
  <2> PICK l : l = [log EXCEPT !.delta = Xor(@, d)]
    OBVIOUS
  <2>1. l \in TreeLogs
    BY DeltaIsLog
  <2> PICK p : p = <<m.pair[1], moves + 1>>
    OBVIOUS
  <2>2. moves < MaxMoves /\ m.pair[1] # Root
    BY <1>6 DEF CommitMoved
  <2>3. p \in Pairs /\ p[1] # Root /\ moves + 1 \in 0 .. MaxMoves
    BY <1>1, <2>2, TreeAssumption DEF Pairs
  <2> PICK c : c = [pair |-> p, log |-> l]
    OBVIOUS
  <2> PICK k : k = NewLoc(m.pair, p, orphans)
    OBVIOUS
  <2>4. k \in TreeLocs /\ k # None /\ k.at = "parent" /\ k.orphans = orphans
    <3>1. k \in Locs /\ k.at = "parent" /\ k.orphans = orphans /\ k.ldir = p
      BY <1>1, <2>3 DEF NewLoc, Locs
    <3> QED
      BY <2>3, <3>1, NoneAssumption DEF TreeLocs
  <2>5. /\ disk' = [disk EXCEPT ![p] = l] /\ op' = Track(o, c) /\ walk' = Follow(c, mine)
        /\ gstate' = g /\ gdisk' = gdisk /\ gdelta' = {} /\ loc' = k /\ fault' = "none"
        /\ moves' = moves + 1
    BY <1>6 DEF CommitMoved
  <2>6. c \in TreeMdirs /\ disk' \in [Pairs -> TreeLogs] /\ walk' \in Walks \cup {None}
        /\ (walk' # None => walk'.pdir \in TreeMdirs) /\ (walk' = None <=> walk = None)
    BY <1>3, <2>1, <2>3, <2>5
  <2>7. op' \in TreeOps /\ op'.stage = o.stage /\ (op'.vic = None <=> o.vic = None)
    BY <2>5, <2>6, TrackIsOp
  <2>8. Typed'
    <3>1. disk' \in [Pairs -> Logs]
      BY <2>6 DEF TreeLogs
    <3>2. loc' \in Locs \cup {None}
      BY <2>4, <2>5 DEF TreeLocs
    <3> QED
      BY <1>1, <1>2, <2>3, <2>4, <2>5, <2>6, <2>7, <3>1, <3>2 DEF Typed, TypeOK, AllBits
  <2> QED
    BY <2>4, <2>5, <2>6, <2>7, <2>8 DEF CommitEnds, Going
<1>7. CASE CommitFails(g, d, o)
  <2>1. /\ disk' = disk /\ gdisk' = gdisk /\ moves' = moves /\ gstate' = g /\ gdelta' = d
        /\ op' = NoOp /\ loc' = None /\ walk' = None /\ fault' = "none"
    BY <1>7 DEF CommitFails
  <2>2. Typed'
    <3>1. NoOp \in Ops
      BY NoOpIsOp, <1>2
    <3> QED
      BY <1>1, <1>2, <2>1, <3>1, NoOpIsOp DEF Typed, TypeOK, AllBits
  <2> QED
    BY <2>1, <2>2 DEF CommitEnds
<1> QED
  BY <1>5, <1>6, <1>7 DEF Commit

\* What call o may have counted when it commits.
Tallied(g, o, done, orphans) ==
  /\ g.orphans <= moves + 1
  /\ o.stage = "ready" => o.vic = None
  /\ done # None => done.at # "parent" /\ (done.at = "pred" => done.hasparent)
  /\ o.stage \in {"ready", "moved", "drop"} /\ o.vic = None /\ walk = None =>
       /\ (done # None => ~done.orphans) =>
            g.orphans = IF done # None /\ done.at = "pred" THEN 1 ELSE 0
       /\ ~orphans => g.orphans = 0

LEMMA CommitCounts ==
  ASSUME Typed, NEW g \in Gstates, NEW o \in TreeOps, NEW done, NEW orphans,
         Tallied(g, o, done, orphans), CommitEnds(o, done, orphans),
         gstate' = g, fault' = "none"
  PROVE  Counted'
<1>1. g.orphans \in Int /\ moves \in Int /\ fault' # "type"
  BY DEF Typed, TypeOK, Gstates
<1>2. CASE loc' = done /\ moves' = moves /\ Going(o)
  BY <1>1, <1>2 DEF Tallied, Going, Counted, Balanced
<1>3. CASE /\ loc' # None /\ loc'.at = "parent" /\ loc'.orphans = orphans
           /\ moves' = moves + 1 /\ Going(o)
  BY <1>1, <1>3 DEF Tallied, Going, Counted, Balanced
<1>4. CASE op' = NoOp /\ loc' = None /\ moves' = moves
  BY <1>1, <1>4, NoOpIsOp DEF Tallied, Counted, Balanced
<1> QED
  BY <1>2, <1>3, <1>4 DEF CommitEnds

LEMMA CommitKeeps ==
  ASSUME Typed, NEW m \in TreeMdirs, NEW log \in TreeLogs, NEW g \in Gstates,
         NEW d \in SUBSET AllBits, NEW o \in TreeOps, NEW done \in TreeLocs \cup {None},
         NEW orphans \in BOOLEAN, NEW mine \in BOOLEAN, mine => walk # None,
         calls' \in 0 .. MaxCalls, Commit(m, log, g, d, o, done, orphans, mine),
         Tallied(g, o, done, orphans)
  PROVE  Typed' /\ Counted'
<1>1. Typed' /\ gstate' = g /\ fault' = "none" /\ CommitEnds(o, done, orphans)
  BY CommitTyped
<1> QED
  BY <1>1, CommitCounts

\* A first commit counts nothing for a call that removes no directory.
LEMMA FirstCommitKeeps ==
  ASSUME Typed, NEW m \in TreeMdirs, NEW log \in TreeLogs, NEW g \in Gstates,
         NEW d \in SUBSET AllBits, NEW o \in TreeOps,
         calls' \in 0 .. MaxCalls, Commits(m, log, g, d, o),
         g.orphans <= moves + 1, o.stage # "ready",
         o.stage \in {"moved", "drop"} /\ o.vic = None => g.orphans = 0
  PROVE  Typed' /\ Counted'
<1>1. Tallied(g, o, None, FALSE)
  BY DEF Tallied
<1> QED
  BY <1>1, CommitKeeps DEF Commits

\* A mount, after a power loss or an assertion other than that on the orphans.
LEMMA RestartKeeps ==
  ASSUME Typed, Counted, calls' \in 0 .. MaxCalls,
         NEW f \in Faults \ {"type"}, Restart(f)
  PROVE  Typed' /\ Counted'
<1> PICK g : g = [orphans |-> IF OrphanBit \in DiskBits THEN 1 ELSE 0, move |-> DiskMove]
  OBVIOUS
<1>1. /\ disk' = disk /\ gdisk' = g /\ moves' = moves
      /\ gstate' = g /\ gdelta' = {} /\ op' = NoOp /\ loc' = None /\ walk' = None
      /\ fault' = f
  BY DEF Restart
<1>2. disk \in [Pairs -> Logs] /\ disk \in [Pairs -> TreeLogs] /\ moves \in 0 .. MaxMoves
  BY DEF Typed, TypeOK
<1>3. g \in Gstates /\ g.orphans <= 1
  <2>1. 0 \in 0 .. MaxMoves + 1 /\ 1 \in 0 .. MaxMoves + 1
    BY TreeAssumption
  <2> QED
    BY <1>2, <2>1, DiskMoveIsMove DEF Gstates
<1>4. Typed'
  <2>1. NoOp \in Ops
    BY NoOpIsOp DEF TreeOps
  <2> QED
    BY <1>1, <1>2, <1>3, <2>1, NoOpIsOp DEF Typed, TypeOK
<1>5. Counted'
  BY <1>1, <1>2, <1>3, NoOpIsOp DEF Counted, Balanced
<1> QED
  BY <1>4, <1>5

LEMMA FetchIsTree ==
  ASSUME Typed, NEW a \in Pairs
  PROVE  /\ Fetch(a) \in TreeMdirs /\ Fetch(a).pair = a /\ Fetch(a).log = disk[a]
         /\ disk[a] \in TreeLogs /\ disk[a] \in Logs
BY DEF Typed, Fetch, TreeMdirs, Mdirs, TreeLogs

\* An entry of the tree, of a log.
LEMMA EntryIsTree ==
  ASSUME NEW log \in TreeLogs, NEW n \in Names,
         NEW e \in Files \cup (Dirs \X (0 .. MaxMoves)) \cup {None}
  PROVE  [log EXCEPT !.ents[n] = e] \in TreeLogs
<1>1. e \in Objects /\ log \in Logs
  BY DEF Objects, Pairs, TreeLogs
<1>2. [log EXCEPT !.ents[n] = e] \in Logs
      /\ \A k \in Names : [log EXCEPT !.ents[n] = e].ents[k] = IF k = n THEN e ELSE log.ents[k]
  BY <1>1, EntryIsLog
<1> QED
  BY <1>2 DEF TreeLogs

LEMMA WithoutIsTree ==
  ASSUME NEW log \in TreeLogs, NEW n \in Names
  PROVE  Without(log, n) \in TreeLogs
BY EntryIsTree DEF Without

LEMMA TailIsTree ==
  ASSUME NEW log \in TreeLogs, NEW p \in Pairs \cup {None}
  PROVE  [log EXCEPT !.tail = p] \in TreeLogs
BY DEF TreeLogs, Logs

\* A commit that completes a move, too.
LEMMA PiggybackIsTree ==
  ASSUME NEW log \in TreeLogs, NEW g \in Gstates, NEW a
  PROVE  /\ Piggyback(log, g, a) \in TreeLogs
         /\ AfterPiggyback(g, a) \in Gstates /\ AfterPiggyback(g, a).orphans = g.orphans
<1>1. CASE HasMoveHere(g, a)
  <2>1. g.move \in GMoves
    BY <1>1 DEF HasMoveHere, Gstates
  <2>2. g.move[2] \in Names
    BY <2>1 DEF GMoves
  <2>3. PrepMove(g, None) \in Gstates /\ PrepMove(g, None).orphans = g.orphans
    BY DEF PrepMove, Gstates
  <2> QED
    BY <1>1, <2>2, <2>3, WithoutIsTree DEF Piggyback, AfterPiggyback
<1>2. CASE ~HasMoveHere(g, a)
  BY <1>2 DEF Piggyback, AfterPiggyback
<1> QED
  BY <1>1, <1>2

LEMMA PrepIsGstate ==
  ASSUME NEW g \in Gstates, NEW k \in Int, g.orphans + k \in 0 .. MaxMoves + 1
  PROVE  /\ PrepOrphans(g, k) \in Gstates /\ PrepOrphans(g, k).orphans = g.orphans + k
         /\ PrepOrphans(g, k).move = g.move
BY DEF PrepOrphans, Gstates

LEMMA TypedFacts ==
  ASSUME Typed
  PROVE  /\ gstate \in Gstates /\ gstate.orphans \in 0 .. MaxMoves + 1
         /\ gdisk \in Gstates /\ gdelta \in SUBSET AllBits
         /\ disk \in [Pairs -> Logs] /\ disk \in [Pairs -> TreeLogs]
         /\ op \in TreeOps /\ op \in Ops /\ loc \in TreeLocs \cup {None}
         /\ loc # None => loc \in TreeLocs /\ loc \in Locs
         /\ walk # None => walk \in Walks /\ walk.pdir \in TreeMdirs
         /\ moves \in 0 .. MaxMoves /\ moves \in Int
         /\ RootPair \in Pairs /\ MaxMoves \in Nat
BY TreeAssumption, PairsAreDistinct DEF Typed, TypeOK, Gstates, AllBits, TreeOps, TreeLocs

LEMMA QuietTyped ==
  ASSUME Typed, calls' \in 0 .. MaxCalls,
         disk' = disk, gdisk' = gdisk, gdelta' = gdelta, moves' = moves, fault' = "none",
         gstate' \in Gstates, op' \in TreeOps, loc' \in TreeLocs \cup {None},
         walk' \in Walks \cup {None}, walk' # None => walk'.pdir \in TreeMdirs
  PROVE  Typed'
<1>1. op' \in Ops /\ loc' \in Locs \cup {None} /\ "none" \in Faults
  BY DEF TreeOps, TreeLocs, Faults
<1> QED
  BY <1>1 DEF Typed, TypeOK

LEMMA NewWalkIsWalk ==
  ASSUME Typed, NEW b \in BOOLEAN
  PROVE  /\ NewWalk(b) \in Walks \cup {None}
         /\ NewWalk(b) # None => NewWalk(b).pdir \in TreeMdirs
         /\ NewWalk(b) = None => gstate.orphans = 0
<1>1. Fetch(RootPair) \in TreeMdirs /\ gstate.orphans \in Nat
  BY TypedFacts, FetchIsTree
<1>2. CASE gstate.orphans > 0
  <2> PICK w : w = [pass |-> 0, pdir |-> Fetch(RootPair), more |-> FALSE, powerloss |-> b]
    OBVIOUS
  <2>1. w \in Walks /\ w.pdir \in TreeMdirs
    BY <1>1 DEF Walks, TreeMdirs
  <2>2. NewWalk(b) = w
    BY <1>2 DEF NewWalk
  <2> QED
    BY <2>1, <2>2, NoneAssumption
<1>3. CASE ~(gstate.orphans > 0)
  BY <1>1, <1>3 DEF NewWalk
<1> QED
  BY <1>2, <1>3

\* Between two calls, and when the repair of a call has ended, nothing is counted.
LEMMA ReadyCounts ==
  ASSUME Counted, Ready
  PROVE  gstate.orphans = 0 /\ loc = None /\ walk = None
BY DEF Counted, Balanced, Ready, Free

LEMMA RepairIsTree ==
  ASSUME NEW st \in {"deorphan", "ready", "end"}
  PROVE  /\ [NoOp EXCEPT !.call = "repair", !.stage = st] \in TreeOps
         /\ [NoOp EXCEPT !.call = "repair", !.stage = st].stage = st
         /\ [NoOp EXCEPT !.call = "repair", !.stage = st].vic = None
<1> PICK o : o = [NoOp EXCEPT !.call = "repair", !.stage = st]
  OBVIOUS
<1>1. st \in Stages
  BY DEF Stages
<1>2. o \in Ops /\ o.stage = st /\ o.cwd = None /\ o.vic = None
  BY <1>1, RepairIsOp
<1> QED
  BY <1>2 DEF TreeOps

-----------------------------------------------------------------------------
(***************************************************************************)
(* One lemma for each action: the relocation loop.                         *)
(***************************************************************************)

LEMMA RelocateParentCounts ==
  ASSUME Typed, Counted, RelocateParent, calls' \in 0 .. MaxCalls
  PROVE  Typed' /\ Counted'
<1>1. loc # None /\ loc.at = "parent" /\ loc \in TreeLocs /\ loc \in Locs
  BY TypedFacts DEF RelocateParent
<1> PICK p : p = Parent(loc.lpair)
  OBVIOUS
<1> PICK n : n = EntryOf(p, loc.lpair)
  OBVIOUS
<1> PICK g : g = AfterPiggyback(PrepOrphans(gstate, 1), p)
  OBVIOUS
<1> PICK log : log = [Piggyback(disk[p], gstate, p) EXCEPT !.ents[n] = loc.ldir]
  OBVIOUS
<1> PICK done : done = [loc EXCEPT !.at = "pred", !.hasparent = TRUE]
  OBVIOUS
<1>2. p # None /\ Commit(Fetch(p), log, g, gdelta, op, done, TRUE, FALSE)
  BY DEF RelocateParent
<1>3. p \in Pairs /\ n \in Names
  BY <1>2, TypedFacts, ParentIsPair
<1>4. Fetch(p) \in TreeMdirs /\ disk[p] \in TreeLogs
  BY <1>3, FetchIsTree
<1>5. log \in TreeLogs
  <2>1. loc.ldir \in Dirs \X (0 .. MaxMoves)
    BY <1>1 DEF TreeLocs, Locs, Pairs
  <2>2. Piggyback(disk[p], gstate, p) \in TreeLogs
    BY <1>4, TypedFacts, PiggybackIsTree
  <2> QED
    BY <1>3, <2>1, <2>2, EntryIsTree
<1>6. g \in Gstates /\ g.orphans = gstate.orphans + 1 /\ gstate.orphans <= moves
  <2>1. gstate.orphans <= moves
    BY <1>1 DEF Counted
  <2>2. gstate.orphans + 1 \in 0 .. MaxMoves + 1
    BY <2>1, TypedFacts
  <2>3. PrepOrphans(gstate, 1) \in Gstates /\ PrepOrphans(gstate, 1).orphans = gstate.orphans + 1
    BY <2>2, TypedFacts, PrepIsGstate
  <2> QED
    BY <2>1, <2>3, PiggybackIsTree, <1>4
<1>7. done \in TreeLocs /\ done # None /\ done.at = "pred" /\ done.hasparent
      /\ done.orphans = loc.orphans
  <2>1. done \in Locs /\ done.ldir = loc.ldir /\ done.at = "pred" /\ done.hasparent
        /\ done.orphans = loc.orphans
    BY <1>1 DEF Locs
  <2> QED
    BY <1>1, <2>1, NoneAssumption DEF TreeLocs
<1>8. Tallied(g, op, done, TRUE)
  <2>1. op.stage \in {"ready", "moved", "drop"} /\ op.vic = None /\ walk = None /\ ~loc.orphans
          => gstate.orphans = 0
    BY <1>1 DEF Counted, Balanced
  <2>2. op.stage = "ready" => op.vic = None
    BY DEF Counted
  <2> QED
    BY <1>6, <1>7, <2>1, <2>2, TypedFacts DEF Tallied
<1> QED
  BY <1>2, <1>4, <1>5, <1>6, <1>7, <1>8, TypedFacts, CommitKeeps

LEMMA RelocatePredCounts ==
  ASSUME Typed, Counted, RelocatePred, calls' \in 0 .. MaxCalls
  PROVE  Typed' /\ Counted'
<1>1. loc # None /\ loc.at \in {"pred", "parent"} /\ loc \in TreeLocs /\ loc \in Locs
  BY TypedFacts DEF RelocatePred, NoParent
<1> PICK q : q = Pred(loc.lpair)
  OBVIOUS
<1> PICK k : k = IF gstate.orphans > 0 /\ loc.hasparent THEN -1 ELSE 0
  OBVIOUS
<1> PICK g : g = AfterPiggyback(PrepOrphans(gstate, k), q)
  OBVIOUS
<1> PICK log : log = [Piggyback(disk[q], gstate, q) EXCEPT !.tail = loc.ldir]
  OBVIOUS
<1> PICK done : done = [loc EXCEPT !.at = "done"]
  OBVIOUS
<1>2. q # None /\ (Restart("drop") \/ Commit(Fetch(q), log, g, gdelta, op, done, loc.orphans, FALSE))
  BY DEF RelocatePred
<1>3. CASE Restart("drop")
  BY <1>3, RestartKeeps DEF Faults
<1>4. CASE Commit(Fetch(q), log, g, gdelta, op, done, loc.orphans, FALSE)
  <2>1. q \in Pairs
    BY <1>2, TypedFacts, PredIsPair
  <2>2. Fetch(q) \in TreeMdirs /\ disk[q] \in TreeLogs
    BY <2>1, FetchIsTree
  <2>3. log \in TreeLogs
    <3>1. Piggyback(disk[q], gstate, q) \in TreeLogs
      BY <2>2, TypedFacts, PiggybackIsTree
    <3> QED
      BY <1>1, <3>1, TailIsTree DEF Locs
  <2>4. gstate.orphans + k \in 0 .. MaxMoves + 1 /\ k \in Int /\ gstate.orphans + k <= moves + 1
    <3>1. gstate.orphans <= moves + 1
      BY TypedFacts DEF Counted
    <3> QED
      BY <3>1, TypedFacts
  <2>5. g \in Gstates /\ g.orphans = gstate.orphans + k
    <3>1. PrepOrphans(gstate, k) \in Gstates /\ PrepOrphans(gstate, k).orphans = gstate.orphans + k
      BY <2>4, TypedFacts, PrepIsGstate
    <3> QED
      BY <2>2, <3>1, PiggybackIsTree
  <2>6. done \in TreeLocs /\ done # None /\ done.at = "done" /\ done.orphans = loc.orphans
        /\ loc.orphans \in BOOLEAN
    <3>1. done \in Locs /\ done.ldir = loc.ldir /\ done.at = "done" /\ done.orphans = loc.orphans
          /\ loc.orphans \in BOOLEAN
      BY <1>1 DEF Locs
    <3> QED
      BY <1>1, <3>1, NoneAssumption DEF TreeLocs
  <2>7. Tallied(g, op, done, loc.orphans)
    <3>1. ASSUME op.stage \in {"ready", "moved", "drop"}, op.vic = None, walk = None, ~loc.orphans
          PROVE  g.orphans = 0
      <4>1. gstate.orphans = IF loc.at = "pred" THEN 1 ELSE 0
        BY <1>1, <3>1 DEF Counted, Balanced
      <4>2. loc.at = "pred" => loc.hasparent
        BY <1>1 DEF Counted
      <4> QED
        BY <2>5, <4>1, <4>2
    <3>2. op.stage = "ready" => op.vic = None
      BY DEF Counted
    <3> QED
      BY <2>4, <2>5, <2>6, <3>1, <3>2 DEF Tallied
  <2> PICK b : b = loc.orphans
    OBVIOUS
  <2>8. gdelta \in SUBSET AllBits /\ op \in TreeOps
    BY TypedFacts
  <2>9. b \in BOOLEAN /\ Commit(Fetch(q), log, g, gdelta, op, done, b, FALSE)
        /\ Tallied(g, op, done, b)
    BY <1>4, <2>6, <2>7
  <2>10. done \in TreeLocs \cup {None}
    BY <2>6
  <2> QED
    BY ONLY Typed, calls' \in 0 .. MaxCalls, <2>2, <2>3, <2>5, <2>8, <2>9, <2>10, CommitKeeps
<1> QED
  BY <1>2, <1>3, <1>4

LEMMA RelocateEndsCounts ==
  ASSUME Typed, Counted, RelocateEnds, calls' \in 0 .. MaxCalls
  PROVE  Typed' /\ Counted'
<1>1. CASE loc.at = "pred"
  <2>1. Restart("pred")
    BY <1>1 DEF RelocateEnds
  <2> QED
    BY <2>1, RestartKeeps DEF Faults
<1>2. CASE loc.at # "pred"
  <2>1. /\ loc # None /\ loc' = None /\ fault' = "none"
        /\ disk' = disk /\ gstate' = gstate /\ gdisk' = gdisk /\ gdelta' = gdelta
        /\ op' = op /\ moves' = moves
        /\ walk' = IF ~loc.orphans THEN walk
                   ELSE IF walk = None THEN NewWalk(FALSE) ELSE [walk EXCEPT !.more = TRUE]
    BY <1>2 DEF RelocateEnds
  <2>2. /\ walk' \in Walks \cup {None} /\ (walk' # None => walk'.pdir \in TreeMdirs)
        /\ walk # None => walk' # None
        /\ loc.orphans /\ walk' = None => gstate.orphans = 0
    <3>1. CASE ~loc.orphans
      BY <2>1, <3>1, TypedFacts
    <3>2. CASE loc.orphans /\ walk = None
      BY <2>1, <3>2, NewWalkIsWalk
    <3>3. CASE loc.orphans /\ walk # None
      <4>1. walk' = [walk EXCEPT !.more = TRUE] /\ walk \in Walks /\ walk.pdir \in TreeMdirs
        BY <2>1, <3>3, TypedFacts
      <4>2. walk' \in Walks /\ walk'.pdir = walk.pdir
        BY <4>1 DEF Walks
      <4> QED
        BY <4>1, <4>2, NoneAssumption
    <3> QED
      BY <3>1, <3>2, <3>3
  <2>3. Typed'
    BY <2>1, <2>2, TypedFacts, QuietTyped
  <2>4. Balanced'
    <3> SUFFICES ASSUME op.stage \in {"ready", "moved", "drop"}, op.vic = None, walk' = None
                 PROVE  gstate.orphans = 0
      BY <2>1 DEF Balanced
    <3>1. CASE loc.orphans
      BY <2>2, <3>1
    <3>2. CASE ~loc.orphans
      BY <1>2, <2>1, <2>2, <3>2 DEF Counted, Balanced
    <3> QED
      BY <3>1, <3>2
  <2>5. gstate'.orphans <= moves' + 1
    BY <2>1, TypedFacts DEF Counted
  <2>6. (op'.stage = "ready" => op'.vic = None) /\ loc' = None /\ fault' # "type"
    BY <2>1 DEF Counted
  <2>7. Counted'
    BY <2>4, <2>5, <2>6 DEF Counted
  <2> QED
    BY <2>3, <2>7
<1> QED
  BY <1>1, <1>2

-----------------------------------------------------------------------------
(***************************************************************************)
(* Repair.                                                                 *)
(***************************************************************************)

LEMMA DemoveCounts ==
  ASSUME Typed, Counted, Demove, calls' \in 0 .. MaxCalls
  PROVE  Typed' /\ Counted'
<1> PICK a : a = gdisk.move[1]
  OBVIOUS
<1> PICK n : n = gdisk.move[2]
  OBVIOUS
<1> PICK o : o = [NoOp EXCEPT !.call = "repair", !.stage = "deorphan"]
  OBVIOUS
<1>1. gdisk.move # None /\ loc = None
      /\ Commits(Fetch(a), Without(disk[a], n), PrepMove(gstate, None), gdelta, o)
  BY DEF Demove, Idle, Free
<1>2. a \in Pairs /\ n \in Names
  BY <1>1, TypedFacts DEF Gstates, GMoves
<1>3. Fetch(a) \in TreeMdirs /\ Without(disk[a], n) \in TreeLogs
  BY <1>2, FetchIsTree, WithoutIsTree
<1>4. PrepMove(gstate, None) \in Gstates /\ PrepMove(gstate, None).orphans = gstate.orphans
  BY TypedFacts DEF PrepMove, Gstates
<1>5. o \in TreeOps /\ o.stage = "deorphan"
  BY RepairIsTree
<1>6. gstate.orphans <= moves + 1
  BY <1>1 DEF Counted
<1> QED
  BY <1>1, <1>3, <1>4, <1>5, <1>6, TypedFacts, FirstCommitKeeps

LEMMA DeorphanCounts ==
  ASSUME Typed, Counted, Deorphan, calls' \in 0 .. MaxCalls
  PROVE  Typed' /\ Counted'
<1> PICK o : o = [NoOp EXCEPT !.call = "repair", !.stage = "ready"]
  OBVIOUS
<1>1. /\ loc = None /\ loc' = loc /\ op' = o /\ walk' = NewWalk(TRUE) /\ fault' = "none"
      /\ disk' = disk /\ gstate' = gstate /\ gdisk' = gdisk /\ gdelta' = gdelta /\ moves' = moves
  BY DEF Deorphan, Free
<1>2. o \in TreeOps /\ o.stage = "ready" /\ o.vic = None
  BY RepairIsTree
<1>3. /\ NewWalk(TRUE) \in Walks \cup {None}
      /\ NewWalk(TRUE) # None => NewWalk(TRUE).pdir \in TreeMdirs
      /\ NewWalk(TRUE) = None => gstate.orphans = 0
  BY NewWalkIsWalk
<1>4. Typed'
  BY <1>1, <1>2, <1>3, TypedFacts, QuietTyped
<1>5. Counted'
  BY <1>1, <1>2, <1>3 DEF Counted, Balanced
<1> QED
  BY <1>4, <1>5

\* Where lfs_fs_deorphan is.
LEMMA WalkFacts ==
  ASSUME Typed, Walking
  PROVE  /\ loc = None /\ walk # None /\ walk \in Walks
         /\ walk.pdir \in TreeMdirs /\ walk.pdir.log \in TreeLogs
         /\ AheadOf(walk) \in Pairs
<1>1. loc = None /\ walk # None /\ walk.pdir.log.tail # None
  BY DEF Walking
<1>2. walk.pdir \in TreeMdirs
  BY <1>1, TypedFacts
<1>3. walk.pdir.log \in TreeLogs /\ walk.pdir.log \in Logs
  BY <1>2 DEF TreeMdirs, TreeLogs
<1> QED
  BY <1>1, <1>2, <1>3, TypedFacts DEF AheadOf, Logs

\* Its commits are to the pair it is at.
LEMMA WalkCommitCounts ==
  ASSUME Typed, Counted, Walking, calls' \in 0 .. MaxCalls,
         NEW log \in TreeLogs, NEW g \in Gstates, g.orphans = gstate.orphans,
         NEW d \in SUBSET AllBits, Commit(walk.pdir, log, g, d, op, None, FALSE, TRUE)
  PROVE  Typed' /\ Counted'
<1>1. loc = None /\ walk # None /\ walk.pdir \in TreeMdirs /\ op \in TreeOps
  BY WalkFacts, TypedFacts
<1>2. Tallied(g, op, None, FALSE)
  BY <1>1 DEF Tallied, Counted
<1> QED
  BY <1>1, <1>2, CommitKeeps

LEMMA FixHalfOrphanCounts ==
  ASSUME Typed, Counted, FixHalfOrphan, calls' \in 0 .. MaxCalls
  PROVE  Typed' /\ Counted'
<1> PICK t : t = AheadOf(walk)
  OBVIOUS
<1> PICK p : p = Parent(t)
  OBVIOUS
<1> PICK m : m = walk.pdir
  OBVIOUS
<1> PICK e : e = disk[p].ents[EntryOf(p, t)]
  OBVIOUS
<1> PICK log : log = [Piggyback(m.log, gstate, m.pair) EXCEPT !.tail = e]
  OBVIOUS
<1> PICK g : g = AfterPiggyback(gstate, m.pair)
  OBVIOUS
<1>1. Walking /\ p # None
      /\ Commit(walk.pdir, log, g, gdelta, op, None, FALSE, TRUE)
  BY DEF FixHalfOrphan, HalfOrphan
<1>2. e \in Pairs
  BY <1>1, TypedFacts, ParentIsPair
<1>3. log \in TreeLogs
  <2>1. Piggyback(m.log, gstate, m.pair) \in TreeLogs
    BY <1>1, WalkFacts, TypedFacts, PiggybackIsTree
  <2> QED
    BY <1>2, <2>1, TailIsTree
<1>4. g \in Gstates /\ g.orphans = gstate.orphans
  BY <1>1, WalkFacts, TypedFacts, PiggybackIsTree
<1> QED
  BY <1>1, <1>3, <1>4, TypedFacts, WalkCommitCounts

LEMMA FixOrphanCounts ==
  ASSUME Typed, Counted, FixOrphan, calls' \in 0 .. MaxCalls
  PROVE  Typed' /\ Counted'
<1> PICK dir : dir = disk[AheadOf(walk)]
  OBVIOUS
<1> PICK log : log = [walk.pdir.log EXCEPT !.tail = dir.tail]
  OBVIOUS
<1> PICK d : d = Xor(gdelta, dir.delta)
  OBVIOUS
<1>1. Walking /\ Commit(walk.pdir, log, gstate, d, op, None, FALSE, TRUE)
  BY DEF FixOrphan
<1>2. dir \in Logs
  BY <1>1, WalkFacts, TypedFacts
<1>3. dir.tail \in Pairs \cup {None} /\ dir.delta \in SUBSET AllBits
  BY <1>2 DEF Logs, AllBits
<1>4. log \in TreeLogs
  BY <1>1, <1>3, WalkFacts, TailIsTree
<1>5. d \in SUBSET AllBits
  BY <1>3, TypedFacts, XorIsSum
<1> QED
  BY <1>1, <1>4, <1>5, TypedFacts, WalkCommitCounts

LEMMA WalkOnCounts ==
  ASSUME Typed, Counted, WalkOn, calls' \in 0 .. MaxCalls
  PROVE  Typed' /\ Counted'
<1> PICK m : m = Fetch(AheadOf(walk))
  OBVIOUS
<1>1. /\ Walking /\ walk' = [walk EXCEPT !.pdir = m] /\ fault' = "none"
      /\ disk' = disk /\ gstate' = gstate /\ gdisk' = gdisk /\ gdelta' = gdelta
      /\ op' = op /\ loc' = loc /\ moves' = moves
  BY DEF WalkOn
<1>2. m \in TreeMdirs /\ walk \in Walks
  BY <1>1, WalkFacts, FetchIsTree
<1>3. walk' \in Walks /\ walk'.pdir = m
  BY <1>1, <1>2 DEF Walks, TreeMdirs
<1>4. walk' # None
  BY <1>3, NoneAssumption
<1>5. Typed'
  BY <1>1, <1>2, <1>3, TypedFacts, QuietTyped
<1>6. Counted'
  BY <1>1, <1>4 DEF Counted, Balanced
<1> QED
  BY <1>5, <1>6

LEMMA EndPassCounts ==
  ASSUME Typed, Counted, EndPass, calls' \in 0 .. MaxCalls
  PROVE  Typed' /\ Counted'
<1>1. /\ loc = None /\ walk # None /\ fault' = "none"
      /\ disk' = disk /\ gdisk' = gdisk /\ gdelta' = gdelta
      /\ op' = op /\ loc' = loc /\ moves' = moves
  BY DEF EndPass
<1>2. walk \in Walks /\ Fetch(RootPair) \in TreeMdirs
  BY <1>1, TypedFacts, FetchIsTree
<1>3. CASE walk.pass = 1 /\ ~walk.more
  <2>1. walk' = None /\ gstate' = [gstate EXCEPT !.orphans = 0]
    BY <1>3 DEF EndPass
  <2>2. gstate' \in Gstates /\ gstate'.orphans = 0
    BY <2>1, TypedFacts DEF Gstates
  <2>3. Typed'
    BY <1>1, <2>1, <2>2, TypedFacts, QuietTyped
  <2>4. Counted'
    BY <1>1, <2>2, TypedFacts DEF Counted, Balanced
  <2> QED
    BY <2>3, <2>4
<1>4. CASE ~(walk.pass = 1 /\ ~walk.more)
  <2>1. /\ gstate' = gstate
        /\ walk' = [walk EXCEPT !.pass = IF walk.more THEN 0 ELSE 1, !.more = FALSE,
                                !.pdir = Fetch(RootPair)]
    BY <1>4 DEF EndPass
  <2>2. walk' \in Walks /\ walk'.pdir = Fetch(RootPair)
    BY <1>2, <2>1 DEF Walks, TreeMdirs
  <2>3. walk' # None
    BY <2>2, NoneAssumption
  <2>4. Typed'
    BY <1>1, <1>2, <2>1, <2>2, TypedFacts, QuietTyped
  <2>5. Counted'
    BY <1>1, <2>1, <2>3 DEF Counted, Balanced
  <2> QED
    BY <2>4, <2>5
<1> QED
  BY <1>3, <1>4

LEMMA MkConsistentCounts ==
  ASSUME Typed, Counted, MkConsistent, calls' \in 0 .. MaxCalls
  PROVE  Typed' /\ Counted'
<1> PICK o : o = [NoOp EXCEPT !.call = "repair", !.stage = "end"]
  OBVIOUS
<1>1. Ready /\ Commits(Fetch(RootPair), disk[RootPair], gstate, gdelta, o)
  BY DEF MkConsistent
<1>2. o \in TreeOps /\ o.stage = "end"
  BY RepairIsTree
<1>3. gstate.orphans <= moves + 1
  BY <1>1, ReadyCounts, TypedFacts
<1>4. Fetch(RootPair) \in TreeMdirs /\ disk[RootPair] \in TreeLogs
  BY TypedFacts, FetchIsTree
<1> QED
  BY <1>1, <1>2, <1>3, <1>4, TypedFacts, FirstCommitKeeps

-----------------------------------------------------------------------------
(***************************************************************************)
(* The calls.                                                              *)
(***************************************************************************)

\* What an entry refers to, and the edge that it is.
LEMMA EntryFacts ==
  ASSUME Typed, NEW a \in Pairs, NEW n \in Names
  PROVE  /\ disk[a].ents[n] \in Files \cup (Dirs \X (0 .. MaxMoves)) \cup {None}
         /\ disk[a].ents[n] \in Pairs => Fetch(disk[a].ents[n]) \in TreeMdirs
         /\ EdgesAt(a, n) \in SUBSET Edges
         /\ disk[a].ents[n] # None =>
              \A b \in Pairs, m \in Names : Edge(b, m, disk[a].ents[n]) \in Edges
<1> PICK e : e = disk[a].ents[n]
  OBVIOUS
<1>1. e \in Files \cup (Dirs \X (0 .. MaxMoves)) \cup {None}
  BY FetchIsTree DEF TreeLogs
<1>2. e \in Pairs => Fetch(e) \in TreeMdirs
  BY FetchIsTree
<1>3. ASSUME e # None PROVE Id(e) \in Dirs \cup Files
  <2>1. CASE e \in Pairs
    <3>1. e \in Dirs \X (0 .. MaxMoves)
      BY <1>1, <1>3, <2>1, PairsAreDistinct
    <3> QED
      BY <2>1, <3>1 DEF Id
  <2>2. CASE e \notin Pairs
    <3>1. e \in Files
      BY <1>1, <1>3, <2>2 DEF Pairs
    <3> QED
      BY <2>2, <3>1 DEF Id
  <2> QED
    BY <2>1, <2>2
<1>4. \A b \in Pairs : b[1] \in Dirs \cup {Root}
  BY DEF Pairs
<1>5. e # None => \A b \in Pairs, m \in Names : Edge(b, m, e) \in Edges
  BY <1>3, <1>4 DEF Edge, Edges
<1>6. EdgesAt(a, n) \in SUBSET Edges
  BY <1>5 DEF EdgesAt
<1> QED
  BY <1>1, <1>2, <1>5, <1>6

LEMMA CallIsTree ==
  ASSUME NEW c \in Calls, NEW st \in {"drop", "end"}, NEW del \in SUBSET Edges, NEW add \in SUBSET Edges
  PROVE  /\ Call(c, st, del, add) \in TreeOps
         /\ Call(c, st, del, add).stage = st /\ Call(c, st, del, add).vic = None
<1>1. st \in Stages
  BY DEF Stages
<1> QED
  BY <1>1, CallIsOp DEF TreeOps

LEMMA CreateCounts ==
  ASSUME Typed, Counted, calls' \in 0 .. MaxCalls,
         NEW a \in Pairs, NEW n \in Names, NEW f \in Files, Create(a, n, f)
  PROVE  Typed' /\ Counted'
<1> PICK o : o = Call("create", "end", {}, {Edge(a, n, f)})
  OBVIOUS
<1>1. Ready /\ Commits(Fetch(a), [disk[a] EXCEPT !.ents[n] = f], gstate, gdelta, o)
  BY DEF Create
<1>2. Edge(a, n, f) \in Edges
  <2>1. Id(f) = f /\ a[1] \in Dirs \cup {Root}
    BY PairsAreDistinct DEF Id, Pairs
  <2> QED
    BY <2>1 DEF Edge, Edges
<1>3. o \in TreeOps /\ o.stage = "end"
  <2>1. {Edge(a, n, f)} \in SUBSET Edges /\ {} \in SUBSET Edges /\ "create" \in Calls
    BY <1>2 DEF Calls
  <2> QED
    BY <2>1, CallIsTree
<1>4. Fetch(a) \in TreeMdirs /\ [disk[a] EXCEPT !.ents[n] = f] \in TreeLogs
  BY FetchIsTree, EntryIsTree
<1>5. gstate.orphans <= moves + 1
  BY <1>1, ReadyCounts, TypedFacts
<1> QED
  BY <1>1, <1>3, <1>4, <1>5, TypedFacts, FirstCommitKeeps

LEMMA MkdirCounts ==
  ASSUME Typed, Counted, calls' \in 0 .. MaxCalls,
         NEW a \in Pairs, NEW n \in Names, NEW d \in Dirs, Mkdir(a, n, d)
  PROVE  Typed' /\ Counted'
<1>1. Ready /\ gstate.orphans = 0 /\ loc = None /\ walk = None
  BY ReadyCounts DEF Mkdir
<1>2. CASE CommitFails(gstate, gdelta, Call("mkdir", "attach", {}, {}))
  <2>1. /\ disk' = disk /\ gdisk' = gdisk /\ moves' = moves /\ gstate' = gstate /\ gdelta' = gdelta
        /\ op' = NoOp /\ loc' = None /\ walk' = None /\ fault' = "none"
    BY <1>2 DEF CommitFails
  <2>2. Typed'
    BY <2>1, TypedFacts, NoOpIsOp, QuietTyped
  <2>3. Counted'
    BY <1>1, <2>1, TypedFacts, NoOpIsOp DEF Counted, Balanced
  <2> QED
    BY <2>2, <2>3
<1>3. CASE ~CommitFails(gstate, gdelta, Call("mkdir", "attach", {}, {}))
  <2> DEFINE D(r) == IF r THEN {} ELSE Xor(Bits(gstate), Bits(gdisk))
             L(r) == [Blank EXCEPT !.tail = disk[a].tail, !.delta = Xor(gdelta, D(r))]
  <2> PICK relocated \in BOOLEAN :
        /\ relocated => moves < MaxMoves
        /\ moves' = IF relocated THEN moves + 1 ELSE moves
        /\ disk' = [p \in Pairs |-> IF p = <<d, 0>> THEN L(relocated)
                                    ELSE IF p[1] = d THEN Blank ELSE disk[p]]
        /\ gdisk' = (IF relocated THEN gdisk ELSE gstate) /\ gdelta' = {}
        /\ op' = [Call("mkdir", "attach", {}, {<<a[1], n, d>>})
                    EXCEPT !.cwd = Fetch(a), !.name = n, !.new = <<d, 0>>]
        /\ fault' = "none" /\ gstate' = gstate /\ loc' = loc /\ walk' = walk
    BY <1>3 DEF Mkdir
  <2> PICK change : change = D(relocated)
    OBVIOUS
  <2> PICK log : log = L(relocated)
    OBVIOUS
  <2>1. change \in SUBSET AllBits
    BY TypedFacts, BitsAreBits, XorIsSum
  <2>2. Blank \in TreeLogs
    BY DEF Blank, TreeLogs, Logs, Objects
  <2>3. log \in TreeLogs
    <3>1. disk[a].tail \in Pairs \cup {None}
      BY FetchIsTree DEF Logs
    <3>2. Xor(gdelta, change) \in SUBSET AllBits
      BY <2>1, TypedFacts, XorIsSum
    <3> QED
      BY <2>2, <3>1, <3>2 DEF TreeLogs, Logs, AllBits
  <2>4. disk' \in [Pairs -> TreeLogs] /\ disk' \in [Pairs -> Logs]
    <3>1. \A p \in Pairs : disk'[p] \in TreeLogs
      BY <2>2, <2>3, TypedFacts
    <3> QED
      BY <2>2, <2>3, <3>1, TypedFacts DEF TreeLogs
  <2>5. op' \in TreeOps /\ op'.stage = "attach"
    <3>1. {<<a[1], n, d>>} \in SUBSET Edges /\ {} \in SUBSET Edges
      BY DEF Edges, Pairs
    <3>2. "mkdir" \in Calls /\ "attach" \in Stages
      BY DEF Calls, Stages
    <3> PICK c : c = Call("mkdir", "attach", {}, {<<a[1], n, d>>})
      OBVIOUS
    <3>3. c \in Ops /\ c.stage = "attach" /\ c.vic = None
      BY <3>1, <3>2, CallIsOp
    <3>4. Fetch(a) \in TreeMdirs /\ Fetch(a) \in Mdirs /\ Fetch(a) # None
      BY FetchIsTree, NoneAssumption DEF TreeMdirs
    <3>5. <<d, 0>> \in Pairs /\ <<d, 0>> # None /\ d # Root /\ n # None
      <4>1. <<d, 0>> \in Pairs
        BY TreeAssumption DEF Pairs
      <4> QED
        BY <4>1, PairsAreDistinct, TreeAssumption
    <3>6. op' = [c EXCEPT !.cwd = Fetch(a), !.name = n, !.new = <<d, 0>>]
      OBVIOUS
    <3>7. /\ op' \in Ops /\ op'.stage = "attach" /\ op'.vic = None
          /\ op'.cwd = Fetch(a) /\ op'.name = n /\ op'.new = <<d, 0>>
      BY ZenonT(60), <3>3, <3>4, <3>5, <3>6 DEF Ops
    <3>8. op'.new[1] = d
      BY <3>7
    <3> QED
      BY ONLY <3>4, <3>5, <3>7, <3>8 DEF TreeOps
  <2>6. moves' \in 0 .. MaxMoves /\ moves' >= moves /\ moves' \in Int
    BY TypedFacts
  <2>7. Typed'
    <3>1. gdisk' \in Gstates /\ gdelta' \subseteq AllBits /\ "none" \in Faults /\ op' \in Ops
      BY <2>5, TypedFacts DEF Faults, TreeOps
    <3> QED
      BY <1>1, <2>4, <2>5, <2>6, <3>1, TypedFacts DEF Typed, TypeOK, AllBits
  <2>8. Counted'
    BY <1>1, <2>5, <2>6, TypedFacts DEF Counted, Balanced
  <2> QED
    BY <2>7, <2>8
<1> QED
  BY <1>2, <1>3

LEMMA MkdirAttachCounts ==
  ASSUME Typed, Counted, calls' \in 0 .. MaxCalls, MkdirAttach
  PROVE  Typed' /\ Counted'
<1> PICK o : o = [op EXCEPT !.stage = "end", !.cwd = None]
  OBVIOUS
<1> PICK log : log = [op.cwd.log EXCEPT !.ents[op.name] = op.new, !.tail = op.new]
  OBVIOUS
<1>1. /\ loc = None /\ op.stage = "attach"
      /\ Commits(op.cwd, log, gstate, gdelta, o)
  BY DEF MkdirAttach, Free
<1>2. /\ op.cwd \in TreeMdirs /\ op.name \in Names /\ op.new \in Pairs
      /\ op.new \in Dirs \X (0 .. MaxMoves) /\ op.cwd.log \in TreeLogs
  BY <1>1, TypedFacts DEF TreeOps, Ops, Pairs, TreeMdirs
<1>3. log \in TreeLogs
  <2> PICK l : l = [op.cwd.log EXCEPT !.ents[op.name] = op.new]
    OBVIOUS
  <2>1. l \in TreeLogs
    BY <1>2, EntryIsTree
  <2>2. log = [l EXCEPT !.tail = op.new]
    OBVIOUS
  <2>3. op.new \in Pairs \cup {None}
    BY <1>2
  <2> QED
    BY ONLY <2>1, <2>2, <2>3, TailIsTree
<1>4. o \in TreeOps /\ o.stage = "end"
  <2>1. o \in Ops /\ o.stage = "end" /\ o.cwd = None /\ o.vic = op.vic
    BY TypedFacts DEF Ops, Stages
  <2> QED
    BY <2>1, TypedFacts DEF TreeOps
<1>5. gstate.orphans <= moves + 1
  BY <1>1 DEF Counted
<1> QED
  BY <1>1, <1>2, <1>3, <1>4, <1>5, TypedFacts, FirstCommitKeeps

LEMMA RemoveCounts ==
  ASSUME Typed, Counted, calls' \in 0 .. MaxCalls, NEW a \in Pairs, NEW n \in Names, Remove(a, n)
  PROVE  Typed' /\ Counted'
<1> PICK e : e = disk[a].ents[n]
  OBVIOUS
<1> PICK o : o = Call("remove", "drop", {Edge(a, n, e)}, {})
  OBVIOUS
<1>1. gstate.orphans = 0 /\ e # None /\ gstate.orphans <= moves + 1
  BY ReadyCounts, TypedFacts DEF Remove
<1>2. o \in TreeOps /\ o.stage = "drop" /\ o.vic = None
  <2>1. {Edge(a, n, e)} \in SUBSET Edges /\ {} \in SUBSET Edges /\ "remove" \in Calls
    BY <1>1, EntryFacts DEF Calls
  <2> QED
    BY <2>1, CallIsTree
<1>3. Fetch(a) \in TreeMdirs /\ Without(disk[a], n) \in TreeLogs
  BY FetchIsTree, WithoutIsTree
<1>4. CASE e \in Pairs
  <2> PICK v : v = [o EXCEPT !.vic = Fetch(e)]
    OBVIOUS
  <2> PICK g : g = PrepOrphans(gstate, 1)
    OBVIOUS
  <2>1. Commits(Fetch(a), Without(disk[a], n), g, gdelta, v)
    BY <1>4 DEF Remove
  <2>2. g \in Gstates /\ g.orphans = 1
    BY <1>1, TypedFacts, PrepIsGstate
  <2>3. v \in TreeOps /\ v.stage = "drop" /\ v.vic # None
    <3>1. Fetch(e) \in TreeMdirs /\ Fetch(e) \in Mdirs /\ Fetch(e) # None
      BY <1>4, FetchIsTree, NoneAssumption DEF TreeMdirs
    <3>2. v \in Ops /\ v.stage = "drop" /\ v.vic = Fetch(e) /\ v.cwd = o.cwd
      BY <1>2, <3>1 DEF TreeOps, Ops
    <3> QED
      BY <1>2, <3>1, <3>2 DEF TreeOps
  <2>4. g.orphans <= moves + 1
    BY <2>2, TypedFacts
  <2> QED
    BY <1>3, <2>1, <2>2, <2>3, <2>4, TypedFacts, FirstCommitKeeps
<1>5. CASE e \notin Pairs
  <2>1. Commits(Fetch(a), Without(disk[a], n), gstate, gdelta, o)
    BY <1>5 DEF Remove
  <2> QED
    BY <1>1, <1>2, <1>3, <2>1, TypedFacts, FirstCommitKeeps
<1> QED
  BY <1>4, <1>5

LEMMA RenameCounts ==
  ASSUME Typed, Counted, calls' \in 0 .. MaxCalls,
         NEW a \in Pairs, NEW n \in Names, NEW b \in Pairs, NEW m \in Names, Rename(a, n, b, m)
  PROVE  Typed' /\ Counted'
<1> PICK e : e = disk[a].ents[n]
  OBVIOUS
<1> PICK prev : prev = disk[b].ents[m]
  OBVIOUS
<1> PICK g0 : g0 = IF prev \in Pairs THEN PrepOrphans(gstate, 1) ELSE gstate
  OBVIOUS
<1> PICK g : g = IF Same(a, b) THEN g0 ELSE PrepMove(g0, <<a, n>>)
  OBVIOUS
<1> PICK c : c = Call(IF prev \in Pairs THEN "replace" ELSE "rename", "moved",
                      {Edge(a, n, e)} \cup EdgesAt(b, m), {Edge(b, m, e)})
  OBVIOUS
<1> PICK new : new = [disk[b] EXCEPT !.ents[m] = e]
  OBVIOUS
<1> PICK log : log = IF Same(a, b) THEN Without(new, n) ELSE new
  OBVIOUS
<1> PICK cwd : cwd = IF Same(a, b) THEN None ELSE Fetch(a)
  OBVIOUS
<1> PICK vic : vic = IF prev \in Pairs THEN Fetch(prev) ELSE None
  OBVIOUS
<1> PICK o : o = [c EXCEPT !.cwd = cwd, !.name = n, !.vic = vic]
  OBVIOUS
<1>1. Ready /\ e # None /\ Commits(Fetch(b), log, g, gdelta, o)
  BY DEF Rename
<1>2. gstate.orphans = 0
  BY <1>1, ReadyCounts
<1>3. log \in TreeLogs /\ Fetch(b) \in TreeMdirs
  <2>1. new \in TreeLogs
    BY FetchIsTree, EntryFacts, EntryIsTree
  <2> QED
    BY <2>1, FetchIsTree, WithoutIsTree
<1>4. g0 \in Gstates /\ g0.orphans = IF prev \in Pairs THEN 1 ELSE 0
  BY <1>2, TypedFacts, PrepIsGstate
<1>5. g \in Gstates /\ g.orphans = g0.orphans
  <2>1. <<a, n>> \in GMoves
    BY DEF GMoves
  <2>2. PrepMove(g0, <<a, n>>) \in Gstates /\ PrepMove(g0, <<a, n>>).orphans = g0.orphans
    BY <1>4, <2>1 DEF PrepMove, Gstates
  <2> QED
    BY <1>4, <2>2
<1>6. /\ cwd \in TreeMdirs \cup {None} /\ vic \in TreeMdirs \cup {None}
      /\ cwd \in Mdirs \cup {None} /\ vic \in Mdirs \cup {None}
      /\ vic = None => prev \notin Pairs
  <2>1. prev \in Pairs => Fetch(prev) \in TreeMdirs /\ Fetch(prev) # None
    BY FetchIsTree, NoneAssumption DEF TreeMdirs
  <2>2. Fetch(a) \in TreeMdirs
    BY FetchIsTree
  <2> QED
    BY <2>1, <2>2 DEF TreeMdirs
<1>7. c \in Ops /\ c.stage = "moved"
  <2>1. {Edge(a, n, e)} \cup EdgesAt(b, m) \in SUBSET Edges /\ {Edge(b, m, e)} \in SUBSET Edges
    BY <1>1, EntryFacts
  <2>2. (IF prev \in Pairs THEN "replace" ELSE "rename") \in Calls /\ "moved" \in Stages
    BY DEF Calls, Stages
  <2> QED
    BY ONLY <2>1, <2>2, CallIsOp, c = Call(IF prev \in Pairs THEN "replace" ELSE "rename", "moved",
                      {Edge(a, n, e)} \cup EdgesAt(b, m), {Edge(b, m, e)})
<1>8. o \in TreeOps /\ o.stage = "moved" /\ o.vic = vic
  <2>1. o \in Ops /\ o.stage = "moved" /\ o.vic = vic /\ o.cwd = cwd /\ o.name = n
    BY ONLY <1>6, <1>7, n \in Names, o = [c EXCEPT !.cwd = cwd, !.name = n, !.vic = vic] DEF Ops
  <2>2. n # None
    BY PairsAreDistinct
  <2> QED
    BY ONLY <1>6, <2>1, <2>2 DEF TreeOps
<1>9. g.orphans <= moves + 1 /\ (o.vic = None => g.orphans = 0)
  BY <1>4, <1>5, <1>6, <1>8, TypedFacts
<1> QED
  BY <1>1, <1>3, <1>5, <1>8, <1>9, TypedFacts, FirstCommitKeeps

LEMMA RenameDeleteCounts ==
  ASSUME Typed, Counted, calls' \in 0 .. MaxCalls, RenameDelete
  PROVE  Typed' /\ Counted'
<1> PICK o : o = [op EXCEPT !.stage = "drop", !.cwd = None]
  OBVIOUS
<1> PICK g : g = PrepMove(gstate, None)
  OBVIOUS
<1>1. /\ loc = None /\ walk = None /\ op.stage = "moved" /\ op.cwd # None
      /\ Commits(op.cwd, Without(op.cwd.log, op.name), g, gdelta, o)
  BY DEF RenameDelete, Free
<1>2. op.cwd \in TreeMdirs /\ op.cwd.log \in TreeLogs /\ op.name \in Names
  BY <1>1, TypedFacts DEF TreeOps, Ops, TreeMdirs
<1>3. Without(op.cwd.log, op.name) \in TreeLogs
  BY <1>2, WithoutIsTree
<1>4. o \in TreeOps /\ o.stage = "drop" /\ o.vic = op.vic
  <2>1. o \in Ops /\ o.stage = "drop" /\ o.cwd = None /\ o.vic = op.vic
    BY TypedFacts DEF Ops, Stages
  <2> QED
    BY <2>1, TypedFacts DEF TreeOps
<1>5. g \in Gstates /\ g.orphans = gstate.orphans
  BY TypedFacts DEF PrepMove, Gstates
<1>6. g.orphans <= moves + 1 /\ (o.vic = None => g.orphans = 0)
  BY <1>1, <1>4, <1>5 DEF Counted, Balanced
<1> QED
  BY <1>1, <1>2, <1>3, <1>4, <1>5, <1>6, TypedFacts, FirstCommitKeeps

LEMMA RenameDeletedCounts ==
  ASSUME Typed, Counted, calls' \in 0 .. MaxCalls, RenameDeleted
  PROVE  Typed' /\ Counted'
<1>1. /\ op.stage = "moved" /\ loc = None /\ walk = None
      /\ op' = [op EXCEPT !.stage = "drop", !.cwd = None] /\ fault' = "none"
      /\ disk' = disk /\ gstate' = gstate /\ gdisk' = gdisk /\ gdelta' = gdelta
      /\ loc' = loc /\ walk' = walk /\ moves' = moves
  BY DEF RenameDeleted, Free
<1>2. op' \in TreeOps /\ op'.stage = "drop" /\ op'.vic = op.vic
  <2>1. op' \in Ops /\ op'.stage = "drop" /\ op'.cwd = None /\ op'.vic = op.vic
    BY <1>1, TypedFacts DEF Ops, Stages
  <2> QED
    BY <2>1, TypedFacts DEF TreeOps
<1>3. Typed'
  BY <1>1, <1>2, TypedFacts, QuietTyped
<1>4. Counted'
  BY <1>1, <1>2 DEF Counted, Balanced
<1> QED
  BY <1>3, <1>4

\* The assertion after the first commit is that of the second case.
LEMMA DropCounts ==
  ASSUME Typed, Counted, calls' \in 0 .. MaxCalls, Drop
  PROVE  Typed' /\ Counted'
<1> PICK q : q = Pred(op.vic.pair)
  OBVIOUS
<1> PICK g : g = PrepOrphans(gstate, -1)
  OBVIOUS
<1> PICK o : o = [op EXCEPT !.stage = "end", !.vic = None]
  OBVIOUS
<1>1. op.stage = "drop" /\ loc = None /\ walk = None
  BY DEF Drop, Free
<1>2. o \in TreeOps /\ o.stage = "end"
  <2>1. o \in Ops /\ o.stage = "end" /\ o.cwd = op.cwd /\ o.vic = None
    BY TypedFacts DEF Ops, Stages
  <2> QED
    BY <2>1, TypedFacts DEF TreeOps
<1>3. op.vic = None => gstate.orphans = 0
  BY <1>1 DEF Counted, Balanced
<1>4. gstate.orphans <= moves + 1
  BY <1>1 DEF Counted
<1>5. CASE gstate.orphans = 0
  <2>1. /\ op' = o /\ fault' = "none"
        /\ disk' = disk /\ gstate' = gstate /\ gdisk' = gdisk /\ gdelta' = gdelta
        /\ loc' = loc /\ walk' = walk /\ moves' = moves
    BY <1>5, TypedFacts DEF Drop
  <2>2. Typed'
    BY <1>2, <2>1, TypedFacts, QuietTyped
  <2>3. Counted'
    BY <1>1, <1>2, <1>4, <2>1 DEF Counted, Balanced
  <2> QED
    BY <2>2, <2>3
<1>6. CASE gstate.orphans # 0
  <2>1. gstate.orphans > 0 /\ op.vic # None /\ op.vic \in TreeMdirs
    BY <1>3, <1>6, TypedFacts DEF TreeOps
  <2>2. g \in Gstates /\ g.orphans = gstate.orphans - 1 /\ g.orphans <= moves + 1
    <3>1. gstate.orphans + (-1) \in 0 .. MaxMoves + 1
      BY <2>1, TypedFacts
    <3> QED
      BY <1>4, <3>1, TypedFacts, PrepIsGstate
  <2>3. CASE q = None
    <3>1. /\ op' = NoOp /\ gstate' = g /\ fault' = "none"
          /\ disk' = disk /\ gdisk' = gdisk /\ gdelta' = gdelta
          /\ loc' = loc /\ walk' = walk /\ moves' = moves
      BY <2>1, <2>3 DEF Drop
    <3>2. Typed'
      BY <2>2, <3>1, TypedFacts, NoOpIsOp, QuietTyped
    <3>3. Counted'
      BY <1>1, <2>2, <3>1, NoOpIsOp DEF Counted, Balanced
    <3> QED
      BY <3>2, <3>3
  <2>4. CASE q # None
    <3> PICK log : log = [disk[q] EXCEPT !.tail = op.vic.log.tail]
      OBVIOUS
    <3> PICK d : d = Xor(gdelta, op.vic.log.delta)
      OBVIOUS
    <3>1. Commits(Fetch(q), log, g, d, o)
      BY <2>1, <2>4 DEF Drop
    <3>2. q \in Pairs
      BY <2>4, TypedFacts, PredIsPair
    <3>3. op.vic.log.tail \in Pairs \cup {None} /\ op.vic.log.delta \in SUBSET AllBits
      BY <2>1 DEF TreeMdirs, TreeLogs, Logs, AllBits
    <3>4. Fetch(q) \in TreeMdirs /\ log \in TreeLogs
      BY <3>2, <3>3, FetchIsTree, TailIsTree
    <3>5. d \in SUBSET AllBits
      BY <3>3, TypedFacts, XorIsSum
    <3> QED
      BY <1>2, <2>2, <3>1, <3>4, <3>5, FirstCommitKeeps
  <2> QED
    BY <2>3, <2>4
<1> QED
  BY <1>5, <1>6

LEMMA BeginGcCounts ==
  ASSUME Typed, Counted, calls' \in 0 .. MaxCalls, Ready, BeginGc
  PROVE  Typed' /\ Counted'
<1> PICK c : c = Call("gc", "gc", {}, {})
  OBVIOUS
<1>1. /\ op' = [c EXCEPT !.new = RootPair] /\ fault' = "none"
      /\ disk' = disk /\ gstate' = gstate /\ gdisk' = gdisk /\ gdelta' = gdelta
      /\ loc' = loc /\ walk' = walk /\ moves' = moves
  BY DEF BeginGc
<1>2. c \in Ops /\ c.stage = "gc" /\ c.cwd = None /\ c.vic = None
  <2>1. {} \in SUBSET Edges /\ "gc" \in Calls /\ "gc" \in Stages
    BY DEF Calls, Stages
  <2> QED
    BY <2>1, CallIsOp
<1>3. op' \in TreeOps /\ op'.stage = "gc"
  <2>1. op' \in Ops /\ op'.stage = "gc" /\ op'.cwd = None /\ op'.vic = None /\ op'.new = RootPair
    BY <1>1, <1>2, TypedFacts DEF Ops
  <2> QED
    BY <2>1, PairsAreDistinct DEF TreeOps
<1>4. Typed'
  BY <1>1, <1>3, TypedFacts, QuietTyped
<1>5. Counted'
  BY <1>1, <1>3, ReadyCounts, TypedFacts DEF Counted, Balanced
<1> QED
  BY <1>4, <1>5

LEMMA GcCounts ==
  ASSUME Typed, Counted, calls' \in 0 .. MaxCalls, Gc
  PROVE  Typed' /\ Counted'
<1> PICK m : m = Fetch(op.new)
  OBVIOUS
<1> PICK st : st = IF m.log.tail = None THEN "end" ELSE "gc"
  OBVIOUS
<1> PICK o : o = [op EXCEPT !.new = m.log.tail, !.stage = st]
  OBVIOUS
<1>1. op.stage = "gc" /\ loc = None /\ op.new \in Pairs
  BY TypedFacts DEF Gc, Free, TreeOps, Ops
<1>2. m \in TreeMdirs /\ m.log \in TreeLogs /\ m.log.tail \in Pairs \cup {None}
  BY <1>1, FetchIsTree DEF Logs
<1>3. o \in TreeOps /\ o.stage = st /\ st \in {"end", "gc"}
  <2>1. st \in {"end", "gc"} /\ st \in Stages /\ (st = "gc" => m.log.tail # None)
    BY DEF Stages
  <2>2. o \in Ops /\ o.stage = st /\ o.cwd = op.cwd /\ o.vic = op.vic /\ o.new = m.log.tail
    BY <1>2, <2>1, TypedFacts DEF Ops
  <2> QED
    BY <2>1, <2>2, TypedFacts DEF TreeOps
<1>4. gstate.orphans <= moves + 1
  BY <1>1 DEF Counted
<1>5. CASE Commits(m, m.log, gstate, gdelta, o)
  BY <1>2, <1>3, <1>4, <1>5, TypedFacts, FirstCommitKeeps
<1>6. CASE ~Commits(m, m.log, gstate, gdelta, o)
  <2>1. /\ op' = o /\ fault' = "none"
        /\ disk' = disk /\ gstate' = gstate /\ gdisk' = gdisk /\ gdelta' = gdelta
        /\ loc' = loc /\ walk' = walk /\ moves' = moves
    BY <1>6 DEF Gc
  <2>2. Typed'
    BY <1>3, <2>1, TypedFacts, QuietTyped
  <2>3. Counted'
    BY <1>1, <1>3, <1>4, <2>1 DEF Counted, Balanced
  <2> QED
    BY <2>2, <2>3
<1> QED
  BY <1>5, <1>6

LEMMA ReturnCounts ==
  ASSUME Typed, Counted, calls' \in 0 .. MaxCalls, Return
  PROVE  Typed' /\ Counted'
<1>1. /\ loc = None /\ op' = NoOp /\ fault' = "none"
      /\ disk' = disk /\ gstate' = gstate /\ gdisk' = gdisk /\ gdelta' = gdelta
      /\ loc' = loc /\ walk' = walk /\ moves' = moves
  BY DEF Return, Free
<1>2. Typed'
  BY <1>1, TypedFacts, NoOpIsOp, QuietTyped
<1>3. Counted'
  BY <1>1, NoOpIsOp DEF Counted, Balanced
<1> QED
  BY <1>2, <1>3

-----------------------------------------------------------------------------
(***************************************************************************)
(* Every step.                                                             *)
(***************************************************************************)

LEMMA InitCounts == Init => Typed /\ Counted
<1> SUFFICES ASSUME Init PROVE Typed /\ Counted
  OBVIOUS
<1>1. /\ disk = [p \in Pairs |-> Blank] /\ gstate = NoGstate /\ gdisk = NoGstate /\ gdelta = {}
      /\ op = NoOp /\ loc = None /\ walk = None /\ calls = 0 /\ moves = 0 /\ fault = "none"
  BY DEF Init
<1>2. Blank \in TreeLogs
  BY DEF Blank, TreeLogs, Logs, Objects
<1>3. disk \in [Pairs -> TreeLogs] /\ disk \in [Pairs -> Logs]
  BY <1>1, <1>2 DEF TreeLogs
<1>4. NoGstate \in Gstates /\ NoGstate.orphans = 0
  BY TreeAssumption DEF NoGstate, Gstates
<1>5. NoOp \in Ops /\ calls \in 0 .. MaxCalls /\ moves \in 0 .. MaxMoves /\ fault \in Faults
  BY <1>1, NoOpIsOp, TreeAssumption DEF TreeOps, Faults
<1>6. Typed
  BY <1>1, <1>3, <1>4, <1>5, NoOpIsOp DEF Typed, TypeOK
<1>7. Counted
  BY <1>1, <1>4, NoOpIsOp DEF Counted, Balanced
<1> QED
  BY <1>6, <1>7

LEMMA NextCounts ==
  ASSUME Typed, Counted, [Next]_vars
  PROVE  Typed' /\ Counted'
<1>1. calls \in 0 .. MaxCalls /\ (calls < MaxCalls => calls + 1 \in 0 .. MaxCalls)
  BY TreeAssumption DEF Typed, TypeOK
<1>2. CASE (Demove \/ Deorphan \/ MkConsistent) /\ UNCHANGED calls
  BY <1>1, <1>2, DemoveCounts, DeorphanCounts, MkConsistentCounts
<1>3. \A a \in Found : a \in Pairs
  BY TypedFacts, BelowArePairs DEF Found
<1>4. CASE /\ Ready /\ calls < MaxCalls /\ calls' = calls + 1
           /\ \E a \in Found, n \in Names :
                \/ \E f \in Files : Create(a, n, f)
                \/ \E d \in Dirs : Mkdir(a, n, d)
                \/ Remove(a, n)
                \/ \E b \in Found, m \in Names : Rename(a, n, b, m)
  <2>1. calls' \in 0 .. MaxCalls
    BY <1>1, <1>4
  <2>2. PICK a \in Found, n \in Names :
          \/ \E f \in Files : Create(a, n, f)
          \/ \E d \in Dirs : Mkdir(a, n, d)
          \/ Remove(a, n)
          \/ \E b \in Found, m \in Names : Rename(a, n, b, m)
    BY <1>4
  <2>3. a \in Pairs
    BY <1>3
  <2>4. CASE \E f \in Files : Create(a, n, f)
    BY <2>1, <2>3, <2>4, CreateCounts
  <2>5. CASE \E d \in Dirs : Mkdir(a, n, d)
    BY <2>1, <2>3, <2>5, MkdirCounts
  <2>6. CASE Remove(a, n)
    BY <2>1, <2>3, <2>6, RemoveCounts
  <2>7. CASE \E b \in Found, m \in Names : Rename(a, n, b, m)
    BY <1>3, <2>1, <2>3, <2>7, RenameCounts
  <2> QED
    BY <2>2, <2>4, <2>5, <2>6, <2>7
<1>5. CASE Ready /\ calls < MaxCalls /\ calls' = calls + 1 /\ BeginGc
  BY <1>1, <1>5, BeginGcCounts
<1>6. CASE Begin
  BY <1>2, <1>4, <1>5, <1>6 DEF Begin
<1>7. CASE Step /\ UNCHANGED calls
  <2>1. calls' \in 0 .. MaxCalls
    BY <1>1, <1>7
  <2>2. CASE RelocateParent \/ RelocatePred \/ RelocateEnds
    BY <2>1, <2>2, RelocateParentCounts, RelocatePredCounts, RelocateEndsCounts
  <2>3. CASE FixHalfOrphan \/ FixOrphan \/ WalkOn \/ EndPass
    BY <2>1, <2>3, FixHalfOrphanCounts, FixOrphanCounts, WalkOnCounts, EndPassCounts
  <2>4. CASE Deorphan \/ MkdirAttach \/ RenameDelete \/ RenameDeleted
    BY <2>1, <2>4, DeorphanCounts, MkdirAttachCounts, RenameDeleteCounts, RenameDeletedCounts
  <2>5. CASE Drop \/ Gc \/ Return
    BY <2>1, <2>5, DropCounts, GcCounts, ReturnCounts
  <2> QED
    BY <1>7, <2>2, <2>3, <2>4, <2>5 DEF Step
<1>8. CASE PowerLoss /\ UNCHANGED calls
  <2>1. Restart("none") /\ calls' \in 0 .. MaxCalls
    BY <1>1, <1>8 DEF PowerLoss
  <2> QED
    BY <2>1, RestartKeeps DEF Faults
<1>9. CASE UNCHANGED vars
  BY <1>9 DEF vars, Typed, TypeOK, Counted, Balanced
<1> QED
  BY <1>6, <1>7, <1>8, <1>9 DEF Next

\* The inductive invariant, whatever moves and fails.
THEOREM TreeIsCounted == Spec => [](Typed /\ Counted)
<1>1. (Typed /\ Counted) /\ [Next]_vars => (Typed /\ Counted)'
  BY NextCounts
<1> QED
  BY <1>1, InitCounts, PTL DEF Spec

\* Every state has the types of the code's structures, whatever moves and fails: the
\* orphan count in lfs_t is never negative, which lfs_fs_preporphans asserts, and never
\* more than one for each pair that has moved and one for the call.
THEOREM TreeTypeCorrect == Spec => []TypeOK
<1>1. Typed /\ Counted => TypeOK
  BY DEF Typed
<1> QED
  BY <1>1, TreeIsCounted, PTL

\* When lfs_remove_ and lfs_rename_ find orphans counted after their first commit, they
\* have removed a directory, however many pairs that commit has moved: what the
\* relocation loop counts is taken back or repaired before the commit returns.
THEOREM OrphansAreCounted == Spec => []OrphansCounted
<1>1. Typed /\ Counted => OrphansCounted
  BY DEF Counted, OrphansCounted
<1> QED
  BY <1>1, TreeIsCounted, PTL
=============================================================================
