-------------------------- MODULE FsTreeRefinement --------------------------
(***************************************************************************)
(* mkdir, remove, rename and the creation of a file change the names that  *)
(* a mount would show in one step, or not at all, and repairs and power    *)
(* losses do not change them: FsTree implements AtomicTree, for any number *)
(* of directories, files, names and calls, where pairs stay (PairsStay).   *)
(***************************************************************************)
EXTENDS FsTreeProofs

\* The pairs that paths lead to after a mount, and what is found in them.
Live == Below(RootPair, DiskMove)
Seen(a, n) == IF Hidden(DiskMove, a, n) THEN None ELSE disk[a].ents[n]

-----------------------------------------------------------------------------
(***************************************************************************)
(* What the inductive invariant of FsTreeProofs does not say.              *)
(***************************************************************************)

\* What the running call is to change, until it does.
Asked ==
  /\ op.stage \in {"idle", "deorphan", "ready", "gc"} => op.req = NoChange
  /\ op.stage = "attach" =>
       /\ op.req = [del |-> {}, add |-> {<<op.cwd.pair[1], op.name, op.new[1]>>}]
       /\ op.cwd.pair \in Live /\ op.cwd.log.ents[op.name] = None

\* And when it has.
Answered ==
  op.stage \in {"moved", "drop", "end"} =>
    op.req.del \cap Shown \subseteq op.req.add /\ op.req.add \subseteq Shown

\* A pair of the list that no path leads to is an empty directory, and there is one
\* only while the orphan count says so, in RAM and on the disk.
Rooted ==
  /\ \A p \in Listed \ Live, n \in Names : disk[p].ents[n] = None
  /\ gstate.orphans = 0 \/ OrphanBit \notin DiskBits => Listed \subseteq Live
  /\ op.stage \in {"moved", "drop"} =>
       \A p \in Listed \ Live : op.vic # None /\ p = op.vic.pair

\* The second pass of lfs_fs_deorphan leaves no orphans behind it.
Walked ==
  walk # None =>
    /\ walk.powerloss /\ ~walk.more
    /\ walk.pass = 1 =>
         \E A \in SUBSET Live :
           /\ RootPair \in A /\ walk.pdir.pair \in A /\ A \subseteq Listed
           /\ \A p \in A \ {walk.pdir.pair} : disk[p].tail \in A

AInv == IInv /\ Asked /\ Answered /\ Rooted /\ Walked

-----------------------------------------------------------------------------
(***************************************************************************)
(* Paths: the turns of Below reach everything that entries lead to.        *)
(***************************************************************************)

Further(S, m) == UNION {{p} \cup Subdirs(p, m) : p \in S}

\* Turns that begin at a and have come to N.
Turns(r, N, a, m) ==
  /\ N \in Nat /\ DOMAIN r = 0 .. N /\ r[0] = {a}
  /\ \A k \in 1 .. N : r[k] = Further(r[k - 1], m)

LEMMA BelowIsTurns ==
  ASSUME NEW a, NEW m
  PROVE  \E r : Below(a, m) = r[Cardinality(Dirs)] /\ Turns(r, Cardinality(Dirs), a, m)
<1> PICK T : T = {n \in Nat : ~\E r : r = [k \in 0 .. n |-> IF k = 0 THEN {a} ELSE Further(r[k - 1], m)]}
  OBVIOUS
<1>2. ASSUME T # {} PROVE FALSE
  <2>1. T \in SUBSET Nat
    OBVIOUS
  <2>2. PICK n \in T : \A j \in T : n <= j
    BY <1>2, <2>1, Least
  <2>3. n # 0
    <3>1. ASSUME n = 0 PROVE FALSE
      <4> PICK r : r = [k \in 0 .. n |-> {a}]
        OBVIOUS
      <4>1. r = [k \in 0 .. n |-> IF k = 0 THEN {a} ELSE Further(r[k - 1], m)]
        BY <3>1
      <4> QED
        BY <4>1, <2>2
    <3> QED
      BY <3>1
  <2>4. n - 1 \in Nat /\ n - 1 \notin T
    <3>1. n \in Nat
      BY <2>1
    <3> QED
      BY ONLY <2>2, <2>3, <3>1
  <2>5. PICK r : r = [k \in 0 .. n - 1 |-> IF k = 0 THEN {a} ELSE Further(r[k - 1], m)]
    BY <2>4
  <2> PICK f : f = [k \in 0 .. n |-> IF k = n THEN Further(r[n - 1], m) ELSE r[k]]
    OBVIOUS
  <2>6. ASSUME NEW k \in 0 .. n PROVE f[k] = IF k = 0 THEN {a} ELSE Further(f[k - 1], m)
    <3>1. CASE k = n
      <4>1. n - 1 \in 0 .. n /\ n - 1 # n /\ f[n - 1] = r[n - 1]
        BY <2>1, <2>3
      <4> QED
        BY <2>3, <3>1, <4>1
    <3>2. CASE k # n /\ k # 0
      <4>1. k \in 0 .. n - 1 /\ k - 1 \in 0 .. n /\ k - 1 # n
        BY <2>1, <3>2
      <4> QED
        BY <2>5, <3>2, <4>1
    <3>3. CASE k = 0
      <4>1. k \in 0 .. n - 1 /\ k # n
        BY <2>1, <2>3, <3>3
      <4> QED
        BY <2>5, <3>3, <4>1
    <3> QED
      BY <3>1, <3>2, <3>3
  <2>7. f = [k \in 0 .. n |-> IF k = 0 THEN {a} ELSE Further(f[k - 1], m)]
    BY <2>6
  <2> QED
    BY <2>2, <2>7
<1> PICK N \in Nat : N = Cardinality(Dirs)
  BY TreeAssumption, FS_CardinalityType
<1>3. PICK r : r = CHOOSE q : q = [k \in 0 .. N |-> IF k = 0 THEN {a} ELSE Further(q[k - 1], m)]
  OBVIOUS
<1>4. r = [k \in 0 .. N |-> IF k = 0 THEN {a} ELSE Further(r[k - 1], m)]
  <2>1. \E q : q = [k \in 0 .. N |-> IF k = 0 THEN {a} ELSE Further(q[k - 1], m)]
    <3>1. N \notin T
      BY <1>2
    <3> QED
      BY <3>1
  <2> QED
    BY ONLY <1>3, <2>1
<1>5. Below(a, m) = r[N]
  BY <1>3 DEF Below, Further
<1>6. DOMAIN r = 0 .. N /\ r[0] = {a}
  BY <1>4
<1>7. ASSUME NEW k \in 1 .. N PROVE r[k] = Further(r[k - 1], m)
  <2>1. k \in 0 .. N /\ k # 0
    OBVIOUS
  <2> QED
    BY <1>4, <2>1
<1> QED
  BY <1>5, <1>6, <1>7 DEF Turns

\* A turn that adds nothing is the last that could.
LEMMA TurnsStop ==
  ASSUME NEW r, NEW N, NEW a, NEW m, Turns(r, N, a, m),
         NEW j \in 0 .. N - 1, r[j + 1] = r[j]
  PROVE  r[N] = r[j] /\ Further(r[j], m) = r[j]
<1>1. Further(r[j], m) = r[j]
  <2>1. j + 1 \in 1 .. N /\ (j + 1) - 1 = j
    BY DEF Turns
  <2> QED
    BY <2>1 DEF Turns
<1> PICK D : D = {k \in j .. N : r[k] # r[j]}
  OBVIOUS
<1>2. ASSUME D # {} PROVE FALSE
  <2>1. D \in SUBSET Nat
    BY DEF Turns
  <2>2. PICK k \in D : \A i \in D : k <= i
    BY <1>2, <2>1, Least
  <2>3. k # j /\ k \in j .. N
    BY <2>2
  <2>4. k \in 1 .. N /\ k - 1 \in j .. N /\ k - 1 \notin D
    BY <2>2, <2>3 DEF Turns
  <2>5. r[k - 1] = r[j]
    BY <2>4
  <2>6. r[k] = Further(r[k - 1], m)
    BY <2>4 DEF Turns
  <2> QED
    BY <1>1, <2>2, <2>5, <2>6
<1>3. N \in j .. N
  BY DEF Turns
<1> QED
  BY <1>1, <1>2, <1>3

LEMMA FirstsAreFew ==
  IsFiniteSet(Firsts) /\ Cardinality(Firsts) <= Cardinality(Dirs) + 1 /\ Cardinality(Dirs) \in Nat
<1>1. IsFiniteSet(Dirs) /\ Root \notin Dirs
  BY TreeAssumption
<1>2. IsFiniteSet(Dirs \cup {Root}) /\ Cardinality(Dirs \cup {Root}) = Cardinality(Dirs) + 1
  BY <1>1, FS_AddElement
<1> PICK f : f = [d \in Dirs \cup {Root} |-> <<d, 0>>]
  OBVIOUS
<1>3. \A p \in Firsts : \E d \in Dirs \cup {Root} : p = <<d, 0>>
  BY DEF Firsts, Pairs
<1>4. \A d \in Dirs \cup {Root} : <<d, 0>> \in Firsts
  BY TreeAssumption DEF Firsts, Pairs
<1>5. f \in Surjection(Dirs \cup {Root}, Firsts)
  BY <1>3, <1>4 DEF Surjection
<1>6. IsFiniteSet(Firsts) /\ Cardinality(Firsts) <= Cardinality(Dirs \cup {Root})
  BY <1>2, <1>5, FS_Surjection
<1> QED
  BY <1>1, <1>2, <1>6, FS_CardinalityType

\* What paths reach is closed, and it is the least set that is.
Reached(B, a, m) ==
  /\ a \in B /\ B \subseteq Listed
  /\ \A p \in B : Subdirs(p, m) \subseteq B
  /\ \A C : a \in C /\ (\A p \in C : Subdirs(p, m) \subseteq C) => B \subseteq C

LEMMA BelowIsReached ==
  ASSUME Threaded, Entered, NEW a \in Listed, NEW m
  PROVE  Reached(Below(a, m), a, m)
<1>1. PICK N : N = Cardinality(Dirs)
  OBVIOUS
<1>2. PICK r : Below(a, m) = r[N] /\ Turns(r, N, a, m)
  BY <1>1, BelowIsTurns
<1>3. N \in Nat
  BY <1>2 DEF Turns
<1>4. ASSUME NEW C, a \in C, \A p \in C : Subdirs(p, m) \subseteq C, NEW k \in 0 .. N
      PROVE  r[k] \subseteq C
  <2> PICK D : D = {i \in 0 .. N : ~ r[i] \subseteq C}
    OBVIOUS
  <2>1. ASSUME D # {} PROVE FALSE
    <3>1. D \in SUBSET Nat
      OBVIOUS
    <3>2. PICK i \in D : \A j \in D : i <= j
      BY <2>1, <3>1, Least
    <3>3. i # 0
      BY <1>2, <1>4, <3>2 DEF Turns
    <3>4. i \in 1 .. N /\ i - 1 \in 0 .. N /\ i - 1 \notin D
      <4>1. i \in 0 .. N
        BY <3>2
      <4>2. i \in 1 .. N /\ i - 1 \in 0 .. N
        BY <1>3, <3>3, <4>1
      <4>3. i - 1 < i
        BY <4>1
      <4> QED
        BY ONLY <3>2, <4>1, <4>2, <4>3
    <3>5. r[i - 1] \subseteq C
      BY <3>4
    <3>6. r[i] = Further(r[i - 1], m)
      BY <1>2, <3>4 DEF Turns
    <3>7. r[i] \subseteq C
      BY <1>4, <3>5, <3>6 DEF Further
    <3> QED
      BY <3>2, <3>7
  <2> QED
    BY <2>1
<1>5. Below(a, m) \subseteq Listed
  BY BelowIsListed
<1>6. \A k \in 0 .. N : r[k] \subseteq Listed /\ r[k] \subseteq Firsts
  <2>1. \A p \in Listed : Subdirs(p, m) \subseteq Listed
    BY DEF Entered, Subdirs
  <2>2. \A k \in 0 .. N : r[k] \subseteq Listed
    BY <1>4, <2>1
  <2> QED
    BY <2>2, ListedPairs
<1>7. \A k \in 0 .. N - 1 : r[k] \subseteq r[k + 1]
  <2> TAKE k \in 0 .. N - 1
  <2>1. k + 1 \in 1 .. N /\ (k + 1) - 1 = k
    BY <1>3
  <2>2. r[k + 1] = Further(r[k], m)
    BY <1>2, <2>1 DEF Turns
  <2> QED
    BY <2>2 DEF Further
<1>8. a \in r[N]
  <2> PICK D : D = {i \in 0 .. N : a \notin r[i]}
    OBVIOUS
  <2>1. ASSUME D # {} PROVE FALSE
    <3>1. D \in SUBSET Nat
      OBVIOUS
    <3>2. PICK i \in D : \A j \in D : i <= j
      BY <2>1, <3>1, Least
    <3>3. i # 0
      BY <1>2, <3>2 DEF Turns
    <3>4. i - 1 \in 0 .. N - 1 /\ i - 1 \notin D /\ (i - 1) + 1 = i
      BY <1>3, <3>2, <3>3
    <3>5. r[i - 1] \subseteq r[i]
      BY <1>7, <3>4
    <3> QED
      BY <1>3, <3>2, <3>4, <3>5
  <2> QED
    BY <1>3, <2>1
<1>9. \A p \in r[N] : Subdirs(p, m) \subseteq r[N]
  <2>1. CASE \E j \in 0 .. N - 1 : r[j + 1] = r[j]
    <3>1. PICK j \in 0 .. N - 1 : r[j + 1] = r[j]
      BY <2>1
    <3>2. r[N] = r[j] /\ Further(r[j], m) = r[j]
      BY <1>2, <3>1, TurnsStop
    <3>3. Further(r[N], m) = r[N]
      BY <3>2
    <3> QED
      BY <3>3 DEF Further
  <2>2. CASE ~\E j \in 0 .. N - 1 : r[j + 1] = r[j]
    <3> DEFINE Many(k) == IsFiniteSet(r[k]) /\ Cardinality(r[k]) \in Nat /\ Cardinality(r[k]) >= k + 1
    <3>1. \A k \in 0 .. N : IsFiniteSet(r[k]) /\ Cardinality(r[k]) \in Nat
      BY <1>6, FirstsAreFew, FS_Subset, FS_CardinalityType
    <3>2. \A k \in 0 .. N : Cardinality(r[k]) >= k + 1
      <4> PICK D : D = {i \in 0 .. N : ~ Cardinality(r[i]) >= i + 1}
        OBVIOUS
      <4>1. ASSUME D # {} PROVE FALSE
        <5>1. D \in SUBSET Nat
          OBVIOUS
        <5>2. PICK i \in D : \A j \in D : i <= j
          BY <4>1, <5>1, Least
        <5>3. i # 0
          <6>1. Cardinality(r[0]) = 1
            BY <1>2, FS_Singleton DEF Turns
          <6> QED
            BY <5>2, <6>1
        <5>4. PICK j \in 0 .. N - 1 : j + 1 = i /\ j \notin D /\ j \in 0 .. N /\ i \in 0 .. N
          <6>1. i - 1 \in 0 .. N - 1 /\ (i - 1) + 1 = i /\ i - 1 \notin D
            BY <1>3, <5>2, <5>3
          <6> QED
            BY <1>3, <5>2, <6>1
        <5>5. Cardinality(r[j]) >= j + 1
          BY <5>4
        <5>6. r[j] \subseteq r[i] /\ r[i] # r[j]
          BY <1>7, <2>2, <5>4
        <5>7. Cardinality(r[j]) < Cardinality(r[i])
          <6>1. IsFiniteSet(r[i]) /\ r[j] \in SUBSET r[i]
            BY <3>1, <5>4, <5>6
          <6>2. Cardinality(r[j]) <= Cardinality(r[i]) /\ (Cardinality(r[i]) = Cardinality(r[j]) => r[i] = r[j])
            BY <6>1, FS_Subset
          <6> QED
            BY <3>1, <5>4, <5>6, <6>2
        <5>8. Cardinality(r[i]) >= i + 1
          BY <3>1, <5>4, <5>5, <5>7
        <5> QED
          BY <5>2, <5>8
      <4> QED
        BY <4>1
    <3>3. N \in 0 .. N
      BY <1>3
    <3>4. Cardinality(r[N]) >= N + 1 /\ Cardinality(r[N]) \in Nat /\ r[N] \in SUBSET Firsts
      BY <1>6, <3>1, <3>2, <3>3
    <3>5. Cardinality(r[N]) <= Cardinality(Firsts) /\ (Cardinality(Firsts) = Cardinality(r[N]) => Firsts = r[N])
      BY <3>4, FirstsAreFew, FS_Subset
    <3>6. Cardinality(Firsts) \in Nat
      BY FirstsAreFew, FS_CardinalityType
    <3>7. Firsts = r[N]
      BY <1>1, <3>4, <3>5, <3>6, FirstsAreFew
    <3>8. \A p \in r[N] : Subdirs(p, m) \subseteq Firsts
      <4>1. r[N] \subseteq Listed
        BY <1>6, <3>3
      <4> QED
        BY <4>1, ListedPairs DEF Entered, Subdirs
    <3> QED
      BY <3>7, <3>8
  <2> QED
    BY <2>1, <2>2
<1>10. \A C : a \in C /\ (\A p \in C : Subdirs(p, m) \subseteq C) => r[N] \subseteq C
  <2>1. N \in 0 .. N
    BY <1>3
  <2> QED
    BY <1>4, <2>1
<1> QED
  BY <1>2, <1>5, <1>8, <1>9, <1>10 DEF Reached

\* Of an edge, the directory and the name say where it is.
LEMMA EdgesAreApart ==
  ASSUME NEW a \in Firsts, NEW b \in Firsts
  PROVE  a[1] = b[1] => a = b
BY SameIsEqual DEF Same

\* After a mount the move in lfs_t is the one on the disk.
LEMMA MoveOnDisk ==
  ASSUME IInv
  PROVE  DiskMove = gdisk.move
<1>1. gdisk \in Gstates
  BY DEF IInv, TypeOK
<1>2. CASE op.stage = "attach"
  <2>1. DiskBits \subseteq {OrphanBit} /\ gdisk.move = None
    BY <1>2 DEF IInv, Summed, Calling
  <2>2. DiskBits \ {OrphanBit} = {}
    BY <2>1
  <2> QED
    BY <2>1, <2>2 DEF DiskMove
<1>3. CASE op.stage # "attach"
  <2>1. DiskBits = Bits(gdisk)
    BY <1>3 DEF IInv, Summed
  <2>2. DiskBits \ {OrphanBit} = IF gdisk.move # None THEN {gdisk.move} ELSE {}
    BY <1>1, <2>1, PairsAreDistinct DEF Bits, Gstates
  <2> QED
    BY <2>2 DEF DiskMove
<1> QED
  BY <1>2, <1>3

-----------------------------------------------------------------------------
(***************************************************************************)
(* What is shown is what is seen in the pairs that paths lead to.          *)
(***************************************************************************)

LiveIsReached ==
  /\ RootPair \in Live /\ Live \subseteq Listed
  /\ \A a \in Live, n \in Names : Seen(a, n) \in Pairs => Seen(a, n) \in Live
  /\ \A C : RootPair \in C
            /\ (\A a \in C \cap Live, n \in Names : Seen(a, n) \in Pairs => Seen(a, n) \in C)
            => Live \subseteq C

SeenIsOne ==
  /\ \A a \in Listed, n \in Names :
       /\ Seen(a, n) \in Files \cup Listed \cup {None} /\ Seen(a, n) # RootPair
       /\ Seen(a, n) # None => Seen(a, n) = disk[a].ents[n]
  /\ \A a, b \in Listed, n, k \in Names :
       Seen(a, n) \in Pairs /\ Seen(a, n) = Seen(b, k) => a = b /\ n = k

ShownIsSeen ==
  \A x : x \in Shown <=> \E a \in Live, n \in Names : Seen(a, n) # None /\ x = <<a[1], n, Id(Seen(a, n))>>

LiveFacts == IInv => LiveIsReached /\ SeenIsOne /\ ShownIsSeen

LEMMA LiveIsSeen == LiveFacts
<1> SUFFICES ASSUME IInv PROVE LiveIsReached /\ SeenIsOne /\ ShownIsSeen
  BY DEF LiveFacts
<1> PICK m : m = DiskMove
  OBVIOUS
<1>1. Threaded /\ Entered /\ disk \in [Pairs -> Logs]
  BY DEF IInv, TypeOK
<1>2. RootPair \in Listed /\ Listed \subseteq Firsts /\ Listed \subseteq Pairs
  BY <1>1, ListedPairs
<1>3. Reached(Live, RootPair, m)
  BY <1>1, <1>2, BelowIsReached DEF Live
<1>4. \A a : Subdirs(a, m) = {Seen(a, n) : n \in Names} \cap Pairs
  BY PairsAreDistinct DEF Subdirs, Seen
<1>5. LiveIsReached
  <2>1. \A a \in Live, n \in Names : Seen(a, n) \in Pairs => Seen(a, n) \in Live
    BY <1>3, <1>4 DEF Reached
  <2>2. ASSUME NEW C, RootPair \in C,
               \A a \in C \cap Live, n \in Names : Seen(a, n) \in Pairs => Seen(a, n) \in C
        PROVE  Live \subseteq C
    <3>1. \A p \in C \cap Live : Subdirs(p, m) \subseteq C \cap Live
      BY <1>4, <2>1, <2>2
    <3>2. Live \subseteq C \cap Live
      BY <1>3, <2>2, <3>1 DEF Reached
    <3> QED
      BY <3>2
  <2> QED
    BY <1>3, <2>1, <2>2 DEF LiveIsReached, Reached
<1>6. SeenIsOne
  <2>1. m = gdisk.move
    BY MoveOnDisk
  <2>2. ASSUME NEW a \in Listed, NEW n \in Names
        PROVE  /\ Seen(a, n) \in Files \cup Listed \cup {None} /\ Seen(a, n) # RootPair
               /\ Seen(a, n) # None => Seen(a, n) = disk[a].ents[n] /\ ~Hidden(m, a, n)
    <3>1. disk[a].ents[n] \in Objects
      BY <1>1, <1>2 DEF Logs
    <3>2. disk[a].ents[n] \in Pairs => disk[a].ents[n] \in Listed \ {RootPair}
      BY <1>1 DEF Entered
    <3> QED
      BY <1>2, <3>1, <3>2, PairsAreDistinct DEF Seen, Objects
  <2>3. ASSUME NEW a \in Listed, NEW b \in Listed, NEW n \in Names, NEW k \in Names,
               Seen(a, n) \in Pairs, Seen(a, n) = Seen(b, k)
        PROVE  a = b /\ n = k
    <3>1. Seen(a, n) # None /\ Seen(b, k) # None
      BY <2>3, PairsAreDistinct
    <3>2. disk[a].ents[n] \in Pairs /\ disk[a].ents[n] = disk[b].ents[k]
          /\ ~Hidden(m, a, n) /\ ~Hidden(m, b, k)
      BY <2>2, <2>3, <3>1
    <3> QED
      BY <1>1, <2>1, <3>2 DEF Entered
  <2> QED
    BY <2>2, <2>3 DEF SeenIsOne
<1>7. ShownIsSeen
  <2>1. Shown = {<<x[1][1], x[2], Id(disk[x[1]].ents[x[2]])>> :
           x \in {y \in Live \X Names :
                    disk[y[1]].ents[y[2]] # None /\ ~Hidden(m, y[1], y[2])}}
    BY DEF Shown, Live
  <2>2. \A a, n : Seen(a, n) # None <=> disk[a].ents[n] # None /\ ~Hidden(m, a, n)
    BY DEF Seen
  <2>3. \A a, n : Seen(a, n) # None => Seen(a, n) = disk[a].ents[n]
    BY DEF Seen
  <2>4. ASSUME NEW x, x \in Shown
        PROVE  \E a \in Live, n \in Names : Seen(a, n) # None /\ x = <<a[1], n, Id(Seen(a, n))>>
    <3>1. PICK y \in Live \X Names :
            /\ disk[y[1]].ents[y[2]] # None /\ ~Hidden(m, y[1], y[2])
            /\ x = <<y[1][1], y[2], Id(disk[y[1]].ents[y[2]])>>
      BY <2>1, <2>4
    <3>2. y[1] \in Live /\ y[2] \in Names /\ Seen(y[1], y[2]) # None
      BY <2>2, <3>1
    <3> QED
      BY <2>3, <3>1, <3>2
  <2>5. ASSUME NEW a \in Live, NEW n \in Names, Seen(a, n) # None
        PROVE  <<a[1], n, Id(Seen(a, n))>> \in Shown
    <3>1. PICK y \in Live \X Names : y = <<a, n>>
      OBVIOUS
    <3>2. y[1] = a /\ y[2] = n
      BY <3>1
    <3>3. disk[y[1]].ents[y[2]] # None /\ ~Hidden(m, y[1], y[2])
      BY <2>2, <2>5, <3>2
    <3>4. Seen(a, n) = disk[y[1]].ents[y[2]]
      BY <2>3, <2>5, <3>2
    <3> QED
      BY <2>1, <3>2, <3>3, <3>4
  <2> QED
    BY <2>4, <2>5 DEF ShownIsSeen
<1> QED
  BY <1>5, <1>6, <1>7

LEMMA LiveIsSeenNext == LiveFacts'
BY LiveIsSeen, PTL

-----------------------------------------------------------------------------
(***************************************************************************)
(* How commits change what is shown.                                       *)
(***************************************************************************)

LEMMA LiveStays ==
  ASSUME IInv, IInv',
         \A a \in Live, n \in Names :
           Seen(a, n) \in Pairs \/ Seen(a, n)' \in Pairs => Seen(a, n)' = Seen(a, n)
  PROVE  Live' = Live
<1>1. LiveIsReached
  BY LiveIsSeen DEF LiveFacts
<1>2. LiveIsReached'
  BY LiveIsSeenNext DEF LiveFacts
<1> PICK L : L = Live'
  OBVIOUS
<1>3. RootPair \in L /\ \A a \in L, n \in Names : Seen(a, n)' \in Pairs => Seen(a, n)' \in L
  BY <1>2 DEF LiveIsReached
<1>4. Live \subseteq L
  <2>1. \A a \in L \cap Live, n \in Names : Seen(a, n) \in Pairs => Seen(a, n) \in L
    BY <1>3
  <2> QED
    BY <1>1, <1>3, <2>1 DEF LiveIsReached
<1>5. L \subseteq Live
  <2>1. \A a \in Live \cap L, n \in Names : Seen(a, n)' \in Pairs => Seen(a, n)' \in Live
    BY <1>1 DEF LiveIsReached
  <2>2. \A C : RootPair \in C
            /\ (\A a \in C \cap L, n \in Names : Seen(a, n)' \in Pairs => Seen(a, n)' \in C)
            => L \subseteq C
    BY <1>2 DEF LiveIsReached
  <2>3. RootPair \in Live
    BY <1>1 DEF LiveIsReached
  <2> QED
    BY <2>1, <2>2, <2>3
<1> QED
  BY <1>4, <1>5

LEMMA LiveIsFirst ==
  IInv => Live \subseteq Firsts /\ Live \subseteq Listed
BY LiveIsSeen, ListedPairs DEF LiveFacts, LiveIsReached, IInv

LEMMA LiveIsFirstNext ==
  (IInv => Live \subseteq Firsts /\ Live \subseteq Listed)'
BY LiveIsFirst, PTL

\* Edges that are not at the places D are shown as before.
Untouched(x, D) == \A p \in D : ~(x[1] = p[1][1] /\ x[2] = p[2])

LEMMA ShownChanges ==
  ASSUME IInv, IInv', NEW D \in SUBSET (Firsts \X Names),
         \A a \in Live \cap Live', n \in Names : <<a, n>> \notin D => Seen(a, n)' = Seen(a, n),
         \A a \in Live \ Live', n \in Names : Seen(a, n) = None,
         \A a \in Live' \ Live, n \in Names : Seen(a, n)' = None
  PROVE  \A x : x \in Shown' <=>
           \/ x \in Shown /\ Untouched(x, D)
           \/ \E a \in Live', n \in Names :
                <<a, n>> \in D /\ Seen(a, n)' # None /\ x = <<a[1], n, Id(Seen(a, n)')>>
<1>1. \A x : x \in Shown <=> \E a \in Live, n \in Names : Seen(a, n) # None /\ x = <<a[1], n, Id(Seen(a, n))>>
  BY LiveIsSeen DEF LiveFacts, ShownIsSeen
<1>2. \A x : x \in Shown' <=> \E a \in Live', n \in Names : Seen(a, n)' # None /\ x = <<a[1], n, Id(Seen(a, n)')>>
  <2>1. ShownIsSeen'
    BY LiveIsSeenNext DEF LiveFacts
  <2> QED
    BY <2>1 DEF ShownIsSeen, Id
<1> PICK L : L = Live'
  OBVIOUS
<1>3. Live \subseteq Firsts /\ L \subseteq Firsts
  BY LiveIsFirst, LiveIsFirstNext
<1>4. ASSUME NEW x, x \in Shown'
      PROVE  \/ x \in Shown /\ Untouched(x, D)
             \/ \E a \in L, n \in Names :
                  <<a, n>> \in D /\ Seen(a, n)' # None /\ x = <<a[1], n, Id(Seen(a, n)')>>
  <2>1. PICK a \in L, n \in Names : Seen(a, n)' # None /\ x = <<a[1], n, Id(Seen(a, n)')>>
    BY <1>2, <1>4
  <2>2. CASE <<a, n>> \notin D
    <3>1. a \in Live
      BY <2>1
    <3>2. Seen(a, n)' = Seen(a, n)
      BY <2>2, <3>1
    <3>3. x \in Shown
      BY <1>1, <2>1, <3>1, <3>2
    <3>4. ASSUME NEW p \in D, x[1] = p[1][1], x[2] = p[2] PROVE FALSE
      <4>1. p[1] \in Firsts /\ p = <<p[1], p[2]>> /\ a \in Firsts
        BY <1>3
      <4>2. p[1] = a /\ p[2] = n
        BY <2>1, <3>4, <4>1, EdgesAreApart
      <4> QED
        BY <2>2, <4>1, <4>2
    <3> QED
      BY <3>3, <3>4 DEF Untouched
  <2> QED
    BY <2>1, <2>2
<1>5. ASSUME NEW x, x \in Shown, Untouched(x, D) PROVE x \in Shown'
  <2>1. PICK a \in Live, n \in Names : Seen(a, n) # None /\ x = <<a[1], n, Id(Seen(a, n))>>
    BY <1>1, <1>5
  <2>2. a \in L
    BY <2>1
  <2>3. <<a, n>> \notin D
    BY <1>5, <2>1 DEF Untouched
  <2>4. Seen(a, n)' = Seen(a, n)
    BY <2>2, <2>3
  <2> QED
    BY <1>2, <2>1, <2>2, <2>4
<1>6. \A x : (\E a \in L, n \in Names :
                <<a, n>> \in D /\ Seen(a, n)' # None /\ x = <<a[1], n, Id(Seen(a, n)')>>) => x \in Shown'
  BY <1>2
<1> QED
  BY <1>4, <1>5, <1>6

\* Nothing that paths lead to changes.
LEMMA NothingChanges ==
  ASSUME IInv, IInv', \A a \in Live, n \in Names : Seen(a, n)' = Seen(a, n)
  PROVE  Live' = Live /\ Shown' = Shown
<1>1. Live' = Live
  BY LiveStays
<1>2. \A x : x \in Shown <=> \E a \in Live, n \in Names : Seen(a, n) # None /\ x = <<a[1], n, Id(Seen(a, n))>>
  BY LiveIsSeen DEF LiveFacts, ShownIsSeen
<1>3. \A x : x \in Shown' <=> \E a \in Live', n \in Names : Seen(a, n)' # None /\ x = <<a[1], n, Id(Seen(a, n)')>>
  <2>1. ShownIsSeen'
    BY LiveIsSeenNext DEF LiveFacts
  <2> QED
    BY <2>1 DEF ShownIsSeen, Id
<1>4. \A x : x \in Shown' <=> x \in Shown
  BY <1>1, <1>2, <1>3
<1> QED
  BY <1>1, <1>4

LEMMA ShownAt ==
  ASSUME IInv, NEW a \in Live, NEW n \in Names, NEW x \in Shown, x[1] = a[1], x[2] = n
  PROVE  Seen(a, n) # None /\ x = <<a[1], n, Id(Seen(a, n))>>
<1>1. PICK b \in Live, k \in Names : Seen(b, k) # None /\ x = <<b[1], k, Id(Seen(b, k))>>
  BY LiveIsSeen DEF LiveFacts, ShownIsSeen
<1>2. a \in Firsts /\ b \in Firsts
  BY LiveIsFirst
<1>3. b = a /\ k = n
  BY <1>1, <1>2, EdgesAreApart
<1> QED
  BY <1>1, <1>3

\* An entry is made, for a file or an empty directory.
LEMMA EntryMade ==
  ASSUME IInv, IInv', NEW a \in Live, NEW n \in Names, NEW y, y # None,
         Seen(a, n) = None, Seen(a, n)' = y,
         \A b \in Live, k \in Names : b # a \/ k # n => Seen(b, k)' = Seen(b, k),
         y \in Pairs => y \notin Live /\ \A k \in Names : Seen(y, k)' = None
  PROVE  Live' = Live \cup ({y} \cap Pairs) /\ Shown' = Shown \cup {<<a[1], n, Id(y)>>}
<1>1. LiveIsReached
  BY LiveIsSeen DEF LiveFacts
<1>2. LiveIsReached'
  BY LiveIsSeenNext DEF LiveFacts
<1> PICK L : L = Live'
  OBVIOUS
<1>3. RootPair \in L /\ \A b \in L, k \in Names : Seen(b, k)' \in Pairs => Seen(b, k)' \in L
  BY <1>2 DEF LiveIsReached
<1>4. None \notin Pairs
  BY PairsAreDistinct
<1>5. Live \subseteq L
  <2>1. \A b \in L \cap Live, k \in Names : Seen(b, k) \in Pairs => Seen(b, k) \in L
    BY <1>3, <1>4
  <2> QED
    BY <1>1, <1>3, <2>1 DEF LiveIsReached
<1>6. {y} \cap Pairs \subseteq L
  BY <1>3, <1>5
<1>7. L \subseteq Live \cup ({y} \cap Pairs)
  <2> PICK C : C = Live \cup ({y} \cap Pairs)
    OBVIOUS
  <2>1. RootPair \in C /\ \A b \in Live, k \in Names : Seen(b, k) \in Pairs => Seen(b, k) \in C
    BY <1>1 DEF LiveIsReached
  <2>2. ASSUME NEW b \in C \cap L, NEW k \in Names, Seen(b, k)' \in Pairs PROVE Seen(b, k)' \in C
    <3>1. CASE b \notin Live
      <4>1. b = y /\ y \in Pairs
        BY <3>1
      <4> QED
        BY <1>4, <2>2, <4>1
    <3>2. CASE b = a /\ k = n
      BY <2>2, <3>2
    <3>3. CASE b \in Live /\ (b # a \/ k # n)
      <4>1. Seen(b, k)' = Seen(b, k)
        BY <3>3
      <4> QED
        BY <2>1, <2>2, <3>3, <4>1
    <3> QED
      BY <3>1, <3>2, <3>3
  <2>3. L \subseteq C
    BY <1>2, <2>1, <2>2 DEF LiveIsReached
  <2> QED
    BY <2>3
<1>8. L = Live \cup ({y} \cap Pairs)
  BY <1>5, <1>6, <1>7
<1> PICK D : D = {<<a, n>>}
  OBVIOUS
<1>9. \A x : x \in Shown' <=>
           \/ x \in Shown /\ Untouched(x, D)
           \/ \E b \in L, k \in Names :
                <<b, k>> \in D /\ Seen(b, k)' # None /\ x = <<b[1], k, Id(Seen(b, k)')>>
  <2>1. D \in SUBSET (Firsts \X Names)
    BY LiveIsFirst
  <2>2. \A b \in Live \cap Live', k \in Names : <<b, k>> \notin D => Seen(b, k)' = Seen(b, k)
    OBVIOUS
  <2>3. \A b \in Live \ Live', k \in Names : Seen(b, k) = None
    BY <1>5
  <2>4. \A b \in Live' \ Live, k \in Names : Seen(b, k)' = None
    BY <1>8
  <2>5. \A x : x \in Shown' <=>
           \/ x \in Shown /\ Untouched(x, D)
           \/ \E b \in Live', k \in Names :
                <<b, k>> \in D /\ Seen(b, k)' # None /\ x = <<b[1], k, Id(Seen(b, k)')>>
    BY ONLY <2>1, <2>2, <2>3, <2>4, IInv, IInv', ShownChanges
  <2> QED
    BY <2>5
<1>10. \A x \in Shown : Untouched(x, D)
  BY ShownAt DEF Untouched
<1>11. \A x : (\E b \in L, k \in Names :
                 <<b, k>> \in D /\ Seen(b, k)' # None /\ x = <<b[1], k, Id(Seen(b, k)')>>)
              <=> x = <<a[1], n, Id(y)>>
  <2>1. a \in L
    BY <1>5
  <2> QED
    BY <2>1
<1>12. \A x : x \in Shown' <=> x \in Shown \/ x = <<a[1], n, Id(y)>>
  BY <1>9, <1>10, <1>11
<1>13. Shown' = Shown \cup {<<a[1], n, Id(y)>>}
  BY <1>12
<1> QED
  BY <1>8, <1>13

\* An entry is deleted, of a file or an empty directory.
LEMMA EntryGone ==
  ASSUME IInv, IInv', NEW a \in Live, NEW n \in Names, NEW y, y # None,
         Seen(a, n) = y, Seen(a, n)' = None,
         \A b \in Live, k \in Names : b # a \/ k # n => Seen(b, k)' = Seen(b, k),
         y \in Pairs => \A k \in Names : Seen(y, k) = None
  PROVE  Live' = Live \ {y} /\ Shown' = Shown \ {<<a[1], n, Id(y)>>}
<1>1. LiveIsReached /\ SeenIsOne
  BY LiveIsSeen DEF LiveFacts
<1>2. LiveIsReached'
  BY LiveIsSeenNext DEF LiveFacts
<1> PICK L : L = Live'
  OBVIOUS
<1>3. RootPair \in L /\ \A b \in L, k \in Names : Seen(b, k)' \in Pairs => Seen(b, k)' \in L
  BY <1>2 DEF LiveIsReached
<1>4. None \notin Pairs /\ y # RootPair /\ a # y
  <2>1. y # RootPair
    BY <1>1 DEF LiveIsReached, SeenIsOne
  <2>2. a \in Pairs
    BY LiveIsFirst, PairsAreDistinct
  <2> QED
    BY <2>1, <2>2, PairsAreDistinct
<1>5. Live \subseteq L \cup {y}
  <2> PICK C : C = L \cup {y}
    OBVIOUS
  <2>1. \A b \in C \cap Live, k \in Names : Seen(b, k) \in Pairs => Seen(b, k) \in C
    <3> TAKE b \in C \cap Live, k \in Names
    <3>1. CASE b = a /\ k = n
      BY <3>1
    <3>2. CASE b = y
      <4>1. y \in Pairs
        BY <3>2, LiveIsFirst, PairsAreDistinct
      <4> QED
        BY <1>4, <3>2, <4>1
    <3>3. CASE b # y /\ (b # a \/ k # n)
      BY <1>3, <3>3
    <3> QED
      BY <3>1, <3>2, <3>3
  <2>2. Live \subseteq C
    BY <1>1, <1>3, <2>1 DEF LiveIsReached
  <2> QED
    BY <2>2
<1>6. L \subseteq Live \ {y}
  <2> PICK C : C = Live \ {y}
    OBVIOUS
  <2>1. RootPair \in C /\ \A b \in Live, k \in Names : Seen(b, k) \in Pairs => Seen(b, k) \in Live
    BY <1>1, <1>4 DEF LiveIsReached
  <2>2. ASSUME NEW b \in C \cap L, NEW k \in Names, Seen(b, k)' \in Pairs PROVE Seen(b, k)' \in C
    <3>1. b # a \/ k # n
      BY <1>4, <2>2
    <3>2. Seen(b, k)' = Seen(b, k) /\ Seen(b, k) \in Live
      BY <2>1, <2>2, <3>1
    <3>3. Seen(b, k) # y
      <4>1. b \in Listed /\ a \in Listed
        BY <1>1 DEF LiveIsReached
      <4> QED
        BY <1>1, <2>2, <3>1, <3>2, <4>1 DEF SeenIsOne
    <3> QED
      BY <3>2, <3>3
  <2>3. L \subseteq C
    BY <1>2, <2>1, <2>2 DEF LiveIsReached
  <2> QED
    BY <2>3
<1>7. L = Live \ {y}
  BY <1>5, <1>6
<1> PICK D : D = {<<a, n>>}
  OBVIOUS
<1>8. \A x : x \in Shown' <=>
           \/ x \in Shown /\ Untouched(x, D)
           \/ \E b \in L, k \in Names :
                <<b, k>> \in D /\ Seen(b, k)' # None /\ x = <<b[1], k, Id(Seen(b, k)')>>
  <2>1. D \in SUBSET (Firsts \X Names)
    BY LiveIsFirst
  <2>2. \A b \in Live \cap Live', k \in Names : <<b, k>> \notin D => Seen(b, k)' = Seen(b, k)
    OBVIOUS
  <2>3. \A b \in Live \ Live', k \in Names : Seen(b, k) = None
    <3>1. \A b \in Live \ Live' : b = y /\ y \in Pairs
      BY <1>7, LiveIsFirst, PairsAreDistinct
    <3> QED
      BY <3>1
  <2>4. \A b \in Live' \ Live, k \in Names : Seen(b, k)' = None
    BY <1>7
  <2>5. \A x : x \in Shown' <=>
           \/ x \in Shown /\ Untouched(x, D)
           \/ \E b \in Live', k \in Names :
                <<b, k>> \in D /\ Seen(b, k)' # None /\ x = <<b[1], k, Id(Seen(b, k)')>>
    BY ONLY <2>1, <2>2, <2>3, <2>4, IInv, IInv', ShownChanges
  <2> QED
    BY <2>5
<1>9. \A x \in Shown : Untouched(x, D) <=> x # <<a[1], n, Id(y)>>
  BY ShownAt DEF Untouched
<1>10. \A b \in L, k \in Names : <<b, k>> \in D => Seen(b, k)' = None
  OBVIOUS
<1>11. \A x : x \in Shown' <=> x \in Shown /\ x # <<a[1], n, Id(y)>>
  BY <1>8, <1>9, <1>10
<1>12. Shown' = Shown \ {<<a[1], n, Id(y)>>}
  BY <1>11
<1> QED
  BY <1>7, <1>12

\* An entry is moved, over a file or an empty directory, and not below itself.
LEMMA EntryMoved ==
  ASSUME IInv, IInv', NEW a \in Live, NEW n \in Names, NEW b \in Live, NEW k \in Names,
         b # a \/ k # n, NEW e, e # None, NEW q,
         Seen(a, n) = e, Seen(b, k) = q, Seen(a, n)' = None, Seen(b, k)' = e,
         \A c \in Live, i \in Names :
           (c # a \/ i # n) /\ (c # b \/ i # k) => Seen(c, i)' = Seen(c, i),
         q \in Pairs => \A i \in Names : Seen(q, i) = None,
         e \in Pairs => b \notin Below(e, DiskMove)
  PROVE  /\ Live' = Live \ {q}
         /\ Shown' = (Shown \ ({<<a[1], n, Id(e)>>} \cup {x \in Shown : x[1] = b[1] /\ x[2] = k}))
                        \cup {<<b[1], k, Id(e)>>}
<1>1. LiveIsReached /\ SeenIsOne
  BY LiveIsSeen DEF LiveFacts
<1>2. LiveIsReached'
  BY LiveIsSeenNext DEF LiveFacts
<1> PICK L : L = Live'
  OBVIOUS
<1>3. RootPair \in L /\ \A c \in L, i \in Names : Seen(c, i)' \in Pairs => Seen(c, i)' \in L
  BY <1>2 DEF LiveIsReached
<1>4. /\ Live \subseteq Pairs /\ Live \subseteq Listed /\ None \notin Pairs /\ q # RootPair
      /\ \A c \in Live, i \in Names : Seen(c, i) \in Pairs => Seen(c, i) \in Live
  <2>1. q # RootPair
    BY <1>1 DEF LiveIsReached, SeenIsOne
  <2> QED
    BY <1>1, <2>1, LiveIsFirst, PairsAreDistinct DEF LiveIsReached
<1>5. q \in Pairs => a # q
  OBVIOUS
<1>6. q \in Pairs => b # q
  BY <1>4
<1>7. L \subseteq Live \ {q}
  <2> PICK C : C = Live \ {q}
    OBVIOUS
  <2>1. RootPair \in C
    BY <1>1, <1>4 DEF LiveIsReached
  <2>2. ASSUME NEW c \in C \cap L, NEW i \in Names, Seen(c, i)' \in Pairs PROVE Seen(c, i)' \in C
    <3>1. c \in Live /\ (c # a \/ i # n)
      BY <1>4, <2>2
    <3>2. PICK d \in Live, j \in Names : Seen(d, j) = Seen(c, i)' /\ (d # b \/ j # k)
      BY <3>1
    <3>3. Seen(d, j) \in Live
      BY <1>4, <2>2, <3>2
    <3>4. Seen(d, j) # q
      BY <1>1, <1>4, <2>2, <3>2 DEF SeenIsOne
    <3> QED
      BY <3>2, <3>3, <3>4
  <2>3. L \subseteq C
    BY <1>2, <2>1, <2>2 DEF LiveIsReached
  <2> QED
    BY <2>3
<1>8. e \in Pairs => e \in L
  <2> SUFFICES ASSUME e \in Pairs PROVE e \in L
    OBVIOUS
  <2> PICK B : B = Below(e, DiskMove)
    OBVIOUS
  <2>1. e \in B /\ \A c \in B : Subdirs(c, DiskMove) \subseteq B
    BY <1>4, BelowIsReached DEF IInv, Reached
  <2>2. \A c \in B, i \in Names : Seen(c, i) \in Pairs => Seen(c, i) \in B
    BY <1>4, <2>1 DEF Subdirs, Seen
  <2> PICK T : T = L \cup {q} \cup B
    OBVIOUS
  <2>3. ASSUME NEW c \in T \cap Live, NEW i \in Names, Seen(c, i) \in Pairs PROVE Seen(c, i) \in T
    <3>1. CASE c \in B
      BY <2>2, <2>3, <3>1
    <3>2. CASE c = q
      BY <1>4, <2>3, <3>2
    <3>3. CASE c = a /\ i = n
      BY <2>1, <3>3
    <3>4. CASE c = b /\ i = k
      BY <3>4
    <3>5. CASE c \in L /\ (c # a \/ i # n) /\ (c # b \/ i # k)
      BY <1>3, <2>3, <3>5
    <3> QED
      BY <3>1, <3>2, <3>3, <3>4, <3>5
  <2>4. Live \subseteq T
    BY <1>1, <1>3, <2>3 DEF LiveIsReached
  <2>5. b \in L
    BY <1>4, <1>6, <2>4
  <2> QED
    BY <1>3, <2>5
<1>9. Live \subseteq L \cup {q}
  <2> PICK C : C = L \cup {q}
    OBVIOUS
  <2>1. ASSUME NEW c \in C \cap Live, NEW i \in Names, Seen(c, i) \in Pairs PROVE Seen(c, i) \in C
    <3>1. CASE c = a /\ i = n
      BY <1>8, <2>1, <3>1
    <3>2. CASE c = b /\ i = k
      BY <3>2
    <3>3. CASE c = q
      BY <1>4, <2>1, <3>3
    <3>4. CASE c \in L /\ (c # a \/ i # n) /\ (c # b \/ i # k)
      BY <1>3, <2>1, <3>4
    <3> QED
      BY <3>1, <3>2, <3>3, <3>4
  <2>2. Live \subseteq C
    BY <1>1, <1>3, <2>1 DEF LiveIsReached
  <2> QED
    BY <2>2
<1>10. L = Live \ {q} /\ b \in L
  BY <1>4, <1>6, <1>7, <1>9
<1> PICK D : D = {<<a, n>>, <<b, k>>}
  OBVIOUS
<1>11. \A x : x \in Shown' <=>
           \/ x \in Shown /\ Untouched(x, D)
           \/ \E c \in Live', i \in Names :
                <<c, i>> \in D /\ Seen(c, i)' # None /\ x = <<c[1], i, Id(Seen(c, i)')>>
  <2>1. D \in SUBSET (Firsts \X Names)
    BY LiveIsFirst
  <2>2. \A c \in Live \cap Live', i \in Names : <<c, i>> \notin D => Seen(c, i)' = Seen(c, i)
    OBVIOUS
  <2>3. \A c \in Live \ Live', i \in Names : Seen(c, i) = None
    <3>1. \A c \in Live \ Live' : c = q /\ q \in Pairs
      BY <1>4, <1>10
    <3> QED
      BY <3>1
  <2>4. \A c \in Live' \ Live, i \in Names : Seen(c, i)' = None
    BY <1>10
  <2> QED
    BY ONLY <2>1, <2>2, <2>3, <2>4, IInv, IInv', ShownChanges
<1> PICK F : F = {x \in Shown : x[1] = b[1] /\ x[2] = k}
  OBVIOUS
<1>12. \A x \in Shown : Untouched(x, D) <=> x \notin {<<a[1], n, Id(e)>>} \cup F
  <2> TAKE x \in Shown
  <2>1. Untouched(x, D) <=> ~(x[1] = a[1] /\ x[2] = n) /\ ~(x[1] = b[1] /\ x[2] = k)
    BY DEF Untouched
  <2>2. x[1] = a[1] /\ x[2] = n <=> x = <<a[1], n, Id(e)>>
    BY ShownAt
  <2> QED
    BY <2>1, <2>2
<1>13. \A x : (\E c \in Live', i \in Names :
                 <<c, i>> \in D /\ Seen(c, i)' # None /\ x = <<c[1], i, Id(Seen(c, i)')>>)
              <=> x = <<b[1], k, Id(e)>>
  <2>1. ASSUME NEW x, NEW c \in Live', NEW i \in Names,
               <<c, i>> \in D, Seen(c, i)' # None, x = <<c[1], i, Id(Seen(c, i)')>>
        PROVE  x = <<b[1], k, Id(e)>>
    <3>1. c = b /\ i = k
      BY <2>1
    <3> QED
      BY <2>1, <3>1
  <2>2. <<b, k>> \in D /\ b \in Live'
    BY <1>10
  <2> QED
    BY <2>1, <2>2
<1>14. \A x : x \in Shown' <=> (x \in Shown /\ x \notin {<<a[1], n, Id(e)>>} \cup F) \/ x = <<b[1], k, Id(e)>>
  BY <1>11, <1>12, <1>13
<1>15. Shown' = (Shown \ ({<<a[1], n, Id(e)>>} \cup F)) \cup {<<b[1], k, Id(e)>>}
  BY ONLY <1>14
<1> QED
  BY <1>10, <1>15

-----------------------------------------------------------------------------
(***************************************************************************)
(* Steps that show nothing new.                                            *)
(***************************************************************************)

\* What is to be shown of a step, besides IInv'.
Fine ==
  /\ Asked' /\ Answered' /\ Rooted' /\ Walked'
  /\ Atomic!Next \/ (Shown' = Shown /\ op'.req = op.req)

SeenFact ==
  IInv => /\ \A a, n : Seen(a, n) = IF Hidden(gdisk.move, a, n) THEN None ELSE disk[a].ents[n]
          /\ op.stage # "attach" => (OrphanBit \in DiskBits <=> gdisk.orphans # 0)

LEMMA SeenInLfs == SeenFact
<1> SUFFICES ASSUME IInv
             PROVE  /\ \A a, n : Seen(a, n) = IF Hidden(gdisk.move, a, n) THEN None ELSE disk[a].ents[n]
                    /\ op.stage # "attach" => (OrphanBit \in DiskBits <=> gdisk.orphans # 0)
  BY DEF SeenFact
<1>1. \A a, n : Seen(a, n) = IF Hidden(gdisk.move, a, n) THEN None ELSE disk[a].ents[n]
  BY MoveOnDisk DEF Seen
<1>2. op.stage # "attach" => (OrphanBit \in DiskBits <=> gdisk.orphans # 0)
  <2>1. gdisk \in Gstates /\ gdisk.orphans \in 0 .. 1
    BY DEF IInv, TypeOK, Summed
  <2>2. OrphanBit \in Bits(gdisk) <=> gdisk.orphans > 0
    BY <2>1, BitsAreBits
  <2> QED
    BY <2>1, <2>2 DEF IInv, Summed
<1> QED
  BY <1>1, <1>2

LEMMA SeenInLfsNext == SeenFact'
BY SeenInLfs, PTL

LEMMA SilentStep ==
  ASSUME AInv, IInv', \A a \in Live, n \in Names : Seen(a, n)' = Seen(a, n),
         op'.stage # "attach", Walked',
         op'.req = op.req \/ op'.req = NoChange,
         op'.stage \in {"idle", "deorphan", "ready", "gc"} => op'.req = NoChange,
         op'.stage \in {"moved", "drop", "end"} =>
           op'.req = NoChange \/ (op'.req = op.req /\ op.stage \in {"moved", "drop", "end"}),
         op'.stage \in {"moved", "drop"} =>
           /\ op.stage \in {"moved", "drop"}
           /\ op.vic # None => op'.vic # None /\ op'.vic.pair = op.vic.pair,
         Listed' \subseteq Listed,
         \A p \in Listed' \ Live, n \in Names : disk'[p].ents[n] = None,
         gstate'.orphans = 0 \/ gdisk'.orphans = 0 => Listed' \subseteq Live
  PROVE  Fine
<1>1. Live' = Live /\ Shown' = Shown
  BY NothingChanges DEF AInv
<1>2. Asked'
  BY DEF Asked
<1>3. Answered'
  <2>1. CASE op'.req = NoChange
    BY <2>1 DEF Answered, NoChange
  <2>2. CASE op'.req = op.req /\ op.stage \in {"moved", "drop", "end"}
    BY <1>1, <2>2 DEF Answered, AInv
  <2> QED
    BY <2>1, <2>2 DEF Answered
<1>4. Rooted'
  <2>1. OrphanBit \in DiskBits' <=> gdisk'.orphans # 0
    BY SeenInLfsNext DEF SeenFact
  <2>2. gstate'.orphans = 0 \/ OrphanBit \notin DiskBits' => Listed' \subseteq Live'
    BY <1>1, <2>1
  <2>3. \A p \in Listed' \ Live', n \in Names : disk'[p].ents[n] = None
    BY <1>1
  <2>4. op'.stage \in {"moved", "drop"} =>
          \A p \in Listed' \ Live' : op'.vic # None /\ p = op'.vic.pair
    BY <1>1 DEF Rooted, AInv
  <2> QED
    BY <2>2, <2>3, <2>4 DEF Rooted
<1>5. Atomic!Next \/ (Shown' = Shown /\ op'.req = op.req)
  BY <1>1 DEF Atomic!Next, Atomic!End, Atomic!NoChange, NoChange
<1> QED
  BY <1>2, <1>3, <1>4, <1>5 DEF Fine

\* The disk is as it was, and the call is over or has come no further.
LEMMA SilentOnDisk ==
  ASSUME AInv, IInv', disk' = disk, Walked',
         op'.stage # "attach",
         op'.req = op.req \/ op'.req = NoChange,
         op'.stage \in {"idle", "deorphan", "ready", "gc"} => op'.req = NoChange,
         op'.stage \in {"moved", "drop", "end"} =>
           op'.req = NoChange \/ (op'.req = op.req /\ op.stage \in {"moved", "drop", "end"}),
         op'.stage \in {"moved", "drop"} =>
           /\ op.stage \in {"moved", "drop"}
           /\ op.vic # None => op'.vic # None /\ op'.vic.pair = op.vic.pair,
         gstate'.orphans = 0 => Listed \subseteq Live
  PROVE  Fine
<1>1. Threaded' /\ Listed' = Listed /\ DiskBits' = DiskBits
  BY DiskStays DEF AInv
<1>2. DiskMove' = DiskMove
  BY <1>1 DEF DiskMove
<1>3. \A a \in Live, n \in Names : Seen(a, n)' = Seen(a, n)
  BY <1>2 DEF Seen, Hidden, Same
<1>4. \A p \in Listed' \ Live, n \in Names : disk'[p].ents[n] = None
  BY <1>1 DEF AInv, Rooted
<1>5. gdisk'.orphans = 0 => Listed' \subseteq Live
  <2>1. OrphanBit \in DiskBits' <=> gdisk'.orphans # 0
    BY SeenInLfsNext DEF SeenFact
  <2> QED
    BY <1>1, <2>1 DEF AInv, Rooted
<1> QED
  BY <1>1, <1>3, <1>4, <1>5, SilentStep

LEMMA PowerLossIsFine ==
  ASSUME AInv, IInv', PowerLoss
  PROVE  Fine
<1>1. disk' = disk /\ op' = NoOp /\ walk' = None
      /\ gstate' = [orphans |-> IF OrphanBit \in DiskBits THEN 1 ELSE 0, move |-> DiskMove]
  BY DEF PowerLoss, Restart
<1>2. gstate'.orphans = 0 => Listed \subseteq Live
  BY <1>1 DEF AInv, Rooted
<1>3. op'.stage = "idle" /\ op'.req = NoChange
  BY <1>1 DEF NoOp
<1>4. Walked'
  BY <1>1 DEF Walked
<1> QED
  BY <1>1, <1>2, <1>3, <1>4, SilentOnDisk

\* A first commit fails.
LEMMA FailIsFine ==
  ASSUME AInv, IInv', Ready, NEW g, NEW d, NEW o, CommitFails(g, d, o)
  PROVE  Fine
<1>1. disk' = disk /\ op' = NoOp /\ walk' = None
  BY DEF CommitFails
<1>2. Listed \subseteq Live
  BY ReadyState DEF AInv, Rooted
<1>3. op'.stage = "idle" /\ op'.req = NoChange
  BY <1>1 DEF NoOp
<1>4. Walked'
  BY <1>1 DEF Walked
<1> QED
  BY <1>1, <1>2, <1>3, <1>4, SilentOnDisk

LEMMA ReturnIsFine ==
  ASSUME AInv, IInv', Return
  PROVE  Fine
<1>1. disk' = disk /\ op' = NoOp /\ walk' = walk /\ walk = None /\ gstate' = gstate
      /\ op.stage \in {"ready", "end"}
  BY DEF Return, Free
<1>2. gstate'.orphans = 0 => Listed \subseteq Live
  BY <1>1 DEF AInv, Rooted
<1>3. op'.stage = "idle" /\ op'.req = NoChange
  BY <1>1 DEF NoOp
<1>4. Walked'
  BY <1>1 DEF Walked
<1> QED
  BY <1>1, <1>2, <1>3, <1>4, SilentOnDisk

LEMMA RenameDeletedIsFine ==
  ASSUME AInv, IInv', RenameDeleted
  PROVE  Fine
<1>1. disk' = disk /\ walk' = walk /\ walk = None /\ gstate' = gstate
      /\ op.stage = "moved" /\ op' = [op EXCEPT !.stage = "drop", !.cwd = None]
  BY DEF RenameDeleted, Free
<1>2. gstate'.orphans = 0 => Listed \subseteq Live
  BY <1>1 DEF AInv, Rooted
<1>3. op'.stage = "drop" /\ op'.req = op.req /\ op'.vic = op.vic
  BY <1>1 DEF AInv, IInv, TypeOK, Ops
<1>4. Walked'
  BY <1>1 DEF Walked
<1> QED
  BY <1>1, <1>2, <1>3, <1>4, SilentOnDisk

LEMMA BeginGcIsFine ==
  ASSUME AInv, IInv', Ready, BeginGc
  PROVE  Fine
<1>1. disk' = disk /\ walk' = walk /\ walk = None /\ gstate' = gstate
      /\ op' = [Call("gc", "gc", {}, {}) EXCEPT !.new = RootPair]
  BY DEF BeginGc, Ready, Free
<1>2. gstate'.orphans = 0 => Listed \subseteq Live
  BY <1>1 DEF AInv, Rooted
<1>3. op'.stage = "gc" /\ op'.req = NoChange
  BY <1>1 DEF Call, NoOp, NoChange
<1>4. Walked'
  BY <1>1 DEF Walked
<1> QED
  BY <1>1, <1>2, <1>3, <1>4, SilentOnDisk

LEMMA DeorphanIsFine ==
  ASSUME AInv, IInv', Deorphan
  PROVE  Fine
<1>1. disk' = disk /\ walk' = NewWalk(TRUE) /\ gstate' = gstate
      /\ op' = [NoOp EXCEPT !.call = "repair", !.stage = "ready"]
  BY DEF Deorphan
<1>2. gstate'.orphans = 0 => Listed \subseteq Live
  BY <1>1 DEF AInv, Rooted
<1>3. op'.stage = "ready" /\ op'.req = NoChange
  BY <1>1 DEF NoOp
<1>4. Walked'
  <2>1. walk' # None => walk'.powerloss /\ ~walk'.more /\ walk'.pass = 0
    BY <1>1 DEF NewWalk
  <2> QED
    BY <2>1 DEF Walked
<1> QED
  BY <1>1, <1>2, <1>3, <1>4, SilentOnDisk

\* What a commit in place leaves on the disk and in RAM.
LEMMA InPlaceIs ==
  ASSUME TypeOK, NEW m \in Mdirs, NEW log \in Logs, NEW g, NEW d, NEW o \in Ops,
         NEW mine \in BOOLEAN, mine => walk \in Walks,
         CommitInPlace(m, log, g, d, o, None, mine)
  PROVE  /\ \A p \in Pairs \ {m.pair} : disk'[p] = disk[p]
         /\ disk'[m.pair].ents = log.ents /\ disk'[m.pair].tail = log.tail
         /\ gstate' = g /\ gdisk' = g
         /\ op'.stage = o.stage /\ op'.req = o.req /\ op'.cwd = o.cwd /\ op'.name = o.name
         /\ op'.new = o.new /\ op'.vic = (IF Tracked(o) /\ Same(o.vic.pair, m.pair)
                                          THEN [pair |-> m.pair, log |-> disk'[m.pair]] ELSE o.vic)
         /\ ~mine => walk' = walk
         /\ mine => walk'.pdir = [pair |-> m.pair, log |-> disk'[m.pair]]
                    /\ walk'.pass = walk.pass /\ walk'.powerloss = walk.powerloss
                    /\ walk'.more = walk.more
<1>1. PICK copy : copy = [pair |-> m.pair,
               log |-> [log EXCEPT !.delta = Xor(@, Xor(d, Xor(Bits(g), Bits(gdisk))))]]
  OBVIOUS
<1>2. /\ disk' = [disk EXCEPT ![m.pair] = copy.log] /\ gstate' = g /\ gdisk' = g
      /\ op' = Track(o, copy) /\ walk' = Follow(copy, mine)
  BY <1>1 DEF CommitInPlace
<1>3. m.pair \in Pairs /\ disk \in [Pairs -> Logs]
  BY DEF Mdirs, TypeOK
<1>4. copy.log.ents = log.ents /\ copy.log.tail = log.tail /\ copy.pair = m.pair
  BY <1>1 DEF Logs
<1>5. disk'[m.pair] = copy.log /\ copy = [pair |-> m.pair, log |-> disk'[m.pair]]
  BY <1>1, <1>2, <1>3
<1>6. \A p \in Pairs \ {m.pair} : disk'[p] = disk[p]
  BY <1>2, <1>3
<1>7. /\ op'.stage = o.stage /\ op'.req = o.req /\ op'.cwd = o.cwd /\ op'.name = o.name
      /\ op'.new = o.new /\ op'.vic = (IF Tracked(o) /\ Same(o.vic.pair, m.pair) THEN copy ELSE o.vic)
  <2>1. op' = IF Tracked(o) /\ Same(o.vic.pair, m.pair) THEN [o EXCEPT !.vic = copy] ELSE o
    BY <1>2, <1>4 DEF Track
  <2> QED
    BY ONLY <2>1, o \in Ops DEF Ops
<1>8. ~mine => walk' = walk
  BY <1>2 DEF Follow
<1>9. mine => /\ walk'.pdir = copy /\ walk'.pass = walk.pass /\ walk'.powerloss = walk.powerloss
              /\ walk'.more = walk.more
  <2> SUFFICES ASSUME mine PROVE /\ walk'.pdir = copy /\ walk'.pass = walk.pass
                                 /\ walk'.powerloss = walk.powerloss /\ walk'.more = walk.more
    OBVIOUS
  <2>1. walk \in Walks /\ walk' = [walk EXCEPT !.pdir = copy]
    BY <1>2 DEF Follow
  <2> QED
    BY ONLY <2>1 DEF Walks
<1> QED
  BY <1>2, <1>4, <1>5, <1>6, <1>7, <1>8, <1>9

\* A commit that shows nothing new: it may delete the source of the pending move.
LEMMA SilentCommit ==
  ASSUME AInv, IInv', NEW m \in Mdirs, Copy(m), NEW log \in Logs, log.tail = m.log.tail,
         NEW g, g.move = None, g.orphans = 0 => gstate.orphans = 0, NEW d, NEW o \in Ops,
         CommitInPlace(m, log, g, d, o, None, FALSE), walk = None,
         \A n \in Names : log.ents[n] = IF gdisk.move = <<m.pair, n>> THEN None ELSE m.log.ents[n],
         gdisk.move # None => gdisk.move \in GMoves /\ gdisk.move[1] = m.pair,
         o.stage # "attach", o.req = op.req \/ o.req = NoChange,
         o.stage \in {"idle", "deorphan", "ready", "gc"} => o.req = NoChange,
         o.stage \in {"moved", "drop", "end"} =>
           o.req = NoChange \/ (o.req = op.req /\ op.stage \in {"moved", "drop", "end"}),
         o.stage \in {"moved", "drop"} => op.stage \in {"moved", "drop"} /\ o.vic = op.vic
  PROVE  Fine
<1>1. /\ \A p \in Pairs \ {m.pair} : disk'[p] = disk[p]
      /\ disk'[m.pair].ents = log.ents /\ disk'[m.pair].tail = log.tail
      /\ gstate' = g /\ gdisk' = g /\ op'.stage = o.stage /\ op'.req = o.req
      /\ op'.vic = (IF Tracked(o) /\ Same(o.vic.pair, m.pair)
                    THEN [pair |-> m.pair, log |-> disk'[m.pair]] ELSE o.vic)
      /\ walk' = walk
  <2>1. TypeOK /\ FALSE \in BOOLEAN
    BY DEF AInv, IInv
  <2> QED
    BY ZenonT(60), <2>1, InPlaceIs
<1>2. /\ Threaded /\ Listed \subseteq Firsts /\ Listed \subseteq Pairs /\ Live \subseteq Listed
      /\ m.pair \in Listed /\ m.log = disk[m.pair]
  BY ListedPairs, LiveIsFirst DEF AInv, IInv, Copy
<1>3. Listed' = Listed
  <2>1. \A p \in Listed : disk'[p].tail = disk[p].tail
    BY <1>1, <1>2
  <2> QED
    BY <1>2, <2>1, SameList
<1>4. \A a \in Listed, n \in Names :
        disk'[a].ents[n] = IF gdisk.move = <<a, n>> THEN None ELSE disk[a].ents[n]
  <2> TAKE a \in Listed, n \in Names
  <2>1. CASE a = m.pair
    BY <1>1, <1>2, <2>1
  <2>2. CASE a # m.pair
    <3>1. disk'[a] = disk[a]
      BY <1>1, <1>2, <2>2
    <3>2. gdisk.move # <<a, n>>
      <4>1. <<a, n>> \in GMoves
        BY <1>2 DEF GMoves
      <4> QED
        BY <2>2, <4>1, PairsAreDistinct
    <3> QED
      BY <3>1, <3>2
  <2> QED
    BY <2>1, <2>2
<1>5. \A a \in Listed, n \in Names : Hidden(gdisk.move, a, n) <=> gdisk.move = <<a, n>>
  <2> TAKE a \in Listed, n \in Names
  <2>1. CASE gdisk.move = None
    BY <1>2, <2>1, PairsAreDistinct, TreeAssumption DEF Hidden, Firsts, Pairs
  <2>2. CASE gdisk.move # None
    <3>1. gdisk.move = <<gdisk.move[1], gdisk.move[2]>> /\ gdisk.move[1] \in Firsts /\ a \in Firsts
      BY <1>2, <2>2 DEF GMoves
    <3>2. Hidden(gdisk.move, a, n) <=> gdisk.move[1] = a /\ gdisk.move[2] = n
      BY <2>2, <3>1, SameIsEqual DEF Hidden
    <3> QED
      BY <3>1, <3>2
  <2> QED
    BY <2>1, <2>2
<1>6. \A a \in Live, n \in Names : Seen(a, n)' = Seen(a, n)
  <2>1. \A a \in Live, n \in Names : Seen(a, n) = IF Hidden(gdisk.move, a, n) THEN None ELSE disk[a].ents[n]
    BY SeenInLfs DEF SeenFact, AInv
  <2>2. \A a \in Live, n \in Names : Seen(a, n)' = disk'[a].ents[n]
    BY <1>1, SeenInLfsNext DEF SeenFact, Hidden
  <2> QED
    BY <1>2, <1>4, <1>5, <2>1, <2>2
<1>7. \A p \in Listed' \ Live, n \in Names : disk'[p].ents[n] = None
  BY <1>3, <1>4 DEF AInv, Rooted
<1>8. gstate'.orphans = 0 \/ gdisk'.orphans = 0 => Listed' \subseteq Live
  BY <1>1, <1>3 DEF AInv, Rooted
<1>9. op'.stage \in {"moved", "drop"} =>
        /\ op.stage \in {"moved", "drop"}
        /\ op.vic # None => op'.vic # None /\ op'.vic.pair = op.vic.pair
  <2> SUFFICES ASSUME op'.stage \in {"moved", "drop"}
               PROVE  /\ op.stage \in {"moved", "drop"}
                      /\ op.vic # None => op'.vic # None /\ op'.vic.pair = op.vic.pair
    OBVIOUS
  <2>1. op.stage \in {"moved", "drop"} /\ o.vic = op.vic
    BY <1>1
  <2>2. op.vic # None => op.vic.pair \in Firsts
    BY <1>2, <2>1 DEF AInv, IInv, Calling, Moving, Victim, Copy
  <2>3. CASE op'.vic = o.vic
    BY <2>1, <2>3
  <2>4. CASE Tracked(o) /\ Same(o.vic.pair, m.pair) /\ op'.vic = [pair |-> m.pair, log |-> disk'[m.pair]]
    <3>1. op.vic # None /\ op.vic.pair = m.pair
      BY <1>2, <2>1, <2>2, <2>4, SameIsEqual DEF Tracked
    <3>2. op'.vic # None
      <4>1. m.pair \in Pairs /\ disk'[m.pair] \in Logs
        BY <1>2 DEF IInv, TypeOK
      <4> QED
        BY <2>4, <4>1, NoneAssumption DEF Mdirs
    <3> QED
      BY <2>1, <2>4, <3>1, <3>2
  <2> QED
    BY <1>1, <2>1, <2>3, <2>4
<1>10. Walked'
  BY <1>1 DEF Walked
<1> QED
  BY <1>1, <1>3, <1>6, <1>7, <1>8, <1>9, <1>10, SilentStep

LEMMA DemoveIsFine ==
  ASSUME AInv, IInv', PairsStay, Demove
  PROVE  Fine
<1> PICK a : a = gdisk.move[1]
  OBVIOUS
<1> PICK n : n = gdisk.move[2]
  OBVIOUS
<1> PICK m : m = Fetch(a)
  OBVIOUS
<1> PICK log : log = Without(disk[a], n)
  OBVIOUS
<1> PICK g : g = PrepMove(gstate, None)
  OBVIOUS
<1> PICK o : o = [NoOp EXCEPT !.call = "repair", !.stage = "deorphan"]
  OBVIOUS
<1>1. /\ IInv /\ TypeOK /\ Threaded /\ walk = None /\ op = NoOp
      /\ gdisk.move \in GMoves /\ gdisk.move # None
  BY FreshGstates DEF AInv, IInv, Demove, Idle, Free
<1>2. a \in Listed /\ n \in Names /\ gdisk.move = <<a, n>>
  BY <1>1 DEF IInv, Summed, GMoves
<1>3. /\ m \in Mdirs /\ Copy(m) /\ m.pair = a /\ m.log = disk[a]
      /\ disk[a] \in Logs
  BY <1>1, <1>2, FetchIsCopy
<1>4. /\ log \in Logs /\ log.tail = m.log.tail
      /\ \A k \in Names : log.ents[k] = IF gdisk.move = <<m.pair, k>> THEN None ELSE m.log.ents[k]
  BY <1>2, <1>3, WithoutIsLog
<1>8. gdisk.move[1] = m.pair
  BY <1>2, <1>3
<1>5. g.move = None /\ g.orphans = gstate.orphans
  BY <1>1, FreshGstates
<1>6. o \in Ops /\ o.stage = "deorphan" /\ o.call = "repair" /\ o.req = NoChange
  <2>1. "deorphan" \in Stages
    BY DEF Stages
  <2>2. o.req = NoChange
    BY DEF NoOp
  <2> QED
    BY ONLY <2>1, <2>2, o = [NoOp EXCEPT !.call = "repair", !.stage = "deorphan"], RepairIsOp
<1>7. CommitInPlace(m, log, g, gdelta, o, None, FALSE)
  <2>1. Commits(m, log, g, gdelta, o)
    BY DEF Demove
  <2> QED
    BY ONLY PairsStay, <1>6, <2>1, CommitEither
<1> QED
  BY ONLY ZenonT(60), AInv, IInv', <1>1, <1>2, <1>3, <1>4, <1>5, <1>6, <1>7, <1>8, SilentCommit

LEMMA MkConsistentIsFine ==
  ASSUME AInv, IInv', PairsStay, MkConsistent
  PROVE  Fine
<1> PICK m : m = Fetch(RootPair)
  OBVIOUS
<1> PICK o : o = [NoOp EXCEPT !.call = "repair", !.stage = "end"]
  OBVIOUS
<1>1. /\ IInv /\ TypeOK /\ Threaded /\ walk = None
      /\ gdisk.move = None /\ gstate.move = None /\ gstate.orphans = 0
  BY ReadyState DEF AInv, MkConsistent
<1>2. RootPair \in Listed /\ RootPair \in Pairs
  BY <1>1, ListedPairs
<1>3. /\ m \in Mdirs /\ Copy(m) /\ m.pair = RootPair /\ m.log = disk[RootPair]
      /\ disk[RootPair] \in Logs /\ m.log \in Logs
  BY <1>1, <1>2, FetchIsCopy
<1>4. \A k \in Names : gdisk.move # <<m.pair, k>>
  BY <1>1, <1>2, <1>3, PairsAreDistinct DEF GMoves
<1>5. o \in Ops /\ o.stage = "end" /\ o.call = "repair" /\ o.req = NoChange
  <2>1. "end" \in Stages
    BY DEF Stages
  <2>2. o.req = NoChange
    BY DEF NoOp
  <2> QED
    BY ONLY <2>1, <2>2, o = [NoOp EXCEPT !.call = "repair", !.stage = "end"], RepairIsOp
<1>6. CommitInPlace(m, m.log, gstate, gdelta, o, None, FALSE)
  <2>1. Commits(m, m.log, gstate, gdelta, o)
    BY <1>3 DEF MkConsistent
  <2> QED
    BY ONLY PairsStay, <1>5, <2>1, CommitEither
<1> QED
  BY ONLY AInv, IInv', <1>1, <1>2, <1>3, <1>4, <1>5, <1>6, SilentCommit

LEMMA RenameDeleteIsFine ==
  ASSUME AInv, IInv', PairsStay, RenameDelete
  PROVE  Fine
<1> PICK m : m = op.cwd
  OBVIOUS
<1> PICK n : n = op.name
  OBVIOUS
<1> PICK log : log = Without(m.log, n)
  OBVIOUS
<1> PICK g : g = PrepMove(gstate, None)
  OBVIOUS
<1> PICK o : o = [op EXCEPT !.stage = "drop", !.cwd = None]
  OBVIOUS
<1>1. /\ IInv /\ TypeOK /\ op \in Ops /\ walk = None /\ op.stage = "moved" /\ m # None
      /\ Copy(m) /\ gdisk.move = <<m.pair, n>> /\ gdisk.move \in GMoves
  <2>1. gdisk.move # None /\ gdisk.move \in GMoves
    BY FreshGstates DEF AInv, IInv, Summed, RenameDelete
  <2> QED
    BY <2>1 DEF AInv, IInv, TypeOK, Calling, Moving, RenameDelete, Free
<1>2. m \in Mdirs /\ m.log \in Logs /\ n \in Names /\ gdisk.move[1] = m.pair
  BY <1>1 DEF Ops, Mdirs, GMoves
<1>3. /\ log \in Logs /\ log.tail = m.log.tail
      /\ \A k \in Names : log.ents[k] = IF gdisk.move = <<m.pair, k>> THEN None ELSE m.log.ents[k]
  BY <1>1, <1>2, WithoutIsLog
<1>4. g.move = None /\ g.orphans = gstate.orphans
  BY <1>1, FreshGstates
<1>5. o \in Ops /\ o.stage = "drop" /\ o.req = op.req /\ o.vic = op.vic
  BY <1>1 DEF Ops, Stages
<1>6. CommitInPlace(m, log, g, gdelta, o, None, FALSE)
  <2>1. Commits(m, log, g, gdelta, o)
    BY DEF RenameDelete
  <2> QED
    BY ONLY PairsStay, <1>1, <2>1, CommitEither
<1> QED
  BY ONLY ZenonT(60), AInv, IInv', <1>1, <1>2, <1>3, <1>4, <1>5, <1>6, SilentCommit

LEMMA GcIsFine ==
  ASSUME AInv, IInv', PairsStay, Gc
  PROVE  Fine
<1> PICK m : m = Fetch(op.new)
  OBVIOUS
<1> PICK o : o = [op EXCEPT !.new = m.log.tail,
                            !.stage = IF m.log.tail = None THEN "end" ELSE "gc"]
  OBVIOUS
<1>1. /\ IInv /\ TypeOK /\ Threaded /\ op \in Ops /\ op.stage = "gc" /\ op.new \in Listed
      /\ gdisk.move = None /\ gstate.move = None /\ gstate.orphans = 0 /\ walk = None
  BY DEF AInv, IInv, Calling, Summed, TypeOK, Gc, Free
<1>2. /\ m \in Mdirs /\ Copy(m) /\ m.pair = op.new /\ m.log = disk[op.new] /\ m.log \in Logs
  BY <1>1, FetchIsCopy
<1>3. m.log.tail \in Pairs \cup {None}
  BY <1>1, <1>2, ListedPairs
<1>4. o \in Ops /\ o.stage \in {"gc", "end"} /\ o.req = op.req
  BY ZenonT(60), <1>1, <1>3 DEF Ops, Stages
<1>5. op.req = NoChange
  BY <1>1 DEF AInv, Asked
<1>6. CASE /\ op' = o /\ fault' = "none"
           /\ UNCHANGED <<disk, gstate, gdisk, gdelta, loc, walk, moves>>
  <2>1. Listed \subseteq Live
    BY <1>1 DEF AInv, Rooted
  <2>2. Walked'
    BY <1>1, <1>6 DEF Walked
  <2> QED
    BY <1>4, <1>5, <1>6, <2>1, <2>2, SilentOnDisk
<1>7. CASE Commits(m, m.log, gstate, gdelta, o)
  <2>1. CommitInPlace(m, m.log, gstate, gdelta, o, None, FALSE)
    BY <1>1, <1>7, CommitEither
  <2>2. \A k \in Names : gdisk.move # <<m.pair, k>>
    <3>1. m.pair \in Pairs
      BY <1>2 DEF Mdirs
    <3> QED
      BY <1>1, <3>1, PairsAreDistinct DEF GMoves
  <2> QED
    BY ONLY AInv, IInv', <1>1, <1>2, <1>4, <1>5, <2>1, <2>2, SilentCommit
<1> QED
  BY <1>6, <1>7 DEF Gc

-----------------------------------------------------------------------------
(***************************************************************************)
(* Repair: what the walk takes out of the list, no path leads to.          *)
(***************************************************************************)

LEMMA LiveHasParent ==
  ASSUME IInv, NEW t \in Live \ {RootPair}
  PROVE  Parent(t) # None
<1>1. LiveIsReached /\ SeenIsOne /\ Live \subseteq Listed
  BY LiveIsSeen DEF LiveFacts, LiveIsReached
<1> PICK C : C = Live \ {t}
  OBVIOUS
<1>2. PICK a \in C \cap Live, n \in Names : Seen(a, n) \in Pairs /\ Seen(a, n) \notin C
  <2>1. RootPair \in C /\ ~ Live \subseteq C
    BY <1>1 DEF LiveIsReached
  <2> QED
    BY <1>1, <2>1 DEF LiveIsReached
<1>3. Seen(a, n) = t
  BY <1>1, <1>2 DEF LiveIsReached
<1>4. t \in Pairs /\ t # None
  BY <1>2, <1>3, PairsAreDistinct
<1>5. disk[a].ents[n] = t /\ ~Hidden(gdisk.move, a, n)
  BY <1>3, <1>4, SeenInLfs DEF SeenFact
<1>6. Refers(a, n, t) /\ a \in Listed
  BY <1>1, <1>4, <1>5 DEF Refers, Same
<1>7. Threaded
  BY DEF IInv
<1> QED
  BY <1>5, <1>6, <1>7, ParentRefers

LEMMA ParentIsLive ==
  ASSUME AInv, NEW t \in Listed, Parent(t) # None
  PROVE  t \in Live
<1>1. IInv /\ Threaded /\ Entered
  BY DEF AInv, IInv
<1> PICK p : p = Parent(t)
  OBVIOUS
<1>2. PICK n \in Names : Refers(p, n, t) /\ ~Hidden(gdisk.move, p, n)
  BY <1>1, ParentRefers
<1>3. p \in Listed
  BY <1>1, ParentRefers
<1>4. disk[p].ents[n] = t
  <2>1. disk[p].ents[n] \in Firsts /\ t \in Firsts
    BY <1>1, <1>2, <1>3, ListedPairs DEF Entered, Refers
  <2> QED
    BY <1>2, <2>1, SameIsEqual DEF Refers
<1>5. t \in Pairs /\ t # None
  BY <1>1, ListedPairs, PairsAreDistinct
<1>6. p \in Live
  BY <1>3, <1>4, <1>5 DEF AInv, Rooted
<1>7. Seen(p, n) = t
  BY <1>1, <1>2, <1>4, SeenInLfs DEF SeenFact
<1> QED
  BY <1>1, <1>5, <1>6, <1>7, LiveIsSeen DEF LiveFacts, LiveIsReached

\* Who follows the tails from the root to the end has seen the whole list.
LEMMA TailsReachAll ==
  ASSUME Threaded, NEW A, RootPair \in A,
         \A p \in A \cap Listed : disk[p].tail \in A \cup {None}
  PROVE  Listed \subseteq A
<1> PICK n \in Nat \ {0} : \E s : IsList(s, n)
  BY ThreadedIsList
<1> PICK s : IsList(s, n)
  OBVIOUS
<1>1. Listed = {s[i] : i \in 1 .. n}
  BY ListIsListed
<1>2. /\ s \in [1 .. n -> Firsts] /\ s[1] = RootPair
      /\ \A i \in 1 .. n - 1 : disk[s[i]].tail = s[i + 1]
  BY DEF IsList
<1> PICK D : D = {i \in 1 .. n : s[i] \notin A}
  OBVIOUS
<1>3. ASSUME D # {} PROVE FALSE
  <2>1. D \in SUBSET Nat
    OBVIOUS
  <2>2. PICK i \in D : \A j \in D : i <= j
    BY <1>3, <2>1, Least
  <2>3. i # 1 /\ i \in 1 .. n
    BY <1>2, <2>2
  <2>4. PICK j \in 1 .. n - 1 : j + 1 = i /\ j \in 1 .. n /\ j \notin D
    <3>1. i - 1 \in 1 .. n - 1 /\ (i - 1) + 1 = i /\ i - 1 \in 1 .. n /\ i - 1 \notin D
      BY <2>2, <2>3
    <3> QED
      BY <3>1
  <2>5. s[j] \in A \cap Listed /\ disk[s[j]].tail = s[i]
    BY <1>1, <1>2, <2>4
  <2>6. s[i] # None
    BY <1>2, <2>3, PairsAreDistinct
  <2> QED
    BY <2>2, <2>5, <2>6
<1> QED
  BY <1>1, <1>3

LEMMA LiveOnDisk ==
  ASSUME IInv, IInv', disk' = disk
  PROVE  Live' = Live
<1>1. DiskMove' = DiskMove
  BY DiskStays DEF DiskMove
<1>2. \A a \in Live, n \in Names : Seen(a, n)' = Seen(a, n)
  BY <1>1 DEF Seen, Hidden, Same
<1> QED
  BY <1>2, NothingChanges

LEMMA WalkOnIsFine ==
  ASSUME AInv, IInv', WalkOn
  PROVE  Fine
<1> PICK t : t = AheadOf(walk)
  OBVIOUS
<1> PICK m : m = walk.pdir
  OBVIOUS
<1>1. /\ IInv /\ walk # None /\ t \in Listed \ {RootPair} /\ walk \in Walks /\ op.stage = "ready"
      /\ Copy(m) /\ disk[m.pair].tail = t /\ m.pair # t
  BY WalkState DEF AInv, WalkOn, Walking, AheadOf
<1>2. Fetch(t) \in Mdirs /\ Fetch(t).pair = t
  BY <1>1, FetchIsCopy DEF IInv
<1>3. /\ disk' = disk /\ op' = op /\ gstate' = gstate
      /\ walk' = [walk EXCEPT !.pdir = Fetch(t)]
  BY DEF WalkOn
<1>4. /\ walk'.pdir = Fetch(t) /\ walk'.pass = walk.pass /\ walk'.powerloss = walk.powerloss
      /\ walk'.more = walk.more
  BY <1>1, <1>3 DEF Walks
<1>5. walk.powerloss /\ ~walk.more
  BY <1>1 DEF AInv, Walked
<1>6. Walked'
  <2>1. CASE walk.pass = 1
    <3>1. t \in Live
      <4>1. Parent(t) # None
        BY <1>5, <2>1 DEF WalkOn, FullOrphan
      <4> QED
        BY <1>1, <4>1, ParentIsLive
    <3>2. PICK A \in SUBSET Live :
            /\ RootPair \in A /\ m.pair \in A /\ A \subseteq Listed
            /\ \A p \in A \ {m.pair} : disk[p].tail \in A
      BY <1>1, <2>1 DEF AInv, Walked
    <3> PICK B : B = A \cup {t}
      OBVIOUS
    <3>3. /\ RootPair \in B /\ t \in B /\ B \subseteq Listed /\ B \in SUBSET Live
          /\ \A p \in B \ {t} : disk[p].tail \in B
      BY <1>1, <3>1, <3>2
    <3>4. Listed' = Listed /\ Live' = Live
      BY <1>1, <1>3, DiskStays, LiveOnDisk
    <3>5. \E S \in SUBSET Live' :
            /\ RootPair \in S /\ walk'.pdir.pair \in S /\ S \subseteq Listed'
            /\ \A p \in S \ {walk'.pdir.pair} : disk'[p].tail \in S
      BY <1>2, <1>3, <1>4, <3>3, <3>4
    <3> QED
      BY <1>4, <1>5, <3>5 DEF Walked
  <2>2. CASE walk.pass # 1
    BY <1>4, <1>5, <2>2 DEF Walked
  <2> QED
    BY <2>1, <2>2
<1>7. op.req = NoChange
  BY <1>1 DEF AInv, Asked
<1>8. gstate'.orphans = 0 => Listed \subseteq Live
  BY <1>3 DEF AInv, Rooted
<1> QED
  BY <1>1, <1>3, <1>6, <1>7, <1>8, SilentOnDisk

LEMMA EndPassIsFine ==
  ASSUME AInv, IInv', EndPass
  PROVE  Fine
<1> PICK m : m = walk.pdir
  OBVIOUS
<1>1. /\ IInv /\ Threaded /\ TypeOK /\ walk # None /\ walk \in Walks /\ op.stage = "ready"
      /\ Copy(m) /\ disk[m.pair].tail = None
  BY WalkState DEF AInv, IInv, EndPass, Copy
<1>2. disk' = disk /\ op' = op
  BY DEF EndPass
<1>3. walk.powerloss /\ ~walk.more /\ walk.pass \in {0, 1}
  BY <1>1 DEF AInv, Walked, Walks
<1>4. op.req = NoChange
  BY <1>1 DEF AInv, Asked
<1>5. CASE walk.pass = 1
  <2>1. walk' = None
    BY <1>3, <1>5 DEF EndPass
  <2>2. PICK A \in SUBSET Live :
          /\ RootPair \in A /\ m.pair \in A /\ A \subseteq Listed
          /\ \A p \in A \ {m.pair} : disk[p].tail \in A
    BY <1>1, <1>5 DEF AInv, Walked
  <2>3. Listed \subseteq A
    <3>1. \A p \in A \cap Listed : disk[p].tail \in A \cup {None}
      BY <1>1, <2>2
    <3> QED
      BY <1>1, <2>2, <3>1, TailsReachAll
  <2>4. Listed \subseteq Live
    BY <2>3
  <2>5. Walked'
    BY <2>1 DEF Walked
  <2> QED
    BY <1>1, <1>2, <1>4, <2>4, <2>5, SilentOnDisk
<1>6. CASE walk.pass = 0
  <2>1. /\ gstate' = gstate
        /\ walk' = [walk EXCEPT !.pass = 1, !.more = FALSE, !.pdir = Fetch(RootPair)]
    BY <1>3, <1>6 DEF EndPass
  <2>2. RootPair \in Listed /\ Fetch(RootPair).pair = RootPair
    BY <1>1, ListedPairs DEF Fetch
  <2>3. walk'.pdir.pair = RootPair /\ walk'.powerloss = walk.powerloss /\ ~walk'.more
    BY <1>1, <2>1, <2>2 DEF Walks
  <2>4. Listed' = Listed /\ Live' = Live /\ RootPair \in Live
    BY <1>1, <1>2, DiskStays, LiveOnDisk, LiveIsSeen DEF LiveFacts, LiveIsReached
  <2>5. \E S \in SUBSET Live' :
          /\ RootPair \in S /\ walk'.pdir.pair \in S /\ S \subseteq Listed'
          /\ \A p \in S \ {walk'.pdir.pair} : disk'[p].tail \in S
    <3> PICK B : B = {RootPair}
      OBVIOUS
    <3>1. /\ B \in SUBSET Live' /\ RootPair \in B /\ walk'.pdir.pair \in B /\ B \subseteq Listed'
          /\ \A p \in B \ {walk'.pdir.pair} : disk'[p].tail \in B
      BY <2>2, <2>3, <2>4
    <3> QED
      BY <3>1
  <2>6. Walked'
    BY <1>3, <2>3, <2>5 DEF Walked
  <2>7. gstate'.orphans = 0 => Listed \subseteq Live
    BY <2>1 DEF AInv, Rooted
  <2> QED
    BY <1>1, <1>2, <1>4, <2>6, <2>7, SilentOnDisk
<1> QED
  BY <1>3, <1>5, <1>6

\* A pair that no path leads to is taken out of the list.
LEMMA SilentRemoval ==
  ASSUME AInv, IInv', gdisk.move = None, gdisk'.move = None,
         NEW x \in Listed, NEW y \in Listed \ Live, x # y,
         disk[x].tail = y, disk'[x].tail = disk[y].tail, disk'[x].ents = disk[x].ents,
         \A p \in Pairs \ {x} : disk'[p] = disk[p]
  PROVE  /\ Listed' = Listed \ {y} /\ Live' = Live
         /\ \A a \in Live, n \in Names : Seen(a, n)' = Seen(a, n)
         /\ \A p \in Listed' \ Live, n \in Names : disk'[p].ents[n] = None
<1>1. IInv /\ Threaded /\ Listed \subseteq Pairs /\ Live \subseteq Listed
  BY ListedPairs, LiveIsFirst DEF AInv, IInv
<1>2. Listed' = Listed \ {y}
  <2>1. \A p \in Listed \ {x, y} : disk'[p].tail = disk[p].tail
    BY <1>1
  <2>2. y \in Listed
    OBVIOUS
  <2> QED
    BY <1>1, <2>1, <2>2, RemovedFromList
<1>3. \A p \in Listed : disk'[p].ents = disk[p].ents
  BY <1>1
<1>4. \A a \in Live, n \in Names : Seen(a, n)' = Seen(a, n)
  <2>1. \A a \in Live, n \in Names : Seen(a, n) = disk[a].ents[n]
    BY <1>1, SeenInLfs DEF SeenFact, Hidden
  <2>2. \A a \in Live, n \in Names : Seen(a, n)' = disk'[a].ents[n]
    BY SeenInLfsNext DEF SeenFact, Hidden
  <2> QED
    BY <1>1, <1>3, <2>1, <2>2
<1>5. Live' = Live
  BY <1>1, <1>4, NothingChanges
<1>6. \A p \in Listed' \ Live, n \in Names : disk'[p].ents[n] = None
  BY <1>2, <1>3 DEF AInv, Rooted
<1> QED
  BY <1>2, <1>4, <1>5, <1>6

LEMMA FixOrphanIsFine ==
  ASSUME AInv, IInv', PairsStay, FixOrphan
  PROVE  Fine
<1> PICK t : t = AheadOf(walk)
  OBVIOUS
<1> PICK m : m = walk.pdir
  OBVIOUS
<1> PICK log : log = [m.log EXCEPT !.tail = disk[t].tail]
  OBVIOUS
<1> PICK d : d = Xor(gdelta, disk[t].delta)
  OBVIOUS
<1>1. /\ IInv /\ TypeOK /\ Threaded /\ op \in Ops
      /\ walk # None /\ walk \in Walks /\ m \in Mdirs /\ Copy(m)
      /\ op.stage = "ready" /\ op.call = "repair"
      /\ gdisk.move = None /\ gstate.move = None
      /\ t \in Listed \ {RootPair} /\ disk[m.pair].tail = t /\ m.pair # t
  BY WalkState DEF AInv, IInv, TypeOK, FixOrphan, Walking, AheadOf
<1>2. log \in Logs /\ log.tail = disk[t].tail /\ log.ents = m.log.ents
  <2>1. m.log \in Logs
    BY <1>1 DEF Mdirs
  <2>2. disk[t].tail \in Pairs \cup {None}
    BY <1>1, ListedPairs
  <2> QED
    BY <2>1, <2>2 DEF Logs
<1>3. CommitInPlace(m, log, gstate, d, op, None, TRUE)
  <2>1. Commit(m, log, gstate, d, op, None, FALSE, TRUE)
    BY DEF FixOrphan
  <2> QED
    BY <1>1, <2>1 DEF PairsStay, Commit, CommitMoved, CommitFails
<1>4. /\ \A p \in Pairs \ {m.pair} : disk'[p] = disk[p]
      /\ disk'[m.pair].ents = log.ents /\ disk'[m.pair].tail = log.tail
      /\ gstate' = gstate /\ gdisk' = gstate
      /\ op'.stage = op.stage /\ op'.req = op.req
      /\ walk'.pdir = [pair |-> m.pair, log |-> disk'[m.pair]]
      /\ walk'.pass = walk.pass /\ walk'.powerloss = walk.powerloss /\ walk'.more = walk.more
  <2> PICK mine \in BOOLEAN : mine
    OBVIOUS
  <2> PICK o \in Ops : o = op
    BY <1>1
  <2>1. CommitInPlace(m, log, gstate, d, o, None, mine)
    BY <1>3 DEF CommitInPlace, Follow
  <2>2. /\ TypeOK /\ m \in Mdirs /\ log \in Logs /\ o \in Ops /\ mine \in BOOLEAN
        /\ mine => walk \in Walks
    BY <1>1, <1>2
  <2>3. /\ \A p \in Pairs \ {m.pair} : disk'[p] = disk[p]
        /\ disk'[m.pair].ents = log.ents /\ disk'[m.pair].tail = log.tail
        /\ gstate' = gstate /\ gdisk' = gstate
        /\ op'.stage = o.stage /\ op'.req = o.req
        /\ mine => /\ walk'.pdir = [pair |-> m.pair, log |-> disk'[m.pair]]
                   /\ walk'.pass = walk.pass /\ walk'.powerloss = walk.powerloss
                   /\ walk'.more = walk.more
    BY ONLY <2>1, <2>2, InPlaceIs
  <2> QED
    BY <2>3
<1>5. m.pair \in Listed /\ m.log = disk[m.pair] /\ walk'.pdir.pair = m.pair
  BY <1>1, <1>4 DEF Copy
<1>6. t \notin Live
  BY <1>1, LiveHasParent DEF FixOrphan, FullOrphan
<1>7. /\ Listed' = Listed \ {t} /\ Live' = Live
      /\ \A a \in Live, n \in Names : Seen(a, n)' = Seen(a, n)
      /\ \A p \in Listed' \ Live, n \in Names : disk'[p].ents[n] = None
  BY <1>1, <1>2, <1>4, <1>5, <1>6, SilentRemoval
<1>8. Walked'
  <2>1. walk.powerloss /\ ~walk.more
    BY <1>1 DEF AInv, Walked
  <2>2. PICK A \in SUBSET Live :
          /\ RootPair \in A /\ m.pair \in A /\ A \subseteq Listed
          /\ \A p \in A \ {m.pair} : disk[p].tail \in A
    BY <1>1 DEF AInv, Walked, FixOrphan, FullOrphan
  <2>3. A \subseteq Listed' /\ A \in SUBSET Live'
    BY <1>6, <1>7, <2>2
  <2>4. \A p \in A \ {m.pair} : disk'[p].tail \in A
    <3>1. A \subseteq Pairs
      BY <1>1, <2>2, ListedPairs
    <3> QED
      BY <1>4, <2>2, <3>1
  <2>5. \E S \in SUBSET Live' :
          /\ RootPair \in S /\ walk'.pdir.pair \in S /\ S \subseteq Listed'
          /\ \A p \in S \ {walk'.pdir.pair} : disk'[p].tail \in S
    BY <1>5, <2>2, <2>3, <2>4
  <2> QED
    BY <1>4, <2>1, <2>5 DEF Walked
<1>9. gstate'.orphans = 0 \/ gdisk'.orphans = 0 => Listed' \subseteq Live
  BY <1>4, <1>7 DEF AInv, Rooted
<1>10. op.req = NoChange
  BY <1>1 DEF AInv, Asked
<1> QED
  BY <1>1, <1>4, <1>7, <1>8, <1>9, <1>10, SilentStep

LEMMA DropIsFine ==
  ASSUME AInv, IInv', PairsStay, Drop
  PROVE  Fine
<1> PICK v : v = op.vic
  OBVIOUS
<1> PICK o : o = [op EXCEPT !.stage = "end", !.vic = None]
  OBVIOUS
<1>1. /\ IInv /\ TypeOK /\ Threaded /\ op \in Ops /\ walk = None
      /\ op.stage = "drop" /\ Victim /\ gdelta = {}
      /\ gdisk.move = None /\ gstate.move = None
  BY DEF AInv, IInv, TypeOK, Calling, Summed, Drop, Free
<1>2. o \in Ops /\ o.stage = "end" /\ o.vic = None /\ o.req = op.req
  BY <1>1 DEF Ops, Stages
<1>3. gstate.orphans \in 0 .. 1 /\ gstate \in Gstates
  BY <1>1, FreshGstates
<1>4. CASE gstate.orphans = 0
  <2>1. /\ op' = o /\ disk' = disk /\ gstate' = gstate /\ walk' = walk
    BY <1>4 DEF Drop
  <2>2. Listed \subseteq Live
    BY <1>4 DEF AInv, Rooted
  <2>3. Walked'
    BY <1>1, <2>1 DEF Walked
  <2> QED
    BY <1>1, <1>2, <2>1, <2>2, <2>3, SilentOnDisk
<1>5. CASE gstate.orphans = 1
  <2> PICK y : y = v.pair
    OBVIOUS
  <2> PICK q : q = Pred(y)
    OBVIOUS
  <2> PICK m : m = Fetch(q)
    OBVIOUS
  <2> PICK log : log = [disk[q] EXCEPT !.tail = v.log.tail]
    OBVIOUS
  <2> PICK g : g = PrepOrphans(gstate, -1)
    OBVIOUS
  <2> PICK d : d = Xor(gdelta, v.log.delta)
    OBVIOUS
  <2>1. /\ v # None /\ y \in Listed \ {RootPair} /\ v.log = disk[y] /\ Unreferred(y)
    BY <1>1, <1>5 DEF Victim, Copy
  <2>2. q \in Listed /\ disk[q].tail = y
    BY <1>1, <2>1, PredPrecedes
  <2>3. /\ m \in Mdirs /\ m.pair = q /\ disk[q] \in Logs /\ q \in Pairs
        /\ q # None /\ q # y
    BY <1>1, <2>2, FetchIsCopy, PairsAreDistinct, ListedPairs
  <2>4. g.orphans = 0 /\ g.move = None
    BY <1>1, <1>5, FreshGstates
  <2>5. log \in Logs /\ log.tail = disk[y].tail /\ log.ents = disk[q].ents
    <3>1. disk[y].tail \in Pairs \cup {None}
      BY <1>1, <2>1, ListedPairs
    <3> QED
      BY <2>1, <2>3, <3>1 DEF Logs
  <2>6. CommitInPlace(m, log, g, d, o, None, FALSE)
    <3>1. Commits(m, log, g, d, o)
      BY <1>5, <2>1, <2>3 DEF Drop
    <3> QED
      BY ONLY PairsStay, <1>1, <3>1, CommitEither
  <2>7. /\ \A p \in Pairs \ {q} : disk'[p] = disk[p]
        /\ disk'[q].ents = log.ents /\ disk'[q].tail = log.tail
        /\ gstate' = g /\ gdisk' = g
        /\ op'.stage = "end" /\ op'.req = op.req /\ walk' = walk
    <3>1. FALSE \in BOOLEAN
      OBVIOUS
    <3> QED
      BY ONLY ZenonT(60), <1>1, <1>2, <2>3, <2>5, <2>6, <3>1, InPlaceIs
  <2>8. y \notin Live
    <3>1. Parent(y) = None
      BY <1>1, <2>1, ParentRefers, ListedPairs, SameIsEqual DEF Unreferred, Refers, AInv, IInv, Entered
    <3> QED
      BY <1>1, <2>1, <3>1, LiveHasParent
  <2>9. /\ Listed' = Listed \ {y} /\ Live' = Live
        /\ \A a \in Live, n \in Names : Seen(a, n)' = Seen(a, n)
        /\ \A p \in Listed' \ Live, n \in Names : disk'[p].ents[n] = None
    BY <1>1, <2>1, <2>2, <2>3, <2>4, <2>5, <2>7, <2>8, SilentRemoval
  <2>10. Listed' \subseteq Live
    <3>1. \A p \in Listed \ Live : p = y
      BY <1>1 DEF AInv, Rooted
    <3> QED
      BY <2>9, <3>1
  <2>11. Walked'
    BY <1>1, <2>7 DEF Walked
  <2> QED
    BY <1>1, <2>7, <2>9, <2>10, <2>11, SilentStep
<1> QED
  BY <1>3, <1>4, <1>5

-----------------------------------------------------------------------------
(***************************************************************************)
(* The calls, in the terms of AtomicTree.                                  *)
(***************************************************************************)

\* What the entries of a pair are as ends of edges.
LEMMA IdIsEnd ==
  ASSUME IInv, NEW a \in Live, NEW n \in Names
  PROVE  /\ Seen(a, n) \in Pairs => Seen(a, n) \in Firsts \ {RootPair}
         /\ Seen(a, n) \in Pairs => Id(Seen(a, n)) = Seen(a, n)[1] /\ Seen(a, n)[1] \in Dirs
         /\ Seen(a, n) \notin Pairs /\ Seen(a, n) # None =>
              Id(Seen(a, n)) = Seen(a, n) /\ Seen(a, n) \in Files /\ Seen(a, n) \notin Dirs
<1> PICK e : e = Seen(a, n)
  OBVIOUS
<1>1. e \in Files \cup Listed \cup {None} /\ e # RootPair /\ Listed \subseteq Firsts
  BY LiveIsFirst, LiveIsSeen, ListedPairs DEF LiveFacts, SeenIsOne, IInv
<1>2. e \in Pairs => e \in Firsts \ {RootPair}
  BY <1>1, PairsAreDistinct
<1>3. e \in Pairs => Id(e) = e[1] /\ e[1] \in Dirs
  BY <1>2 DEF Id, Firsts, Pairs, RootPair
<1>4. e \notin Pairs /\ e # None => Id(e) = e /\ e \in Files /\ e \notin Dirs
  BY <1>1, PairsAreDistinct, TreeAssumption DEF Id
<1> QED
  BY <1>2, <1>3, <1>4

LEMMA LiveIsDir ==
  ASSUME IInv, NEW a \in Live
  PROVE  Atomic!IsDir(Shown, a[1]) /\ a[1] \in Dirs \cup {Root}
<1>1. LiveIsReached /\ ShownIsSeen /\ a \in Pairs
  BY LiveIsSeen, LiveIsFirst, PairsAreDistinct DEF LiveFacts
<1>2. CASE a = RootPair
  BY <1>2 DEF Atomic!IsDir, RootPair
<1>3. CASE a # RootPair
  <2> PICK C : C = Live \ {a}
    OBVIOUS
  <2>1. RootPair \in C /\ ~ Live \subseteq C
    BY <1>1, <1>3 DEF LiveIsReached
  <2>2. PICK b \in C \cap Live, k \in Names : Seen(b, k) \in Pairs /\ Seen(b, k) \notin C
    BY <1>1, <2>1 DEF LiveIsReached
  <2>3. Seen(b, k) = a /\ Seen(b, k) # None
    BY <1>1, <2>2, PairsAreDistinct DEF LiveIsReached
  <2>4. Id(Seen(b, k)) = a[1]
    BY <2>2, <2>3, IdIsEnd
  <2>5. <<b[1], k, a[1]>> \in Shown
    BY <1>1, <2>2, <2>3, <2>4 DEF ShownIsSeen
  <2> QED
    BY <1>1, <2>5 DEF Atomic!IsDir, Pairs
<1> QED
  BY <1>1, <1>2, <1>3 DEF Pairs

\* What is shown of one place, and of one directory.
LEMMA ShownHere ==
  ASSUME IInv, NEW a \in Live, NEW n \in Names
  PROVE  /\ Seen(a, n) # None => <<a[1], n, Id(Seen(a, n))>> \in Shown
         /\ Atomic!At(Shown, a[1], n) =
              IF Seen(a, n) = None THEN {} ELSE {<<a[1], n, Id(Seen(a, n))>>}
<1>1. Seen(a, n) # None => <<a[1], n, Id(Seen(a, n))>> \in Shown
  BY LiveIsSeen DEF LiveFacts, ShownIsSeen
<1>2. \A x \in Shown : x[1] = a[1] /\ x[2] = n => Seen(a, n) # None /\ x = <<a[1], n, Id(Seen(a, n))>>
  BY ShownAt
<1> QED
  BY <1>1, <1>2 DEF Atomic!At

LEMMA EmptyIsEmpty ==
  ASSUME IInv, NEW a \in Live, \A k \in Names : Seen(a, k) = None
  PROVE  Atomic!IsEmpty(Shown, a[1])
<1>1. \A x \in Shown : x[2] \in Names
  BY LiveIsSeen DEF LiveFacts, ShownIsSeen
<1>2. \A x \in Shown : x[1] # a[1]
  BY <1>1, ShownAt
<1> QED
  BY <1>2 DEF Atomic!IsEmpty

\* A call begins and has its effect.
LEMMA BegunIsFine ==
  ASSUME AInv, IInv', Ready, op'.stage \in {"moved", "drop", "end"}, walk' = None,
         op'.req # NoChange,
         op'.req \in Atomic!Creations(Shown) \cup Atomic!Removals(Shown) \cup Atomic!Moves(Shown),
         Shown' = (Shown \ op'.req.del) \cup op'.req.add,
         \A p \in Listed' \ Live', n \in Names : disk'[p].ents[n] = None,
         gstate'.orphans = 0 \/ gdisk'.orphans = 0 => Listed' \subseteq Live',
         op'.stage \in {"moved", "drop"} =>
           \A p \in Listed' \ Live' : op'.vic # None /\ p = op'.vic.pair
  PROVE  Fine
<1>1. op.req = NoChange
  BY ReadyState DEF AInv, Asked
<1>2. Asked'
  BY DEF Asked
<1>3. Answered'
  <2>1. op'.req.del \cap Shown' \subseteq op'.req.add /\ op'.req.add \subseteq Shown'
    BY ONLY Shown' = (Shown \ op'.req.del) \cup op'.req.add
  <2> QED
    BY <2>1 DEF Answered
<1>4. Rooted'
  <2>1. OrphanBit \in DiskBits' <=> gdisk'.orphans # 0
    BY SeenInLfsNext DEF SeenFact
  <2> QED
    BY <2>1 DEF Rooted
<1>5. Walked'
  BY DEF Walked
<1>6. Atomic!Begin
  BY <1>1 DEF Atomic!Begin, Atomic!NoChange, NoChange, Atomic!Apply
<1> QED
  BY <1>2, <1>3, <1>4, <1>5, <1>6 DEF Fine, Atomic!Next

LEMMA ReadyIsRooted ==
  ASSUME AInv, Ready
  PROVE  /\ IInv /\ TypeOK /\ Threaded /\ Entered /\ walk = None /\ op.req = NoChange
         /\ gdisk.move = None /\ gstate.move = None /\ gstate.orphans = 0
         /\ op.stage \in {"idle", "ready"}
         /\ Listed = Live /\ Listed \subseteq Firsts /\ Listed \subseteq Pairs
         /\ \A a \in Listed, n \in Names : Seen(a, n) = disk[a].ents[n]
<1>1. /\ IInv /\ TypeOK /\ Threaded /\ Entered /\ walk = None
      /\ gdisk.move = None /\ gstate.move = None /\ gstate.orphans = 0
      /\ op.stage \in {"idle", "ready"}
  BY ReadyState DEF AInv
<1>2. Listed = Live /\ op.req = NoChange
  BY <1>1, LiveIsFirst DEF AInv, Rooted, Asked
<1>3. \A a \in Listed, n \in Names : Seen(a, n) = disk[a].ents[n]
  BY <1>1, SeenInLfs DEF SeenFact, Hidden
<1> QED
  BY <1>1, <1>2, <1>3, ListedPairs

\* What a commit of a call leaves.
Left(m, log, g, o) ==
  /\ \A p \in Pairs \ {m.pair} : disk'[p] = disk[p]
  /\ disk'[m.pair].ents = log.ents /\ disk'[m.pair].tail = log.tail
  /\ gstate' = g /\ gdisk' = g /\ walk' = walk
  /\ op'.stage = o.stage /\ op'.req = o.req
  /\ op'.vic = (IF Tracked(o) /\ Same(o.vic.pair, m.pair)
                THEN [pair |-> m.pair, log |-> disk'[m.pair]] ELSE o.vic)

LEMMA CommitLeaves ==
  ASSUME TypeOK, NEW m \in Mdirs, NEW log \in Logs, NEW g, NEW d, NEW o \in Ops,
         CommitInPlace(m, log, g, d, o, None, FALSE)
  PROVE  Left(m, log, g, o)
<1> PICK mine \in BOOLEAN : ~mine
  OBVIOUS
<1>1. CommitInPlace(m, log, g, d, o, None, mine)
  BY DEF CommitInPlace, Follow
<1> QED
  BY ONLY TypeOK, m \in Mdirs, log \in Logs, o \in Ops, mine \in BOOLEAN, ~mine, <1>1, InPlaceIs DEF Left

LEMMA CreateIsFine ==
  ASSUME AInv, IInv', PairsStay, NEW a \in Live, NEW n \in Names, NEW f \in Files, Create(a, n, f)
  PROVE  Fine
<1> PICK m : m = Fetch(a)
  OBVIOUS
<1> PICK log : log = [disk[a] EXCEPT !.ents[n] = f]
  OBVIOUS
<1> PICK x : x = <<a[1], n, f>>
  OBVIOUS
<1> PICK o : o = Call("create", "end", {}, {x})
  OBVIOUS
<1>1. /\ Ready /\ IInv /\ TypeOK /\ Threaded /\ walk = None /\ op.req = NoChange
      /\ gdisk.move = None /\ gstate.move = None /\ gstate.orphans = 0
      /\ Listed = Live /\ Listed \subseteq Pairs
      /\ \A b \in Listed, k \in Names : Seen(b, k) = disk[b].ents[k]
      /\ disk[a].ents[n] = None
  BY ReadyIsRooted DEF Create
<1>2. /\ m \in Mdirs /\ Copy(m) /\ m.pair = a /\ m.log = disk[a] /\ disk[a] \in Logs /\ a \in Pairs
  BY <1>1, FetchIsCopy
<1>3. f \notin Pairs /\ f # None /\ f \notin Dirs /\ Edge(a, n, f) = x
  BY PairsAreDistinct, TreeAssumption DEF Edge, Id
<1>4. /\ log \in Logs /\ log.tail = disk[a].tail
      /\ \A k \in Names : log.ents[k] = IF k = n THEN f ELSE disk[a].ents[k]
  <2>1. f \in Objects
    BY DEF Objects
  <2> QED
    BY <1>2, <2>1, EntryIsLog
<1>5. o \in Ops /\ o.stage = "end" /\ o.req = [del |-> {}, add |-> {x}]
  <2>1. {} \in SUBSET Edges /\ {x} \in SUBSET Edges
    BY <1>2 DEF Edges, Pairs
  <2>2. "create" \in Calls /\ "end" \in Stages
    BY DEF Calls, Stages
  <2>3. o.req = [del |-> {}, add |-> {x}]
    BY DEF Call, NoOp
  <2> QED
    BY <2>1, <2>2, <2>3, CallIsOp
<1>6. Commits(m, log, gstate, gdelta, o)
  BY <1>3 DEF Create
<1>7. CASE CommitFails(gstate, gdelta, o)
  BY <1>1, <1>7, FailIsFine
<1>8. CASE CommitInPlace(m, log, gstate, gdelta, o, None, FALSE)
  <2>1. /\ \A p \in Pairs \ {a} : disk'[p] = disk[p]
        /\ disk'[a].ents = log.ents /\ disk'[a].tail = disk[a].tail
        /\ gstate' = gstate /\ gdisk' = gstate
        /\ op'.stage = "end" /\ op'.req = [del |-> {}, add |-> {x}] /\ walk' = None
    <3>1. Left(m, log, gstate, o)
      BY ONLY <1>1, <1>2, <1>4, <1>5, <1>8, CommitLeaves
    <3> QED
      BY ONLY <1>1, <1>2, <1>4, <1>5, <3>1 DEF Left
  <2>2. Listed' = Listed
    <3>1. \A p \in Listed : disk'[p].tail = disk[p].tail
      BY <1>1, <2>1
    <3> QED
      BY <1>1, <3>1, SameList
  <2>3. \A b \in Listed, k \in Names : Seen(b, k)' = IF b = a /\ k = n THEN f ELSE Seen(b, k)
    <3>1. \A b \in Listed, k \in Names : Seen(b, k)' = disk'[b].ents[k]
      BY <1>1, <2>1, SeenInLfsNext DEF SeenFact, Hidden
    <3>2. \A b \in Listed, k \in Names : disk'[b].ents[k] = IF b = a /\ k = n THEN f ELSE disk[b].ents[k]
      BY ONLY <1>1, <1>4, <2>1
    <3> QED
      BY <1>1, <3>1, <3>2
  <2>4. Live' = Live /\ Shown' = Shown \cup {x}
    <3>1. Seen(a, n) = None /\ Seen(a, n)' = f
      BY <1>1, <2>3
    <3>2. \A b \in Live, k \in Names : b # a \/ k # n => Seen(b, k)' = Seen(b, k)
      BY <1>1, <2>3
    <3>3. Live' = Live \cup ({f} \cap Pairs) /\ Shown' = Shown \cup {<<a[1], n, Id(f)>>}
      BY <1>1, <1>3, <3>1, <3>2, EntryMade
    <3> QED
      BY <1>3, <3>3 DEF Id
  <2>5. op'.req \in Atomic!Creations(Shown)
    <3>1. Atomic!IsDir(Shown, a[1]) /\ a[1] \in Dirs \cup {Root} /\ Atomic!At(Shown, a[1], n) = {}
      BY <1>1, LiveIsDir, ShownHere
    <3>2. x \in (Dirs \cup {Root}) \X Names \X (Files \cup Dirs) /\ x[1] = a[1] /\ x[2] = n /\ x[3] = f
      BY <3>1
    <3> QED
      BY <1>3, <2>1, <3>1, <3>2 DEF Atomic!Creations
  <2>6. op'.req # NoChange
    BY <2>1 DEF NoChange
  <2>7. Shown' = (Shown \ op'.req.del) \cup op'.req.add
    BY <2>1, <2>4
  <2>8. Listed' \subseteq Live'
    BY <1>1, <2>2, <2>4
  <2> QED
    BY <1>1, <2>1, <2>5, <2>6, <2>7, <2>8, BegunIsFine
<1> QED
  BY <1>6, <1>7, <1>8, CommitEither

LEMMA MkdirIsFine ==
  ASSUME AInv, IInv', PairsStay, NEW a \in Live, NEW n \in Names, NEW d \in Dirs, Mkdir(a, n, d)
  PROVE  Fine
<1> PICK y : y = <<d, 0>>
  OBVIOUS
<1> PICK x : x = <<a[1], n, d>>
  OBVIOUS
<1> PICK c : c = Call("mkdir", "attach", {}, {x})
  OBVIOUS
<1> PICK o : o = [c EXCEPT !.cwd = Fetch(a), !.name = n, !.new = y]
  OBVIOUS
<1>1. /\ Ready /\ IInv /\ TypeOK /\ Threaded /\ walk = None /\ op.req = NoChange
      /\ gdisk.move = None /\ gstate.move = None /\ gstate.orphans = 0
      /\ Listed = Live /\ Listed \subseteq Pairs
      /\ \A b \in Listed, k \in Names : Seen(b, k) = disk[b].ents[k]
      /\ disk[a].ents[n] = None /\ d \notin InUse
  BY ReadyIsRooted DEF Mkdir
<1>2. /\ Fetch(a) \in Mdirs /\ Fetch(a).pair = a /\ Fetch(a).log = disk[a] /\ a \in Pairs
  BY <1>1, FetchIsCopy
<1>3. y \in Pairs
  BY TreeAssumption, PairsAreDistinct DEF Firsts, Pairs
<1>4. /\ o \in Ops /\ o.stage = "attach" /\ o.cwd = Fetch(a) /\ o.name = n /\ o.new = y
      /\ o.req = [del |-> {}, add |-> {x}]
  <2>1. {} \in SUBSET Edges /\ {x} \in SUBSET Edges
    BY <1>2 DEF Edges, Pairs
  <2>2. "mkdir" \in Calls /\ "attach" \in Stages
    BY DEF Calls, Stages
  <2>3. c \in Ops /\ c.stage = "attach"
    BY <2>1, <2>2, CallIsOp
  <2>4. c.req = [del |-> {}, add |-> {x}]
    BY DEF Call, NoOp
  <2> QED
    BY <1>2, <1>3, <2>3, <2>4 DEF Ops
<1>5. CASE CommitFails(gstate, gdelta, Call("mkdir", "attach", {}, {}))
  BY <1>1, <1>5, FailIsFine
<1>6. CASE ~CommitFails(gstate, gdelta, Call("mkdir", "attach", {}, {}))
  <2>1. /\ \A p \in Pairs : p[1] # d => disk'[p] = disk[p]
        /\ gstate' = gstate /\ gdisk' = gstate /\ op' = o /\ walk' = None
    <3>1. "mkdir" \notin MovesIn
      BY DEF PairsStay
    <3>2. PICK r \in BOOLEAN :
            LET delta == IF r THEN {} ELSE Xor(Bits(gstate), Bits(gdisk))
                new == [Blank EXCEPT !.tail = disk[a].tail, !.delta = Xor(gdelta, delta)]
            IN  /\ r => moves < MaxMoves /\ "mkdir" \in MovesIn
                /\ moves' = IF r THEN moves + 1 ELSE moves
                /\ disk' = [p \in Pairs |-> IF p = y THEN new ELSE IF p[1] = d THEN Blank ELSE disk[p]]
                /\ gdisk' = IF r THEN gdisk ELSE gstate
                /\ gdelta' = {} /\ op' = o /\ fault' = "none"
                /\ UNCHANGED <<gstate, loc, walk>>
      BY <1>6 DEF Mkdir
    <3>3. r = FALSE /\ y[1] = d
      BY <3>1, <3>2
    <3>4. gstate' = gstate /\ gdisk' = gstate /\ op' = o /\ walk' = None
      BY <1>1, <3>2, <3>3
    <3>5. \A p \in Pairs : p[1] # d => disk'[p] = disk[p]
      BY <3>2, <3>3
    <3> QED
      BY <3>4, <3>5
  <2>2. \A p \in Listed : disk'[p] = disk[p] /\ p[1] # d
    <3>1. \A p \in Listed : p[1] # d
      BY <1>1 DEF InUse
    <3> QED
      BY <1>1, <2>1, <3>1
  <2>3. Listed' = Listed
    BY <1>1, <2>2, SameList
  <2>4. \A b \in Live, k \in Names : Seen(b, k)' = Seen(b, k)
    <3>1. \A b \in Listed, k \in Names : Seen(b, k)' = disk'[b].ents[k]
      BY <1>1, <2>1, SeenInLfsNext DEF SeenFact, Hidden
    <3> QED
      BY <1>1, <2>2, <3>1
  <2>5. Live' = Live /\ Shown' = Shown
    BY <1>1, <2>4, NothingChanges
  <2>6. /\ op'.stage = "attach" /\ op'.cwd = Fetch(a) /\ op'.name = n /\ op'.new = y
        /\ op'.req = [del |-> {}, add |-> {x}]
    BY ONLY <1>4, <2>1
  <2>7. Asked'
    <3>1. op'.cwd.pair = a /\ op'.cwd.log.ents[op'.name] = None
      BY <1>1, <1>2, <2>6
    <3>2. op'.req = [del |-> {}, add |-> {<<op'.cwd.pair[1], op'.name, op'.new[1]>>}]
      BY <2>6, <3>1
    <3> QED
      BY <2>5, <2>6, <3>1, <3>2 DEF Asked
  <2>8. Answered' /\ Walked'
    BY <2>1, <2>6 DEF Answered, Walked
  <2>9. Rooted'
    <3>1. Listed' \subseteq Live'
      BY <1>1, <2>3, <2>5
    <3> QED
      BY <3>1 DEF Rooted
  <2>10. ~Atomic!IsDir(Shown, d)
    <3>1. d # Root
      BY TreeAssumption
    <3>2. ASSUME NEW e \in Shown, e[3] = d PROVE FALSE
      <4>1. PICK b \in Live, k \in Names : Seen(b, k) # None /\ e = <<b[1], k, Id(Seen(b, k))>>
        BY <1>1, LiveIsSeen DEF LiveFacts, ShownIsSeen
      <4>2. Seen(b, k) \in Pairs /\ Seen(b, k)[1] = d
        BY <1>1, <3>2, <4>1, IdIsEnd
      <4>3. disk[b].ents[k] \in Pairs /\ disk[b].ents[k][1] = d /\ b \in Listed
        BY <1>1, <4>2
      <4>4. <<b, k>> \in {z \in Listed \X Names : disk[z[1]].ents[z[2]] \in Pairs}
        BY <4>3
      <4>5. d \in {disk[z[1]].ents[z[2]][1] :
                     z \in {z \in Listed \X Names : disk[z[1]].ents[z[2]] \in Pairs}}
        BY <4>3, <4>4
      <4> QED
        BY <1>1, <4>5 DEF InUse
    <3> QED
      BY <3>1, <3>2 DEF Atomic!IsDir
  <2>11. op'.req \in Atomic!Creations(Shown)
    <3>1. Atomic!IsDir(Shown, a[1]) /\ a[1] \in Dirs \cup {Root} /\ Atomic!At(Shown, a[1], n) = {}
      BY <1>1, LiveIsDir, ShownHere
    <3>2. x \in (Dirs \cup {Root}) \X Names \X (Files \cup Dirs) /\ x[1] = a[1] /\ x[2] = n /\ x[3] = d
      BY <3>1
    <3> QED
      BY <2>6, <2>10, <3>1, <3>2 DEF Atomic!Creations
  <2>12. Atomic!Begin
    <3>1. op'.req # NoChange
      BY <2>6 DEF NoChange
    <3> QED
      BY <1>1, <2>5, <2>11, <3>1 DEF Atomic!Begin, Atomic!NoChange, NoChange
  <2> QED
    BY <2>7, <2>8, <2>9, <2>12 DEF Fine, Atomic!Next
<1> QED
  BY <1>5, <1>6

LEMMA MkdirAttachIsFine ==
  ASSUME AInv, IInv', PairsStay, MkdirAttach
  PROVE  Fine
<1> PICK m : m = op.cwd
  OBVIOUS
<1> PICK a : a = m.pair
  OBVIOUS
<1> PICK n : n = op.name
  OBVIOUS
<1> PICK y : y = op.new
  OBVIOUS
<1> PICK log : log = [m.log EXCEPT !.ents[n] = y, !.tail = y]
  OBVIOUS
<1> PICK o : o = [op EXCEPT !.stage = "end", !.cwd = None]
  OBVIOUS
<1> PICK x : x = <<a[1], n, y[1]>>
  OBVIOUS
<1>1. /\ IInv /\ TypeOK /\ Threaded /\ op \in Ops /\ walk = None
      /\ op.stage = "attach" /\ Attaching
      /\ gdisk.move = None /\ gstate.move = None /\ gstate.orphans = 0
      /\ op.req = [del |-> {}, add |-> {x}]
      /\ a \in Live /\ m.log.ents[n] = None
  BY DEF AInv, IInv, TypeOK, Calling, Summed, Asked, MkdirAttach, Free
<1>2. /\ m # None /\ Copy(m) /\ n \in Names /\ y \in Firsts \ Listed
      /\ disk[y].tail = m.log.tail /\ \A k \in Names : disk[y].ents[k] = None
  BY <1>1 DEF Attaching
<1>3. /\ a \in Listed /\ m.log = disk[a] /\ y \in Pairs /\ disk[a] \in Logs /\ a # y
      /\ m \in Mdirs /\ Listed \subseteq Pairs /\ Live \subseteq Listed
  BY <1>1, <1>2, ListedPairs, PairsAreDistinct, LiveIsFirst DEF Copy, TypeOK, Ops
<1>4. /\ log \in Logs /\ log.tail = y
      /\ \A k \in Names : log.ents[k] = IF k = n THEN y ELSE disk[a].ents[k]
  <2> PICK b : b = [m.log EXCEPT !.ents[n] = y]
    OBVIOUS
  <2>1. y \in Objects
    BY <1>3 DEF Objects
  <2>2. b \in Logs /\ \A k \in Names : b.ents[k] = IF k = n THEN y ELSE disk[a].ents[k]
    BY <1>2, <1>3, <2>1, EntryIsLog
  <2>3. log = [b EXCEPT !.tail = y]
    OBVIOUS
  <2> QED
    BY ONLY <1>3, <2>2, <2>3 DEF Logs
<1>5. o \in Ops /\ o.stage = "end" /\ o.req = op.req
  BY <1>1 DEF Ops, Stages
<1>6. CommitInPlace(m, log, gstate, gdelta, o, None, FALSE)
  <2>1. Commits(m, log, gstate, gdelta, o)
    BY DEF MkdirAttach
  <2> QED
    BY ONLY PairsStay, <1>1, <2>1, CommitEither
<1>7. /\ \A p \in Pairs \ {a} : disk'[p] = disk[p]
      /\ disk'[a].ents = log.ents /\ disk'[a].tail = y
      /\ gstate' = gstate /\ gdisk' = gstate
      /\ op'.stage = "end" /\ op'.req = op.req /\ walk' = None
  <2>1. Left(m, log, gstate, o)
    BY ONLY <1>1, <1>3, <1>4, <1>5, <1>6, CommitLeaves
  <2> QED
    BY ONLY <1>1, <1>4, <1>5, <2>1, a = m.pair DEF Left
<1>8. Listed' = Listed \cup {y}
  <2>1. disk'[y].tail = disk[a].tail /\ \A p \in Listed \ {a} : disk'[p].tail = disk[p].tail
    BY <1>2, <1>3, <1>7
  <2> QED
    BY <1>1, <1>2, <1>3, <1>7, <2>1, InsertedInList
<1>9. \A b \in Listed', k \in Names : Seen(b, k)' = IF b = a /\ k = n THEN y ELSE disk[b].ents[k]
  <2>1. \A b, k : Seen(b, k)' = disk'[b].ents[k]
    BY <1>1, <1>7, SeenInLfsNext DEF SeenFact, Hidden
  <2>2. Listed' \subseteq Pairs
    BY <1>3, <1>8
  <2>3. \A b \in Listed', k \in Names : disk'[b].ents[k] = IF b = a /\ k = n THEN y ELSE disk[b].ents[k]
    BY ONLY <1>4, <1>7, <2>2
  <2> QED
    BY <2>1, <2>3
<1>10. \A b \in Live, k \in Names : Seen(b, k) = disk[b].ents[k]
  BY <1>1, SeenInLfs DEF SeenFact, Hidden
<1>11. Live' = Live \cup {y} /\ Shown' = Shown \cup {x}
  <2>1. Seen(a, n) = None /\ Seen(a, n)' = y /\ y # None
    BY <1>1, <1>2, <1>3, <1>8, <1>9, <1>10, PairsAreDistinct
  <2>2. \A b \in Live, k \in Names : b # a \/ k # n => Seen(b, k)' = Seen(b, k)
    BY <1>3, <1>8, <1>9, <1>10
  <2>3. y \notin Live /\ \A k \in Names : Seen(y, k)' = None
    BY <1>2, <1>3, <1>8, <1>9
  <2>4. Live' = Live \cup ({y} \cap Pairs) /\ Shown' = Shown \cup {<<a[1], n, Id(y)>>}
    BY ONLY <1>1, <1>2, <2>1, <2>2, <2>3, IInv', EntryMade
  <2> QED
    BY <1>3, <2>4 DEF Id
<1>12. Asked' /\ Walked'
  BY <1>7 DEF Asked, Walked
<1>13. Answered'
  BY <1>1, <1>7, <1>11 DEF Answered
<1>14. Rooted'
  <2>1. Listed' \subseteq Live'
    BY <1>1, <1>8, <1>11 DEF AInv, Rooted
  <2> QED
    BY <2>1 DEF Rooted
<1>15. Atomic!Effect
  BY <1>1, <1>7, <1>11 DEF Atomic!Effect, Atomic!Apply
<1> QED
  BY <1>12, <1>13, <1>14, <1>15 DEF Fine, Atomic!Next

LEMMA RemoveIsFine ==
  ASSUME AInv, IInv', PairsStay, NEW a \in Live, NEW n \in Names, Remove(a, n)
  PROVE  Fine
<1> PICK e : e = disk[a].ents[n]
  OBVIOUS
<1> PICK x : x = <<a[1], n, Id(e)>>
  OBVIOUS
<1> PICK m : m = Fetch(a)
  OBVIOUS
<1> PICK log : log = Without(disk[a], n)
  OBVIOUS
<1> PICK c : c = Call("remove", "drop", {x}, {})
  OBVIOUS
<1> PICK g : g = IF e \in Pairs THEN PrepOrphans(gstate, 1) ELSE gstate
  OBVIOUS
<1> PICK o : o = IF e \in Pairs THEN [c EXCEPT !.vic = Fetch(e)] ELSE c
  OBVIOUS
<1>1. /\ Ready /\ IInv /\ TypeOK /\ Threaded /\ Entered /\ walk = None /\ op.req = NoChange
      /\ gdisk.move = None /\ gstate.move = None /\ gstate.orphans = 0
      /\ Listed = Live /\ Listed \subseteq Pairs /\ Listed \subseteq Firsts
      /\ \A b \in Listed, k \in Names : Seen(b, k) = disk[b].ents[k]
      /\ e # None /\ Edge(a, n, e) = x
  BY ReadyIsRooted DEF Remove, Edge
<1>2. /\ m \in Mdirs /\ Copy(m) /\ m.pair = a /\ m.log = disk[a] /\ disk[a] \in Logs /\ a \in Pairs
  BY <1>1, FetchIsCopy
<1>3. Seen(a, n) = e /\ x \in Shown
  BY SMTT(30), <1>1, ShownHere
<1>4. /\ log \in Logs /\ log.tail = disk[a].tail
      /\ \A k \in Names : log.ents[k] = IF k = n THEN None ELSE disk[a].ents[k]
  BY <1>2, WithoutIsLog
<1>5. e \in Pairs => /\ e \in Live /\ Fetch(e) \in Mdirs /\ Fetch(e).pair = e /\ Fetch(e) # None
                     /\ \A k \in Names : disk[e].ents[k] = None
                     /\ e # a
  <2> SUFFICES ASSUME e \in Pairs
               PROVE  /\ e \in Live /\ Fetch(e) \in Mdirs /\ Fetch(e).pair = e /\ Fetch(e) # None
                      /\ \A k \in Names : disk[e].ents[k] = None
                      /\ e # a
    OBVIOUS
  <2>1. e \in Live
    BY <1>1 DEF Entered
  <2>2. Fetch(e) \in Mdirs /\ Fetch(e).pair = e /\ Fetch(e) # None
    BY <1>1, <2>1, FetchIsCopy, NoneAssumption
  <2>3. \A k \in Names : disk[e].ents[k] = None
    BY DEF Remove, IsEmptyLog
  <2> QED
    BY <1>1, <2>1, <2>2, <2>3
<1>6. c \in Ops /\ c.stage = "drop" /\ c.vic = None /\ c.req = [del |-> {x}, add |-> {}]
  <2>1. {} \in SUBSET Edges /\ {x} \in SUBSET Edges
    BY <1>1, EdgeIsEdge
  <2>2. "remove" \in Calls /\ "drop" \in Stages
    BY DEF Calls, Stages
  <2>3. c.req = [del |-> {x}, add |-> {}]
    BY DEF Call, NoOp
  <2> QED
    BY <2>1, <2>2, <2>3, CallIsOp
<1>7. /\ o \in Ops /\ o.stage = "drop" /\ o.req = [del |-> {x}, add |-> {}]
      /\ o.vic = IF e \in Pairs THEN Fetch(e) ELSE None
  <2>1. CASE e \in Pairs
    <3>1. o = [c EXCEPT !.vic = Fetch(e)]
      BY <2>1
    <3> QED
      BY ZenonT(60), <1>5, <1>6, <2>1, <3>1 DEF Ops
  <2>2. CASE e \notin Pairs
    BY <1>6, <2>2
  <2> QED
    BY <2>1, <2>2
<1>8. g.move = None /\ g.orphans = IF e \in Pairs THEN 1 ELSE 0
  BY <1>1, FreshGstates
<1>9. Commits(m, log, g, gdelta, o)
  <2>1. CASE e \in Pairs
    BY <1>1, <2>1 DEF Remove
  <2>2. CASE e \notin Pairs
    BY <1>1, <2>2 DEF Remove
  <2> QED
    BY <2>1, <2>2
<1>10. CASE CommitFails(g, gdelta, o)
  BY SMTT(30), <1>1, <1>10, FailIsFine
<1>11. CASE CommitInPlace(m, log, g, gdelta, o, None, FALSE)
  <2>1. /\ \A p \in Pairs \ {a} : disk'[p] = disk[p]
        /\ disk'[a].ents = log.ents /\ disk'[a].tail = disk[a].tail
        /\ gstate' = g /\ gdisk' = g
        /\ op'.stage = "drop" /\ op'.req = [del |-> {x}, add |-> {}] /\ walk' = None
        /\ op'.vic = (IF Tracked(o) /\ Same(o.vic.pair, a)
                      THEN [pair |-> a, log |-> disk'[a]] ELSE o.vic)
    <3>1. Left(m, log, g, o)
      BY ONLY <1>1, <1>2, <1>4, <1>7, <1>11, CommitLeaves
    <3> QED
      BY ONLY <1>1, <1>2, <1>4, <1>7, <3>1 DEF Left
  <2>2. e \in Pairs => op'.vic # None /\ op'.vic.pair = e
    <3>1. e \in Pairs => ~Same(o.vic.pair, a)
      BY <1>1, <1>5, <1>7, SameIsEqual
    <3> QED
      BY <1>5, <1>7, <2>1, <3>1
  <2>3. Listed' = Listed
    <3>1. \A p \in Listed : disk'[p].tail = disk[p].tail
      BY <1>1, <2>1
    <3> QED
      BY <1>1, <3>1, SameList
  <2>4. \A b \in Listed, k \in Names :
          /\ Seen(b, k)' = IF b = a /\ k = n THEN None ELSE Seen(b, k)
          /\ Seen(b, k)' = disk'[b].ents[k]
    <3>1. \A b \in Listed, k \in Names : Seen(b, k)' = disk'[b].ents[k]
      BY <1>8, <2>1, SeenInLfsNext DEF SeenFact, Hidden
    <3>2. \A b \in Listed, k \in Names : disk'[b].ents[k] = IF b = a /\ k = n THEN None ELSE disk[b].ents[k]
      BY ONLY <1>1, <1>4, <2>1
    <3> QED
      BY <1>1, <3>1, <3>2
  <2>5. Live' = Live \ {e} /\ Shown' = Shown \ {x}
    <3>1. Seen(a, n)' = None
      BY <1>1, <2>4
    <3>2. \A b \in Live, k \in Names : b # a \/ k # n => Seen(b, k)' = Seen(b, k)
      BY <1>1, <2>4
    <3>3. e \in Pairs => \A k \in Names : Seen(e, k) = None
      BY <1>1, <1>5
    <3> QED
      BY <1>1, <1>3, <3>1, <3>2, <3>3, EntryGone
  <2>6. op'.req \in Atomic!Removals(Shown)
    <3>1. x[3] \in Dirs => Atomic!IsEmpty(Shown, x[3])
      <4>1. CASE e \in Pairs
        <5>1. x[3] = e[1] /\ \A k \in Names : Seen(e, k) = None
          BY <1>1, <1>3, <1>5, <4>1, IdIsEnd
        <5> QED
          BY <1>1, <1>5, <4>1, <5>1, EmptyIsEmpty
      <4>2. CASE e \notin Pairs
        BY <1>1, <1>3, <4>2, IdIsEnd
      <4> QED
        BY <4>1, <4>2
    <3> QED
      BY <1>3, <2>1, <3>1 DEF Atomic!Removals
  <2>7. op'.req # NoChange
    BY <2>1 DEF NoChange
  <2>8. Shown' = (Shown \ op'.req.del) \cup op'.req.add
    BY <2>1, <2>5
  <2>9. \A p \in Listed' \ Live' : p = e /\ e \in Pairs
    BY <1>1, <2>3, <2>5
  <2>10. \A p \in Listed' \ Live', k \in Names : disk'[p].ents[k] = None
    BY <1>5, <2>1, <2>9
  <2>11. gstate'.orphans = 0 \/ gdisk'.orphans = 0 => Listed' \subseteq Live'
    BY <1>8, <2>1, <2>9
  <2> QED
    BY <1>1, <2>1, <2>2, <2>6, <2>7, <2>8, <2>9, <2>10, <2>11, BegunIsFine
<1> QED
  BY <1>9, <1>10, <1>11, CommitEither

LEMMA RenameIsFine ==
  ASSUME AInv, IInv', PairsStay, NEW a \in Live, NEW n \in Names, NEW b \in Live, NEW k \in Names,
         Rename(a, n, b, k)
  PROVE  Fine
<1> PICK e : e = disk[a].ents[n]
  OBVIOUS
<1> PICK prev : prev = disk[b].ents[k]
  OBVIOUS
<1> PICK x : x = <<a[1], n, Id(e)>>
  OBVIOUS
<1> PICK z : z = <<b[1], k, Id(e)>>
  OBVIOUS
<1> PICK del : del = {x} \cup EdgesAt(b, k)
  OBVIOUS
<1> PICK m : m = Fetch(b)
  OBVIOUS
<1> PICK new : new = [disk[b] EXCEPT !.ents[k] = e]
  OBVIOUS
<1> PICK log : log = IF Same(a, b) THEN Without(new, n) ELSE new
  OBVIOUS
<1> PICK h : h = IF prev \in Pairs THEN PrepOrphans(gstate, 1) ELSE gstate
  OBVIOUS
<1> PICK g : g = IF Same(a, b) THEN h ELSE PrepMove(h, <<a, n>>)
  OBVIOUS
<1> PICK c : c = Call(IF prev \in Pairs THEN "replace" ELSE "rename", "moved", del, {z})
  OBVIOUS
<1> PICK cwd : cwd = IF Same(a, b) THEN None ELSE Fetch(a)
  OBVIOUS
<1> PICK vic : vic = IF prev \in Pairs THEN Fetch(prev) ELSE None
  OBVIOUS
<1> PICK o : o = [c EXCEPT !.cwd = cwd, !.name = n, !.vic = vic]
  OBVIOUS
<1>1. /\ Ready /\ IInv /\ TypeOK /\ Threaded /\ Entered /\ walk = None /\ op.req = NoChange
      /\ gdisk.move = None /\ gstate.move = None /\ gstate.orphans = 0
      /\ Listed = Live /\ Listed \subseteq Pairs /\ Listed \subseteq Firsts
      /\ \A p \in Listed, i \in Names : Seen(p, i) = disk[p].ents[i]
      /\ e # None /\ Edge(a, n, e) = x /\ Edge(b, k, e) = z
  BY ReadyIsRooted DEF Rename, Edge
<1>2. /\ b # a \/ k # n
      /\ e \in Pairs => b \notin Below(e, gdisk.move)
      /\ prev # None => (prev \in Pairs <=> e \in Pairs)
      /\ prev \in Pairs => IsEmptyLog(disk[prev])
  BY DEF Rename
<1>3. a \in Pairs /\ b \in Pairs /\ a \in Firsts /\ b \in Firsts /\ (Same(a, b) <=> a = b)
  BY <1>1, SameIsEqual
<1>4. /\ m \in Mdirs /\ Copy(m) /\ m.pair = b /\ m.log = disk[b] /\ disk[b] \in Logs
      /\ Fetch(a) \in Mdirs /\ disk[a] \in Logs
  BY <1>1, FetchIsCopy
<1>5. /\ log \in Logs /\ log.tail = disk[b].tail
      /\ \A i \in Names : log.ents[i] = IF a = b /\ i = n THEN None
                                         ELSE IF i = k THEN e ELSE disk[b].ents[i]
  <2>1. e \in Objects
    BY <1>4 DEF Logs
  <2>2. /\ new \in Logs /\ new.tail = disk[b].tail
        /\ \A i \in Names : new.ents[i] = IF i = k THEN e ELSE disk[b].ents[i]
    BY <1>4, <2>1, EntryIsLog
  <2>3. CASE a = b
    <3>1. log = Without(new, n)
      BY <1>3, <2>3
    <3> QED
      BY ONLY SMTT(30), <2>2, <2>3, <3>1, n \in Names, WithoutIsLog
  <2>4. CASE a # b
    <3>1. log = new
      BY <1>3, <2>4
    <3> QED
      BY ONLY <2>2, <2>4, <3>1
  <2> QED
    BY <2>3, <2>4
<1>6. /\ g.orphans = IF prev \in Pairs THEN 1 ELSE 0
      /\ g.move = IF a = b THEN None ELSE <<a, n>>
  <2>1. h \in Gstates /\ h.move = None /\ h.orphans = IF prev \in Pairs THEN 1 ELSE 0
    BY <1>1, FreshGstates
  <2>2. CASE a = b
    BY <1>3, <2>1, <2>2
  <2>3. CASE a # b
    <3>1. g = [h EXCEPT !.move = <<a, n>>]
      BY SMTT(30), <1>3, <2>3 DEF PrepMove
    <3> QED
      BY <2>1, <2>3, <3>1 DEF Gstates
  <2> QED
    BY <2>2, <2>3
<1>7. prev \in Pairs =>
        /\ prev \in Live /\ Fetch(prev) \in Mdirs /\ Fetch(prev).pair = prev /\ Fetch(prev) # None
        /\ \A i \in Names : disk[prev].ents[i] = None
        /\ prev # a /\ prev # b
  <2> SUFFICES ASSUME prev \in Pairs
               PROVE  /\ prev \in Live /\ Fetch(prev) \in Mdirs /\ Fetch(prev).pair = prev
                      /\ Fetch(prev) # None
                      /\ \A i \in Names : disk[prev].ents[i] = None
                      /\ prev # a /\ prev # b
    OBVIOUS
  <2>1. prev \in Live
    BY <1>1 DEF Entered
  <2>2. Fetch(prev) \in Mdirs /\ Fetch(prev).pair = prev /\ Fetch(prev) # None
    BY <1>1, <2>1, FetchIsCopy, NoneAssumption
  <2>3. \A i \in Names : disk[prev].ents[i] = None
    BY <1>2 DEF IsEmptyLog
  <2>4. prev # a /\ prev # b
    BY <1>1, <2>3, PairsAreDistinct
  <2> QED
    BY <2>1, <2>2, <2>3, <2>4
<1>8. /\ o \in Ops /\ o.stage = "moved" /\ o.call \in {"rename", "replace"}
      /\ o.vic = vic /\ o.req = [del |-> del, add |-> {z}]
  <2>1. del \in SUBSET Edges /\ {z} \in SUBSET Edges
    BY <1>1, EdgeIsEdge
  <2>2. "rename" \in Calls /\ "replace" \in Calls /\ "moved" \in Stages
    BY DEF Calls, Stages
  <2>3. c \in Ops /\ c.stage = "moved" /\ c.call \in {"rename", "replace"}
    BY <2>1, <2>2, CallIsOp
  <2>4. c.req = [del |-> del, add |-> {z}]
    BY DEF Call, NoOp
  <2>5. cwd \in Mdirs \cup {None} /\ vic \in Mdirs \cup {None}
    BY <1>4, <1>7
  <2> QED
    BY ONLY <2>3, <2>4, <2>5, n \in Names,
            o = [c EXCEPT !.cwd = cwd, !.name = n, !.vic = vic] DEF Ops
<1>9. CommitInPlace(m, log, g, gdelta, o, None, FALSE)
  <2>1. Commits(m, log, g, gdelta, o)
    BY <1>1 DEF Rename
  <2> QED
    BY ONLY PairsStay, <1>8, <2>1, CommitEither
<1>10. /\ \A p \in Pairs \ {b} : disk'[p] = disk[p]
       /\ disk'[b].ents = log.ents /\ disk'[b].tail = disk[b].tail
       /\ gstate' = g /\ gdisk' = g
       /\ op'.stage = "moved" /\ op'.req = [del |-> del, add |-> {z}] /\ walk' = None
       /\ op'.vic = (IF Tracked(o) /\ Same(o.vic.pair, b)
                     THEN [pair |-> b, log |-> disk'[b]] ELSE o.vic)
  <2>1. Left(m, log, g, o)
    BY ONLY <1>1, <1>4, <1>5, <1>8, <1>9, CommitLeaves
  <2> QED
    BY ONLY <1>1, <1>4, <1>5, <1>8, <2>1 DEF Left
<1>11. prev \in Pairs => op'.vic # None /\ op'.vic.pair = prev
  <2>1. prev \in Pairs => vic = Fetch(prev) /\ ~Same(o.vic.pair, b)
    BY <1>1, <1>3, <1>7, <1>8, SameIsEqual
  <2> QED
    BY <1>7, <1>8, <1>10, <2>1
<1>12. Listed' = Listed
  <2>1. \A p \in Listed : disk'[p].tail = disk[p].tail
    BY <1>1, <1>10
  <2> QED
    BY <1>1, <2>1, SameList
<1>13. \A p \in Listed, i \in Names :
         disk'[p].ents[i] = IF p = b
                            THEN IF a = b /\ i = n THEN None ELSE IF i = k THEN e ELSE disk[b].ents[i]
                            ELSE disk[p].ents[i]
  BY ONLY <1>1, <1>3, <1>5, <1>10
<1>14. \A p \in Listed, i \in Names :
         Seen(p, i)' = IF p = a /\ i = n THEN None ELSE IF p = b /\ i = k THEN e ELSE Seen(p, i)
  <2>1. \A p \in Listed, i \in Names : Seen(p, i)' = IF Hidden(g.move, p, i) THEN None ELSE disk'[p].ents[i]
    BY <1>10, SeenInLfsNext DEF SeenFact
  <2>2. \A p \in Listed, i \in Names : Hidden(g.move, p, i) <=> a # b /\ p = a /\ i = n
    <3>1. CASE a = b
      BY <1>6, <3>1 DEF Hidden
    <3>2. CASE a # b
      <4>1. g.move = <<a, n>> /\ <<a, n>> # None
        BY <1>3, <1>6, <3>2, PairsAreDistinct DEF GMoves
      <4>2. \A p \in Listed : Same(a, p) <=> a = p
        BY <1>1, <1>3, SameIsEqual
      <4> QED
        BY SMTT(30), <3>2, <4>1, <4>2 DEF Hidden
    <3> QED
      BY <3>1, <3>2
  <2> QED
    BY <1>1, <1>13, <2>1, <2>2
<1>15. Seen(a, n) = e /\ Seen(b, k) = prev
  BY <1>1
<1>16. /\ Live' = Live \ {prev}
       /\ Shown' = (Shown \ ({x} \cup {y \in Shown : y[1] = b[1] /\ y[2] = k})) \cup {z}
  <2>1. Seen(a, n)' = None /\ Seen(b, k)' = e
    BY <1>1, <1>2, <1>14
  <2>2. \A p \in Live, i \in Names : (p # a \/ i # n) /\ (p # b \/ i # k) => Seen(p, i)' = Seen(p, i)
    BY <1>1, <1>14
  <2>3. prev \in Pairs => \A i \in Names : Seen(prev, i) = None
    BY <1>1, <1>7
  <2>4. e \in Pairs => b \notin Below(e, DiskMove)
    BY <1>1, <1>2, MoveOnDisk
  <2>5. /\ Live' = Live \ {prev}
        /\ Shown' = (Shown \ ({<<a[1], n, Id(e)>>} \cup {y \in Shown : y[1] = b[1] /\ y[2] = k}))
                       \cup {<<b[1], k, Id(e)>>}
    BY ONLY <1>1, <1>2, <1>15, <2>1, <2>2, <2>3, <2>4, IInv', EntryMoved,
            a \in Live, n \in Names, b \in Live, k \in Names
  <2> QED
    BY <2>5
<1>17. /\ x \in Shown /\ x[1] = a[1] /\ x[2] = n /\ x[3] = Id(e)
       /\ Atomic!At(Shown, b[1], k) = IF prev = None THEN {} ELSE {<<b[1], k, Id(prev)>>}
       /\ del = {x} \cup Atomic!At(Shown, b[1], k)
  <2>1. Atomic!At(Shown, b[1], k) = IF prev = None THEN {} ELSE {<<b[1], k, Id(prev)>>}
    BY ZenonT(60), <1>1, <1>15, ShownHere
  <2>2. EdgesAt(b, k) = IF prev = None THEN {} ELSE {<<b[1], k, Id(prev)>>}
    BY DEF EdgesAt, Edge
  <2>3. x \in Shown /\ x[1] = a[1] /\ x[2] = n /\ x[3] = Id(e)
    <3>1. Seen(a, n) # None
      BY <1>1, <1>15
    <3>2. <<a[1], n, Id(Seen(a, n))>> \in Shown
      BY ONLY <1>1, <3>1, a \in Live, n \in Names, ShownHere
    <3> QED
      BY ONLY <1>15, <3>2, x = <<a[1], n, Id(e)>>
  <2>4. del = {x} \cup Atomic!At(Shown, b[1], k)
    BY ONLY <2>1, <2>2, del = {x} \cup EdgesAt(b, k)
  <2> QED
    BY <2>1, <2>3, <2>4
<1>18. ASSUME NEW y \in Atomic!At(Shown, b[1], k)
       PROVE  /\ y # x
              /\ y[3] \in Dirs <=> x[3] \in Dirs
              /\ y[3] \in Dirs => Atomic!IsEmpty(Shown, y[3])
  <2>1. prev # None /\ y = <<b[1], k, Id(prev)>>
    BY <1>17, <1>18
  <2>2. y # x
    BY <1>2, <1>3, <1>17, <2>1, EdgesAreApart
  <2>3. CASE prev \in Pairs
    <3>1. e \in Pairs /\ x[3] \in Dirs /\ y[3] = prev[1] /\ y[3] \in Dirs
      BY SMTT(30), <1>1, <1>2, <1>15, <1>17, <2>1, <2>3, IdIsEnd
    <3>2. Atomic!IsEmpty(Shown, prev[1])
      BY <1>1, <1>7, <2>3, EmptyIsEmpty
    <3> QED
      BY <2>2, <3>1, <3>2
  <2>4. CASE prev \notin Pairs
    <3>1. e \notin Pairs /\ x[3] \notin Dirs /\ y[3] \notin Dirs
      BY <1>1, <1>2, <1>15, <1>17, <2>1, <2>4, IdIsEnd
    <3> QED
      BY <2>2, <3>1
  <2> QED
    BY <2>3, <2>4
<1>19. op'.req \in Atomic!Moves(Shown)
  <2>1. Atomic!IsDir(Shown, b[1]) /\ b[1] \in Dirs \cup {Root}
    BY <1>1, LiveIsDir
  <2> PICK w : w = <<x, b[1], k>>
    OBVIOUS
  <2>2. w \in Shown \X (Dirs \cup {Root}) \X Names /\ w[1] = x /\ w[2] = b[1] /\ w[3] = k
    BY <1>17, <2>1
  <2>3. op'.req = [del |-> {w[1]} \cup Atomic!At(Shown, w[2], w[3]), add |-> {<<w[2], w[3], w[1][3]>>}]
    BY ONLY <1>10, <1>17, <2>2, x = <<a[1], n, Id(e)>>, z = <<b[1], k, Id(e)>>
  <2>4. /\ Atomic!IsDir(Shown, w[2])
        /\ \A y \in Atomic!At(Shown, w[2], w[3]) :
             /\ y # w[1]
             /\ y[3] \in Dirs <=> w[1][3] \in Dirs
             /\ y[3] \in Dirs => Atomic!IsEmpty(Shown, y[3])
    BY <1>18, <2>1, <2>2
  <2> QED
    BY ONLY <2>2, <2>3, <2>4 DEF Atomic!Moves
<1>20. op'.req # NoChange
  BY SMTT(30), <1>10 DEF NoChange
<1>21. Shown' = (Shown \ op'.req.del) \cup op'.req.add
  BY <1>10, <1>16, <1>17 DEF Atomic!At
<1>22. \A p \in Listed' \ Live' : p = prev /\ prev \in Pairs
  BY SMTT(30), <1>1, <1>12, <1>16
<1>23. \A p \in Listed' \ Live', i \in Names : disk'[p].ents[i] = None
  BY <1>7, <1>10, <1>22
<1>24. gstate'.orphans = 0 \/ gdisk'.orphans = 0 => Listed' \subseteq Live'
  BY <1>6, <1>10, <1>22
<1>25. \A p \in Listed' \ Live' : op'.vic # None /\ p = op'.vic.pair
  BY <1>11, <1>22
<1> QED
  BY ONLY AInv, IInv', <1>1, <1>10, <1>19, <1>20, <1>21, <1>23, <1>24, <1>25, BegunIsFine

-----------------------------------------------------------------------------
(***************************************************************************)
(* The theorems.                                                           *)
(***************************************************************************)

LEMMA InitIsFine == Init => AInv /\ Atomic!Init
<1> SUFFICES ASSUME Init PROVE AInv /\ Atomic!Init
  OBVIOUS
<1>1. IInv /\ Threaded /\ Entered
  BY InitIsSafe DEF IInv
<1>2. /\ disk = [p \in Pairs |-> Blank] /\ gstate = NoGstate /\ op = NoOp /\ walk = None
  BY DEF Init
<1>3. /\ LiveIsReached /\ ShownIsSeen /\ Live \subseteq Listed /\ Listed \subseteq Pairs
      /\ RootPair \in Live /\ RootPair \in Pairs
  BY <1>1, LiveIsSeen, ListedPairs, PairsAreDistinct DEF LiveFacts, LiveIsReached
<1>4. \A a \in Pairs, n \in Names : disk[a].ents[n] = None /\ disk[a].tail = None
  BY <1>2 DEF Blank
<1>5. Shown = {}
  <2>1. \A a \in Live, n \in Names : Seen(a, n) = None
    BY <1>3, <1>4 DEF Seen
  <2> QED
    BY <1>3, <2>1 DEF ShownIsSeen
<1>6. Listed \subseteq Live
  <2> PICK A : A = {RootPair}
    OBVIOUS
  <2>1. RootPair \in A /\ \A p \in A \cap Listed : disk[p].tail \in A \cup {None}
    <3>1. disk[RootPair].tail = None
      BY <1>2, <1>3 DEF Blank
    <3> QED
      BY <3>1
  <2>2. Listed \subseteq A
    BY <1>1, <2>1, TailsReachAll
  <2> QED
    BY <1>3, <2>2
<1>7. op.stage = "idle" /\ op.req = NoChange
  BY <1>2 DEF NoOp
<1>8. Asked /\ Answered /\ Rooted /\ Walked
  BY <1>2, <1>6, <1>7 DEF Asked, Answered, Rooted, Walked
<1> QED
  BY <1>1, <1>5, <1>7, <1>8 DEF AInv, Atomic!Init, Atomic!NoChange, NoChange

LEMMA FixHalfOrphanIsIdle ==
  ASSUME IInv
  PROVE  ~FixHalfOrphan
<1> SUFFICES ASSUME FixHalfOrphan PROVE FALSE
  OBVIOUS
<1> PICK t : t = AheadOf(walk)
  OBVIOUS
<1>1. t \in Listed
  BY WalkState DEF FixHalfOrphan, Walking, AheadOf
<1>2. Parent(t) # None /\ disk[Parent(t)].ents[EntryOf(Parent(t), t)] # t
  BY DEF FixHalfOrphan, HalfOrphan
<1> QED
  BY <1>1, <1>2, NoHalfOrphan DEF IInv

\* What a step does is at most a step of AtomicTree.
LEMMA NextIsFine ==
  ASSUME PairsStay, AInv, [Next]_vars
  PROVE  AInv' /\ [Atomic!Next]_<<Shown, op.req>>
<1>1. IInv /\ IInv' /\ loc = None
  BY NextIsSafe DEF AInv, IInv
<1>2. Found = Live
  BY <1>1, MoveOnDisk DEF Found, Live
<1>3. CASE (Demove \/ Deorphan \/ MkConsistent) /\ UNCHANGED calls
  <2>1. Fine
    BY <1>1, <1>3, DemoveIsFine, DeorphanIsFine, MkConsistentIsFine
  <2> QED
    BY <1>1, <2>1 DEF Fine, AInv
<1>4. ASSUME NEW a \in Found, NEW n \in Names,
             \/ \E f \in Files : Create(a, n, f)
             \/ \E d \in Dirs : Mkdir(a, n, d)
             \/ Remove(a, n)
             \/ \E b \in Found, m \in Names : Rename(a, n, b, m)
      PROVE  AInv' /\ [Atomic!Next]_<<Shown, op.req>>
  <2>1. Fine
    BY <1>1, <1>2, <1>4, CreateIsFine, MkdirIsFine, RemoveIsFine, RenameIsFine
  <2> QED
    BY <1>1, <2>1 DEF Fine, AInv
<1>5. CASE Ready /\ BeginGc
  <2>1. Fine
    BY <1>1, <1>5, BeginGcIsFine
  <2> QED
    BY <1>1, <2>1 DEF Fine, AInv
<1>6. CASE Begin
  BY <1>3, <1>4, <1>5, <1>6 DEF Begin
<1>7. CASE Step /\ UNCHANGED calls
  <2>1. ~RelocateParent /\ ~RelocatePred /\ ~RelocateEnds /\ ~FixHalfOrphan
    BY <1>1, FixHalfOrphanIsIdle DEF RelocateParent, RelocatePred, RelocateEnds
  <2>2. FixOrphan \/ WalkOn \/ EndPass => Fine
    BY <1>1, <1>7, FixOrphanIsFine, WalkOnIsFine, EndPassIsFine
  <2>3. Deorphan \/ MkdirAttach \/ RenameDelete \/ RenameDeleted => Fine
    BY <1>1, <1>7, DeorphanIsFine, MkdirAttachIsFine, RenameDeleteIsFine, RenameDeletedIsFine
  <2>4. Drop \/ Gc \/ Return => Fine
    BY <1>1, <1>7, DropIsFine, GcIsFine, ReturnIsFine
  <2>5. Fine
    BY <1>7, <2>1, <2>2, <2>3, <2>4 DEF Step
  <2> QED
    BY <1>1, <2>5 DEF Fine, AInv
<1>8. CASE PowerLoss /\ UNCHANGED calls
  <2>1. Fine
    BY <1>1, <1>8, PowerLossIsFine
  <2> QED
    BY <1>1, <2>1 DEF Fine, AInv
<1>9. CASE UNCHANGED vars
  <2>1. disk' = disk /\ gstate' = gstate /\ gdisk' = gdisk /\ op' = op /\ walk' = walk
    BY <1>9 DEF vars
  <2>2. Listed' = Listed /\ DiskBits' = DiskBits /\ Live' = Live
    BY <1>1, <2>1, DiskStays, LiveOnDisk
  <2>3. Shown' = Shown
    <3>1. DiskMove' = DiskMove
      BY <2>2 DEF DiskMove
    <3>2. \A a \in Live, n \in Names : Seen(a, n)' = Seen(a, n)
      BY <2>1, <3>1 DEF Seen, Hidden, Same
    <3> QED
      BY <1>1, <3>2, NothingChanges
  <2>4. Asked'
    BY <2>1, <2>2 DEF AInv, Asked
  <2>5. Answered'
    BY <2>1, <2>3 DEF AInv, Answered
  <2>6. Rooted'
    BY <2>1, <2>2 DEF AInv, Rooted
  <2>7. Walked'
    BY <2>1, <2>2 DEF AInv, Walked
  <2> QED
    BY <1>1, <2>1, <2>3, <2>4, <2>5, <2>6, <2>7 DEF AInv
<1> QED
  BY <1>6, <1>7, <1>8, <1>9 DEF Next

\* What is asked of a call has been done when it is said to be, and only the directory
\* that a call has just unlinked is in the list without a path to it.
THEOREM TreeIsRooted == PairsStay => (Spec => []AInv)
<1> SUFFICES ASSUME PairsStay PROVE Spec => []AInv
  OBVIOUS
<1>1. AInv /\ [Next]_vars => AInv'
  BY NextIsFine
<1> QED
  BY <1>1, InitIsFine, PTL DEF Spec

\* Every call changes the names that a mount would show in one step, wherever power
\* is lost, and repairs do not change them.
THEOREM TreeIsAtomic == PairsStay => (Spec => CallsAreAtomic)
<1> SUFFICES ASSUME PairsStay PROVE Spec => CallsAreAtomic
  OBVIOUS
<1>1. Init => Atomic!Init
  BY InitIsFine
<1>2. AInv /\ [Next]_vars => [Atomic!Next]_<<Shown, op.req>>
  BY NextIsFine
<1> QED
  BY <1>1, <1>2, TreeIsRooted, PTL DEF CallsAreAtomic, Spec, Atomic!Spec

\* mkdir, remove and rename do not return Ok before their change is on the disk.
THEOREM CallsDoTheirWork == PairsStay => (Spec => []ReturnsDone)
<1> SUFFICES ASSUME PairsStay PROVE Spec => []ReturnsDone
  OBVIOUS
<1>1. AInv => ReturnsDone
  BY DEF AInv, Answered, ReturnsDone
<1> QED
  BY <1>1, TreeIsRooted, PTL

LEMMA ListIsAsLong ==
  ASSUME Threaded
  PROVE  Len(Thread) = Cardinality(Listed)
<1> PICK n \in Nat \ {0} : \E s : IsList(s, n)
  BY ThreadedIsList
<1> PICK s : IsList(s, n)
  OBVIOUS
<1>1. Listed = {s[i] : i \in 1 .. n}
  BY ListIsListed
<1>2. s \in [1 .. n -> Listed] /\ \A i, j \in 1 .. n : s[i] = s[j] => i = j
  BY <1>1 DEF IsList
<1>3. s \in Bijection(1 .. n, Listed)
  <2>1. s \in Injection(1 .. n, Listed)
    BY <1>2 DEF Injection, IsInjective
  <2>2. s \in Surjection(1 .. n, Listed)
    BY <1>1, <1>2 DEF Surjection
  <2> QED
    BY <2>1, <2>2 DEF Bijection
<1>4. Cardinality(Listed) = n
  BY <1>3, FS_CountingElements DEF ExistsBijection
<1>5. Thread = s
  <2>1. DOMAIN Thread = 1 .. n /\ \A i \in 1 .. n : Thread[i] = s[i]
    BY ListIsThread
  <2>2. Thread = [i \in DOMAIN Thread |-> Thread[i]]
    BY DEF Thread
  <2>3. s = [i \in 1 .. n |-> s[i]]
    BY <1>2
  <2> QED
    BY <2>1, <2>2, <2>3
<1>6. Len(s) = n
  <2>1. s \in Seq(Listed)
    BY <1>2
  <2> QED
    BY <1>2, <2>1
<1> QED
  BY <1>4, <1>5, <1>6

\* Where the disk does not say that there may be orphans, and wherever a call has
\* repaired them, the list threads the directories of the tree and no other.
THEOREM ListFollowsTree == PairsStay => (Spec => []ListIsTree)
<1> SUFFICES ASSUME PairsStay PROVE Spec => []ListIsTree
  OBVIOUS
<1>1. AInv => ListIsTree
  <2> SUFFICES ASSUME AInv, OrphanBit \notin DiskBits \/ (Free /\ op.stage = "ready")
               PROVE  Listed = Live /\ Len(Thread) = Cardinality(Listed)
    BY DEF ListIsTree, Live
  <2>1. IInv /\ Threaded
    BY DEF AInv, IInv
  <2>2. gstate.orphans = 0 \/ OrphanBit \notin DiskBits
    BY <2>1 DEF IInv, Calling, Free
  <2>3. Listed \subseteq Live
    BY <2>2 DEF AInv, Rooted
  <2> QED
    BY <2>1, <2>3, LiveIsFirst, ListIsAsLong
<1> QED
  BY <1>1, TreeIsRooted, PTL
=============================================================================
