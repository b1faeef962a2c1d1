-------------------------- MODULE SuperblocksProofs --------------------------
(***************************************************************************)
(* The fields of a mounted lfs_t agree with the chain of superblocks, and  *)
(* the state keeps its type, for any number of directories, block counts,  *)
(* limits, expansions, moves and calls.                                    *)
(*                                                                         *)
(* Left out are the deviations of README section 10 that break it: a       *)
(* resize whose commit fails ("growfails"), and a commit that fails after  *)
(* it has written to another pair ("frozen").                              *)
(***************************************************************************)
EXTENDS Superblocks, SequenceTheorems, FiniteSetTheorems, WellFoundedInduction, TLAPS

\* A call that fails has left lfs_t as it was.
FailuresAreClean == Deviations \cap {"growfails", "frozen"} = {}

-----------------------------------------------------------------------------
(***************************************************************************)
(* The inductive invariant.                                                *)
(***************************************************************************)

PairType == [at : 0 .. Blocks - 1, super : Supers \cup {NoSuper}, val : Vals]

Fields == [on : BOOLEAN, root : Nat, count : {0} \cup Counts, max : {0} \cup Maxes, needs : BOOLEAN]

Walks == [on : BOOLEAN, tail : Nat, cfg : [count : {0} \cup Counts, max : {0} \cup Maxes],
          pair : Nat, i : Nat, period : Nat]

Edits == [part : {"none", "val", "count", "super", "tail"},
          to : Vals \cup Counts \cup Supers \cup Nat]

Ops == [kind : {"none", "format", "put", "grow"}, arg : Nat \cup Configs,
        step : {"none", "write", "upgrade"}, at : Nat, edit : Edits, split : BOOLEAN,
        new : Seq(PairType), old : Nat]

Typed ==
  /\ list \in Seq(PairType)
  /\ end \in Nat
  /\ lfs \in Fields
  /\ walk \in Walks
  /\ op \in Ops

\* r is the last pair with a superblock among the first n of a list.
LastSuper(pairs, n, r) ==
  /\ r \in 1 .. n
  /\ HasSuper(pairs[r])
  /\ \A k \in r + 1 .. n : ~HasSuper(pairs[k])

\* What lfs_mount_ would learn of a superblock is what lfs says.
Agrees(super) ==
  /\ lfs.count = super.count
  /\ super.max \in {0, lfs.max}
  /\ lfs.needs = (super.minor < LFS_DISK_VERSION_MINOR)

\* Formatted: the first pair has a superblock.
Formatted == list # <<>> => HasSuper(list[1])

\* A mount has learned the last superblock that it has passed.  It does not get
\* to the end of a list that has none.
Mounting ==
  walk.on =>
    /\ ~lfs.on /\ op = NoOp
    /\ walk.tail = Null => list # <<>> /\ end = Null
    /\ LET n == IF walk.tail = Null THEN Len(list) ELSE walk.tail - 1
       IN  end = Null /\ n > 0 =>
             /\ n <= Len(list)
             /\ \E r \in 1 .. n : LastSuper(list, n, r) /\ lfs.root = list[r].at /\ Agrees(list[r].super)

\* The root directory as it will be when the commit in progress is done.
Target == IF op.new = <<>> THEN Edited ELSE op.new[Len(op.new)]

\* What is written and is not in the list yet is a copy of the pairs from `at'
\* to the root ...
Span(r) ==
  /\ op.at \in 1 .. r /\ op.old = r - op.at
  /\ op.split => op.at = 1
  /\ Len(op.new) = op.old + (IF op.split THEN 1 ELSE 0)
  /\ op.new # <<>> => op.new[Len(op.new)].at \notin Ats(list)

\* ... lfs.root is where the copy of the root is, and its superblock is what lfs
\* says, or will say once the superblock is upgraded.
Promised(r) ==
  /\ Target.super \in Supers
  /\ lfs.root = Target.at
  /\ IF op.step = "upgrade"
     THEN /\ op.kind = "put" /\ lfs.needs
          /\ Target.super.minor = LFS_DISK_VERSION_MINOR
          /\ lfs.count = Target.super.count /\ lfs.max = Target.super.max
     ELSE Agrees(Target.super)
  /\ op.kind = "put" => Agrees(list[r].super) /\ op.arg \in Vals

Change ==
  \/ op.edit.part = "val" /\ op.edit.to \in Vals
  \/ op.edit.part = "count" /\ op.edit.to \in Counts
  \/ op.edit.part = "super" /\ op.edit.to \in Supers
  \/ op.edit.part = "tail"

Writes(r) == Span(r) /\ Promised(r) /\ Change

Running ==
  /\ op.kind \in {"put", "grow"} =>
       /\ lfs.on /\ ~walk.on
       /\ \E r \in 1 .. Len(list) : LastSuper(list, Len(list), r) /\ Writes(r)
  /\ op.kind = "format" =>
       ~lfs.on /\ ~walk.on /\ ~op.split /\ op.arg \in [count : Counts, max : Maxes]
  /\ op.kind = "none" => op = NoOp

\* Between calls.
Mounted ==
  lfs.on =>
    /\ ~walk.on
    /\ op = NoOp =>
         \E r \in 1 .. Len(list) :
           LastSuper(list, Len(list), r) /\ lfs.root = list[r].at /\ Agrees(list[r].super)

IInv == Typed /\ Formatted /\ Mounting /\ Running /\ Mounted

-----------------------------------------------------------------------------
(***************************************************************************)
(* Lists of pairs.                                                         *)
(***************************************************************************)

\* A pair without a superblock has none of the superblocks.
LEMMA NoSuperIsNone == NoSuper \notin Supers
<1>1. NoSuper.count = 0
  BY DEF NoSuper
<1>2. \A s \in Supers : s.count \in Counts
  BY DEF Supers
<1> QED
  BY <1>1, <1>2, SuperAssumption

LEMMA HasSuperIsSuper ==
  ASSUME NEW p \in PairType
  PROVE  HasSuper(p) <=> p.super \in Supers
BY NoSuperIsNone DEF PairType, HasSuper

\* The root directory is the last pair with a superblock.
LEMMA LastIsSelected ==
  ASSUME NEW pairs \in Seq(PairType), NEW r, LastSuper(pairs, Len(pairs), r)
  PROVE  SelectLastInSeq(pairs, HasSuper) = r
<1> DEFINE I == {i \in 1 .. Len(pairs) : HasSuper(pairs[i])}
<1>1. Len(pairs) \in Nat /\ r \in I
  BY LenProperties DEF LastSuper
<1>2. \A i \in I : r >= i
  BY <1>1 DEF LastSuper
<1>3. \A x \in I : (\A y \in I : x >= y) => x = r
  BY <1>1, <1>2
<1>4. Max(I) = r
  BY <1>1, <1>2, <1>3 DEF Max
<1> QED
  BY <1>1, <1>4 DEF SelectLastInSeq

LEMMA RootIsLast ==
  ASSUME NEW r, LastSuper(list, Len(list), r), list \in Seq(PairType)
  PROVE  Root = r
BY LastIsSelected DEF Root

\* A list in which x is the i-th and t replaces the d behind it.
Splice(s, i, x, t, d) == SubSeq(s, 1, i - 1) \o <<x>> \o t \o SubSeq(s, i + d + 1, Len(s))

IsSplice(z, S, s, i, x, t, d) ==
  /\ z \in Seq(S)
  /\ Len(z) = Len(s) - d + Len(t)
  /\ \A k \in 1 .. i - 1 : z[k] = s[k]
  /\ z[i] = x
  /\ \A k \in 1 .. Len(t) : z[i + k] = t[k]
  /\ \A k \in i + Len(t) + 1 .. Len(z) : z[k] = s[k - Len(t) + d]

LEMMA Spliced ==
  ASSUME NEW S, NEW s \in Seq(S), NEW i \in 1 .. Len(s), NEW x \in S, NEW t \in Seq(S),
         NEW d \in Nat, i + d <= Len(s)
  PROVE  IsSplice(Splice(s, i, x, t, d), S, s, i, x, t, d)
<1> DEFINE a == SubSeq(s, 1, i - 1)
           b == SubSeq(s, i + d + 1, Len(s))
           u == a \o <<x>>
           v == u \o t
           w == v \o b
<1>1. Len(s) \in Nat /\ Len(t) \in Nat /\ \A k \in 1 .. Len(s) : s[k] \in S
  BY LenProperties, ElementOfSeq
<1>2. /\ a \in Seq(S) /\ Len(a) = i - 1
      /\ \A k \in 1 .. i - 1 : a[k] = s[k]
  <2>1. /\ a \in Seq(S)
        /\ Len(a) = IF 1 <= i - 1 THEN (i - 1) - 1 + 1 ELSE 0
        /\ \A k \in 1 .. (i - 1) - 1 + 1 : a[k] = s[1 + k - 1]
    <3>1. \A k \in 1 .. i - 1 : s[k] \in S
      BY <1>1
    <3>2. 1 \in Int /\ i - 1 \in Int
      BY <1>1
    <3> QED
      BY <3>1, <3>2, SubSeqProperties
  <2> QED
    BY <1>1, <2>1
<1>3. /\ b \in Seq(S) /\ Len(b) = Len(s) - i - d
      /\ \A k \in 1 .. Len(s) - i - d : b[k] = s[i + d + k]
  <2>1. /\ b \in Seq(S)
        /\ Len(b) = IF i + d + 1 <= Len(s) THEN Len(s) - (i + d + 1) + 1 ELSE 0
        /\ \A k \in 1 .. Len(s) - (i + d + 1) + 1 : b[k] = s[(i + d + 1) + k - 1]
    <3>1. \A k \in i + d + 1 .. Len(s) : s[k] \in S
      BY <1>1
    <3>2. i + d + 1 \in Int /\ Len(s) \in Int
      BY <1>1
    <3> QED
      BY <3>1, <3>2, SubSeqProperties
  <2> QED
    BY <1>1, <2>1
<1>4. <<x>> \in Seq(S) /\ Len(<<x>>) = 1 /\ <<x>>[1] = x
  OBVIOUS
<1> HIDE DEF a, b
<1>5. /\ u \in Seq(S) /\ Len(u) = i
      /\ \A k \in 1 .. i : u[k] = IF k <= i - 1 THEN a[k] ELSE x
  <2>1. /\ u \in Seq(S) /\ Len(u) = Len(a) + Len(<<x>>)
        /\ \A k \in 1 .. Len(a) + Len(<<x>>) : u[k] = IF k <= Len(a) THEN a[k] ELSE <<x>>[k - Len(a)]
    BY <1>2, <1>4, ConcatProperties
  <2> HIDE DEF u
  <2> QED
    BY SMTT(30), <1>1, <1>2, <1>4, <2>1
<1> HIDE DEF u
<1>6. /\ v \in Seq(S) /\ Len(v) = i + Len(t)
      /\ \A k \in 1 .. i + Len(t) : v[k] = IF k <= i THEN u[k] ELSE t[k - i]
  BY <1>5, ConcatProperties
<1> HIDE DEF v
<1>7. /\ w \in Seq(S) /\ Len(w) = Len(v) + Len(b)
      /\ \A k \in 1 .. Len(v) + Len(b) : w[k] = IF k <= Len(v) THEN v[k] ELSE b[k - Len(v)]
  <2>1. v \in Seq(S) /\ b \in Seq(S)
    BY <1>3, <1>6
  <2> QED
    BY <2>1, ConcatProperties
<1> HIDE DEF w
<1>8. Len(w) = Len(s) - d + Len(t)
  BY <1>1, <1>3, <1>6, <1>7
<1>81. \A k \in 1 .. i + Len(t) : w[k] = IF k <= i THEN u[k] ELSE t[k - i]
  <2>1. \A k \in 1 .. i + Len(t) : k \in 1 .. Len(v) + Len(b) /\ k <= Len(v)
    BY <1>1, <1>3, <1>6
  <2> QED
    BY <1>6, <1>7, <2>1
<1>9. ASSUME NEW k \in 1 .. i - 1 PROVE w[k] = s[k]
  <2>1. k \in 1 .. i + Len(t) /\ k <= i /\ k \in 1 .. i
    BY <1>1
  <2> QED
    BY <1>2, <1>5, <1>81, <2>1
<1>10. w[i] = x
  <2>1. i \in 1 .. i + Len(t) /\ ~(i <= i - 1) /\ i \in 1 .. i
    BY <1>1
  <2> QED
    BY <1>5, <1>81, <2>1
<1>11. ASSUME NEW k \in 1 .. Len(t) PROVE w[i + k] = t[k]
  <2>1. i + k \in 1 .. i + Len(t) /\ ~(i + k <= i) /\ i + k - i = k
    BY <1>1
  <2> QED
    BY <1>81, <2>1
<1>12. ASSUME NEW k \in i + Len(t) + 1 .. Len(w) PROVE w[k] = s[k - Len(t) + d]
  <2>1. k \in 1 .. Len(v) + Len(b) /\ ~(k <= Len(v)) /\ k - Len(v) \in 1 .. Len(s) - i - d
    BY SMTT(30), <1>1, <1>3, <1>6, <1>7, <1>8
  <2>2. w[k] = b[k - Len(v)] /\ b[k - Len(v)] = s[i + d + (k - Len(v))]
    BY <1>3, <1>7, <2>1
  <2>3. i + d + (k - Len(v)) = k - Len(t) + d
    BY <1>1, <1>6, <2>1
  <2> QED
    BY <2>2, <2>3
<1>13. IsSplice(w, S, s, i, x, t, d)
  BY <1>7, <1>8, <1>9, <1>10, <1>11, <1>12 DEF IsSplice
<1>14. w = Splice(s, i, x, t, d)
  BY DEF a, b, u, v, w, Splice
<1> QED
  BY <1>13, <1>14

\* A list with one more in front.
LEMMA Prepended ==
  ASSUME NEW S, NEW x \in S, NEW t \in Seq(S)
  PROVE  /\ <<x>> \o t \in Seq(S) /\ Len(<<x>> \o t) = Len(t) + 1 /\ Len(t) \in Nat
         /\ (<<x>> \o t)[1] = x
         /\ \A k \in 1 .. Len(t) : (<<x>> \o t)[k + 1] = t[k]
<1> DEFINE one == <<x>>
<1>1. one \in Seq(S) /\ Len(one) = 1 /\ one[1] = x
  OBVIOUS
<1>2. Len(t) \in Nat
  BY LenProperties
<1> HIDE DEF one
<1> PICK u : u = one \o t
  OBVIOUS
<1>3. /\ u \in Seq(S) /\ Len(u) = Len(one) + Len(t)
      /\ \A k \in 1 .. Len(one) + Len(t) : u[k] = IF k <= Len(one) THEN one[k] ELSE t[k - Len(one)]
  BY <1>1, ConcatProperties
<1>4. \A k \in 1 .. 1 + Len(t) : u[k] = IF k <= 1 THEN one[k] ELSE t[k - 1]
  BY <1>1, <1>3
<1>5. u[1] = x
  <2>1. 1 \in 1 .. 1 + Len(t)
    BY <1>2
  <2> QED
    BY <1>1, <1>4, <2>1
<1>6. ASSUME NEW k \in 1 .. Len(t) PROVE u[k + 1] = t[k]
  <2>1. k + 1 \in 1 .. 1 + Len(t) /\ ~(k + 1 <= 1) /\ (k + 1) - 1 = k
    BY <1>2
  <2> QED
    BY <1>4, <2>1
<1>7. Len(u) = Len(t) + 1
  BY <1>1, <1>2, <1>3
<1> QED
  BY <1>2, <1>3, <1>5, <1>6, <1>7 DEF one

\* The pair that the commit in progress writes.
LEMMA EditedPair ==
  ASSUME Typed, NEW r \in 1 .. Len(list), Writes(r)
  PROVE  /\ op.at \in 1 .. Len(list) /\ list[op.at] \in PairType
         /\ Edited \in PairType
         /\ Edited.at = list[op.at].at
         /\ HasSuper(list[op.at]) => Edited.super \in Supers
<1>1. Len(list) \in Nat /\ op.at \in 1 .. Len(list)
  BY LenProperties DEF Typed, Writes, Span, Promised, Change
<1>2. list[op.at] \in PairType
  BY <1>1, ElementOfSeq DEF Typed
<1> DEFINE p == list[op.at]
<1>3. p \in PairType
  BY <1>2
<1>4. Edited = CASE op.edit.part = "val"   -> [p EXCEPT !.val = op.edit.to]
                 [] op.edit.part = "count" -> [p EXCEPT !.super.count = op.edit.to]
                 [] op.edit.part = "super" -> [p EXCEPT !.super = op.edit.to]
                 [] op.edit.part = "tail"  -> p
  BY DEF Edited
<1> HIDE DEF p
<1>5. op.edit.part \in {"val", "count", "super", "tail"}
  BY DEF Typed, Ops, Edits, Writes, Span, Promised, Change
<1>6. CASE op.edit.part = "val"
  <2>1. Edited = [p EXCEPT !.val = op.edit.to] /\ op.edit.to \in Vals
    BY <1>4, <1>6 DEF Writes, Span, Promised, Change
  <2> QED
    BY <1>1, <1>2, <1>3, <2>1, HasSuperIsSuper DEF PairType, p
<1>7. CASE op.edit.part = "super"
  <2>1. Edited = [p EXCEPT !.super = op.edit.to] /\ op.edit.to \in Supers
    BY <1>4, <1>7 DEF Writes, Span, Promised, Change
  <2> QED
    BY <1>1, <1>2, <1>3, <2>1 DEF PairType, p
<1>8. CASE op.edit.part = "count"
  <2>1. Edited = [p EXCEPT !.super.count = op.edit.to] /\ op.edit.to \in Counts
    BY <1>4, <1>8 DEF Writes, Span, Promised, Change
  <2> DEFINE q == [p.super EXCEPT !.count = op.edit.to]
  <2>2. q \in Supers
    <3>1. p.super \in Supers \cup {NoSuper}
      BY <1>3 DEF PairType
    <3> QED
      BY <2>1, <3>1 DEF Supers, NoSuper
  <2> HIDE DEF q
  <2>3. Edited = [p EXCEPT !.super = q]
    BY <2>1 DEF q
  <2> QED
    BY <1>1, <1>2, <1>3, <2>2, <2>3 DEF PairType, p
<1>9. CASE op.edit.part = "tail"
  BY <1>1, <1>2, <1>3, <1>4, <1>9, HasSuperIsSuper DEF p
<1> QED
  BY <1>5, <1>6, <1>7, <1>8, <1>9

-----------------------------------------------------------------------------
(***************************************************************************)
(* The invariant holds of every device that some implementation formatted, *)
(* and every step preserves it.                                            *)
(***************************************************************************)

LEMMA NothingTyped ==
  /\ NoLfs \in Fields /\ NoWalk \in Walks /\ NoOp \in Ops /\ <<>> \in Seq(PairType)
  /\ NoOp.kind = "none" /\ ~NoLfs.on /\ ~NoWalk.on
BY SuperAssumption DEF NoLfs, NoWalk, NoOp, NoEdit, Fields, Walks, Ops, Edits, Null, Wild, Configs

\* A device that was formatted, or never.
LEMMA InitSafe == Init => IInv
<1> SUFFICES ASSUME Init PROVE IInv
  OBVIOUS
<1>1. /\ end = Null /\ lfs = NoLfs /\ walk = NoWalk /\ op = NoOp
  BY DEF Init
<1>2. list \in Seq(PairType) /\ Formatted
  <2>1. CASE list = <<>>
    BY <2>1, NothingTyped DEF Formatted
  <2>2. CASE list # <<>>
    <3>1. PICK super \in Supers, d \in Dirs :
            list = [k \in 1..d + 1 |-> Pair(k - 1, IF k = 1 THEN super ELSE NoSuper, 0)]
      BY <2>2 DEF Init
    <3>2. d \in Nat /\ super.count \in Counts /\ d < super.count /\ super.count \in 1 .. Blocks
      BY <3>1, SuperAssumption DEF Supers
    <3>3. \A k \in 1 .. d + 1 : Pair(k - 1, IF k = 1 THEN super ELSE NoSuper, 0) \in PairType
      BY <3>2, SuperAssumption DEF Pair, PairType
    <3>4. list \in [1 .. d + 1 -> PairType] /\ d + 1 \in Nat
      BY <3>1, <3>2, <3>3
    <3>5. list[1].super = super /\ list[1] \in PairType
      BY <3>1, <3>2, <3>4 DEF Pair
    <3> QED
      BY <3>4, <3>5, HasSuperIsSuper, SeqDef DEF Formatted
  <2> QED
    BY <2>1, <2>2
<1>3. Typed
  BY <1>1, <1>2, NothingTyped DEF Typed, Null
<1> QED
  BY <1>1, <1>2, <1>3, NothingTyped DEF IInv, Mounting, Running, Mounted

\* A mount begins with nothing learned.
LEMMA MountCallSafe ==
  ASSUME IInv, NEW cfg \in Configs, MountCall(cfg)
  PROVE  IInv'
<1>1. /\ op = NoOp /\ ~walk.on /\ ~lfs.on
      /\ lfs' = [NoLfs EXCEPT !.count = cfg.count, !.max = cfg.max]
      /\ walk' = [on |-> TRUE, tail |-> 1, cfg |-> cfg, pair |-> Null, i |-> 1, period |-> 1]
      /\ UNCHANGED <<list, end, op>>
  BY DEF MountCall, Idle, disk
<1>2. lfs' \in Fields /\ ~lfs'.on
  <2>1. cfg.count \in {0} \cup Counts /\ cfg.max \in {0} \cup Maxes
    BY DEF Configs
  <2>2. NoLfs \in Fields /\ ~NoLfs.on
    BY NothingTyped
  <2> QED
    BY <1>1, <2>1, <2>2 DEF Fields
<1>3. walk' \in Walks /\ walk'.tail = 1
  BY <1>1 DEF Walks, Configs, Null
<1>4. Typed' /\ Formatted'
  BY <1>1, <1>2, <1>3 DEF IInv, Typed, Formatted
<1>5. Mounting'
  BY <1>1, <1>2, <1>3 DEF Mounting, Null
<1>6. Running' /\ Mounted'
  BY <1>1, <1>2, NothingTyped DEF Running, Mounted
<1> QED
  BY <1>4, <1>5, <1>6 DEF IInv

\* Each pair with a superblock replaces what was learned of the one before.
LEMMA MountTurnSafe ==
  ASSUME IInv, MountTurn
  PROVE  IInv'
<1> PICK k : k = walk.tail
  OBVIOUS
<1>1. /\ walk.on /\ k # Null /\ Typed /\ Formatted /\ Mounting /\ ~lfs.on /\ op = NoOp
  BY DEF MountTurn, IInv, Mounting
<1>2. CASE lfs' = NoLfs /\ walk' = NoWalk /\ UNCHANGED <<list, end, op>>
  <2>1. Typed' /\ Formatted'
    BY <1>1, <1>2, NothingTyped DEF Typed, Formatted
  <2>2. Mounting' /\ Running' /\ Mounted'
    BY <1>1, <1>2, NothingTyped DEF Mounting, Running, Mounted
  <2> QED
    BY <2>1, <2>2 DEF IInv
<1>3. CASE /\ ~Unreadable(k)
           /\ walk' = [Stepped EXCEPT !.tail = TailOf(k)]
           /\ lfs' = IF HasSuper(list[k]) THEN Learned(list[k]) ELSE lfs
           /\ UNCHANGED <<list, end, op>>
  <2>1. Len(list) \in Nat /\ k \in 1 .. Len(list) /\ list[k] \in PairType
    BY <1>1, <1>3, LenProperties, ElementOfSeq DEF Typed, Unreadable
  <2>2. TailOf(k) = (IF k < Len(list) THEN k + 1 ELSE end) /\ TailOf(k) \in Nat
    BY <1>1, <2>1 DEF TailOf, Typed
  <2>3. walk \in Walks /\ lfs \in Fields
    BY <1>1 DEF Typed
  <2>4. Stepped \in Walks /\ Stepped.on
    <3>1. walk.period \in Nat /\ 2 * walk.period \in Nat /\ walk.i + 1 \in Nat /\ walk.tail \in Nat
      BY <2>3 DEF Walks
    <3> QED
      BY <1>1, <2>3, <3>1 DEF Stepped, Walks
  <2>5. walk' \in Walks /\ walk'.on /\ walk'.tail = TailOf(k)
    BY <1>3, <2>2, <2>4 DEF Walks
  <2>6. ASSUME HasSuper(list[k])
        PROVE  /\ lfs' \in Fields /\ ~lfs'.on
               /\ lfs'.root = list[k].at /\ Agrees(list[k].super)'
    <3> DEFINE super == list[k].super
    <3>1. /\ super.count \in Counts /\ super.max \in {0} \cup Maxes /\ super.minor \in 0 .. 2
          /\ list[k].at \in Nat
      BY <2>1, <2>6, HasSuperIsSuper, SuperAssumption DEF Supers, PairType
    <3>2. lfs' = [lfs EXCEPT !.root = list[k].at, !.count = super.count,
                             !.max = IF super.max = 0 THEN lfs.max ELSE super.max,
                             !.needs = (super.minor < LFS_DISK_VERSION_MINOR)]
      BY <1>3, <2>6 DEF Learned
    <3>3. (super.minor < LFS_DISK_VERSION_MINOR) \in BOOLEAN
      OBVIOUS
    <3>4. (IF super.max = 0 THEN lfs.max ELSE super.max) \in {0} \cup Maxes
      BY <2>3, <3>1 DEF Fields
    <3> HIDE DEF super
    <3>5. /\ lfs' \in Fields /\ lfs'.on = lfs.on /\ lfs'.root = list[k].at /\ lfs'.count = super.count
          /\ lfs'.max = IF super.max = 0 THEN lfs.max ELSE super.max
          /\ lfs'.needs = (super.minor < LFS_DISK_VERSION_MINOR)
      BY <2>3, <3>1, <3>2, <3>3, <3>4 DEF Fields
    <3> QED
      BY <1>1, <1>3, <3>1, <3>5 DEF Agrees, super
  <2>7. lfs' \in Fields /\ ~lfs'.on
    BY <1>1, <1>3, <2>3, <2>6
  <2>8. Typed' /\ Formatted'
    BY <1>1, <1>3, <2>5, <2>7 DEF Typed, Formatted
  <2>9. ASSUME end = Null
        PROVE  \E r \in 1 .. k : LastSuper(list, k, r) /\ lfs'.root = list[r].at /\ Agrees(list[r].super)'
    <3>1. CASE HasSuper(list[k])
      <4>1. k \in 1 .. k /\ LastSuper(list, k, k)
        BY <2>1, <3>1 DEF LastSuper
      <4> QED
        BY <2>6, <3>1, <4>1
    <3>2. CASE ~HasSuper(list[k])
      <4>1. k > 1
        BY <1>1, <2>1, <3>2 DEF Formatted
      <4>2. PICK r \in 1 .. k - 1 :
              LastSuper(list, k - 1, r) /\ lfs.root = list[r].at /\ Agrees(list[r].super)
        BY <1>1, <2>1, <2>9, <4>1 DEF Mounting
      <4>3. LastSuper(list, k, r) /\ r \in 1 .. k
        BY <2>1, <3>2, <4>1, <4>2 DEF LastSuper
      <4>4. lfs' = lfs /\ list' = list
        BY <1>3, <3>2
      <4> QED
        BY <4>2, <4>3, <4>4 DEF Agrees
    <3> QED
      BY <3>1, <3>2
  <2>10. Mounting'
    <3>1. walk'.tail = Null => end = Null /\ k = Len(list)
      BY <2>1, <2>2, <2>5 DEF Null
    <3>2. walk'.tail # Null /\ end = Null => walk'.tail - 1 = k
      BY <2>1, <2>2, <2>5 DEF Null
    <3>3. list # <<>>
      BY <2>1
    <3> QED
      BY <1>1, <1>3, <2>1, <2>7, <2>9, <3>1, <3>2, <3>3 DEF Mounting
  <2>11. Running' /\ Mounted'
    BY <1>1, <1>3, <2>7, NothingTyped DEF Running, Mounted
  <2> QED
    BY <2>8, <2>10, <2>11 DEF IInv
<1> QED
  BY <1>2, <1>3 DEF MountTurn, MountFails, disk

\* A mount that ends has passed the whole list.
LEMMA MountEndsSafe ==
  ASSUME IInv, MountEnds
  PROVE  IInv'
<1>1. /\ walk.on /\ walk.tail = Null
      /\ lfs' = [lfs EXCEPT !.on = TRUE] /\ walk' = NoWalk /\ UNCHANGED <<list, end, op>>
      /\ Typed /\ Formatted /\ Mounting /\ op = NoOp
  BY DEF MountEnds, disk, IInv, Mounting
<1>2. lfs' \in Fields /\ lfs'.root = lfs.root /\ lfs'.count = lfs.count /\ lfs'.max = lfs.max
      /\ lfs'.needs = lfs.needs
  BY <1>1 DEF Typed, Fields
<1>3. Typed' /\ Formatted'
  BY <1>1, <1>2, NothingTyped DEF Typed, Formatted
<1>4. Len(list) \in Nat /\ Len(list) > 0
  BY <1>1, EmptySeq, LenProperties DEF Typed, Mounting
<1>5. PICK r \in 1 .. Len(list) :
        LastSuper(list, Len(list), r) /\ lfs.root = list[r].at /\ Agrees(list[r].super)
  BY <1>1, <1>4 DEF Mounting
<1>6. Mounted'
  BY <1>1, <1>2, <1>5, NothingTyped DEF Mounted, Agrees
<1>7. Mounting' /\ Running'
  BY <1>1, NothingTyped DEF Mounting, Running
<1> QED
  BY <1>3, <1>6, <1>7 DEF IInv

\* Unmounted.
LEMMA LoseSafe ==
  ASSUME IInv, Lose
  PROVE  IInv'
<1>1. lfs' = NoLfs /\ walk' = NoWalk /\ op' = NoOp /\ UNCHANGED <<list, end>>
  BY DEF Lose, disk
<1> QED
  BY <1>1, NothingTyped DEF IInv, Typed, Formatted, Mounting, Running, Mounted

\* A device that is damaged from outside keeps its first pair.
LEMMA DamageSafe ==
  ASSUME IInv, Damage
  PROVE  IInv'
<1>1. /\ ~lfs.on /\ ~walk.on /\ op = NoOp /\ UNCHANGED <<lfs, walk, op>>
      /\ Typed /\ Formatted
  BY DEF Damage, Idle, IInv
<1>2. PICK k \in DOMAIN list : list' = SubSeq(list, 1, k) /\ end' \in 1 .. k \cup {Wild}
  BY DEF Damage
<1>3. Len(list) \in Nat /\ k \in 1 .. Len(list) /\ \A j \in 1 .. k : list[j] \in PairType
  BY <1>1, <1>2, LenProperties, ElementOfSeq DEF Typed
<1>4. list' \in Seq(PairType) /\ list'[1] = list[1] /\ list # <<>>
  <2>1. /\ SubSeq(list, 1, k) \in Seq(PairType)
        /\ \A j \in 1 .. k - 1 + 1 : SubSeq(list, 1, k)[j] = list[1 + j - 1]
    BY <1>3, SubSeqProperties
  <2>2. 1 \in 1 .. k - 1 + 1 /\ 1 + 1 - 1 = 1
    BY <1>3
  <2>3. list # <<>>
    BY <1>3
  <2> QED
    BY <1>2, <2>1, <2>2, <2>3
<1>5. end' \in Nat
  BY <1>2, <1>3, SuperAssumption DEF Wild
<1>6. Typed' /\ Formatted'
  BY <1>1, <1>4, <1>5 DEF Typed, Formatted
<1> QED
  BY <1>1, <1>6, NothingTyped DEF IInv, Mounting, Running, Mounted

\* A format is called of a filesystem that is not mounted ...
LEMMA FormatCallSafe ==
  ASSUME IInv, NEW cfg \in Configs, cfg.count # 0, FormatCall(cfg)
  PROVE  IInv'
<1>1. /\ ~lfs.on /\ ~walk.on /\ op = NoOp
      /\ op' = [NoOp EXCEPT !.kind = "format", !.arg = cfg]
      /\ UNCHANGED <<list, end, lfs, walk>>
  BY DEF FormatCall, Idle, disk
<1>2. cfg \in [count : Counts, max : Maxes]
  BY DEF Configs
<1>3. op' \in Ops /\ op'.kind = "format" /\ op'.arg = cfg /\ ~op'.split
  BY <1>1, NothingTyped DEF Ops, NoOp
<1> QED
  BY <1>1, <1>2, <1>3 DEF IInv, Typed, Formatted, Mounting, Running, Mounted

\* ... and leaves a list of one pair with a superblock.
LEMMA FormatSafe ==
  ASSUME IInv, lfs_format_
  PROVE  IInv'
<1> DEFINE super == [minor |-> LFS_DISK_VERSION_MINOR, count |-> op.arg.count, max |-> op.arg.max]
<1>1. /\ op.kind = "format" /\ op' = NoOp /\ list' = <<Pair(0, super, 0)>> /\ end' = Null
      /\ UNCHANGED <<lfs, walk>>
      /\ ~lfs.on /\ ~walk.on /\ op.arg \in [count : Counts, max : Maxes]
  BY DEF lfs_format_, IInv, Running
<1>2. super \in Supers
  BY <1>1 DEF Supers, LFS_DISK_VERSION_MINOR
<1> HIDE DEF super
<1>3. Pair(0, super, 0) \in PairType /\ Pair(0, super, 0).super = super
  BY <1>2, SuperAssumption DEF Pair, PairType
<1> DEFINE p == Pair(0, super, 0)
<1> HIDE DEF p
<1>4. p \in PairType /\ p.super \in Supers /\ list' = <<p>>
  BY <1>1, <1>2, <1>3 DEF p
<1>5. list' \in Seq(PairType) /\ list'[1] = p
  BY <1>4
<1>6. Typed' /\ Formatted'
  BY <1>1, <1>4, <1>5, NothingTyped, HasSuperIsSuper DEF Typed, Formatted, Null, IInv
<1> QED
  BY <1>1, <1>6, NothingTyped DEF IInv, Mounting, Running, Mounted

\* A call that writes begins at the root directory, with what a mount of the list
\* would learn.
LEMMA CallBegins ==
  ASSUME IInv, Idle, lfs.on
  PROVE  /\ Typed /\ Formatted /\ op = NoOp /\ ~walk.on
         /\ Root \in 1 .. Len(list) /\ LastSuper(list, Len(list), Root)
         /\ lfs.root = list[Root].at /\ Agrees(list[Root].super)
         /\ list[Root] \in PairType /\ list[Root].super \in Supers
         /\ lfs.count \in Counts /\ lfs \in Fields
<1>1. Typed /\ Formatted /\ op = NoOp /\ ~walk.on /\ Mounted
  BY DEF Idle, IInv, Mounted
<1>2. PICK r \in 1 .. Len(list) :
        LastSuper(list, Len(list), r) /\ lfs.root = list[r].at /\ Agrees(list[r].super)
  BY <1>1 DEF Mounted
<1>3. Root = r
  BY <1>1, <1>2, RootIsLast DEF Typed
<1>4. list[r] \in PairType
  BY <1>1, ElementOfSeq DEF Typed
<1>5. list[r].super \in Supers
  BY <1>2, <1>4, HasSuperIsSuper DEF LastSuper
<1>6. lfs.count \in Counts
  BY <1>2, <1>5 DEF Agrees, Supers
<1> QED
  BY <1>1, <1>2, <1>3, <1>4, <1>5, <1>6 DEF Typed

\* The fields of a commit that nothing was written for yet.
LEMMA CommitFields ==
  ASSUME NEW kind \in {"put", "grow"}, NEW arg \in Nat, NEW step \in {"write", "upgrade"},
         NEW part \in {"val", "count", "super"}, NEW to \in Vals \cup Counts \cup Supers,
         NEW at \in Nat, NEW c,
         c = [kind |-> kind, arg |-> arg, step |-> step, at |-> at,
              edit |-> [part |-> part, to |-> to], split |-> FALSE, new |-> <<>>, old |-> 0]
  PROVE  /\ c \in Ops
         /\ c.kind = kind /\ c.arg = arg /\ c.step = step /\ c.at = at /\ ~c.split
         /\ c.edit.part = part /\ c.edit.to = to /\ c.new = <<>> /\ c.old = 0
         /\ Len(c.new) = 0
BY NothingTyped, EmptySeq DEF Ops, Edits

\* A call changes the entries of the root directory, or first the superblock.
LEMMA PutCallSafe ==
  ASSUME IInv, NEW v \in Vals, PutCall(v)
  PROVE  IInv'
<1>1. /\ Idle /\ lfs.on /\ UNCHANGED <<list, end, lfs, walk>>
      /\ op' = IF lfs.needs THEN Commit("put", v, "upgrade", "super", Upgraded)
                            ELSE Commit("put", v, "write", "val", v)
  BY DEF PutCall, disk
<1> PICK r : r = Root
  OBVIOUS
<1>2. /\ Typed /\ Formatted /\ op = NoOp /\ ~walk.on
      /\ r \in 1 .. Len(list) /\ LastSuper(list, Len(list), r)
      /\ lfs.root = list[r].at /\ Agrees(list[r].super)
      /\ list[r] \in PairType /\ list[r].super \in Supers
      /\ lfs.count \in Counts /\ lfs \in Fields
  BY <1>1, CallBegins
<1>3. v \in Nat /\ r \in Nat /\ Len(list) \in Nat
  BY <1>2, SuperAssumption, LenProperties DEF Typed
<1>4. Upgraded \in Supers /\ Upgraded.minor = LFS_DISK_VERSION_MINOR
      /\ Upgraded.count = lfs.count /\ Upgraded.max = lfs.max
  BY <1>2 DEF Upgraded, Supers, LFS_DISK_VERSION_MINOR, Fields
<1>5. ASSUME lfs.needs PROVE op' \in Ops /\ Writes(r)'
  <2>1. /\ op' \in Ops
        /\ op'.kind = "put" /\ op'.arg = v /\ op'.step = "upgrade" /\ op'.at = r /\ ~op'.split
        /\ op'.edit.part = "super" /\ op'.edit.to = Upgraded /\ op'.new = <<>> /\ op'.old = 0
        /\ Len(op'.new) = 0
    <3>1. op' = [kind |-> "put", arg |-> v, step |-> "upgrade", at |-> r,
                 edit |-> [part |-> "super", to |-> Upgraded], split |-> FALSE, new |-> <<>>,
                 old |-> 0]
      BY <1>1, <1>5 DEF Commit
    <3>2. Upgraded \in Vals \cup Counts \cup Supers
      BY <1>4
    <3> QED
      BY <1>3, <3>1, <3>2, CommitFields
  <2>2. Target' = [list[r] EXCEPT !.super = Upgraded]
    BY <1>1, <2>1 DEF Target, Edited
  <2>3. Target'.super = Upgraded /\ Target'.at = list[r].at
    BY <1>2, <2>2 DEF PairType
  <2>4. Span(r)'
    BY <1>2, <1>3, <2>1 DEF Span
  <2>5. Promised(r)'
    BY <1>1, <1>2, <1>4, <1>5, <2>1, <2>3 DEF Promised, Agrees
  <2> QED
    BY <1>4, <2>1, <2>4, <2>5 DEF Writes, Change
<1>6. ASSUME ~lfs.needs PROVE op' \in Ops /\ Writes(r)'
  <2>1. /\ op' \in Ops
        /\ op'.kind = "put" /\ op'.arg = v /\ op'.step = "write" /\ op'.at = r /\ ~op'.split
        /\ op'.edit.part = "val" /\ op'.edit.to = v /\ op'.new = <<>> /\ op'.old = 0
        /\ Len(op'.new) = 0
    <3>1. op' = [kind |-> "put", arg |-> v, step |-> "write", at |-> r,
                 edit |-> [part |-> "val", to |-> v], split |-> FALSE, new |-> <<>>, old |-> 0]
      BY <1>1, <1>6 DEF Commit
    <3> QED
      BY <1>3, <3>1, CommitFields
  <2>2. Target' = [list[r] EXCEPT !.val = v]
    BY <1>1, <2>1 DEF Target, Edited
  <2>3. Target'.super = list[r].super /\ Target'.at = list[r].at
    BY <1>2, <2>2 DEF PairType
  <2>4. Span(r)'
    BY <1>2, <1>3, <2>1 DEF Span
  <2>5. Promised(r)'
    BY <1>1, <1>2, <2>1, <2>3 DEF Promised, Agrees
  <2> QED
    BY <2>1, <2>4, <2>5 DEF Writes, Change
<1>7. op' \in Ops /\ Writes(r)' /\ op'.kind = "put"
  <2>1. op'.kind = "put"
    BY <1>1 DEF Commit
  <2> QED
    BY <1>5, <1>6, <2>1
<1>8. Typed' /\ Formatted' /\ Mounting'
  BY <1>1, <1>2, <1>7 DEF Typed, Formatted, Mounting
<1>9. Running' /\ Mounted'
  BY <1>1, <1>2, <1>7, NothingTyped DEF Running, Mounted
<1> QED
  BY <1>8, <1>9 DEF IInv

\* A resize has changed block_count before it is on disk.
LEMMA GrowCallSafe ==
  ASSUME IInv, NEW n \in Counts, GrowCall(n)
  PROVE  IInv'
<1>1. /\ Idle /\ lfs.on /\ UNCHANGED <<list, end, walk>>
      /\ lfs' = [lfs EXCEPT !.count = n] /\ op' = Commit("grow", n, "write", "count", n)
  BY DEF GrowCall, disk
<1> PICK r : r = Root
  OBVIOUS
<1>2. /\ Typed /\ Formatted /\ op = NoOp /\ ~walk.on
      /\ r \in 1 .. Len(list) /\ LastSuper(list, Len(list), r)
      /\ lfs.root = list[r].at /\ Agrees(list[r].super)
      /\ list[r] \in PairType /\ list[r].super \in Supers
      /\ lfs.count \in Counts /\ lfs \in Fields
  BY <1>1, CallBegins
<1>3. n \in Nat /\ r \in Nat /\ Len(list) \in Nat
  BY <1>2, SuperAssumption, LenProperties DEF Typed
<1>4. /\ lfs' \in Fields /\ lfs'.on /\ lfs'.root = lfs.root /\ lfs'.max = lfs.max
      /\ lfs'.needs = lfs.needs /\ lfs'.count = n
  BY <1>1, <1>2 DEF Fields
<1>5. /\ op' \in Ops
      /\ op'.kind = "grow" /\ op'.arg = n /\ op'.step = "write" /\ op'.at = r /\ ~op'.split
      /\ op'.edit.part = "count" /\ op'.edit.to = n /\ op'.new = <<>> /\ op'.old = 0
      /\ Len(op'.new) = 0
  <2>1. op' = [kind |-> "grow", arg |-> n, step |-> "write", at |-> r,
               edit |-> [part |-> "count", to |-> n], split |-> FALSE, new |-> <<>>, old |-> 0]
    BY <1>1 DEF Commit
  <2> QED
    BY <1>3, <2>1, CommitFields
<1> DEFINE super == [list[r].super EXCEPT !.count = n]
<1>6. super \in Supers /\ super.count = n /\ super.max = list[r].super.max
      /\ super.minor = list[r].super.minor
  BY <1>2 DEF Supers
<1>7. Target' = [list[r] EXCEPT !.super = super]
  BY <1>1, <1>5 DEF Target, Edited
<1> HIDE DEF super
<1>8. Target'.super = super /\ Target'.at = list[r].at
  BY <1>2, <1>7 DEF PairType
<1>9. Writes(r)'
  <2>1. Span(r)'
    BY <1>2, <1>3, <1>5 DEF Span
  <2>2. Promised(r)'
    BY <1>2, <1>4, <1>5, <1>6, <1>8 DEF Promised, Agrees
  <2> QED
    BY <1>5, <2>1, <2>2 DEF Writes, Change
<1>10. Typed' /\ Formatted' /\ Mounting'
  BY <1>1, <1>2, <1>4, <1>5 DEF Typed, Formatted, Mounting
<1>11. Running' /\ Mounted'
  BY <1>1, <1>2, <1>4, <1>5, <1>9, NothingTyped DEF Running, Mounted
<1> QED
  BY <1>10, <1>11 DEF IInv

\* A commit that fails, before it has written to any other pair.
LEMMA CommitFailsSafe ==
  ASSUME IInv, FailuresAreClean, CommitFails
  PROVE  IInv'
<1>1. /\ op.kind = "put" /\ op.new = <<>> /\ op' = NoOp /\ UNCHANGED <<list, end, lfs, walk>>
      /\ Typed /\ Formatted /\ Mounting /\ lfs.on /\ ~walk.on
  BY DEF CommitFails, FailuresAreClean, disk, IInv, Running
<1>2. PICK r \in 1 .. Len(list) : LastSuper(list, Len(list), r) /\ Writes(r)
  BY <1>1 DEF IInv, Running
<1>3. op.at = r
  <2>1. Len(op.new) = 0 /\ op.old \in Nat /\ op.at \in Nat /\ r \in Nat
    BY <1>1, EmptySeq, LenProperties DEF Typed, Ops
  <2>2. Len(op.new) = op.old + (IF op.split THEN 1 ELSE 0) /\ op.old = r - op.at
    BY <1>2 DEF Writes, Span, Promised, Change
  <2> QED
    BY <2>1, <2>2
<1>4. lfs.root = list[r].at
  BY <1>1, <1>2, <1>3, EditedPair DEF Writes, Span, Promised, Change, Target
<1>5. Agrees(list[r].super)
  BY <1>1, <1>2 DEF Writes, Span, Promised, Change
<1>6. Mounted'
  BY <1>1, <1>2, <1>4, <1>5 DEF Mounted, Agrees
<1> QED
  BY <1>1, <1>6, NothingTyped DEF IInv, Typed, Formatted, Mounting, Running

\* A commit that is done: what was written takes the place of what it is a copy of.
LEMMA LinkedList ==
  ASSUME IInv, op.kind \in {"put", "grow"}, NEW pair \in PairType,
         pair.at = Edited.at, pair.super = Edited.super, Linked(pair),
         NEW r \in 1 .. Len(list), LastSuper(list, Len(list), r), Writes(r)
  PROVE  /\ op.at \in 1 .. Len(list) /\ op.at \in Nat /\ op.old \in Nat /\ op.at + op.old = r
         /\ op.new \in Seq(PairType) /\ Len(op.new) \in Nat /\ Len(list) \in Nat
         /\ IsSplice(list', PairType, list, op.at, pair, op.new, op.old)
         /\ Root' = op.at + Len(op.new) /\ Root' \in 1 .. Len(list') /\ Root' \in Nat
         /\ LastSuper(list', Len(list'), Root')
         /\ list'[Root'].at = Target.at /\ list'[Root'].super = Target.super
<1>1. /\ Typed /\ Formatted /\ lfs.on /\ ~walk.on
      /\ lfs \in Fields /\ op \in Ops /\ list \in Seq(PairType)
  BY DEF IInv, Typed, Running
<1>2. LastSuper(list, Len(list), r) /\ Writes(r)
  OBVIOUS
<1> PICK i, d, t : i = op.at /\ d = op.old /\ t = op.new
  OBVIOUS
<1>3. /\ i \in 1 .. Len(list) /\ d \in Nat /\ t \in Seq(PairType) /\ i + d = r
      /\ i + d <= Len(list) /\ Len(list) \in Nat /\ Len(t) \in Nat
      /\ i \in Nat /\ r \in Nat
  <2>1. i \in 1 .. r /\ d = r - i
    BY <1>2 DEF Writes, Span
  <2>2. Len(list) \in Nat /\ t \in Seq(PairType)
    BY <1>1, LenProperties DEF Ops
  <2> QED
    BY <2>1, <2>2, LenProperties
<1> PICK q : q = i + Len(t)
  OBVIOUS
<1>4. /\ list' \in Seq(PairType)
      /\ Len(list') = Len(list) - d + Len(t)
      /\ \A k \in 1 .. i - 1 : list'[k] = list[k]
      /\ list'[i] = pair
      /\ \A k \in 1 .. Len(t) : list'[i + k] = t[k]
      /\ \A k \in q + 1 .. Len(list') : list'[k] = list[k - Len(t) + d]
  <2>1. /\ list \in Seq(PairType) /\ i \in 1 .. Len(list) /\ pair \in PairType
        /\ t \in Seq(PairType) /\ d \in Nat /\ i + d <= Len(list)
    BY <1>1, <1>3
  <2>2. list' = Splice(list, i, pair, t, d)
    BY DEF Linked, Splice
  <2>3. IsSplice(list', PairType, list, i, pair, t, d)
    BY <2>1, <2>2, Spliced
  <2> QED
    BY <2>3 DEF IsSplice
<1>5. q \in 1 .. Len(list') /\ q \in Nat /\ Len(list') \in Nat
  <2> PICK a, b, c : a = Len(t) /\ b = Len(list) /\ c = Len(list')
    OBVIOUS
  <2>1. /\ a \in Nat /\ b \in Nat /\ d \in Nat /\ i \in Nat /\ i >= 1 /\ i + d <= b
        /\ q = i + a /\ c = b - d + a
    BY ONLY <1>3, <1>4, a = Len(t), b = Len(list), c = Len(list'), q = i + Len(t)
  <2>2. q \in 1 .. c /\ q \in Nat /\ c \in Nat
    BY ONLY <2>1
  <2> QED
    BY ONLY <2>2, c = Len(list')
<1>6. list'[q] \in PairType /\ list'[q].at = Target.at /\ list'[q].super = Target.super
  <2>1. list'[q] \in PairType
    BY <1>4, <1>5, ElementOfSeq
  <2>2. CASE t = <<>>
    <3>1. Len(t) = 0 /\ Target = Edited
      BY <2>2, EmptySeq DEF Target
    <3>2. q = i
      BY <1>3, <3>1
    <3> QED
      BY <1>4, <2>1, <3>1, <3>2
  <2>3. CASE t # <<>>
    <3>1. Len(t) \in 1 .. Len(t)
      BY <1>3, <2>3, EmptySeq
    <3>2. list'[q] = t[Len(t)] /\ Target = t[Len(t)]
      BY <1>4, <2>3, <3>1 DEF Target
    <3> QED
      BY <2>1, <3>2
  <2> QED
    BY <2>2, <2>3
<1>7. LastSuper(list', Len(list'), q)
  <2>1. HasSuper(list'[q])
    BY <1>2, <1>6, HasSuperIsSuper DEF Writes, Promised
  <2>2. ASSUME NEW k \in q + 1 .. Len(list') PROVE ~HasSuper(list'[k])
    <3>1. k - Len(t) + d \in r + 1 .. Len(list)
      <4> PICK l, z : l = Len(list) /\ z = Len(list')
        OBVIOUS
      <4> PICK u : u = Len(t)
        OBVIOUS
      <4>0. q = i + u /\ z = l - d + u /\ q \in Nat /\ z \in Nat /\ k \in q + 1 .. z
        <5>1. z = l - d + u
          BY <1>4
        <5> QED
          BY <1>5, <5>1
      <4>1. k \in Nat /\ i + u + 1 <= k /\ k <= l - d + u
        BY ONLY <4>0, SMT
      <4>2. /\ i \in Nat /\ d \in Nat /\ Len(t) \in Nat /\ Len(list) \in Nat
            /\ i + d = r /\ r \in Nat
        BY <1>3
      <4>3. /\ i \in Nat /\ d \in Nat /\ u \in Nat /\ l \in Nat
            /\ i + d = r /\ r \in Nat
        BY <4>2
      <4>4. k - u + d \in r + 1 .. l
        BY ONLY <4>1, <4>3, SMT
      <4> QED
        BY <4>4
    <3> QED
      BY <1>2, <1>4, <3>1 DEF LastSuper
  <2> QED
    BY <1>5, <2>1, <2>2 DEF LastSuper
<1>8. Root' = q
  BY <1>4, <1>7, LastIsSelected DEF Root
<1>9. IsSplice(list', PairType, list, i, pair, t, d)
  BY <1>4 DEF IsSplice
<1> QED
  BY <1>3, <1>5, <1>6, <1>7, <1>8, <1>9

\* After an upgrade comes the commit that was called for.
LEMMA LinkedSafe ==
  ASSUME IInv, op.kind \in {"put", "grow"}, NEW pair \in PairType,
         pair.at = Edited.at, pair.super = Edited.super, Linked(pair)
  PROVE  IInv'
<1>1. /\ Typed /\ Formatted /\ lfs.on /\ ~walk.on
      /\ lfs \in Fields /\ op \in Ops /\ list \in Seq(PairType)
  BY DEF IInv, Typed, Running
<1>2. PICK r \in 1 .. Len(list) : LastSuper(list, Len(list), r) /\ Writes(r)
  BY DEF IInv, Running
<1> PICK i, d, t, q : i = op.at /\ d = op.old /\ t = op.new /\ q = Root'
  OBVIOUS
<1>3. /\ i \in 1 .. Len(list) /\ i \in Nat /\ Len(list) \in Nat
      /\ IsSplice(list', PairType, list, i, pair, t, d)
      /\ q \in 1 .. Len(list') /\ q \in Nat /\ LastSuper(list', Len(list'), q)
      /\ list'[q].at = Target.at /\ list'[q].super = Target.super
  BY <1>2, LinkedList
<1>4. list' \in Seq(PairType) /\ (\A k \in 1 .. i - 1 : list'[k] = list[k]) /\ list'[i] = pair
  BY <1>3 DEF IsSplice
<1>5. q \in 1 .. Len(list') /\ q \in Nat /\ Len(list') \in Nat
  BY <1>3, <1>4, LenProperties
<1>6. list'[q] \in PairType /\ list'[q].at = Target.at /\ list'[q].super = Target.super
  BY <1>3, <1>4, ElementOfSeq
<1>7. LastSuper(list', Len(list'), q)
  BY <1>3
<1>8. Root' = q
  OBVIOUS
<1>9. Formatted'
  <2>1. HasSuper(list[1])
    BY <1>1, <1>3, EmptySeq DEF Formatted
  <2>2. CASE i = 1
    BY <1>1, <1>2, <1>4, <2>1, <2>2, EditedPair, HasSuperIsSuper DEF Formatted
  <2>3. CASE i # 1
    <3>1. 1 \in 1 .. i - 1
      BY <1>3, <2>3
    <3> QED
      BY <1>4, <2>1, <3>1 DEF Formatted
  <2> QED
    BY <2>2, <2>3
<1>10. UNCHANGED <<end, walk>>
  BY DEF Linked
<1>11. CASE op.step = "upgrade"
  <2>1. /\ lfs' = [lfs EXCEPT !.needs = FALSE]
        /\ op' = [Commit("put", op.arg, "write", "val", op.arg) EXCEPT !.at = Root']
    BY <1>11 DEF Linked
  <2>2. /\ lfs' \in Fields /\ lfs'.on /\ lfs'.root = lfs.root /\ lfs'.max = lfs.max
        /\ lfs'.needs = FALSE /\ lfs'.count = lfs.count
    BY <1>1, <2>1 DEF Fields
  <2>3. op.kind = "put" /\ op.arg \in Vals /\ op.arg \in Nat
    BY <1>2, <1>11, SuperAssumption DEF Writes, Promised
  <2>4. /\ op' \in Ops
        /\ op'.kind = "put" /\ op'.arg = op.arg /\ op'.step = "write" /\ op'.at = q /\ ~op'.split
        /\ op'.edit.part = "val" /\ op'.edit.to = op.arg /\ op'.new = <<>> /\ op'.old = 0
        /\ Len(op'.new) = 0
    <3>1. op' = [kind |-> "put", arg |-> op.arg, step |-> "write", at |-> q,
                 edit |-> [part |-> "val", to |-> op.arg], split |-> FALSE, new |-> <<>>,
                 old |-> 0]
      BY <1>8, <2>1 DEF Commit
    <3> QED
      BY <1>5, <2>3, <3>1, CommitFields
  <2>5. Target' = [list'[q] EXCEPT !.val = op.arg]
    BY <2>4 DEF Target, Edited
  <2>6. Target'.super = Target.super /\ Target'.at = Target.at
    BY <1>6, <2>5 DEF PairType
  <2>7. /\ Target.super \in Supers /\ Target.super.minor = LFS_DISK_VERSION_MINOR
        /\ lfs.count = Target.super.count /\ lfs.max = Target.super.max /\ lfs.root = Target.at
    BY <1>2, <1>11 DEF Writes, Promised
  <2>75. (Target.super.minor < LFS_DISK_VERSION_MINOR) = FALSE
    BY <2>7 DEF LFS_DISK_VERSION_MINOR
  <2>8. Agrees(Target.super)'
    BY <2>2, <2>6, <2>7, <2>75 DEF Agrees
  <2>9. Agrees(list[q].super)'
    BY <1>6, <2>2, <2>7, <2>75 DEF Agrees
  <2>10. Span(q)'
    BY <1>5, <2>4 DEF Span
  <2>11. Promised(q)'
    BY <2>2, <2>3, <2>4, <2>6, <2>7, <2>8, <2>9 DEF Promised
  <2>12. Writes(q)'
    BY <2>3, <2>4, <2>10, <2>11 DEF Writes, Change
  <2>13. Typed' /\ Mounting'
    BY <1>1, <1>4, <1>10, <2>2, <2>4 DEF Typed, Mounting
  <2>14. Running' /\ Mounted'
    BY <1>1, <1>5, <1>7, <1>10, <2>2, <2>4, <2>12, NothingTyped DEF Running, Mounted
  <2> QED
    BY <1>9, <2>13, <2>14 DEF IInv
<1>12. CASE op.step # "upgrade"
  <2>1. op' = NoOp /\ lfs' = lfs
    BY <1>12 DEF Linked
  <2>2. lfs.root = Target.at /\ Agrees(Target.super)
    BY <1>2, <1>12 DEF Writes, Promised
  <2>3. lfs'.root = list'[q].at /\ Agrees(list[q].super)'
    BY <1>6, <2>1, <2>2 DEF Agrees
  <2>4. Typed' /\ Mounting'
    BY <1>1, <1>4, <1>10, <2>1, NothingTyped DEF Typed, Mounting
  <2>5. Running' /\ Mounted'
    BY <1>1, <1>5, <1>7, <1>10, <2>1, <2>3, NothingTyped DEF Running, Mounted
  <2> QED
    BY <1>9, <2>4, <2>5 DEF IInv
<1> QED
  BY <1>11, <1>12

LEMMA CommitInPlaceSafe ==
  ASSUME IInv, CommitInPlace
  PROVE  IInv'
<1>1. op.kind \in {"put", "grow"} /\ Linked(Edited)
  BY DEF CommitInPlace, Writing
<1>2. PICK r \in 1 .. Len(list) : Writes(r)
  BY <1>1 DEF IInv, Running
<1>3. Edited \in PairType
  BY <1>2, EditedPair DEF IInv
<1> QED
  BY <1>1, <1>3, LinkedSafe

LEMMA ExpandHeadSafe ==
  ASSUME IInv, ExpandHead
  PROVE  IInv'
<1> DEFINE pair == [Edited EXCEPT !.val = 0]
<1>1. op.split /\ Linked(pair)
  BY DEF ExpandHead
<1>2. op.kind \in {"put", "grow"}
  <2>1. op.kind \in {"none", "format", "put", "grow"}
    BY DEF IInv, Typed, Ops
  <2>2. op.kind # "none" /\ op.kind # "format"
    BY <1>1 DEF IInv, Running, NoOp
  <2> QED
    BY <2>1, <2>2
<1>3. PICK r \in 1 .. Len(list) : Writes(r)
  BY <1>2 DEF IInv, Running
<1>4. Edited \in PairType
  BY <1>3, EditedPair DEF IInv
<1>5. pair \in PairType /\ pair.at = Edited.at /\ pair.super = Edited.super
  BY <1>4, SuperAssumption DEF PairType
<1> HIDE DEF pair
<1> QED
  BY <1>1, <1>2, <1>5, LinkedSafe

\* The pair that is written goes to a new block, and lfs.root with it if it is
\* the root directory's.
LEMMA CopySafe ==
  ASSUME IInv, NEW r \in 1 .. Len(list), Writes(r), lfs.on, NEW new \in Free,
         op'.new = <<[Edited EXCEPT !.at = new]>> \o op.new, MoveTo(new),
         op'.kind = op.kind, op'.arg = op.arg, op'.step = op.step
  PROVE  /\ op'.new \in Seq(PairType) /\ op'.new # <<>>
         /\ Len(op'.new) = Len(op.new) + 1
         /\ op'.new[Len(op'.new)].at \notin Ats(list)
         /\ Promised(r)'
         /\ lfs' \in Fields /\ lfs'.on
<1> DEFINE copy == [Edited EXCEPT !.at = new]
<1>1. /\ Typed /\ lfs \in Fields /\ op.new \in Seq(PairType) /\ list' = list
      /\ lfs' = [lfs EXCEPT !.root = IF @ = list[op.at].at THEN new ELSE @]
  BY DEF IInv, Typed, Ops, MoveTo, disk
<1>2. new \notin Ats(list) /\ new \in 0 .. Blocks - 1 /\ new \in Nat
  <2>1. new \in 1 .. lfs.count - 1 /\ new \notin Ats(list)
    BY DEF Free
  <2>2. lfs.count \in {0} \cup Counts
    BY <1>1 DEF Fields
  <2>3. lfs.count \in Nat /\ lfs.count <= Blocks /\ Blocks \in Nat
    <3>1. Blocks \in Nat /\ \A c \in Counts : c \in 1 .. Blocks
      BY SuperAssumption
    <3> QED
      BY <2>2, <3>1
  <2> QED
    BY <2>1, <2>3
<1>3. Edited \in PairType /\ Edited.at = list[op.at].at /\ list[op.at].at \in Ats(list)
  BY <1>1, EditedPair DEF Ats
<1>4. copy \in PairType /\ copy.at = new /\ copy.super = Edited.super
  BY <1>2, <1>3 DEF PairType
<1>5. lfs' \in Fields /\ lfs'.on /\ lfs'.count = lfs.count /\ lfs'.max = lfs.max /\ lfs'.needs = lfs.needs
      /\ lfs'.root = IF lfs.root = list[op.at].at THEN new ELSE lfs.root
  <2>1. (IF lfs.root = list[op.at].at THEN new ELSE lfs.root) \in Nat
    BY <1>1, <1>2 DEF Fields
  <2> QED
    BY <1>1, <2>1 DEF Fields
<1> HIDE DEF copy
<1> PICK t, u : t = op.new /\ u = op'.new
  OBVIOUS
<1>6. /\ u \in Seq(PairType) /\ Len(u) = Len(t) + 1 /\ Len(t) \in Nat /\ t \in Seq(PairType)
      /\ u[1] = copy /\ \A k \in 1 .. Len(t) : u[k + 1] = t[k]
  <2>1. u = <<copy>> \o t /\ t \in Seq(PairType)
    <3>1. op'.new = <<copy>> \o op.new /\ op.new \in Seq(PairType)
      BY <1>1 DEF copy
    <3> QED
      BY ONLY <3>1, t = op.new, u = op'.new
  <2> QED
    BY ONLY <1>4, <2>1, Prepended
<1>7. u # <<>> /\ Target' = u[Len(u)]
  <2>1. u # <<>>
    BY <1>6, EmptySeq
  <2> QED
    BY <2>1 DEF Target
<1>8. u[Len(u)].super = Target.super /\ u[Len(u)].at \notin Ats(list) /\ lfs'.root = u[Len(u)].at
  <2>1. lfs.root = Target.at
    BY DEF Writes, Promised
  <2>2. CASE t = <<>>
    <3>1. u[Len(u)] = copy /\ Target = Edited
      BY <1>6, <2>2, EmptySeq DEF Target
    <3> QED
      BY <1>2, <1>3, <1>4, <1>5, <2>1, <3>1
  <2>3. CASE t # <<>>
    <3>1. Len(t) \in 1 .. Len(t)
      BY <1>6, <2>3, EmptySeq
    <3>2. u[Len(u)] = t[Len(t)] /\ Target = t[Len(t)]
      BY <1>6, <2>3, <3>1 DEF Target
    <3>3. Target.at \notin Ats(list)
      BY <2>3, <3>2 DEF Writes, Span
    <3> QED
      BY <1>3, <1>5, <2>1, <3>2, <3>3
  <2> QED
    BY <2>2, <2>3
<1>9. Target'.super = Target.super /\ lfs'.root = Target'.at
  BY <1>7, <1>8
<1>10. Agrees(Target.super)' = Agrees(Target.super) /\ Agrees(list[r].super)' = Agrees(list[r].super)
  BY <1>1, <1>5, <1>9 DEF Agrees
<1>11. Promised(r)'
  BY <1>5, <1>9, <1>10 DEF Writes, Promised
<1> QED
  BY <1>5, <1>6, <1>7, <1>8, <1>11

\* The first pair is worn: its copy waits for the commit that links it.
LEMMA ExpandSafe ==
  ASSUME IInv, Expand
  PROVE  IInv'
<1>1. op.kind \in {"put", "grow"} /\ op.at = 1 /\ ~op.split
  BY DEF Expand, Writing
<1>2. PICK new \in Free :
        /\ op' = [op EXCEPT !.split = TRUE, !.new = <<[Edited EXCEPT !.at = new]>> \o @]
        /\ MoveTo(new)
  BY DEF Expand
<1>3. PICK r \in 1 .. Len(list) : LastSuper(list, Len(list), r) /\ Writes(r)
  BY <1>1 DEF IInv, Running
<1>4. Typed /\ Formatted /\ op \in Ops /\ lfs.on /\ ~walk.on /\ UNCHANGED <<list, end, walk>>
  BY <1>1, <1>2 DEF IInv, Typed, Running, MoveTo, disk
<1> PICK u : u = <<[Edited EXCEPT !.at = new]>> \o op.new
  OBVIOUS
<1>5. op' = [op EXCEPT !.split = TRUE, !.new = u]
  BY <1>2
<1>6. /\ op'.new = u /\ op'.split = TRUE /\ op'.kind = op.kind /\ op'.arg = op.arg
      /\ op'.step = op.step /\ op'.at = op.at /\ op'.old = op.old /\ op'.edit = op.edit
  BY <1>4, <1>5 DEF Ops
<1>7. /\ u \in Seq(PairType) /\ u # <<>> /\ Len(u) = Len(op.new) + 1
      /\ u[Len(u)].at \notin Ats(list) /\ Promised(r)' /\ lfs' \in Fields /\ lfs'.on
  BY <1>2, <1>3, <1>4, <1>6, CopySafe
<1>8. op' \in Ops
  BY <1>4, <1>5, <1>7 DEF Ops
<1>9. Span(r)'
  <2>1. Span(r) /\ op.old \in Nat
    BY <1>3, <1>4 DEF Writes, Ops
  <2>2. Len(op.new) = op.old
    BY <1>1, <2>1 DEF Span
  <2>3. Ats(list)' = Ats(list)
    BY <1>4 DEF Ats
  <2> QED
    BY <1>1, <1>4, <1>6, <1>7, <2>1, <2>2, <2>3 DEF Span
<1>10. Change'
  BY <1>3, <1>6 DEF Writes, Change
<1>11. Typed' /\ Formatted' /\ Mounting'
  BY <1>4, <1>7, <1>8 DEF Typed, Formatted, Mounting
<1>12. Running' /\ Mounted'
  BY <1>1, <1>3, <1>4, <1>6, <1>7, <1>9, <1>10, NothingTyped DEF Running, Mounted, Writes
<1> QED
  BY <1>11, <1>12 DEF IInv

\* Another pair moves: the commit goes on to its predecessor.
LEMMA MoveSafe ==
  ASSUME IInv, Move
  PROVE  IInv'
<1>1. op.kind \in {"put", "grow"} /\ op.at > 1 /\ ~op.split
  BY DEF Move, Writing
<1>2. PICK new \in Free :
        /\ op' = [op EXCEPT !.at = @ - 1, !.old = @ + 1,
                            !.edit = [part |-> "tail", to |-> new],
                            !.new = <<[Edited EXCEPT !.at = new]>> \o @]
        /\ MoveTo(new)
  BY DEF Move
<1>3. PICK r \in 1 .. Len(list) : LastSuper(list, Len(list), r) /\ Writes(r)
  BY <1>1 DEF IInv, Running
<1>4. Typed /\ Formatted /\ op \in Ops /\ lfs.on /\ ~walk.on /\ UNCHANGED <<list, end, walk>>
  BY <1>1, <1>2 DEF IInv, Typed, Running, MoveTo, disk
<1> PICK u, e : u = <<[Edited EXCEPT !.at = new]>> \o op.new /\ e = [part |-> "tail", to |-> new]
  OBVIOUS
<1>5. op' = [op EXCEPT !.at = op.at - 1, !.old = op.old + 1, !.edit = e, !.new = u]
  BY <1>2
<1>6. /\ op'.new = u /\ op'.split = FALSE /\ op'.kind = op.kind /\ op'.arg = op.arg
      /\ op'.step = op.step /\ op'.at = op.at - 1 /\ op'.old = op.old + 1 /\ op'.edit = e
  BY <1>1, <1>4, <1>5 DEF Ops
<1>7. /\ u \in Seq(PairType) /\ u # <<>> /\ Len(u) = Len(op.new) + 1
      /\ u[Len(u)].at \notin Ats(list) /\ Promised(r)' /\ lfs' \in Fields /\ lfs'.on
  BY <1>2, <1>3, <1>4, <1>6, CopySafe
<1>8. op' \in Ops
  <2>1. e \in Edits
    BY DEF Edits, Free
  <2>2. op.at - 1 \in Nat /\ op.old + 1 \in Nat
    BY <1>1, <1>4 DEF Ops
  <2> QED
    BY <1>4, <1>5, <1>7, <2>1, <2>2 DEF Ops
<1>9. Span(r)'
  <2>1. Span(r) /\ op.old \in Nat /\ op.at \in Nat /\ r \in Nat
    BY <1>3, <1>4 DEF Writes, Ops
  <2>2. Len(op.new) = op.old
    BY <1>1, <2>1 DEF Span
  <2>3. Ats(list)' = Ats(list)
    BY <1>4 DEF Ats
  <2>4. op.at \in 1 .. r /\ op.old = r - op.at
    BY <2>1 DEF Span
  <2>5. op.at - 1 \in 1 .. r /\ op.old + 1 = r - (op.at - 1)
    BY <1>1, <2>1, <2>4
  <2>6. u[Len(u)].at \notin Ats(list)'
    BY <1>7, <2>3
  <2> QED
    BY <1>6, <1>7, <2>2, <2>5, <2>6 DEF Span
<1>10. Change'
  BY <1>6 DEF Change
<1>11. Typed' /\ Formatted' /\ Mounting'
  BY <1>4, <1>7, <1>8 DEF Typed, Formatted, Mounting
<1>12. Running' /\ Mounted'
  BY <1>1, <1>3, <1>4, <1>6, <1>7, <1>9, <1>10, NothingTyped DEF Running, Mounted, Writes
<1> QED
  BY <1>11, <1>12 DEF IInv

LEMMA StepSafe ==
  ASSUME IInv, FailuresAreClean, [Next]_vars
  PROVE  IInv'
<1>1. CASE UNCHANGED vars
  <2>1. UNCHANGED <<list, end, lfs, walk, op>>
    BY <1>1 DEF vars, disk
  <2>2. Typed' /\ Formatted' /\ Mounting'
    BY <2>1 DEF IInv, Typed, Formatted, Mounting, Agrees
  <2>3. Target' = Target
    BY <2>1 DEF Target, Edited
  <2>4. \A r : Writes(r)' <=> Writes(r)
    BY <2>1, <2>3 DEF Writes, Span, Promised, Change, Agrees, Ats
  <2>5. Running' /\ Mounted'
    BY <2>1, <2>4 DEF IInv, Running, Mounted, Agrees
  <2> QED
    BY <2>2, <2>5 DEF IInv
<1>2. CASE Next
  BY <1>2, MountCallSafe, FormatCallSafe, FormatSafe, MountTurnSafe, MountEndsSafe, LoseSafe,
     DamageSafe, PutCallSafe, GrowCallSafe, CommitInPlaceSafe, CommitFailsSafe, ExpandSafe,
     ExpandHeadSafe, MoveSafe DEF Next
<1> QED
  BY <1>1, <1>2

-----------------------------------------------------------------------------
(***************************************************************************)
(* The type of the state.  The pairs in flight are bounded because no      *)
(* block is in two of them, the period of the tortoise because it has      *)
(* entered the cycle before the period is longer than the list.            *)
(***************************************************************************)

Apart ==
  /\ \A j, k \in 1 .. Len(list) : j # k => list[j].at # list[k].at
  /\ \A j, k \in 1 .. Len(op.new) : j # k => op.new[j].at # op.new[k].at
  /\ \A j \in 1 .. Len(list), k \in 1 .. Len(op.new) : list[j].at # op.new[k].at

\* The walk is i turns beyond the tortoise.  Before the list turns back, the
\* tortoise is as far as the period is long; once it is in the cycle, the walk
\* meets it in the first lap.
Place(i, period, pair, tail) ==
  LET n == Len(list) IN
  \/ period = 1 /\ i = 1 /\ pair = 0 /\ tail = 1
  \/ /\ period \in 2 .. 2 * n /\ pair \in 1 .. n
     /\ \/ pair = period - 1 /\ pair + i <= n /\ tail = pair + i
        \/ pair = period - 1 /\ end \notin 1 .. n /\ pair + i = n + 1 /\ tail = end
        \/ pair = period - 1 /\ end \in pair + 1 .. n /\ tail \in end .. n
        \/ end \in 1 .. pair /\ pair + i <= n /\ tail = pair + i
        \/ end \in 1 .. pair /\ tail \in end .. pair /\ tail = end + pair + i - n - 1

Turning ==
  IF walk.on THEN /\ walk.cfg \in Configs /\ walk.i \in 1 .. walk.period
                  /\ Place(walk.i, walk.period, walk.pair, walk.tail)
  ELSE walk = NoWalk

Ranged ==
  /\ end \in {Null, Wild} \cup 1 .. Len(list)
  /\ lfs.root \in 0 .. Wild
  /\ op.kind \notin {"put", "grow"} => op.at = Null /\ op.new = <<>> /\ op.old = 0

Counted ==
  /\ answer \in {"none", "Ok", "Io", "Invalid", "Corrupt"}
  /\ calls \in 0 .. MaxCalls /\ moves \in 0 .. MaxMoves /\ damaged \in BOOLEAN

TInv == IInv /\ Apart /\ Turning /\ Ranged /\ Counted

\* As many pairs as blocks, at most.
LEMMA PairsFit ==
  ASSUME Typed, Apart
  PROVE  Len(list) \in Nat /\ Len(op.new) \in Nat /\ Len(list) + Len(op.new) <= Blocks
<1> PICK n, m : n = Len(list) /\ m = Len(op.new)
  OBVIOUS
<1>1. /\ n \in Nat /\ m \in Nat /\ Blocks \in Nat
      /\ \A k \in 1 .. n : list[k] \in PairType
      /\ \A k \in 1 .. m : op.new[k] \in PairType
  BY LenProperties, ElementOfSeq, SuperAssumption DEF Typed, Ops
<1> DEFINE B == 0 .. Blocks - 1
           f == [k \in 1 .. n + m |-> IF k <= n THEN list[k].at ELSE op.new[k - n].at]
<1>2. \A k \in 1 .. n + m : k > n => k - n \in 1 .. m
  BY <1>1
<1>3. f \in [1 .. n + m -> B]
  <2> SUFFICES ASSUME NEW k \in 1 .. n + m PROVE f[k] \in B
    OBVIOUS
  <2>1. CASE k <= n
    BY <1>1, <2>1 DEF PairType
  <2>2. CASE ~(k <= n)
    <3>1. k - n \in 1 .. m
      BY <1>1, <1>2, <2>2
    <3> QED
      BY <1>1, <2>2, <3>1 DEF PairType
  <2> QED
    BY <2>1, <2>2
<1>4. ASSUME NEW j \in 1 .. n + m, NEW k \in 1 .. n + m, j # k PROVE f[j] # f[k]
  <2>1. j <= n \/ j - n \in 1 .. m
    BY <1>1, <1>2
  <2>2. k <= n \/ k - n \in 1 .. m
    BY <1>1, <1>2
  <2>3. CASE j <= n /\ k <= n
    BY <1>1, <1>4, <2>3 DEF Apart
  <2>4. CASE j <= n /\ ~(k <= n)
    BY <1>1, <2>2, <2>4 DEF Apart
  <2>5. CASE ~(j <= n) /\ k <= n
    BY <1>1, <2>1, <2>5 DEF Apart
  <2>6. CASE ~(j <= n) /\ ~(k <= n)
    <3>1. j - n \in 1 .. m /\ k - n \in 1 .. m /\ j - n # k - n
      BY <1>1, <1>4, <2>1, <2>2, <2>6
    <3> QED
      BY <2>6, <3>1 DEF Apart
  <2> QED
    BY <2>3, <2>4, <2>5, <2>6
<1>5. f \in Injection(1 .. n + m, B)
  <2> HIDE DEF f, B
  <2> QED
    BY ONLY <1>3, <1>4 DEF Injection, IsInjective
<1>6. /\ IsFiniteSet(B) /\ Cardinality(B) = Blocks
      /\ Cardinality(1 .. n + m) = n + m
  <2>1. 0 \in Int /\ Blocks - 1 \in Int /\ 1 \in Int /\ n + m \in Int
    BY <1>1
  <2>2. /\ IsFiniteSet(B) /\ Cardinality(B) = IF 0 > Blocks - 1 THEN 0 ELSE Blocks - 1 - 0 + 1
        /\ Cardinality(1 .. n + m) = IF 1 > n + m THEN 0 ELSE n + m - 1 + 1
    <3>1. IsFiniteSet(B) /\ Cardinality(B) = IF 0 > Blocks - 1 THEN 0 ELSE Blocks - 1 - 0 + 1
      BY ONLY <2>1, FS_Interval
    <3>2. Cardinality(1 .. n + m) = IF 1 > n + m THEN 0 ELSE n + m - 1 + 1
      <4> PICK h : h = n + m
        OBVIOUS
      <4>1. h \in Int
        BY <2>1
      <4>2. Cardinality(1 .. h) = IF 1 > h THEN 0 ELSE h - 1 + 1
        BY ONLY <2>1, <4>1, FS_Interval
      <4> QED
        BY <4>2
    <3> QED
      BY <3>1, <3>2
  <2> QED
    BY <1>1, <2>2, SuperAssumption
<1>7. Cardinality(1 .. n + m) <= Cardinality(B)
  <2> HIDE DEF f, B
  <2> QED
    BY <1>5, <1>6, FS_Injection
<1> QED
  BY <1>1, <1>6, <1>7

LEMMA TypeFollows == TInv => TypeOK
<1> SUFFICES ASSUME TInv PROVE TypeOK
  OBVIOUS
<1>1. /\ IInv /\ Typed /\ Apart /\ Turning /\ Ranged /\ Counted
  BY DEF TInv, IInv
<1>2. Len(list) \in Nat /\ Len(op.new) \in Nat /\ Len(list) + Len(op.new) <= Blocks /\ Blocks \in Nat
      /\ Blocks >= 1 /\ DOMAIN list = 1 .. Len(list)
  BY <1>1, PairsFit, LenProperties, SuperAssumption DEF Typed
<1>3. list \in Seq([at: 0..Blocks - 1, super: Supers \union {NoSuper}, val: Vals])
  BY <1>1 DEF Typed, PairType
<1>4. lfs \in [on: BOOLEAN, root: 0..Wild, count: {0} \union Counts, max: {0} \union Maxes, needs: BOOLEAN]
  BY <1>1 DEF Typed, Fields, Ranged
<1>5. /\ walk.cfg \in Configs \union {NoWalk.cfg}
      /\ walk.tail \in {Null, Wild} \union DOMAIN list \union {1}
      /\ walk.i \in 0..walk.period /\ walk.period <= 4 * Blocks
  <2>1. CASE walk.on
    <3> PICK i, p, q, t, n : /\ i = walk.i /\ p = walk.period /\ q = walk.pair /\ t = walk.tail
                             /\ n = Len(list)
      OBVIOUS
    <3>1. i \in 1 .. p /\ Place(i, p, q, t) /\ walk.cfg \in Configs
      BY <1>1, <2>1 DEF Turning
    <3>2. i \in Nat /\ p \in Nat /\ q \in Nat /\ t \in Nat
      BY <1>1 DEF Typed, Walks
    <3>3. end \in {Null, Wild} \cup 1 .. n
      BY <1>1 DEF Ranged
    <3>4. n \in Nat /\ n <= Blocks
      BY <1>2
    <3>5. i \in 0 .. p
      BY <3>1, <3>2
    <3>6. t \in {Null, Wild} \cup 1 .. n \cup {1}
      BY SMTT(30), <3>1, <3>2, <3>3, <3>4 DEF Place
    <3>7. p = 1 \/ p \in 2 .. 2 * n
      BY <3>1 DEF Place
    <3>8. p <= 4 * Blocks
      BY ONLY <1>2, <3>2, <3>4, <3>7
    <3> QED
      BY <1>2, <3>1, <3>5, <3>6, <3>8
  <2>2. CASE ~walk.on
    BY <1>1, <1>2, <2>2 DEF Turning, NoWalk
  <2> QED
    BY <2>1, <2>2
<1>6. op.at \in {Null} \union DOMAIN list /\ op.old + Len(op.new) <= Blocks
  <2>1. CASE op.kind \in {"put", "grow"}
    <3>1. PICK r \in 1 .. Len(list) : Writes(r)
      BY <1>1, <2>1 DEF IInv, Running
    <3>2. op.at \in 1 .. r /\ op.old = r - op.at
      BY <3>1 DEF Writes, Span
    <3> QED
      BY <1>2, <3>1, <3>2
  <2>2. CASE op.kind \notin {"put", "grow"}
    BY <1>1, <1>2, <2>2, EmptySeq DEF Ranged
  <2> QED
    BY <2>1, <2>2
<1> QED
  BY <1>1, <1>2, <1>3, <1>4, <1>5, <1>6 DEF TypeOK, Ranged, Counted

InRange == Apart /\ Turning /\ Ranged /\ Counted

\* Nothing is written.
LEMMA StaysApart ==
  ASSUME Apart, list' = list, op' = op \/ op' = NoOp
  PROVE  Apart'
<1>1. op'.new = op.new \/ op'.new = <<>>
  BY DEF NoOp
<1>2. CASE op'.new = <<>>
  <2>1. \A k \in 1 .. Len(op'.new) : FALSE
    BY <1>2, EmptySeq
  <2> QED
    BY <2>1 DEF Apart
<1> QED
  BY <1>1, <1>2 DEF Apart

\* Nor is there a turn.
LEMMA StillTurning ==
  ASSUME Turning, walk' = walk, ~walk.on \/ (list' = list /\ end' = end)
  PROVE  Turning'
BY DEF Turning, Place

LEMMA Ranges ==
  /\ NoLfs.root = Wild /\ 0 \in 0 .. Wild /\ Wild \in 0 .. Wild /\ Blocks \in Nat /\ Blocks > 0
  /\ NoOp.kind = "none" /\ NoOp.at = Null /\ NoOp.new = <<>> /\ NoOp.old = 0
  /\ ~NoWalk.on
BY SuperAssumption DEF NoLfs, NoOp, NoWalk, Wild, Null

LEMMA MountCallInRange ==
  ASSUME TInv, NEW cfg \in Configs, MountCall(cfg)
  PROVE  InRange'
<1>1. /\ list' = list /\ end' = end /\ op' = op /\ calls' = calls /\ moves' = moves /\ damaged' = damaged
      /\ answer' = "none" /\ lfs' = [NoLfs EXCEPT !.count = cfg.count, !.max = cfg.max]
      /\ walk' = [on |-> TRUE, tail |-> 1, cfg |-> cfg, pair |-> Null, i |-> 1, period |-> 1]
  BY DEF MountCall, disk
<1>2. lfs'.root = Wild
  BY <1>1 DEF NoLfs
<1>3. /\ walk'.on /\ walk'.cfg = cfg /\ walk'.i = 1 /\ walk'.period = 1 /\ walk'.pair = 0
      /\ walk'.tail = 1
  BY <1>1 DEF Null
<1>4. Turning'
  <2>1. Place(walk.i, walk.period, walk.pair, walk.tail)'
    BY <1>3 DEF Place
  <2> QED
    BY <1>3, <2>1 DEF Turning
<1> QED
  BY <1>1, <1>2, <1>4, StaysApart, Ranges DEF TInv, InRange, Ranged, Counted

\* A turn goes one pair further, and the tortoise follows at the end of a period.
LEMMA MountTurnInRange ==
  ASSUME TInv, MountTurn
  PROVE  InRange'
<1>1. /\ walk.on /\ walk.tail # Null /\ list' = list /\ end' = end /\ op' = op
      /\ calls' = calls /\ moves' = moves /\ damaged' = damaged
      /\ Typed /\ Turning /\ Ranged /\ Counted
  BY DEF MountTurn, MountFails, disk, TInv, IInv
<1>2. Apart'
  BY <1>1, StaysApart DEF TInv
<1>3. CASE lfs' = NoLfs /\ walk' = NoWalk /\ answer' \in {"Corrupt", "Invalid"}
  BY <1>1, <1>2, <1>3, Ranges DEF InRange, Turning, Ranged, Counted
<1>4. CASE /\ ~Cycle /\ ~Unreadable(walk.tail) /\ answer' = answer
           /\ walk' = [Stepped EXCEPT !.tail = TailOf(walk.tail)]
           /\ lfs' = IF HasSuper(list[walk.tail]) THEN Learned(list[walk.tail]) ELSE lfs
  <2> PICK i, p, q, t, n : /\ i = walk.i /\ p = walk.period /\ q = walk.pair /\ t = walk.tail
                           /\ n = Len(list)
    OBVIOUS
  <2>1. n \in Nat /\ t \in 1 .. n /\ list[t] \in PairType
    BY <1>1, <1>4, LenProperties, ElementOfSeq DEF Typed, Unreadable
  <2>2. i \in Nat /\ p \in Nat /\ q \in Nat /\ end \in Nat /\ lfs \in Fields /\ walk \in Walks
    BY <1>1 DEF Typed, Walks
  <2>3. i \in 1 .. p /\ Place(i, p, q, t) /\ walk.cfg \in Configs
    BY <1>1 DEF Turning
  <2>4. t # q
    BY <1>4 DEF Cycle
  <2>5. lfs'.root \in 0 .. Wild
    <3>1. CASE HasSuper(list[t])
      <4>1. lfs'.root = list[t].at
        BY <1>4, <2>2, <3>1 DEF Learned, Fields
      <4> QED
        BY <2>1, <4>1, SuperAssumption DEF PairType, Wild
    <3>2. CASE ~HasSuper(list[t])
      BY <1>1, <1>4, <3>2 DEF Ranged
    <3> QED
      BY <3>1, <3>2
  <2> PICK u : u = TailOf(t)
    OBVIOUS
  <2>6. u = IF t < n THEN t + 1 ELSE end
    BY DEF TailOf
  <2>7. end \in {0, Wild} \cup 1 .. n
    BY <1>1 DEF Ranged, Null
  <2>8. n <= Blocks /\ Wild = Blocks + 1 /\ Blocks \in Nat
    BY <1>1, PairsFit, SuperAssumption DEF TInv, Wild
  <2>9. CASE i = p
    <3>1. Stepped = [walk EXCEPT !.pair = t, !.i = 1, !.period = 2 * p]
      BY <2>9 DEF Stepped
    <3>2. /\ walk'.on = walk.on /\ walk'.cfg = walk.cfg /\ walk'.i = 1 /\ walk'.period = 2 * p
          /\ walk'.pair = t /\ walk'.tail = u
      BY <1>4, <2>2, <3>1 DEF Walks
    <3>3. 1 \in 1 .. 2 * p
      BY <2>2, <2>3
    <3>4. \/ /\ 2 * p \in 2 .. 2 * n /\ t \in 1 .. n
             /\ \/ t = 2 * p - 1 /\ t + 1 <= n /\ u = t + 1
                \/ t = 2 * p - 1 /\ end \notin 1 .. n /\ t + 1 = n + 1 /\ u = end
                \/ t = 2 * p - 1 /\ end \in t + 1 .. n /\ u \in end .. n
                \/ end \in 1 .. t /\ t + 1 <= n /\ u = t + 1
                \/ end \in 1 .. t /\ u \in end .. t /\ u = end + t + 1 - n - 1
      <4>1. CASE p = 1 /\ i = 1 /\ q = 0 /\ t = 1
        BY ONLY <2>1, <2>2, <2>6, <2>7, <2>8, <4>1
      <4>2. CASE p \in 2 .. 2 * n /\ q \in 1 .. n /\ q = p - 1 /\ q + i <= n /\ t = q + i
        BY ONLY <2>1, <2>2, <2>6, <2>7, <2>8, <2>9, <4>2
      <4>3. CASE p \in 2 .. 2 * n /\ q \in 1 .. n /\ q = p - 1 /\ end \notin 1 .. n /\ q + i = n + 1 /\ t = end
        BY ONLY <2>1, <4>3
      <4>4. CASE p \in 2 .. 2 * n /\ q \in 1 .. n /\ q = p - 1 /\ end \in q + 1 .. n /\ t \in end .. n
        BY ONLY <2>1, <2>2, <2>6, <2>7, <2>8, <2>9, <4>4
      <4>5. CASE p \in 2 .. 2 * n /\ q \in 1 .. n /\ end \in 1 .. q /\ q + i <= n /\ t = q + i
        BY ONLY <2>1, <2>2, <2>6, <2>7, <2>8, <2>9, <4>5
      <4>6. CASE p \in 2 .. 2 * n /\ q \in 1 .. n /\ end \in 1 .. q /\ t \in end .. q /\ t = end + q + i - n - 1
        BY ONLY <2>1, <2>2, <2>4, <2>6, <2>7, <2>8, <2>9, <4>6
      <4> QED
        BY <2>3, <4>1, <4>2, <4>3, <4>4, <4>5, <4>6 DEF Place
    <3>5. Place(walk.i, walk.period, walk.pair, walk.tail)'
      BY <1>1, <3>2, <3>4 DEF Place
    <3> QED
      BY <1>1, <1>2, <1>4, <2>3, <2>5, <3>2, <3>3, <3>5 DEF InRange, Turning, Ranged, Counted
  <2>10. CASE i # p
    <3>1. Stepped = [walk EXCEPT !.i = i + 1]
      BY <2>10 DEF Stepped
    <3>2. /\ walk'.on = walk.on /\ walk'.cfg = walk.cfg /\ walk'.i = i + 1 /\ walk'.period = p
          /\ walk'.pair = q /\ walk'.tail = u
      BY <1>4, <2>2, <3>1 DEF Walks
    <3>3. i + 1 \in 1 .. p
      BY <2>2, <2>3, <2>10
    <3>4. /\ p \in 2 .. 2 * n /\ q \in 1 .. n
          /\ \/ q = p - 1 /\ q + (i + 1) <= n /\ u = q + (i + 1)
             \/ q = p - 1 /\ end \notin 1 .. n /\ q + (i + 1) = n + 1 /\ u = end
             \/ q = p - 1 /\ end \in q + 1 .. n /\ u \in end .. n
             \/ end \in 1 .. q /\ q + (i + 1) <= n /\ u = q + (i + 1)
             \/ end \in 1 .. q /\ u \in end .. q /\ u = end + q + (i + 1) - n - 1
      <4>1. CASE p = 1 /\ i = 1 /\ q = 0 /\ t = 1
        BY ONLY <2>10, <4>1
      <4>2. CASE p \in 2 .. 2 * n /\ q \in 1 .. n /\ q = p - 1 /\ q + i <= n /\ t = q + i
        BY ONLY <2>1, <2>2, <2>6, <2>7, <2>8, <4>2
      <4>3. CASE p \in 2 .. 2 * n /\ q \in 1 .. n /\ q = p - 1 /\ end \notin 1 .. n /\ q + i = n + 1 /\ t = end
        BY ONLY <2>1, <4>3
      <4>4. CASE p \in 2 .. 2 * n /\ q \in 1 .. n /\ q = p - 1 /\ end \in q + 1 .. n /\ t \in end .. n
        BY ONLY <2>1, <2>2, <2>6, <2>7, <2>8, <4>4
      <4>5. CASE p \in 2 .. 2 * n /\ q \in 1 .. n /\ end \in 1 .. q /\ q + i <= n /\ t = q + i
        BY ONLY <2>1, <2>2, <2>6, <2>7, <2>8, <4>5
      <4>6. CASE p \in 2 .. 2 * n /\ q \in 1 .. n /\ end \in 1 .. q /\ t \in end .. q /\ t = end + q + i - n - 1
        BY ONLY <2>1, <2>2, <2>4, <2>6, <2>7, <2>8, <4>6
      <4> QED
        BY <2>3, <4>1, <4>2, <4>3, <4>4, <4>5, <4>6 DEF Place
    <3>5. Place(walk.i, walk.period, walk.pair, walk.tail)'
      BY <1>1, <3>2, <3>4 DEF Place
    <3> QED
      BY <1>1, <1>2, <1>4, <2>3, <2>5, <3>2, <3>3, <3>5 DEF InRange, Turning, Ranged, Counted
  <2> QED
    BY <2>9, <2>10
<1>5. \/ lfs' = NoLfs /\ walk' = NoWalk /\ answer' \in {"Corrupt", "Invalid"}
      \/ /\ ~Cycle /\ ~Unreadable(walk.tail) /\ answer' = answer
         /\ walk' = [Stepped EXCEPT !.tail = TailOf(walk.tail)]
         /\ lfs' = IF HasSuper(list[walk.tail]) THEN Learned(list[walk.tail]) ELSE lfs
  BY DEF MountTurn, MountFails
<1> QED
  BY <1>3, <1>4, <1>5

LEMMA MountEndsInRange ==
  ASSUME TInv, MountEnds
  PROVE  InRange'
<1>1. /\ list' = list /\ end' = end /\ op' = op /\ calls' = calls /\ moves' = moves /\ damaged' = damaged
      /\ answer' = "Ok" /\ walk' = NoWalk /\ lfs' = [lfs EXCEPT !.on = TRUE] /\ lfs \in Fields
  BY DEF MountEnds, disk, TInv, IInv, Typed
<1>2. lfs'.root = lfs.root
  BY <1>1 DEF Fields
<1> QED
  BY <1>1, <1>2, StaysApart, Ranges DEF TInv, InRange, Turning, Ranged, Counted

LEMMA LoseInRange ==
  ASSUME TInv, Lose
  PROVE  InRange'
<1>1. /\ list' = list /\ end' = end /\ op' = NoOp /\ calls' = calls /\ moves' = moves /\ damaged' = damaged
      /\ answer' = "none" /\ walk' = NoWalk /\ lfs' = NoLfs
  BY DEF Lose, disk
<1> QED
  BY <1>1, StaysApart, Ranges DEF TInv, InRange, Turning, Ranged, Counted

LEMMA DamageInRange ==
  ASSUME TInv, Damage
  PROVE  InRange'
<1>1. /\ lfs' = lfs /\ walk' = walk /\ op' = op /\ answer' = answer /\ calls' = calls /\ moves' = moves
      /\ damaged' = TRUE /\ op = NoOp /\ ~walk.on /\ Typed
  BY DEF Damage, Idle, TInv, IInv
<1>2. PICK k \in DOMAIN list : list' = SubSeq(list, 1, k) /\ end' \in 1 .. k \cup {Wild}
  BY DEF Damage
<1>3. Len(list) \in Nat /\ k \in 1 .. Len(list) /\ \A j \in 1 .. k : list[j] \in PairType
  BY <1>1, <1>2, LenProperties, ElementOfSeq DEF Typed
<1>4. Len(list') = k /\ \A j \in 1 .. k : list'[j] = list[j]
  <2>1. /\ Len(SubSeq(list, 1, k)) = IF 1 <= k THEN k - 1 + 1 ELSE 0
        /\ \A j \in 1 .. k - 1 + 1 : SubSeq(list, 1, k)[j] = list[1 + j - 1]
    BY <1>3, SubSeqProperties
  <2> QED
    BY <1>2, <1>3, <2>1
<1>5. Apart'
  <2>1. \A j \in 1 .. k : j \in 1 .. Len(list)
    BY <1>3
  <2>2. \A j, l \in 1 .. k : j # l => list'[j].at # list'[l].at
    BY <1>4, <2>1 DEF TInv, Apart
  <2>3. \A l \in 1 .. Len(op'.new) : FALSE
    BY <1>1, Ranges, EmptySeq
  <2> QED
    BY <1>4, <2>2, <2>3 DEF Apart
<1>6. Turning'
  BY <1>1, StillTurning DEF TInv
<1> QED
  BY <1>1, <1>2, <1>4, <1>5, <1>6 DEF TInv, InRange, Ranged, Counted

LEMMA FormatCallInRange ==
  ASSUME TInv, NEW cfg \in Configs, FormatCall(cfg)
  PROVE  InRange'
<1>1. /\ list' = list /\ end' = end /\ lfs' = lfs /\ walk' = walk /\ moves' = moves /\ damaged' = damaged
      /\ op' = [NoOp EXCEPT !.kind = "format", !.arg = cfg] /\ op = NoOp
      /\ calls' = calls + 1 /\ calls < MaxCalls /\ answer' = "none"
  BY DEF FormatCall, Idle, disk
<1>2. op'.kind = "format" /\ op'.at = Null /\ op'.new = <<>> /\ op'.old = 0
  BY <1>1 DEF NoOp
<1>3. Apart'
  BY <1>1, <1>2, Ranges DEF TInv, Apart
<1>4. Counted'
  BY <1>1, SuperAssumption DEF TInv, Counted
<1>5. Turning'
  BY <1>1, StillTurning DEF TInv
<1> QED
  BY <1>1, <1>2, <1>3, <1>4, <1>5 DEF TInv, InRange, Ranged

LEMMA FormatInRange ==
  ASSUME TInv, lfs_format_
  PROVE  InRange'
<1> PICK p : p = Pair(0, [minor |-> LFS_DISK_VERSION_MINOR,
                          count |-> op.arg.count, max |-> op.arg.max], 0)
  OBVIOUS
<1>1. /\ list' = <<p>> /\ end' = Null /\ op' = NoOp /\ lfs' = lfs /\ walk' = walk /\ answer' = "Ok"
      /\ calls' = calls /\ moves' = moves /\ damaged' = FALSE
  BY DEF lfs_format_
<1>2. Len(list') = 1 /\ \A j, k \in 1 .. Len(list') : j = k
  BY <1>1
<1>3. Apart'
  <2>1. \A k \in 1 .. Len(op'.new) : FALSE
    BY <1>1, Ranges, EmptySeq
  <2> QED
    BY <1>2, <2>1 DEF Apart
<1>4. Turning'
  <2>1. ~walk.on
    BY DEF lfs_format_, TInv, IInv, Running
  <2> QED
    BY <1>1, <2>1, StillTurning DEF TInv
<1>5. Ranged' /\ Counted'
  BY <1>1, Ranges DEF TInv, Ranged, Counted
<1> QED
  BY <1>3, <1>4, <1>5 DEF InRange

\* A call begins with nothing written.
LEMMA CallInRange ==
  ASSUME TInv, NEW n \in Nat, list' = list, end' = end, walk' = walk, moves' = moves,
         damaged' = damaged, calls' = calls + 1, calls < MaxCalls, answer' = "none",
         lfs' = lfs \/ lfs' = [lfs EXCEPT !.count = n],
         op'.new = <<>>, op'.kind \in {"put", "grow"}
  PROVE  InRange'
<1>1. lfs'.root = lfs.root
  BY DEF TInv, IInv, Typed, Fields
<1>2. Apart'
  <2>1. \A k \in 1 .. Len(op'.new) : FALSE
    BY EmptySeq
  <2> QED
    BY <2>1 DEF TInv, Apart
<1>3. Counted'
  BY SuperAssumption DEF TInv, Counted
<1>4. Turning'
  BY StillTurning DEF TInv
<1> QED
  BY <1>1, <1>2, <1>3, <1>4 DEF TInv, InRange, Ranged

LEMMA PutCallInRange ==
  ASSUME TInv, NEW v \in Vals, PutCall(v)
  PROVE  InRange'
<1>1. /\ list' = list /\ end' = end /\ walk' = walk /\ moves' = moves /\ damaged' = damaged
      /\ calls' = calls + 1 /\ calls < MaxCalls /\ answer' = "none" /\ lfs' = lfs
      /\ op' = IF lfs.needs THEN Commit("put", v, "upgrade", "super", Upgraded)
                            ELSE Commit("put", v, "write", "val", v)
  BY DEF PutCall, disk
<1>2. op'.new = <<>> /\ op'.kind = "put"
  BY <1>1 DEF Commit
<1> QED
  BY <1>1, <1>2, CallInRange

LEMMA GrowCallInRange ==
  ASSUME TInv, NEW n \in Counts, GrowCall(n)
  PROVE  InRange'
<1>1. /\ list' = list /\ end' = end /\ walk' = walk /\ moves' = moves /\ damaged' = damaged
      /\ calls' = calls + 1 /\ calls < MaxCalls /\ answer' = "none"
      /\ lfs' = [lfs EXCEPT !.count = n] /\ op' = Commit("grow", n, "write", "count", n)
  BY DEF GrowCall, disk
<1>2. op'.new = <<>> /\ op'.kind = "grow"
  BY <1>1 DEF Commit
<1>3. n \in Nat
  BY SuperAssumption
<1> QED
  BY <1>1, <1>2, <1>3, CallInRange

LEMMA CommitFailsInRange ==
  ASSUME TInv, CommitFails
  PROVE  InRange'
<1>1. /\ list' = list /\ end' = end /\ walk' = walk /\ moves' = moves /\ damaged' = damaged
      /\ calls' = calls /\ answer' = "Io" /\ lfs' = lfs /\ op' = NoOp
  BY DEF CommitFails, disk
<1>2. Apart' /\ Turning'
  BY <1>1, StaysApart, StillTurning DEF TInv
<1> QED
  BY <1>1, <1>2, Ranges DEF TInv, InRange, Ranged, Counted

\* The new pairs take the place of the old ones.
LEMMA LinkedInRange ==
  ASSUME TInv, op.kind \in {"put", "grow"}, NEW pair \in PairType,
         pair.at = Edited.at, pair.super = Edited.super, Linked(pair)
  PROVE  InRange'
<1>1. PICK r \in 1 .. Len(list) : LastSuper(list, Len(list), r) /\ Writes(r)
  BY DEF TInv, IInv, Running
<1>2. Edited.at = list[op.at].at /\ lfs \in Fields
  BY <1>1, EditedPair DEF TInv, IInv, Typed
<1> PICK i, d, t, n, l, m : /\ i = op.at /\ d = op.old /\ t = op.new /\ n = Len(op.new)
                            /\ l = Len(list) /\ m = Len(list')
  OBVIOUS
<1>3. /\ i \in 1 .. l /\ i \in Nat /\ d \in Nat /\ i + d = r /\ n \in Nat /\ l \in Nat
      /\ IsSplice(list', PairType, list, i, pair, t, d)
  BY <1>1, LinkedList DEF TInv
<1>4. /\ m = l - d + n
      /\ \A k \in 1 .. i - 1 : list'[k] = list[k]
      /\ list'[i] = pair
      /\ \A k \in 1 .. n : list'[i + k] = t[k]
      /\ \A k \in i + n + 1 .. m : list'[k] = list[k - n + d]
  BY <1>3 DEF IsSplice
<1>5. i + d <= l /\ m \in Nat /\ n >= d
  <2>1. r \in 1 .. l /\ n = d + (IF op.split THEN 1 ELSE 0)
    BY <1>1 DEF Writes, Span
  <2> QED
    BY <1>3, <1>4, <2>1
\* where the z-th pair was: in the list, or waiting
<1> DEFINE Old(z) == IF z <= i THEN z ELSE z - n + d
           Waits(z) == z > i /\ z <= i + n
<1>6. ASSUME NEW z \in 1 .. m
      PROVE  /\ ~Waits(z) => /\ Old(z) \in 1 .. l /\ list'[z].at = list[Old(z)].at
             /\ Waits(z) => /\ z - i \in 1 .. n /\ list'[z] = t[z - i]
  <2>1. CASE z < i
    <3>1. z \in 1 .. i - 1 /\ z \in 1 .. l /\ Old(z) = z /\ ~Waits(z)
      BY ONLY <1>3, <1>6, <2>1, m \in Nat, <1>5
    <3> QED
      BY <1>4, <3>1
  <2>2. CASE z = i
    <3>1. Old(z) = i /\ ~Waits(z)
      BY ONLY <1>3, <2>2
    <3> QED
      BY <1>2, <1>3, <1>4, <2>2, <3>1
  <2>3. CASE Waits(z)
    <3>1. z - i \in 1 .. n /\ i + (z - i) = z
      BY ONLY <1>3, <1>5, <1>6, <2>3
    <3> QED
      BY <1>4, <2>3, <3>1
  <2>4. CASE z > i + n
    <3>1. z \in i + n + 1 .. m /\ Old(z) = z - n + d /\ Old(z) \in 1 .. l /\ ~Waits(z)
      BY ONLY <1>3, <1>4, <1>5, <1>6, <2>4
    <3> QED
      BY <1>4, <3>1
  <2> QED
    BY <1>3, <1>5, <2>1, <2>2, <2>3, <2>4
<1> HIDE DEF Old, Waits
<1>7. /\ \A j, k \in 1 .. l : j # k => list[j].at # list[k].at
      /\ \A j, k \in 1 .. n : j # k => t[j].at # t[k].at
      /\ \A j \in 1 .. l, k \in 1 .. n : list[j].at # t[k].at
  BY SMTT(30) DEF TInv, Apart
<1>8. ASSUME NEW y \in 1 .. m, NEW z \in 1 .. m, y < z
      PROVE  list'[y].at # list'[z].at
  <2>1. CASE ~Waits(y) /\ ~Waits(z)
    <3>1. Old(y) # Old(z)
      BY ONLY <1>3, <1>5, <1>8, <2>1 DEF Old, Waits
    <3> QED
      BY <1>6, <1>7, <2>1, <3>1
  <2>2. CASE ~Waits(y) /\ Waits(z)
    <3> PICK a, b : a = Old(y) /\ b = z - i
      OBVIOUS
    <3>1. a \in 1 .. l /\ b \in 1 .. n /\ list'[y].at = list[a].at /\ list'[z] = t[b]
      BY <1>6, <2>2
    <3> QED
      BY ONLY <1>7, <3>1
  <2>3. CASE Waits(y) /\ ~Waits(z)
    <3> PICK a, b : a = Old(z) /\ b = y - i
      OBVIOUS
    <3>1. a \in 1 .. l /\ b \in 1 .. n /\ list'[z].at = list[a].at /\ list'[y] = t[b]
      BY <1>6, <2>3
    <3> QED
      BY ONLY <1>7, <3>1
  <2>4. CASE Waits(y) /\ Waits(z)
    <3> PICK a, b : a = y - i /\ b = z - i
      OBVIOUS
    <3>1. a \in 1 .. n /\ b \in 1 .. n /\ list'[y] = t[a] /\ list'[z] = t[b]
      BY <1>6, <2>4
    <3>2. a # b
      BY ONLY <1>3, <1>5, <1>8, a = y - i, b = z - i
    <3> QED
      BY ONLY <1>7, <3>1, <3>2
  <2> QED
    BY <2>1, <2>2, <2>3, <2>4
<1>9. /\ end' = end /\ walk' = walk /\ calls' = calls /\ moves' = moves /\ damaged' = damaged
      /\ \/ op' = NoOp /\ lfs' = lfs /\ answer' = "Ok"
         \/ /\ lfs' = [lfs EXCEPT !.needs = FALSE] /\ answer' = answer
            /\ op' = [Commit("put", op.arg, "write", "val", op.arg) EXCEPT !.at = Root']
  BY DEF Linked
<1>10. lfs'.root = lfs.root
  BY <1>2, <1>9 DEF Fields
<1>11. op'.new = <<>> /\ (op'.kind = "put" \/ op' = NoOp)
  BY <1>9, Ranges DEF Commit
<1>12. Apart'
  <2>1. \A k \in 1 .. Len(op'.new) : FALSE
    BY <1>11, EmptySeq
  <2>2. \A y, z \in 1 .. m : y # z => list'[y].at # list'[z].at
    <3> SUFFICES ASSUME NEW y \in 1 .. m, NEW z \in 1 .. m, y # z PROVE list'[y].at # list'[z].at
      OBVIOUS
    <3>1. y < z \/ z < y
      BY <1>5
    <3> QED
      BY <1>8, <3>1
  <2> QED
    BY <2>1, <2>2 DEF Apart
<1>13. end' \in {Null, Wild} \cup 1 .. Len(list')
  <2>1. end \in {Null, Wild} \cup 1 .. l /\ l <= m
    BY <1>3, <1>4, <1>5 DEF TInv, Ranged
  <2> QED
    BY <1>3, <1>5, <1>9, <2>1
<1>14. Ranged' /\ Turning'
  <2>1. Ranged'
    BY <1>9, <1>10, <1>11, <1>13, Ranges DEF TInv, Ranged
  <2>2. ~walk.on
    BY DEF TInv, IInv, Running
  <2> QED
    BY <1>9, <2>1, <2>2, StillTurning DEF TInv
<1>15. Counted'
  BY <1>9 DEF TInv, Counted
<1> QED
  BY <1>12, <1>14, <1>15 DEF InRange

LEMMA CommitInRange ==
  ASSUME TInv, CommitInPlace \/ ExpandHead
  PROVE  InRange'
<1>1. op.kind \in {"put", "grow"}
  <2>1. op.kind \in {"none", "format", "put", "grow"}
    BY DEF TInv, IInv, Typed, Ops
  <2>2. CASE ExpandHead
    <3>1. op.split
      BY <2>2 DEF ExpandHead
    <3>2. op.kind # "none" /\ op.kind # "format"
      BY <3>1 DEF TInv, IInv, Running, NoOp
    <3> QED
      BY <2>1, <3>2
  <2>3. CASE CommitInPlace
    BY <2>3 DEF CommitInPlace, Writing
  <2> QED
    BY <2>2, <2>3
<1>2. PICK r \in 1 .. Len(list) : Writes(r)
  BY <1>1 DEF TInv, IInv, Running
<1>3. Edited \in PairType
  BY <1>2, EditedPair DEF TInv, IInv
<1> PICK pair : pair = [Edited EXCEPT !.val = 0]
  OBVIOUS
<1>4. pair \in PairType /\ pair.at = Edited.at /\ pair.super = Edited.super
  BY <1>3, SuperAssumption DEF PairType
<1>5. Linked(Edited) \/ Linked(pair)
  BY DEF CommitInPlace, ExpandHead
<1> QED
  BY <1>1, <1>3, <1>4, <1>5, LinkedInRange

\* A copy goes to a block that nothing uses.
LEMMA CopyInRange ==
  ASSUME TInv, op.kind \in {"put", "grow"}, NEW new \in Free, MoveTo(new), moves < MaxMoves,
         op'.new = <<[Edited EXCEPT !.at = new]>> \o op.new, op'.kind = op.kind
  PROVE  InRange'
<1>1. PICK r \in 1 .. Len(list) : Writes(r)
  BY DEF TInv, IInv, Running
<1>2. /\ Edited \in PairType /\ lfs \in Fields /\ op.new \in Seq(PairType) /\ list' = list /\ end' = end
      /\ walk' = walk /\ ~walk.on /\ answer' = answer /\ calls' = calls /\ moves' = moves + 1 /\ damaged' = damaged
      /\ lfs' = [lfs EXCEPT !.root = IF @ = list[op.at].at THEN new ELSE @] /\ list \in Seq(PairType)
  BY <1>1, EditedPair DEF TInv, IInv, Typed, Ops, MoveTo, disk, Running
<1>3. /\ new \notin Ats(list) \cup Ats(op.new) /\ new \in 0 .. Blocks - 1
  <2>1. new \in 1 .. lfs.count - 1 /\ new \notin Ats(list) \cup Ats(op.new)
    BY DEF Free
  <2>2. lfs.count \in {0} \cup Counts
    BY <1>2 DEF Fields
  <2>3. lfs.count \in Nat /\ lfs.count <= Blocks /\ Blocks \in Nat
    <3>1. Blocks \in Nat /\ \A c \in Counts : c \in 1 .. Blocks
      BY SuperAssumption
    <3> QED
      BY <2>2, <3>1
  <2> QED
    BY <2>1, <2>3
<1> PICK copy : copy = [Edited EXCEPT !.at = new]
  OBVIOUS
<1>4. copy \in PairType /\ copy.at = new
  BY <1>2, <1>3 DEF PairType
<1> PICK t, u, n : t = op.new /\ u = op'.new /\ n = Len(op.new)
  OBVIOUS
<1>5. /\ Len(u) = n + 1 /\ n \in Nat
      /\ u[1] = copy /\ \A k \in 1 .. n : u[k + 1] = t[k]
  <2>1. u = <<copy>> \o t /\ t \in Seq(PairType)
    BY <1>2
  <2> QED
    BY SMTT(30), <1>4, <2>1, Prepended
<1>6. /\ \A k \in 1 .. Len(list) : list[k].at # new
      /\ \A k \in 1 .. n : t[k].at # new
  <2>1. DOMAIN list = 1 .. Len(list) /\ DOMAIN t = 1 .. n
    BY <1>2, LenProperties
  <2> QED
    BY <1>3, <2>1 DEF Ats
<1>7. /\ \A j, k \in 1 .. n : j # k => t[j].at # t[k].at
      /\ \A j \in 1 .. Len(list), k \in 1 .. n : list[j].at # t[k].at
      /\ \A j, k \in 1 .. Len(list) : j # k => list[j].at # list[k].at
  BY DEF TInv, Apart
<1>8. ASSUME NEW k \in 1 .. n + 1
      PROVE  \/ k = 1 /\ u[k].at = new
             \/ k # 1 /\ k - 1 \in 1 .. n /\ u[k] = t[k - 1]
  <2>1. CASE k = 1
    BY <1>4, <1>5, <2>1
  <2>2. CASE k # 1
    <3>1. k - 1 \in 1 .. n /\ (k - 1) + 1 = k
      BY SMTT(30), <1>5, <2>2
    <3> QED
      BY <1>5, <2>2, <3>1
  <2> QED
    BY <2>1, <2>2
<1>9. ASSUME NEW j \in 1 .. n + 1, NEW k \in 1 .. n + 1, j # k PROVE u[j].at # u[k].at
  <2>1. CASE j = 1
    BY ONLY ZenonT(60), <1>5, <1>6, <1>8, <1>9, <2>1
  <2>2. CASE k = 1
    BY ONLY <1>5, <1>6, <1>8, <1>9, <2>2
  <2>3. CASE j # 1 /\ k # 1
    <3> PICK a, b : a = j - 1 /\ b = k - 1
      OBVIOUS
    <3>1. a \in 1 .. n /\ u[j] = t[a]
      BY ONLY <1>8, <2>3, a = j - 1, j \in 1 .. n + 1
    <3>2. b \in 1 .. n /\ u[k] = t[b]
      BY ONLY <1>8, <2>3, b = k - 1, k \in 1 .. n + 1
    <3>3. a # b
      BY ONLY <1>5, <1>9, a = j - 1, b = k - 1
    <3> QED
      BY ONLY <1>7, <3>1, <3>2, <3>3
  <2> QED
    BY <2>1, <2>2, <2>3
<1>10. ASSUME NEW j \in 1 .. Len(list), NEW k \in 1 .. n + 1 PROVE list[j].at # u[k].at
  <2>1. CASE k = 1
    BY <1>6, <1>8, <2>1
  <2>2. CASE k # 1
    <3> PICK b : b = k - 1
      OBVIOUS
    <3>1. b \in 1 .. n /\ u[k] = t[b]
      BY <1>8, <2>2
    <3> QED
      BY ONLY <1>7, <3>1
  <2> QED
    BY <2>1, <2>2
<1>11. Apart'
  <2>1. Len(op'.new) = n + 1
    BY <1>5
  <2>2. \A j, k \in 1 .. n + 1 : j # k => op'.new[j].at # op'.new[k].at
    BY <1>9
  <2>3. \A j \in 1 .. Len(list), k \in 1 .. n + 1 : list[j].at # op'.new[k].at
    BY <1>10
  <2> QED
    BY ZenonT(60), <1>2, <1>7, <2>1, <2>2, <2>3 DEF Apart
<1>12. lfs'.root \in 0 .. Wild
  <2>1. lfs'.root \in {new, lfs.root} /\ new \in 0 .. Wild
    BY <1>2, <1>3, SuperAssumption DEF Fields, Wild
  <2> QED
    BY <2>1 DEF TInv, Ranged
<1>13. Ranged' /\ Turning'
  BY <1>2, <1>12 DEF TInv, Ranged, Turning
<1>14. Counted'
  BY SMTT(30), <1>2, SuperAssumption DEF TInv, Counted
<1> QED
  BY <1>11, <1>13, <1>14 DEF InRange

LEMMA CopiesInRange ==
  ASSUME TInv, Expand \/ Move
  PROVE  InRange'
<1>1. op.kind \in {"put", "grow"} /\ moves < MaxMoves /\ op \in Ops
  BY DEF Expand, Move, Writing, TInv, IInv, Typed
<1>2. CASE Expand
  <2>1. PICK new \in Free :
          /\ op' = [op EXCEPT !.split = TRUE, !.new = <<[Edited EXCEPT !.at = new]>> \o @]
          /\ MoveTo(new)
    BY <1>2 DEF Expand
  <2> PICK u : u = <<[Edited EXCEPT !.at = new]>> \o op.new
    OBVIOUS
  <2>2. op' = [op EXCEPT !.split = TRUE, !.new = u]
    BY <2>1
  <2>3. op'.new = u /\ op'.kind = op.kind
    BY <1>1, <2>2 DEF Ops
  <2> QED
    BY <1>1, <2>1, <2>3, CopyInRange
<1>3. CASE Move
  <2>1. PICK new \in Free :
          /\ op' = [op EXCEPT !.at = @ - 1, !.old = @ + 1,
                              !.edit = [part |-> "tail", to |-> new],
                              !.new = <<[Edited EXCEPT !.at = new]>> \o @]
          /\ MoveTo(new)
    BY <1>3 DEF Move
  <2> PICK u, e : u = <<[Edited EXCEPT !.at = new]>> \o op.new /\ e = [part |-> "tail", to |-> new]
    OBVIOUS
  <2>2. op' = [op EXCEPT !.at = op.at - 1, !.old = op.old + 1, !.edit = e, !.new = u]
    BY <2>1
  <2>3. op'.new = u /\ op'.kind = op.kind
    BY <1>1, <2>2 DEF Ops
  <2> QED
    BY <1>1, <2>1, <2>3, CopyInRange
<1> QED
  BY <1>2, <1>3

LEMMA StepInRange ==
  ASSUME TInv, FailuresAreClean, [Next]_vars
  PROVE  TInv'
<1>1. IInv'
  BY StepSafe DEF TInv
<1>2. InRange'
  <2>1. CASE UNCHANGED vars
    BY <2>1 DEF vars, disk, TInv, InRange, Apart, Turning, Place, Ranged, Counted
  <2>2. CASE Next
    BY <2>2, MountCallInRange, FormatCallInRange, FormatInRange, MountTurnInRange,
       MountEndsInRange, LoseInRange, DamageInRange, PutCallInRange, GrowCallInRange,
       CommitInRange, CommitFailsInRange, CopiesInRange DEF Next
  <2> QED
    BY <2>1, <2>2
<1> QED
  BY <1>1, <1>2 DEF TInv, InRange

LEMMA InitInRange == Init => TInv
<1> SUFFICES ASSUME Init PROVE TInv
  OBVIOUS
<1>1. IInv
  BY InitSafe
<1>2. /\ end = Null /\ lfs = NoLfs /\ walk = NoWalk /\ op = NoOp /\ answer = "none"
      /\ calls = 0 /\ moves = 0 /\ damaged = FALSE
  BY DEF Init
<1>3. Turning /\ Ranged /\ Counted
  <2>1. ~walk.on
    BY <1>2, Ranges
  <2>2. lfs.root = Wild
    BY <1>2, Ranges
  <2>3. Turning
    BY <1>2, <2>1 DEF Turning
  <2>4. Ranged
    BY <1>2, <2>2, Ranges DEF Ranged
  <2>5. 0 \in 0 .. MaxCalls /\ 0 \in 0 .. MaxMoves
    BY SuperAssumption
  <2> QED
    BY <1>2, <2>3, <2>4, <2>5 DEF Counted
<1>4. Apart
  <2>1. \A k \in 1 .. Len(op.new) : FALSE
    BY <1>2, Ranges, EmptySeq
  <2>2. CASE list = <<>>
    <3>1. \A k \in 1 .. Len(list) : FALSE
      BY <2>2, EmptySeq
    <3> QED
      BY <2>1, <3>1 DEF Apart
  <2>3. CASE list # <<>>
    <3>1. PICK super \in Supers, d \in Dirs :
            list = [k \in 1..d + 1 |-> Pair(k - 1, IF k = 1 THEN super ELSE NoSuper, 0)]
      BY <2>3 DEF Init
    <3>2. DOMAIN list = 1 .. Len(list) /\ d \in Nat
      BY <1>1, LenProperties, SuperAssumption DEF IInv, Typed
    <3>3. \A k \in 1 .. Len(list) : list[k].at = k - 1 /\ k \in Nat
      BY <3>1, <3>2 DEF Pair
    <3> QED
      BY <2>1, <3>3 DEF Apart
  <2> QED
    BY <2>2, <2>3
<1> QED
  BY <1>1, <1>3, <1>4 DEF TInv

-----------------------------------------------------------------------------
(***************************************************************************)
(* The theorems.                                                           *)
(***************************************************************************)

\* Every reachable state satisfies the invariant: a mount learns the last
\* superblock of the chain, and every expansion, move, resize and upgrade keeps
\* lfs_t to it (lfs_mount_, lfs_dir_split, lfs_dir_relocatingcommit,
\* lfs_fs_grow_, lfs_fs_desuperblock).
THEOREM SuperblocksAreSafe == Spec /\ FailuresAreClean => []IInv
<1> SUFFICES ASSUME FailuresAreClean PROVE Spec => []IInv
  OBVIOUS
<1>1. Init => IInv
  BY InitSafe
<1>2. IInv /\ [Next]_vars => IInv'
  BY StepSafe
<1> QED
  BY <1>1, <1>2, PTL DEF Spec

\* Between calls the fields of a mounted lfs_t are those of the superblock that a
\* mount of the list would end with (lfs_mount_ and the calls that write).
THEOREM RamFollowsDisk == Spec /\ FailuresAreClean => []RamIsDisk
<1>1. IInv => RamIsDisk
  <2> SUFFICES ASSUME IInv, Idle, lfs.on PROVE RamIsDisk
    BY DEF RamIsDisk
  <2> QED
    BY CallBegins DEF RamIsDisk, Agrees
<1> QED
  BY <1>1, SuperblocksAreSafe, PTL

\* The state keeps its type: no block is in two pairs, so that the pairs in flight
\* fit on the device, and the tortoise of lfs_mount_ meets the walk before its
\* period is twice as long as the list (lfs_tortoise_detectcycles).
THEOREM SuperblocksTypeCorrect == Spec /\ FailuresAreClean => []TypeOK
<1> SUFFICES ASSUME FailuresAreClean PROVE Spec => []TypeOK
  OBVIOUS
<1>1. Init => TInv
  BY InitInRange
<1>2. TInv /\ [Next]_vars => TInv'
  BY StepInRange
<1>3. TInv => TypeOK
  BY TypeFollows
<1> QED
  BY <1>1, <1>2, <1>3, PTL DEF Spec

-----------------------------------------------------------------------------
(***************************************************************************)
(* The chain of superblocks is one superblock: Superblocks implements      *)
(* PlainSuper, for any number of directories, block counts, limits,        *)
(* expansions, moves and calls, where the code does not deviate.           *)
(***************************************************************************)

\* The code does what section 10 of the README promises.
NoDeviations == Deviations = {}

\* A superblock that is copied before another is written has its block count, an
\* older version or the same, and its limit or none.
Older(s, t) == s.count = t.count /\ s.minor <= t.minor /\ s.max \in {0, t.max}

Dated ==
  /\ list # <<>> => list[1].at = 0
  /\ \A i, j \in 1 .. Len(list) :
       i < j /\ HasSuper(list[i]) /\ HasSuper(list[j]) => Older(list[i].super, list[j].super)

\* The pairs that a mount has passed.
Passed == IF walk.tail = Null THEN Len(list) ELSE walk.tail - 1

\* What a superblock says fits the configuration.
Suits(super) ==
  /\ super.minor <= LFS_DISK_VERSION_MINOR /\ super.max <= walk.cfg.max
  /\ walk.cfg.count \in {0, super.count}

\* A mount of a list that ends has found no pair beyond its end and no superblock
\* that does not fit; the limit is the configured one or one that was learned.
Fitting ==
  walk.on /\ list # <<>> =>
    /\ lfs.max \in {walk.cfg.max, list[Root].super.max} /\ lfs.max <= walk.cfg.max
    /\ end = Null =>
         /\ walk.tail \in 0 .. Len(list)
         /\ walk.tail # Null => walk.pair < walk.tail
         /\ \A k \in 1 .. Passed : list[k].at < lfs.count /\ (HasSuper(list[k]) => Suits(list[k].super))

Settled == lfs.on => Sound /\ list[Root].super.minor <= LFS_DISK_VERSION_MINOR

\* What is written and not in the list yet is a copy of ...
Source(k) == op.at + k - (IF op.split THEN 1 ELSE 0)

Copies ==
  /\ \A k \in 1 .. Len(list) : list[k].at < lfs.count
  /\ \A k \in 1 .. Len(op.new) : op.new[k].at < lfs.count
  /\ \A k \in 1 .. Len(op.new) - 1 : op.new[k].super = list[Source(k)].super
  /\ IF op.at < Root THEN op.edit.part = "tail" ELSE Edited.super = Target.super

\* ... and the copy of the root's pair has the change that the call asks for.
Asked ==
  LET root == list[Root] IN
  \/ /\ op.kind = "put" /\ op.step = "write" /\ ~lfs.needs
     /\ Target.super = root.super /\ Target.val = op.arg
  \/ op.kind = "put" /\ op.step = "upgrade" /\ Target.val = root.val
  \/ /\ op.kind = "grow" /\ op.step = "write" /\ Root = 1
     /\ Target.super = [root.super EXCEPT !.count = op.arg] /\ Target.val = root.val

Pending == op.kind \in {"put", "grow"} => Copies /\ Asked

RInv == IInv /\ Dated /\ Fitting /\ Settled /\ Pending

-----------------------------------------------------------------------------
(***************************************************************************)
(* The root among the pairs.                                               *)
(***************************************************************************)

\* A list whose first pair has a superblock has a last one that has.
LEMMA SomeIsLast ==
  ASSUME NEW pairs \in Seq(PairType), NEW n \in 1 .. Len(pairs), HasSuper(pairs[1])
  PROVE  \E r \in 1 .. n : LastSuper(pairs, n, r)
<1> DEFINE T == {k \in Nat : k < n /\ HasSuper(pairs[n - k])}
           R == {x \in Nat \X Nat : x[1] < x[2]}
<1>1. n \in Nat /\ n >= 1
  BY LenProperties
<1>2. n - 1 \in T
  <2>1. n - 1 \in Nat /\ n - 1 < n /\ n - (n - 1) = 1
    BY <1>1
  <2> QED
    BY <2>1
<1>3. IsWellFoundedOn(R, Nat)
  BY NatLessThanWellFounded DEF OpToRel
<1>4. T \subseteq Nat /\ T # {}
  BY <1>2
<1>5. PICK k \in T : \A j \in T : ~(<<j, k>> \in R)
  <2> HIDE DEF R, T
  <2> QED
    BY <1>3, <1>4, WFMin
<1>6. k \in Nat /\ k < n /\ n - k \in 1 .. n /\ HasSuper(pairs[n - k])
  BY <1>1
<1>7. ASSUME NEW i \in n - k + 1 .. n, HasSuper(pairs[i]) PROVE FALSE
  <2>1. n - i \in Nat /\ n - i < n /\ n - (n - i) = i /\ n - i < k
    BY <1>1, <1>6
  <2>2. n - i \in T
    BY <1>7, <2>1
  <2>3. <<n - i, k>> \in R
    BY <1>6, <2>1
  <2> QED
    BY <1>5, <2>2, <2>3
<1> QED
  BY <1>6, <1>7 DEF LastSuper

LEMMA RootFacts ==
  ASSUME Typed, Formatted, list # <<>>
  PROVE  /\ Len(list) \in Nat /\ Root \in 1 .. Len(list) /\ Root \in Nat
         /\ LastSuper(list, Len(list), Root)
         /\ list[Root] \in PairType /\ list[Root].super \in Supers
<1>1. Len(list) \in Nat /\ Len(list) \in 1 .. Len(list)
  BY EmptySeq, LenProperties DEF Typed
<1>2. PICK r \in 1 .. Len(list) : LastSuper(list, Len(list), r)
  BY <1>1, SomeIsLast DEF Typed, Formatted
<1>3. Root = r
  BY <1>2, RootIsLast DEF Typed
<1>4. list[r] \in PairType
  BY ElementOfSeq DEF Typed
<1> QED
  BY <1>1, <1>2, <1>3, <1>4, HasSuperIsSuper DEF LastSuper

\* All that is known of an earlier superblock.
LEMMA RootIsNewest ==
  ASSUME Typed, Formatted, Dated, NEW k \in 1 .. Len(list), HasSuper(list[k])
  PROVE  Older(list[k].super, list[Root].super)
<1>1. list # <<>> /\ Len(list) \in Nat /\ k \in Nat
  BY EmptySeq, LenProperties DEF Typed
<1>2. Root \in 1 .. Len(list) /\ LastSuper(list, Len(list), Root) /\ list[Root].super \in Supers
  BY <1>1, RootFacts
<1>3. CASE k < Root
  BY <1>2, <1>3 DEF Dated, LastSuper
<1>4. CASE k = Root
  BY <1>2, <1>4 DEF Older, Supers
<1>5. CASE k > Root
  BY <1>1, <1>2, <1>5 DEF LastSuper
<1> QED
  BY <1>1, <1>2, <1>3, <1>4, <1>5

\* Numbers.
LEMMA SuperFields ==
  ASSUME NEW s \in Supers
  PROVE  s.minor \in Nat /\ s.max \in Nat /\ s.count \in Counts /\ s.count \in Nat /\ s.count > 0
<1>1. s.minor \in 0 .. 2 /\ s.count \in Counts /\ s.max \in {0} \cup Maxes
  BY DEF Supers
<1>2. s.count \in 1 .. Blocks /\ Blocks \in Nat
  BY <1>1, SuperAssumption
<1>3. \A m \in {0} \cup Maxes : m \in Nat
  BY SuperAssumption
<1>4. s.max \in Nat
  BY <1>1, <1>3
<1>5. s.count \in Nat /\ s.count > 0
  BY <1>2
<1> QED
  BY <1>1, <1>4, <1>5

LEMMA LfsFields ==
  ASSUME Typed
  PROVE  /\ lfs.on \in BOOLEAN /\ lfs.count \in Nat /\ lfs.max \in Nat /\ lfs.needs \in BOOLEAN
         /\ walk.on \in BOOLEAN /\ walk.pair \in Nat /\ walk.tail \in Nat
         /\ walk.cfg.max \in Nat /\ walk.cfg.count \in Nat
<1>1. \A n \in {0} \cup Counts : n \in Nat
  BY SuperAssumption
<1>2. \A n \in {0} \cup Maxes : n \in Nat
  BY SuperAssumption
<1> QED
  BY <1>1, <1>2 DEF Typed, Fields, Walks

LEMMA AtIsNumber ==
  ASSUME NEW p \in PairType
  PROVE  p.at \in Nat
BY SuperAssumption DEF PairType

LEMMA DiskStays ==
  ASSUME list' = list, end' = end
  PROVE  Root' = Root /\ Sound' = Sound /\ Shown' = Shown /\ Dated' = Dated
BY DEF Root, Sound, Shown, Dated

-----------------------------------------------------------------------------
(***************************************************************************)
(* What a step does is at most a step of PlainSuper.                       *)
(***************************************************************************)

Fine ==
  /\ Dated' /\ Fitting' /\ Settled' /\ Pending'
  /\ Plain!Next \/ UNCHANGED <<Shown, lfs.on, Asking, answer>>

LEMMA MountCallIsFine ==
  ASSUME RInv, IInv', NEW cfg \in Configs, MountCall(cfg)
  PROVE  Fine
<1>1. /\ op = NoOp /\ ~walk.on /\ ~lfs.on /\ list' = list /\ end' = end /\ op' = op
      /\ lfs' = [NoLfs EXCEPT !.count = cfg.count, !.max = cfg.max]
      /\ walk' = [on |-> TRUE, tail |-> 1, cfg |-> cfg, pair |-> Null, i |-> 1, period |-> 1]
      /\ answer' = "none"
  BY DEF MountCall, Idle, disk
<1>2. lfs'.on = FALSE /\ lfs'.count = cfg.count /\ lfs'.max = cfg.max /\ cfg.max \in Nat
  BY <1>1, SuperAssumption DEF NoLfs, Configs
<1>3. walk'.on = TRUE /\ walk'.tail = 1 /\ walk'.cfg = cfg /\ walk'.pair = 0
  BY <1>1 DEF Null
<1>4. Dated' /\ Shown' = Shown
  BY <1>1, DiskStays DEF RInv
<1>5. Fitting'
  <2> SUFFICES ASSUME list # <<>> PROVE Fitting'
    BY <1>1 DEF Fitting
  <2>1. Len(list) \in Nat /\ 1 \in 0 .. Len(list)
    BY EmptySeq, LenProperties DEF RInv, IInv, Typed
  <2>2. Passed' = 0
    BY <1>3 DEF Passed, Null
  <2> QED
    BY <1>1, <1>2, <1>3, <2>1, <2>2 DEF Fitting
<1>6. Settled' /\ Pending'
  BY <1>1, <1>2, NothingTyped DEF Settled, Pending
<1>7. Asking = [kind |-> "none", arg |-> 0] /\ Asking'.kind = "mount"
  BY <1>1, <1>3 DEF Asking, NoOp
<1>8. Plain!Ask
  <2>1. lfs.on = FALSE
    BY <1>1, LfsFields DEF RInv, IInv
  <2> QED
    BY <1>1, <1>2, <1>4, <1>7, <2>1 DEF Plain!Ask, Plain!Quiet
<1> QED
  BY <1>4, <1>5, <1>6, <1>8 DEF Fine, Plain!Next

LEMMA MountFailsIsFine ==
  ASSUME RInv, IInv', MountTurn, NEW why, MountFails(why),
         \/ why = "Corrupt" /\ (Cycle \/ Unreadable(walk.tail))
         \/ /\ why = "Invalid" /\ walk.tail \in DOMAIN list
            /\ HasSuper(list[walk.tail]) /\ Refused(list[walk.tail].super)
  PROVE  Fine
<1>1. /\ walk.on /\ walk.tail # Null /\ list' = list /\ end' = end /\ op' = op /\ op = NoOp
      /\ lfs' = NoLfs /\ walk' = NoWalk /\ answer' = why /\ ~lfs.on
      /\ Typed /\ Formatted /\ Dated /\ Mounting
  BY DEF MountTurn, MountFails, disk, RInv, IInv, Mounting
<1>2. lfs'.on = FALSE /\ walk'.on = FALSE
  BY <1>1, NothingTyped DEF NoLfs, NoWalk
<1>3. Dated' /\ Shown' = Shown
  BY <1>1, DiskStays DEF RInv
<1>4. Fitting' /\ Settled' /\ Pending'
  BY <1>1, <1>2, NothingTyped DEF Fitting, Settled, Pending
<1>5. Asking = [kind |-> "mount", arg |-> walk.cfg] /\ Asking' = [kind |-> "none", arg |-> 0]
  BY <1>1, <1>2 DEF Asking, NoOp
<1>6. CASE why = "Corrupt"
  <2>1. ASSUME Sound PROVE FALSE
    <3>1. /\ list # <<>> /\ end = Null
          /\ \A k \in DOMAIN list : list[k].at < list[Root].super.count
      BY <2>1 DEF Sound
    <3>2. /\ walk.tail \in 0 .. Len(list) /\ walk.pair < walk.tail
          /\ lfs.max \in {walk.cfg.max, list[Root].super.max}
      BY <1>1, <3>1 DEF RInv, Fitting
    <3>3. /\ Len(list) \in Nat /\ walk.tail \in 1 .. Len(list) /\ DOMAIN list = 1 .. Len(list)
          /\ list[Root].super \in Supers
      BY <1>1, <3>1, <3>2, RootFacts, LenProperties DEF Typed, Null
    <3>4. ~Cycle
      <4>1. walk.pair \in Nat
        BY <1>1 DEF Typed, Walks
      <4> QED
        BY <3>2, <3>3, <4>1 DEF Cycle
    <3>5. Unreadable(walk.tail)
      BY <1>6, <3>4
    <3>6. lfs.count # 0 /\ list[walk.tail].at >= lfs.count
      BY <3>3, <3>5 DEF Unreadable
    <3>7. lfs.count \in Nat /\ list[walk.tail].at \in Nat
      <4>1. list[walk.tail] \in PairType
        BY <1>1, <3>3, ElementOfSeq DEF Typed
      <4> QED
        BY <1>1, <4>1, LfsFields, AtIsNumber
    <3>8. CASE walk.tail = 1
      BY <1>1, <3>1, <3>6, <3>7, <3>8 DEF Dated
    <3>9. CASE walk.tail # 1
      <4> PICK n : n = walk.tail - 1
        OBVIOUS
      <4>1. n \in 1 .. Len(list) /\ n > 0
        BY <3>3, <3>9
      <4>2. PICK r \in 1 .. n : LastSuper(list, n, r) /\ Agrees(list[r].super)
        BY <1>1, <3>1, <4>1 DEF Mounting
      <4>3. r \in 1 .. Len(list) /\ HasSuper(list[r])
        BY <3>3, <4>1, <4>2 DEF LastSuper
      <4>4. lfs.count = list[Root].super.count
        BY <1>1, <4>2, <4>3, RootIsNewest DEF Agrees, Older
      <4>5. list[walk.tail].at < lfs.count
        BY <3>1, <3>3, <4>4
      <4> QED
        BY <3>6, <3>7, <4>5
    <3> QED
      BY <3>8, <3>9
  <2>2. ~Shown.sound
    BY <2>1 DEF Shown
  <2>3. Plain!Mount
    BY <1>1, <1>2, <1>3, <1>5, <1>6, <2>2 DEF Plain!Mount, Plain!Quiet
  <2> QED
    BY <1>3, <1>4, <2>3 DEF Fine, Plain!Next
<1>7. CASE why # "Corrupt"
  <2> PICK k : k = walk.tail
    OBVIOUS
  <2>1. /\ why = "Invalid" /\ k \in DOMAIN list /\ HasSuper(list[k]) /\ Refused(list[k].super)
    BY <1>7
  <2>2. Len(list) \in Nat /\ k \in 1 .. Len(list) /\ list # <<>> /\ list[k] \in PairType
    BY <1>1, <2>1, LenProperties, ElementOfSeq, EmptySeq DEF Typed
  <2>3. Older(list[k].super, list[Root].super)
    BY <1>1, <2>1, <2>2, RootIsNewest
  <2>4. list[k].super \in Supers /\ list[Root].super \in Supers
    BY <1>1, <2>1, <2>2, HasSuperIsSuper, RootFacts
  <2>5. lfs.max \in {walk.cfg.max, list[Root].super.max} /\ lfs.max \in Nat
    BY <1>1, <2>2, SuperAssumption DEF RInv, Fitting, Typed, Fields
  <2>6. Shown.minor = list[Root].super.minor /\ Shown.max = list[Root].super.max
        /\ Shown.count = list[Root].super.count
    BY <2>2 DEF Shown
  <2> PICK s, t : s = list[k].super /\ t = list[Root].super
    OBVIOUS
  <2>7. /\ s.minor \in Nat /\ t.minor \in Nat /\ s.max \in Nat /\ t.max \in Nat
        /\ s.count = t.count /\ s.minor <= t.minor /\ s.max \in {0, t.max}
    BY <2>3, <2>4, SuperFields DEF Older
  <2>8. \/ s.minor > LFS_DISK_VERSION_MINOR \/ s.max > lfs.max
        \/ walk.cfg.count # 0 /\ s.count # walk.cfg.count
    BY <2>1 DEF Refused
  <2>9. ~(/\ t.minor <= LFS_DISK_VERSION_MINOR /\ t.max <= walk.cfg.max
          /\ walk.cfg.count \in {0, t.count})
    <3>1. CASE s.minor > LFS_DISK_VERSION_MINOR
      BY <2>7, <3>1 DEF LFS_DISK_VERSION_MINOR
    <3>2. CASE s.max > lfs.max
      BY <2>5, <2>7, <3>2
    <3>3. CASE walk.cfg.count # 0 /\ s.count # walk.cfg.count
      BY <2>7, <3>3
    <3> QED
      BY <2>8, <3>1, <3>2, <3>3
  <2>10. ~Plain!Fits(walk.cfg)
    BY <2>6, <2>9 DEF Plain!Fits
  <2>11. Plain!Mount
    BY <1>1, <1>2, <1>3, <1>5, <2>1, <2>10 DEF Plain!Mount, Plain!Quiet
  <2> QED
    BY <1>3, <1>4, <2>11 DEF Fine, Plain!Next
<1> QED
  BY <1>6, <1>7

LEMMA MountGoesOnIsFine ==
  ASSUME RInv, IInv', MountTurn, NEW k \in DOMAIN list, k = walk.tail, ~Unreadable(k),
         HasSuper(list[k]) => ~Refused(list[k].super),
         walk' = [Stepped EXCEPT !.tail = TailOf(k)],
         lfs' = (IF HasSuper(list[k]) THEN Learned(list[k]) ELSE lfs),
         UNCHANGED <<list, end, op, answer>>
  PROVE  Fine
<1>1. /\ walk.on /\ op = NoOp /\ ~lfs.on
      /\ Typed /\ Formatted /\ Dated /\ Mounting /\ Fitting
  BY DEF MountTurn, RInv, IInv, Mounting
<1>2. /\ Len(list) \in Nat /\ k \in 1 .. Len(list) /\ k \in Nat /\ list # <<>> /\ list[k] \in PairType
      /\ list[k].at \in Nat
  BY <1>1, LenProperties, ElementOfSeq, EmptySeq, AtIsNumber DEF Typed
<1>3. walk'.on = walk.on /\ walk'.tail = TailOf(k) /\ walk'.cfg = walk.cfg /\ walk'.pair \in {k, walk.pair}
  <2>1. walk \in Walks
    BY <1>1 DEF Typed
  <2>2. Stepped.on = walk.on /\ Stepped.cfg = walk.cfg /\ Stepped.pair \in {k, walk.pair}
        /\ Stepped \in [on : BOOLEAN, tail : Nat, cfg : [count : {0} \cup Counts, max : {0} \cup Maxes],
                        pair : Nat, i : Nat, period : Nat]
    <3>1. 2 * walk.period \in Nat /\ walk.i + 1 \in Nat /\ walk.tail \in Nat
      BY <2>1 DEF Walks
    <3> QED
      BY <2>1, <3>1 DEF Stepped, Walks
  <2> QED
    BY <2>2
<1> PICK s, t : s = list[k].super /\ t = list[Root].super
  OBVIOUS
<1>4. t \in Supers /\ t.count \in Nat /\ t.count > 0 /\ t.max \in Nat
  BY <1>1, <1>2, RootFacts, SuperFields
<1>5. HasSuper(list[k]) => s \in Supers /\ s.max \in Nat /\ s.count = t.count /\ s.max \in {0, t.max}
  BY <1>1, <1>2, HasSuperIsSuper, RootIsNewest, SuperFields DEF Older
<1>6. lfs'.on = lfs.on /\ (HasSuper(list[k]) => /\ lfs'.count = s.count
                                               /\ lfs'.max = IF s.max = 0 THEN lfs.max ELSE s.max)
  BY <1>1 DEF Learned, Typed, Fields
<1>7. ~HasSuper(list[k]) => lfs' = lfs
  OBVIOUS
<1>8. HasSuper(list[k]) => s.max <= lfs.max /\ Suits(s)
  <2> SUFFICES ASSUME HasSuper(list[k]) PROVE s.max <= lfs.max /\ Suits(s)
    OBVIOUS
  <2>1. /\ ~(s.minor > LFS_DISK_VERSION_MINOR) /\ ~(s.max > lfs.max)
        /\ ~(walk.cfg.count # 0 /\ s.count # walk.cfg.count)
    BY DEF Refused
  <2>2. lfs.max <= walk.cfg.max /\ lfs.max \in Nat /\ walk.cfg.max \in Nat
    BY <1>1, <1>2, LfsFields DEF Fitting
  <2>3. s.minor \in Nat /\ s.max \in Nat
    BY <1>5, SuperFields
  <2> QED
    BY <2>1, <2>2, <2>3 DEF Suits, LFS_DISK_VERSION_MINOR
<1>9. Dated' /\ Shown' = Shown /\ Root' = Root
  BY <1>1, DiskStays
<1>10. lfs'.max \in {walk.cfg.max, t.max} /\ lfs'.max <= walk.cfg.max
  <2>1. lfs.max \in {walk.cfg.max, t.max} /\ lfs.max <= walk.cfg.max /\ lfs.max \in Nat
        /\ walk.cfg.max \in Nat
    BY <1>1, <1>2, LfsFields DEF Fitting
  <2>2. CASE HasSuper(list[k])
    <3>1. s.max <= lfs.max /\ s.max \in Nat /\ s.max \in {0, t.max}
      BY <1>5, <1>8, <2>2
    <3>2. lfs'.max = IF s.max = 0 THEN lfs.max ELSE s.max
      BY <1>6, <2>2
    <3> QED
      BY ONLY <2>1, <3>1, <3>2
  <2> QED
    BY <1>7, <2>1, <2>2
<1>11. ASSUME end = Null
       PROVE  /\ walk'.tail \in 0 .. Len(list) /\ (walk'.tail # Null => walk'.pair < walk'.tail)
              /\ Passed' = k
  <2>1. TailOf(k) = IF k < Len(list) THEN k + 1 ELSE 0
    BY <1>11 DEF TailOf, Null
  <2>2. walk.pair < k /\ walk.pair \in Nat
    BY <1>1, <1>2, <1>11, LfsFields DEF MountTurn, Fitting
  <2>3. walk'.pair < k + 1
    BY <1>2, <1>3, <2>2
  <2>4. walk'.tail = TailOf(k)
    BY <1>3
  <2>5. walk'.tail \in 0 .. Len(list) /\ (walk'.tail # Null => walk'.pair < walk'.tail)
    BY <1>2, <2>1, <2>3, <2>4 DEF Null
  <2>6. Passed' = IF walk'.tail = Null THEN Len(list) ELSE walk'.tail - 1
    BY DEF Passed
  <2> QED
    BY <1>2, <2>1, <2>4, <2>5, <2>6 DEF Null
<1>12. end = Null /\ k # 1 => lfs.count = t.count
  <2> SUFFICES ASSUME end = Null, k # 1 PROVE lfs.count = t.count
    OBVIOUS
  <2> PICK n : n = k - 1
    OBVIOUS
  <2>1. n \in 1 .. Len(list) /\ n > 0
    BY <1>2
  <2>2. PICK r \in 1 .. n : LastSuper(list, n, r) /\ Agrees(list[r].super)
    BY <1>1, <1>2, <2>1 DEF Mounting, Null
  <2>3. r \in 1 .. Len(list) /\ HasSuper(list[r])
    BY <1>2, <2>1, <2>2 DEF LastSuper
  <2> QED
    BY <1>1, <2>2, <2>3, RootIsNewest DEF Agrees, Older
<1>13. end = Null => lfs'.count = t.count
  <2>1. k = 1 => HasSuper(list[k])
    BY <1>1, <1>2 DEF Formatted
  <2> QED
    BY <1>5, <1>6, <1>7, <1>12, <2>1
<1>14. ASSUME end = Null, NEW j \in 1 .. k
       PROVE  list[j].at < lfs'.count /\ (HasSuper(list[j]) => Suits(list[j].super)')
  <2>1. Suits(list[j].super)' = Suits(list[j].super)
    BY <1>3 DEF Suits
  <2>2. CASE j # k
    <3>1. j \in 1 .. k - 1 /\ k # 1 /\ Passed = k - 1
      BY <1>2, <2>2 DEF Passed, Null
    <3>2. list[j].at < lfs.count /\ (HasSuper(list[j]) => Suits(list[j].super))
      BY <1>1, <1>2, <1>14, <3>1 DEF Fitting
    <3> QED
      BY <1>12, <1>13, <1>14, <2>1, <3>1, <3>2
  <2>3. CASE j = k
    <3>1. HasSuper(list[j]) => Suits(list[j].super)'
      BY <1>8, <2>1, <2>3
    <3>2. CASE k = 1
      <4>1. list[k].at = 0
        BY <1>1, <1>2, <3>2 DEF Dated
      <4> QED
        BY <1>4, <1>13, <1>14, <2>3, <3>1, <4>1
    <3>3. CASE k # 1
      <4>1. ~(lfs.count # 0 /\ list[k].at >= lfs.count) /\ lfs.count = t.count
        BY <1>12, <1>14, <3>3 DEF Unreadable
      <4> QED
        BY <1>2, <1>4, <1>13, <1>14, <2>3, <3>1, <4>1
    <3> QED
      BY <3>2, <3>3
  <2> QED
    BY <2>2, <2>3
<1>15. Fitting'
  <2>1. list' = list /\ end' = end
    OBVIOUS
  <2>2. \A j \in 1 .. k : HasSuper(list[j])' = HasSuper(list[j])
    BY <2>1 DEF HasSuper
  <2>3. end = Null => \A j \in 1 .. k : list[j].at < lfs'.count
                                       /\ (HasSuper(list[j]) => Suits(list[j].super)')
    BY <1>14
  <2>4. end = Null => \A j \in 1 .. Passed' : (list[j].at < lfs.count
                                              /\ (HasSuper(list[j]) => Suits(list[j].super)))'
    BY <1>11, <2>1, <2>2, <2>3
  <2> QED
    BY <1>3, <1>9, <1>10, <1>11, <2>1, <2>4 DEF Fitting
<1>16. Settled' /\ Pending'
  BY <1>1, <1>6, NothingTyped DEF Settled, Pending
<1>17. UNCHANGED <<Shown, lfs.on, Asking, answer>>
  BY <1>1, <1>3, <1>6, <1>9 DEF Asking
<1> QED
  BY <1>9, <1>15, <1>16, <1>17 DEF Fine

LEMMA MountTurnIsFine ==
  ASSUME RInv, IInv', MountTurn
  PROVE  Fine
<1> PICK k : k = walk.tail
  OBVIOUS
<1>1. CASE Cycle \/ Unreadable(k)
  <2>1. MountFails("Corrupt")
    BY <1>1 DEF MountTurn
  <2> QED
    BY <1>1, <2>1, MountFailsIsFine
<1>2. CASE ~(Cycle \/ Unreadable(k)) /\ HasSuper(list[k]) /\ Refused(list[k].super)
  <2>1. MountFails("Invalid") /\ k \in DOMAIN list
    BY <1>2 DEF MountTurn, Unreadable
  <2> QED
    BY <1>2, <2>1, MountFailsIsFine
<1>3. CASE ~(Cycle \/ Unreadable(k)) /\ ~(HasSuper(list[k]) /\ Refused(list[k].super))
  <2>1. /\ k \in DOMAIN list
        /\ walk' = [Stepped EXCEPT !.tail = TailOf(k)]
        /\ lfs' = IF HasSuper(list[k]) THEN Learned(list[k]) ELSE lfs
        /\ UNCHANGED <<list, end, op, answer>>
    BY <1>3 DEF MountTurn, Unreadable, disk
  <2> QED
    BY <1>3, <2>1, MountGoesOnIsFine
<1> QED
  BY <1>1, <1>2, <1>3

LEMMA MountEndsIsFine ==
  ASSUME RInv, IInv', MountEnds
  PROVE  Fine
<1>1. /\ walk.on /\ walk.tail = Null /\ op = NoOp /\ ~lfs.on
      /\ lfs' = [lfs EXCEPT !.on = TRUE] /\ walk' = NoWalk /\ answer' = "Ok"
      /\ list' = list /\ end' = end /\ op' = op
      /\ Typed /\ Formatted /\ Dated /\ Mounting /\ Fitting /\ list # <<>> /\ end = Null
  BY DEF MountEnds, disk, RInv, IInv, Mounting
<1>2. lfs'.on = TRUE /\ lfs'.count = lfs.count
  BY <1>1 DEF Typed, Fields
<1>3. /\ Len(list) \in Nat /\ Len(list) > 0 /\ Root \in 1 .. Len(list) /\ LastSuper(list, Len(list), Root)
      /\ list[Root].super \in Supers
  BY <1>1, RootFacts
<1>4. Passed = Len(list)
  BY <1>1 DEF Passed
<1>5. \A k \in 1 .. Len(list) : list[k].at < lfs.count /\ (HasSuper(list[k]) => Suits(list[k].super))
  BY <1>1, <1>4 DEF Fitting
<1>6. lfs.count = list[Root].super.count
  <2>1. PICK r \in 1 .. Len(list) : LastSuper(list, Len(list), r) /\ Agrees(list[r].super)
    BY <1>1, <1>3 DEF Mounting
  <2>2. HasSuper(list[r])
    BY <2>1 DEF LastSuper
  <2> QED
    BY <1>1, <2>1, <2>2, RootIsNewest DEF Agrees, Older
<1>7. Suits(list[Root].super)
  BY <1>3, <1>5 DEF LastSuper
<1>8. Sound
  BY <1>1, <1>5, <1>6, LenProperties DEF Sound, Typed
<1>9. Dated' /\ Shown' = Shown /\ Root' = Root /\ Sound' = Sound
  BY <1>1, DiskStays
<1>10. Fitting' /\ Pending'
  BY <1>1, NothingTyped DEF Fitting, Pending
<1>11. Settled'
  BY <1>1, <1>7, <1>8, <1>9 DEF Settled, Suits
<1>12. Shown.sound /\ Shown.minor = list[Root].super.minor /\ Shown.max = list[Root].super.max
       /\ Shown.count = list[Root].super.count
  BY <1>1, <1>8 DEF Shown
<1>13. Asking = [kind |-> "mount", arg |-> walk.cfg] /\ Asking' = [kind |-> "none", arg |-> 0]
  BY <1>1, NothingTyped DEF Asking, NoOp
<1>14. Plain!Fits(walk.cfg)
  BY <1>7, <1>12 DEF Plain!Fits, Suits
<1>15. Plain!Mount
  BY <1>1, <1>2, <1>9, <1>12, <1>13, <1>14 DEF Plain!Mount, Plain!Quiet
<1> QED
  BY <1>9, <1>10, <1>11, <1>15 DEF Fine, Plain!Next

LEMMA LoseIsFine ==
  ASSUME RInv, IInv', Lose
  PROVE  Fine
<1>1. lfs' = NoLfs /\ walk' = NoWalk /\ op' = NoOp /\ list' = list /\ end' = end /\ answer' = "none"
  BY DEF Lose, disk
<1>2. lfs'.on = FALSE /\ walk'.on = FALSE
  BY <1>1 DEF NoLfs, NoWalk
<1>3. Dated' /\ Shown' = Shown
  BY <1>1, DiskStays DEF RInv
<1>4. Fitting' /\ Settled' /\ Pending'
  BY <1>1, <1>2, NothingTyped DEF Fitting, Settled, Pending
<1>5. Asking' = [kind |-> "none", arg |-> 0]
  BY <1>1, <1>2 DEF Asking, NoOp
<1>6. Plain!Lose
  BY <1>1, <1>2, <1>3, <1>5 DEF Plain!Lose, Plain!Quiet
<1> QED
  BY <1>3, <1>4, <1>6 DEF Fine, Plain!Next

LEMMA DamageIsFine ==
  ASSUME RInv, IInv', Damage
  PROVE  Fine
<1>1. /\ ~lfs.on /\ ~walk.on /\ op = NoOp /\ lfs' = lfs /\ walk' = walk /\ op' = op /\ answer' = answer
      /\ Typed /\ Formatted /\ Dated
  BY DEF Damage, Idle, RInv, IInv
<1>2. PICK k \in DOMAIN list : list' = SubSeq(list, 1, k) /\ end' \in 1 .. k \cup {Wild}
  BY DEF Damage
<1>3. Len(list) \in Nat /\ k \in 1 .. Len(list) /\ \A j \in 1 .. k : list[j] \in PairType
  BY <1>1, <1>2, LenProperties, ElementOfSeq DEF Typed
<1>4. Len(list') = k /\ \A j \in 1 .. k : list'[j] = list[j]
  <2>1. /\ Len(SubSeq(list, 1, k)) = IF 1 <= k THEN k - 1 + 1 ELSE 0
        /\ \A j \in 1 .. k - 1 + 1 : SubSeq(list, 1, k)[j] = list[1 + j - 1]
    BY <1>3, SubSeqProperties
  <2> QED
    BY <1>2, <1>3, <2>1
<1>5. Dated'
  <2>1. list # <<>> /\ \A j \in 1 .. k : j \in 1 .. Len(list)
    BY <1>3, EmptySeq DEF Typed
  <2>2. list'[1].at = 0
    BY <1>1, <1>3, <1>4, <2>1 DEF Dated
  <2>3. \A i, j \in 1 .. k :
          i < j /\ HasSuper(list'[i]) /\ HasSuper(list'[j]) => Older(list'[i].super, list'[j].super)
    BY <1>1, <1>4, <2>1 DEF Dated
  <2> QED
    BY <1>4, <2>2, <2>3 DEF Dated
<1>6. ~Sound'
  <2>1. end' # Null
    BY <1>2, <1>3, SuperAssumption DEF Null, Wild
  <2> QED
    BY <2>1 DEF Sound
<1>7. ~Shown'.sound
  BY <1>6 DEF Shown
<1>8. Fitting' /\ Settled' /\ Pending'
  BY <1>1, NothingTyped DEF Fitting, Settled, Pending
<1>9. Asking = [kind |-> "none", arg |-> 0] /\ Asking' = Asking
  BY <1>1 DEF Asking, NoOp
<1>10. Plain!Damage
  BY <1>1, <1>7, <1>9 DEF Plain!Damage, Plain!Quiet
<1> QED
  BY <1>5, <1>8, <1>10 DEF Fine, Plain!Next

LEMMA FormatCallIsFine ==
  ASSUME RInv, IInv', NEW cfg \in Configs, FormatCall(cfg)
  PROVE  Fine
<1>1. /\ op = NoOp /\ ~walk.on /\ ~lfs.on /\ list' = list /\ end' = end /\ lfs' = lfs /\ walk' = walk
      /\ op' = [NoOp EXCEPT !.kind = "format", !.arg = cfg] /\ answer' = "none"
  BY DEF FormatCall, Idle, disk
<1>2. op'.kind = "format"
  BY <1>1 DEF NoOp
<1>3. Dated' /\ Shown' = Shown
  BY <1>1, DiskStays DEF RInv
<1>4. Fitting' /\ Settled' /\ Pending'
  BY <1>1, <1>2 DEF Fitting, Settled, Pending
<1>5. Asking = [kind |-> "none", arg |-> 0] /\ Asking'.kind = "format"
  BY <1>1, <1>2 DEF Asking, NoOp
<1>6. Plain!Ask
  BY <1>1, <1>3, <1>5 DEF Plain!Ask, Plain!Quiet
<1> QED
  BY <1>3, <1>4, <1>6 DEF Fine, Plain!Next

LEMMA FormatIsFine ==
  ASSUME RInv, IInv', lfs_format_
  PROVE  Fine
<1> PICK super : super = [minor |-> LFS_DISK_VERSION_MINOR, count |-> op.arg.count, max |-> op.arg.max]
  OBVIOUS
<1> PICK p : p = Pair(0, super, 0)
  OBVIOUS
<1>1. /\ op.kind = "format" /\ op' = NoOp /\ list' = <<p>> /\ end' = Null /\ lfs' = lfs /\ walk' = walk
      /\ answer' = "Ok" /\ ~lfs.on /\ ~walk.on /\ op.arg \in [count : Counts, max : Maxes]
  BY DEF lfs_format_, RInv, IInv, Running
<1>2. super \in Supers /\ super.count > 0 /\ super.count \in Nat
  <2>1. super \in Supers
    BY <1>1 DEF Supers, LFS_DISK_VERSION_MINOR
  <2> QED
    BY <2>1, SuperFields
<1>3. p \in PairType /\ p.super = super /\ p.at = 0 /\ p.val = 0
  BY <1>2, SuperAssumption DEF Pair, PairType
<1>4. Len(list') = 1 /\ list'[1] = p /\ list' # <<>>
  BY <1>1
<1>5. Root' = 1
  <2>1. list' \in Seq(PairType)
    BY <1>1, <1>3
  <2>2. LastSuper(list', Len(list'), 1)
    BY <1>2, <1>3, <1>4, HasSuperIsSuper DEF LastSuper
  <2> QED
    BY <2>1, <2>2, LastIsSelected DEF Root
<1>6. Dated'
  BY <1>3, <1>4 DEF Dated
<1>7. Sound'
  <2>1. \A k \in DOMAIN list' : k = 1
    BY <1>1
  <2> QED
    BY <1>1, <1>2, <1>3, <1>4, <1>5, <2>1 DEF Sound
<1>8. Shown' = [minor |-> LFS_DISK_VERSION_MINOR, count |-> op.arg.count, max |-> op.arg.max,
                val |-> 0, sound |-> TRUE]
  <2>1. /\ super.minor = LFS_DISK_VERSION_MINOR /\ super.count = op.arg.count
        /\ super.max = op.arg.max
    OBVIOUS
  <2>2. Shown' = [minor |-> super.minor, count |-> super.count, max |-> super.max,
                  val |-> 0, sound |-> Sound']
    BY <1>3, <1>4, <1>5 DEF Shown
  <2>3. Sound' = TRUE
    BY <1>7 DEF Sound
  <2> QED
    BY <2>1, <2>2, <2>3
<1>9. Fitting' /\ Settled' /\ Pending'
  BY <1>1, NothingTyped DEF Fitting, Settled, Pending
<1>10. Asking = [kind |-> "format", arg |-> op.arg] /\ Asking' = [kind |-> "none", arg |-> 0]
  BY <1>1 DEF Asking, NoOp
<1>11. Plain!Format
  BY <1>1, <1>8, <1>10 DEF Plain!Format, Plain!Quiet
<1> QED
  BY <1>6, <1>9, <1>11 DEF Fine, Plain!Next

-----------------------------------------------------------------------------
(***************************************************************************)
(* The calls that write.                                                   *)
(***************************************************************************)

\* What is known of the list while it is mounted.
LEMMA MountedList ==
  ASSUME RInv, lfs.on
  PROVE  /\ list # <<>> /\ end = Null /\ Len(list) \in Nat /\ ~walk.on
         /\ Root \in 1 .. Len(list) /\ Root \in Nat /\ LastSuper(list, Len(list), Root)
         /\ list[Root] \in PairType /\ list[Root].super \in Supers
         /\ \A k \in 1 .. Len(list) : list[k].at < list[Root].super.count /\ list[k].at \in Nat
         /\ list[Root].super.minor <= LFS_DISK_VERSION_MINOR
         /\ Shown = [minor |-> list[Root].super.minor, count |-> list[Root].super.count,
                     max |-> list[Root].super.max, val |-> list[Root].val, sound |-> TRUE]
<1>1. /\ list # <<>> /\ end = Null /\ Sound /\ Typed /\ Formatted /\ ~walk.on
      /\ list[Root].super.minor <= LFS_DISK_VERSION_MINOR
      /\ \A k \in DOMAIN list : list[k].at < list[Root].super.count
  BY DEF RInv, IInv, Mounted, Settled, Sound
<1>2. DOMAIN list = 1 .. Len(list) /\ \A k \in 1 .. Len(list) : list[k] \in PairType
  BY <1>1, LenProperties, ElementOfSeq DEF Typed
<1>3. \A k \in 1 .. Len(list) : list[k].at < list[Root].super.count /\ list[k].at \in Nat
  BY <1>1, <1>2, AtIsNumber
<1>4. Sound = TRUE
  BY <1>1 DEF Sound
<1>5. Shown = [minor |-> list[Root].super.minor, count |-> list[Root].super.count,
               max |-> list[Root].super.max, val |-> list[Root].val, sound |-> TRUE]
  BY <1>1, <1>4 DEF Shown
<1> QED
  BY <1>1, <1>3, <1>5, RootFacts

LEMMA PutCallIsFine ==
  ASSUME RInv, IInv', NEW v \in Vals, PutCall(v)
  PROVE  Fine
<1> PICK r : r = Root
  OBVIOUS
<1>1. /\ Idle /\ lfs.on /\ list' = list /\ end' = end /\ lfs' = lfs /\ walk' = walk /\ answer' = "none"
      /\ op = NoOp /\ ~walk.on
      /\ op' = IF lfs.needs THEN Commit("put", v, "upgrade", "super", Upgraded)
                            ELSE Commit("put", v, "write", "val", v)
  BY DEF PutCall, Idle, disk
<1>2. /\ r \in 1 .. Len(list) /\ Agrees(list[r].super) /\ list[r] \in PairType
      /\ lfs.needs \in BOOLEAN
  BY <1>1, CallBegins DEF RInv, Fields
<1>3. \A k \in 1 .. Len(list) : list[k].at < lfs.count
  BY <1>1, <1>2, MountedList DEF Agrees
<1>4. Dated' /\ Shown' = Shown /\ Root' = r /\ Sound' = Sound
  BY <1>1, DiskStays DEF RInv
<1>5. Fitting' /\ Settled'
  BY <1>1, <1>4 DEF RInv, Fitting, Settled
<1>6. /\ op'.kind = "put" /\ op'.arg = v /\ op'.at = r /\ op'.new = <<>>
      /\ IF lfs.needs THEN op'.step = "upgrade" /\ op'.edit.part = "super"
         ELSE op'.step = "write" /\ op'.edit.part = "val" /\ op'.edit.to = v
  BY <1>1 DEF Commit
<1>7. Target' = Edited' /\ Len(op'.new) = 0
  BY <1>6 DEF Target
<1>8. Copies'
  BY <1>1, <1>3, <1>4, <1>6, <1>7, <1>2 DEF Copies
<1>9. Asked'
  <2>1. CASE lfs.needs
    <3>1. Edited' = [list[r] EXCEPT !.super = op'.edit.to]
      BY <1>1, <1>6, <2>1 DEF Edited
    <3>2. Edited'.val = list[r].val
      BY <1>2, <3>1 DEF PairType
    <3> QED
      BY <1>1, <1>4, <1>6, <1>7, <2>1, <3>2 DEF Asked
  <2>2. CASE ~lfs.needs
    <3>1. Edited' = [list[r] EXCEPT !.val = v]
      BY <1>1, <1>6, <2>2 DEF Edited
    <3>2. Edited'.super = list[r].super /\ Edited'.val = v
      BY <1>2, <3>1 DEF PairType
    <3> QED
      BY <1>1, <1>4, <1>6, <1>7, <2>2, <3>2 DEF Asked
  <2> QED
    BY <2>1, <2>2
<1>10. Asking = [kind |-> "none", arg |-> 0] /\ Asking'.kind = "put"
  BY <1>1, <1>6 DEF Asking, NoOp
<1>11. Plain!Ask
  BY <1>1, <1>4, <1>10 DEF Plain!Ask, Plain!Quiet
<1> QED
  BY <1>4, <1>5, <1>8, <1>9, <1>11 DEF Fine, Pending, Plain!Next

LEMMA GrowCallIsFine ==
  ASSUME RInv, IInv', NoDeviations, NEW n \in Counts, GrowCall(n)
  PROVE  Fine
<1> PICK r : r = Root
  OBVIOUS
<1>1. /\ Idle /\ lfs.on /\ list' = list /\ end' = end /\ walk' = walk /\ answer' = "none"
      /\ op = NoOp /\ ~walk.on /\ r = 1
      /\ n < lfs.count => \A p \in Ats(list) : p < n
      /\ lfs' = [lfs EXCEPT !.count = n] /\ op' = Commit("grow", n, "write", "count", n)
  BY DEF GrowCall, Idle, disk, NoDeviations
<1>2. /\ r \in 1 .. Len(list) /\ Agrees(list[r].super) /\ list[r] \in PairType
      /\ list[r].super \in Supers /\ lfs \in Fields /\ lfs.count \in Counts
  BY <1>1, CallBegins DEF RInv
<1>3. n \in Nat /\ lfs.count \in Nat
  <2>1. \A c \in Counts : c \in 1 .. Blocks
    BY SuperAssumption
  <2> QED
    BY <1>2, <2>1
<1>4. lfs'.count = n /\ lfs'.on = lfs.on /\ lfs'.needs = lfs.needs /\ lfs'.max = lfs.max
  BY <1>1, <1>2 DEF Fields
<1>5. ASSUME NEW k \in 1 .. Len(list) PROVE list[k].at < lfs'.count
  <2>1. list[k].at < lfs.count /\ list[k].at \in Nat
    BY <1>1, <1>2, MountedList DEF Agrees
  <2>2. CASE n < lfs.count
    <3>1. list[k].at \in Ats(list)
      <4>1. k \in DOMAIN list
        BY LenProperties DEF RInv, IInv, Typed
      <4> QED
        BY <4>1 DEF Ats
    <3> QED
      BY <1>1, <1>4, <2>2, <3>1
  <2> QED
    BY <1>3, <1>4, <2>1, <2>2
<1>6. Dated' /\ Shown' = Shown /\ Root' = r /\ Sound' = Sound
  BY <1>1, DiskStays DEF RInv
<1>7. Fitting' /\ Settled'
  BY <1>1, <1>4, <1>6 DEF RInv, Fitting, Settled
<1>8. /\ op'.kind = "grow" /\ op'.arg = n /\ op'.at = r /\ op'.new = <<>> /\ op'.step = "write"
      /\ op'.edit.part = "count" /\ op'.edit.to = n
  BY <1>1 DEF Commit
<1>9. Target' = Edited' /\ Len(op'.new) = 0
  BY <1>8 DEF Target
<1>10. Copies'
  BY <1>1, <1>2, <1>5, <1>6, <1>8, <1>9 DEF Copies
<1>11. Asked'
  <2>1. Edited' = [list[r] EXCEPT !.super = [list[r].super EXCEPT !.count = n]]
    BY <1>1, <1>8 DEF Edited
  <2>2. Edited'.super = [list[r].super EXCEPT !.count = n] /\ Edited'.val = list[r].val
    BY <1>2, <2>1 DEF PairType
  <2> QED
    BY <1>1, <1>6, <1>8, <1>9, <2>2 DEF Asked
<1>12. Asking = [kind |-> "none", arg |-> 0] /\ Asking'.kind = "grow"
  BY <1>1, <1>8 DEF Asking, NoOp
<1>13. Plain!Ask
  BY <1>1, <1>4, <1>6, <1>12 DEF Plain!Ask, Plain!Quiet
<1> QED
  BY <1>6, <1>7, <1>10, <1>11, <1>13 DEF Fine, Pending, Plain!Next

LEMMA CommitFailsIsFine ==
  ASSUME RInv, IInv', NoDeviations, CommitFails
  PROVE  Fine
<1>1. /\ op.kind = "put" /\ op' = NoOp /\ list' = list /\ end' = end /\ lfs' = lfs /\ walk' = walk
      /\ answer' = "Io" /\ lfs.on /\ ~walk.on
  BY DEF CommitFails, NoDeviations, disk, RInv, IInv, Running
<1>2. Dated' /\ Shown' = Shown /\ Root' = Root /\ Sound' = Sound
  BY <1>1, DiskStays DEF RInv
<1>3. Fitting' /\ Settled' /\ Pending'
  BY <1>1, <1>2, NothingTyped DEF RInv, Fitting, Settled, Pending
<1>4. Asking = [kind |-> "put", arg |-> op.arg] /\ Asking' = [kind |-> "none", arg |-> 0]
  BY <1>1 DEF Asking, NoOp
<1>5. Plain!Return
  BY <1>1, <1>2, <1>4 DEF Plain!Return, Plain!Quiet
<1> QED
  BY <1>2, <1>3, <1>5 DEF Fine, Plain!Next

\* The commit in progress.
LEMMA CommitFacts ==
  ASSUME RInv, op.kind \in {"put", "grow"}
  PROVE  /\ lfs.on /\ Writes(Root) /\ Copies /\ Asked /\ Typed
         /\ op \in Ops /\ op.at \in 1 .. Root /\ op.at \in Nat /\ op.old \in Nat /\ op.old = Root - op.at
         /\ op.new \in Seq(PairType) /\ Len(op.new) \in Nat
         /\ Len(op.new) = op.old + (IF op.split THEN 1 ELSE 0) /\ op.split \in BOOLEAN
         /\ Edited \in PairType /\ Edited.at = list[op.at].at /\ op.at \in 1 .. Len(list)
         /\ op.edit.part = "tail" => Edited = list[op.at]
<1>1. Typed /\ lfs.on /\ Copies /\ Asked /\ op \in Ops /\ op.new \in Seq(PairType) /\ op.split \in BOOLEAN
      /\ op.at \in Nat /\ op.old \in Nat
  BY DEF RInv, IInv, Running, Pending, Typed, Ops
<1>2. PICK r \in 1 .. Len(list) : LastSuper(list, Len(list), r) /\ Writes(r)
  BY DEF RInv, IInv, Running
<1>3. Root = r
  BY <1>1, <1>2, RootIsLast DEF Typed
<1>4. Edited \in PairType /\ Edited.at = list[op.at].at /\ op.at \in 1 .. Len(list)
  BY <1>1, <1>2, EditedPair
<1>5. op.at \in 1 .. r /\ op.old = r - op.at /\ Len(op.new) = op.old + (IF op.split THEN 1 ELSE 0)
  BY <1>2 DEF Writes, Span
<1>6. op.edit.part = "tail" => Edited = list[op.at]
  BY DEF Edited
<1> QED
  BY <1>1, <1>2, <1>3, <1>4, <1>5, <1>6, LenProperties

\* Where a pair of the new list comes from in the old one.
Origin(z) == IF op.split /\ z > op.at THEN z - 1 ELSE z

\* The superblocks stay where they are, but for the root's, and that of {0, 1} is
\* there twice if it expands.
LEMMA LinkedSupers ==
  ASSUME RInv, op.kind \in {"put", "grow"}, NEW pair \in PairType,
         pair.at = Edited.at, pair.super = Edited.super, Linked(pair)
  PROVE  /\ Len(list') \in Nat /\ list' \in Seq(PairType) /\ Root' \in 1 .. Len(list') /\ Root' \in Nat
         /\ LastSuper(list', Len(list'), Root')
         /\ list'[Root'].super = Target.super
         /\ op.new # <<>> => list'[Root'] = Target
         /\ op.new = <<>> => list'[Root'] = pair
         /\ list'[1].at = list[1].at
         /\ \A z \in 1 .. Len(list') : list'[z].at < lfs.count
         /\ \A z \in 1 .. Len(list') :
              /\ Origin(z) \in 1 .. Len(list)
              /\ list'[z].super = IF Origin(z) = Root THEN Target.super ELSE list[Origin(z)].super
<1>1. /\ lfs.on /\ Writes(Root) /\ Copies /\ Typed /\ op \in Ops
      /\ op.at \in 1 .. Root /\ op.at \in Nat /\ op.old \in Nat /\ op.old = Root - op.at
      /\ op.new \in Seq(PairType) /\ Len(op.new) \in Nat
      /\ Len(op.new) = op.old + (IF op.split THEN 1 ELSE 0) /\ op.split \in BOOLEAN
      /\ Edited.at = list[op.at].at
      /\ op.edit.part = "tail" => Edited = list[op.at]
  BY CommitFacts
<1>2. /\ Len(list) \in Nat /\ Root \in 1 .. Len(list) /\ Root \in Nat /\ LastSuper(list, Len(list), Root)
  BY <1>1, MountedList
<1> PICK i, d, t, n, r, q : i = op.at /\ d = op.old /\ t = op.new /\ n = Len(op.new) /\ r = Root /\ q = Root'
  OBVIOUS
<1> PICK l, m, x : l = Len(list) /\ m = Len(list') /\ x = IF op.split THEN 1 ELSE 0
  OBVIOUS
<1>3. /\ IsSplice(list', PairType, list, i, pair, t, d)
      /\ q = i + n /\ q \in 1 .. m /\ q \in Nat /\ LastSuper(list', m, q)
      /\ list'[q].super = Target.super
  BY <1>1, <1>2, LinkedList DEF RInv
<1>4. /\ list' \in Seq(PairType) /\ m = l - d + n
      /\ \A k \in 1 .. i - 1 : list'[k] = list[k]
      /\ list'[i] = pair
      /\ \A k \in 1 .. n : list'[i + k] = t[k]
      /\ \A k \in i + n + 1 .. m : list'[k] = list[k - n + d]
  BY <1>3 DEF IsSplice
<1>5. /\ i \in Nat /\ d \in Nat /\ n \in Nat /\ r \in Nat /\ l \in Nat /\ m \in Nat /\ x \in {0, 1}
      /\ n = d + x /\ i >= 1 /\ i + d = r /\ r <= l /\ m = l + x /\ q = r + x /\ q = i + n
  <2>1. n = d + x /\ d = r - i /\ i \in 1 .. r /\ r \in 1 .. l
    BY <1>1, <1>2
  <2>2. i \in Nat /\ d \in Nat /\ n \in Nat /\ r \in Nat /\ l \in Nat /\ x \in {0, 1}
    BY <1>1, <1>2
  <2>3. m = l - d + n /\ q = i + n
    BY <1>3, <1>4
  <2> QED
    BY ONLY <2>1, <2>2, <2>3
<1>6. \A z \in 1 .. m : Origin(z) = IF z <= i THEN z ELSE z - x
  BY <1>5 DEF Origin
<1>7. /\ \A k \in 1 .. l : list[k].at < lfs.count
      /\ \A k \in 1 .. n : t[k].at < lfs.count
      /\ \A k \in 1 .. n - 1 : t[k].super = list[i + k - x].super
      /\ IF i < r THEN op.edit.part = "tail" ELSE Edited.super = Target.super
  BY <1>1 DEF Copies, Source
<1>8. n > 0 => t[n] = Target /\ t # <<>>
  BY <1>1, EmptySeq DEF Target
<1>9. ASSUME NEW z \in 1 .. m
      PROVE  /\ list'[z].at < lfs.count /\ Origin(z) \in 1 .. l
             /\ list'[z].super = IF Origin(z) = r THEN Target.super ELSE list[Origin(z)].super
  <2>1. CASE z < i
    <3>1. z \in 1 .. i - 1 /\ z \in 1 .. l /\ z # r /\ z <= i
      BY ONLY <1>5, <1>9, <2>1
    <3> QED
      BY <1>4, <1>6, <1>7, <3>1
  <2>2. CASE z = i
    <3>1. i \in 1 .. l /\ i \in 1 .. m
      BY ONLY <1>5
    <3>2. Origin(z) = i
      BY <1>6, <2>2, <3>1
    <3>3. pair.at < lfs.count
      BY <1>1, <1>7, <3>1
    <3>4. CASE i = r
      BY <1>4, <1>7, <2>2, <3>1, <3>2, <3>3, <3>4
    <3>5. CASE i # r
      <4>1. i < r
        BY ONLY <1>5, <3>5
      <4>2. pair.super = list[i].super
        BY <1>1, <1>7, <4>1
      <4> QED
        BY <1>4, <2>2, <3>1, <3>2, <3>3, <3>5, <4>2
    <3> QED
      BY <3>4, <3>5
  <2>3. CASE z > i /\ z <= q
    <3> PICK k : k = z - i
      OBVIOUS
    <3>1. k \in 1 .. n /\ z = i + k /\ n > 0 /\ ~(z <= i) /\ z - x \in 1 .. l
      BY ONLY <1>5, <1>9, <2>3, k = z - i
    <3>2. list'[z] = t[k] /\ t[k].at < lfs.count /\ Origin(z) = i + k - x
      <4>1. list'[i + k] = t[k] /\ t[k].at < lfs.count
        BY <1>4, <1>7, <3>1
      <4>2. Origin(z) = z - x /\ z - x = i + k - x
        <5>1. Origin(z) = z - x
          BY <1>6, <1>9, <3>1
        <5>2. z - x = i + k - x
          BY ONLY <1>5, <1>9, <3>1
        <5> QED
          BY <5>1, <5>2
      <4> QED
        BY <3>1, <4>1, <4>2
    <3>3. CASE k = n
      <4>1. i + k - x = r /\ r \in 1 .. l
        BY ONLY <1>5, <3>3
      <4>2. t[k] = Target
        BY <1>8, <3>1, <3>3
      <4>3. Origin(z) = r
        BY <3>2, <4>1
      <4> QED
        BY ONLY <3>2, <4>1, <4>2, <4>3
    <3>4. CASE k # n
      <4>1. k \in 1 .. n - 1 /\ i + k - x # r /\ i + k - x \in 1 .. l
        BY ONLY <1>5, <3>1, <3>4
      <4>2. t[k].super = list[i + k - x].super
        BY <1>7, <4>1
      <4>3. Origin(z) # r /\ Origin(z) \in 1 .. l /\ list'[z].super = list[Origin(z)].super
        BY ONLY <3>2, <4>1, <4>2
      <4> QED
        BY <3>2, <4>3
    <3> QED
      BY <3>3, <3>4
  <2>4. CASE z > q
    <3>1. z \in i + n + 1 .. m /\ z - n + d = z - x /\ z - x \in 1 .. l /\ z - x # r /\ ~(z <= i)
      BY ONLY <1>5, <1>9, <2>4
    <3>2. list'[z] = list[z - x] /\ Origin(z) = z - x
      BY <1>4, <1>6, <1>9, <3>1
    <3> QED
      BY <1>7, <3>1, <3>2
  <2>5. z < i \/ z = i \/ (z > i /\ z <= q) \/ z > q
    BY ONLY <1>5, <1>9
  <2> QED
    BY <2>1, <2>2, <2>3, <2>4, <2>5
<1>10. list'[1].at = list[1].at
  <2>1. CASE i = 1
    BY <1>1, <1>4, <2>1
  <2>2. CASE i # 1
    <3>1. 1 \in 1 .. i - 1
      BY ONLY <1>5, <2>2
    <3> QED
      BY <1>4, <3>1
  <2> QED
    BY <2>1, <2>2
<1>11. /\ op.new # <<>> => list'[Root'] = Target
       /\ op.new = <<>> => list'[Root'] = pair
  <2>1. CASE op.new # <<>>
    <3>1. n \in 1 .. n /\ n > 0
      BY <1>1, <2>1, EmptySeq
    <3> QED
      BY <1>3, <1>4, <1>8, <2>1, <3>1
  <2>2. CASE op.new = <<>>
    <3>1. n = 0
      BY <2>2, EmptySeq
    <3>2. q = i
      BY ONLY <1>5, <3>1
    <3> QED
      BY <1>4, <2>2, <3>2
  <2> QED
    BY <2>1, <2>2
<1> QED
  BY <1>3, <1>4, <1>5, <1>9, <1>10, <1>11

\* What the root's superblock becomes is not older than any before it.
LEMMA TargetIsNewer ==
  ASSUME RInv, op.kind \in {"put", "grow"}
  PROVE  /\ Target.super \in Supers /\ Target.super.count = lfs.count
         /\ Target.super.minor <= LFS_DISK_VERSION_MINOR
         /\ \A j \in 1 .. Root - 1 : HasSuper(list[j]) => Older(list[j].super, Target.super)
<1>1. lfs.on /\ Writes(Root) /\ Asked /\ Typed /\ Formatted /\ Dated
  BY CommitFacts DEF RInv, IInv
<1> PICK s, t : s = Target.super /\ t = list[Root].super
  OBVIOUS
<1>2. /\ Len(list) \in Nat /\ Root \in 1 .. Len(list) /\ Root \in Nat /\ t \in Supers
      /\ t.minor <= LFS_DISK_VERSION_MINOR
  BY <1>1, MountedList
<1>3. s \in Supers /\ s.count = lfs.count
  BY <1>1 DEF Writes, Promised, Agrees
<1>4. /\ s.minor \in Nat /\ s.max \in Nat /\ t.minor \in Nat /\ t.max \in Nat
  BY <1>2, <1>3, SuperFields
<1>5. CASE op.kind = "put" /\ op.step = "write" /\ s = t
  <2>1. \A j \in 1 .. Root - 1 : j \in 1 .. Len(list)
    BY <1>2
  <2> QED
    BY <1>1, <1>2, <1>3, <1>5, <2>1, RootIsNewest
<1>6. CASE op.kind = "put" /\ op.step = "upgrade"
  <2>1. /\ s.minor = LFS_DISK_VERSION_MINOR /\ s.max = lfs.max
        /\ lfs.count = t.count /\ t.max \in {0, lfs.max}
    BY <1>1, <1>6 DEF Writes, Promised, Agrees
  <2>2. ASSUME NEW j \in 1 .. Root - 1, HasSuper(list[j]) PROVE Older(list[j].super, s)
    <3>1. j \in 1 .. Len(list)
      BY <1>2
    <3>2. Older(list[j].super, t)
      BY <1>1, <2>2, <3>1, RootIsNewest
    <3>3. list[j].super.minor \in Nat
      <4>1. list[j] \in PairType
        BY <1>1, <3>1, ElementOfSeq DEF Typed
      <4>2. list[j].super \in Supers
        BY <2>2, <4>1, HasSuperIsSuper
      <4> QED
        BY <4>2, SuperFields
    <3> QED
      BY <1>2, <1>3, <1>4, <2>1, <3>2, <3>3 DEF Older, LFS_DISK_VERSION_MINOR
  <2> QED
    BY <1>3, <1>4, <2>1, <2>2 DEF LFS_DISK_VERSION_MINOR
<1>7. CASE op.kind = "grow" /\ Root = 1 /\ s = [t EXCEPT !.count = op.arg]
  <2>1. s.minor = t.minor
    BY <1>2, <1>7 DEF Supers
  <2>2. \A j \in 1 .. Root - 1 : FALSE
    BY <1>7
  <2> QED
    BY <1>2, <1>3, <2>1, <2>2
<1> QED
  BY <1>1, <1>5, <1>6, <1>7 DEF Asked

LEMMA LinkedIsFine ==
  ASSUME RInv, IInv', op.kind \in {"put", "grow"}, NEW pair \in PairType,
         pair.at = Edited.at, pair.super = Edited.super, op.new = <<>> => pair = Edited,
         Linked(pair)
  PROVE  Fine
<1> PICK r, q, s, t : r = Root /\ q = Root' /\ s = Target.super /\ t = list[Root].super
  OBVIOUS
<1>0. r = Root /\ q = Root' /\ s = Target.super /\ t = list[Root].super
  OBVIOUS
<1>1. /\ lfs.on /\ ~walk.on /\ Writes(r) /\ Asked /\ Typed /\ Formatted /\ Dated
      /\ end = Null /\ Len(list) \in Nat /\ r \in 1 .. Len(list) /\ r \in Nat /\ list # <<>>
      /\ LastSuper(list, Len(list), r)
      /\ list[r] \in PairType /\ t \in Supers /\ t.minor <= LFS_DISK_VERSION_MINOR
      /\ Shown = [minor |-> t.minor, count |-> t.count, max |-> t.max, val |-> list[r].val, sound |-> TRUE]
  BY CommitFacts, MountedList DEF RInv, IInv
<1>1a. /\ Len(list') \in Nat /\ list' \in Seq(PairType) /\ Root' \in 1 .. Len(list') /\ Root' \in Nat
       /\ LastSuper(list', Len(list'), Root')
       /\ list'[Root'].super = Target.super
       /\ op.new # <<>> => list'[Root'] = Target
       /\ op.new = <<>> => list'[Root'] = pair
       /\ list'[1].at = list[1].at
       /\ \A z \in 1 .. Len(list') : list'[z].at < lfs.count
       /\ \A z \in 1 .. Len(list') :
            /\ Origin(z) \in 1 .. Len(list)
            /\ list'[z].super = IF Origin(z) = Root THEN Target.super ELSE list[Origin(z)].super
  BY LinkedSupers
<1>2. /\ Len(list') \in Nat /\ list' \in Seq(PairType) /\ q \in 1 .. Len(list') /\ q \in Nat
      /\ LastSuper(list', Len(list'), q)
      /\ list'[q].super = s /\ list'[1].at = list[1].at
      /\ op.new # <<>> => list'[q] = Target
      /\ op.new = <<>> => list'[q] = pair
      /\ \A z \in 1 .. Len(list') : list'[z].at < lfs.count
      /\ \A z \in 1 .. Len(list') :
           /\ Origin(z) \in 1 .. Len(list)
           /\ list'[z].super = IF Origin(z) = r THEN s ELSE list[Origin(z)].super
  BY ONLY <1>0, <1>1a
<1>2a. /\ Target.super \in Supers /\ Target.super.count = lfs.count
       /\ Target.super.minor <= LFS_DISK_VERSION_MINOR
       /\ \A j \in 1 .. Root - 1 : HasSuper(list[j]) => Older(list[j].super, Target.super)
  BY TargetIsNewer
<1>3. /\ s \in Supers /\ s.count = lfs.count /\ s.minor <= LFS_DISK_VERSION_MINOR
      /\ \A j \in 1 .. r - 1 : HasSuper(list[j]) => Older(list[j].super, s)
  BY ONLY <1>0, <1>2a
<1>4. end' = end /\ walk' = walk /\ list'[q] = Target
  BY <1>2 DEF Linked, Target
<1>5. \A z \in 1 .. Len(list') : list'[z] \in PairType
  BY <1>2, ElementOfSeq
<1>6. ASSUME NEW i \in 1 .. Len(list'), NEW j \in 1 .. Len(list'), i < j,
             HasSuper(list'[i]), HasSuper(list'[j])
      PROVE  Older(list'[i].super, list'[j].super)
  <2> PICK a, b : a = Origin(i) /\ b = Origin(j)
    OBVIOUS
  <2>1. /\ a \in 1 .. Len(list) /\ b \in 1 .. Len(list) /\ a \in Nat /\ b \in Nat
        /\ list'[i].super = (IF a = r THEN s ELSE list[a].super)
        /\ list'[j].super = (IF b = r THEN s ELSE list[b].super)
    BY <1>2
  <2>2. a <= b
    <3>1. op.at \in Nat /\ i \in Nat /\ j \in Nat
      BY <1>2, CommitFacts
    <3> QED
      BY <1>6, <3>1 DEF Origin
  <2>3. list'[i].super \in Supers /\ list'[j].super \in Supers
    BY <1>5, <1>6, HasSuperIsSuper
  <2>4. list[a] \in PairType /\ list[b] \in PairType
    BY <1>1, <2>1, ElementOfSeq DEF Typed
  <2>5. \A u \in Supers : Older(u, u)
    BY SuperFields DEF Older
  <2>6. HasSuper(list[r])
    BY <1>1 DEF LastSuper
  <2>7. HasSuper(list[a]) /\ HasSuper(list[b])
    BY <2>1, <2>3, <2>4, <2>6, HasSuperIsSuper
  <2>8. b <= r
    BY <1>1, <2>1, <2>7 DEF LastSuper
  <2>9. CASE a = b
    BY <2>1, <2>3, <2>5, <2>9
  <2>10. CASE a # b /\ b = r
    <3>1. a \in 1 .. r - 1 /\ a # r
      BY <1>1, <2>1, <2>2, <2>10
    <3> QED
      BY <1>3, <2>1, <2>7, <2>10, <3>1
  <2>11. CASE a # b /\ b # r
    <3>1. a < b /\ a # r
      BY <1>1, <2>1, <2>2, <2>8, <2>11
    <3> QED
      BY <1>1, <2>1, <2>7, <2>11, <3>1 DEF Dated
  <2> QED
    BY <2>9, <2>10, <2>11
<1>7. Dated'
  <2>1. list'[1].at = 0
    BY <1>1, <1>2 DEF Dated
  <2> QED
    BY <1>6, <2>1 DEF Dated
<1>8. list' # <<>> /\ DOMAIN list' = 1 .. Len(list')
  BY <1>2, EmptySeq, LenProperties
<1>9. Sound'
  BY <1>1, <1>2, <1>3, <1>4, <1>8 DEF Sound
<1>10. Fitting'
  BY <1>1, <1>4 DEF Fitting
<1>11. Shown' = [minor |-> s.minor, count |-> s.count, max |-> s.max, val |-> Target.val, sound |-> TRUE]
  <2>1. Sound' = TRUE
    BY <1>9 DEF Sound
  <2> QED
    BY <1>2, <1>4, <1>8, <2>1 DEF Shown
<1>12. Asking = [kind |-> op.kind, arg |-> op.arg]
  BY <1>1 DEF Asking
<1>13. lfs \in Fields
  BY <1>1 DEF Typed
<1>14. CASE op.step = "upgrade"
  <2>1. /\ lfs' = [lfs EXCEPT !.needs = FALSE] /\ answer' = answer
        /\ op' = [Commit("put", op.arg, "write", "val", op.arg) EXCEPT !.at = Root']
    BY <1>14 DEF Linked
  <2>2. lfs'.on = lfs.on /\ lfs'.count = lfs.count /\ lfs'.needs = FALSE
    BY <1>13, <2>1 DEF Fields
  <2>3. /\ op.kind = "put" /\ lfs.needs /\ Target.val = list[r].val
        /\ s.minor = LFS_DISK_VERSION_MINOR /\ s.max = lfs.max
        /\ lfs.count = t.count /\ t.max \in {0, lfs.max} /\ lfs.needs = (t.minor < LFS_DISK_VERSION_MINOR)
    BY <1>1, <1>14 DEF Asked, Writes, Promised, Agrees
  <2>4. /\ op'.kind = "put" /\ op'.arg = op.arg /\ op'.step = "write" /\ op'.at = q
        /\ op'.edit.part = "val" /\ op'.edit.to = op.arg /\ op'.new = <<>>
    BY <2>1 DEF Commit
  <2>5. Target' = Edited' /\ Edited' = [list'[q] EXCEPT !.val = op.arg] /\ Len(op'.new) = 0
    BY <2>4 DEF Target, Edited
  <2>6. Edited'.super = s /\ Edited'.val = op.arg
    BY <1>2, <1>5, <2>5 DEF PairType
  <2>7. Copies'
    BY <1>2, <2>2, <2>4, <2>5 DEF Copies
  <2>8. Asked'
    BY <1>2, <2>2, <2>4, <2>5, <2>6 DEF Asked
  <2>9. Settled'
    BY <1>2, <1>3, <1>9 DEF Settled
  <2>10. Asking' = Asking
    BY <1>1, <1>4, <1>12, <2>3, <2>4 DEF Asking
  <2>11. Plain!Upgrade
    <3>1. Shown.minor = t.minor /\ Shown.max = t.max /\ Shown'.max = s.max
      BY <1>1, <1>11
    <3>2. Shown' = [Shown EXCEPT !.minor = LFS_DISK_VERSION_MINOR, !.max = Shown'.max]
      <4> PICK f, g, b : f = Shown /\ g = Shown' /\ b = TRUE
        OBVIOUS
      <4>1. f = [minor |-> t.minor, count |-> t.count, max |-> t.max, val |-> list[r].val, sound |-> b]
        BY <1>1, Zenon
      <4>2. g = [minor |-> LFS_DISK_VERSION_MINOR, count |-> t.count, max |-> s.max,
                 val |-> list[r].val, sound |-> b]
        BY <1>3, <1>11, <2>3, Zenon
      <4>3. g.max = s.max
        BY <4>2
      <4> PICK y, z, m, n, x, v : /\ y = s.max /\ z = LFS_DISK_VERSION_MINOR /\ m = t.minor
                                  /\ n = t.count /\ x = t.max /\ v = list[r].val
        OBVIOUS
      <4>4. /\ f = [minor |-> m, count |-> n, max |-> x, val |-> v, sound |-> b]
            /\ g = [minor |-> z, count |-> n, max |-> y, val |-> v, sound |-> b]
        BY ONLY <4>1, <4>2, y = s.max, z = LFS_DISK_VERSION_MINOR, m = t.minor, n = t.count,
           x = t.max, v = list[r].val
      <4>5. f \in [minor : {m}, count : {n}, max : {x}, val : {v}, sound : {b}]
        BY ONLY <4>4
      <4>6. [f EXCEPT !.minor = z, !.max = y] \in
              [minor : {z}, count : {n}, max : {y}, val : {v}, sound : {b}]
        BY ONLY <4>5
      <4>7. g \in [minor : {z}, count : {n}, max : {y}, val : {v}, sound : {b}]
        BY ONLY <4>4
      <4>8. g = [f EXCEPT !.minor = z, !.max = y]
        BY ONLY <4>6, <4>7
      <4> QED
        BY <4>3, <4>8
    <3>3. Asking.kind = "put"
      BY <1>12, <2>3
    <3>4. Shown.max # 0 => Shown'.max = Shown.max
      BY <2>3, <3>1
    <3> QED
      BY <1>1, <2>1, <2>2, <2>3, <2>10, <3>1, <3>2, <3>3, <3>4 DEF Plain!Upgrade
  <2> QED
    BY <1>7, <1>10, <2>7, <2>8, <2>9, <2>11 DEF Fine, Pending, Plain!Next
<1>15. CASE op.step # "upgrade"
  <2>1. op' = NoOp /\ lfs' = lfs /\ answer' = "Ok"
    BY <1>15 DEF Linked
  <2>2. Settled' /\ Pending'
    BY <1>2, <1>3, <1>9, <2>1, NothingTyped DEF Settled, Pending
  <2>3. Asking' = [kind |-> "none", arg |-> 0]
    BY <1>1, <1>4, <2>1 DEF Asking, NoOp
  <2>4. CASE op.kind = "put"
    <3>1. ~lfs.needs /\ s = t /\ Target.val = op.arg
      BY <1>1, <1>15, <2>4 DEF Asked
    <3>2. lfs.needs = (t.minor < LFS_DISK_VERSION_MINOR)
      BY <1>1, <2>4 DEF Writes, Promised, Agrees
    <3>3. t.minor = LFS_DISK_VERSION_MINOR
      <4>1. t.minor \in Nat
        BY <1>1, SuperFields
      <4>2. ~(t.minor < LFS_DISK_VERSION_MINOR)
        BY <3>1, <3>2
      <4>3. t.minor <= LFS_DISK_VERSION_MINOR
        BY <1>1
      <4> QED
        BY ONLY <4>1, <4>2, <4>3 DEF LFS_DISK_VERSION_MINOR
    <3>4. Plain!Put
      <4> PICK f, g, a, b : f = Shown /\ g = Shown' /\ a = op.arg /\ b = TRUE
        OBVIOUS
      <4>1. f = [minor |-> t.minor, count |-> t.count, max |-> t.max, val |-> list[r].val, sound |-> b]
        BY <1>1, Zenon
      <4>2. g = [minor |-> t.minor, count |-> t.count, max |-> t.max, val |-> a, sound |-> b]
        BY <1>11, <3>1, Zenon
      <4>3. g = [f EXCEPT !.val = a] /\ f.minor = t.minor
        BY ONLY <4>1, <4>2
      <4>4. Asking.kind = "put" /\ Asking.arg = a
        BY <1>12, <2>4
      <4> QED
        BY <3>3, <4>3, <4>4 DEF Plain!Put
    <3>5. Plain!Return
      BY <1>1, <2>1, <2>3, <3>4 DEF Plain!Return, Plain!Quiet
    <3> QED
      BY <1>7, <1>10, <2>2, <3>5 DEF Fine, Plain!Next
  <2>5. CASE op.kind = "grow"
    <3>1. s = [t EXCEPT !.count = op.arg] /\ Target.val = list[r].val
      BY <1>1, <2>5 DEF Asked
    <3>2. s.minor = t.minor /\ s.max = t.max /\ s.count = op.arg
      BY <1>1, <3>1 DEF Supers
    <3>3. Plain!Grow
      <4> PICK f, g, a, b : f = Shown /\ g = Shown' /\ a = op.arg /\ b = TRUE
        OBVIOUS
      <4>1. f = [minor |-> t.minor, count |-> t.count, max |-> t.max, val |-> list[r].val, sound |-> b]
        BY <1>1, Zenon
      <4>2. g = [minor |-> t.minor, count |-> a, max |-> t.max, val |-> list[r].val, sound |-> b]
        BY <1>11, <3>1, <3>2, Zenon
      <4>3. g = [f EXCEPT !.count = a]
        BY ONLY <4>1, <4>2
      <4>4. Asking.kind = "grow" /\ Asking.arg = a
        BY <1>12, <2>5
      <4> QED
        BY <4>3, <4>4 DEF Plain!Grow
    <3>4. Plain!Return
      BY <1>1, <2>1, <2>3, <3>3 DEF Plain!Return, Plain!Quiet
    <3> QED
      BY <1>7, <1>10, <2>2, <3>4 DEF Fine, Plain!Next
  <2> QED
    BY <2>4, <2>5
<1> QED
  BY <1>14, <1>15

LEMMA CommitInPlaceIsFine ==
  ASSUME RInv, IInv', CommitInPlace
  PROVE  Fine
<1>1. op.kind \in {"put", "grow"} /\ Linked(Edited)
  BY DEF CommitInPlace, Writing
<1>2. Edited \in PairType
  BY <1>1, CommitFacts
<1> QED
  BY <1>1, <1>2, LinkedIsFine

LEMMA ExpandHeadIsFine ==
  ASSUME RInv, IInv', ExpandHead
  PROVE  Fine
<1> DEFINE pair == [Edited EXCEPT !.val = 0]
<1>1. op.split /\ Linked(pair)
  BY DEF ExpandHead
<1>2. op.kind \in {"put", "grow"}
  <2>1. op.kind \in {"none", "format", "put", "grow"}
    BY DEF RInv, IInv, Typed, Ops
  <2>2. op.kind # "none" /\ op.kind # "format"
    BY <1>1 DEF RInv, IInv, Running, NoOp
  <2> QED
    BY <2>1, <2>2
<1>3. Edited \in PairType /\ Len(op.new) \in Nat /\ op.old \in Nat /\ Len(op.new) = op.old + 1
  BY <1>1, <1>2, CommitFacts
<1>4. op.new # <<>>
  BY <1>3, EmptySeq
<1>5. pair \in PairType /\ pair.at = Edited.at /\ pair.super = Edited.super
  BY <1>3, SuperAssumption DEF PairType
<1> HIDE DEF pair
<1> QED
  BY <1>1, <1>2, <1>4, <1>5, LinkedIsFine

\* A copy is written to a new block: what is on the device, and what the root will
\* be, stays as it is.
LEMMA CopyFacts ==
  ASSUME RInv, op.kind \in {"put", "grow"}, NEW new \in Free, MoveTo(new),
         op'.new = <<[Edited EXCEPT !.at = new]>> \o op.new,
         op'.kind = op.kind, op'.arg = op.arg, op'.step = op.step
  PROVE  /\ Len(op'.new) = Len(op.new) + 1
         /\ op'.new[1].super = Edited.super
         /\ \A k \in 1 .. Len(op.new) : op'.new[k + 1] = op.new[k]
         /\ \A k \in 1 .. Len(op'.new) : op'.new[k].at < lfs'.count
         /\ \A k \in 1 .. Len(list') : list'[k].at < lfs'.count
         /\ list' = list /\ Root' = Root /\ Target'.super = Target.super
         /\ Dated' /\ Fitting' /\ Settled' /\ Asked'
         /\ UNCHANGED <<Shown, lfs.on, Asking, answer>>
<1>1. /\ Typed /\ lfs.on /\ ~walk.on /\ Copies /\ Asked /\ lfs \in Fields
      /\ op.new \in Seq(PairType) /\ Edited \in PairType
      /\ list' = list /\ end' = end /\ walk' = walk /\ answer' = answer
      /\ lfs' = [lfs EXCEPT !.root = IF @ = list[op.at].at THEN new ELSE @]
  BY CommitFacts DEF MoveTo, disk, Typed, RInv, IInv, Running
<1>2. lfs'.count = lfs.count /\ lfs'.on = lfs.on /\ lfs'.needs = lfs.needs
  BY <1>1 DEF Fields
<1>3. /\ new \in Nat /\ new < lfs.count /\ new \in 0 .. Blocks - 1
  <2>1. new \in 1 .. lfs.count - 1
    BY DEF Free
  <2>2. lfs.count \in {0} \cup Counts
    BY <1>1 DEF Fields
  <2>3. lfs.count \in Nat /\ lfs.count <= Blocks /\ Blocks \in Nat
    <3>1. Blocks \in Nat /\ \A c \in Counts : c \in 1 .. Blocks
      BY SuperAssumption
    <3> QED
      BY <2>2, <3>1
  <2> QED
    BY <2>1, <2>3
<1> DEFINE copy == [Edited EXCEPT !.at = new]
<1>4. copy \in PairType /\ copy.at = new /\ copy.super = Edited.super /\ copy.val = Edited.val
  BY <1>1, <1>3 DEF PairType
<1>5. op'.new = <<copy>> \o op.new
  OBVIOUS
<1> HIDE DEF copy
<1> PICK t, u : t = op.new /\ u = op'.new
  OBVIOUS
<1>6. /\ Len(u) = Len(t) + 1 /\ Len(t) \in Nat /\ t \in Seq(PairType)
      /\ u[1] = copy /\ \A k \in 1 .. Len(t) : u[k + 1] = t[k]
      /\ u \in Seq(PairType)
  <2>1. u = <<copy>> \o t /\ t \in Seq(PairType)
    BY <1>1, <1>5
  <2> QED
    BY SMTT(30), <1>4, <2>1, Prepended
<1>7. u # <<>> /\ Target' = u[Len(u)]
  <2>1. u # <<>>
    BY <1>6, EmptySeq
  <2> QED
    BY <2>1 DEF Target
<1>8. Target'.super = Target.super /\ Target'.val = Target.val
  <2>1. CASE t = <<>>
    <3>1. u[Len(u)] = copy /\ Target = Edited
      BY <1>6, <2>1, EmptySeq DEF Target
    <3> QED
      BY <1>4, <1>7, <3>1
  <2>2. CASE t # <<>>
    <3>1. Len(t) \in 1 .. Len(t)
      BY <1>6, <2>2, EmptySeq
    <3>2. u[Len(u)] = t[Len(t)] /\ Target = t[Len(t)]
      BY <1>6, <2>2, <3>1 DEF Target
    <3> QED
      BY <1>7, <3>2
  <2> QED
    BY <2>1, <2>2
<1>9. ASSUME NEW k \in 1 .. Len(u) PROVE u[k].at < lfs'.count
  <2>1. CASE k = 1
    BY <1>2, <1>3, <1>4, <1>6, <2>1
  <2>2. CASE k # 1
    <3> PICK j : j = k - 1
      OBVIOUS
    <3>1. j \in 1 .. Len(t) /\ k = j + 1
      BY ONLY <1>6, <1>9, <2>2, j = k - 1
    <3>2. u[k] = t[j]
      BY <1>6, <3>1
    <3>3. t[j].at < lfs.count
      BY <1>1, <3>1 DEF Copies
    <3> QED
      BY <1>2, <3>2, <3>3
  <2> QED
    BY <2>1, <2>2
<1>10. Root' = Root /\ Sound' = Sound /\ Shown' = Shown /\ Dated'
  BY <1>1, DiskStays DEF RInv
<1>11. Fitting' /\ Settled'
  BY <1>1, <1>2, <1>10 DEF RInv, Fitting, Settled
<1>12. Asked'
  BY <1>1, <1>2, <1>8, <1>10 DEF Asked
<1>13. \A k \in 1 .. Len(list') : list'[k].at < lfs'.count
  BY <1>1, <1>2 DEF Copies
<1>14. Asking' = Asking
  BY <1>1 DEF Asking
<1> QED
  BY <1>1, <1>2, <1>4, <1>6, <1>8, <1>9, <1>10, <1>11, <1>12, <1>13, <1>14

LEMMA ExpandIsFine ==
  ASSUME RInv, IInv', Expand
  PROVE  Fine
<1>1. op.kind \in {"put", "grow"} /\ op.at = 1 /\ ~op.split
  BY DEF Expand, Writing
<1>2. PICK new \in Free :
        /\ op' = [op EXCEPT !.split = TRUE, !.new = <<[Edited EXCEPT !.at = new]>> \o @]
        /\ MoveTo(new)
  BY DEF Expand
<1>3. /\ Copies /\ op \in Ops /\ op.old \in Nat /\ op.old = Root - op.at /\ Len(op.new) = op.old
      /\ Root \in Nat /\ op.at \in 1 .. Root
      /\ op.edit.part = "tail" => Edited = list[op.at]
  <2>1. lfs.on
    BY <1>1, CommitFacts
  <2> QED
    BY <1>1, <2>1, CommitFacts, MountedList
<1> PICK u, t, n : u = <<[Edited EXCEPT !.at = new]>> \o op.new /\ t = op.new /\ n = Len(op.new)
  OBVIOUS
<1>4. op' = [op EXCEPT !.split = TRUE, !.new = u]
  BY <1>2
<1>5. /\ op'.new = u /\ op'.split = TRUE /\ op'.kind = op.kind /\ op'.arg = op.arg
      /\ op'.step = op.step /\ op'.at = 1 /\ op'.edit = op.edit
  BY <1>1, <1>3, <1>4 DEF Ops
<1>6. /\ Len(u) = n + 1 /\ u[1].super = Edited.super
      /\ \A k \in 1 .. n : u[k + 1] = t[k]
      /\ \A k \in 1 .. Len(u) : u[k].at < lfs'.count
      /\ \A k \in 1 .. Len(list') : list'[k].at < lfs'.count
      /\ list' = list /\ Root' = Root /\ Target'.super = Target.super
      /\ Dated' /\ Fitting' /\ Settled' /\ Asked'
      /\ UNCHANGED <<Shown, lfs.on, Asking, answer>>
  BY <1>1, <1>2, <1>5, CopyFacts
<1>7. Edited' = Edited
  BY <1>1, <1>5, <1>6 DEF Edited
<1>8. n \in Nat /\ n = Root - 1 /\ Root \in Nat
  BY <1>1, <1>3
<1>9. IF 1 < Root THEN op.edit.part = "tail" ELSE Edited.super = Target.super
  BY <1>1, <1>3 DEF Copies
<1>10. ASSUME NEW k \in 1 .. Len(u) - 1 PROVE u[k].super = list[1 + k - 1].super
  <2>1. k \in 1 .. n /\ 1 + k - 1 = k
    BY <1>6, <1>8
  <2>2. CASE k = 1
    <3>1. 1 < Root
      BY ONLY <1>8, <2>1
    <3>2. op.edit.part = "tail"
      BY ONLY <1>9, <3>1
    <3>3. Edited = list[op.at]
      BY <1>3, <3>2
    <3>4. Edited = list[1]
      BY ONLY <1>1, <3>3
    <3> QED
      BY <1>6, <2>2, <3>4
  <2>3. CASE k # 1
    <3> PICK j : j = k - 1
      OBVIOUS
    <3>1. j \in 1 .. n - 1 /\ j \in 1 .. n /\ k = j + 1
      BY ONLY <1>8, <2>1, <2>3, j = k - 1
    <3>2. t[j].super = list[k].super
      <4>1. t[j].super = list[op.at + j - 0].super
        BY <1>1, <1>3, <3>1 DEF Copies, Source
      <4>2. op.at + j - 0 = k
        BY ONLY <1>1, <1>8, <3>1
      <4> QED
        BY <4>1, <4>2
    <3> QED
      BY <1>6, <2>1, <3>1, <3>2
  <2> QED
    BY <2>2, <2>3
<1>11. Copies'
  BY ZenonT(60), <1>5, <1>6, <1>7, <1>9, <1>10 DEF Copies, Source
<1> QED
  BY <1>6, <1>11 DEF Fine, Pending

LEMMA MoveIsFine ==
  ASSUME RInv, IInv', Move
  PROVE  Fine
<1>1. op.kind \in {"put", "grow"} /\ op.at > 1 /\ ~op.split
  BY DEF Move, Writing
<1>2. PICK new \in Free :
        /\ op' = [op EXCEPT !.at = @ - 1, !.old = @ + 1,
                            !.edit = [part |-> "tail", to |-> new],
                            !.new = <<[Edited EXCEPT !.at = new]>> \o @]
        /\ MoveTo(new)
  BY DEF Move
<1>3. /\ Copies /\ op \in Ops /\ op.old \in Nat /\ op.old = Root - op.at /\ Len(op.new) = op.old
      /\ Root \in Nat /\ op.at \in 1 .. Root /\ op.at \in Nat
      /\ op.edit.part = "tail" => Edited = list[op.at]
  <2>1. lfs.on
    BY <1>1, CommitFacts
  <2> QED
    BY <1>1, <2>1, CommitFacts, MountedList
<1> PICK u, t, n, i, e : /\ u = <<[Edited EXCEPT !.at = new]>> \o op.new /\ t = op.new
                         /\ n = Len(op.new) /\ i = op.at /\ e = [part |-> "tail", to |-> new]
  OBVIOUS
<1>4. op' = [op EXCEPT !.at = i - 1, !.old = op.old + 1, !.edit = e, !.new = u]
  BY <1>2
<1>5. /\ op'.new = u /\ op'.split = FALSE /\ op'.kind = op.kind /\ op'.arg = op.arg
      /\ op'.step = op.step /\ op'.at = i - 1 /\ op'.edit.part = "tail"
  BY <1>1, <1>3, <1>4 DEF Ops
<1>6. /\ Len(u) = n + 1 /\ u[1].super = Edited.super
      /\ \A k \in 1 .. n : u[k + 1] = t[k]
      /\ \A k \in 1 .. Len(u) : u[k].at < lfs'.count
      /\ \A k \in 1 .. Len(list') : list'[k].at < lfs'.count
      /\ list' = list /\ Root' = Root
      /\ Dated' /\ Fitting' /\ Settled' /\ Asked'
      /\ UNCHANGED <<Shown, lfs.on, Asking, answer>>
  BY <1>1, <1>2, <1>5, CopyFacts
<1>7. n \in Nat /\ i \in Nat /\ i > 1 /\ n = Root - i /\ i - 1 < Root
  BY <1>1, <1>3
<1>8. IF i < Root THEN op.edit.part = "tail" ELSE Edited.super = Target.super
  BY <1>3 DEF Copies
<1>9. ASSUME NEW k \in 1 .. Len(u) - 1 PROVE u[k].super = list[i - 1 + k].super
  <2>1. k \in 1 .. n
    BY <1>6, <1>7
  <2>2. CASE k = 1
    <3>1. i < Root /\ i - 1 + k = i
      BY <1>3, <1>7, <2>1, <2>2
    <3>2. Edited = list[i]
      BY <1>3, <1>8, <3>1
    <3> QED
      BY <1>6, <2>2, <3>1, <3>2
  <2>3. CASE k # 1
    <3> PICK j : j = k - 1
      OBVIOUS
    <3>1. j \in 1 .. n - 1 /\ j \in 1 .. n /\ k = j + 1 /\ i - 1 + k = i + j - 0
      BY ONLY <1>7, <2>1, <2>3, j = k - 1
    <3>2. t[j].super = list[i + j - 0].super
      BY <1>1, <1>3, <3>1 DEF Copies, Source
    <3> QED
      BY <1>6, <2>1, <3>1, <3>2
  <2> QED
    BY <2>2, <2>3
<1>10. ASSUME NEW k \in 1 .. Len(u) - 1 PROVE Source(k)' = i - 1 + k
  <2>1. Source(k)' = i - 1 + k - 0
    BY <1>5 DEF Source
  <2>2. k \in 1 .. n
    BY <1>6, <1>7
  <2> QED
    BY <1>7, <2>1, <2>2
<1>11. \A k \in 1 .. Len(op'.new) - 1 : op'.new[k].super = list'[Source(k)'].super
  <2> SUFFICES ASSUME NEW k \in 1 .. Len(u) - 1 PROVE u[k].super = list'[Source(k)'].super
    BY <1>5
  <2>1. u[k].super = list[i - 1 + k].super /\ Source(k)' = i - 1 + k /\ list' = list
    BY <1>6, <1>9, <1>10
  <2> QED
    BY <2>1
<1>12. Copies'
  BY <1>5, <1>6, <1>7, <1>11 DEF Copies
<1> QED
  BY <1>6, <1>12 DEF Fine, Pending

LEMMA StutterIsFine ==
  ASSUME RInv, UNCHANGED vars
  PROVE  Fine
<1>1. list' = list /\ end' = end /\ lfs' = lfs /\ walk' = walk /\ op' = op /\ answer' = answer
  BY DEF vars, disk
<1>2. Root' = Root /\ Sound' = Sound /\ Shown' = Shown /\ Dated'
  BY <1>1, DiskStays DEF RInv
<1>3. Fitting'
  BY <1>1, <1>2 DEF RInv, Fitting, Passed, Suits
<1>4. Settled'
  BY <1>1, <1>2 DEF RInv, Settled
<1>5. Edited' = Edited /\ Target' = Target
  BY <1>1 DEF Edited, Target
<1>6. Copies' = Copies /\ Asked' = Asked
  BY <1>1, <1>2, <1>5 DEF Copies, Asked, Source
<1>7. Asking' = Asking
  BY <1>1 DEF Asking
<1> QED
  BY <1>1, <1>2, <1>3, <1>4, <1>6, <1>7 DEF RInv, Fine, Pending

\* Every step keeps the invariant and is a step of PlainSuper or none.
LEMMA StepIsFine ==
  ASSUME RInv, NoDeviations, [Next]_vars
  PROVE  IInv' /\ Fine
<1>1. IInv'
  BY StepSafe DEF RInv, NoDeviations, FailuresAreClean
<1>2. CASE UNCHANGED vars
  BY <1>1, <1>2, StutterIsFine
<1>3. CASE Next
  BY <1>1, <1>3, MountCallIsFine, FormatCallIsFine, FormatIsFine, MountTurnIsFine, MountEndsIsFine,
     LoseIsFine, DamageIsFine, PutCallIsFine, GrowCallIsFine, CommitInPlaceIsFine,
     CommitFailsIsFine, ExpandIsFine, ExpandHeadIsFine, MoveIsFine DEF Next
<1> QED
  BY <1>1, <1>2, <1>3

\* An empty device, or one that was formatted and used.
LEMMA InitIsFine == Init => RInv /\ Plain!Init
<1> SUFFICES ASSUME Init PROVE RInv /\ Plain!Init
  OBVIOUS
<1>1. /\ end = Null /\ lfs = NoLfs /\ walk = NoWalk /\ op = NoOp /\ answer = "none" /\ IInv
  BY InitSafe DEF Init
<1>2. Fitting /\ Settled /\ Pending
  BY <1>1, NothingTyped DEF Fitting, Settled, Pending
<1>3. Asking = [kind |-> "none", arg |-> 0]
  BY <1>1, NothingTyped DEF Asking, NoOp
<1>4. CASE list = <<>>
  <2>1. Dated
    <3>1. \A i, j \in 1 .. Len(list) : FALSE
      BY <1>4, EmptySeq
    <3> QED
      BY <1>4, <3>1 DEF Dated
  <2>2. Shown = Plain!None
    BY <1>4 DEF Shown, Plain!None
  <2> QED
    BY <1>1, <1>2, <1>3, <2>1, <2>2, NothingTyped DEF RInv, Plain!Init, Plain!Quiet
<1>5. CASE list # <<>>
  <2>1. PICK super \in Supers, d \in Dirs :
          list = [k \in 1..d + 1 |-> Pair(k - 1, IF k = 1 THEN super ELSE NoSuper, 0)]
    BY <1>5 DEF Init
  <2>2. d \in Nat /\ super.count \in Nat /\ d < super.count
    BY <2>1, SuperFields, SuperAssumption
  <2>3. /\ Len(list) = d + 1 /\ DOMAIN list = 1 .. d + 1
        /\ \A k \in 1 .. d + 1 :
             list[k].at = k - 1 /\ list[k].super = IF k = 1 THEN super ELSE NoSuper
    <3>1. DOMAIN list = 1 .. d + 1 /\ Len(list) \in Nat /\ DOMAIN list = 1 .. Len(list)
      BY <1>1, <2>1, LenProperties DEF IInv, Typed
    <3>2. Len(list) = d + 1
      <4> PICK l : l = Len(list)
        OBVIOUS
      <4>1. 1 .. l = 1 .. d + 1 /\ l \in Nat
        BY <3>1
      <4>2. d + 1 \in 1 .. l /\ (l = 0 \/ l \in 1 .. d + 1)
        BY <2>2, <4>1
      <4> QED
        BY <2>2, <4>1, <4>2
    <3> QED
      BY <2>1, <3>1, <3>2 DEF Pair
  <2>4. Root = 1
    <3>1. LastSuper(list, Len(list), 1)
      BY <2>2, <2>3, NoSuperIsNone DEF LastSuper, HasSuper
    <3> QED
      BY <1>1, <3>1, RootIsLast DEF IInv, Typed
  <2>5. Sound
    <3>1. list[1].super = super
      BY <2>2, <2>3
    <3> QED
      BY <1>1, <1>5, <2>2, <2>3, <2>4, <3>1 DEF Sound
  <2>6. Dated
    BY <2>2, <2>3 DEF Dated, HasSuper
  <2>7. Shown.sound
    BY <1>5, <2>5 DEF Shown
  <2> QED
    BY <1>1, <1>2, <1>3, <2>6, <2>7, NothingTyped DEF RInv, Plain!Init, Plain!Quiet
<1> QED
  BY <1>4, <1>5

-----------------------------------------------------------------------------
(***************************************************************************)
(* The theorems.                                                           *)
(***************************************************************************)

\* Every reachable state satisfies the invariant: no superblock of the chain is
\* newer than the root's (lfs_fs_desuperblock, lfs_fs_grow_), a mount that has
\* passed a pair has refused what does not fit (lfs_mount_), and a copy on its way
\* to a new block carries the whole change (lfs_dir_split,
\* lfs_dir_relocatingcommit).
THEOREM ChainIsOrdered == Spec /\ NoDeviations => []RInv
<1> SUFFICES ASSUME NoDeviations PROVE Spec => []RInv
  OBVIOUS
<1>1. Init => RInv
  BY InitIsFine
<1>2. RInv /\ [Next]_vars => RInv'
  BY StepIsFine DEF RInv, Fine
<1> QED
  BY <1>1, <1>2, PTL DEF Spec

\* The chain of superblocks is one superblock: a mount succeeds exactly when the
\* configuration fits it and the list is sound, and a call that returns Ok has
\* changed what the next mount finds (lfs_mount_, lfs_fs_grow_,
\* lfs_fs_desuperblock, lfs_dir_split, lfs_dir_relocatingcommit).
THEOREM ChainIsOneSuperblock == Spec /\ NoDeviations => IsPlainSuper
<1> SUFFICES ASSUME NoDeviations PROVE Spec => IsPlainSuper
  OBVIOUS
<1>1. Init => RInv /\ Plain!Init
  BY InitIsFine
<1>2. RInv /\ [Next]_vars => RInv' /\ [Plain!Next]_<<Shown, lfs.on, Asking, answer>>
  BY StepIsFine DEF RInv, Fine
<1> QED
  BY <1>1, <1>2, PTL DEF IsPlainSuper, Plain!Spec, Spec
=============================================================================
