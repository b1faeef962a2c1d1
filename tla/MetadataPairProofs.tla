-------------------------- MODULE MetadataPairProofs --------------------------
(***************************************************************************)
(* What a commit to a metadata pair guarantees for any number of blocks    *)
(* and program units, any sizes of its commits, any revisions that wear a  *)
(* block out, and any blocks that fail.                                    *)
(*                                                                         *)
(* One circumstance is left out: a directory with open files whose         *)
(* parent's commit fails (HandlesSurvive).  The code does not survive it.  *)
(***************************************************************************)
EXTENDS MetadataPair, FiniteSetTheorems, TLAPS

\* The handles of a directory are used after a call only if they were not moved
\* to blocks that its parent does not refer to.
HandlesSurvive == ~(setup.parentFails /\ setup.handleOps)

-----------------------------------------------------------------------------
(***************************************************************************)
(* The inductive invariant.  At every step, one block of the pair holds    *)
(* the content that a mount would find: a; the other one is o.             *)
(***************************************************************************)

\* lfs_dir_fetch reads pair p from block a rather than from o.
Chosen(image, p, a, o) ==
  /\ a # o
  /\ image[a].off > 0
  /\ \/ p \in {<<a, o>>, <<o, a>>} /\ image[o].off = 0
     \/ p = <<a, o>> /\ ~Newer(image[o].rev, image[a].rev)
     \/ p = <<o, a>> /\ Newer(image[a].rev, image[o].rev)

\* A log that commits are appended to: its units were programmed in order.
Log(b) ==
  /\ b.val \in Values
  /\ 1 .. b.off \subseteq b.dirty
  /\ \A u \in b.dirty : 1 .. u \subseteq b.dirty

\* The pair as of the last sync.
Stored(a, o) == Chosen(synced, ref, a, o) /\ Log(synced[a])

\* The last unit of the commit in progress has been programmed, and landed.
Appended == pc = "appended" /\ op.intact
Copied == pc = "copied" /\ op.intact

\* What was written since has not made it unreadable, and until the commit is
\* complete it has not changed its content.
Written(a, o) ==
  /\ disk[a].rev = synced[a].rev
  /\ Log(disk[a])
  /\ IF Appended
     THEN disk[a].off = dir.off + setup.append /\ disk[a].val = op.want
     ELSE disk[a].off = synced[a].off /\ disk[a].val = synced[a].val
  /\ ~(Copied /\ dir.pair[2] = o) => Chosen(disk, ref, a, o)

\* An append is to the end of the log.
Appending(a, o) ==
  /\ dir.pair = <<a, o>>
  /\ dir.rev = synced[a].rev
  /\ dir.off = synced[a].off
  /\ pc = "append" => op.done < setup.append
  /\ pc = "appended" => op.done = setup.append /\ dir.off + op.done <= Units
  /\ pc # "compact" =>
       /\ health[a] # "frozen" => 1 .. dir.off + op.done \subseteq disk[a].dirty
       /\ op.intact /\ op.done > 0 => health[a] # "frozen"
       /\ ~setup.handleOps /\ health[a] # "frozen" =>
            \A u \in disk[a].dirty : u <= dir.off + op.done

\* A compaction is to another block, behind a newer revision.
Copying(a, o) ==
  LET b == dir.pair[2]
  IN  /\ dir.pair[1] = a
      /\ dir.rev = NextRev(synced[a].rev)
      /\ op.relocated \/ b = o
      /\ pc = "copy" => op.done < setup.compact
      /\ pc = "copied" => op.done = setup.compact
      /\ pc \in {"copy", "copied"} /\ health[b] # "frozen" =>
           /\ disk[b].dirty = 1 .. op.done
           /\ op.done > 0 => disk[b].rev = dir.rev
           /\ op.done > 0 /\ ~Copied => disk[b].off = 0
      /\ pc \in {"copy", "copied"} /\ op.intact /\ op.done > 0 => health[b] # "frozen"
      /\ Copied => disk[b].off = setup.compact /\ disk[b].val = op.want

\* A pair that has moved is complete before its parent refers to it.
Moved ==
  /\ disk = synced
  /\ Chosen(synced, dir.pair, dir.pair[1], dir.pair[2])
  /\ Log(synced[dir.pair[1]])
  /\ synced[dir.pair[1]].val = op.want
  /\ synced[dir.pair[1]].rev = dir.rev
  /\ synced[dir.pair[1]].off = dir.off
  /\ handle = dir

\* The copies in the mlist.
Kept(a, o) ==
  ~setup.parentFails /\ pc \notin {"parent", "down"} =>
    /\ handle.pair = <<a, o>>
    /\ handle.rev = synced[a].rev
    /\ handle.off = synced[a].off

Safe(a, o) ==
  /\ Stored(a, o)
  /\ Written(a, o)
  /\ pc \in {"append", "appended", "compact"} => Appending(a, o)
  /\ pc \in {"erase", "copy", "copied", "relocate"} => Copying(a, o)
  /\ pc = "parent" => Moved
  /\ Kept(a, o)

\* A commit has a content, and a call that is not running has none.
Calling ==
  IF pc \in {"idle", "down"} THEN op = NoOp ELSE op.want \in Values /\ out = "none"

Holds(a, o) == TypeOK /\ HandlesSurvive /\ Calling /\ Safe(a, o)

IInv == \E a, o \in Blocks : Holds(a, o)

-----------------------------------------------------------------------------
(***************************************************************************)
(* Revisions, and lfs_dir_fetch.                                           *)
(***************************************************************************)

\* The revision of a compaction is newer than the one it replaces, also when it
\* wraps around.
LEMMA NextRevIsNewer ==
  ASSUME NEW r \in Revs
  PROVE  /\ NextRev(r) \in Revs
         /\ Newer(NextRev(r), r)
         /\ ~Newer(r, NextRev(r))
BY MdirAssumption DEF Revs, NextRev, Newer

\* lfs_scmp does not say of two revisions that each is newer.
LEMMA NewerIsAsymmetric ==
  ASSUME NEW r \in Revs, NEW s \in Revs, Newer(r, s)
  PROVE  ~Newer(s, r)
BY MdirAssumption DEF Revs, Newer

\* What lfs_dir_fetch finds in a pair one of whose blocks is chosen.
LEMMA ChosenIsFetched ==
  ASSUME NEW image, NEW p, NEW a \in Blocks, NEW o \in Blocks, Chosen(image, p, a, o)
  PROVE  /\ Readable(image, p)
         /\ Content(image, p) = image[a].val
         /\ Fetch(image, p) = [pair |-> <<a, o>>, rev |-> image[a].rev, off |-> image[a].off,
                               erased |-> FcrcMatches(image[a])]
<1>1. CASE p = <<a, o>>
  <2>1. FetchIndex(image, p) = 1
    BY <1>1 DEF FetchIndex, Chosen
  <2> QED
    BY <1>1, <2>1 DEF Readable, Content, Fetch
<1>2. CASE p = <<o, a>>
  <2>1. FetchIndex(image, p) = 2
    BY <1>2 DEF FetchIndex, Chosen
  <2> QED
    BY <1>2, <2>1 DEF Readable, Content, Fetch
<1> QED
  BY <1>1, <1>2 DEF Chosen

-----------------------------------------------------------------------------
(***************************************************************************)
(* The invariant holds of a mounted pair, and every step preserves it.     *)
(***************************************************************************)

\* A mounted pair is one that the program may be in.
LEMMA InitSafe == Init /\ HandlesSurvive => IInv /\ Content(synced, ref) \in Values
<1> SUFFICES ASSUME Init, HandlesSurvive PROVE IInv /\ Content(synced, ref) \in Values
  OBVIOUS
<1> DEFINE a == ref[1]
           o == ref[2]
<1>1. ref = <<a, o>> /\ a \in Blocks /\ o \in Blocks /\ a # o /\ setup \in Setups /\ setup \in SetupType
  BY MdirAssumption DEF Init, Pairs
<1>2. PICK v \in Values, w \in Values, r \in Revs, s \in Revs,
           units \in setup.compact .. Units, valid \in BOOLEAN :
       /\ valid => Newer(r, s)
       /\ disk = [b \in Blocks |->
            IF b = ref[1]
            THEN [rev |-> r, off |-> units, val |-> v, dirty |-> 1 .. units]
            ELSE IF b = ref[2] /\ valid
            THEN [rev |-> s, off |-> setup.compact, val |-> w, dirty |-> 1 .. Units]
            ELSE [rev |-> s, off |-> 0, val |-> NoValue, dirty |-> 1 .. Units]]
  BY DEF Init
<1>3. units \in 1 .. Units /\ setup.compact \in 1 .. Units
  BY <1>1, MdirAssumption DEF SetupType
<1>4. disk[a] = [rev |-> r, off |-> units, val |-> v, dirty |-> 1 .. units]
  BY <1>1, <1>2
<1>5. Chosen(disk, ref, a, o)
  BY <1>1, <1>2, <1>3, <1>4, NewerIsAsymmetric DEF Chosen
<1>6. disk \in [Blocks -> BlockImages]
  BY <1>2, <1>3, MdirAssumption DEF BlockImages
<1>7. /\ Content(disk, ref) = v
      /\ Fetch(disk, ref) = [pair |-> <<a, o>>, rev |-> r, off |-> units,
                             erased |-> FcrcMatches(disk[a])]
  BY <1>1, <1>4, <1>5, ChosenIsFetched
<1>8. Log(disk[a])
  BY <1>3, <1>4 DEF Log
<1>9. synced = disk /\ handle = Fetch(disk, ref) /\ dir = handle /\ pc = "idle" /\ op = NoOp /\ out = "none"
  BY DEF Init
<1>10. FcrcMatches(disk[a]) \in BOOLEAN
  BY DEF FcrcMatches
<1>11. handle \in Mdirs
  BY <1>1, <1>3, <1>7, <1>9, <1>10 DEF Mdirs, Pairs
<1>12. health \in [Blocks -> {"good", "flaky", "frozen"}]
  BY DEF Init
<1>13. TypeOK
  BY <1>1, <1>6, <1>9, <1>11, <1>12, MdirAssumption DEF TypeOK, Pairs, NoOp, Ops, Steps
<1>14. Safe(a, o)
  BY <1>4, <1>5, <1>7, <1>8, <1>9 DEF Safe, Stored, Written, Kept, Appended, Copied
<1> QED
  BY <1>1, <1>7, <1>9, <1>13, <1>14 DEF IInv, Holds, Calling

\* What ProgramUnit does to the block and to the registers.
LEMMA ProgramUnitWrites ==
  ASSUME TypeOK, NEW b \in Blocks, NEW u \in 1 .. Units, NEW last \in BOOLEAN,
         op.done < Units, op.want \in Values, ProgramUnit(b, u, last)
  PROVE  /\ disk' \in [Blocks -> BlockImages]
         /\ op' \in Ops
         /\ \A c \in Blocks \ {b} : disk'[c] = disk[c]
         /\ health[b] = "frozen" => disk' = disk
         /\ health[b] # "frozen" =>
              /\ disk'[b].dirty = disk[b].dirty \cup {u}
              /\ disk'[b].rev = IF u = 1 THEN dir.rev ELSE disk[b].rev
              /\ disk'[b].off = IF last /\ op'.intact THEN u
                                ELSE IF u = 1 THEN 0 ELSE disk[b].off
              /\ disk'[b].val = IF last /\ op'.intact THEN op.want
                                ELSE IF u = 1 THEN NoValue ELSE disk[b].val
         /\ op'.want = op.want /\ op'.relocated = op.relocated /\ op'.tried = op.tried
         /\ op'.done = op.done + 1
         /\ op'.intact <=> op.intact /\ u \notin disk[b].dirty /\ health[b] # "frozen"
<1> DEFINE intact == op.intact /\ u \notin disk[b].dirty /\ health[b] # "frozen"
<1>1. op' = [op EXCEPT !.done = @ + 1, !.intact = intact]
  BY DEF ProgramUnit
<1>2. op' \in Ops
  <2>1. op.done + 1 \in 0 .. Units /\ intact \in BOOLEAN /\ op \in Ops
    BY MdirAssumption DEF TypeOK, Ops
  <2> HIDE DEF intact
  <2> QED
    BY <1>1, <2>1 DEF Ops
<1>3. /\ op'.want = op.want /\ op'.relocated = op.relocated /\ op'.tried = op.tried
      /\ op'.done = op.done + 1 /\ op'.intact = intact
  BY <1>1 DEF TypeOK, Ops
<1>4. disk' = IF health[b] = "frozen" THEN disk
              ELSE [disk EXCEPT ![b] = Programmed(disk[b], u, last /\ intact)]
  BY DEF ProgramUnit
<1>5. disk[b] \in BlockImages /\ dir.rev \in Revs
  BY DEF TypeOK, Mdirs
<1>6. Programmed(disk[b], u, last /\ intact) \in BlockImages
  <2> DEFINE commits == last /\ intact
  <2>1. /\ disk[b].dirty \cup {u} \in SUBSET (1 .. Units)
        /\ (IF u = 1 THEN dir.rev ELSE disk[b].rev) \in Revs
        /\ (IF commits THEN u ELSE IF u = 1 THEN 0 ELSE disk[b].off) \in 0 .. Units
        /\ (IF commits THEN op.want ELSE IF u = 1 THEN NoValue ELSE disk[b].val)
              \in Values \cup {NoValue}
    BY <1>5, MdirAssumption DEF BlockImages
  <2> HIDE DEF commits
  <2>2. Programmed(disk[b], u, commits) \in BlockImages
    BY <1>5, <2>1 DEF Programmed, BlockImages
  <2> QED
    BY <2>2 DEF commits
<1>7. disk' \in [Blocks -> BlockImages]
  BY <1>4, <1>6 DEF TypeOK
<1>8. ASSUME health[b] # "frozen"
      PROVE  disk'[b] = Programmed(disk[b], u, last /\ intact)
  BY <1>4, <1>8 DEF TypeOK
<1>9. ASSUME health[b] # "frozen"
      PROVE  /\ disk'[b].dirty = disk[b].dirty \cup {u}
             /\ disk'[b].rev = IF u = 1 THEN dir.rev ELSE disk[b].rev
             /\ disk'[b].off = IF last /\ intact THEN u
                               ELSE IF u = 1 THEN 0 ELSE disk[b].off
             /\ disk'[b].val = IF last /\ intact THEN op.want
                               ELSE IF u = 1 THEN NoValue ELSE disk[b].val
  BY <1>5, <1>8, <1>9 DEF Programmed, BlockImages
<1>10. \A c \in Blocks \ {b} : disk'[c] = disk[c]
  BY <1>4 DEF TypeOK
<1> QED
  BY <1>2, <1>3, <1>4, <1>7, <1>9, <1>10

\* The sizes of a commit are sizes of a block.
LEMMA SetupSizes ==
  ASSUME TypeOK
  PROVE  /\ Units \in Nat \ {0}
         /\ setup.append \in 1 .. Units /\ setup.compact \in 1 .. Units
         /\ setup.super \in BOOLEAN /\ setup.parentFails \in BOOLEAN
         /\ setup.handleOps \in BOOLEAN
BY MdirAssumption DEF TypeOK, SetupType

\* A call begins at the end of the log, from the directory or from a handle.
LEMMA BeginSafe ==
  ASSUME NEW a \in Blocks, NEW o \in Blocks, Holds(a, o), NEW v \in Values, Begin(v)
  PROVE  Holds(a, o)'
<1> USE DEF Holds
<1>1. /\ pc = "idle" /\ op = NoOp
      /\ UNCHANGED <<disk, synced, health, setup, ref, handle>>
      /\ op' = [NoOp EXCEPT !.want = v]
      /\ pc' = IF dir'.erased THEN "append" ELSE "compact"
      /\ out' = "none"
  BY DEF Begin, Calling
<1>2. /\ Stored(a, o) /\ Kept(a, o)
      /\ disk[a].rev = synced[a].rev /\ disk[a].off = synced[a].off
      /\ disk[a].val = synced[a].val
      /\ Log(disk[a]) /\ Chosen(disk, ref, a, o)
  BY <1>1 DEF Safe, Written, Appended, Copied
<1>3. /\ a # o /\ disk[a] \in BlockImages /\ disk[a].off > 0
  BY <1>2 DEF TypeOK, Chosen
<1>4. /\ dir' \in Mdirs
      /\ dir'.pair = <<a, o>> /\ dir'.rev = synced[a].rev /\ dir'.off = synced[a].off
      /\ ~setup.handleOps => dir'.erased = FcrcMatches(disk[a])
  <2>1. CASE dir' = Fetch(disk, ref)
    <3>1. dir' = [pair |-> <<a, o>>, rev |-> disk[a].rev, off |-> disk[a].off,
                  erased |-> FcrcMatches(disk[a])]
      BY <1>2, <2>1, ChosenIsFetched
    <3>2. FcrcMatches(disk[a]) \in BOOLEAN
      BY DEF FcrcMatches
    <3>3. dir' \in Mdirs
      BY <1>3, <3>1, <3>2, SetupSizes DEF Mdirs, BlockImages, Pairs
    <3> QED
      BY <1>2, <3>1, <3>3
  <2>2. CASE setup.handleOps /\ dir' = handle
    BY <1>1, <1>2, <2>2 DEF TypeOK, Kept, HandlesSurvive
  <2> QED
    BY <2>1, <2>2 DEF Begin
<1>5. TypeOK'
  BY <1>1, <1>4, SetupSizes DEF TypeOK, NoOp, Ops, Steps
<1>6. Written(a, o)' /\ Stored(a, o)' /\ Kept(a, o)'
  BY <1>1, <1>2 DEF Written, Appended, Copied, Stored, Kept
<1>7. Appending(a, o)'
  <2>1. op'.done = 0
    BY <1>1 DEF NoOp
  <2>2. 1 .. dir'.off \subseteq disk[a].dirty
    BY <1>2, <1>4 DEF Log
  <2>3. ASSUME pc' = "append", ~setup.handleOps, NEW u \in disk[a].dirty
        PROVE  u <= dir'.off
    <3>1. dir'.off + 1 \notin disk[a].dirty
      BY <1>1, <1>2, <1>4, <2>3 DEF FcrcMatches
    <3>2. u \in 1 .. Units /\ 1 .. u \subseteq disk[a].dirty
      BY <1>2, <1>3, <2>3 DEF Log, BlockImages
    <3>3. dir'.off \in 1 .. Units
      BY <1>4 DEF Mdirs
    <3> QED
      BY <3>1, <3>2, <3>3, SetupSizes
  <2>4. dir'.off \in 1 .. Units
    BY <1>4 DEF Mdirs
  <2> QED
    BY <1>1, <1>4, <2>1, <2>2, <2>3, <2>4, SetupSizes DEF Appending
<1>8. Calling' /\ HandlesSurvive'
  BY <1>1 DEF Calling, NoOp, HandlesSurvive
<1> QED
  BY <1>1, <1>5, <1>6, <1>7, <1>8 DEF Safe

\* A unit is appended.
LEMMA AppendUnitSafe ==
  ASSUME NEW a \in Blocks, NEW o \in Blocks, Holds(a, o), AppendUnit
  PROVE  Holds(a, o)'
<1> USE DEF Holds
<1> DEFINE u == dir.off + op.done + 1
           last == op.done + 1 = setup.append
<1>1. /\ pc = "append" /\ dir.off + op.done < Units
      /\ ProgramUnit(dir.pair[1], u, last)
      /\ pc' = IF last THEN "appended" ELSE "append"
      /\ UNCHANGED <<synced, health, setup, ref, handle, dir, out>>
  BY DEF AppendUnit
<1>2. /\ Stored(a, o) /\ Kept(a, o) /\ Appending(a, o)
      /\ disk[a].rev = synced[a].rev /\ disk[a].off = synced[a].off
      /\ disk[a].val = synced[a].val
      /\ Log(disk[a]) /\ Chosen(disk, ref, a, o)
      /\ op.want \in Values /\ out = "none"
  BY <1>1 DEF Safe, Written, Appended, Copied, Calling
<1>3. /\ dir.pair = <<a, o>> /\ dir.off \in 1 .. Units /\ op.done \in 0 .. Units
      /\ op.done < setup.append /\ a # o /\ disk[a] \in BlockImages
      /\ op.intact \in BOOLEAN
  BY <1>1, <1>2 DEF Appending, TypeOK, Mdirs, Ops, Chosen
<1>4. u \in 2 .. Units /\ op.done < Units /\ last \in BOOLEAN
  BY <1>1, <1>3, SetupSizes
<1>5. /\ disk' \in [Blocks -> BlockImages]
      /\ op' \in Ops
      /\ \A c \in Blocks \ {a} : disk'[c] = disk[c]
      /\ health[a] = "frozen" => disk' = disk
      /\ health[a] # "frozen" =>
           /\ disk'[a].dirty = disk[a].dirty \cup {u}
           /\ disk'[a].rev = disk[a].rev
           /\ disk'[a].off = IF last /\ op'.intact THEN u ELSE disk[a].off
           /\ disk'[a].val = IF last /\ op'.intact THEN op.want ELSE disk[a].val
      /\ op'.want = op.want
      /\ op'.done = op.done + 1
      /\ op'.intact <=> op.intact /\ u \notin disk[a].dirty /\ health[a] # "frozen"
  <2> HIDE DEF u, last
  <2>1. u \in 1 .. Units /\ u # 1
    BY <1>4, SetupSizes
  <2> QED
    BY <1>1, <1>2, <1>3, <1>4, <2>1, ProgramUnitWrites
<1>6. TypeOK'
  BY <1>1, <1>5 DEF TypeOK, Steps
<1>7. health[a] # "frozen" =>
        /\ 1 .. u \subseteq disk'[a].dirty
        /\ \A x \in disk'[a].dirty : 1 .. x \subseteq disk'[a].dirty
        /\ ~setup.handleOps => \A x \in disk'[a].dirty : x <= u
  <2> SUFFICES ASSUME health[a] # "frozen"
               PROVE  /\ 1 .. u \subseteq disk'[a].dirty
                      /\ \A x \in disk'[a].dirty : 1 .. x \subseteq disk'[a].dirty
                      /\ ~setup.handleOps => \A x \in disk'[a].dirty : x <= u
    OBVIOUS
  <2>1. 1 .. dir.off + op.done \subseteq disk[a].dirty
    BY <1>1, <1>2 DEF Appending
  <2>2. disk'[a].dirty = disk[a].dirty \cup {u}
    BY <1>5
  <2>3. 1 .. u \subseteq disk'[a].dirty
    BY <1>3, <2>1, <2>2, SetupSizes
  <2>4. \A x \in disk'[a].dirty : 1 .. x \subseteq disk'[a].dirty
    BY <1>2, <2>2, <2>3 DEF Log
  <2>5. ASSUME ~setup.handleOps, NEW x \in disk'[a].dirty
        PROVE  x <= u
    <3>1. CASE x = u
      BY <1>4, <3>1, SetupSizes
    <3>2. CASE x \in disk[a].dirty
      BY <1>1, <1>2, <1>3, <2>5, <3>2, SetupSizes DEF Appending, BlockImages
    <3> QED
      BY <2>2, <3>1, <3>2
  <2> QED
    BY <2>3, <2>4, <2>5
<1>8. Log(disk'[a]) /\ disk'[a].rev = disk[a].rev /\ disk'[a].off > 0
  <2>1. CASE health[a] = "frozen"
    BY <1>2, <1>5, <2>1 DEF Chosen
  <2>2. CASE health[a] # "frozen"
    <3>1. disk'[a].off \in 1 .. u /\ disk'[a].val \in Values
      BY <1>2, <1>3, <1>4, <1>5, <2>2, SetupSizes DEF Log, Appending, Chosen, BlockImages
    <3> QED
      BY <1>4, <1>5, <1>7, <2>2, <3>1, SetupSizes DEF Log
  <2> QED
    BY <2>1, <2>2
<1>9. Chosen(disk, ref, a, o)'
  BY <1>1, <1>2, <1>3, <1>5, <1>8 DEF Chosen
<1>10. Written(a, o)'
  <2>1. CASE Appended'
    <3>1. last /\ op'.intact /\ health[a] # "frozen"
      BY <1>1, <1>5, <2>1 DEF Appended
    <3>2. disk'[a].off = dir.off + setup.append /\ disk'[a].val = op.want
      BY <1>3, <1>5, <3>1, SetupSizes
    <3> QED
      BY <1>1, <1>2, <1>5, <1>8, <1>9, <2>1, <3>2 DEF Written
  <2>2. CASE ~Appended'
    <3>1. disk'[a].off = disk[a].off /\ disk'[a].val = disk[a].val
      BY <1>1, <1>5, <2>2 DEF Appended
    <3> QED
      BY <1>1, <1>2, <1>8, <1>9, <2>2, <3>1 DEF Written
  <2> QED
    BY <2>1, <2>2
<1>11. Stored(a, o)' /\ Kept(a, o)'
  BY <1>1, <1>2 DEF Stored, Kept
<1>12. Appending(a, o)'
  <2>1. op'.intact => health[a] # "frozen"
    BY <1>5
  <2>2. dir.off + op'.done = u
    BY <1>3, <1>5, SetupSizes
  <2>3. (pc' = "append" => op'.done < setup.append) /\ (pc' = "appended" => op'.done = setup.append)
    BY <1>1, <1>3, <1>5, SetupSizes
  <2> HIDE DEF u, last
  <2> QED
    BY <1>1, <1>2, <1>4, <1>7, <2>1, <2>2, <2>3, SetupSizes DEF Appending
<1>13. Calling' /\ HandlesSurvive'
  BY <1>1, <1>2, <1>5 DEF Calling, HandlesSurvive
<1> QED
  BY <1>1, <1>6, <1>10, <1>11, <1>12, <1>13 DEF Safe

\* A step of a call that leaves the device and the registers alone.
LEMMA AppendStopsSafe ==
  ASSUME NEW a \in Blocks, NEW o \in Blocks, Holds(a, o), AppendStops
  PROVE  Holds(a, o)'
BY DEF Holds, AppendStops, TypeOK, Steps, HandlesSurvive, Calling, Safe, Stored, Written,
       Appended, Copied, Appending, Kept

\* The commit is read back, and the caller's lfs_mdir moves behind it.
LEMMA AppendVerifiedSafe ==
  ASSUME NEW a \in Blocks, NEW o \in Blocks, Holds(a, o), AppendVerified
  PROVE  Holds(a, o)' /\ synced'[a].val = op.want
<1> USE DEF Holds
<1> DEFINE result == [dir EXCEPT !.off = @ + setup.append]
<1>1. /\ Appended /\ synced' = disk /\ Return("ok", result)
      /\ UNCHANGED <<disk, health, setup, ref>>
  BY DEF AppendVerified, Appended
<1>2. pc' = "idle" /\ handle' = result /\ dir' = result /\ op' = NoOp /\ out' = "ok"
  BY <1>1 DEF Return
<1>3. /\ Stored(a, o) /\ Appending(a, o)
      /\ disk[a].rev = synced[a].rev /\ disk[a].off = dir.off + setup.append
      /\ disk[a].val = op.want
      /\ Log(disk[a]) /\ Chosen(disk, ref, a, o)
      /\ dir.off + setup.append <= Units
  BY <1>1 DEF Safe, Written, Appended, Copied, Appending
<1>4. dir \in Mdirs
  BY DEF TypeOK
<1>5. result \in Mdirs
  BY <1>3, <1>4, SetupSizes DEF Mdirs
<1>6. result.pair = <<a, o>> /\ result.rev = disk[a].rev /\ result.off = disk[a].off
  BY <1>3, <1>4 DEF Mdirs, Appending
<1> HIDE DEF result
<1>7. TypeOK'
  BY <1>1, <1>2, <1>5, SetupSizes DEF TypeOK, NoOp, Ops, Steps
<1>8. Stored(a, o)' /\ Written(a, o)' /\ Kept(a, o)'
  BY <1>1, <1>2, <1>3, <1>6 DEF Stored, Written, Kept, Appended, Copied
<1>9. Calling' /\ HandlesSurvive'
  BY <1>1, <1>2 DEF Calling, HandlesSurvive
<1> QED
  BY <1>1, <1>2, <1>3, <1>7, <1>8, <1>9 DEF Safe

\* The commit does not read back, and the log is compacted instead.
LEMMA AppendMismatchSafe ==
  ASSUME NEW a \in Blocks, NEW o \in Blocks, Holds(a, o), AppendMismatch
  PROVE  Holds(a, o)'
<1> USE DEF Holds
<1>1. /\ pc = "appended" /\ ~op.intact /\ synced' = disk /\ pc' = "compact"
      /\ UNCHANGED <<disk, health, setup, ref, handle, dir, op, out>>
  BY DEF AppendMismatch
<1>2. TypeOK'
  BY <1>1 DEF TypeOK, Steps
<1>3. /\ Stored(a, o)' /\ Written(a, o)' /\ Kept(a, o)' /\ Appending(a, o)'
  BY <1>1 DEF Safe, Stored, Written, Kept, Appending, Appended, Copied
<1> QED
  BY <1>1, <1>2, <1>3 DEF Safe, Calling, HandlesSurvive

\* A compaction begins: the other block of the pair, or a free one.
LEMMA CompactSafe ==
  ASSUME NEW a \in Blocks, NEW o \in Blocks, Holds(a, o), Compact
  PROVE  Holds(a, o)'
<1> USE DEF Holds
<1> DEFINE next == [dir EXCEPT !.rev = NextRev(@)]
           move == dir.rev \in Tired /\ ~setup.super
<1>1. /\ pc = "compact" /\ pc' = "erase"
      /\ UNCHANGED <<disk, synced, health, setup, ref, handle, out>>
  BY DEF Compact
<1>2. /\ Stored(a, o) /\ Written(a, o) /\ Kept(a, o) /\ Appending(a, o)
      /\ op.want \in Values /\ out = "none"
  BY <1>1 DEF Safe, Calling
<1>3. dir \in Mdirs /\ op \in Ops /\ ref \in {<<a, o>>, <<o, a>>} /\ a # o
  BY <1>2 DEF TypeOK, Stored, Chosen
<1>4. next \in Mdirs /\ next.rev = NextRev(synced[a].rev) /\ next.pair = <<a, o>>
  BY <1>2, <1>3, NextRevIsNewer DEF Mdirs, Appending
<1>5. /\ dir' \in Mdirs /\ op' \in Ops /\ op'.want = op.want
      /\ dir'.pair[1] = a /\ dir'.rev = NextRev(synced[a].rev)
      /\ op'.relocated \/ dir'.pair[2] = o
  <2>1. CASE move /\ Free # {}
    <3>1. PICK b \in Free : /\ dir' = [next EXCEPT !.pair = <<@[1], b>>]
                            /\ op' = [op EXCEPT !.relocated = TRUE, !.tried = @ \cup {b}]
      BY <2>1 DEF Compact
    <3>2. b \in Blocks /\ b # a
      BY <1>3 DEF Free
    <3> HIDE DEF next
    <3>3. dir' \in Mdirs /\ dir'.pair = <<a, b>> /\ dir'.rev = next.rev
      BY <1>4, <3>1, <3>2 DEF Mdirs, Pairs
    <3>4. op' \in Ops /\ op'.want = op.want /\ op'.relocated
      BY <1>3, <3>1, <3>2 DEF Ops
    <3> QED
      BY SMTT(30), <1>4, <3>3, <3>4
  <2>2. CASE ~(move /\ Free # {})
    <3>1. dir' = next /\ op' = [op EXCEPT !.relocated = move]
      BY <2>2 DEF Compact
    <3>2. move \in BOOLEAN
      BY SetupSizes
    <3> HIDE DEF next, move
    <3>3. op' \in Ops /\ op'.want = op.want
      BY <1>3, <3>1, <3>2 DEF Ops
    <3> QED
      BY <1>4, <3>1, <3>3
  <2> QED
    BY <2>1, <2>2
<1> HIDE DEF next, move
<1>6. TypeOK'
  BY <1>1, <1>5 DEF TypeOK, Steps
<1>7. Copying(a, o)'
  BY <1>1, <1>5 DEF Copying, Copied
<1>8. Stored(a, o)' /\ Written(a, o)' /\ Kept(a, o)'
  BY <1>1, <1>2 DEF Stored, Written, Kept, Appended, Copied
<1> QED
  BY SMTT(30), <1>1, <1>2, <1>5, <1>6, <1>7, <1>8 DEF Safe, Calling, HandlesSurvive

\* The log that is compacted is not the one that is erased, and what is left of
\* the other one is not newer.
LEMMA EraseSafe ==
  ASSUME NEW a \in Blocks, NEW o \in Blocks, Holds(a, o), Erase
  PROVE  Holds(a, o)'
<1> USE DEF Holds
<1> DEFINE b == dir.pair[2]
<1>1. /\ pc = "erase" /\ pc' = "copy"
      /\ op' = [op EXCEPT !.done = 0, !.intact = TRUE]
      /\ UNCHANGED <<synced, health, setup, ref, handle, dir, out>>
      /\ \/ /\ health[b] # "frozen"
            /\ \E image \in ErasedImages(disk[b]) : disk' = [disk EXCEPT ![b] = image]
         \/ /\ health[b] = "frozen"
            /\ UNCHANGED disk
  BY DEF Erase
<1>2. /\ Stored(a, o) /\ Written(a, o) /\ Kept(a, o) /\ Copying(a, o)
      /\ Chosen(disk, ref, a, o)
      /\ op.want \in Values /\ out = "none"
  BY <1>1 DEF Safe, Calling, Written, Copied
<1>3. /\ dir.pair = <<a, b>> /\ b \in Blocks /\ b # a /\ op \in Ops
      /\ disk \in [Blocks -> BlockImages]
  BY <1>2 DEF Copying, TypeOK, Mdirs, Pairs
<1>4. /\ op' \in Ops /\ op'.want = op.want /\ op'.done = 0 /\ op'.intact
      /\ op'.relocated = op.relocated
  <2>1. 0 \in 0 .. Units
    BY SetupSizes
  <2>2. op' \in Ops
    BY <1>1, <1>3, <2>1 DEF Ops
  <2> QED
    BY <1>1, <1>3, <2>2 DEF Ops
<1>5. /\ disk' \in [Blocks -> BlockImages]
      /\ \A c \in Blocks \ {b} : disk'[c] = disk[c]
      /\ health[b] # "frozen" => disk'[b].dirty = {}
      /\ disk'[b].off = 0 \/ (disk'[b].off = disk[b].off /\ disk'[b].rev = disk[b].rev)
  <2>1. CASE health[b] = "frozen"
    BY <1>1, <1>3, <2>1
  <2>2. CASE health[b] # "frozen"
    <3>1. PICK image \in ErasedImages(disk[b]) : disk' = [disk EXCEPT ![b] = image]
      BY <1>1, <2>2
    <3>2. disk[b] \in BlockImages
      BY <1>3
    <3>3. /\ image \in BlockImages /\ image.dirty = {}
          /\ image.off = 0 \/ (image.off = disk[b].off /\ image.rev = disk[b].rev)
      <4>1. CASE image = [disk[b] EXCEPT !.dirty = {}]
        BY <3>2, <4>1 DEF BlockImages
      <4>2. CASE \E r \in ErasedRevs : image = [rev |-> r, off |-> 0, val |-> NoValue, dirty |-> {}]
        <5>1. PICK r \in Revs : image = [rev |-> r, off |-> 0, val |-> NoValue, dirty |-> {}]
          BY <4>2, MdirAssumption DEF Revs
        <5>2. 0 \in 0 .. Units
          BY SetupSizes
        <5>3. image \in BlockImages
          BY <5>1, <5>2 DEF BlockImages
        <5>4. image.dirty = {} /\ image.off = 0
          BY <5>1
        <5> QED
          BY <5>3, <5>4
      <4> QED
        BY <4>1, <4>2 DEF ErasedImages
    <3> QED
      BY <1>3, <3>1, <3>3
  <2> QED
    BY <2>1, <2>2
<1> HIDE DEF b
<1>6. TypeOK'
  BY <1>1, <1>4, <1>5 DEF TypeOK, Steps
<1>7. Chosen(disk, ref, a, o)'
  BY <1>1, <1>2, <1>3, <1>5 DEF Chosen
<1>8. Written(a, o)'
  BY <1>1, <1>2, <1>3, <1>5, <1>7 DEF Written, Appended, Copied
<1>9. Copying(a, o)'
  <2>1. setup.compact > 0
    BY SetupSizes
  <2> QED
    BY <1>1, <1>2, <1>4, <1>5, <2>1 DEF Copying, Copied, b
<1>10. Stored(a, o)' /\ Kept(a, o)'
  BY <1>1, <1>2 DEF Stored, Kept
<1> QED
  BY <1>1, <1>2, <1>4, <1>6, <1>8, <1>9, <1>10 DEF Safe, Calling, HandlesSurvive

\* A unit of the new log is written.
LEMMA CopyUnitSafe ==
  ASSUME NEW a \in Blocks, NEW o \in Blocks, Holds(a, o), CopyUnit
  PROVE  Holds(a, o)'
<1> USE DEF Holds
<1> DEFINE b == dir.pair[2]
           u == op.done + 1
           last == op.done + 1 = setup.compact
<1>1. /\ pc = "copy" /\ ProgramUnit(b, u, last)
      /\ pc' = IF last THEN "copied" ELSE "copy"
      /\ UNCHANGED <<synced, health, setup, ref, handle, dir, out>>
  BY DEF CopyUnit
<1>2. /\ Stored(a, o) /\ Written(a, o) /\ Kept(a, o) /\ Copying(a, o)
      /\ Chosen(disk, ref, a, o)
      /\ op.want \in Values /\ out = "none"
  BY <1>1 DEF Safe, Calling, Written, Copied
<1>3. /\ dir.pair = <<a, b>> /\ b \in Blocks /\ b # a /\ op.done \in 0 .. Units
      /\ op.done < setup.compact /\ dir.rev \in Revs
  BY <1>1, <1>2 DEF Copying, TypeOK, Mdirs, Pairs, Ops
<1>4. u \in 1 .. Units /\ op.done < Units /\ last \in BOOLEAN
  BY <1>3, SetupSizes
<1>5. /\ disk' \in [Blocks -> BlockImages]
      /\ op' \in Ops
      /\ \A c \in Blocks \ {b} : disk'[c] = disk[c]
      /\ health[b] = "frozen" => disk' = disk
      /\ health[b] # "frozen" =>
           /\ disk'[b].dirty = disk[b].dirty \cup {u}
           /\ disk'[b].rev = IF u = 1 THEN dir.rev ELSE disk[b].rev
           /\ disk'[b].off = IF last /\ op'.intact THEN u
                             ELSE IF u = 1 THEN 0 ELSE disk[b].off
           /\ disk'[b].val = IF last /\ op'.intact THEN op.want
                             ELSE IF u = 1 THEN NoValue ELSE disk[b].val
      /\ op'.want = op.want /\ op'.relocated = op.relocated
      /\ op'.done = op.done + 1
      /\ op'.intact <=> op.intact /\ u \notin disk[b].dirty /\ health[b] # "frozen"
  <2> HIDE DEF b, u, last
  <2> QED
    BY <1>1, <1>2, <1>3, <1>4, ProgramUnitWrites
<1>6. TypeOK'
  BY <1>1, <1>5 DEF TypeOK, Steps
<1>7. Copied' <=> last /\ op'.intact
  BY <1>1 DEF Copied
<1>8. health[b] # "frozen" =>
        /\ disk'[b].dirty = 1 .. u
        /\ disk'[b].rev = dir.rev
        /\ Copied' => disk'[b].off = setup.compact /\ disk'[b].val = op.want
        /\ ~Copied' => disk'[b].off = 0
  <2> SUFFICES ASSUME health[b] # "frozen"
               PROVE  /\ disk'[b].dirty = 1 .. u
                      /\ disk'[b].rev = dir.rev
                      /\ Copied' => disk'[b].off = setup.compact /\ disk'[b].val = op.want
                      /\ ~Copied' => disk'[b].off = 0
    OBVIOUS
  <2>1. /\ disk[b].dirty = 1 .. op.done
        /\ op.done > 0 => disk[b].rev = dir.rev /\ disk[b].off = 0
    BY <1>1, <1>2 DEF Copying, Copied
  <2>2. disk'[b].dirty = 1 .. u
    <3>1. (1 .. op.done) \cup {op.done + 1} = 1 .. op.done + 1
      BY <1>3, SetupSizes
    <3> QED
      BY <1>5, <2>1, <3>1
  <2>3. disk'[b].rev = dir.rev
    BY <1>3, <1>5, <2>1, SetupSizes
  <2>4. CASE Copied'
    BY <1>5, <1>7, <2>2, <2>3, <2>4
  <2>5. CASE ~Copied'
    BY <1>3, <1>5, <1>7, <2>1, <2>2, <2>3, <2>5, SetupSizes
  <2> QED
    BY <2>4, <2>5
<1>9. ~(Copied' /\ b = o) => Chosen(disk, ref, a, o)'
  <2>1. disk'[a] = disk[a]
    BY <1>3, <1>5
  <2>2. CASE b # o \/ health[b] = "frozen"
    <3>1. disk'[o] = disk[o]
      BY <1>5, <2>2
    <3> QED
      BY <1>1, <1>2, <2>1, <3>1 DEF Chosen
  <2>3. CASE ~Copied' /\ b = o /\ health[b] # "frozen"
    BY <1>1, <1>2, <1>8, <2>1, <2>3 DEF Chosen
  <2> QED
    BY <2>2, <2>3
<1>10. Written(a, o)'
  <2>1. disk'[a] = disk[a]
    BY <1>3, <1>5
  <2> QED
    BY <1>1, <1>2, <1>9, <2>1 DEF Written, Appended
<1>11. Copying(a, o)'
  <2>1. (pc' = "copy" => op'.done < setup.compact) /\ (pc' = "copied" => op'.done = setup.compact)
    BY <1>1, <1>3, <1>5, SetupSizes
  <2>2. Copied' => health[b] # "frozen"
    BY <1>5, <1>7
  <2>3. op'.done = u /\ pc' \in {"copy", "copied"}
    BY <1>1, <1>5
  <2>4. op'.intact => health[b] # "frozen"
    BY <1>5
  <2> HIDE DEF u, last
  <2> QED
    BY <1>1, <1>2, <1>5, <1>8, <2>1, <2>2, <2>3, <2>4 DEF Copying
<1>12. Stored(a, o)' /\ Kept(a, o)'
  BY <1>1, <1>2 DEF Stored, Kept
<1> QED
  BY <1>1, <1>2, <1>5, <1>6, <1>10, <1>11, <1>12 DEF Safe, Calling, HandlesSurvive

\* The device refuses: what was written so far is not a log.
LEMMA WriteStopsSafe ==
  ASSUME NEW a \in Blocks, NEW o \in Blocks, Holds(a, o), WriteStops
  PROVE  Holds(a, o)'
<1> USE DEF Holds
<1>1. /\ pc \in {"erase", "copy"} /\ pc' = "relocate"
      /\ UNCHANGED <<disk, synced, health, setup, ref, handle, dir, op, out>>
  BY DEF WriteStops
<1>2. TypeOK'
  BY <1>1 DEF TypeOK, Steps
<1>3. Stored(a, o)' /\ Written(a, o)' /\ Kept(a, o)' /\ Copying(a, o)'
  BY <1>1 DEF Safe, Stored, Written, Kept, Copying, Appended, Copied
<1> QED
  BY <1>1, <1>2, <1>3 DEF Safe, Calling, HandlesSurvive

\* The new log does not read back: the block ignored what was written to it.
LEMMA CopyMismatchSafe ==
  ASSUME NEW a \in Blocks, NEW o \in Blocks, Holds(a, o), CopyMismatch
  PROVE  Holds(a, o)'
<1> USE DEF Holds
<1>1. /\ pc = "copied" /\ ~op.intact /\ synced' = disk /\ pc' = "relocate"
      /\ UNCHANGED <<disk, health, setup, ref, handle, dir, op, out>>
  BY DEF CopyMismatch
<1>2. TypeOK'
  BY <1>1 DEF TypeOK, Steps
<1>3. Stored(a, o)' /\ Written(a, o)' /\ Kept(a, o)' /\ Copying(a, o)'
  BY <1>1 DEF Safe, Stored, Written, Kept, Copying, Appended, Copied
<1> QED
  BY <1>1, <1>2, <1>3 DEF Safe, Calling, HandlesSurvive

\* Another block is tried.
LEMMA RelocateSafe ==
  ASSUME NEW a \in Blocks, NEW o \in Blocks, Holds(a, o), Relocate
  PROVE  Holds(a, o)'
<1> USE DEF Holds
<1>1. /\ pc = "relocate" /\ pc' = "erase"
      /\ UNCHANGED <<disk, synced, health, setup, ref, handle, out>>
  BY DEF Relocate
<1>2. /\ Stored(a, o) /\ Written(a, o) /\ Kept(a, o) /\ Copying(a, o)
      /\ op.want \in Values /\ out = "none"
  BY <1>1 DEF Safe, Calling
<1>3. PICK b \in Free : /\ dir' = [dir EXCEPT !.pair = <<@[1], b>>]
                        /\ op' = [op EXCEPT !.relocated = TRUE, !.tried = @ \cup {b}]
  BY DEF Relocate
<1>4. dir \in Mdirs /\ op \in Ops /\ b \in Blocks /\ b # a /\ dir.pair[1] = a
  BY <1>2 DEF TypeOK, Free, Stored, Chosen, Copying
<1>5. dir' \in Mdirs /\ dir'.pair = <<a, b>> /\ dir'.rev = dir.rev
  BY <1>3, <1>4 DEF Mdirs, Pairs
<1>6. op' \in Ops /\ op'.want = op.want /\ op'.relocated
  BY <1>3, <1>4 DEF Ops
<1>7. TypeOK'
  BY <1>1, <1>5, <1>6 DEF TypeOK, Steps
<1>8. Copying(a, o)'
  BY <1>1, <1>2, <1>5, <1>6 DEF Copying, Copied
<1>9. Stored(a, o)' /\ Written(a, o)' /\ Kept(a, o)'
  BY <1>1, <1>2 DEF Stored, Written, Kept, Appended, Copied
<1> QED
  BY <1>1, <1>2, <1>6, <1>7, <1>8, <1>9 DEF Safe, Calling, HandlesSurvive

\* A call that finds no block to write to leaves the content as it was.
LEMMA RelocateFailsSafe ==
  ASSUME NEW a \in Blocks, NEW o \in Blocks, Holds(a, o), RelocateFails
  PROVE  Holds(a, o)'
<1> USE DEF Holds
<1>1. /\ pc = "relocate" /\ pc' = "idle" /\ handle' = handle /\ dir' = handle
      /\ op' = NoOp /\ out' = "err"
      /\ UNCHANGED <<disk, synced, health, setup, ref>>
  BY DEF RelocateFails, Return
<1>2. TypeOK'
  BY <1>1, SetupSizes DEF TypeOK, Steps, NoOp, Ops
<1>3. Stored(a, o)' /\ Written(a, o)' /\ Kept(a, o)'
  BY <1>1 DEF Safe, Stored, Written, Kept, Appended, Copied
<1> QED
  BY <1>1, <1>2, <1>3 DEF Safe, Calling, HandlesSurvive

\* The parent refers to the moved pair from now on.
LEMMA UpdateParentSafe ==
  ASSUME NEW a \in Blocks, NEW o \in Blocks, Holds(a, o), UpdateParent
  PROVE  Holds(dir.pair[1], dir.pair[2])' /\ synced'[dir.pair[1]].val = op.want
<1> USE DEF Holds
<1> DEFINE b == dir.pair[1]
           c == dir.pair[2]
<1>1. /\ pc = "parent" /\ pc' = "idle" /\ handle' = dir /\ dir' = dir /\ op' = NoOp
      /\ out' = "ok" /\ ref' = dir.pair
      /\ UNCHANGED <<disk, synced, health, setup>>
  BY DEF UpdateParent, Return
<1>2. Moved
  BY <1>1 DEF Safe
<1>3. dir.pair = <<b, c>> /\ b \in Blocks /\ c \in Blocks /\ b # c /\ dir \in Mdirs /\ dir.pair \in Pairs
  BY DEF TypeOK, Mdirs, Pairs
<1>4. TypeOK'
  BY <1>1, <1>3, SetupSizes DEF TypeOK, Steps, NoOp, Ops
<1>5. dir'.pair[1] = b /\ dir'.pair[2] = c
  BY <1>1
<1>6. Stored(b, c)' /\ Written(b, c)' /\ Kept(b, c)'
  BY <1>1, <1>2, <1>3, <1>5 DEF Moved, Stored, Written, Kept, Appended, Copied
<1> HIDE DEF b, c
<1>7. Holds(b, c)'
  BY <1>1, <1>4, <1>6 DEF Safe, Calling, HandlesSurvive
<1> QED
  BY <1>2, <1>5, <1>7, <1>1 DEF b, c, Moved

\* It goes on referring to the pair that it referred to.
LEMMA UpdateParentFailsSafe ==
  ASSUME NEW a \in Blocks, NEW o \in Blocks, Holds(a, o), UpdateParentFails
  PROVE  Holds(a, o)'
<1> USE DEF Holds
<1>1. /\ pc = "parent" /\ pc' = "idle" /\ handle' = dir /\ dir' = dir /\ op' = NoOp
      /\ out' = "err" /\ setup.parentFails
      /\ UNCHANGED <<disk, synced, health, setup, ref>>
  BY DEF UpdateParentFails, Return
<1>2. TypeOK'
  BY <1>1, SetupSizes DEF TypeOK, Steps, NoOp, Ops
<1>3. Stored(a, o)' /\ Written(a, o)' /\ Kept(a, o)'
  BY <1>1 DEF Safe, Stored, Written, Kept, Appended, Copied
<1> QED
  BY <1>1, <1>2, <1>3 DEF Safe, Calling, HandlesSurvive

\* The new log is complete: it is what a mount finds, at once if it is in the
\* pair, and as soon as the parent refers to it if it is not.
LEMMA CopyVerifiedSafe ==
  ASSUME NEW a \in Blocks, NEW o \in Blocks, Holds(a, o), CopyVerified
  PROVE  /\ dir.pair[2] = o => Holds(o, a)' /\ synced'[o].val = op.want
         /\ dir.pair[2] # o => Holds(a, o)' /\ synced'[a].val = synced[a].val /\ pc' = "parent"
<1> USE DEF Holds
<1> DEFINE b == dir.pair[2]
<1>1. /\ Copied /\ synced' = disk /\ dir' = Swapped /\ handle' = Swapped
      /\ UNCHANGED <<disk, health, setup, ref>>
      /\ \/ op.relocated /\ pc' = "parent" /\ UNCHANGED <<op, out>>
         \/ ~op.relocated /\ pc' = "idle" /\ op' = NoOp /\ out' = "ok"
  BY DEF CopyVerified, Copied, Return
<1>2. /\ Stored(a, o) /\ Written(a, o) /\ Copying(a, o)
      /\ op.want \in Values /\ out = "none"
  BY <1>1 DEF Safe, Calling, Copied
<1>3. /\ dir \in Mdirs /\ dir.pair = <<a, b>> /\ b \in Blocks /\ b # a
      /\ synced[a] \in BlockImages /\ synced[a].rev \in Revs
  BY SMTT(30), <1>2 DEF Copying, TypeOK, Mdirs, Pairs, BlockImages
<1>4. /\ Swapped \in Mdirs
      /\ Swapped.pair = <<b, a>> /\ Swapped.rev = dir.rev /\ Swapped.off = setup.compact
  <2>1. setup.compact \in 1 .. Units /\ <<b, a>> \in Pairs /\ <<dir.pair[2], dir.pair[1]>> = <<b, a>>
    BY <1>3, SetupSizes DEF Pairs
  <2> HIDE DEF b
  <2>2. Swapped = [dir EXCEPT !.pair = <<b, a>>, !.off = setup.compact]
    BY <2>1 DEF Swapped
  <2> QED
    BY <1>3, <2>1, <2>2 DEF Mdirs
<1>5. /\ disk[b].rev = NextRev(synced[a].rev)
      /\ disk[b].off = setup.compact /\ disk[b].val = op.want
      /\ disk[b].dirty = 1 .. setup.compact /\ setup.compact > 0
  <2>1. op.done = setup.compact /\ setup.compact > 0 /\ pc = "copied" /\ op.intact
    BY <1>1, <1>2, SetupSizes DEF Copying, Copied
  <2> QED
    BY <1>1, <1>2, <2>1 DEF Copying
<1>6. Log(disk[b])
  BY <1>2, <1>5, SetupSizes DEF Log
<1>7. disk[a].rev = synced[a].rev /\ Log(disk[a]) /\ disk[a].val = synced[a].val
  BY <1>1, <1>2 DEF Written, Appended, Copied
<1>8. /\ Newer(disk[b].rev, disk[a].rev) /\ ~Newer(disk[a].rev, disk[b].rev)
  BY <1>3, <1>5, <1>7, NextRevIsNewer
<1>9. Chosen(disk, <<b, a>>, b, a) /\ Chosen(disk, <<a, b>>, b, a)
  BY <1>3, <1>5, <1>8 DEF Chosen
<1>10. ref \in {<<a, o>>, <<o, a>>}
  BY <1>2 DEF Stored, Chosen
<1>11. TypeOK'
  <2>1. NoOp \in Ops
    BY SetupSizes DEF NoOp, Ops
  <2>2. disk' \in [Blocks -> BlockImages] /\ synced' \in [Blocks -> BlockImages]
    BY <1>1 DEF TypeOK
  <2>3. op' \in Ops /\ pc' \in Steps /\ out' \in {"none", "ok", "err"}
    BY <1>1, <2>1 DEF TypeOK, Steps
  <2> QED
    BY <1>1, <1>4, <2>2, <2>3 DEF TypeOK
<1>12. pc' = "parent" => Moved'
  BY <1>1, <1>4, <1>5, <1>6, <1>9, <1>2 DEF Moved, Copying
<1>13. Calling' /\ HandlesSurvive'
  BY <1>1, <1>2 DEF Calling, HandlesSurvive
<1>14. CASE b = o
  <2>1. Chosen(disk, ref, o, a)
    BY <1>9, <1>10, <1>14
  <2>2. Stored(o, a)' /\ Written(o, a)'
    BY <1>1, <1>6, <1>14, <2>1 DEF Stored, Written, Appended, Copied
  <2>3. Kept(o, a)'
    BY <1>1, <1>2, <1>4, <1>5, <1>14 DEF Kept, Copying
  <2>4. Safe(o, a)'
    BY <1>1, <1>12, <2>2, <2>3 DEF Safe
  <2> QED
    BY <1>1, <1>5, <1>11, <1>13, <1>14, <2>4
<1>15. CASE b # o
  <2>1. Chosen(disk, ref, a, o)
    BY <1>2, <1>15 DEF Written
  <2>2. op.relocated
    BY <1>2, <1>15 DEF Copying
  <2>3. Stored(a, o)' /\ Written(a, o)'
    BY <1>1, <1>2, <1>7, <2>1, <2>2 DEF Stored, Written, Appended, Copied
  <2>4. Kept(a, o)'
    BY <1>1, <2>2 DEF Kept
  <2>5. Safe(a, o)'
    BY <1>1, <1>12, <2>2, <2>3, <2>4 DEF Safe
  <2> QED
    BY <1>1, <1>7, <1>11, <1>13, <1>15, <2>2, <2>5
<1> QED
  BY <1>14, <1>15

\* A mount finds the content, and a handle is opened anew.
LEMMA MountSafe ==
  ASSUME NEW a \in Blocks, NEW o \in Blocks, Holds(a, o), Mount
  PROVE  Holds(a, o)'
<1> USE DEF Holds
<1>1. /\ pc = "down" /\ pc' = "idle" /\ handle' = Fetch(disk, ref) /\ dir' = Fetch(disk, ref)
      /\ UNCHANGED <<disk, synced, health, setup, ref, op, out>>
  BY DEF Mount
<1>2. /\ Stored(a, o) /\ Chosen(disk, ref, a, o) /\ Log(disk[a])
      /\ disk[a].rev = synced[a].rev /\ disk[a].off = synced[a].off
      /\ disk[a].val = synced[a].val
  BY <1>1 DEF Safe, Written, Appended, Copied
<1>3. Fetch(disk, ref) = [pair |-> <<a, o>>, rev |-> disk[a].rev, off |-> disk[a].off,
                          erased |-> FcrcMatches(disk[a])]
  BY <1>2, ChosenIsFetched
<1>4. FcrcMatches(disk[a]) \in BOOLEAN /\ disk[a] \in BlockImages /\ disk[a].off > 0 /\ a # o
  BY <1>2 DEF FcrcMatches, TypeOK, Chosen
<1>5. Fetch(disk, ref) \in Mdirs
  BY <1>3, <1>4, SetupSizes DEF Mdirs, Pairs, BlockImages
<1>6. TypeOK'
  BY <1>1, <1>5 DEF TypeOK, Steps
<1>7. Stored(a, o)' /\ Written(a, o)' /\ Kept(a, o)'
  BY <1>1, <1>2, <1>3 DEF Stored, Written, Kept, Appended, Copied
<1> QED
  BY <1>1, <1>6, <1>7 DEF Safe, Calling, HandlesSurvive

\* What a power loss leaves of a block: what it was, what it was at the last
\* sync, or that with a torn unit.
LEMMA TornBlock ==
  ASSUME TypeOK, NEW b \in Blocks, NEW image \in Torn(b),
         pc = "append" => b = dir.pair[1], pc = "copy" => op.done < setup.compact
  PROVE  /\ image \in BlockImages
         /\ health[b] # "frozen"
         /\ \/ /\ pc = "append"
               /\ image.rev = disk[b].rev /\ image.off = disk[b].off
               /\ image.val = disk[b].val
               /\ image.dirty = disk[b].dirty \cup {dir.off + op.done + 1}
            \/ /\ pc = "copy"
               /\ image.off = IF op.done = 0 THEN 0 ELSE disk[b].off
<1>1. disk[b] \in BlockImages /\ op.done \in 0 .. Units /\ dir.off \in 1 .. Units
  BY DEF TypeOK, Ops, Mdirs
<1>2. health[b] # "frozen"
  BY DEF Torn
<1>3. CASE pc = "append"
  <2>1. /\ image = [disk[b] EXCEPT !.dirty = @ \cup {dir.off + op.done + 1}]
        /\ dir.off + op.done < Units
    BY <1>2, <1>3 DEF Torn
  <2>2. dir.off + op.done + 1 \in 1 .. Units
    BY <1>1, <2>1, SetupSizes
  <2> QED
    BY <1>1, <1>2, <1>3, <2>1, <2>2 DEF BlockImages
<1>4. CASE pc = "copy" /\ op.done > 0
  <2>1. image = [disk[b] EXCEPT !.dirty = @ \cup {op.done + 1}]
    BY <1>2, <1>4 DEF Torn
  <2>2. op.done + 1 \in 1 .. Units /\ op.done # 0
    BY <1>1, <1>4, SetupSizes
  <2> QED
    BY <1>1, <1>2, <1>4, <2>1, <2>2 DEF BlockImages
<1>5. CASE pc = "copy" /\ op.done = 0
  <2>1. PICK r \in Revs : image = [rev |-> r, off |-> 0, val |-> NoValue, dirty |-> {1}]
    BY <1>2, <1>5, MdirAssumption DEF Torn, Revs
  <2>2. image \in BlockImages
    <3>1. {1} \in SUBSET (1 .. Units) /\ 0 \in 0 .. Units
      BY SetupSizes
    <3> QED
      BY <2>1, <3>1 DEF BlockImages
  <2>3. image.off = 0
    BY <2>1
  <2> QED
    BY <1>2, <1>5, <2>2, <2>3
<1> QED
  BY <1>1, <1>3, <1>4, <1>5 DEF Torn

\* Power loss, whatever it undoes and tears, leaves a pair with the old content
\* or with the new one.
LEMMA PowerLossSafe ==
  ASSUME NEW a \in Blocks, NEW o \in Blocks, Holds(a, o), PowerLoss
  PROVE  \/ Holds(a, o)' /\ synced'[a].val \in {synced[a].val} \cup ({op.want} \ {NoValue})
         \/ Holds(o, a)' /\ synced'[o].val = op.want /\ op.want # NoValue
<1> USE DEF Holds
<1>1. /\ pc # "down" /\ pc' = "down" /\ synced' = disk' /\ dir' = handle /\ op' = NoOp
      /\ out' = "none"
      /\ UNCHANGED <<health, setup, ref, handle>>
  BY DEF PowerLoss
<1>2. PICK lost \in SUBSET Blocks, image \in Torn(Writing) \cup {disk[Writing]} :
        disk' = [c \in Blocks |-> IF c \in lost THEN synced[c]
                                  ELSE IF c = Writing THEN image ELSE disk[c]]
  BY DEF PowerLoss
<1>3. /\ Stored(a, o) /\ Written(a, o) /\ ref \in {<<a, o>>, <<o, a>>} /\ a # o
      /\ disk \in [Blocks -> BlockImages] /\ synced \in [Blocks -> BlockImages]
  BY DEF Safe, Stored, Chosen, TypeOK
<1>4. /\ pc \in {"append", "appended", "compact"} => Appending(a, o)
      /\ pc \in {"erase", "copy", "copied", "relocate"} => Copying(a, o)
  BY DEF Safe
<1>5. /\ Writing \in Blocks
      /\ pc = "append" => Writing = dir.pair[1] /\ Writing = a
      /\ pc # "append" => Writing = dir.pair[2]
      /\ pc = "copy" => op.done < setup.compact
  BY <1>4 DEF Writing, Appending, Copying, TypeOK, Mdirs, Pairs
<1> DEFINE W == Writing
<1>6. \A c \in Blocks :
        \/ disk'[c] = synced[c] \/ disk'[c] = disk[c]
        \/ c = W /\ image \in Torn(W) /\ disk'[c] = image
  BY <1>2
<1>7. ASSUME image \in Torn(W)
      PROVE  /\ image \in BlockImages
             /\ health[W] # "frozen"
             /\ \/ /\ pc = "append"
                   /\ image.rev = disk[W].rev /\ image.off = disk[W].off
                   /\ image.val = disk[W].val
                   /\ image.dirty = disk[W].dirty \cup {dir.off + op.done + 1}
                \/ /\ pc = "copy"
                   /\ image.off = IF op.done = 0 THEN 0 ELSE disk[W].off
  BY <1>5, <1>7, TornBlock
<1>8. disk' \in [Blocks -> BlockImages]
  BY <1>2, <1>3, <1>5, <1>7
<1>9. TypeOK'
  <2>1. NoOp \in Ops
    BY SetupSizes DEF NoOp, Ops
  <2> QED
    BY <1>1, <1>8, <2>1 DEF TypeOK, Steps
<1>10. Calling' /\ HandlesSurvive'
  BY <1>1 DEF Calling, HandlesSurvive
\* The block with the content keeps it, unless the commit appended to it.
<1>11. /\ disk'[a].rev = synced[a].rev /\ disk'[a].off > 0 /\ Log(disk'[a])
       /\ disk'[a].val \in {synced[a].val} \cup ({op.want} \ {NoValue})
  <2>1. /\ synced[a].off > 0 /\ Log(synced[a]) /\ disk[a].rev = synced[a].rev /\ Log(disk[a])
    BY <1>3 DEF Stored, Written, Chosen
  <2>2. /\ disk[a].off > 0
        /\ disk[a].val \in {synced[a].val} \cup ({op.want} \ {NoValue})
    <3>1. CASE Appended
      <4>1. /\ disk[a].off = dir.off + setup.append /\ disk[a].val = op.want
            /\ pc = "appended"
        BY <1>3, <3>1 DEF Written, Appended
      <4>2. op.want \in Values /\ dir.off \in 1 .. Units
        BY <4>1 DEF Calling, TypeOK, Mdirs
      <4>3. op.want # NoValue
        BY <4>2, MdirAssumption
      <4> QED
        BY <4>1, <4>2, <4>3, SetupSizes
    <3>2. CASE ~Appended
      BY <1>3, <2>1, <3>2 DEF Written
    <3> QED
      BY <3>1, <3>2
  <2>3. CASE disk'[a] = synced[a] \/ disk'[a] = disk[a]
    BY <2>1, <2>2, <2>3
  <2>4. CASE a = W /\ image \in Torn(W) /\ disk'[a] = image
    <3>1. pc = "append"
      <4>1. pc = "copy" => W # a
        BY <1>4, <1>5 DEF Copying, TypeOK, Mdirs, Pairs
      <4> QED
        BY <1>7, <2>4, <4>1
    <3>2. Appending(a, o) /\ health[a] # "frozen"
      BY <1>4, <1>7, <2>4, <3>1
    <3>3. 1 .. dir.off + op.done \subseteq disk[a].dirty
      BY <3>1, <3>2 DEF Appending
    <3>4. /\ image.rev = disk[a].rev /\ image.off = disk[a].off /\ image.val = disk[a].val
          /\ image.dirty = disk[a].dirty \cup {dir.off + op.done + 1}
      BY <1>7, <2>4, <3>1
    <3>5. dir.off \in 1 .. Units /\ op.done \in 0 .. Units
      BY DEF TypeOK, Mdirs, Ops
    <3>6. \A x \in image.dirty : 1 .. x \subseteq image.dirty
      <4>1. 1 .. dir.off + op.done + 1 \subseteq image.dirty
        BY <3>3, <3>4, <3>5, SetupSizes
      <4> QED
        BY <2>1, <3>4, <4>1 DEF Log
    <3> QED
      BY <2>1, <2>2, <2>4, <3>4, <3>6 DEF Log
  <2> QED
    BY <1>6, <2>3, <2>4
\* The other block holds the new content, complete, or nothing newer.
<1>12. CASE Copied /\ dir.pair[2] = o /\ disk'[o] = disk[o]
  <2>1. /\ disk[o].rev = NextRev(synced[a].rev) /\ disk[o].off = setup.compact
        /\ disk[o].val = op.want /\ disk[o].dirty = 1 .. setup.compact
        /\ setup.compact > 0
    <3>1. Copying(a, o) /\ pc = "copied" /\ op.intact /\ op.done = setup.compact
      BY <1>4, <1>12 DEF Copying, Copied
    <3>2. setup.compact > 0
      BY SetupSizes
    <3> QED
      BY <1>12, <3>1, <3>2 DEF Copying
  <2>2. op.want \in Values /\ op.want # NoValue
    BY <1>12, MdirAssumption DEF Copied, Calling
  <2>3. synced[a].rev \in Revs
    BY <1>3 DEF BlockImages
  <2>4. Newer(disk'[o].rev, disk'[a].rev) /\ ~Newer(disk'[a].rev, disk'[o].rev)
    BY <1>11, <1>12, <2>1, <2>3, NextRevIsNewer
  <2>5. Log(disk'[o])
    BY <1>12, <2>1, <2>2, SetupSizes DEF Log
  <2>6. Chosen(disk', ref, o, a)
    BY <1>3, <1>12, <2>1, <2>4 DEF Chosen
  <2>7. Stored(o, a)' /\ Written(o, a)' /\ Kept(o, a)'
    BY <1>1, <2>5, <2>6 DEF Stored, Written, Kept, Appended, Copied
  <2> QED
    BY <1>1, <1>9, <1>10, <1>12, <2>1, <2>2, <2>7 DEF Safe
<1>13. CASE ~(Copied /\ dir.pair[2] = o /\ disk'[o] = disk[o])
  <2>1. Chosen(disk', ref, a, o)
    <3>1. CASE disk'[o] = synced[o]
      BY <1>3, <1>11, <3>1 DEF Stored, Chosen
    <3>2. CASE disk'[o] = disk[o]
      BY <1>3, <1>11, <1>13, <3>2 DEF Written, Chosen
    <3>3. CASE o = W /\ image \in Torn(W) /\ disk'[o] = image
      <4>1. pc = "copy" /\ image.off = IF op.done = 0 THEN 0 ELSE disk[o].off
        BY <1>3, <1>5, <1>7, <3>3
      <4>2. Copying(a, o) /\ health[o] # "frozen" /\ dir.pair[2] = o
        BY <1>4, <1>5, <1>7, <3>3, <4>1
      <4>3. op.done > 0 => disk[o].off = 0
        BY <4>1, <4>2 DEF Copying, Copied
      <4>4. op.done \in Nat
        BY DEF TypeOK, Ops
      <4> QED
        BY <1>3, <1>11, <3>3, <4>1, <4>3, <4>4 DEF Chosen
    <3> QED
      BY <1>6, <3>1, <3>2, <3>3
  <2>2. Stored(a, o)' /\ Written(a, o)' /\ Kept(a, o)'
    BY <1>1, <1>11, <2>1 DEF Stored, Written, Kept, Appended, Copied
  <2> QED
    BY <1>1, <1>9, <1>10, <1>11, <2>2 DEF Safe
<1> QED
  BY <1>12, <1>13

\* Every step keeps the invariant.
LEMMA StepSafe == IInv /\ [Next]_vars => IInv'
<1> SUFFICES ASSUME IInv, [Next]_vars PROVE IInv'
  OBVIOUS
<1> PICK a \in Blocks, o \in Blocks : Holds(a, o)
  BY DEF IInv
<1>1. ASSUME NEW v \in Values, Begin(v) PROVE IInv'
  BY <1>1, BeginSafe DEF IInv
<1>2. CASE AppendUnit
  BY <1>2, AppendUnitSafe DEF IInv
<1>3. CASE AppendStops
  BY <1>3, AppendStopsSafe DEF IInv
<1>4. CASE AppendVerified
  BY <1>4, AppendVerifiedSafe DEF IInv
<1>5. CASE AppendMismatch
  BY <1>5, AppendMismatchSafe DEF IInv
<1>6. CASE Compact
  BY <1>6, CompactSafe DEF IInv
<1>7. CASE Erase
  BY <1>7, EraseSafe DEF IInv
<1>8. CASE CopyUnit
  BY <1>8, CopyUnitSafe DEF IInv
<1>9. CASE WriteStops
  BY <1>9, WriteStopsSafe DEF IInv
<1>10. CASE CopyVerified
  BY <1>10, CopyVerifiedSafe DEF IInv
<1>11. CASE CopyMismatch
  BY <1>11, CopyMismatchSafe DEF IInv
<1>12. CASE Relocate
  BY <1>12, RelocateSafe DEF IInv
<1>13. CASE RelocateFails
  BY <1>13, RelocateFailsSafe DEF IInv
<1>14. CASE UpdateParent
  <2>1. dir' = dir /\ dir.pair[1] \in Blocks /\ dir.pair[2] \in Blocks
    BY <1>14 DEF UpdateParent, Return, Holds, TypeOK, Mdirs, Pairs
  <2>2. Holds(dir.pair[1], dir.pair[2])'
    BY <1>14, UpdateParentSafe
  <2> QED
    BY <2>1, <2>2 DEF IInv
<1>15. CASE UpdateParentFails
  BY <1>15, UpdateParentFailsSafe DEF IInv
<1>16. CASE PowerLoss
  BY SMTT(30), <1>16, PowerLossSafe DEF IInv
<1>17. CASE Mount
  BY <1>17, MountSafe DEF IInv
<1>18. CASE UNCHANGED vars
  BY SMTT(30), <1>18 DEF vars, IInv, Holds, TypeOK, HandlesSurvive, Calling, Safe, Stored, Written,
     Appended, Copied, Appending, Copying, Moved, Kept, Chosen
<1> QED
  BY <1>1, <1>2, <1>3, <1>4, <1>5, <1>6, <1>7, <1>8, <1>9, <1>10, <1>11, <1>12, <1>13,
     <1>14, <1>15, <1>16, <1>17, <1>18 DEF Next, CommitStep

\* At every step of every call the referenced pair has one block that a mount
\* would read, and what a power loss may undo or tear leaves it the old content
\* or the new one.
THEOREM PairIsSafe == Spec /\ HandlesSurvive => []IInv
BY InitSafe, StepSafe, PTL DEF Spec

\* Type correctness; with it, lfs_dir_fetch finds a log whenever a call or a
\* mount fetches the pair.
THEOREM PairTypeCorrect == Spec /\ HandlesSurvive => []TypeOK
<1>1. IInv => TypeOK
  BY DEF IInv, Holds
<1> QED
  BY <1>1, PairIsSafe, PTL

\* HandleCurrent, of the copies of lfs_mdir in the list of open handles: after a
\* call, successful or not, and after a mount they are what lfs_dir_fetch finds.
THEOREM HandlesAreCurrent == Spec /\ HandlesSurvive => []HandleCurrent
<1>1. IInv => HandleCurrent
  <2> SUFFICES ASSUME IInv, pc = "idle", ~setup.parentFails
               PROVE  LET f == Fetch(disk, ref)
                      IN  handle.pair = f.pair /\ handle.rev = f.rev /\ handle.off = f.off
    BY DEF HandleCurrent
  <2> PICK a \in Blocks, o \in Blocks : Holds(a, o)
    BY DEF IInv
  <2>1. /\ Chosen(disk, ref, a, o) /\ disk[a].rev = synced[a].rev
        /\ disk[a].off = synced[a].off
        /\ handle.pair = <<a, o>> /\ handle.rev = synced[a].rev /\ handle.off = synced[a].off
    BY DEF Holds, Safe, Written, Kept, Appended, Copied
  <2>2. Fetch(disk, ref) = [pair |-> <<a, o>>, rev |-> disk[a].rev, off |-> disk[a].off,
                            erased |-> FcrcMatches(disk[a])]
    BY <2>1, ChosenIsFetched
  <2> QED
    BY <2>1, <2>2
<1> QED
  BY <1>1, PairIsSafe, PTL

-----------------------------------------------------------------------------
(***************************************************************************)
(* The commit is atomic: MetadataPair implements AtomicMdir.               *)
(***************************************************************************)

\* What a mount would find now.
LEMMA ContentOfPair ==
  ASSUME NEW a \in Blocks, NEW o \in Blocks, Holds(a, o)
  PROVE  Content(synced, ref) = synced[a].val
BY ChosenIsFetched DEF Holds, Safe, Stored

\* What it would find after a step.
LEMMA ContentOfPairNext ==
  ASSUME NEW a \in Blocks, NEW o \in Blocks, Holds(a, o)'
  PROVE  Content(synced, ref)' = synced'[a].val
BY ChosenIsFetched DEF Holds, Safe, Stored

\* Each step of a commit is a step that AtomicMdir allows, or changes nothing
\* that a mount or the caller can see.
LEMMA StepIsAtomic ==
  IInv /\ [Next]_vars => [Atomic!Next]_<<Content(synced, ref), op.want, out>>
<1> SUFFICES ASSUME IInv, [Next]_vars
             PROVE  [Atomic!Next]_<<Content(synced, ref), op.want, out>>
  OBVIOUS
<1> PICK a \in Blocks, o \in Blocks : Holds(a, o)
  BY DEF IInv
<1> DEFINE val == Content(synced, ref)
           seen == <<val, op.want, out>>
<1>1. val = synced[a].val
  BY ContentOfPair
<1>2. /\ TypeOK /\ op \in Ops /\ NoOp.want = NoValue
      /\ pc \in {"idle", "down"} => op = NoOp
      /\ pc \notin {"idle", "down"} =>
           op.want \in Values /\ op.want # NoValue /\ out = "none"
  BY MdirAssumption DEF Holds, Calling, TypeOK, NoOp
<1>3. ASSUME Holds(a, o)' PROVE val' = synced'[a].val
  BY <1>3, ContentOfPairNext
<1> HIDE DEF val
<1>4. ASSUME NEW v \in Values, Begin(v) PROVE Atomic!Begin(v)
  <2>1. val' = val
    BY <1>1, <1>3, <1>4, BeginSafe DEF Begin
  <2>2. op.want = NoValue /\ op'.want = v /\ out' = "none"
    BY <1>2, <1>4 DEF Begin, NoOp
  <2> QED
    BY <2>1, <2>2 DEF Atomic!Begin, val
<1>5. ASSUME \/ AppendUnit \/ AppendStops \/ Compact \/ Erase \/ CopyUnit \/ WriteStops
             \/ Relocate
      PROVE  UNCHANGED seen
  <2>1. UNCHANGED <<synced, ref, out>>
    BY <1>5 DEF AppendUnit, AppendStops, Compact, Erase, CopyUnit, WriteStops, Relocate
  <2>2. op'.want = op.want
    BY <1>2, <1>5 DEF AppendUnit, AppendStops, Compact, Erase, CopyUnit, WriteStops, Relocate,
                      ProgramUnit, Ops
  <2> QED
    BY <2>1, <2>2 DEF val
<1>6. CASE AppendVerified
  <2>1. val' = op.want
    BY <1>3, <1>6, AppendVerifiedSafe
  <2>2. op'.want = NoValue /\ out' = "ok" /\ op.want # NoValue
    BY <1>2, <1>6 DEF AppendVerified, Return
  <2> QED
    BY <2>1, <2>2 DEF Atomic!Next, Atomic!Ack, val
<1>7. CASE AppendMismatch \/ CopyMismatch
  <2>1. Holds(a, o)' /\ synced' = disk /\ UNCHANGED <<op, out>> /\ ~op.intact
    BY <1>7, AppendMismatchSafe, CopyMismatchSafe DEF AppendMismatch, CopyMismatch
  <2>2. disk[a].val = synced[a].val
    BY <2>1 DEF Holds, Safe, Written, Appended
  <2>3. val' = val
    BY <1>1, <1>3, <2>1, <2>2
  <2> QED
    BY <2>1, <2>3 DEF val
<1>8. CASE CopyVerified
  <2>1. pc = "copied" /\ op.want # NoValue
    BY <1>2, <1>8 DEF CopyVerified
  <2>2. \/ pc' = "parent" /\ UNCHANGED <<op, out>>
        \/ pc' = "idle" /\ op' = NoOp /\ out' = "ok"
    BY <1>8 DEF CopyVerified, Return
  <2>3. CASE dir.pair[2] = o
    <3>1. val' = op.want
      BY <1>8, <2>3, CopyVerifiedSafe, ContentOfPairNext DEF val
    <3> QED
      BY <1>2, <2>1, <2>2, <3>1 DEF Atomic!Next, Atomic!Apply, Atomic!Ack, val
  <2>4. CASE dir.pair[2] # o
    <3>1. val' = val /\ pc' = "parent"
      BY <1>1, <1>3, <1>8, <2>4, CopyVerifiedSafe
    <3> QED
      BY <2>2, <3>1 DEF val
  <2> QED
    BY <2>3, <2>4
<1>9. CASE RelocateFails \/ UpdateParentFails
  <2>1. UNCHANGED <<synced, ref>> /\ op' = NoOp /\ out' = "err" /\ op.want # NoValue
    BY <1>2, <1>9 DEF RelocateFails, UpdateParentFails, Return
  <2> QED
    BY <1>2, <2>1 DEF Atomic!Next, Atomic!Fail
<1>10. CASE UpdateParent
  <2>1. dir.pair[1] \in Blocks /\ dir.pair[2] \in Blocks
    BY <1>2 DEF TypeOK, Mdirs, Pairs
  <2>2. val' = op.want
    <3>1. dir' = dir
      BY <1>10 DEF UpdateParent, Return
    <3>2. Holds(dir.pair[1], dir.pair[2])' /\ synced'[dir.pair[1]].val = op.want
      BY <1>10, UpdateParentSafe
    <3> QED
      BY <2>1, <3>1, <3>2, ContentOfPairNext DEF val
  <2>3. op' = NoOp /\ out' = "ok" /\ op.want # NoValue
    BY <1>2, <1>10 DEF UpdateParent, Return
  <2> QED
    BY <1>2, <2>2, <2>3 DEF Atomic!Next, Atomic!Ack, val
<1>11. CASE PowerLoss
  <2>1. op' = NoOp /\ out' = "none"
    BY <1>11 DEF PowerLoss
  <2>2. val' \in {val} \cup ({op.want} \ {NoValue})
    <3>1. CASE Holds(a, o)' /\ synced'[a].val \in {synced[a].val} \cup ({op.want} \ {NoValue})
      BY <1>1, <1>3, <3>1
    <3>2. CASE Holds(o, a)' /\ synced'[o].val = op.want /\ op.want # NoValue
      BY <3>2, ContentOfPairNext DEF val
    <3> QED
      BY <1>11, <3>1, <3>2, PowerLossSafe
  <2> QED
    BY <1>2, <2>1, <2>2 DEF Atomic!Next, Atomic!Crash, val
<1>12. CASE Mount \/ UNCHANGED vars
  BY <1>12 DEF Mount, vars
<1> QED
  BY <1>4, <1>5, <1>6, <1>7, <1>8, <1>9, <1>10, <1>11, <1>12
     DEF Next, CommitStep, Atomic!Next, val

\* CommitIsAtomic, of lfs_dir_commit: the content of a directory changes as a
\* whole, by one step of the call that commits it or by a power loss during the
\* call, and when the call returns Ok it has changed for good.
THEOREM CommitsAreAtomic == Spec /\ HandlesSurvive => CommitIsAtomic
<1>1. Init /\ HandlesSurvive => Atomic!Init
  BY SMTT(30), InitSafe DEF Init, Atomic!Init, NoOp
<1>2. IInv /\ [Next]_vars => [Atomic!Next]_<<Content(synced, ref), op.want, out>>
  BY StepIsAtomic
<1> QED
  BY <1>1, <1>2, PairIsSafe, PTL DEF CommitIsAtomic, Spec, Atomic!Spec

-----------------------------------------------------------------------------
(***************************************************************************)
(* What a step of a commit may never do.                                   *)
(***************************************************************************)

\* A step that programs a unit programs one that was erased.
LEMMA StepProgramsErased ==
  ASSUME IInv, [Next]_vars, op'.done > op.done, ~setup.handleOps
  PROVE  LET b == IF pc = "append" THEN dir.pair[1] ELSE dir.pair[2]
             u == IF pc = "append" THEN dir.off + op'.done ELSE op'.done
         IN  health[b] # "frozen" => u \notin disk[b].dirty
<1> PICK a \in Blocks, o \in Blocks : Holds(a, o)
  BY DEF IInv
<1>1. op \in Ops /\ op.done \in 0 .. Units /\ NoOp.done = 0 /\ dir.off \in 1 .. Units
      /\ (pc \in {"idle", "down"} => op = NoOp)
  BY DEF Holds, Calling, TypeOK, Ops, NoOp, Mdirs
<1>2. AppendUnit \/ CopyUnit
  <2>1. ASSUME NEW v \in Values, Begin(v) PROVE op'.done = 0
    BY <2>1 DEF Begin, NoOp
  <2>2. CASE AppendVerified \/ CopyVerified \/ RelocateFails \/ UpdateParent
             \/ UpdateParentFails \/ PowerLoss
    <3>1. op' = NoOp \/ op' = op
      BY <2>2 DEF AppendVerified, CopyVerified, RelocateFails, UpdateParent,
                  UpdateParentFails, PowerLoss, Return
    <3> QED
      BY <1>1, <3>1, SetupSizes
  <2>3. CASE AppendStops \/ AppendMismatch \/ Compact \/ WriteStops \/ CopyMismatch
             \/ Relocate \/ Mount \/ UNCHANGED vars
    <3>1. op'.done = op.done
      BY <1>1, <2>3 DEF AppendStops, AppendMismatch, Compact, WriteStops, CopyMismatch,
                        Relocate, Mount, vars, Ops
    <3> QED
      BY <1>1, <3>1
  <2>4. CASE Erase
    BY <1>1, <2>4 DEF Erase, Ops
  <2> QED
    BY <1>1, <2>1, <2>2, <2>3, <2>4 DEF Next, CommitStep
<1>3. CASE AppendUnit
  <2>1. pc = "append" /\ Appending(a, o) /\ dir.pair[1] = a
    BY <1>3 DEF AppendUnit, Holds, Safe, Appending
  <2>2. op'.done = op.done + 1
    BY <1>1, <1>3 DEF AppendUnit, ProgramUnit, Ops
  <2>3. health[a] # "frozen" => dir.off + op'.done \notin disk[a].dirty
    BY <1>1, <2>1, <2>2 DEF Appending
  <2> QED
    BY <2>1, <2>3
<1>4. CASE CopyUnit
  <2>1. pc = "copy" /\ Copying(a, o)
    BY <1>4 DEF CopyUnit, Holds, Safe
  <2>2. op'.done = op.done + 1
    BY <1>1, <1>4 DEF CopyUnit, ProgramUnit, Ops
  <2>3. health[dir.pair[2]] # "frozen" => disk[dir.pair[2]].dirty = 1 .. op.done
    BY <2>1 DEF Copying
  <2> QED
    BY <1>1, <2>1, <2>2, <2>3
<1> QED
  BY <1>2, <1>3, <1>4

\* ProgOnlyErased, of the calls to lfs_bd_prog: between two erases that the device
\* carried out, a commit through a path programs no unit twice.
THEOREM ProgramsOnlyErased == Spec /\ HandlesSurvive => ProgOnlyErased
<1>1. IInv /\ [Next]_vars =>
        [op'.done > op.done /\ ~setup.handleOps =>
           LET b == IF pc = "append" THEN dir.pair[1] ELSE dir.pair[2]
               u == IF pc = "append" THEN dir.off + op'.done ELSE op'.done
           IN  health[b] # "frozen" => u \notin disk[b].dirty]_vars
  BY StepProgramsErased
<1> QED
  BY <1>1, PairIsSafe, PTL DEF Spec, ProgOnlyErased

-----------------------------------------------------------------------------
(***************************************************************************)
(* A commit ends: every step of it leaves less to do.                      *)
(***************************************************************************)

\* The loops of lfs_dir_compact, as one number: fewer blocks to offer outweigh
\* the steps that are repeated, and those outweigh the units.
Stage ==
  CASE pc = "parent" -> 1 [] pc = "relocate" -> 2 [] pc = "copied" -> 3 [] pc = "copy" -> 4
    [] pc = "erase" -> 5 [] pc = "compact" -> 6 [] pc = "appended" -> 7 [] pc = "append" -> 8
    [] pc \in {"idle", "down"} -> 0

\* Left as a number of three digits: blocks, stage, units.
LEMMA LeftIsStage ==
  TypeOK /\ pc \notin {"idle", "down"} =>
    /\ Stage \in 1 .. 8
    /\ Left = (9 * Cardinality(Free) + Stage) * (Units + 1) + (Units - op.done)
<1> SUFFICES ASSUME TypeOK, pc \notin {"idle", "down"}
             PROVE  /\ Stage \in 1 .. 8
                    /\ Left = (9 * Cardinality(Free) + Stage) * (Units + 1) + (Units - op.done)
  OBVIOUS
<1> DEFINE order == <<"parent", "relocate", "copied", "copy", "erase", "compact", "appended", "append">>
<1>1. Stage \in 1 .. 8 /\ order[Stage] = pc /\ \A i \in 1 .. 8 : order[i] = pc => i = Stage
  BY DEF Stage, TypeOK, Steps
<1>2. (CHOOSE i \in 1 .. 8 : order[i] = pc) = Stage
  BY <1>1
<1> QED
  BY <1>1, <1>2 DEF Left

\* The same after a step.
LEMMA LeftIsStageNext ==
  (TypeOK /\ pc \notin {"idle", "down"} =>
    /\ Stage \in 1 .. 8
    /\ Left = (9 * Cardinality(Free) + Stage) * (Units + 1) + (Units - op.done))'
BY LeftIsStage, PTL

\* A number of two digits decreases with its first digit...
LEMMA HigherDigitDecreases ==
  ASSUME NEW n \in Nat, NEW x \in Nat, NEW y \in Nat, NEW i \in 0 .. n, NEW j \in 0 .. n, x < y
  PROVE  x * (n + 1) + i < y * (n + 1) + j
<1>1. PICK k \in Nat : y = x + 1 + k
  <2>1. y - x - 1 \in Nat /\ y = x + 1 + (y - x - 1)
    OBVIOUS
  <2> QED
    BY <2>1
<1>2. y * (n + 1) = x * (n + 1) + (n + 1) + k * (n + 1)
  BY <1>1
<1>3. k * (n + 1) \in Nat /\ x * (n + 1) \in Nat
  BY <1>1
<1> QED
  BY <1>2, <1>3

\* Blocks that lfs_alloc may still offer.
LEMMA FreeIsFinite == IsFiniteSet(Free) /\ Cardinality(Free) \in Nat
<1>1. Free \subseteq Blocks
  BY DEF Free
<1>2. IsFiniteSet(Free)
  BY <1>1, MdirAssumption, FS_Subset
<1> QED
  BY <1>2, FS_CardinalityType

\* A block that is offered is not offered again.
LEMMA OfferedOnce ==
  ASSUME NEW b \in Free, ref' = ref, op'.tried = op.tried \cup {b}
  PROVE  Cardinality(Free') = Cardinality(Free) - 1 /\ Cardinality(Free) > 0
<1>1. Free' = Free \ {b}
  BY DEF Free
<1>2. Cardinality(Free \ {b}) = Cardinality(Free) - 1
  BY FreeIsFinite, FS_RemoveElement
<1>3. IsFiniteSet(Free \ {b}) /\ Cardinality(Free \ {b}) \in Nat
  <2>1. IsFiniteSet(Free \ {b})
    BY FreeIsFinite, FS_RemoveElement
  <2> QED
    BY <2>1, FS_CardinalityType
<1> QED
  BY <1>1, <1>2, <1>3, FreeIsFinite

\* Each step of a commit that does not end it: a block less to offer, an earlier
\* stage, or a unit less to program.
LEMMA StepLeavesLess ==
  ASSUME IInv, IInv', [Next]_vars, {pc, pc'} \cap {"idle", "down"} = {}, vars' # vars
  PROVE  Left' < Left
<1> DEFINE n == Cardinality(Free)
           m == Cardinality(Free')
<1>1. /\ TypeOK /\ TypeOK' /\ pc \notin {"idle", "down"} /\ pc' \notin {"idle", "down"}
      /\ op \in Ops /\ op' \in Ops /\ op.done \in 0 .. Units /\ op'.done \in 0 .. Units
      /\ Units \in Nat
  BY MdirAssumption DEF IInv, Holds, TypeOK, Ops
<1>2. /\ Stage \in 1 .. 8 /\ Stage' \in 1 .. 8
      /\ Left = (9 * n + Stage) * (Units + 1) + (Units - op.done)
      /\ Left' = (9 * m + Stage') * (Units + 1) + (Units - op'.done)
  BY <1>1, LeftIsStage, LeftIsStageNext
<1>3. n \in Nat
  BY FreeIsFinite
<1>4. \/ m = n /\ Stage' < Stage
      \/ m = n /\ Stage' = Stage /\ op'.done = op.done + 1
      \/ n > 0 /\ m = n - 1
  <2>1. CASE AppendUnit \/ CopyUnit
    <3>1. ref' = ref /\ op'.tried = op.tried /\ op'.done = op.done + 1
      BY <1>1, <2>1 DEF AppendUnit, CopyUnit, ProgramUnit, Ops
    <3>2. m = n
      BY <3>1 DEF Free
    <3>3. Stage' <= Stage /\ Stage \in Nat /\ Stage' \in Nat
      BY <2>1 DEF AppendUnit, CopyUnit, Stage
    <3> QED
      BY <3>1, <3>2, <3>3
  <2>2. CASE AppendStops \/ AppendMismatch \/ WriteStops \/ CopyMismatch \/ Erase
    <3>1. ref' = ref /\ op'.tried = op.tried
      BY <1>1, <2>2 DEF AppendStops, AppendMismatch, WriteStops, CopyMismatch, Erase, Ops
    <3>2. m = n
      BY <3>1 DEF Free
    <3>3. Stage' < Stage
      BY <2>2 DEF AppendStops, AppendMismatch, WriteStops, CopyMismatch, Erase, Stage
    <3> QED
      BY <3>2, <3>3
  <2>3. CASE CopyVerified
    <3>1. ref' = ref /\ op'.tried = op.tried /\ pc = "copied" /\ pc' = "parent"
      BY <1>1, <2>3 DEF CopyVerified, Return
    <3>2. m = n
      BY <3>1 DEF Free
    <3> QED
      BY <3>1, <3>2 DEF Stage
  <2>4. CASE Relocate
    <3>1. PICK b \in Free : op' = [op EXCEPT !.relocated = TRUE, !.tried = @ \cup {b}]
      BY <2>4 DEF Relocate
    <3>2. op'.tried = op.tried \cup {b} /\ ref' = ref
      BY <1>1, <2>4, <3>1 DEF Relocate, Ops
    <3> QED
      BY <3>2, OfferedOnce
  <2>5. CASE Compact
    <3> DEFINE move == dir.rev \in Tired /\ ~setup.super
    <3>1. CASE move /\ Free # {}
      <4>1. PICK b \in Free : op' = [op EXCEPT !.relocated = TRUE, !.tried = @ \cup {b}]
        BY <2>5, <3>1 DEF Compact
      <4>2. op'.tried = op.tried \cup {b} /\ ref' = ref
        BY <1>1, <2>5, <4>1 DEF Compact, Ops
      <4> QED
        BY <4>2, OfferedOnce
    <3>2. CASE ~(move /\ Free # {})
      <4>1. op' = [op EXCEPT !.relocated = move] /\ ref' = ref /\ pc = "compact" /\ pc' = "erase"
        BY <2>5, <3>2 DEF Compact
      <4> HIDE DEF move
      <4>2. op'.tried = op.tried
        BY <1>1, <4>1 DEF Ops
      <4>3. m = n
        BY <4>1, <4>2 DEF Free
      <4> QED
        BY SMTT(30), <4>1, <4>3 DEF Stage
    <3> QED
      BY <3>1, <3>2
  <2>6. ~(\/ \E v \in Values : Begin(v)
          \/ AppendVerified \/ RelocateFails \/ UpdateParent \/ UpdateParentFails
          \/ PowerLoss \/ Mount)
    BY <1>1 DEF Begin, AppendVerified, RelocateFails, UpdateParent, UpdateParentFails,
                PowerLoss, Mount, Return
  <2> QED
    BY <2>1, <2>2, <2>3, <2>4, <2>5, <2>6 DEF Next, CommitStep
<1> DEFINE x == 9 * n + Stage
           y == 9 * m + Stage'
<1>5. CASE m = n /\ Stage' = Stage /\ op'.done = op.done + 1
  <2>1. x \in Nat /\ y = x
    BY <1>2, <1>3, <1>5
  <2>2. x * (Units + 1) \in Nat
    BY <1>1, <2>1
  <2> HIDE DEF x, y
  <2>3. Left = x * (Units + 1) + (Units - op.done) /\ Left' = x * (Units + 1) + (Units - op'.done)
    BY <1>2, <2>1 DEF x, y
  <2> QED
    BY <1>1, <1>5, <2>2, <2>3
<1>6. CASE (m = n /\ Stage' < Stage) \/ (n > 0 /\ m = n - 1)
  <2>1. x \in Nat /\ y \in Nat /\ y < x
    BY <1>2, <1>3, <1>6
  <2>2. Units - op.done \in 0 .. Units /\ Units - op'.done \in 0 .. Units
    BY <1>1
  <2> HIDE DEF x, y
  <2>3. y * (Units + 1) + (Units - op'.done) < x * (Units + 1) + (Units - op.done)
    BY <1>1, <2>1, <2>2, HigherDigitDecreases
  <2> QED
    BY <1>2, <2>3 DEF x, y
<1> QED
  BY <1>4, <1>5, <1>6

\* CommitEnds, of lfs_dir_relocatingcommit and lfs_dir_compact: whatever the device
\* reports, each step between the beginning of a commit and its end leaves less
\* of it to do, and so there are finitely many.
THEOREM CommitsEnd == Spec /\ HandlesSurvive => CommitEnds
<1>1. IInv /\ IInv' /\ [Next]_vars => [{pc, pc'} \cap {"idle", "down"} = {} => Left' < Left]_vars
  BY StepLeavesLess
<1> QED
  BY <1>1, PairIsSafe, PTL DEF Spec, CommitEnds
===============================================================================
