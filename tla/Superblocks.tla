----------------------------- MODULE Superblocks ----------------------------
(*  The superblock: format, mount, the upgrade of an older version, grow, and *)
(*  the chain of pairs that carry a copy of it once {0, 1} has been expanded. *)
(*                                                                            *)
(*  The device is the list of pairs that the tails thread, from {0, 1} on.  A *)
(*  pair is one number, its block, and lies within a device of n blocks when  *)
(*  it is below n; {0, 1} is 0.  A commit to a pair is one step (MetadataPair *)
(*  shows that it is atomic).  Of the root directory there is one content,    *)
(*  `val'; of the limits name_max, file_max and attr_max one, `max', with 0   *)
(*  for "not given"; the other directories are pairs without a superblock.    *)
(*  The major version and the block size are checked as the minor version is  *)
(*  and are left out.                                                         *)
EXTENDS Naturals, Sequences, FiniteSets, SequencesExt

CONSTANTS Blocks,        \* blocks of the device, as the numbers of pairs
          Counts,        \* values of block_count
          Maxes,         \* values of a limit
          Vals,          \* contents of the root directory
          Dirs,          \* numbers of directories below the root
          MaxCalls,      \* bound on the calls that write
          MaxMoves,      \* bound on the pairs moved or expanded
          Deviations     \* behaviour of the code that the promise leaves out

LFS_DISK_VERSION_MINOR == 1

ASSUME SuperAssumption ==
    /\ Blocks \in Nat \ {0}
    /\ Counts \subseteq 1..Blocks /\ Maxes \subseteq Nat \ {0}
    /\ 0 \in Vals /\ Vals \subseteq Nat
    /\ Dirs \subseteq Nat /\ \A d \in Dirs, n \in Counts : d < n
    /\ MaxCalls \in Nat /\ MaxMoves \in Nat
    /\ Deviations \subseteq {"stale", "growfails", "frozen"}

VARIABLES list,      \* the pairs on the device, each with its block and its log
          end,       \* the tail of the last: Null, a place in the list, or Wild
          lfs,       \* the fields of lfs_t: root, block_count, limit, upgrade bit
          walk,      \* the loop of lfs_mount_: dir.tail, the tortoise, lfs.cfg
          op,        \* the running call and its commit
          answer,    \* what the last call returned
          calls, moves, damaged

disk == <<list, end>>
vars == <<list, end, lfs, walk, op, answer, calls, moves, damaged>>

Null == 0            \* lfs_pair_isnull, among the places of the list
Wild == Blocks + 1   \* a pointer beyond every device

NoSuper == [minor |-> 0, count |-> 0, max |-> 0]
Supers  == [minor: 0..2, count: Counts, max: {0} \union Maxes]

Pair(at, super, val) == [at |-> at, super |-> super, val |-> val]

HasSuper(pair) == pair.super # NoSuper

NoLfs  == [on |-> FALSE, root |-> Wild, count |-> 0, max |-> 0, needs |-> FALSE]
NoWalk == [on |-> FALSE, tail |-> Null, cfg |-> [count |-> 0, max |-> 0],
           pair |-> Null, i |-> 0, period |-> 0]
NoEdit == [part |-> "none", to |-> 0]
NoOp   == [kind |-> "none", arg |-> 0, step |-> "none", at |-> Null,
           edit |-> NoEdit, split |-> FALSE, new |-> <<>>, old |-> 0]

Configs == [count: {0} \union Counts, max: Maxes]

-----------------------------------------------------------------------------
(*  The list of pairs                                                         *)

Ats(pairs) == {pairs[k].at : k \in DOMAIN pairs}

TailOf(k) == IF k < Len(list) THEN k + 1 ELSE end

\* the root directory is the last pair that has a superblock
Root == SelectLastInSeq(list, HasSuper)

\* the list ends, and lies on the device that the root's superblock describes
Sound == /\ list # <<>> /\ end = Null
         /\ \A k \in DOMAIN list : list[k].at < list[Root].super.count

\* the device has one block more than it has
BugFree == {p \in 1..lfs.count : p \notin Ats(list) \union Ats(op.new)}

\* a block the allocator may hand out: within the device, in no pair of the
\* list and not handed out in this call
Free == {p \in 1..lfs.count - 1 : p \notin Ats(list) \union Ats(op.new)}

-----------------------------------------------------------------------------
(*  Initial states: an empty device, or one that some implementation of       *)
(*  littlefs, perhaps an older or a newer one, has formatted and used.        *)

Init == /\ \/ list = <<>>
           \/ \E super \in Supers, d \in Dirs :
                list = [k \in 1..d + 1 |->
                          Pair(k - 1, IF k = 1 THEN super ELSE NoSuper, 0)]
        /\ end = Null
        /\ lfs = NoLfs /\ walk = NoWalk /\ op = NoOp /\ answer = "none"
        /\ calls = 0 /\ moves = 0 /\ damaged = FALSE

Idle == ~walk.on /\ op = NoOp

-----------------------------------------------------------------------------
(*  Format, mount and unmount                                                 *)

\* lfs_format_.  Its commits to {0, 1} are one step: until the first has
\* happened a fetch finds what was there before.
FormatCall(cfg) ==
    /\ Idle /\ ~lfs.on /\ calls < MaxCalls
    /\ op' = [NoOp EXCEPT !.kind = "format", !.arg = cfg]
    /\ calls' = calls + 1 /\ answer' = "none"
    /\ UNCHANGED <<disk, lfs, walk, moves, damaged>>

lfs_format_ ==
    /\ op.kind = "format"
    /\ list' = <<Pair(0, [minor |-> LFS_DISK_VERSION_MINOR,
                          count |-> op.arg.count, max |-> op.arg.max], 0)>>
    /\ end' = Null
    /\ op' = NoOp /\ answer' = "Ok" /\ damaged' = FALSE
    /\ UNCHANGED <<lfs, walk, calls, moves>>

\* lfs_init, and the loop's locals
MountCall(cfg) ==
    /\ Idle /\ ~lfs.on
    /\ lfs' = [NoLfs EXCEPT !.count = cfg.count, !.max = cfg.max]
    /\ walk' = [on |-> TRUE, tail |-> 1, cfg |-> cfg,
                pair |-> Null, i |-> 1, period |-> 1]
    /\ answer' = "none"
    /\ UNCHANGED <<disk, op, calls, moves, damaged>>

MountFails(why) ==
    /\ lfs' = NoLfs /\ walk' = NoWalk /\ answer' = why
    /\ UNCHANGED <<disk, op, calls, moves, damaged>>

\* lfs_tortoise_detectcycles
Cycle == walk.tail = walk.pair

\* the period does not grow
BugStepped == [walk EXCEPT !.pair = walk.tail]

Stepped == IF walk.i = walk.period
           THEN [walk EXCEPT !.pair = walk.tail, !.i = 1,
                             !.period = 2 * walk.period]
           ELSE [walk EXCEPT !.i = walk.i + 1]

\* lfs_dir_fetchmatch refuses a pair that is out of range or has no log
Unreadable(k) == \/ k \notin DOMAIN list
                 \/ lfs.count # 0 /\ list[k].at >= lfs.count

\* the limit is compared with >=
BugRefused(super) == \/ super.minor > LFS_DISK_VERSION_MINOR
                     \/ super.max >= lfs.max
                     \/ walk.cfg.count # 0 /\ super.count # walk.cfg.count

Refused(super) == \/ super.minor > LFS_DISK_VERSION_MINOR
                  \/ super.max > lfs.max
                  \/ walk.cfg.count # 0 /\ super.count # walk.cfg.count

\* an old version anywhere in the chain asks for an upgrade
BugLearned(pair) ==
    [lfs EXCEPT !.root = pair.at, !.count = pair.super.count,
                !.max = IF pair.super.max = 0 THEN lfs.max ELSE pair.super.max,
                !.needs = @ \/ pair.super.minor < LFS_DISK_VERSION_MINOR]

\* the fields of lfs after the superblock of a pair
Learned(pair) ==
    [lfs EXCEPT !.root = pair.at, !.count = pair.super.count,
                !.max = IF pair.super.max = 0 THEN lfs.max ELSE pair.super.max,
                !.needs = (pair.super.minor < LFS_DISK_VERSION_MINOR)]

MountTurn ==
    /\ walk.on /\ walk.tail # Null
    /\ LET k == walk.tail IN
       IF Cycle \/ Unreadable(k) THEN MountFails("Corrupt")
       ELSE IF HasSuper(list[k]) /\ Refused(list[k].super)
       THEN MountFails("Invalid")
       ELSE /\ walk' = [Stepped EXCEPT !.tail = TailOf(k)]
            /\ lfs' = IF HasSuper(list[k]) THEN Learned(list[k]) ELSE lfs
            /\ UNCHANGED <<disk, op, answer, calls, moves, damaged>>

MountEnds ==
    /\ walk.on /\ walk.tail = Null
    /\ lfs' = [lfs EXCEPT !.on = TRUE]
    /\ walk' = NoWalk /\ answer' = "Ok"
    /\ UNCHANGED <<disk, op, calls, moves, damaged>>

\* unmount, or power loss at any point
Lose ==
    /\ lfs # NoLfs \/ op # NoOp
    /\ lfs' = NoLfs /\ walk' = NoWalk /\ op' = NoOp /\ answer' = "none"
    /\ UNCHANGED <<disk, calls, moves, damaged>>

\* tests/test_evil: the tail of a pair is set to an earlier pair, to itself or
\* beyond the device
Damage ==
    /\ Idle /\ ~lfs.on /\ ~damaged /\ Sound
    /\ \E k \in DOMAIN list : /\ list' = SubSeq(list, 1, k)
                             /\ end' \in 1..k \union {Wild}
    /\ damaged' = TRUE
    /\ UNCHANGED <<lfs, walk, op, answer, calls, moves>>

-----------------------------------------------------------------------------
(*  Calls that write.  `edit' is the change that the commit in progress makes *)
(*  to the pair at place `at': the root's entries, a field of its superblock, *)
(*  all of it, or the tail.  `new' are the pairs written but not yet in the   *)
(*  list; they will take the place of the `old' pairs after `at'.             *)

Commit(kind, arg, step, part, to) ==
    [kind |-> kind, arg |-> arg, step |-> step, at |-> Root,
     edit |-> [part |-> part, to |-> to], split |-> FALSE, new |-> <<>>, old |-> 0]

\* lfs_fs_desuperblock writes the fields of lfs
Upgraded == [minor |-> LFS_DISK_VERSION_MINOR, count |-> lfs.count,
             max |-> lfs.max]

\* any call that changes the root directory; lfs_fs_forceconsistency comes first
PutCall(v) ==
    /\ Idle /\ lfs.on /\ calls < MaxCalls
    /\ op' = IF lfs.needs THEN Commit("put", v, "upgrade", "super", Upgraded)
                          ELSE Commit("put", v, "write", "val", v)
    /\ calls' = calls + 1 /\ answer' = "none"
    /\ UNCHANGED <<disk, lfs, walk, moves, damaged>>

\* lfs_fs_grow_: shrinking first looks for a block beyond the new end
GrowCall(n) ==
    /\ Idle /\ lfs.on /\ calls < MaxCalls
    /\ n # lfs.count
    /\ n < lfs.count => \A p \in Ats(list) : p < n
    /\ Root = 1 \/ "stale" \in Deviations
    /\ lfs' = [lfs EXCEPT !.count = n]
    /\ op' = Commit("grow", n, "write", "count", n)
    /\ calls' = calls + 1 /\ answer' = "none"
    /\ UNCHANGED <<disk, walk, moves, damaged>>

Edited == LET pair == list[op.at] IN
    CASE op.edit.part = "val"   -> [pair EXCEPT !.val = op.edit.to]
      [] op.edit.part = "count" -> [pair EXCEPT !.super.count = op.edit.to]
      [] op.edit.part = "super" -> [pair EXCEPT !.super = op.edit.to]
      [] op.edit.part = "tail"  -> pair

Writing == op.kind \in {"put", "grow"} /\ ~op.split

\* the commit to pair `at' is on disk, and with it the new pairs are in the list.
\* After the upgrade comes the call's own commit, after that the return.
Linked(pair) ==
    /\ list' = SubSeq(list, 1, op.at - 1) \o <<pair>> \o op.new
               \o SubSeq(list, op.at + op.old + 1, Len(list))
    /\ IF op.step = "upgrade"
       THEN /\ lfs' = [lfs EXCEPT !.needs = FALSE]
            /\ op' = [Commit("put", op.arg, "write", "val", op.arg) EXCEPT !.at = Root']
            /\ UNCHANGED answer
       ELSE /\ op' = NoOp /\ answer' = "Ok"
            /\ UNCHANGED lfs
    /\ UNCHANGED <<end, walk, calls, moves, damaged>>

CommitInPlace == Writing /\ Linked(Edited)

\* the device refuses, and the error is returned.  lfs_fs_grow_ has set
\* block_count by then, and lfs.root may have moved to a pair outside the list.
CommitFails ==
    /\ op.kind \in {"put", "grow"}
    /\ op.kind = "grow" => "growfails" \in Deviations
    /\ op.new # <<>> => "frozen" \in Deviations
    /\ op' = NoOp /\ answer' = "Io"
    /\ UNCHANGED <<disk, lfs, walk, calls, moves, damaged>>

\* lfs.root follows the pair at `at' to a new block
MoveTo(new) ==
    /\ lfs' = [lfs EXCEPT !.root = IF @ = list[op.at].at THEN new ELSE @]
    /\ moves' = moves + 1
    /\ UNCHANGED <<disk, walk, answer, calls, damaged>>

\* {0, 1} is worn: lfs_dir_split copies all of it into a new pair ...
Expand ==
    /\ Writing /\ op.at = 1 /\ moves < MaxMoves
    /\ \E new \in Free :
          /\ op' = [op EXCEPT !.split = TRUE,
                              !.new = <<[Edited EXCEPT !.at = new]>> \o @]
          /\ MoveTo(new)

\* ... and lfs_dir_compact leaves the superblock and a tail in {0, 1}
ExpandHead == op.split /\ Linked([Edited EXCEPT !.val = 0])

\* another pair is worn or bad: it moves, and lfs_dir_orphaningcommit goes on to
\* its predecessor
Move ==
    /\ Writing /\ op.at > 1 /\ moves < MaxMoves
    /\ \E new \in Free :
          /\ op' = [op EXCEPT !.at = @ - 1, !.old = @ + 1,
                              !.edit = [part |-> "tail", to |-> new],
                              !.new = <<[Edited EXCEPT !.at = new]>> \o @]
          /\ MoveTo(new)

Next == \/ \E cfg \in Configs : MountCall(cfg) \/ (cfg.count # 0 /\ FormatCall(cfg))
        \/ lfs_format_ \/ MountTurn \/ MountEnds \/ Lose \/ Damage
        \/ \E v \in Vals : PutCall(v)
        \/ \E n \in Counts : GrowCall(n)
        \/ CommitInPlace \/ CommitFails \/ Expand \/ ExpandHead \/ Move

\* a mount runs in one thread; power loss may end it
Spec == Init /\ [][Next]_vars /\ WF_vars(MountTurn \/ MountEnds)

-----------------------------------------------------------------------------
(*  Properties                                                                *)

\* The state has its type.
TypeOK ==
    /\ list \in Seq([at: 0..Blocks - 1, super: Supers \union {NoSuper}, val: Vals])
    /\ end \in {Null, Wild} \union DOMAIN list
    /\ lfs \in [on: BOOLEAN, root: 0..Wild, count: {0} \union Counts,
                max: {0} \union Maxes, needs: BOOLEAN]
    /\ walk.cfg \in Configs \union {NoWalk.cfg}
    /\ walk.tail \in {Null, Wild} \union DOMAIN list \union {1}
    /\ walk.i \in 0..walk.period /\ walk.period <= 4 * Blocks
    /\ op.at \in {Null} \union DOMAIN list /\ op.old + Len(op.new) <= Blocks
    /\ answer \in {"none", "Ok", "Io", "Invalid", "Corrupt"}
    /\ calls \in 0..MaxCalls /\ moves \in 0..MaxMoves /\ damaged \in BOOLEAN

\* Between calls on a mounted filesystem, lfs.root is the pair where a mount
\* would find the root directory, and block_count, the limit and the upgrade bit
\* are those of its superblock: mount, the expansion of {0, 1}, the move of the
\* root, grow and the upgrade keep the two together.
RamIsDisk ==
    Idle /\ lfs.on =>
        LET super == list[Root].super IN
        /\ lfs.root = list[Root].at
        /\ lfs.count = super.count
        /\ super.max \in {0, lfs.max}
        /\ lfs.needs = (super.minor < LFS_DISK_VERSION_MINOR)

\* A mount comes to an end, whatever the tails of the list are
\* (lfs_tortoise_detectcycles).
MountReturns == walk.on ~> ~walk.on

\* What is on the device, and what is asked of it, as PlainSuper has them.
Shown == IF list = <<>> THEN [minor |-> 0, count |-> 0, max |-> 0, val |-> 0, sound |-> FALSE]
         ELSE LET pair == list[Root] IN
              [minor |-> pair.super.minor, count |-> pair.super.count,
               max |-> pair.super.max, val |-> pair.val, sound |-> Sound]

Asking == IF walk.on THEN [kind |-> "mount", arg |-> walk.cfg]
          ELSE [kind |-> op.kind, arg |-> op.arg]

Plain == INSTANCE PlainSuper WITH
    Minor <- LFS_DISK_VERSION_MINOR, fs <- Shown, mounted <- lfs.on, call <- Asking,
    answer <- answer

\* Seen from its callers the chain of superblocks is one superblock, with one
\* root directory: a mount succeeds exactly when the configuration fits it and
\* the list is sound, a damaged list is found, and a call that returns Ok has
\* changed what the next mount will find, whichever pair expanded or moved.
IsPlainSuper == Plain!Spec
=============================================================================
