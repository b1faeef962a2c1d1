---- MODULE FileOpsProofs ----
(***************************************************************************)
(* Proofs about FileOps, whatever the device answers at every step.        *)
(*                                                                         *)
(* The invariant Control is what the control of a file operation keeps: it *)
(* says what may be on the stack of calls, what each resume point may      *)
(* count on, which blocks the two caches and the file may name, and what   *)
(* the flags of the file mean.  Every action of FileOps keeps it (one      *)
(* lemma per action), and with it go the types and the room that a program *)
(* into a block always finds.                                              *)
(*                                                                         *)
(* The invariant Listed is what an operation keeps of the lists of blocks: *)
(* the list the directory holds, the list of the handle and the list a     *)
(* write builds are lists of blocks with the right pointers, and the       *)
(* allocator will not offer a block of theirs: it knows the block, or it   *)
(* has come on a list that ran into blocks of no file and offers none.     *)
(* Again one lemma per action; with it the saved file stays readable as it *)
(* was saved, and the place a handle remembers is the place of its offset. *)
(***************************************************************************)
EXTENDS FileOps, CtzProofs, SequenceTheorems

-----------------------------------------------------------------------------
(***************************************************************************)
(* The stack: what a function may return to, and what may be below it.     *)
(***************************************************************************)
Returns(label) ==
  CASE label = "relocate" -> {"outlined", "chunk", "copy"}
    [] label \in {"put", "chunk", "outlined", "extend"} -> {"wrote", "fill", "copy"}
    [] label \in {"flush", "copy"} -> {"write", "readstart", "cut", "commit", "sought", "growing"}
    [] label \in {"seek", "sought"} -> {"idle", "growing", "readstart"}
    [] label = "wrote" -> {"idle", "growing"}
    [] label \in {"readstart", "read"} -> {"idle", "revert"}
    [] OTHER -> {"idle"}

Callers == {"write", "readstart", "cut", "commit", "sought", "growing", "revert", "idle"}

Below(label) ==
  CASE label = "relocate" -> Callers \cup {"outlined", "chunk", "copy", "wrote", "fill"}
    [] label \in {"put", "chunk", "outlined", "extend"} -> Callers \cup {"copy", "wrote", "fill"}
    [] label \in {"flush", "copy"} -> Callers
    [] label \in {"seek", "sought"} -> {"growing", "readstart", "revert", "idle"}
    [] label = "wrote" -> {"growing", "idle"}
    [] label \in {"readstart", "read"} -> {"revert", "idle"}
    [] label = "idle" -> {}
    [] OTHER -> {"idle"}

IsStack(p, s) ==
  /\ p \in Labels \ {"panic"} /\ s \in Seq(Labels)
  /\ p = "idle" <=> s = <<>>
  /\ s # <<>> => s[1] \in Returns(p)
  /\ \A i \in 1 .. Len(s) : s[i] \in Below(p) /\ (s[i] = "idle" <=> i = Len(s))
  /\ \A i \in 1 .. Len(s) - 1 : s[i + 1] \in Returns(s[i])
  /\ \A i, j \in 1 .. Len(s) : i < j => s[j] \in Below(s[i])

Holds(s, label) == \E i \in 1 .. Len(s) : s[i] = label
On(label) == pc = label \/ Holds(stack, label)
For(label) == stack # <<>> /\ Head(stack) = label
StackOK == IsStack(pc, stack)

LEMMA Based ==
  ASSUME NEW l \in Labels \ {"idle", "panic"}, "idle" \in Returns(l), "idle" \in Below(l)
  PROVE  IsStack(l, <<"idle">>) /\ \A x : Holds(<<"idle">>, x) <=> x = "idle"
BY DEF IsStack, Holds, Labels

LEMMA Pushed ==
  ASSUME NEW p, NEW s, IsStack(p, s), s # <<>>,
         NEW l \in Labels \ {"idle", "panic"}, NEW r \in Labels \ {"idle"},
         r \in Returns(l), r \in Below(l), s[1] \in Returns(r),
         Below(p) \subseteq Below(r), Below(r) \subseteq Below(l)
  PROVE  /\ IsStack(l, <<r>> \o s) /\ <<r>> \o s # <<>> /\ Head(<<r>> \o s) = r
         /\ \A x : Holds(<<r>> \o s, x) <=> x = r \/ Holds(s, x)
<1> DEFINE t == <<r>> \o s
<1>1. /\ t \in Seq(Labels) /\ Len(t) = Len(s) + 1 /\ t[1] = r /\ Len(s) \in Nat \ {0}
      /\ \A i \in 1 .. Len(s) : t[i + 1] = s[i]
      /\ \A i \in 2 .. Len(t) : t[i] = s[i - 1] /\ i - 1 \in 1 .. Len(s)
  BY DEF IsStack
<1>2. \A x : Holds(t, x) <=> x = r \/ Holds(s, x)
  <2> TAKE x
  <2>1. ASSUME Holds(t, x) PROVE x = r \/ Holds(s, x)
    BY <1>1, <2>1 DEF Holds
  <2>2. ASSUME x = r \/ Holds(s, x) PROVE Holds(t, x)
    <3>1. CASE x = r
      <4>1. 1 \in 1 .. Len(t)
        BY <1>1
      <4> QED
        BY <1>1, <3>1, <4>1 DEF Holds
    <3>2. CASE Holds(s, x)
      <4>1. PICK i \in 1 .. Len(s) : s[i] = x
        BY <3>2 DEF Holds
      <4>2. i + 1 \in 1 .. Len(t) /\ t[i + 1] = x
        BY <1>1, <4>1
      <4> QED
        BY <4>2 DEF Holds
    <3> QED
      BY <2>2, <3>1, <3>2
  <2> QED
    BY <2>1, <2>2
<1>3. /\ \A i \in 1 .. Len(s) : s[i] \in Below(p) /\ (s[i] = "idle" <=> i = Len(s))
      /\ \A i \in 1 .. Len(s) - 1 : s[i + 1] \in Returns(s[i])
      /\ \A i, j \in 1 .. Len(s) : i < j => s[j] \in Below(s[i])
  BY DEF IsStack
<1> HIDE DEF t
<1>4. \A i \in 1 .. Len(t) : t[i] \in Below(l) /\ (t[i] = "idle" <=> i = Len(t))
  BY <1>1, <1>3
<1>5. \A i \in 1 .. Len(t) - 1 : t[i + 1] \in Returns(t[i])
  <2> TAKE i \in 1 .. Len(t) - 1
  <2>1. CASE i = 1
    BY <1>1, <2>1
  <2>2. CASE i # 1
    <3>1. i - 1 \in 1 .. Len(s) - 1 /\ t[i] = s[i - 1] /\ t[i + 1] = s[i] /\ (i - 1) + 1 = i
      BY <1>1, <2>2
    <3> QED
      BY <1>3, <3>1
  <2> QED
    BY <2>1, <2>2
<1>6. \A i, j \in 1 .. Len(t) : i < j => t[j] \in Below(t[i])
  <2> TAKE i, j \in 1 .. Len(t)
  <2>1. CASE i = 1
    BY <1>1, <1>3, <2>1
  <2>2. CASE i # 1
    BY SMTT(30), <1>1, <1>3, <2>2
  <2> QED
    BY <2>1, <2>2
<1>7. t # <<>> /\ Head(t) = r
  BY <1>1
<1>8. IsStack(l, t)
  BY <1>1, <1>4, <1>5, <1>6, <1>7 DEF IsStack
<1> QED
  BY <1>2, <1>7, <1>8 DEF t

LEMMA Popped ==
  ASSUME NEW p, NEW s, IsStack(p, s), s # <<>>
  PROVE  /\ IsStack(Head(s), Tail(s)) /\ Head(s) \in Returns(p) /\ Head(s) \in Below(p)
         /\ \A x : Holds(s, x) <=> Head(s) = x \/ Holds(Tail(s), x)
<1> DEFINE t == Tail(s)
<1>1. /\ t \in Seq(Labels) /\ Len(s) = Len(t) + 1 /\ Head(s) = s[1] /\ Len(t) \in Nat
      /\ \A i \in 1 .. Len(t) : t[i] = s[i + 1] /\ i + 1 \in 1 .. Len(s)
      /\ \A i \in 2 .. Len(s) : t[i - 1] = s[i] /\ i - 1 \in 1 .. Len(t)
      /\ s[1] \in Labels /\ 1 \in 1 .. Len(s)
  BY DEF IsStack
<1>2. /\ \A i \in 1 .. Len(s) : s[i] \in Below(p) /\ (s[i] = "idle" <=> i = Len(s))
      /\ \A i \in 1 .. Len(s) - 1 : s[i + 1] \in Returns(s[i])
      /\ \A i, j \in 1 .. Len(s) : i < j => s[j] \in Below(s[i])
      /\ s[1] \in Returns(p)
  BY DEF IsStack
<1> HIDE DEF t
<1>3. t = <<>> <=> Len(t) = 0
  BY <1>1
<1>4. Head(s) \in Labels \ {"panic"} /\ (Head(s) = "idle" <=> t = <<>>)
  <2>1. s[1] # "panic"
    BY <1>1, <1>2 DEF Below, Callers
  <2> QED
    BY <1>1, <1>2, <1>3, <2>1
<1>5. t # <<>> => t[1] \in Returns(Head(s))
  BY <1>1, <1>2, <1>3
<1>6. \A i \in 1 .. Len(t) : t[i] \in Below(Head(s)) /\ (t[i] = "idle" <=> i = Len(t))
  BY <1>1, <1>2
<1>7. \A i \in 1 .. Len(t) - 1 : t[i + 1] \in Returns(t[i])
  BY <1>1, <1>2
<1>8. \A i, j \in 1 .. Len(t) : i < j => t[j] \in Below(t[i])
  <2> TAKE i, j \in 1 .. Len(t)
  <2>1. HAVE i < j
  <2>2. t[i] = s[i + 1] /\ t[j] = s[j + 1] /\ i + 1 \in 1 .. Len(s) /\ j + 1 \in 1 .. Len(s) /\ i + 1 < j + 1
    BY <1>1, <2>1
  <2> QED
    BY <1>2, <2>2
<1>9. IsStack(Head(s), t)
  BY <1>1, <1>4, <1>5, <1>6, <1>7, <1>8 DEF IsStack
<1>10. \A x : Holds(s, x) <=> Head(s) = x \/ Holds(t, x)
  <2> TAKE x
  <2>1. ASSUME Holds(t, x) PROVE Holds(s, x)
    <3>1. PICK i \in 1 .. Len(t) : t[i] = x
      BY <2>1 DEF Holds
    <3> QED
      BY <1>1, <3>1 DEF Holds
  <2>2. ASSUME Holds(s, x), Head(s) # x PROVE Holds(t, x)
    <3>1. PICK i \in 1 .. Len(s) : s[i] = x
      BY <2>2 DEF Holds
    <3>2. i - 1 \in 1 .. Len(t) /\ t[i - 1] = x
      BY <1>1, <2>2, <3>1
    <3> QED
      BY <3>2 DEF Holds
  <2>3. Head(s) = x => Holds(s, x)
    BY <1>1 DEF Holds
  <2> QED
    BY <2>1, <2>2, <2>3
<1> QED
  BY <1>1, <1>2, <1>9, <1>10 DEF t

-----------------------------------------------------------------------------
(***************************************************************************)
(* The invariant of control.                                               *)
(***************************************************************************)
IsReading == Has("reading")
IsWriting == Has("writing")
IsInline == Has("inline")
IsErred == Has("erred")
IsDirty == Has("dirty")
IsAppend == Has("append")

Operations == {"none", "failed", "write", "read", "seek", "grow", "shrink", "sync", "close"}

FileIs(f) ==
  f \in [open : BOOLEAN, flags : SUBSET Flags, pos : 0 .. FileMax, block : Blocks \cup {Inline},
         off : 0 .. BlockSize, head : Blocks \cup {Inline}, size : 0 .. FileMax, data : {f.data}]

DataSeq(S, t) == t \in Seq(S) /\ \A x \in S : x[1] = "data"
ToDo(t) == \E S : DataSeq(S, t)

RegIs(r) ==
  /\ r \in [op : Operations, arg : 0 .. FileMax, to : 0 .. FileMax, todo : {r.todo},
            fill : 0 .. FileMax, pos : 0 .. FileMax, from : Nat, left : 0 .. FileMax,
            got : {r.got}, tainted : BOOLEAN, was : {r.was}]
  /\ r.was.position \in 0 .. FileMax
  /\ ToDo(r.todo)

CellsAre(c) == \E S : c \in [Blocks -> [0 .. BlockSize - 1 -> S]]

EntryIs(e) ==
  \/ /\ e.type = "inline"
     /\ \E n \in 0 .. InlineMax : n <= FileMax /\ DOMAIN e.data = 0 .. n - 1
  \/ e.type = "ctz" /\ e.size \in 1 .. FileMax /\ e.head \in Blocks

Typed ==
  /\ FileIs(file) /\ RegIs(reg) /\ CellsAre(cells) /\ EntryIs(entry)
  /\ taken \subseteq Blocks \cup {NotABlock} /\ bad \subseteq Blocks
  /\ faults \in 0 .. MaxTrouble /\ stamp \in 0 .. MaxEdits

WritesBlocks == file.open /\ IsWriting /\ ~IsReading /\ (~IsInline \/ pc = "outlined")

CacheOK ==
  /\ pcache = NoCache
  /\ cache # NoCache => WritesBlocks /\ cache = Dirty(file.block, file.off)

BlockOK ==
  /\ WritesBlocks => file.block \in Blocks /\ (file.pos = 0 => file.off = 0)
  /\ IsWriting /\ IsAppend => file.pos >= file.size /\ ~IsReading
  /\ file.open /\ ~IsInline /\ ~IsWriting => file.head \in Blocks

Mid == pc \in {"chunk", "extend", "outlined"} \/ (pc = "relocate" /\ ~For("copy"))
Puts == pc = "put" \/ Mid

FlagsOK ==
  /\ Puts \/ pc \in {"relocate", "copy", "write", "fill", "wrote", "cut", "commit", "sought"} => ~IsReading
  /\ pc \in {"cut", "commit", "sought"} => ~IsWriting
  /\ On("copy") => IsWriting /\ ~IsInline /\ ~IsReading
  /\ On("commit") => ~IsErred
  /\ pc = "relocate" => (IsInline <=> For("outlined"))
  /\ pc = "relocate" /\ ~IsInline => IsWriting
  /\ pc = "outlined" => IsInline /\ IsWriting
  /\ pc = "wrote" => IsWriting /\ file.pos > 0
  /\ IsErred => reg.tainted
  /\ ~file.open => pc = "idle" /\ file = NoFile

PutOK ==
  Puts =>
    /\ Len(reg.todo) > 0 /\ file.pos + Len(reg.todo) <= FileMax
    /\ IsAppend => file.pos >= file.size
    /\ ~IsWriting => file.pos <= file.size
    /\ IsInline /\ pc \in {"relocate", "outlined"} => file.off = file.pos /\ file.pos <= CacheSize
    /\ IsInline /\ pc = "chunk" => file.pos + Len(reg.todo) <= InlineMax /\ file.size <= InlineMax
    /\ On("fill") => file.pos + Len(reg.todo) <= reg.fill
    /\ On("copy") => file.pos + Len(reg.todo) <= file.size
    /\ pc = "chunk" /\ ~IsInline => IsWriting
    /\ pc = "extend" => ~IsInline /\ (IsWriting => file.off = BlockSize)

OpOK ==
  /\ On("write") \/ On("fill") => reg.op = "write" /\ reg.arg \in WriteSizes
  /\ On("fill") =>
       /\ reg.fill + reg.arg <= FileMax /\ file.pos <= reg.fill
       /\ file.pos >= file.size
       /\ ~IsWriting => file.pos = file.size
  /\ On("revert") => reg.op = "shrink" /\ reg.arg \in 0 .. InlineMax /\ reg.to = 0
  /\ On("cut") => reg.op = "shrink" /\ reg.arg \in InlineMax + 1 .. FileSize
  /\ On("growing") => reg.op = "grow"
  /\ On("growing") /\ (pc = "seek" \/ On("sought")) => reg.to = FileSize
  /\ On("growing") /\ ~(pc = "seek" \/ On("sought")) =>
       /\ file.pos = FileSize /\ ~On("copy")
       /\ pc = "flush" => (IsWriting => IsInline)

ReadOK ==
  /\ pc \in {"readstart", "read"} /\ IsWriting => On("revert") /\ (~IsReading => file.pos = 0)
  /\ pc = "revert" /\ IsWriting => IsReading \/ file.pos = 0
  /\ pc = "read" => (reg.left > 0 => file.pos + reg.left <= file.size)
       /\ (On("revert") => reg.left <= reg.arg)
  /\ IsReading /\ IsWriting =>
       /\ IsErred /\ file.off = file.pos /\ file.pos <= CacheSize
       /\ IsInline \/ pc = "revert" \/ (pc = "read" /\ reg.left = 0)
  /\ pc = "seek" /\ On("readstart") => On("revert")
  /\ pc \in {"seek", "readstart", "read", "revert"} /\ On("revert") /\ IsWriting /\ ~IsReading
       => reg.arg < FileSize

InlineOK ==
  /\ IsInline =>
       /\ FileSize <= CacheSize
       /\ FileSize > InlineMax => IsErred
       /\ IsWriting => file.off = file.pos
  /\ pc = "wrote" /\ IsInline => FileSize <= InlineMax
  /\ IsWriting /\ file.pos = 0 => IsErred \/ Mid
  /\ file.open /\ ~IsInline /\ file.size = 0 /\ ~IsWriting => IsErred

Control ==
  /\ StackOK /\ Typed /\ CacheOK /\ BlockOK /\ FlagsOK /\ PutOK /\ OpOK /\ ReadOK /\ InlineOK

LEMMA FlushReadsKeeps ==
  ASSUME Control, FlushReads
  PROVE  Control'
<1>1. /\ pc = "flush" /\ IsReading /\ pc' = pc /\ stack' = stack /\ reg' = reg
      /\ file' = [file EXCEPT !.flags = @ \ {"reading"}]
      /\ UNCHANGED <<entry, pcache, taken, bad, faults, stamp, saved>>
  BY DEF FlushReads, IsReading
<1>2. cache = NoCache
  BY <1>1 DEF Control, CacheOK, WritesBlocks
<1>3. cells' = cells /\ cache' = cache
  BY <1>2 DEF FlushReads, Forget, NoCache, NotABlock
<1>4. /\ ~IsReading' /\ (IsWriting <=> IsWriting') /\ (IsInline <=> IsInline')
      /\ (IsErred <=> IsErred') /\ (IsDirty <=> IsDirty') /\ (IsAppend <=> IsAppend')
      /\ FileIs(file')
      /\ file'.pos = file.pos /\ file'.size = file.size /\ file'.block = file.block /\ file'.off = file.off
      /\ file'.head = file.head /\ file'.open = file.open /\ file'.data = file.data
  BY <1>1 DEF Control, Typed, FileIs, IsReading, IsWriting, IsInline, IsErred, IsDirty, IsAppend, Has
<1>5. /\ \A x : (On(x)' <=> On(x))
      /\ \A x : (For(x)' <=> For(x))
  BY <1>1 DEF On, For
<1>6. FileSize' = FileSize
  BY <1>4 DEF FileSize, IsWriting
<1>7. Typed'
  BY <1>1, <1>3, <1>4 DEF Control, Typed
<1>8. StackOK'
  BY <1>1 DEF Control, StackOK
<1>9. CacheOK' /\ BlockOK'
  BY <1>1, <1>2, <1>3, <1>4 DEF Control, CacheOK, BlockOK, ReadOK, WritesBlocks
<1>10. (Mid <=> Mid') /\ (Puts <=> Puts')
  BY <1>1, <1>5 DEF Mid, Puts
<1>11. FlagsOK'
  BY <1>1, <1>4, <1>5, <1>10 DEF Control, FlagsOK
<1>12. PutOK'
  BY <1>1, <1>4, <1>5, <1>10 DEF Control, PutOK, Puts, Mid
<1>13. OpOK'
  BY <1>1, <1>4, <1>5, <1>6 DEF Control, OpOK
<1>14. ReadOK'
  BY <1>1, <1>4, <1>5, <1>10 DEF Control, ReadOK
<1>15. InlineOK'
  BY <1>1, <1>4, <1>6, <1>10 DEF Control, InlineOK
<1> QED
  BY <1>7, <1>8, <1>9, <1>11, <1>12, <1>13, <1>14, <1>15 DEF Control

-----------------------------------------------------------------------------
LEMMA OnlyTyped ==
  ASSUME NEW c, CellsAre(c), NEW used
  PROVE  CellsAre(Only(used, c))
<1>1. PICK S : c \in [Blocks -> [0 .. BlockSize - 1 -> S]]
  BY DEF CellsAre
<1>2. Blank \in [0 .. BlockSize - 1 -> S \cup {Gap}]
  BY DEF Blank
<1>3. \A b \in Blocks : c[b] \in [0 .. BlockSize - 1 -> S \cup {Gap}]
  BY <1>1
<1>4. Only(used, c) \in [Blocks -> [0 .. BlockSize - 1 -> S \cup {Gap}]]
  BY <1>2, <1>3 DEF Only
<1> QED
  BY <1>4 DEF CellsAre

LEMMA NoFileIs == FileIs(NoFile) /\ NoFile.open = FALSE /\ NoFile.flags = {} /\ NoFile.pos = 0
BY Constants DEF FileIs, NoFile, Inline, Flags

LEMMA NoReaders ==
  ASSUME NEW f
  PROVE  f \notin NoFile.flags
BY NoFileIs

LEMMA NoRegIs == RegIs(NoReg) /\ NoReg.op = "none" /\ NoReg.tainted = FALSE
<1>0. DataSeq({}, <<>>)
  BY DEF DataSeq
<1>1. ToDo(<<>>)
  BY <1>0 DEF ToDo
<1> QED
  BY <1>1, Constants DEF RegIs, NoReg, Operations

LEMMA DoneIs ==
  ASSUME RegIs(reg)
  PROVE  RegIs(Done) /\ Done.tainted = reg.tainted /\ Done.op = "none"
<1>1. Done = [NoReg EXCEPT !.tainted = reg.tainted] /\ reg.tainted \in BOOLEAN
  BY DEF Done, RegIs
<1>2. RegIs(Done)
  BY <1>1, NoRegIs DEF RegIs
<1> QED
  BY <1>1, <1>2, NoRegIs DEF RegIs

LEMMA FailedIs ==
  ASSUME RegIs(reg), NEW b \in BOOLEAN, NEW r, r = [Failed EXCEPT !.tainted = @ \/ b]
  PROVE  RegIs(r) /\ (r.tainted <=> reg.tainted \/ b) /\ r.op = "failed"
<1>1. Failed = [Done EXCEPT !.op = "failed"] /\ RegIs(Done) /\ Done.tainted = reg.tainted
  BY DoneIs DEF Failed
<1>2. RegIs(Failed) /\ Failed.tainted = reg.tainted /\ Failed.op = "failed"
  BY <1>1 DEF RegIs, Operations
<1>3. RegIs(r)
  BY <1>2 DEF RegIs
<1> QED
  BY <1>2, <1>3 DEF RegIs

LEMMA GoneKeeps ==
  ASSUME Control, Gone, UNCHANGED <<entry, pcache, stamp>>,
         taken' \subseteq Blocks \cup {NotABlock}, bad' \subseteq Blocks, faults' \in 0 .. MaxTrouble
  PROVE  Control'
<1>1. /\ file' = NoFile /\ cache' = NoCache /\ reg' = NoReg /\ pc' = "idle" /\ stack' = <<>>
      /\ cells' = Only(EntryBlocks, cells)
  BY DEF Gone
<1>2. /\ ~IsReading' /\ ~IsWriting' /\ ~IsInline' /\ ~IsErred' /\ ~file'.open
  BY <1>1, NoFileIs DEF IsReading, IsWriting, IsInline, IsErred, Has
<1>3. Typed'
  BY <1>1, NoFileIs, NoRegIs, OnlyTyped DEF Control, Typed
<1>4. StackOK'
  BY <1>1 DEF StackOK, IsStack, Labels
<1>5. \A x : On(x)' <=> x = "idle"
  BY <1>1 DEF On, Holds
<1>6. /\ CacheOK' /\ BlockOK' /\ FlagsOK' /\ PutOK' /\ ReadOK' /\ InlineOK'
  BY <1>1, <1>2, <1>5 DEF Control, CacheOK, BlockOK, FlagsOK, PutOK, ReadOK, InlineOK, Puts, Mid, WritesBlocks
<1>7. OpOK'
  BY <1>1, <1>2, <1>5 DEF OpOK
<1> QED
  BY <1>3, <1>4, <1>6, <1>7 DEF Control

LEMMA FailKeeps ==
  ASSUME Control, NEW flags \in SUBSET {"erred"}, Fail(flags), UNCHANGED <<entry, pcache, stamp>>,
         taken' \subseteq Blocks \cup {NotABlock}, bad' \subseteq Blocks, faults' \in 0 .. MaxTrouble,
         pc \notin {"idle", "outlined"},
         IsReading /\ IsWriting => IsInline,
         IsWriting /\ file.pos = 0 => IsErred \/ flags # {}
  PROVE  Control'
<1>1. CASE reg.op = "close"
  BY <1>1, GoneKeeps DEF Fail
<1>2. CASE reg.op # "close"
  <2>1. /\ file' = [file EXCEPT !.flags = @ \cup flags] /\ reg' = [Failed EXCEPT !.tainted = @ \/ flags # {}]
        /\ pc' = "idle" /\ stack' = <<>> /\ cells' = cells /\ cache' = cache
    BY <1>2 DEF Fail
  <2>2. /\ (IsReading <=> IsReading') /\ (IsWriting <=> IsWriting') /\ (IsInline <=> IsInline')
        /\ (IsDirty <=> IsDirty') /\ (IsAppend <=> IsAppend') /\ (IsErred' <=> IsErred \/ flags # {})
        /\ FileIs(file')
        /\ file'.pos = file.pos /\ file'.size = file.size /\ file'.block = file.block /\ file'.off = file.off
        /\ file'.head = file.head /\ file'.open = file.open
    BY <2>1 DEF Control, Typed, FileIs, IsReading, IsWriting, IsInline, IsErred, IsDirty, IsAppend, Has, Flags
  <2>3. FileSize' = FileSize
    BY <2>2 DEF FileSize, IsWriting
  <2>4. RegIs(reg') /\ (IsErred' => reg'.tainted)
    <3>1. PICK b \in BOOLEAN : b <=> flags # {}
      OBVIOUS
    <3>2. reg' = [Failed EXCEPT !.tainted = @ \/ b]
      BY <2>1, <3>1
    <3>3. RegIs(reg') /\ (reg'.tainted <=> reg.tainted \/ b)
      BY <3>2, FailedIs DEF Control, Typed
    <3> QED
      BY <2>2, <3>1, <3>3 DEF Control, FlagsOK
  <2>5. Typed'
    BY <2>1, <2>2, <2>4 DEF Control, Typed
  <2>6. StackOK'
    BY <2>1 DEF StackOK, IsStack, Labels
  <2>7. \A x : On(x)' <=> x = "idle"
    BY <2>1 DEF On, Holds
  <2>8. WritesBlocks' <=> WritesBlocks
    BY <2>1, <2>2 DEF WritesBlocks
  <2>9. CacheOK' /\ BlockOK'
    BY <2>1, <2>2, <2>8 DEF Control, CacheOK, BlockOK
  <2>10. FlagsOK' /\ PutOK'
    BY <2>1, <2>2, <2>4, <2>7 DEF Control, FlagsOK, PutOK, Puts, Mid
  <2>11. OpOK'
    BY <2>1, <2>2, <2>7 DEF OpOK
  <2>12. ReadOK' /\ InlineOK'
    BY <2>1, <2>2, <2>3, <2>7 DEF Control, ReadOK, InlineOK, Mid
  <2> QED
    BY <2>5, <2>6, <2>9, <2>10, <2>11, <2>12 DEF Control
<1> QED
  BY <1>1, <1>2

LEMMA Sizes ==
  /\ IsFiniteSet(Blocks) /\ Blocks \subseteq Nat \ {0} /\ NotABlock \notin Blocks
  /\ CacheSize \in 1 .. BlockSize /\ BlockSize % CacheSize = 0
  /\ InlineMax \in 0 .. CacheSize /\ MaxEdits \in Nat /\ MaxTrouble \in Nat
  /\ WriteSizes \subseteq 1 .. FileMax /\ ReadSizes \subseteq 1 .. FileMax /\ Targets \subseteq 0 .. FileMax
<1>1. CacheSize <= BlockSize
  BY FileAssumption, Constants
<1> QED
  BY <1>1, FileAssumption, Constants DEF NotABlock

LEMMA CellsDomain ==
  ASSUME NEW c, CellsAre(c)
  PROVE  DOMAIN c = Blocks /\ Known(c) = Blocks \cup {NotABlock}
         /\ \A b \in Blocks : DOMAIN c[b] = 0 .. BlockSize - 1
BY DEF CellsAre, Known

CkpointTyped ==
  FileIs(file) /\ CellsAre(cells) /\ EntryIs(entry) /\ {cache.block, pcache.block} \subseteq Blocks \cup {NotABlock}
  => Traversed \subseteq Blocks \cup {NotABlock} /\ Ckpoint \subseteq Blocks \cup {NotABlock}

LEMMA CkpointIsTyped == CkpointTyped
<1> SUFFICES ASSUME FileIs(file), CellsAre(cells), EntryIs(entry), {cache.block, pcache.block} \subseteq Blocks \cup {NotABlock}
             PROVE  Traversed \subseteq Blocks \cup {NotABlock} /\ Ckpoint \subseteq Blocks \cup {NotABlock}
  BY DEF CkpointTyped
<1>1. Known(cells) = Blocks \cup {NotABlock}
  BY CellsDomain
<1>2. \A h \in Known(cells), n \in 0 .. FileMax : lfs_ctz_traverse(cells, h, n) \subseteq Known(cells)
  BY TraverseTyped
<1>3. EntryBlocks \subseteq Known(cells)
  BY <1>1, <1>2 DEF EntryBlocks, EntryIs
<1>4. file.head \in Known(cells) /\ file.block \in Known(cells) /\ file.size \in 0 .. FileMax /\ file.pos \in 0 .. FileMax
  BY <1>1 DEF FileIs, Inline
<1>5. OpenBlocks \subseteq Known(cells)
  BY <1>2, <1>4 DEF OpenBlocks, OpenList
<1> QED
  BY <1>1, <1>3, <1>5 DEF Traversed, Ckpoint, Held

LEMMA NextCkpointIsTyped == CkpointTyped'
BY CkpointIsTyped, PTL

LEMMA CacheTyped ==
  ASSUME Control
  PROVE  /\ pcache = NoCache /\ pcache.block = NotABlock
         /\ cache.block \in Blocks \cup {NotABlock}
         /\ Traversed \subseteq Blocks \cup {NotABlock} /\ Ckpoint \subseteq Blocks \cup {NotABlock}
         /\ Taken \subseteq Blocks \cup {NotABlock}
<1>1. pcache = NoCache /\ NoCache.block = NotABlock
  BY DEF Control, CacheOK, NoCache
<1>2. cache.block \in Blocks \cup {NotABlock}
  <2>1. CASE cache = NoCache
    BY <1>1, <2>1
  <2>2. CASE cache # NoCache
    BY <1>1, <2>2 DEF Control, CacheOK, BlockOK, Dirty
  <2> QED
    BY <2>1, <2>2
<1>3. Traversed \subseteq Blocks \cup {NotABlock} /\ Ckpoint \subseteq Blocks \cup {NotABlock}
  BY <1>1, <1>2, CkpointIsTyped DEF Control, Typed, CkpointTyped
<1>4. taken \subseteq Blocks \cup {NotABlock}
  BY DEF Control, Typed
<1> QED
  BY <1>1, <1>2, <1>3, <1>4 DEF Taken

LEMMA FaultCounts ==
  ASSUME Control, Faulty
  PROVE  faults' \in 0 .. MaxTrouble
<1>1. Cardinality(bad) \in Nat
  BY Sizes, FS_Subset, FS_CardinalityType DEF Control, Typed
<1> QED
  BY <1>1, Sizes DEF Control, Typed, Faulty, Trouble

-----------------------------------------------------------------------------
\* Every error is passed on to the application.
Failing ==
  \/ RelocateNoSpace \/ ExtendNoSpace \/ ChunkFindFails \/ CopyFails
  \/ ReadFails \/ CutFails \/ SyncFails \/ CommitFails

LEMMA FailingKeeps ==
  ASSUME Control, Failing
  PROVE  Control'
<1>1. /\ taken \subseteq Blocks \cup {NotABlock} /\ bad \subseteq Blocks /\ faults \in 0 .. MaxTrouble
  BY DEF Control, Typed
<1>2. InSync \in SUBSET {"erred"} /\ {} \in SUBSET {"erred"} /\ {"erred"} \in SUBSET {"erred"} /\ {"erred"} # {}
  BY DEF InSync, Sets
<1>3. CASE RelocateNoSpace
  <2>1. pc = "relocate" /\ NoBlockLeft(RelocateSets)
    BY <1>3 DEF RelocateNoSpace
  <2>2. ~IsReading /\ stack # <<>>
    BY <2>1 DEF Control, FlagsOK, StackOK, IsStack
  <2>3. RelocateSets \in SUBSET {"erred"}
    BY <1>2 DEF RelocateSets, Sets
  <2>4. IsWriting /\ file.pos = 0 => IsErred \/ RelocateSets # {}
    BY <2>1, <2>2 DEF Control, InlineOK, Mid, For, RelocateSets, Sets
  <2> QED
    BY <1>1, <2>1, <2>2, <2>3, <2>4, FailKeeps DEF NoBlockLeft
<1>4. CASE ExtendNoSpace
  BY <1>1, <1>2, <1>4, FailKeeps DEF ExtendNoSpace, NoBlockLeft, Control, FlagsOK, Puts, Mid
<1>5. CASE ChunkFindFails
  <2>1. /\ pc \in {"chunk", "put"} /\ Fail({"erred"}) /\ UNCHANGED <<entry, pcache, taken, bad, stamp, saved>>
        /\ faults' = faults \/ Faulty
    BY <1>5 DEF ChunkFindFails, Writing
  <2> QED
    BY <1>1, <1>2, <2>1, FaultCounts, FailKeeps DEF Control, FlagsOK, Puts, Mid
<1>6. CASE CopyFails
  <2>1. /\ pc = "copy" /\ Fail(InSync) /\ UNCHANGED <<entry, pcache, taken, bad, stamp, saved>>
        /\ faults' = faults \/ Faulty
    BY <1>6 DEF CopyFails
  <2> QED
    BY <1>1, <1>2, <2>1, FaultCounts, FailKeeps DEF Control, FlagsOK, InlineOK, Mid
<1>7. CASE ReadFails
  <2>1. /\ pc = "read" /\ reg.left > 0 /\ ~IsInline /\ Fail(InSync)
        /\ UNCHANGED <<entry, pcache, taken, bad, stamp, saved>>
        /\ faults' = faults \/ Faulty
    BY <1>7 DEF ReadFails, IsInline
  <2>2. ~(IsReading /\ IsWriting)
    BY <2>1 DEF Control, ReadOK, Typed, RegIs
  <2> QED
    BY <1>1, <1>2, <2>1, <2>2, FaultCounts, FailKeeps DEF Control, FlagsOK, InlineOK, Mid
<1>8. CASE CutFails
  <2>1. /\ pc = "cut" /\ Fail(InSync) /\ UNCHANGED <<entry, pcache, taken, bad, stamp, saved>>
        /\ faults' = faults \/ Faulty
    BY <1>8 DEF CutFails
  <2> QED
    BY <1>1, <1>2, <2>1, FaultCounts, FailKeeps DEF Control, FlagsOK
<1>9. CASE SyncFails
  <2>1. /\ pc = "commit" /\ Fail({}) /\ UNCHANGED <<entry, pcache, taken, bad, stamp, saved>> /\ Faulty
    BY <1>9 DEF SyncFails
  <2> QED
    BY <1>1, <1>2, <2>1, FaultCounts, FailKeeps DEF Control, FlagsOK
<1>10. CASE CommitFails
  <2>1. /\ pc = "commit" /\ Fail(InSync) /\ UNCHANGED <<entry, pcache, taken, bad, stamp, saved>> /\ Faulty
    BY <1>10 DEF CommitFails
  <2> QED
    BY <1>1, <1>2, <2>1, FaultCounts, FailKeeps DEF Control, FlagsOK
<1> QED
  BY <1>3, <1>4, <1>5, <1>6, <1>7, <1>8, <1>9, <1>10 DEF Failing

LEMMA CrashKeeps ==
  ASSUME Control, Crash
  PROVE  Control'
BY GoneKeeps DEF Crash, Control, CacheOK, Typed

LEMMA EntrySize ==
  ASSUME EntryIs(entry), entry.type # "ctz"
  PROVE  /\ entry.type = "inline" /\ Cardinality(DOMAIN entry.data) \in 0 .. InlineMax
         /\ Cardinality(DOMAIN entry.data) <= FileMax
         /\ DOMAIN entry.data = 0 .. Cardinality(DOMAIN entry.data) - 1
<1>1. PICK n \in 0 .. InlineMax : n <= FileMax /\ DOMAIN entry.data = 0 .. n - 1
  BY DEF EntryIs
<1>2. n \in Nat /\ 0 \in Int /\ n - 1 \in Int
  BY <1>1, Sizes
<1>3. Cardinality(0 .. n - 1) = n
  <2>1. CASE n = 0
    BY <2>1, FS_EmptySet
  <2>2. CASE n # 0
    BY <1>2, <2>2, FS_Interval
  <2> QED
    BY <2>1, <2>2
<1> QED
  BY <1>1, <1>3 DEF EntryIs

LEMMA OpenKeeps ==
  ASSUME Control, Open
  PROVE  Control'
<1>1. PICK how \in Opens : file' = Opened(how)
  BY DEF Open
<1>2. /\ pc = "idle" /\ ~file.open /\ file = NoFile
      /\ UNCHANGED <<cells, entry, cache, pcache, taken, bad, faults, stamp, saved, pc, stack, reg>>
  BY DEF Open, Control, FlagsOK
<1>3. ~IsReading /\ ~IsWriting /\ cache = NoCache
  BY <1>2, NoReaders DEF Control, CacheOK, WritesBlocks, IsReading, IsWriting, Has
<1> DEFINE inline == "trunc" \in how \/ entry.type = "inline"
           size == IF "trunc" \in how THEN 0
                   ELSE IF inline THEN Cardinality(DOMAIN entry.data) ELSE entry.size
           flags == (IF how \cap {"trunc", "attrs"} # {} THEN {"dirty"} ELSE {})
                    \cup (IF inline THEN {"inline"} ELSE {}) \cup (how \cap {"append"})
           head == IF inline THEN Inline ELSE entry.head
           data == IF ~inline THEN NoBytes
                   ELSE [i \in 0 .. CacheSize - 1 |-> IF i < size THEN entry.data[i] ELSE Zero]
<1>4. /\ size \in 0 .. FileMax /\ head \in Blocks \cup {Inline}
      /\ inline => size <= InlineMax
      /\ ~inline => head \in Blocks /\ size > 0
  BY EntrySize, Sizes, Constants DEF Control, Typed, EntryIs
<1>5. file' = [NoFile EXCEPT !.open = TRUE, !.size = size, !.flags = flags, !.head = head, !.data = data]
  BY <1>1 DEF Opened
<1>6. flags \in SUBSET Flags /\ "reading" \notin flags /\ "writing" \notin flags /\ "erred" \notin flags
      /\ ("inline" \in flags <=> inline)
  BY DEF Flags
<1> HIDE DEF inline, size, flags, head, data
<1>7. /\ FileIs(file') /\ file'.open /\ file'.size = size /\ file'.flags = flags /\ file'.head = head
      /\ file'.pos = 0
  BY <1>4, <1>5, <1>6, NoFileIs DEF FileIs
<1>8. ~IsReading' /\ ~IsWriting' /\ ~IsErred' /\ (IsInline' <=> inline) /\ FileSize' = size
  BY <1>6, <1>7 DEF IsReading, IsWriting, IsErred, IsInline, Has, FileSize
<1>9. Typed' /\ StackOK'
  BY <1>2, <1>7 DEF Control, Typed, StackOK
<1>10. \A x : On(x)' <=> x = "idle"
  BY <1>2 DEF Control, StackOK, IsStack, On, Holds
<1>11. CacheOK' /\ BlockOK' /\ FlagsOK' /\ PutOK'
  BY <1>2, <1>3, <1>4, <1>7, <1>8, <1>10
     DEF Control, CacheOK, BlockOK, FlagsOK, PutOK, Puts, Mid, WritesBlocks
<1>12. OpOK'
  BY <1>2, <1>10 DEF OpOK
<1>13. ReadOK' /\ InlineOK'
  BY <1>2, <1>4, <1>7, <1>8, <1>10, Sizes DEF ReadOK, InlineOK
<1> QED
  BY <1>9, <1>11, <1>12, <1>13 DEF Control

-----------------------------------------------------------------------------
LEMMA Joined ==
  ASSUME NEW a, NEW b, NEW c
  PROVE  <<a>> \o <<b>> = <<a, b>> /\ <<a>> \o <<b, c>> = <<a, b, c>>
<1> DEFINE S == {a, b, c}
<1>1. /\ <<a>> \in Seq(S) /\ <<b>> \in Seq(S) /\ <<a, b>> \in Seq(S)
      /\ <<b, c>> \in Seq(S) /\ <<a, b, c>> \in Seq(S)
  OBVIOUS
<1>2. /\ Len(<<a>>) = 1 /\ Len(<<b>>) = 1 /\ Len(<<a, b>>) = 2 /\ Len(<<b, c>>) = 2 /\ Len(<<a, b, c>>) = 3
      /\ <<a>>[1] = a /\ <<b>>[1] = b /\ <<a, b>>[1] = a /\ <<a, b>>[2] = b
      /\ <<b, c>>[1] = b /\ <<b, c>>[2] = c
      /\ <<a, b, c>>[1] = a /\ <<a, b, c>>[2] = b /\ <<a, b, c>>[3] = c
  OBVIOUS
<1> HIDE DEF S
<1>3. PICK u : u = <<a>> \o <<b>>
  OBVIOUS
<1>4. u \in Seq(S) /\ Len(u) = 2 /\ \A i \in 1 .. 2 : u[i] = IF i <= 1 THEN <<a>>[i] ELSE <<b>>[i - 1]
  BY <1>1, <1>2, <1>3, ConcatProperties
<1>5. u = <<a, b>>
  <2>1. Len(u) = Len(<<a, b>>) /\ \A i \in 1 .. Len(u) : u[i] = <<a, b>>[i]
    BY <1>2, <1>4
  <2> QED
    BY <1>1, <1>4, <2>1, SeqEqual
<1>6. PICK v : v = <<a>> \o <<b, c>>
  OBVIOUS
<1>7. v \in Seq(S) /\ Len(v) = 3 /\ \A i \in 1 .. 3 : v[i] = IF i <= 1 THEN <<a>>[i] ELSE <<b, c>>[i - 1]
  BY <1>1, <1>2, <1>6, ConcatProperties
<1>8. v = <<a, b, c>>
  <2>1. Len(v) = Len(<<a, b, c>>) /\ \A i \in 1 .. Len(v) : v[i] = <<a, b, c>>[i]
    BY <1>2, <1>7
  <2> QED
    BY <1>1, <1>7, <2>1, SeqEqual
<1> QED
  BY <1>3, <1>5, <1>6, <1>8

\* The stacks that calls begin with.
LEMMA FirstStacks ==
  /\ \A l \in {"write", "readstart", "seek", "end"} :
       IsStack(l, <<"idle">>) /\ <<"idle">> # <<>> /\ \A x : Holds(<<"idle">>, x) <=> x = "idle"
  /\ \A r \in {"write", "readstart", "cut", "commit"} :
       /\ IsStack("flush", <<r, "idle">>) /\ <<r, "idle">> # <<>>
       /\ \A x : Holds(<<r, "idle">>, x) <=> x \in {r, "idle"}
  /\ IsStack("seek", <<"growing", "idle">>) /\ <<"growing", "idle">> # <<>>
  /\ \A x : Holds(<<"growing", "idle">>, x) <=> x \in {"growing", "idle"}
  /\ IsStack("seek", <<"readstart", "revert", "idle">>) /\ <<"readstart", "revert", "idle">> # <<>>
  /\ \A x : Holds(<<"readstart", "revert", "idle">>, x) <=> x \in {"readstart", "revert", "idle"}
<1>1. \A l \in {"write", "readstart", "seek", "end", "cut", "commit", "growing", "revert"} :
        IsStack(l, <<"idle">>) /\ <<"idle">> # <<>> /\ \A x : Holds(<<"idle">>, x) <=> x = "idle"
  BY Based DEF Labels, Returns, Below, Callers
<1>2. ASSUME NEW r \in {"write", "readstart", "cut", "commit"}
      PROVE  /\ IsStack("flush", <<r, "idle">>) /\ <<r, "idle">> # <<>>
             /\ \A x : Holds(<<r, "idle">>, x) <=> x \in {r, "idle"}
  <2>1. <<r>> \o <<"idle">> = <<r, "idle">>
    BY Joined
  <2>2. /\ IsStack(r, <<"idle">>) /\ <<"idle">> # <<>> /\ <<"idle">>[1] = "idle"
        /\ "flush" \in Labels \ {"idle", "panic"} /\ r \in Labels \ {"idle"}
        /\ r \in Returns("flush") /\ r \in Below("flush") /\ "idle" \in Returns(r)
        /\ Below(r) \subseteq Below(r) /\ Below(r) \subseteq Below("flush")
    BY <1>1 DEF Labels, Returns, Below, Callers
  <2>3. /\ IsStack("flush", <<r>> \o <<"idle">>) /\ <<r>> \o <<"idle">> # <<>>
        /\ \A x : Holds(<<r>> \o <<"idle">>, x) <=> x = r \/ Holds(<<"idle">>, x)
    BY <2>2, Pushed
  <2> QED
    BY <1>1, <2>1, <2>3
<1>3. ASSUME NEW r \in {"growing", "revert"}, NEW l \in {"seek", "readstart"}, r = "growing" <=> l = "seek"
      PROVE  /\ IsStack(l, <<r, "idle">>) /\ <<r, "idle">> # <<>>
             /\ \A x : Holds(<<r, "idle">>, x) <=> x \in {r, "idle"}
  <2>1. <<r>> \o <<"idle">> = <<r, "idle">>
    BY Joined
  <2>2. /\ IsStack(r, <<"idle">>) /\ <<"idle">> # <<>> /\ <<"idle">>[1] = "idle"
        /\ l \in Labels \ {"idle", "panic"} /\ r \in Labels \ {"idle"}
        /\ r \in Returns(l) /\ r \in Below(l) /\ "idle" \in Returns(r)
        /\ Below(r) \subseteq Below(r) /\ Below(r) \subseteq Below(l)
    BY <1>1, <1>3 DEF Labels, Returns, Below, Callers
  <2>3. /\ IsStack(l, <<r>> \o <<"idle">>) /\ <<r>> \o <<"idle">> # <<>>
        /\ \A x : Holds(<<r>> \o <<"idle">>, x) <=> x = r \/ Holds(<<"idle">>, x)
    BY <2>2, Pushed
  <2> QED
    BY <1>1, <2>1, <2>3
<1>4. /\ IsStack("readstart", <<"revert", "idle">>) /\ IsStack("seek", <<"growing", "idle">>)
      /\ \A x : Holds(<<"revert", "idle">>, x) <=> x \in {"revert", "idle"}
      /\ \A x : Holds(<<"growing", "idle">>, x) <=> x \in {"growing", "idle"}
  BY <1>3
<1>5. /\ IsStack("seek", <<"readstart", "revert", "idle">>)
      /\ \A x : Holds(<<"readstart", "revert", "idle">>, x) <=> x \in {"readstart", "revert", "idle"}
  <2>1. <<"readstart">> \o <<"revert", "idle">> = <<"readstart", "revert", "idle">>
    BY Joined
  <2>2. /\ <<"revert", "idle">> # <<>> /\ <<"revert", "idle">>[1] = "revert"
        /\ "seek" \in Labels \ {"idle", "panic"} /\ "readstart" \in Labels \ {"idle"}
        /\ "readstart" \in Returns("seek") /\ "readstart" \in Below("seek") /\ "revert" \in Returns("readstart")
        /\ Below("readstart") \subseteq Below("readstart") /\ Below("readstart") \subseteq Below("seek")
    BY DEF Labels, Returns, Below, Callers
  <2>3. /\ IsStack("seek", <<"readstart">> \o <<"revert", "idle">>)
        /\ \A x : Holds(<<"readstart">> \o <<"revert", "idle">>, x) <=> x = "readstart" \/ Holds(<<"revert", "idle">>, x)
    BY <1>4, <2>2, Pushed
  <2> QED
    BY <1>4, <2>1, <2>3
<1> QED
  BY <1>1, <1>2, <1>4, <1>5

LEMMA SizeTyped ==
  ASSUME FileIs(file)
  PROVE  FileSize \in 0 .. FileMax /\ FileSize >= file.size /\ FileSize >= 0
         /\ FileSize = (IF IsWriting /\ file.size < file.pos THEN file.pos ELSE file.size)
BY Constants DEF FileIs, FileSize, Larger, IsWriting

LEMMA BeginKeeps ==
  ASSUME Control, NEW op \in Operations, NEW arg \in 0 .. FileMax, NEW label, NEW return,
         Begin(op, arg, label, return),
         UNCHANGED <<entry, cache, pcache, bad, faults>>, stamp' \in 0 .. MaxEdits,
         label \in {"flush", "write", "readstart", "seek", "end"},
         IsStack(label, return), return # <<>>,
         \A x \in {"copy", "fill", "sought", "wrote"} : ~Holds(return, x),
         label = "write" \/ Holds(return, "write") => op = "write" /\ arg \in WriteSizes,
         label = "write" => ~IsReading,
         label = "readstart" => ~IsWriting,
         Holds(return, "commit") => ~IsErred,
         Holds(return, "revert") => op = "shrink" /\ arg \in 0 .. InlineMax /\ arg < FileSize,
         label = "seek" /\ Holds(return, "readstart") => Holds(return, "revert"),
         Holds(return, "cut") => op = "shrink" /\ arg \in InlineMax + 1 .. FileSize,
         Holds(return, "growing") => op = "grow" /\ label = "seek"
  PROVE  Control'
<1>1. /\ pc = "idle" /\ file.open /\ pc' = label /\ stack' = return
      /\ cells' = IF NotABlock \in Traversed THEN cells ELSE Only(Traversed \cup {file.block}, cells)
      /\ taken' = Ckpoint
      /\ file' = IF IsReading \/ IsWriting THEN file ELSE [file EXCEPT !.block = Inline, !.off = 0]
      /\ reg' = [NoReg EXCEPT !.op = op, !.arg = arg, !.tainted = reg.tainted,
                   !.to = IF op = "grow" THEN FileSize ELSE 0,
                   !.was = [content |-> Content, position |-> file.pos]]
  BY DEF Begin, IsReading, IsWriting
<1>2. /\ FileIs(file') /\ file'.pos = file.pos /\ file'.size = file.size /\ file'.head = file.head
      /\ file'.open = file.open /\ file'.flags = file.flags
      /\ IsReading \/ IsWriting => file' = file
  <2>1. CASE IsReading \/ IsWriting
    BY <1>1, <2>1 DEF Control, Typed
  <2>2. CASE ~(IsReading \/ IsWriting)
    <3>1. file' = [file EXCEPT !.block = Inline, !.off = 0] /\ 0 \in 0 .. BlockSize
      BY <1>1, <2>2, Constants
    <3> QED
      BY <2>2, <3>1 DEF Control, Typed, FileIs
  <2> QED
    BY <2>1, <2>2
<1>3. /\ (IsReading <=> IsReading') /\ (IsWriting <=> IsWriting') /\ (IsInline <=> IsInline')
      /\ (IsDirty <=> IsDirty') /\ (IsAppend <=> IsAppend') /\ (IsErred <=> IsErred')
  BY <1>2 DEF IsReading, IsWriting, IsInline, IsErred, IsDirty, IsAppend, Has
<1>4. FileSize' = FileSize /\ FileSize \in 0 .. FileMax
  BY <1>2, <1>3, SizeTyped DEF FileSize, IsWriting, Control, Typed
<1>5. \A x : On(x)' <=> label = x \/ Holds(return, x)
  BY <1>1 DEF On
<1>6. /\ RegIs(reg') /\ reg'.op = op /\ reg'.arg = arg /\ reg'.tainted = reg.tainted
      /\ reg'.to = IF op = "grow" THEN FileSize ELSE 0
  <2>1. PICK to \in 0 .. FileMax : to = IF op = "grow" THEN FileSize ELSE 0
    BY <1>4, Constants
  <2>2. PICK was : was = [content |-> Content, position |-> file.pos]
    OBVIOUS
  <2>3. was.position \in 0 .. FileMax /\ reg.tainted \in BOOLEAN
    BY <2>2 DEF Control, Typed, FileIs, RegIs
  <2>4. reg' = [NoReg EXCEPT !.op = op, !.arg = arg, !.tainted = reg.tainted, !.to = to, !.was = was]
    BY <1>1, <2>1, <2>2
  <2>5. RegIs(reg') /\ reg'.op = op /\ reg'.arg = arg /\ reg'.tainted = reg.tainted /\ reg'.to = to
    BY <2>3, <2>4, NoRegIs DEF RegIs
  <2> QED
    BY <2>1, <2>5
<1>7. Typed'
  BY <1>1, <1>2, <1>6, OnlyTyped, CacheTyped DEF Control, Typed
<1>8. StackOK'
  BY <1>1 DEF StackOK
<1>9. CacheOK' /\ BlockOK'
  <2>1. WritesBlocks' => WritesBlocks
    BY <1>1, <1>2, <1>3 DEF WritesBlocks
  <2>2. WritesBlocks <=> WritesBlocks'
    BY <1>1, <1>2, <1>3 DEF WritesBlocks
  <2>3. WritesBlocks => file' = file
    BY <1>2 DEF WritesBlocks
  <2> QED
    BY <1>2, <1>3, <2>2, <2>3 DEF Control, CacheOK, BlockOK
<1>10. ~Puts' /\ ~Mid'
  BY <1>1 DEF Puts, Mid
<1>11. FlagsOK'
  BY <1>1, <1>2, <1>3, <1>5, <1>6, <1>10 DEF Control, FlagsOK
<1>12. PutOK'
  BY <1>10 DEF PutOK
<1>13. OpOK'
  BY <1>1, <1>2, <1>3, <1>4, <1>5, <1>6 DEF OpOK
<1>14. ReadOK'
  BY <1>1, <1>2, <1>3, <1>4, <1>5, <1>6 DEF Control, ReadOK
<1>15. InlineOK'
  BY <1>1, <1>2, <1>3, <1>4 DEF Control, InlineOK, Mid
<1> QED
  BY <1>7, <1>8, <1>9, <1>11, <1>12, <1>13, <1>14, <1>15 DEF Control

LEMMA BeginningKeeps ==
  ASSUME Control, Write \/ Read \/ Seek \/ Truncate \/ Sync
  PROVE  Control'
<1>0. stamp \in 0 .. MaxEdits /\ MaxEdits \in Nat
  BY Sizes DEF Control, Typed
<1>1. CASE Write
  <2>1. PICK n \in WriteSizes :
          Begin("write", n, IF IsReading THEN "flush" ELSE "write",
                IF IsReading THEN <<"write", "idle">> ELSE <<"idle">>)
    BY <1>1 DEF Write, IsReading
  <2>2. /\ stamp' \in 0 .. MaxEdits /\ UNCHANGED <<entry, cache, pcache, bad, faults>>
        /\ n \in 0 .. FileMax /\ "write" \in Operations
    BY <1>0, <1>1, Sizes DEF Write, Operations
  <2>3. CASE IsReading
    BY <2>1, <2>2, <2>3, FirstStacks, BeginKeeps
  <2>4. CASE ~IsReading
    BY <2>1, <2>2, <2>4, FirstStacks, BeginKeeps
  <2> QED
    BY <2>3, <2>4
<1>2. CASE Read
  <2>1. PICK n \in ReadSizes :
          Begin("read", n, IF IsWriting THEN "flush" ELSE "readstart",
                IF IsWriting THEN <<"readstart", "idle">> ELSE <<"idle">>)
    BY <1>2 DEF Read, IsWriting
  <2>2. /\ stamp' \in 0 .. MaxEdits /\ UNCHANGED <<entry, cache, pcache, bad, faults>>
        /\ n \in 0 .. FileMax /\ "read" \in Operations
    BY <1>0, <1>2, Sizes DEF Read, Operations
  <2>3. CASE IsWriting
    BY <2>1, <2>2, <2>3, FirstStacks, BeginKeeps
  <2>4. CASE ~IsWriting
    BY <2>1, <2>2, <2>4, FirstStacks, BeginKeeps
  <2> QED
    BY <2>3, <2>4
<1>3. CASE Seek
  <2>1. PICK p \in Targets : Begin("seek", p, "seek", <<"idle">>)
    BY <1>3 DEF Seek
  <2>2. /\ stamp' \in 0 .. MaxEdits /\ UNCHANGED <<entry, cache, pcache, bad, faults>>
        /\ p \in 0 .. FileMax /\ "seek" \in Operations
    BY <1>0, <1>3, Sizes DEF Seek, Operations
  <2> QED
    BY <2>1, <2>2, FirstStacks, BeginKeeps
<1>4. CASE Truncate
  <2>1. PICK n \in Targets :
          /\ n # FileSize
          /\ IF n >= FileSize THEN Begin("grow", n, "seek", <<"growing", "idle">>)
             ELSE IF n <= InlineMax
             THEN Begin("shrink", n, "seek", <<"readstart", "revert", "idle">>)
             ELSE Begin("shrink", n, "flush", <<"cut", "idle">>)
    BY <1>4 DEF Truncate
  <2>2. /\ stamp' \in 0 .. MaxEdits /\ UNCHANGED <<entry, cache, pcache, bad, faults>>
        /\ n \in 0 .. FileMax /\ "grow" \in Operations /\ "shrink" \in Operations
    BY <1>0, <1>4, Sizes DEF Truncate, Operations
  <2>3. CASE n >= FileSize
    BY <2>1, <2>2, <2>3, FirstStacks, BeginKeeps
  <2>4. CASE ~(n >= FileSize) /\ n <= InlineMax
    <3>1. n \in 0 .. InlineMax /\ n < FileSize
      BY <2>2, <2>4, Sizes, SizeTyped DEF Control, Typed
    <3> QED
      BY <2>1, <2>2, <2>4, <3>1, FirstStacks, BeginKeeps
  <2>5. CASE ~(n >= FileSize) /\ ~(n <= InlineMax)
    <3>1. n \in InlineMax + 1 .. FileSize
      BY <2>2, <2>5, Sizes, SizeTyped DEF Control, Typed
    <3> QED
      BY <2>1, <2>2, <2>5, <3>1, FirstStacks, BeginKeeps
  <2> QED
    BY <2>3, <2>4, <2>5
<1>5. CASE Sync
  <2>1. PICK op \in {"sync", "close"} :
          Begin(op, 0, IF IsErred THEN "end" ELSE "flush",
                IF IsErred THEN <<"idle">> ELSE <<"commit", "idle">>)
    BY <1>5 DEF Sync, IsErred
  <2>2. /\ stamp' \in 0 .. MaxEdits /\ UNCHANGED <<entry, cache, pcache, bad, faults>>
        /\ 0 \in 0 .. FileMax /\ op \in Operations
    BY <1>0, <1>5, Constants DEF Sync, Operations
  <2>3. CASE IsErred
    BY <2>1, <2>2, <2>3, FirstStacks, BeginKeeps
  <2>4. CASE ~IsErred
    BY <2>1, <2>2, <2>4, FirstStacks, BeginKeeps
  <2> QED
    BY <2>3, <2>4
<1> QED
  BY <1>1, <1>2, <1>3, <1>4, <1>5

LEMMA OfferIs ==
  ASSUME HasOffer
  PROVE  Offer \in Blocks \ Taken /\ Offer \in Blocks /\ NotABlock \notin Taken
<1>1. Blocks \ Taken # {} /\ Blocks \ Taken \in SUBSET Nat /\ NotABlock \notin Taken
  BY Sizes DEF HasOffer
<1>2. \E b \in Blocks \ Taken : \A c \in Blocks \ Taken : b <= c
  BY <1>1, Least
<1> QED
  BY <1>1, <1>2 DEF Offer

LEMMA PutTyped ==
  ASSUME NEW c, CellsAre(c), NEW b \in Blocks, NEW e, DOMAIN e = 0 .. BlockSize - 1,
         e = [i \in DOMAIN e |-> e[i]]
  PROVE  CellsAre([c EXCEPT ![b] = e])
<1>1. PICK S : c \in [Blocks -> [0 .. BlockSize - 1 -> S]]
  BY DEF CellsAre
<1> DEFINE T == S \cup {e[i] : i \in 0 .. BlockSize - 1}
<1>2. e \in [0 .. BlockSize - 1 -> T]
  OBVIOUS
<1>3. \A a \in Blocks : c[a] \in [0 .. BlockSize - 1 -> T]
  BY <1>1
<1> HIDE DEF T
<1>4. [c EXCEPT ![b] = e] \in [Blocks -> [0 .. BlockSize - 1 -> T]]
  BY <1>1, <1>2, <1>3
<1> QED
  BY <1>4 DEF CellsAre

LEMMA FreshTyped ==
  ASSUME NEW c, CellsAre(c), NEW b \in Blocks, NEW n, NEW data
  PROVE  CellsAre([c EXCEPT ![b] = Fresh(n, data)])
<1>1. DOMAIN Fresh(n, data) = 0 .. BlockSize - 1 /\ Fresh(n, data) = [i \in DOMAIN Fresh(n, data) |-> Fresh(n, data)[i]]
  BY DEF Fresh
<1> QED
  BY <1>1, PutTyped

LEMMA NoneDirty ==
  /\ \A b : Dirty(b, 0) = NoCache /\ Dirty(b, BlockSize) = NoCache
BY Sizes, Constants DEF Dirty

-----------------------------------------------------------------------------
LEMMA OfferIsBadKeeps ==
  ASSUME Control, RelocateIsBad \/ ExtendIsBad
  PROVE  Control'
<1>1. /\ HasOffer /\ bad' = bad \cup {Offer} /\ taken' = taken \cup {Offer}
      /\ UNCHANGED <<entry, file, faults, stamp, saved, pc, stack, reg, cells>>
      /\ pcache' = NoCache
      /\ cache' = cache \/ cache' = NoCache
  BY DEF RelocateIsBad, ExtendIsBad, OfferIsBad, Control, CacheOK
<1>2. Offer \in Blocks
  BY <1>1, OfferIs
<1>3. Typed'
  BY <1>1, <1>2 DEF Control, Typed
<1>4. CacheOK'
  BY <1>1 DEF Control, CacheOK, WritesBlocks, IsWriting, IsReading, IsInline, Has
<1>5. /\ \A x : (On(x)' <=> On(x)) /\ (For(x)' <=> For(x))
      /\ (IsReading <=> IsReading') /\ (IsWriting <=> IsWriting') /\ (IsInline <=> IsInline')
      /\ (IsDirty <=> IsDirty') /\ (IsAppend <=> IsAppend') /\ (IsErred <=> IsErred')
      /\ FileSize' = FileSize
  BY <1>1 DEF On, For, Holds, IsReading, IsWriting, IsInline, IsErred, IsDirty, IsAppend, Has, FileSize
<1>6. BlockOK' /\ StackOK' /\ FlagsOK' /\ PutOK' /\ OpOK' /\ ReadOK' /\ InlineOK'
  BY <1>1, <1>5 DEF Control, BlockOK, WritesBlocks, StackOK, FlagsOK, PutOK, OpOK, ReadOK, InlineOK, Mid, Puts
<1> QED
  BY <1>3, <1>4, <1>6 DEF Control

LEMMA RelocateKeeps ==
  ASSUME Control, Relocate
  PROVE  Control'
<1>1. /\ pc = "relocate" /\ HasOffer
      /\ cells' = [cells EXCEPT ![Offer] = Fresh(file.off, Source)]
      /\ cache' = Dirty(Offer, file.off) /\ pcache' = NoCache
      /\ file' = [file EXCEPT !.block = Offer, !.flags = @ \cup {"writing"}]
      /\ taken' = taken \cup {Offer}
      /\ pc' = Head(stack) /\ stack' = Tail(stack)
      /\ UNCHANGED <<entry, bad, faults, stamp, saved, reg>>
  BY DEF Relocate, Room, Control, CacheOK, Return
<1>2. Offer \in Blocks
  BY <1>1, OfferIs
<1>3. /\ (IsReading <=> IsReading') /\ IsWriting' /\ (IsInline <=> IsInline')
      /\ (IsErred <=> IsErred') /\ (IsDirty <=> IsDirty') /\ (IsAppend <=> IsAppend')
      /\ FileIs(file')
      /\ file'.pos = file.pos /\ file'.size = file.size /\ file'.block = Offer /\ file'.off = file.off
      /\ file'.head = file.head /\ file'.open = file.open
  BY <1>1, <1>2 DEF Control, Typed, FileIs, IsReading, IsWriting, IsInline, IsErred, IsDirty, IsAppend, Has, Flags
<1>4. /\ stack # <<>> /\ IsStack(pc', stack') /\ pc' \in {"outlined", "chunk", "copy"}
      /\ \A x : Holds(stack, x) <=> pc' = x \/ Holds(stack', x)
  <2>1. IsStack("relocate", stack) /\ stack # <<>>
    BY <1>1 DEF Control, StackOK, IsStack
  <2>2. /\ IsStack(Head(stack), Tail(stack)) /\ Head(stack) \in Returns("relocate")
        /\ \A x : Holds(stack, x) <=> Head(stack) = x \/ Holds(Tail(stack), x)
    BY <2>1, Popped
  <2> QED
    BY <1>1, <2>1, <2>2 DEF Returns
<1>5. \A x : (On(x)' <=> Holds(stack, x)) /\ (x # "relocate" => (On(x) <=> Holds(stack, x)))
  BY <1>1, <1>4 DEF On
<1>6. /\ ~IsReading /\ (IsInline <=> pc' = "outlined") /\ (~IsInline => IsWriting) /\ file.open
  BY <1>1, <1>4 DEF Control, FlagsOK, For
<1>7. Mid' <=> pc' # "copy"
  BY <1>4 DEF Mid
<1>8. (Puts' <=> Mid') /\ (Puts <=> Puts') /\ (Mid <=> Mid')
  BY <1>1, <1>4, <1>7 DEF Puts, Mid, For
<1>9. FileSize' = FileSize
  <2>1. ~IsWriting => file.pos <= file.size
    BY <1>4, <1>6, <1>7, <1>8 DEF Control, PutOK
  <2> QED
    BY <1>3, <2>1 DEF FileSize, IsWriting, Larger, Control, Typed, FileIs
<1>10. Typed'
  BY <1>1, <1>2, <1>3, FreshTyped DEF Control, Typed
<1>11. StackOK'
  BY <1>4 DEF StackOK
<1>12. WritesBlocks' /\ CacheOK' /\ BlockOK'
  <2>1. WritesBlocks'
    BY <1>3, <1>6 DEF WritesBlocks
  <2>2. IsAppend => file.pos >= file.size
    BY <1>1, <1>4, <1>6, <1>7, <1>8 DEF Control, PutOK, BlockOK
  <2>3. file.pos = 0 => file.off = 0
    <3>1. IsInline => Puts
      BY <1>4, <1>6, <1>7, <1>8
    <3> QED
      BY <1>1, <1>6, <3>1 DEF Control, PutOK, BlockOK, WritesBlocks
  <2> QED
    BY <1>1, <1>2, <1>3, <1>6, <2>1, <2>2, <2>3 DEF CacheOK, BlockOK
<1>13. FlagsOK'
  BY <1>1, <1>3, <1>4, <1>5, <1>6, <1>8 DEF Control, FlagsOK
<1>14. PutOK'
  BY <1>1, <1>3, <1>4, <1>5, <1>6, <1>8 DEF Control, PutOK
<1>15. OpOK'
  BY <1>1, <1>3, <1>4, <1>5, <1>9 DEF Control, OpOK
<1>16. ReadOK' /\ InlineOK'
  <2>1. IsInline => file.off = file.pos /\ file.pos <= CacheSize
    BY <1>1, <1>4, <1>6, <1>7, <1>8 DEF Control, PutOK
  <2>2. ReadOK'
    BY <1>3, <1>4, <1>6 DEF ReadOK
  <2>3. file.pos = 0 /\ ~IsErred => Mid
    BY <1>4, <1>6, <1>7, <1>8 DEF Control, InlineOK
  <2>4. InlineOK'
    BY <1>1, <1>3, <1>4, <1>6, <1>8, <1>9, <2>1, <2>3 DEF Control, InlineOK
  <2> QED
    BY <2>2, <2>4
<1> QED
  BY <1>10, <1>11, <1>12, <1>13, <1>14, <1>15, <1>16 DEF Control

LEMMA PrefixTyped ==
  ASSUME FileIs(file)
  PROVE  /\ Prefix \in 0 .. BlockSize - 1
         /\ file.pos = 0 => Prefix = 0
         /\ file.pos > 0 => file.pos - 1 \in 0 .. FileMax - 1 /\ LastOff \in 1 .. BlockSize
         /\ file.pos > 0 /\ LastOff = BlockSize =>
              /\ Index[file.pos].i = NextIndex /\ Index[file.pos].off = PtrSize * Skips(NextIndex)
              /\ NextIndex \in 1 .. Most
         /\ file.pos > 0 /\ LastOff # BlockSize =>
              Index[file.pos].i = Last(file.pos) /\ Index[file.pos].off = LastOff
<1>1. file.pos \in 0 .. FileMax
  BY DEF FileIs
<1>2. CASE file.pos = 0
  BY <1>2, Constants DEF Prefix
<1>3. CASE file.pos # 0
  <2>1. PICK q : q = file.pos - 1
    OBVIOUS
  <2>2. q \in 0 .. FileMax - 1 /\ q \in 0 .. FileMax /\ q + 1 = file.pos /\ file.pos \in 1 .. FileMax
    BY <1>1, <1>3, <2>1, Constants
  <2>3. PICK o, k : o = Index[q].off /\ k = Index[q].i
    OBVIOUS
  <2>4. o \in 0 .. BlockSize - 1 /\ k \in 0 .. Most /\ k \in Nat
    <3>1. PICK m : m = PtrSize * Skips(k)
      OBVIOUS
    <3>2. k \in 0 .. Most /\ o \in m .. BlockSize - 1
      BY <2>2, <2>3, <3>1, PlaceTyped
    <3>3. m \in 0 .. BlockSize - 1
      BY <3>1, <3>2, SkipsTyped
    <3> QED
      BY <3>2, <3>3, Constants
  <2>5. LastOff = o + 1 /\ NextIndex = k + 1 /\ Last(file.pos) = k
    BY <2>1, <2>3 DEF LastOff, NextIndex, Last
  <2>6. \/ o < BlockSize - 1 /\ Index[file.pos].i = k /\ Index[file.pos].off = o + 1
        \/ ~(o < BlockSize - 1) /\ Index[file.pos].i = k + 1 /\ Index[file.pos].off = PtrSize * Skips(k + 1)
    BY <2>2, <2>3, NextPlaceIs
  <2>7. CASE o < BlockSize - 1
    BY <1>3, <2>1, <2>2, <2>4, <2>5, <2>6, <2>7, Constants DEF Prefix
  <2>8. CASE ~(o < BlockSize - 1)
    <3>1. o + 1 = BlockSize
      BY <2>4, <2>8, Constants
    <3>2. Index[file.pos].i \in 0 .. Most
      BY <2>2, BlocksAreFew
    <3>3. k + 1 \in 0 .. Most /\ k + 1 \in 1 .. Most
      BY <2>4, <2>6, <2>8, <3>2
    <3>4. PtrSize * Skips(k + 1) \in 0 .. BlockSize - 1
      BY <3>3, SkipsTyped
    <3>5. Prefix = PtrSize * Skips(k + 1)
      BY <1>3, <2>5, <3>1 DEF Prefix
    <3> QED
      BY <1>3, <2>1, <2>2, <2>4, <2>5, <2>6, <2>8, <3>1, <3>3, <3>4, <3>5, Constants
  <2> QED
    BY <2>7, <2>8
<1> QED
  BY <1>2, <1>3

LEMMA ExtendKeeps ==
  ASSUME Control, Extend
  PROVE  Control'
<1>0. /\ pc = "extend" /\ HasOffer /\ ~IsReading /\ ~IsInline /\ file.open
      /\ IsWriting => file.off = BlockSize
  BY DEF Extend, Control, FlagsOK, PutOK, Puts, Mid
<1>1. cache = NoCache
  BY <1>0, NoneDirty DEF Control, CacheOK, WritesBlocks
<1>2. Prefix \in 0 .. BlockSize - 1
  BY PrefixTyped DEF Control, Typed
<1>3. /\ \E n, data : cells' = [cells EXCEPT ![Offer] = Fresh(n, data)]
      /\ cache' = IF Prefix > 0 THEN Dirty(Offer, Prefix) ELSE cache
      /\ file' = [file EXCEPT !.block = Offer, !.off = Prefix, !.flags = @ \cup {"writing"}]
      /\ taken' = taken \cup {Offer}
      /\ pc' = "chunk" /\ stack' = stack
      /\ UNCHANGED <<entry, pcache, bad, faults, stamp, saved, reg>>
  BY <1>1 DEF Extend, Room, Goto
<1>4. cache' = Dirty(Offer, Prefix)
  BY <1>1, <1>2, <1>3, NoneDirty
<1>5. Offer \in Blocks
  BY <1>0, OfferIs
<1>6. /\ (IsReading <=> IsReading') /\ IsWriting' /\ (IsInline <=> IsInline')
      /\ (IsErred <=> IsErred') /\ (IsDirty <=> IsDirty') /\ (IsAppend <=> IsAppend')
      /\ FileIs(file')
      /\ file'.pos = file.pos /\ file'.size = file.size /\ file'.block = Offer /\ file'.off = Prefix
      /\ file'.head = file.head /\ file'.open = file.open
  <2>1. Prefix \in 0 .. BlockSize
    BY <1>2, Constants
  <2> QED
    BY <1>3, <1>5, <2>1 DEF Control, Typed, FileIs, IsReading, IsWriting, IsInline, IsErred, IsDirty, IsAppend, Has, Flags
<1>7. \A x : Holds(stack, x) => (On(x) /\ On(x)') 
  BY <1>3 DEF On
<1>8. \A x : (x \notin {"extend", "chunk"} => (On(x) <=> On(x)'))
  BY <1>0, <1>3 DEF On
<1>9. Puts /\ Mid /\ Puts' /\ Mid'
  BY <1>0, <1>3 DEF Puts, Mid
<1>10. FileSize' = FileSize
  <2>1. ~IsWriting => file.pos <= file.size
    BY <1>9 DEF Control, PutOK
  <2> QED
    BY <1>6, <2>1 DEF FileSize, IsWriting, Larger, Control, Typed, FileIs
<1>11. Typed'
  <2>1. CellsAre(cells')
    <3>1. PICK n, data : cells' = [cells EXCEPT ![Offer] = Fresh(n, data)]
      BY <1>3
    <3> QED
      BY <1>5, <3>1, FreshTyped DEF Control, Typed
  <2> QED
    BY <1>3, <1>5, <1>6, <2>1 DEF Control, Typed
<1>12. StackOK'
  BY <1>0, <1>3 DEF Control, StackOK, IsStack, Returns, Below, Labels
<1>13. CacheOK' /\ BlockOK'
  <2>1. file.pos = 0 => Prefix = 0
    BY DEF Prefix
  <2> HIDE DEF Prefix
  <2> QED
    BY <2>1, <1>0, <1>3, <1>4, <1>5, <1>6, <1>9 DEF Control, CacheOK, BlockOK, WritesBlocks, PutOK
<1>14. FlagsOK'
  BY <1>0, <1>3, <1>6, <1>8 DEF Control, FlagsOK
<1>15. PutOK'
  BY <1>0, <1>3, <1>6, <1>8, <1>9 DEF Control, PutOK
<1>16. OpOK'
  BY <1>0, <1>3, <1>6, <1>8, <1>10 DEF Control, OpOK
<1>17. ReadOK' /\ InlineOK'
  BY <1>0, <1>3, <1>6, <1>9, <1>10 DEF Control, ReadOK, InlineOK
<1> QED
  BY <1>11, <1>12, <1>13, <1>14, <1>15, <1>16, <1>17 DEF Control

\* A call that pushes one return address.
LEMMA CalledFrom ==
  ASSUME Control, stack # <<>>, NEW l \in Labels \ {"idle", "panic"}, NEW r \in Labels \ {"idle"},
         CallThen(l, r), r \in Returns(l), r \in Below(l), Returns(pc) \subseteq Returns(r),
         Below(pc) \subseteq Below(r), Below(r) \subseteq Below(l)
  PROVE  /\ StackOK' /\ pc' = l /\ stack' # <<>> /\ Head(stack') = r
         /\ \A x : On(x)' <=> x \in {l, r} \/ Holds(stack, x)
<1>1. pc' = l /\ stack' = <<r>> \o stack
  BY DEF CallThen
<1>2. IsStack(pc, stack) /\ stack[1] \in Returns(r)
  BY DEF Control, StackOK, IsStack
<1>3. /\ IsStack(l, <<r>> \o stack) /\ <<r>> \o stack # <<>> /\ Head(<<r>> \o stack) = r
      /\ \A x : Holds(<<r>> \o stack, x) <=> x = r \/ Holds(stack, x)
  BY <1>2, Pushed
<1> QED
  BY <1>1, <1>3 DEF StackOK, On

LEMMA ReturnedTo ==
  ASSUME Control, stack # <<>>, Return
  PROVE  /\ StackOK' /\ pc' = Head(stack) /\ pc' \in Returns(pc) /\ pc' \in Below(pc)
         /\ \A x : On(x)' <=> Holds(stack, x)
<1>1. pc' = Head(stack) /\ stack' = Tail(stack)
  BY DEF Return
<1>2. /\ IsStack(Head(stack), Tail(stack)) /\ Head(stack) \in Returns(pc) /\ Head(stack) \in Below(pc)
      /\ \A x : Holds(stack, x) <=> Head(stack) = x \/ Holds(Tail(stack), x)
  BY Popped DEF Control, StackOK
<1> QED
  BY <1>1, <1>2 DEF StackOK, On

LEMMA WentTo ==
  ASSUME Control, stack # <<>>, NEW l \in Labels \ {"idle", "panic"}, Goto(l),
         Returns(pc) \subseteq Returns(l), Below(pc) \subseteq Below(l)
  PROVE  StackOK' /\ pc' = l /\ stack' = stack /\ \A x : On(x)' <=> x = l \/ Holds(stack, x)
BY DEF Control, StackOK, IsStack, Goto, On

LEMMA InACall ==
  ASSUME Control, pc # "idle"
  PROVE  stack # <<>> /\ file.open /\ \A x : x # pc => (On(x) <=> Holds(stack, x))
BY DEF Control, StackOK, IsStack, FlagsOK, On

-----------------------------------------------------------------------------
LEMMA PutInline ==
  ASSUME Control, Puts, IsInline
  PROVE  file.pos <= CacheSize /\ file.size <= CacheSize /\ file.pos \in 0 .. BlockSize /\ file.pos <= FileSize
<1>1. FileSize <= CacheSize /\ file.pos \in Nat /\ file.size \in Nat
  BY DEF Control, InlineOK, Typed, FileIs
<1>2. ~IsWriting => file.pos <= file.size
  BY DEF Control, PutOK
<1>3. file.pos <= FileSize /\ file.size <= FileSize
  BY <1>1, <1>2 DEF FileSize, Larger, IsWriting
<1> QED
  BY <1>1, <1>3, Sizes, Constants, SizeTyped DEF Control, Typed

LEMMA OutlineKeeps ==
  ASSUME Control, Outline
  PROVE  Control'
<1>1. /\ pc = "put" /\ IsInline /\ file' = [file EXCEPT !.off = file.pos] /\ taken' = Ckpoint
      /\ CallThen("relocate", "outlined")
      /\ UNCHANGED <<cells, entry, cache, pcache, bad, faults, stamp, saved, reg>>
  BY DEF Outline, Outlines, IsInline
<1>2. stack # <<>> /\ file.open /\ \A x : x # pc => (On(x) <=> Holds(stack, x))
  BY <1>1, InACall
<1>3. Puts /\ ~IsReading
  BY <1>1 DEF Puts, Control, FlagsOK
<1>4. file.pos <= CacheSize /\ file.pos \in 0 .. BlockSize
  BY <1>1, <1>3, PutInline
<1>5. /\ FileIs(file') /\ file'.pos = file.pos /\ file'.size = file.size /\ file'.block = file.block
      /\ file'.off = file.pos /\ file'.head = file.head /\ file'.open = file.open /\ file'.flags = file.flags
  BY <1>1, <1>4 DEF Control, Typed, FileIs
<1>6. /\ (IsReading <=> IsReading') /\ (IsWriting <=> IsWriting') /\ (IsInline <=> IsInline')
      /\ (IsDirty <=> IsDirty') /\ (IsAppend <=> IsAppend') /\ (IsErred <=> IsErred')
      /\ FileSize' = FileSize
  BY <1>5 DEF IsReading, IsWriting, IsInline, IsErred, IsDirty, IsAppend, Has, FileSize
<1>7. /\ StackOK' /\ pc' = "relocate" /\ stack' # <<>> /\ Head(stack') = "outlined"
      /\ \A x : On(x)' <=> x \in {"relocate", "outlined"} \/ Holds(stack, x)
  BY <1>1, <1>2, CalledFrom DEF Labels, Returns, Below, Callers
<1>8. Typed'
  BY <1>1, <1>5, CacheTyped DEF Control, Typed
<1>9. CacheOK' /\ BlockOK'
  BY <1>1, <1>5, <1>6, <1>7 DEF Control, CacheOK, BlockOK, WritesBlocks
<1>10. FlagsOK'
  BY <1>1, <1>2, <1>3, <1>5, <1>6, <1>7 DEF Control, FlagsOK, For
<1>11. PutOK'
  BY <1>1, <1>2, <1>3, <1>4, <1>5, <1>6, <1>7 DEF Control, PutOK
<1>12. OpOK'
  BY <1>1, <1>2, <1>5, <1>6, <1>7 DEF Control, OpOK
<1>13. ReadOK' /\ InlineOK'
  BY <1>1, <1>3, <1>5, <1>6, <1>7 DEF Control, ReadOK, InlineOK, Mid, For
<1> QED
  BY <1>7, <1>8, <1>9, <1>10, <1>11, <1>12, <1>13 DEF Control

LEMMA OutlinedKeeps ==
  ASSUME Control, Outlined
  PROVE  Control'
<1>1. /\ pc = "outlined" /\ file' = [file EXCEPT !.flags = @ \ {"inline"}, !.data = NoBytes]
      /\ Goto("chunk")
      /\ UNCHANGED <<cells, entry, cache, pcache, taken, bad, faults, stamp, saved, reg>>
  BY DEF Outlined
<1>2. stack # <<>> /\ file.open /\ \A x : x # pc => (On(x) <=> Holds(stack, x))
  BY <1>1, InACall
<1>3. Puts /\ Mid /\ ~IsReading /\ IsInline /\ IsWriting
  BY <1>1 DEF Puts, Mid, Control, FlagsOK
<1>4. /\ FileIs(file') /\ file'.pos = file.pos /\ file'.size = file.size /\ file'.block = file.block
      /\ file'.off = file.off /\ file'.head = file.head /\ file'.open = file.open
      /\ (IsReading <=> IsReading') /\ (IsWriting <=> IsWriting') /\ ~IsInline'
      /\ (IsDirty <=> IsDirty') /\ (IsAppend <=> IsAppend') /\ (IsErred <=> IsErred')
  BY <1>1 DEF Control, Typed, FileIs, IsReading, IsWriting, IsInline, IsErred, IsDirty, IsAppend, Has
<1>5. FileSize' = FileSize
  BY <1>4 DEF FileSize, IsWriting
<1>6. StackOK' /\ pc' = "chunk" /\ stack' = stack /\ \A x : On(x)' <=> x = "chunk" \/ Holds(stack, x)
  BY <1>1, <1>2, WentTo DEF Labels, Returns, Below, Callers
<1>7. Typed'
  BY <1>1, <1>4 DEF Control, Typed
<1>8. CacheOK' /\ BlockOK'
  BY <1>1, <1>2, <1>3, <1>4, <1>6 DEF Control, CacheOK, BlockOK, WritesBlocks
<1>9. FlagsOK'
  BY <1>1, <1>2, <1>3, <1>4, <1>6 DEF Control, FlagsOK
<1>10. PutOK'
  BY <1>1, <1>2, <1>3, <1>4, <1>6 DEF Control, PutOK
<1>11. OpOK'
  BY <1>1, <1>2, <1>4, <1>5, <1>6 DEF Control, OpOK
<1>12. ReadOK' /\ InlineOK'
  BY <1>1, <1>3, <1>4, <1>5, <1>6 DEF Control, ReadOK, InlineOK, Mid
<1> QED
  BY <1>6, <1>7, <1>8, <1>9, <1>10, <1>11, <1>12 DEF Control

LEMMA WritingIs ==
  ASSUME Control, Writing
  PROVE  /\ pc \in {"put", "chunk"} /\ Puts /\ ~IsReading /\ stack # <<>> /\ file.open
         /\ \A x : x # pc => (On(x) <=> Holds(stack, x))
         /\ IsInline => file.pos + Len(reg.todo) <= InlineMax /\ file.size <= InlineMax
         /\ Len(reg.todo) \in Nat /\ Len(reg.todo) > 0
<1>1. pc \in {"put", "chunk"} /\ Puts /\ (pc = "chunk" \/ ~Outlines)
  BY DEF Writing, Puts, Mid
<1>2. ~IsReading /\ stack # <<>> /\ file.open /\ \A x : x # pc => (On(x) <=> Holds(stack, x))
  BY <1>1, InACall DEF Control, FlagsOK
<1>3. Len(reg.todo) \in Nat /\ Len(reg.todo) > 0
  <2>1. PICK S : reg.todo \in Seq(S)
    BY DEF Control, Typed, RegIs, ToDo, DataSeq
  <2> QED
    BY <1>1, <2>1 DEF Control, PutOK
<1>4. IsInline => file.pos + Len(reg.todo) <= InlineMax /\ file.size <= InlineMax
  <2>1. CASE pc = "chunk"
    BY <1>1, <2>1 DEF Control, PutOK
  <2>2. CASE pc # "chunk"
    BY <1>1, <1>3, <2>2, Sizes DEF Outlines, Larger, IsInline, Control, Typed, FileIs
  <2> QED
    BY <2>1, <2>2
<1> QED
  BY <1>1, <1>2, <1>3, <1>4

LEMMA ChunkInlineKeeps ==
  ASSUME Control, ChunkInline
  PROVE  Control'
<1>1. /\ Writing /\ IsInline
      /\ file' = [file EXCEPT !.block = Inline, !.off = file.pos, !.flags = @ \cup {"writing"}]
      /\ Goto("chunk")
      /\ UNCHANGED <<cells, entry, cache, pcache, taken, bad, faults, stamp, saved, reg>>
  BY DEF ChunkInline, IsInline
<1>2. /\ pc \in {"put", "chunk"} /\ Puts /\ ~IsReading /\ stack # <<>> /\ file.open
      /\ \A x : x # pc => (On(x) <=> Holds(stack, x))
      /\ file.pos + Len(reg.todo) <= InlineMax /\ file.size <= InlineMax
  BY <1>1, WritingIs
<1>3. file.pos <= CacheSize /\ file.pos \in 0 .. BlockSize
  BY <1>1, <1>2, PutInline
<1>4. /\ FileIs(file') /\ file'.pos = file.pos /\ file'.size = file.size /\ file'.block = Inline
      /\ file'.off = file.pos /\ file'.head = file.head /\ file'.open = file.open
      /\ (IsReading <=> IsReading') /\ IsWriting' /\ (IsInline <=> IsInline')
      /\ (IsDirty <=> IsDirty') /\ (IsAppend <=> IsAppend') /\ (IsErred <=> IsErred')
  BY <1>1, <1>3 DEF Control, Typed, FileIs, IsReading, IsWriting, IsInline, IsErred, IsDirty, IsAppend, Has, Flags
<1>5. FileSize' = FileSize
  <2>1. ~IsWriting => file.pos <= file.size
    BY <1>2 DEF Control, PutOK
  <2> QED
    BY <1>4, <2>1 DEF FileSize, IsWriting, Larger, Control, Typed, FileIs
<1>6. StackOK' /\ pc' = "chunk" /\ stack' = stack /\ \A x : On(x)' <=> x = "chunk" \/ Holds(stack, x)
  BY <1>1, <1>2, WentTo DEF Labels, Returns, Below, Callers
<1>7. Typed'
  BY <1>1, <1>4 DEF Control, Typed
<1>8. CacheOK' /\ BlockOK'
  BY <1>1, <1>2, <1>4, <1>6 DEF Control, CacheOK, BlockOK, WritesBlocks, PutOK
<1>9. FlagsOK'
  BY <1>1, <1>2, <1>4, <1>6 DEF Control, FlagsOK
<1>10. PutOK'
  BY <1>1, <1>2, <1>4, <1>6 DEF Control, PutOK
<1>11. OpOK'
  BY <1>1, <1>2, <1>4, <1>5, <1>6 DEF Control, OpOK
<1>12. ReadOK' /\ InlineOK'
  BY <1>1, <1>2, <1>4, <1>5, <1>6 DEF Control, ReadOK, InlineOK, Mid
<1> QED
  BY <1>6, <1>7, <1>8, <1>9, <1>10, <1>11, <1>12 DEF Control

LEMMA ChunkExtendsKeeps ==
  ASSUME Control, ChunkExtends
  PROVE  Control'
<1>1. /\ Writing /\ NeedsBlock /\ ~IsInline
      /\ IF Finds THEN /\ file' = [file EXCEPT !.block = Before]
                       /\ cells' = Forget(cache) /\ cache' = NoCache
                  ELSE UNCHANGED <<file, cells, cache>>
      /\ taken' = Ckpoint /\ Goto("extend")
      /\ UNCHANGED <<entry, pcache, bad, faults, stamp, saved, reg>>
  BY DEF ChunkExtends, IsInline
<1>2. /\ pc \in {"put", "chunk"} /\ Puts /\ ~IsReading /\ stack # <<>> /\ file.open
      /\ \A x : x # pc => (On(x) <=> Holds(stack, x))
  BY <1>1, WritingIs
<1>3. Finds => cache = NoCache /\ ~IsWriting
  BY DEF Control, CacheOK, WritesBlocks, Finds, IsWriting
<1>4. cells' = cells /\ cache' = cache
  BY <1>1, <1>3 DEF Forget, NoCache
<1>5. Finds => Before \in Blocks \cup {NotABlock}
  <2>1. Known(cells) = Blocks \cup {NotABlock} /\ file.head \in Known(cells)
    BY CellsDomain DEF Control, Typed, FileIs, Inline
  <2>2. Finds => file.pos - 1 \in 0 .. FileMax
    BY Constants DEF Finds, Control, Typed, FileIs
  <2> QED
    BY <2>1, <2>2, FindTyped DEF Before, Control, Typed, FileIs
<1>6. /\ FileIs(file') /\ file'.pos = file.pos /\ file'.size = file.size
      /\ IsWriting => file'.block = file.block
      /\ file'.off = file.off /\ file'.head = file.head /\ file'.open = file.open /\ file'.flags = file.flags
  BY <1>1, <1>3, <1>5 DEF Control, Typed, FileIs, Inline
<1>7. /\ (IsReading <=> IsReading') /\ (IsWriting <=> IsWriting') /\ (IsInline <=> IsInline')
      /\ (IsDirty <=> IsDirty') /\ (IsAppend <=> IsAppend') /\ (IsErred <=> IsErred')
      /\ FileSize' = FileSize
  BY <1>6 DEF IsReading, IsWriting, IsInline, IsErred, IsDirty, IsAppend, Has, FileSize
<1>8. StackOK' /\ pc' = "extend" /\ stack' = stack /\ \A x : On(x)' <=> x = "extend" \/ Holds(stack, x)
  BY <1>1, <1>2, WentTo DEF Labels, Returns, Below, Callers
<1>9. IsWriting => file.off = BlockSize
  BY <1>1 DEF NeedsBlock, IsWriting
<1>10. Typed'
  BY <1>1, <1>4, <1>6, CacheTyped DEF Control, Typed
<1>11. CacheOK' /\ BlockOK'
  BY <1>1, <1>2, <1>4, <1>6, <1>7, <1>8 DEF Control, CacheOK, BlockOK, WritesBlocks
<1>12. FlagsOK'
  BY <1>1, <1>2, <1>6, <1>7, <1>8 DEF Control, FlagsOK
<1>13. PutOK'
  BY <1>1, <1>2, <1>6, <1>7, <1>8, <1>9 DEF Control, PutOK
<1>14. OpOK'
  BY <1>1, <1>2, <1>6, <1>7, <1>8 DEF Control, OpOK
<1>15. ReadOK' /\ InlineOK'
  BY <1>1, <1>2, <1>6, <1>7, <1>8 DEF Control, ReadOK, InlineOK, Mid
<1> QED
  BY <1>8, <1>10, <1>11, <1>12, <1>13, <1>14, <1>15 DEF Control

LEMMA ProgIsBadKeeps ==
  ASSUME Control, ProgIsBad
  PROVE  Control'
<1>1. /\ Writing /\ IsWriting /\ ~IsInline /\ bad' = bad \cup {file.block}
      /\ CallThen("relocate", "chunk")
      /\ UNCHANGED <<cells, entry, file, cache, pcache, taken, faults, stamp, saved, reg>>
  BY DEF ProgIsBad, NeedsBlock, IsInline, IsWriting
<1>2. /\ pc \in {"put", "chunk"} /\ Puts /\ ~IsReading /\ stack # <<>> /\ file.open
      /\ \A x : x # pc => (On(x) <=> Holds(stack, x))
  BY <1>1, WritingIs
<1>3. WritesBlocks /\ file.block \in Blocks
  BY <1>1, <1>2 DEF WritesBlocks, Control, BlockOK
<1>4. /\ StackOK' /\ pc' = "relocate" /\ stack' # <<>> /\ Head(stack') = "chunk"
      /\ \A x : On(x)' <=> x \in {"relocate", "chunk"} \/ Holds(stack, x)
  BY <1>1, <1>2, CalledFrom DEF Labels, Returns, Below, Callers
<1>5. /\ (IsReading <=> IsReading') /\ (IsWriting <=> IsWriting') /\ (IsInline <=> IsInline')
      /\ (IsDirty <=> IsDirty') /\ (IsAppend <=> IsAppend') /\ (IsErred <=> IsErred')
      /\ FileSize' = FileSize
  BY <1>1 DEF IsReading, IsWriting, IsInline, IsErred, IsDirty, IsAppend, Has, FileSize
<1>6. Typed'
  BY <1>1, <1>3 DEF Control, Typed
<1>7. CacheOK' /\ BlockOK'
  BY <1>1, <1>2, <1>3, <1>5 DEF Control, CacheOK, BlockOK, WritesBlocks
<1>8. FlagsOK'
  BY <1>1, <1>2, <1>4, <1>5 DEF Control, FlagsOK, For
<1>9. PutOK'
  BY <1>1, <1>2, <1>4, <1>5 DEF Control, PutOK
<1>10. OpOK'
  BY <1>1, <1>2, <1>4, <1>5 DEF Control, OpOK
<1>11. ReadOK' /\ InlineOK'
  BY <1>1, <1>2, <1>4, <1>5 DEF Control, ReadOK, InlineOK, Mid, For
<1> QED
  BY <1>4, <1>6, <1>7, <1>8, <1>9, <1>10, <1>11 DEF Control

-----------------------------------------------------------------------------
\* Below a write, only the copying of a flush is called by a seek.
LEMMA PutBelow ==
  ASSUME Control, pc \in {"put", "chunk"}, NEW x \in {"sought", "cut", "commit", "revert"}, Holds(stack, x)
  PROVE  Holds(stack, "copy")
<1>1. /\ IsStack(pc, stack) /\ stack # <<>> /\ stack[1] \in {"wrote", "fill", "copy"}
      /\ Len(stack) \in Nat /\ Len(stack) > 0
  BY DEF Control, StackOK, IsStack, Returns
<1>2. PICK i \in 1 .. Len(stack) : stack[i] = x
  BY DEF Holds
<1>3. 1 \in 1 .. Len(stack)
  BY <1>1
<1>4. ASSUME stack[1] # "copy" PROVE FALSE
  <2>1. 1 < i
    BY <1>1, <1>2, <1>4
  <2>2. x \in Below(stack[1])
    BY <1>1, <1>2, <1>3, <2>1 DEF IsStack
  <2> QED
    BY <1>1, <1>4, <2>2 DEF Below
<1> QED
  BY <1>3, <1>4 DEF Holds

\* The cache has room for what is programmed next.
LEMMA RoomFor ==
  ASSUME Control, WritesBlocks
  PROVE  Room(cache, file.block, file.off)
<1>1. CASE cache = NoCache
  BY <1>1 DEF Room
<1>2. CASE cache # NoCache
  <2>1. cache = Dirty(file.block, file.off) /\ file.off \in Nat /\ CacheSize \in Nat \ {0}
    BY <1>2, Sizes, Constants DEF Control, CacheOK, Typed, FileIs
  <2>2. PICK r : r = file.off % CacheSize
    OBVIOUS
  <2>3. r \in 0 .. CacheSize - 1 /\ r <= file.off
    BY <2>1, <2>2
  <2>4. r # 0 /\ cache.block = file.block /\ cache.off = file.off - r
    BY <1>2, <2>1, <2>2 DEF Dirty
  <2> QED
    BY <2>1, <2>3, <2>4 DEF Room
<1> QED
  BY <1>1, <1>2

LEMMA ShorterToDo ==
  ASSUME NEW t, ToDo(t), NEW n \in 0 .. Len(t)
  PROVE  ToDo(SubSeq(t, n + 1, Len(t))) /\ Len(SubSeq(t, n + 1, Len(t))) = Len(t) - n
         /\ Len(t) \in Nat /\ \A i \in 1 .. Len(t) : t[i][1] = "data"
<1>1. PICK S : DataSeq(S, t)
  BY DEF ToDo
<1>2. t \in Seq(S) /\ Len(t) \in Nat /\ n \in Nat /\ \A i \in 1 .. Len(t) : t[i] \in S
  BY <1>1 DEF DataSeq
<1>3. n + 1 \in Int /\ Len(t) \in Int /\ \A i \in n + 1 .. Len(t) : t[i] \in S
  BY <1>2
<1>4. PICK u : u = SubSeq(t, n + 1, Len(t))
  OBVIOUS
<1>5. u \in Seq(S) /\ Len(u) = IF n + 1 <= Len(t) THEN Len(t) - (n + 1) + 1 ELSE 0
  BY <1>3, <1>4, SubSeqProperties
<1>6. DataSeq(S, u) /\ Len(u) = Len(t) - n
  BY <1>1, <1>2, <1>5 DEF DataSeq
<1>7. ToDo(u)
  BY <1>6 DEF ToDo
<1> QED
  BY <1>1, <1>2, <1>4, <1>6, <1>7 DEF DataSeq

LEMMA ProgKeeps ==
  ASSUME Control, Prog
  PROVE  Control'
<1> DEFINE upto == file.off + Chunk
           put(old) == [i \in DOMAIN old |-> IF file.off <= i /\ i < upto
                                             THEN reg.todo[i - file.off + 1] ELSE old[i]]
<1>1. /\ Writing /\ IsWriting /\ file.off # BlockSize
      /\ file' = [file EXCEPT !.pos = @ + Chunk, !.off = upto, !.data = IF IsInline THEN put(@) ELSE @]
      /\ IF IsInline THEN UNCHANGED <<cells, cache>>
         ELSE cells' = [cells EXCEPT ![file.block] = put(@)] /\ cache' = Dirty(file.block, upto)
      /\ reg' = [reg EXCEPT !.todo = SubSeq(@, Chunk + 1, Len(@))]
      /\ IF IsInline \/ Room(cache, file.block, file.off)
         THEN IF Chunk = Len(reg.todo) THEN Return ELSE Goto("chunk")
         ELSE Goto("panic")
      /\ UNCHANGED <<entry, pcache, bad, faults, stamp, saved>>
      /\ taken' = Ckpoint'
  BY DEF Prog, NeedsBlock, IsInline, IsWriting
<1>2. /\ pc \in {"put", "chunk"} /\ Puts /\ ~IsReading /\ stack # <<>> /\ file.open
      /\ \A x : x # pc => (On(x) <=> Holds(stack, x))
      /\ IsInline => file.pos + Len(reg.todo) <= InlineMax /\ file.size <= InlineMax
      /\ Len(reg.todo) \in Nat /\ Len(reg.todo) > 0
  BY <1>1, WritingIs
<1>3. ~IsInline => WritesBlocks /\ file.block \in Blocks /\ Room(cache, file.block, file.off)
  BY <1>1, <1>2, RoomFor DEF WritesBlocks, Control, BlockOK
<1>4. /\ file.off \in 0 .. BlockSize - 1 /\ file.pos \in 0 .. FileMax /\ file.size \in 0 .. FileMax
      /\ BlockSize \in Nat /\ FileMax \in Nat /\ InlineMax \in Nat /\ CacheSize \in Nat /\ InlineMax <= CacheSize
  BY <1>1, Constants, Sizes DEF Control, Typed, FileIs
<1>5. /\ Chunk \in 1 .. Len(reg.todo) /\ upto \in 1 .. BlockSize /\ file.pos + Len(reg.todo) <= FileMax
      /\ file.pos + Chunk \in 1 .. FileMax
  <2>1. PICK n : n = Len(reg.todo)
    OBVIOUS
  <2>2. n \in Nat /\ n > 0 /\ file.pos + n <= FileMax
    BY <1>2, <2>1 DEF Control, PutOK
  <2>3. Chunk = IF n < BlockSize - file.off THEN n ELSE BlockSize - file.off
    BY <2>1 DEF Chunk, Lesser
  <2>4. PICK k : k = Chunk
    OBVIOUS
  <2>5. k \in 1 .. n /\ file.off + k \in 1 .. BlockSize /\ file.pos + k \in 1 .. FileMax
    BY <1>4, <2>2, <2>3, <2>4
  <2> QED
    BY <2>1, <2>2, <2>4, <2>5
<1>6. /\ FileIs(file') /\ file'.pos = file.pos + Chunk /\ file'.size = file.size /\ file'.block = file.block
      /\ file'.off = upto /\ file'.head = file.head /\ file'.open = file.open /\ file'.flags = file.flags
  <2>1. PICK d : d = IF IsInline THEN put(file.data) ELSE file.data
    OBVIOUS
  <2>2. file' = [file EXCEPT !.pos = file.pos + Chunk, !.off = upto, !.data = d]
    BY <1>1, <2>1
  <2>3. file.pos + Chunk \in 0 .. FileMax /\ upto \in 0 .. BlockSize
    BY <1>5
  <2> HIDE DEF upto
  <2> QED
    BY <2>2, <2>3 DEF Control, Typed, FileIs
<1>7. /\ (IsReading <=> IsReading') /\ (IsWriting <=> IsWriting') /\ (IsInline <=> IsInline')
      /\ (IsDirty <=> IsDirty') /\ (IsAppend <=> IsAppend') /\ (IsErred <=> IsErred')
  BY <1>6 DEF IsReading, IsWriting, IsInline, IsErred, IsDirty, IsAppend, Has
<1>8. /\ RegIs(reg') /\ reg'.op = reg.op /\ reg'.arg = reg.arg /\ reg'.to = reg.to /\ reg'.fill = reg.fill
      /\ reg'.tainted = reg.tainted /\ Len(reg'.todo) = Len(reg.todo) - Chunk
  <2>1. PICK t : t = SubSeq(reg.todo, Chunk + 1, Len(reg.todo))
    OBVIOUS
  <2>2. Chunk \in 0 .. Len(reg.todo) /\ ToDo(reg.todo)
    BY <1>5 DEF Control, Typed, RegIs
  <2>3. ToDo(t) /\ Len(t) = Len(reg.todo) - Chunk
    BY <2>1, <2>2, ShorterToDo
  <2>4. reg' = [reg EXCEPT !.todo = t]
    BY <1>1, <2>1
  <2> QED
    BY <2>3, <2>4 DEF Control, Typed, RegIs
<1>9. CellsAre(cells')
  <2>1. CASE IsInline
    BY <1>1, <2>1 DEF Control, Typed
  <2>2. CASE ~IsInline
    <3>1. PICK e : e = put(cells[file.block])
      OBVIOUS
    <3>2. DOMAIN e = 0 .. BlockSize - 1 /\ e = [i \in DOMAIN e |-> e[i]]
      <4>1. DOMAIN cells[file.block] = 0 .. BlockSize - 1
        BY <1>3, <2>2, CellsDomain DEF Control, Typed
      <4> QED
        BY <3>1, <4>1
    <3>3. cells' = [cells EXCEPT ![file.block] = e]
      BY <1>1, <2>2, <3>1
    <3> QED
      BY <1>3, <2>2, <3>2, <3>3, PutTyped DEF Control, Typed
  <2> QED
    BY <2>1, <2>2
<1> HIDE DEF put
<1>13. StackOK' /\ pc' \in {"chunk", "wrote", "fill", "copy"} /\ (pc' # "chunk" => Chunk = Len(reg.todo))
       /\ (pc' = "chunk" => Chunk # Len(reg.todo))
       /\ \A x : On(x)' <=> Holds(stack, x) \/ (x = "chunk" /\ pc' = "chunk")
  <2>1. CASE Chunk = Len(reg.todo)
    <3>1. Return
      BY <1>1, <1>3, <2>1
    <3> QED
      BY <1>2, <2>1, <3>1, ReturnedTo DEF Returns
  <2>2. CASE Chunk # Len(reg.todo)
    <3>1. Goto("chunk") /\ "chunk" \in Labels \ {"idle", "panic"}
      BY <1>1, <1>3, <2>2 DEF Labels
    <3>2. Returns(pc) \subseteq Returns("chunk") /\ Below(pc) \subseteq Below("chunk")
      BY <1>2 DEF Returns, Below
    <3>3. StackOK' /\ pc' = "chunk" /\ stack' = stack /\ \A x : On(x)' <=> x = "chunk" \/ Holds(stack, x)
      BY <1>2, <3>1, <3>2, WentTo
    <3> QED
      BY <2>2, <3>3
  <2> QED
    BY <2>1, <2>2
<1>10. CacheOK' /\ BlockOK'
  <2>0. file'.pos # 0 /\ (IsAppend => file.pos >= file.size /\ file'.pos >= file'.size)
    <3>1. IsAppend => file.pos >= file.size
      BY <1>2 DEF Control, PutOK
    <3> QED
      BY <3>1, <1>5, <1>6 DEF Control, Typed, FileIs
  <2>1. CASE IsInline
    <3>1. ~WritesBlocks /\ cache = NoCache /\ pcache = NoCache
      BY <1>2, <2>1 DEF WritesBlocks, Control, CacheOK
    <3> QED
      BY <1>1, <1>2, <1>6, <1>7, <1>13, <2>0, <2>1, <3>1 DEF CacheOK, BlockOK, WritesBlocks
  <2>2. CASE ~IsInline
    <3>1. WritesBlocks' /\ pcache' = NoCache /\ cache' = Dirty(file'.block, file'.off)
      BY <1>1, <1>2, <1>6, <1>7, <2>2 DEF WritesBlocks, Control, CacheOK
    <3> QED
      BY <1>1, <1>2, <1>3, <1>6, <1>7, <2>0, <2>2, <3>1 DEF CacheOK, BlockOK
  <2> QED
    BY <2>1, <2>2
<1>11. Typed'
  <2>1. {cache'.block, pcache'.block} \subseteq Blocks \cup {NotABlock}
    <3>1. NoCache.block = NotABlock /\ \A n : Dirty(file'.block, n).block \in Blocks \cup {NotABlock}
      BY <1>6 DEF NoCache, Dirty, FileIs, Inline
    <3> QED
      BY <1>10, <3>1 DEF CacheOK
  <2>2. taken' \subseteq Blocks \cup {NotABlock}
    BY <1>1, <1>6, <1>9, <2>1, NextCkpointIsTyped DEF CkpointTyped, Control, Typed
  <2> QED
    BY <1>1, <1>6, <1>8, <1>9, <2>2 DEF Control, Typed
<1>12. /\ FileSize' = IF file.size < file.pos + Chunk THEN file.pos + Chunk ELSE file.size
       /\ FileSize = IF file.size < file.pos THEN file.pos ELSE file.size
  <2>1. Has("writing") /\ Has("writing")'
    BY <1>1, <1>7 DEF IsWriting
  <2>2. FileSize = Larger(file.pos, file.size)
    BY <2>1 DEF FileSize
  <2>3. FileSize' = Larger(file'.pos, file'.size)
    BY <2>1 DEF FileSize
  <2>4. PICK k : k = file.pos + Chunk
    OBVIOUS
  <2> QED
    BY <1>4, <1>5, <1>6, <2>2, <2>3, <2>4 DEF Larger
<1>14. \A x \in {"copy", "fill", "write", "growing", "sought", "cut", "commit", "revert"} : (On(x)' <=> On(x))
  BY <1>2, <1>13
<1>15. FlagsOK'
  BY <1>1, <1>2, <1>5, <1>6, <1>7, <1>8, <1>13, <1>14 DEF Control, FlagsOK, Puts, Mid
<1>16. PutOK'
  <2>1. CASE pc' # "chunk"
    BY <1>13, <2>1 DEF PutOK, Puts, Mid
  <2>2. CASE pc' = "chunk"
    <3>1. PICK n, k : n = Len(reg.todo) /\ k = Chunk
      OBVIOUS
    <3>2. /\ n \in Nat /\ k \in 1 .. n /\ k # n /\ file'.pos = file.pos + k /\ Len(reg'.todo) = n - k
      BY <1>2, <1>5, <1>6, <1>8, <1>13, <2>2, <3>1
    <3>3. /\ file.pos + n <= FileMax
          /\ IsAppend => file.pos >= file.size
          /\ IsInline => file.pos + n <= InlineMax /\ file.size <= InlineMax
          /\ On("fill") => file.pos + n <= reg.fill
          /\ On("copy") => file.pos + n <= file.size
      BY <1>2, <3>1 DEF Control, PutOK
    <3>4. file'.pos + Len(reg'.todo) = file.pos + n /\ Len(reg'.todo) > 0
          /\ (IsAppend => file'.pos >= file.size)
      <4>1. PICK s, z : s = file.pos /\ z = file.size
        OBVIOUS
      <4>2. s \in Nat /\ z \in Nat
        BY <1>4, <4>1
      <4>3. (s + k) + (n - k) = s + n /\ n - k > 0 /\ (s >= z => s + k >= z)
        BY ONLY <3>2, <4>2
      <4> QED
        BY <3>2, <3>3, <4>1, <4>3
    <3>5. IsWriting' /\ pc' \notin {"relocate", "outlined", "extend"}
      BY <1>1, <1>7, <2>2
    <3> QED
      BY <1>6, <1>7, <1>8, <1>14, <3>3, <3>4, <3>5 DEF PutOK
  <2> QED
    BY <2>1, <2>2
<1>17. OpOK'
  <2>1. /\ On("fill") => file.pos + Len(reg.todo) <= reg.fill
        /\ On("copy") => file.pos + Len(reg.todo) <= file.size
        /\ On("sought") => On("copy")
    BY <1>2, PutBelow DEF Control, PutOK
  <2>2. On("sought") => FileSize' = FileSize
    BY <1>4, <1>5, <1>12, <2>1
  <2>3. FileSize' >= FileSize /\ FileSize' \in Nat /\ FileSize \in Nat
    <3>1. PICK s, z, t : s = file.pos /\ z = file.size /\ t = file.pos + Chunk
      OBVIOUS
    <3>2. s \in Nat /\ z \in Nat /\ t \in Nat /\ t >= s
      BY <1>4, <1>5, <3>1
    <3> QED
      BY ONLY <1>12, <3>1, <3>2
  <2>4. On("growing") /\ ~On("sought") => file'.pos = FileSize' /\ ~On("copy")
    BY <1>2, <1>4, <1>5, <1>6, <1>12 DEF Control, OpOK
  <2>5. On("fill") => reg.fill \in 0 .. FileMax /\ file'.pos <= reg.fill /\ file'.pos >= file.size
    <3>1. ASSUME On("fill") PROVE reg.fill \in 0 .. FileMax /\ file.pos >= file.size
      BY <3>1 DEF Control, OpOK, Typed, RegIs
    <3>2. PICK n, k, s, z, f : n = Len(reg.todo) /\ k = Chunk /\ s = file.pos /\ z = file.size /\ f = reg.fill
      OBVIOUS
    <3>3. n \in Nat /\ k \in 1 .. n /\ s \in Nat /\ z \in Nat /\ file'.pos = s + k
      BY <1>2, <1>4, <1>5, <1>6, <3>2
    <3>4. On("fill") => f \in 0 .. FileMax /\ s + n <= f /\ s >= z
      BY <2>1, <3>1, <3>2
    <3>5. f \in 0 .. FileMax /\ s + n <= f /\ s >= z => s + k <= f /\ s + k >= z
      BY ONLY <3>3, <1>4
    <3> QED
      BY <3>2, <3>3, <3>4, <3>5
  <2>6. On("cut") => reg.arg \in InlineMax + 1 .. FileSize'
    BY <2>3 DEF Control, OpOK, Typed, RegIs
  <2> QED
    BY <1>1, <1>2, <1>6, <1>7, <1>8, <1>13, <1>14, <2>1, <2>2, <2>4, <2>5, <2>6 DEF Control, OpOK
<1>18. ReadOK'
  BY <1>2, <1>7, <1>13 DEF ReadOK
<1>19. InlineOK'
  <2>1. IsInline => file.off = file.pos
    BY <1>1 DEF Control, InlineOK
  <2>2. PICK n, k, s, z, t : n = Len(reg.todo) /\ k = Chunk /\ s = file.pos /\ z = file.size /\ t = file.pos + Chunk
    OBVIOUS
  <2>3. /\ n \in Nat /\ k \in 1 .. n /\ s \in Nat /\ z \in Nat /\ t = s + k /\ t > 0
        /\ FileSize' = IF z < t THEN t ELSE z
    BY <1>2, <1>4, <1>5, <1>12, <2>2
  <2>4. IsInline => FileSize' <= InlineMax
    <3>1. IsInline => s + n <= InlineMax /\ z <= InlineMax
      BY <1>2, <2>2
    <3>2. s + n <= InlineMax /\ z <= InlineMax => FileSize' <= InlineMax
      BY ONLY <1>4, <2>3
    <3> QED
      BY <3>1, <3>2
  <2>5. InlineMax <= CacheSize /\ FileSize' \in Nat
    BY ONLY <1>4, <2>3
  <2>6. file'.pos # 0 /\ (IsInline => file'.off = file'.pos)
    BY <1>6, <2>1, <2>2, <2>3
  <2>7. IsInline => FileSize' <= CacheSize /\ ~(FileSize' > InlineMax)
    BY ONLY <2>4, <2>5, <1>4
  <2> QED
    BY <1>1, <1>7, <2>4, <2>6, <2>7 DEF InlineOK
<1> QED
  BY <1>10, <1>11, <1>13, <1>15, <1>16, <1>17, <1>18, <1>19 DEF Control

LEMMA SameFile ==
  ASSUME file' = file
  PROVE  /\ (IsReading <=> IsReading') /\ (IsWriting <=> IsWriting') /\ (IsInline <=> IsInline')
         /\ (IsDirty <=> IsDirty') /\ (IsAppend <=> IsAppend') /\ (IsErred <=> IsErred')
         /\ FileSize' = FileSize
BY DEF IsReading, IsWriting, IsInline, IsErred, IsDirty, IsAppend, Has, FileSize

LEMMA NotBelow ==
  ASSUME Control, NEW x, x \notin Below(pc)
  PROVE  ~Holds(stack, x)
BY DEF Control, StackOK, IsStack, Holds

\* What was written becomes the file.
LEMMA FlushedIs ==
  ASSUME Control, NEW size \in 0 .. FileMax, NEW pos \in 0 .. FileMax, file' = Flushed(size, pos)
  PROVE  /\ FileIs(file') /\ file'.pos = pos /\ file'.size = size /\ file'.block = file.block
         /\ file'.off = file.off /\ file'.head = file.block /\ file'.open = file.open
         /\ (IsReading <=> IsReading') /\ ~IsWriting' /\ (IsInline <=> IsInline')
         /\ IsDirty' /\ (IsAppend <=> IsAppend') /\ (IsErred <=> IsErred')
         /\ FileSize' = size
<1>1. /\ FileIs(file') /\ file'.pos = pos /\ file'.size = size /\ file'.block = file.block
      /\ file'.off = file.off /\ file'.head = file.block /\ file'.open = file.open
      /\ (IsReading <=> IsReading') /\ ~IsWriting' /\ (IsInline <=> IsInline')
      /\ IsDirty' /\ (IsAppend <=> IsAppend') /\ (IsErred <=> IsErred')
  BY DEF Flushed, Control, Typed, FileIs, IsReading, IsWriting, IsInline, IsErred, IsDirty, IsAppend, Has, Flags
<1> QED
  BY <1>1 DEF FileSize, IsWriting

LEMMA FlushInlineKeeps ==
  ASSUME Control, FlushInline
  PROVE  Control'
<1>1. /\ pc = "flush" /\ ~IsReading /\ (~IsWriting \/ IsInline) /\ Return
      /\ file' = IF IsWriting THEN Flushed(Larger(file.pos, file.size), file.pos) ELSE file
      /\ UNCHANGED <<cells, entry, cache, pcache, taken, bad, faults, stamp, saved, reg>>
  BY DEF FlushInline, IsReading, IsWriting, IsInline
<1>2. stack # <<>> /\ file.open /\ \A x : x # pc => (On(x) <=> Holds(stack, x))
  BY <1>1, InACall
<1>3. /\ file.pos \in 0 .. FileMax /\ file.size \in 0 .. FileMax /\ FileSize \in 0 .. FileMax
      /\ IsWriting => FileSize = Larger(file.pos, file.size)
  BY SizeTyped DEF Control, Typed, FileIs, FileSize, IsWriting
<1>4. /\ FileIs(file') /\ file'.pos = file.pos /\ file'.open = file.open
      /\ ~IsReading' /\ ~IsWriting' /\ (IsInline <=> IsInline')
      /\ (IsAppend <=> IsAppend') /\ (IsErred <=> IsErred')
      /\ FileSize' = FileSize /\ (~IsInline => file' = file)
  <2>1. CASE IsWriting
    BY <1>1, <1>3, <2>1, FlushedIs
  <2>2. CASE ~IsWriting
    BY <1>1, <2>2, SameFile DEF Control, Typed
  <2> QED
    BY <2>1, <2>2
<1>5. /\ StackOK' /\ pc' \in {"write", "readstart", "cut", "commit", "sought", "growing"}
      /\ \A x : On(x)' <=> Holds(stack, x)
  BY <1>1, <1>2, ReturnedTo DEF Returns
<1>6. ~Holds(stack, "copy") /\ ~Holds(stack, "fill")
  BY <1>1, NotBelow DEF Below, Callers
<1>7. cache = NoCache
  BY <1>1 DEF Control, CacheOK, WritesBlocks
<1>8. Typed'
  BY <1>1, <1>4 DEF Control, Typed
<1>9. CacheOK' /\ BlockOK'
  BY <1>1, <1>4, <1>7 DEF Control, CacheOK, BlockOK, WritesBlocks
<1>10. FlagsOK'
  BY <1>1, <1>2, <1>4, <1>5, <1>6 DEF Control, FlagsOK, Puts, Mid
<1>11. PutOK'
  BY <1>5 DEF PutOK, Puts, Mid
<1>12. OpOK'
  BY <1>1, <1>2, <1>4, <1>5, <1>6 DEF Control, OpOK
<1>13. ReadOK' /\ InlineOK'
  BY <1>1, <1>2, <1>4, <1>5 DEF Control, ReadOK, InlineOK
<1> QED
  BY <1>5, <1>8, <1>9, <1>10, <1>11, <1>12, <1>13 DEF Control

LEMMA FlushBlocksKeeps ==
  ASSUME Control, FlushBlocks
  PROVE  Control'
<1>1. /\ pc = "flush" /\ ~IsReading /\ IsWriting /\ ~IsInline /\ Goto("copy")
      /\ reg' = [reg EXCEPT !.pos = file.pos, !.from = file.pos]
      /\ UNCHANGED <<cells, entry, file, cache, pcache, taken, bad, faults, stamp, saved>>
  BY DEF FlushBlocks, IsReading, IsWriting, IsInline
<1>2. stack # <<>> /\ file.open /\ \A x : x # pc => (On(x) <=> Holds(stack, x))
  BY <1>1, InACall
<1>3. /\ (IsReading <=> IsReading') /\ (IsWriting <=> IsWriting') /\ (IsInline <=> IsInline')
      /\ (IsDirty <=> IsDirty') /\ (IsAppend <=> IsAppend') /\ (IsErred <=> IsErred')
      /\ FileSize' = FileSize
  BY <1>1, SameFile
<1>4. /\ RegIs(reg') /\ reg'.op = reg.op /\ reg'.arg = reg.arg /\ reg'.to = reg.to
      /\ reg'.fill = reg.fill /\ reg'.tainted = reg.tainted
  <2>1. FileMax \in Nat /\ file.pos \in 0 .. FileMax /\ RegIs(reg)
    BY Constants DEF Control, Typed, FileIs
  <2>2. PICK n : n = file.pos
    OBVIOUS
  <2>3. n \in 0 .. FileMax /\ n \in Nat /\ reg' = [reg EXCEPT !.pos = n, !.from = n]
    BY <1>1, <2>1, <2>2
  <2> QED
    BY ONLY <2>1, <2>3 DEF RegIs
<1>5. StackOK' /\ pc' = "copy" /\ stack' = stack /\ \A x : On(x)' <=> x = "copy" \/ Holds(stack, x)
  BY <1>1, <1>2, WentTo DEF Labels, Returns, Below, Callers
<1>6. ~Holds(stack, "copy") /\ ~Holds(stack, "fill")
  BY <1>1, NotBelow DEF Below, Callers
<1>7. Typed'
  BY <1>1, <1>4 DEF Control, Typed
<1>8. CacheOK' /\ BlockOK'
  BY <1>1, <1>3, <1>5 DEF Control, CacheOK, BlockOK, WritesBlocks
<1>9. FlagsOK' /\ PutOK'
  BY <1>1, <1>2, <1>3, <1>4, <1>5, <1>6 DEF Control, FlagsOK, PutOK, Puts, Mid
<1>10. OpOK'
  BY <1>1, <1>2, <1>3, <1>4, <1>5, <1>6 DEF Control, OpOK
<1>11. ReadOK' /\ InlineOK'
  BY <1>1, <1>2, <1>3, <1>5 DEF Control, ReadOK, InlineOK, Mid
<1> QED
  BY <1>5, <1>7, <1>8, <1>9, <1>10, <1>11 DEF Control

LEMMA OneToDo ==
  ASSUME NEW x, x[1] = "data"
  PROVE  ToDo(<<x>>) /\ Len(<<x>>) = 1
<1>1. DataSeq({x}, <<x>>)
  BY DEF DataSeq
<1> QED
  BY <1>1 DEF ToDo

LEMMA CopyKeeps ==
  ASSUME Control, Copy
  PROVE  Control'
<1>1. /\ pc = "copy" /\ file.pos < file.size /\ Old[1] = "data"
      /\ reg' = [reg EXCEPT !.todo = <<Old>>, !.from = @ + 1]
      /\ CallThen("put", "copy")
      /\ UNCHANGED <<cells, entry, file, cache, pcache, taken, bad, faults, stamp, saved>>
  BY DEF Copy
<1>2. stack # <<>> /\ file.open /\ \A x : x # pc => (On(x) <=> Holds(stack, x))
  BY <1>1, InACall
<1>3. /\ (IsReading <=> IsReading') /\ (IsWriting <=> IsWriting') /\ (IsInline <=> IsInline')
      /\ (IsDirty <=> IsDirty') /\ (IsAppend <=> IsAppend') /\ (IsErred <=> IsErred')
      /\ FileSize' = FileSize
  BY <1>1, SameFile
<1>4. /\ RegIs(reg') /\ reg'.op = reg.op /\ reg'.arg = reg.arg /\ reg'.to = reg.to
      /\ reg'.fill = reg.fill /\ reg'.tainted = reg.tainted /\ Len(reg'.todo) = 1
  <2>1. PICK t : t = <<Old>>
    OBVIOUS
  <2>2. ToDo(t) /\ Len(t) = 1
    BY <1>1, <2>1, OneToDo
  <2>3. PICK n : n = reg.from + 1
    OBVIOUS
  <2>4. RegIs(reg) /\ n \in Nat /\ reg' = [reg EXCEPT !.todo = t, !.from = n]
    BY <1>1, <2>1, <2>3 DEF Control, Typed, RegIs
  <2> QED
    BY ONLY <2>2, <2>4 DEF RegIs
<1>5. On("copy") /\ IsWriting /\ ~IsInline /\ ~IsReading
  BY <1>1 DEF On, Control, FlagsOK
<1>6. /\ StackOK' /\ pc' = "put" /\ stack' # <<>> /\ Head(stack') = "copy"
      /\ \A x : On(x)' <=> x \in {"put", "copy"} \/ Holds(stack, x)
  BY <1>1, <1>2, CalledFrom DEF Labels, Returns, Below, Callers
<1>7. ~Holds(stack, "fill") /\ ~Holds(stack, "copy")
  BY <1>1, NotBelow DEF Below, Callers
<1>8. ~IsAppend /\ file.pos + 1 <= file.size /\ file.size <= FileMax
  BY <1>1, <1>2, <1>5, Constants DEF Control, BlockOK, WritesBlocks, Typed, FileIs
<1>9. Typed'
  BY <1>1, <1>4 DEF Control, Typed
<1>10. CacheOK' /\ BlockOK'
  BY <1>1, <1>3, <1>6 DEF Control, CacheOK, BlockOK, WritesBlocks
<1>11. FlagsOK'
  BY <1>1, <1>2, <1>3, <1>4, <1>5, <1>6, <1>7 DEF Control, FlagsOK
<1>12. PutOK'
  <2>1. file.pos + 1 <= FileMax
    BY <1>8, Constants DEF Control, Typed, FileIs
  <2> QED
    BY <1>1, <1>3, <1>4, <1>5, <1>6, <1>7, <1>8, <2>1 DEF PutOK
<1>13. OpOK'
  BY <1>1, <1>2, <1>3, <1>4, <1>5, <1>6, <1>7 DEF Control, OpOK
<1>14. ReadOK' /\ InlineOK'
  BY <1>1, <1>2, <1>3, <1>5, <1>6 DEF Control, ReadOK, InlineOK, Mid
<1> QED
  BY <1>6, <1>9, <1>10, <1>11, <1>12, <1>13, <1>14 DEF Control

LEMMA BdFlushIsBadKeeps ==
  ASSUME Control, BdFlushIsBad
  PROVE  Control'
<1>1. /\ pc = "copy" /\ bad' = bad \cup {file.block} /\ CallThen("relocate", "copy")
      /\ UNCHANGED <<cells, entry, file, cache, pcache, taken, faults, stamp, saved, reg>>
  BY DEF BdFlushIsBad, Copied
<1>2. stack # <<>> /\ file.open /\ \A x : x # pc => (On(x) <=> Holds(stack, x))
  BY <1>1, InACall
<1>3. /\ (IsReading <=> IsReading') /\ (IsWriting <=> IsWriting') /\ (IsInline <=> IsInline')
      /\ (IsDirty <=> IsDirty') /\ (IsAppend <=> IsAppend') /\ (IsErred <=> IsErred')
      /\ FileSize' = FileSize
  BY <1>1, SameFile
<1>4. On("copy") /\ IsWriting /\ ~IsInline /\ ~IsReading
  BY <1>1 DEF On, Control, FlagsOK
<1>5. WritesBlocks /\ file.block \in Blocks
  BY <1>2, <1>4 DEF WritesBlocks, Control, BlockOK
<1>6. /\ StackOK' /\ pc' = "relocate" /\ stack' # <<>> /\ Head(stack') = "copy"
      /\ \A x : On(x)' <=> x \in {"relocate", "copy"} \/ Holds(stack, x)
  BY <1>1, <1>2, CalledFrom DEF Labels, Returns, Below, Callers
<1>7. Typed'
  BY <1>1, <1>5 DEF Control, Typed
<1>8. CacheOK' /\ BlockOK'
  BY <1>1, <1>3, <1>4, <1>5, <1>6 DEF Control, CacheOK, BlockOK, WritesBlocks
<1>9. FlagsOK'
  BY <1>1, <1>2, <1>3, <1>4, <1>6 DEF Control, FlagsOK, For
<1>10. PutOK'
  BY <1>6 DEF PutOK, Puts, Mid, For
<1>11. OpOK'
  BY <1>1, <1>2, <1>3, <1>4, <1>6 DEF Control, OpOK
<1>12. ReadOK' /\ InlineOK'
  BY <1>1, <1>2, <1>3, <1>4, <1>6 DEF Control, ReadOK, InlineOK, Mid
<1> QED
  BY <1>6, <1>7, <1>8, <1>9, <1>10, <1>11, <1>12 DEF Control

LEMMA BdFlushKeeps ==
  ASSUME Control, BdFlush
  PROVE  Control'
<1>1. /\ pc = "copy" /\ file.pos >= file.size /\ file' = Flushed(file.pos, reg.pos) /\ cache' = NoCache /\ Return
      /\ UNCHANGED <<cells, entry, pcache, taken, bad, faults, stamp, saved, reg>>
  BY DEF BdFlush, Copied
<1>2. stack # <<>> /\ file.open /\ \A x : x # pc => (On(x) <=> Holds(stack, x))
  BY <1>1, InACall
<1>3. On("copy") /\ IsWriting /\ ~IsInline /\ ~IsReading
  BY <1>1 DEF On, Control, FlagsOK
<1>4. /\ file.pos \in 0 .. FileMax /\ file.size \in 0 .. FileMax /\ reg.pos \in 0 .. FileMax
      /\ FileSize = file.pos /\ file.block \in Blocks
  BY <1>1, <1>2, <1>3, Constants DEF Control, Typed, FileIs, RegIs, FileSize, Larger, IsWriting, BlockOK, WritesBlocks
<1>5. /\ FileIs(file') /\ file'.pos = reg.pos /\ file'.size = file.pos /\ file'.head = file.block
      /\ file'.open = file.open
      /\ ~IsReading' /\ ~IsWriting' /\ ~IsInline' /\ (IsAppend <=> IsAppend') /\ (IsErred <=> IsErred')
      /\ FileSize' = FileSize
  BY <1>1, <1>3, <1>4, FlushedIs
<1>6. /\ StackOK' /\ pc' \in {"write", "readstart", "cut", "commit", "sought", "growing"}
      /\ \A x : On(x)' <=> Holds(stack, x)
  BY <1>1, <1>2, ReturnedTo DEF Returns
<1>7. ~Holds(stack, "copy") /\ ~Holds(stack, "fill")
  BY <1>1, NotBelow DEF Below, Callers
<1>8. Typed'
  BY <1>1, <1>5 DEF Control, Typed
<1>9. CacheOK' /\ BlockOK'
  BY <1>1, <1>4, <1>5 DEF Control, CacheOK, BlockOK, WritesBlocks
<1>10. FlagsOK' /\ PutOK'
  BY <1>1, <1>2, <1>5, <1>6, <1>7 DEF Control, FlagsOK, PutOK, Puts, Mid
<1>11. OpOK'
  BY <1>1, <1>2, <1>3, <1>5, <1>6, <1>7 DEF Control, OpOK
<1>12. ReadOK' /\ InlineOK'
  <2>1. file.pos = 0 => IsErred
    BY <1>1, <1>3 DEF Control, InlineOK, Mid
  <2> QED
    BY <1>1, <1>2, <1>5, <1>6, <2>1 DEF ReadOK, InlineOK
<1> QED
  BY <1>6, <1>8, <1>9, <1>10, <1>11, <1>12 DEF Control

LEMMA Ended ==
  ASSUME Control, stack # <<>>, Return
  PROVE  /\ StackOK' /\ pc' = Head(stack) /\ pc' \in Returns(pc)
         /\ \A x : On(x)' <=> Holds(stack, x)
         /\ pc' = "idle" => \A x : Holds(stack, x) => x = "idle"
         /\ pc' # "idle" => stack # <<"idle">>
<1>1. StackOK' /\ pc' = Head(stack) /\ pc' \in Returns(pc) /\ \A x : On(x)' <=> Holds(stack, x)
  BY ReturnedTo
<1>2. pc' = "idle" => \A x : On(x)' => x = "idle"
  BY <1>1 DEF StackOK, IsStack, On, Holds
<1>3. pc' # "idle" => stack # <<"idle">>
  BY <1>1
<1> QED
  BY <1>1, <1>2, <1>3

\* A write moves to the end of the file to append.
LEMMA WritePosIs ==
  ASSUME Control, pc = "write"
  PROVE  /\ WritePos \in 0 .. FileMax /\ (IsAppend => WritePos >= file.size)
         /\ IsWriting => WritePos = file.pos
         /\ WritePos > file.size => WritePos = file.pos
<1>1. file.pos \in 0 .. FileMax /\ file.size \in 0 .. FileMax
  BY DEF Control, Typed, FileIs
<1>2. IsWriting /\ IsAppend => file.pos >= file.size
  BY DEF Control, BlockOK
<1>3. WritePos = IF IsAppend /\ file.pos < file.size THEN file.size ELSE file.pos
  BY DEF WritePos, IsAppend
<1> QED
  BY <1>1, <1>2, <1>3, Constants

LEMMA WriteToDo ==
  ASSUME Control, reg.arg \in Nat \ {0}
  PROVE  ToDo(WriteData) /\ Len(WriteData) = reg.arg
<1>1. PICK n : n = reg.arg
  OBVIOUS
<1>2. PICK p : p = WritePos
  OBVIOUS
<1>3. PICK w : w = [i \in 1 .. n |-> <<"data", stamp, p + i - 1>>]
  OBVIOUS
<1>4. w = WriteData /\ n \in Nat \ {0}
  BY <1>1, <1>2, <1>3 DEF WriteData, Byte
<1>5. PICK S : S = {w[i] : i \in 1 .. n}
  OBVIOUS
<1>6. DOMAIN w = 1 .. n /\ w = [i \in 1 .. n |-> w[i]] /\ \A i \in 1 .. n : w[i] \in S
  BY ONLY <1>3, <1>5
<1>7. w \in Seq(S) /\ Len(w) = n
  BY ONLY <1>4, <1>6
<1>8. \A i \in 1 .. n : w[i][1] = "data"
  BY ONLY <1>3
<1>9. DataSeq(S, w)
  BY ONLY <1>5, <1>7, <1>8 DEF DataSeq
<1> QED
  BY <1>1, <1>4, <1>7, <1>9 DEF ToDo

\* Only the position moves.
LEMMA MovedTo ==
  ASSUME FileIs(file), NEW p \in 0 .. FileMax, file' = [file EXCEPT !.pos = p]
  PROVE  /\ FileIs(file') /\ file'.pos = p /\ file'.size = file.size /\ file'.block = file.block
         /\ file'.off = file.off /\ file'.head = file.head /\ file'.open = file.open /\ file'.flags = file.flags
         /\ (IsReading <=> IsReading') /\ (IsWriting <=> IsWriting') /\ (IsInline <=> IsInline')
         /\ (IsDirty <=> IsDirty') /\ (IsAppend <=> IsAppend') /\ (IsErred <=> IsErred')
         /\ FileSize' = IF IsWriting /\ file.size < p THEN p ELSE file.size
<1>1. /\ FileIs(file') /\ file'.pos = p /\ file'.size = file.size /\ file'.block = file.block
      /\ file'.off = file.off /\ file'.head = file.head /\ file'.open = file.open /\ file'.flags = file.flags
  BY DEF FileIs
<1>2. /\ (IsReading <=> IsReading') /\ (IsWriting <=> IsWriting') /\ (IsInline <=> IsInline')
      /\ (IsDirty <=> IsDirty') /\ (IsAppend <=> IsAppend') /\ (IsErred <=> IsErred')
  BY <1>1 DEF IsReading, IsWriting, IsInline, IsErred, IsDirty, IsAppend, Has
<1>3. FileSize' = IF IsWriting' THEN Larger(file'.pos, file'.size) ELSE file'.size
  BY DEF FileSize, IsWriting
<1>4. FileSize' = IF IsWriting /\ file.size < p THEN p ELSE file.size
  BY <1>1, <1>2, <1>3 DEF Larger, FileIs
<1> QED
  BY <1>1, <1>2, <1>4

LEMMA WriteTooBigKeeps ==
  ASSUME Control, WriteTooBig
  PROVE  Control'
<1>1. /\ pc = "write" /\ file' = [file EXCEPT !.pos = WritePos] /\ reg' = Failed /\ Return
      /\ UNCHANGED <<cells, entry, cache, pcache, taken, bad, faults, stamp, saved>>
  BY DEF WriteTooBig
<1>2. stack # <<>> /\ file.open /\ \A x : x # pc => (On(x) <=> Holds(stack, x))
  BY <1>1, InACall
<1>3. PICK p \in 0 .. FileMax : p = WritePos /\ (IsAppend => p >= file.size) /\ (IsWriting => p = file.pos)
  BY <1>1, WritePosIs
<1>4. /\ FileIs(file') /\ file'.pos = p /\ file'.size = file.size /\ file'.block = file.block
      /\ file'.off = file.off /\ file'.head = file.head /\ file'.open = file.open /\ file'.flags = file.flags
      /\ (IsReading <=> IsReading') /\ (IsWriting <=> IsWriting') /\ (IsInline <=> IsInline')
      /\ (IsDirty <=> IsDirty') /\ (IsAppend <=> IsAppend') /\ (IsErred <=> IsErred')
      /\ FileSize' = IF IsWriting /\ file.size < p THEN p ELSE file.size
  BY <1>1, <1>3, MovedTo DEF Control, Typed
<1>5. FileSize' = FileSize
  BY <1>3, <1>4, SizeTyped DEF Control, Typed
<1>6. StackOK' /\ pc' = "idle" /\ \A x : On(x)' => x = "idle"
  BY <1>1, <1>2, Ended DEF Returns
<1>7. RegIs(reg') /\ reg'.tainted = reg.tainted /\ reg'.op = "failed"
  <2>1. RegIs(Done) /\ Done.tainted = reg.tainted /\ reg' = [Done EXCEPT !.op = "failed"]
    BY <1>1, DoneIs DEF Control, Typed, Failed
  <2> QED
    BY <2>1 DEF RegIs, Operations
<1>8. Typed'
  BY <1>1, <1>4, <1>7 DEF Control, Typed
<1>9. CacheOK' /\ BlockOK'
  BY <1>1, <1>2, <1>3, <1>4, <1>6 DEF Control, CacheOK, BlockOK, WritesBlocks
<1>10. ~Mid' /\ ~Puts' /\ ~Mid
  BY <1>1, <1>6 DEF Puts, Mid
<1>11. FlagsOK'
  BY <1>1, <1>2, <1>4, <1>6, <1>7, <1>10 DEF Control, FlagsOK
<1>12. PutOK' /\ OpOK'
  BY <1>6, <1>10 DEF PutOK, OpOK
<1>13. ReadOK'
  BY <1>1, <1>4, <1>6 DEF Control, ReadOK, FlagsOK
<1>14. InlineOK'
  BY <1>1, <1>3, <1>4, <1>5, <1>6, <1>10 DEF Control, InlineOK
<1> QED
  BY <1>6, <1>8, <1>9, <1>11, <1>12, <1>13, <1>14 DEF Control

LEMMA WriteGapKeeps ==
  ASSUME Control, WriteGap
  PROVE  Control'
<1>1. /\ pc = "write" /\ WritePos + reg.arg <= FileMax /\ ~IsWriting /\ WritePos > file.size
      /\ reg' = [reg EXCEPT !.fill = file.pos] /\ file' = [file EXCEPT !.pos = file.size] /\ Goto("fill")
      /\ UNCHANGED <<cells, entry, cache, pcache, taken, bad, faults, stamp, saved>>
  BY DEF WriteGap, HasGap, IsWriting
<1>2. stack # <<>> /\ file.open /\ \A x : x # pc => (On(x) <=> Holds(stack, x))
  BY <1>1, InACall
<1>3. WritePos = file.pos
  BY <1>1, WritePosIs
<1>4. file.size \in 0 .. FileMax /\ file.pos \in 0 .. FileMax /\ reg.arg \in 0 .. FileMax
  BY DEF Control, Typed, FileIs, RegIs
<1>5. /\ FileIs(file') /\ file'.pos = file.size /\ file'.size = file.size /\ file'.block = file.block
      /\ file'.off = file.off /\ file'.head = file.head /\ file'.open = file.open /\ file'.flags = file.flags
      /\ (IsReading <=> IsReading') /\ (IsWriting <=> IsWriting') /\ (IsInline <=> IsInline')
      /\ (IsDirty <=> IsDirty') /\ (IsAppend <=> IsAppend') /\ (IsErred <=> IsErred')
      /\ FileSize' = IF IsWriting /\ file.size < file.size THEN file.size ELSE file.size
  BY <1>1, <1>4, MovedTo DEF Control, Typed
<1>6. FileSize' = file.size /\ FileSize = file.size
  BY <1>1, <1>5, SizeTyped DEF Control, Typed
<1>7. StackOK' /\ pc' = "fill" /\ stack' = stack /\ \A x : On(x)' <=> x = "fill" \/ Holds(stack, x)
  BY <1>1, <1>2, WentTo DEF Labels, Returns, Below, Callers
<1>8. \A x : Holds(stack, x) => x = "idle"
  BY <1>1, NotBelow DEF Below
<1>9. /\ RegIs(reg') /\ reg'.op = reg.op /\ reg'.arg = reg.arg /\ reg'.to = reg.to /\ reg'.fill = file.pos
      /\ reg'.tainted = reg.tainted
  <2>1. RegIs(reg) /\ file.pos \in 0 .. FileMax
    BY <1>4 DEF Control, Typed
  <2> QED
    BY <1>1, <2>1 DEF RegIs
<1>10. On("write") /\ ~Mid' /\ ~Puts' /\ ~Mid
  BY <1>1, <1>7 DEF On, Puts, Mid
<1>11. Typed'
  BY <1>1, <1>5, <1>9 DEF Control, Typed
<1>12. CacheOK' /\ BlockOK'
  BY <1>1, <1>2, <1>5, <1>7 DEF Control, CacheOK, BlockOK, WritesBlocks
<1>13. FlagsOK'
  BY <1>1, <1>2, <1>5, <1>7, <1>8, <1>9, <1>10 DEF Control, FlagsOK
<1>14. PutOK'
  BY <1>10 DEF PutOK
<1>15. OpOK'
  BY <1>1, <1>3, <1>4, <1>5, <1>7, <1>8, <1>9, <1>10 DEF Control, OpOK
<1>16. ReadOK'
  BY <1>1, <1>5, <1>7 DEF Control, ReadOK
<1>17. InlineOK'
  BY <1>1, <1>5, <1>6, <1>7, <1>10 DEF Control, InlineOK
<1> QED
  BY <1>7, <1>11, <1>12, <1>13, <1>14, <1>15, <1>16, <1>17 DEF Control

LEMMA WritePutKeeps ==
  ASSUME Control, WritePut
  PROVE  Control'
<1>1. /\ pc = "write" /\ WritePos + reg.arg <= FileMax /\ (IsWriting \/ ~(WritePos > file.size))
      /\ file' = [file EXCEPT !.pos = WritePos] /\ reg' = [reg EXCEPT !.todo = WriteData]
      /\ CallThen("put", "wrote")
      /\ UNCHANGED <<cells, entry, cache, pcache, taken, bad, faults, stamp, saved>>
  BY DEF WritePut, HasGap, IsWriting
<1>2. stack # <<>> /\ file.open /\ \A x : x # pc => (On(x) <=> Holds(stack, x))
  BY <1>1, InACall
<1>3. PICK p \in 0 .. FileMax : p = WritePos /\ (IsAppend => p >= file.size) /\ (IsWriting => p = file.pos)
  BY <1>1, WritePosIs
<1>4. /\ FileIs(file') /\ file'.pos = p /\ file'.size = file.size /\ file'.block = file.block
      /\ file'.off = file.off /\ file'.head = file.head /\ file'.open = file.open /\ file'.flags = file.flags
      /\ (IsReading <=> IsReading') /\ (IsWriting <=> IsWriting') /\ (IsInline <=> IsInline')
      /\ (IsDirty <=> IsDirty') /\ (IsAppend <=> IsAppend') /\ (IsErred <=> IsErred')
      /\ FileSize' = IF IsWriting /\ file.size < p THEN p ELSE file.size
  BY <1>1, <1>3, MovedTo DEF Control, Typed
<1>5. FileSize' = FileSize
  BY <1>3, <1>4, SizeTyped DEF Control, Typed
<1>6. /\ StackOK' /\ pc' = "put" /\ stack' # <<>> /\ Head(stack') = "wrote"
      /\ \A x : On(x)' <=> x \in {"put", "wrote"} \/ Holds(stack, x)
  BY <1>1, <1>2, CalledFrom DEF Labels, Returns, Below, Callers
<1>7. \A x : Holds(stack, x) => x = "idle"
  BY <1>1, NotBelow DEF Below
<1>8. reg.arg \in 1 .. FileMax
  <2>1. On("write")
    BY <1>1 DEF On
  <2> QED
    BY <2>1, Sizes DEF Control, OpOK
<1>9. /\ RegIs(reg') /\ reg'.op = reg.op /\ reg'.arg = reg.arg /\ reg'.to = reg.to /\ reg'.fill = reg.fill
      /\ reg'.tainted = reg.tainted /\ Len(reg'.todo) = reg.arg
  <2>1. PICK t : t = WriteData
    OBVIOUS
  <2>2. ToDo(t) /\ Len(t) = reg.arg /\ reg' = [reg EXCEPT !.todo = t]
    BY <1>1, <1>8, <2>1, WriteToDo, Constants
  <2> QED
    BY <2>2 DEF Control, Typed, RegIs
<1>10. Typed'
  BY <1>1, <1>4, <1>9 DEF Control, Typed
<1>11. CacheOK' /\ BlockOK'
  BY <1>1, <1>2, <1>3, <1>4, <1>6 DEF Control, CacheOK, BlockOK, WritesBlocks
<1>12. FlagsOK'
  BY <1>1, <1>2, <1>4, <1>6, <1>7, <1>9 DEF Control, FlagsOK
<1>13. PutOK'
  <2>1. p + reg.arg <= FileMax
    BY <1>1, <1>3
  <2>2. ~IsWriting => p <= file.size
    BY <1>1, <1>3, <1>4 DEF FileIs
  <2> QED
    BY <2>1, <2>2, <1>3, <1>4, <1>6, <1>7, <1>8, <1>9, Constants DEF PutOK
<1>14. OpOK'
  BY <1>1, <1>6, <1>7 DEF Control, OpOK
<1>15. ReadOK'
  BY <1>1, <1>4, <1>6 DEF Control, ReadOK, FlagsOK
<1>16. InlineOK'
  BY <1>1, <1>3, <1>4, <1>5, <1>6 DEF Control, InlineOK, Mid
<1> QED
  BY <1>6, <1>10, <1>11, <1>12, <1>13, <1>14, <1>15, <1>16 DEF Control

LEMMA FillKeeps ==
  ASSUME Control, Fill
  PROVE  Control'
<1>1. /\ pc = "fill"
      /\ reg' = [reg EXCEPT !.todo = IF file.pos < reg.fill THEN <<Zero>> ELSE WriteData]
      /\ CallThen("put", IF file.pos < reg.fill THEN "fill" ELSE "wrote")
      /\ UNCHANGED <<cells, entry, file, cache, pcache, taken, bad, faults, stamp, saved>>
  BY DEF Fill
<1>2. stack # <<>> /\ file.open /\ \A x : x # pc => (On(x) <=> Holds(stack, x))
  BY <1>1, InACall
<1>3. /\ (IsReading <=> IsReading') /\ (IsWriting <=> IsWriting') /\ (IsInline <=> IsInline')
      /\ (IsDirty <=> IsDirty') /\ (IsAppend <=> IsAppend') /\ (IsErred <=> IsErred')
      /\ FileSize' = FileSize
  BY <1>1, SameFile
<1>4. /\ reg.op = "write" /\ reg.arg \in 1 .. FileMax /\ reg.fill + reg.arg <= FileMax
      /\ file.pos <= reg.fill /\ file.pos >= file.size /\ (~IsWriting => file.pos = file.size)
  <2>1. On("fill")
    BY <1>1 DEF On
  <2> QED
    BY <2>1, Sizes DEF Control, OpOK
<1>5. file.pos \in 0 .. FileMax /\ file.size \in 0 .. FileMax /\ reg.fill \in 0 .. FileMax
  BY DEF Control, Typed, FileIs, RegIs
<1>6. PICK r \in {"fill", "wrote"} : r = IF file.pos < reg.fill THEN "fill" ELSE "wrote"
  OBVIOUS
<1>7. PICK t : t = IF file.pos < reg.fill THEN <<Zero>> ELSE WriteData
  OBVIOUS
<1>8. ToDo(t) /\ Len(t) = IF r = "fill" THEN 1 ELSE reg.arg
  BY <1>4, <1>6, <1>7, OneToDo, WriteToDo, Constants DEF Zero
<1>9. /\ RegIs(reg') /\ reg'.op = reg.op /\ reg'.arg = reg.arg /\ reg'.to = reg.to /\ reg'.fill = reg.fill
      /\ reg'.tainted = reg.tainted /\ Len(reg'.todo) = IF r = "fill" THEN 1 ELSE reg.arg
  <2>1. reg' = [reg EXCEPT !.todo = t]
    BY <1>1, <1>7
  <2> QED
    BY <2>1, <1>8 DEF Control, Typed, RegIs
<1>10. /\ StackOK' /\ pc' = "put" /\ stack' # <<>> /\ Head(stack') = r
       /\ \A x : On(x)' <=> x \in {"put", r} \/ Holds(stack, x)
  BY <1>1, <1>2, <1>6, CalledFrom DEF Labels, Returns, Below, Callers
<1>11. \A x : Holds(stack, x) => x = "idle"
  BY <1>1, NotBelow DEF Below
<1>12. Typed'
  BY <1>1, <1>9 DEF Control, Typed
<1>13. CacheOK' /\ BlockOK'
  BY <1>1, <1>2, <1>3, <1>10 DEF Control, CacheOK, BlockOK, WritesBlocks
<1>14. FlagsOK'
  BY <1>1, <1>2, <1>3, <1>9, <1>10, <1>11 DEF Control, FlagsOK
<1>15. PutOK'
  <2>1. r = "fill" => file.pos + 1 <= reg.fill /\ file.pos + 1 <= FileMax
    BY <1>4, <1>5, <1>6, Constants
  <2>2. r = "wrote" => file.pos + reg.arg <= FileMax
    BY <1>4, <1>5, <1>6, Constants
  <2> QED
    BY SMTT(30), <1>1, <1>3, <1>4, <1>5, <1>9, <1>10, <1>11, <2>1, <2>2, Constants DEF PutOK
<1>16. OpOK'
  BY <1>1, <1>3, <1>4, <1>9, <1>10, <1>11 DEF Control, OpOK, On
<1>17. ReadOK'
  BY <1>1, <1>3, <1>10 DEF Control, ReadOK, FlagsOK
<1>18. InlineOK'
  BY <1>1, <1>3, <1>10 DEF Control, InlineOK, Mid
<1> QED
  BY <1>10, <1>12, <1>13, <1>14, <1>15, <1>16, <1>17, <1>18 DEF Control

\* What an operation leaves of its registers.
LEMMA LeftIs ==
  ASSUME RegIs(reg), NEW r, r = Done \/ r = reg \/ r = [Done EXCEPT !.got = reg.got]
  PROVE  RegIs(r) /\ r.tainted = reg.tainted
<1>1. RegIs(Done) /\ Done.tainted = reg.tainted
  BY DoneIs
<1>2. CASE r = Done \/ r = reg
  BY <1>1, <1>2
<1>3. CASE r = [Done EXCEPT !.got = reg.got]
  BY <1>1, <1>3 DEF RegIs
<1> QED
  BY <1>2, <1>3

LEMMA WroteKeeps ==
  ASSUME Control, Wrote
  PROVE  Control'
<1>1. /\ pc = "wrote" /\ file' = [file EXCEPT !.flags = @ \ {"erred"}]
      /\ reg' = IF reg.op = "write" THEN Done ELSE reg
      /\ Return
      /\ UNCHANGED <<cells, entry, cache, pcache, taken, bad, faults, stamp, saved>>
  BY DEF Wrote
<1>2. stack # <<>> /\ file.open /\ \A x : x # pc => (On(x) <=> Holds(stack, x))
  BY <1>1, InACall
<1>3. IsWriting /\ ~IsReading /\ file.pos > 0
  BY <1>1 DEF Control, FlagsOK
<1>4. /\ FileIs(file') /\ file'.pos = file.pos /\ file'.size = file.size /\ file'.block = file.block
      /\ file'.off = file.off /\ file'.head = file.head /\ file'.open = file.open
      /\ ~IsReading' /\ IsWriting' /\ (IsInline <=> IsInline')
      /\ (IsDirty <=> IsDirty') /\ (IsAppend <=> IsAppend') /\ ~IsErred'
  BY <1>1, <1>3 DEF Control, Typed, FileIs, IsReading, IsWriting, IsInline, IsErred, IsDirty, IsAppend, Has
<1>5. FileSize' = FileSize
  BY <1>3, <1>4 DEF FileSize, IsWriting
<1>6. /\ StackOK' /\ pc' \in {"idle", "growing"} /\ \A x : On(x)' <=> Holds(stack, x)
      /\ pc' = "idle" => \A x : Holds(stack, x) => x = "idle"
  BY <1>1, <1>2, Ended DEF Returns
<1>7. \A x : Holds(stack, x) => x \in {"growing", "idle"}
  BY <1>1, NotBelow DEF Below
<1>8. /\ RegIs(reg') /\ reg'.tainted = reg.tainted /\ (Holds(stack, "growing") => reg' = reg /\ reg.op = "grow")
  <2>1. RegIs(reg') /\ reg'.tainted = reg.tainted
    BY <1>1, LeftIs DEF Control, Typed
  <2>2. Holds(stack, "growing") => reg.op = "grow"
    BY <1>1, <1>2 DEF Control, OpOK
  <2> QED
    BY <1>1, <2>1, <2>2
<1>9. ~Mid' /\ ~Puts' /\ ~Mid
  BY <1>1, <1>6 DEF Puts, Mid
<1>10. Typed'
  BY <1>1, <1>4, <1>8 DEF Control, Typed
<1>11. CacheOK' /\ BlockOK'
  BY <1>1, <1>2, <1>3, <1>4, <1>6 DEF Control, CacheOK, BlockOK, WritesBlocks
<1>12. FlagsOK'
  BY <1>1, <1>2, <1>4, <1>6, <1>7, <1>9 DEF Control, FlagsOK
<1>13. PutOK'
  BY <1>9 DEF PutOK
<1>14. OpOK'
  BY <1>1, <1>2, <1>4, <1>5, <1>6, <1>7, <1>8 DEF Control, OpOK
<1>15. ReadOK'
  BY <1>1, <1>4, <1>6 DEF Control, ReadOK
<1>16. InlineOK'
  <2>1. FileSize \in Nat /\ InlineMax \in Nat /\ CacheSize \in Nat /\ file.pos # 0
    BY <1>3, Sizes, SizeTyped, Constants DEF Control, Typed
  <2>2. IsInline => FileSize <= CacheSize /\ ~(FileSize > InlineMax) /\ file.off = file.pos
    BY <1>1, <1>3, <2>1 DEF Control, InlineOK
  <2> QED
    BY <1>3, <1>4, <1>5, <1>6, <2>1, <2>2 DEF InlineOK
<1> QED
  BY <1>6, <1>10, <1>11, <1>12, <1>13, <1>14, <1>15, <1>16 DEF Control

LEMMA ReadStartKeeps ==
  ASSUME Control, ReadStart
  PROVE  Control'
<1>1. /\ pc = "readstart" /\ reg' = [reg EXCEPT !.left = Lesser(reg.arg, Remains), !.got = NoBytes]
      /\ Goto("read")
      /\ UNCHANGED <<cells, entry, file, cache, pcache, taken, bad, faults, stamp, saved>>
  BY DEF ReadStart
<1>2. stack # <<>> /\ file.open /\ \A x : x # pc => (On(x) <=> Holds(stack, x))
  BY <1>1, InACall
<1>3. /\ (IsReading <=> IsReading') /\ (IsWriting <=> IsWriting') /\ (IsInline <=> IsInline')
      /\ (IsDirty <=> IsDirty') /\ (IsAppend <=> IsAppend') /\ (IsErred <=> IsErred')
      /\ FileSize' = FileSize
  BY <1>1, SameFile
<1>4. PICK n : n = Lesser(reg.arg, Remains)
  OBVIOUS
<1>5. n \in 0 .. FileMax /\ n <= reg.arg /\ (n > 0 => file.pos + n <= file.size)
  <2>1. file.pos \in 0 .. FileMax /\ file.size \in 0 .. FileMax /\ reg.arg \in 0 .. FileMax
    BY DEF Control, Typed, FileIs, RegIs
  <2>2. PICK r : r = Remains
    OBVIOUS
  <2>3. r \in 0 .. FileMax /\ (r > 0 => file.pos + r = file.size)
    BY <2>1, <2>2, Constants DEF Remains
  <2>4. n = IF reg.arg < r THEN reg.arg ELSE r
    BY <1>4, <2>2 DEF Lesser
  <2> QED
    BY <2>1, <2>3, <2>4, Constants
<1>6. PICK g : g = NoBytes
  OBVIOUS
<1>7. /\ RegIs(reg') /\ reg'.op = reg.op /\ reg'.arg = reg.arg /\ reg'.to = reg.to /\ reg'.fill = reg.fill
      /\ reg'.tainted = reg.tainted /\ reg'.left = n
  <2>1. RegIs(reg) /\ reg' = [reg EXCEPT !.left = n, !.got = g]
    BY <1>1, <1>4, <1>6 DEF Control, Typed
  <2> QED
    BY <1>5, <2>1 DEF RegIs
<1>8. StackOK' /\ pc' = "read" /\ stack' = stack /\ \A x : On(x)' <=> x = "read" \/ Holds(stack, x)
  BY <1>1, <1>2, WentTo DEF Labels, Returns, Below, Callers
<1>9. ~Mid' /\ ~Puts' /\ ~Mid
  BY <1>1, <1>8 DEF Puts, Mid
<1>10. Typed'
  BY <1>1, <1>7 DEF Control, Typed
<1>11. CacheOK' /\ BlockOK'
  BY <1>1, <1>2, <1>3, <1>8 DEF Control, CacheOK, BlockOK, WritesBlocks
<1>12. FlagsOK'
  BY <1>1, <1>2, <1>3, <1>7, <1>8, <1>9 DEF Control, FlagsOK
<1>13. PutOK'
  BY <1>9 DEF PutOK
<1>14. OpOK'
  BY <1>1, <1>2, <1>3, <1>7, <1>8 DEF Control, OpOK
<1>15. ReadOK'
  BY <1>1, <1>2, <1>3, <1>5, <1>7, <1>8 DEF Control, ReadOK
<1>16. InlineOK'
  BY <1>1, <1>3, <1>8, <1>9 DEF Control, InlineOK
<1> QED
  BY <1>8, <1>10, <1>11, <1>12, <1>13, <1>14, <1>15, <1>16 DEF Control

LEMMA ReadEndKeeps ==
  ASSUME Control, ReadEnd
  PROVE  Control'
<1>1. /\ pc = "read" /\ reg.left = 0 /\ Return
      /\ reg' = IF reg.op = "read" THEN [Done EXCEPT !.got = reg.got] ELSE reg
      /\ UNCHANGED <<cells, entry, file, cache, pcache, taken, bad, faults, stamp, saved>>
  BY DEF ReadEnd
<1>2. stack # <<>> /\ file.open /\ \A x : x # pc => (On(x) <=> Holds(stack, x))
  BY <1>1, InACall
<1>3. /\ (IsReading <=> IsReading') /\ (IsWriting <=> IsWriting') /\ (IsInline <=> IsInline')
      /\ (IsDirty <=> IsDirty') /\ (IsAppend <=> IsAppend') /\ (IsErred <=> IsErred')
      /\ FileSize' = FileSize
  BY <1>1, SameFile
<1>4. /\ StackOK' /\ pc' \in {"idle", "revert"} /\ \A x : On(x)' <=> Holds(stack, x)
      /\ pc' = "idle" => \A x : Holds(stack, x) => x = "idle"
  BY <1>1, <1>2, Ended DEF Returns
<1>5. \A x : Holds(stack, x) => x \in {"revert", "idle"}
  BY <1>1, NotBelow DEF Below
<1>6. /\ RegIs(reg') /\ reg'.tainted = reg.tainted /\ (Holds(stack, "revert") => reg' = reg)
  <2>1. RegIs(reg') /\ reg'.tainted = reg.tainted
    BY <1>1, LeftIs DEF Control, Typed
  <2>2. Holds(stack, "revert") => reg.op = "shrink"
    BY <1>1, <1>2 DEF Control, OpOK
  <2> QED
    BY <1>1, <2>1, <2>2
<1>7. ~Mid' /\ ~Puts' /\ ~Mid
  BY <1>1, <1>4 DEF Puts, Mid
<1>8. Typed'
  BY <1>1, <1>6 DEF Control, Typed
<1>9. CacheOK' /\ BlockOK'
  BY <1>1, <1>2, <1>3, <1>4 DEF Control, CacheOK, BlockOK, WritesBlocks
<1>10. FlagsOK'
  BY <1>1, <1>2, <1>3, <1>4, <1>5, <1>6, <1>7 DEF Control, FlagsOK
<1>11. PutOK'
  BY <1>7 DEF PutOK
<1>12. OpOK'
  BY <1>1, <1>2, <1>3, <1>4, <1>5, <1>6 DEF Control, OpOK
<1>13. ReadOK'
  <2>1. IsWriting => Holds(stack, "revert") /\ (~IsReading => file.pos = 0)
    BY <1>1, <1>2 DEF Control, ReadOK
  <2>2. IsWriting => pc' = "revert"
    BY <1>4, <2>1
  <2> QED
    BY <1>1, <1>2, <1>3, <1>4, <1>6, <2>1, <2>2 DEF Control, ReadOK
<1>14. InlineOK'
  BY <1>1, <1>3, <1>4, <1>7 DEF Control, InlineOK
<1> QED
  BY <1>4, <1>8, <1>9, <1>10, <1>11, <1>12, <1>13, <1>14 DEF Control

\* Where a turn of the read loop reads.
LEMMA PlaceIs ==
  ASSUME Control, pc = "read", reg.left > 0, IsInline \/ Place.block \in Blocks
  PROVE  /\ Place.block \in Blocks \cup {Inline} /\ Place.off \in 0 .. BlockSize - 1
         /\ file.pos + reg.left <= file.size
         /\ IsInline /\ IsReading => Place.off = file.off \/ Place.off = file.pos
         /\ IsInline /\ ~IsReading => Place.off = file.pos
         /\ ~IsInline /\ ~IsReading /\ file.pos = 0 => Place.off = 0
<1>1. file.pos + reg.left <= file.size
  BY DEF Control, ReadOK
<1>2. /\ file.pos \in 0 .. FileMax /\ file.size \in 0 .. FileMax /\ file.off \in 0 .. BlockSize
      /\ file.block \in Blocks \cup {Inline} /\ reg.left \in 0 .. FileMax /\ file.size # 0
  BY <1>1, Constants DEF Control, Typed, FileIs, RegIs
<1>3. CASE ~Seeks
  <2>1. Place.block = file.block /\ Place.off = file.off /\ IsReading /\ file.off # BlockSize
    BY <1>3 DEF Place, Seeks, IsReading
  <2> QED
    BY <1>1, <1>2, <2>1, Constants
<1>4. CASE Seeks /\ IsInline
  <2>1. Place.block = Inline /\ Place.off = file.pos
    BY <1>4 DEF Place, IsInline
  <2>2. FileSize <= CacheSize
    BY <1>4 DEF Control, InlineOK
  <2>3. file.pos < BlockSize
    BY <1>1, <1>2, <2>2, SizeTyped, Sizes, Constants DEF Control, Typed
  <2> QED
    BY <1>1, <1>2, <1>4, <2>1, <2>3, Constants
<1>5. CASE Seeks /\ ~IsInline
  <2>1. Place = lfs_ctz_find(cells, file.head, file.size, file.pos)
    BY <1>5 DEF Place, IsInline
  <2>2. Place.block \in Blocks
    BY <1>5
  <2>3. Place.off = Index[file.pos].off
    BY Zenon, <1>2, <2>1 DEF lfs_ctz_find
  <2>4. Index[file.pos].off \in 0 .. BlockSize - 1 /\ Index[0].off = 0
    <3>1. PICK a : a = PtrSize * Skips(Index[file.pos].i)
      OBVIOUS
    <3>2. Index[file.pos].off \in a .. BlockSize - 1 /\ a \in 0 .. BlockSize - 1
      BY <1>2, <3>1, PlaceTyped, SkipsTyped
    <3> QED
      BY <3>2, Constants, CtzAssumption
  <2> QED
    BY <1>1, <1>5, <2>2, <2>3, <2>4
<1> QED
  BY <1>3, <1>4, <1>5

LEMMA ReadTurnKeeps ==
  ASSUME Control, ReadTurn
  PROVE  Control'
<1>1. PICK diff, got, block, off :
        /\ diff = Lesser(reg.left, BlockSize - Place.off) /\ block = Place.block /\ off = Place.off
        /\ reg' = [reg EXCEPT !.left = @ - diff, !.got = got]
        /\ file' = [file EXCEPT !.block = block, !.off = off + diff, !.pos = @ + diff,
                                !.flags = @ \cup {"reading"}]
  BY DEF ReadTurn
<1>2. /\ pc = "read" /\ reg.left > 0 /\ (IsInline \/ Place.block \in Blocks)
      /\ UNCHANGED <<cells, entry, cache, pcache, taken, bad, faults, stamp, saved, pc, stack>>
  BY DEF ReadTurn, IsInline
<1>3. stack # <<>> /\ file.open /\ \A x : x # pc => (On(x) <=> Holds(stack, x))
  BY <1>2, InACall
<1>4. /\ block \in Blocks \cup {Inline} /\ off \in 0 .. BlockSize - 1
      /\ file.pos + reg.left <= file.size
      /\ IsInline /\ IsReading => off = file.off \/ off = file.pos
      /\ IsInline /\ ~IsReading => off = file.pos
      /\ ~IsInline /\ ~IsReading /\ file.pos = 0 => off = 0
  BY <1>1, <1>2, PlaceIs
<1>5. file.pos \in 0 .. FileMax /\ file.size \in 0 .. FileMax /\ reg.left \in 1 .. FileMax
  BY <1>2, Constants DEF Control, Typed, FileIs, RegIs
<1>6. /\ diff \in 1 .. reg.left /\ off + diff \in 1 .. BlockSize
      /\ diff = reg.left \/ (diff = BlockSize - off /\ diff < reg.left)
  <2>1. diff = IF reg.left < BlockSize - off THEN reg.left ELSE BlockSize - off
    BY <1>1 DEF Lesser
  <2> QED
    BY <1>4, <1>5, <2>1, Constants
<1>7. PICK p, o, n : p = file.pos + diff /\ o = off + diff /\ n = reg.left - diff
  OBVIOUS
<1>8. /\ p \in 1 .. FileMax /\ o \in 1 .. BlockSize /\ n \in 0 .. FileMax /\ p + n <= file.size /\ n <= reg.left
  BY <1>4, <1>5, <1>6, <1>7, Constants
<1>9. /\ FileIs(file') /\ file'.pos = p /\ file'.size = file.size /\ file'.block = block
      /\ file'.off = o /\ file'.head = file.head /\ file'.open = file.open
      /\ IsReading' /\ (IsWriting <=> IsWriting') /\ (IsInline <=> IsInline')
      /\ (IsDirty <=> IsDirty') /\ (IsAppend <=> IsAppend') /\ (IsErred <=> IsErred')
  <2>1. file' = [file EXCEPT !.block = block, !.off = o, !.pos = p, !.flags = file.flags \cup {"reading"}]
    BY <1>1, <1>7
  <2>2. p \in 0 .. FileMax /\ o \in 0 .. BlockSize
    BY <1>8
  <2> QED
    BY <1>4, <2>1, <2>2 DEF Control, Typed, FileIs, IsReading, IsWriting, IsInline, IsErred, IsDirty, IsAppend, Has, Flags
<1>10. /\ RegIs(reg') /\ reg'.op = reg.op /\ reg'.arg = reg.arg /\ reg'.to = reg.to /\ reg'.fill = reg.fill
       /\ reg'.tainted = reg.tainted /\ reg'.left = n
  <2>1. RegIs(reg) /\ reg' = [reg EXCEPT !.left = n, !.got = got]
    BY <1>1, <1>7 DEF Control, Typed
  <2> QED
    BY <1>8, <2>1 DEF RegIs
<1>11. FileSize' = file.size /\ FileSize = file.size
  <2>1. FileSize' = IF IsWriting' THEN Larger(p, file.size) ELSE file.size
    BY <1>9 DEF FileSize, IsWriting
  <2>2. ~(file.size < p) /\ ~(file.size < file.pos)
    BY <1>4, <1>5, <1>8
  <2> QED
    BY <2>1, <2>2, <1>5, <1>8, SizeTyped DEF Larger, Control, Typed
<1>12. /\ ~Mid' /\ ~Puts' /\ ~Mid /\ ~Puts
       /\ \A x : (On(x)' <=> On(x))
  BY <1>2 DEF Puts, Mid, On, For
<1>13. IsWriting => /\ On("revert") /\ (~IsReading => file.pos = 0) /\ ~IsAppend
                    /\ IsErred /\ reg.left <= reg.arg /\ reg.arg \in 0 .. InlineMax
  <2>1. IsWriting => On("revert") /\ (~IsReading => file.pos = 0)
    BY <1>2 DEF Control, ReadOK
  <2>2. On("revert") => reg.left <= reg.arg /\ reg.arg \in 0 .. InlineMax
    BY <1>2 DEF Control, ReadOK, OpOK
  <2>3. IsWriting => ~IsAppend
    BY <1>4, <1>5 DEF Control, BlockOK
  <2>4. IsWriting /\ IsReading => IsErred
    BY DEF Control, ReadOK
  <2>5. IsWriting /\ ~IsReading => IsErred
    BY <1>12, <2>1 DEF Control, InlineOK
  <2> QED
    BY <2>1, <2>2, <2>3, <2>4, <2>5
<1>14. IsWriting => o = p /\ p <= CacheSize /\ (IsInline \/ n = 0)
  <2> SUFFICES ASSUME IsWriting PROVE o = p /\ p <= CacheSize /\ (IsInline \/ n = 0)
    OBVIOUS
  <2>1. CASE IsInline
    <3>1. off = file.pos
      BY <1>4, <2>1 DEF Control, ReadOK
    <3>2. file.size <= CacheSize
      BY <1>11, <2>1 DEF Control, InlineOK
    <3> QED
      BY <1>5, <1>7, <1>8, <2>1, <3>1, <3>2, Sizes
  <2>2. CASE ~IsInline
    <3>1. ~IsReading
      BY <1>2, <1>5, <2>2 DEF Control, ReadOK
    <3>2. file.pos = 0 /\ off = 0
      BY <1>4, <1>13, <2>2, <3>1
    <3>3. reg.left <= CacheSize /\ CacheSize <= BlockSize
      BY <1>5, <1>13, Sizes, Constants
    <3>4. diff = reg.left
      <4>1. BlockSize \in Nat /\ CacheSize \in Nat
        BY Sizes, Constants
      <4> QED
        BY ONLY <1>5, <1>6, <3>2, <3>3, <4>1
    <3> QED
      BY <1>5, <1>7, <3>2, <3>3, <3>4
  <2> QED
    BY <2>1, <2>2
<1>15. cache = NoCache
  <2>1. CASE WritesBlocks
    <3>1. ~IsReading /\ IsWriting /\ file.pos = 0
      BY <2>1, <1>13 DEF WritesBlocks
    <3>2. file.off = 0
      BY <2>1, <3>1 DEF Control, BlockOK
    <3>3. Dirty(file.block, 0) = NoCache
      BY NoneDirty
    <3> QED
      BY <3>2, <3>3 DEF Control, CacheOK
  <2>2. CASE ~WritesBlocks
    BY <2>2 DEF Control, CacheOK
  <2> QED
    BY <2>1, <2>2
<1>16. Typed'
  BY <1>2, <1>9, <1>10 DEF Control, Typed
<1>17. StackOK'
  BY <1>2 DEF Control, StackOK
<1>18. CacheOK' /\ BlockOK'
  <2>1. ~WritesBlocks' /\ ~(IsWriting' /\ IsAppend')
    BY <1>9, <1>13 DEF WritesBlocks
  <2>2. cache' = NoCache /\ pcache' = NoCache
    BY <1>2, <1>15 DEF Control, CacheOK
  <2> QED
    BY <1>9, <2>1, <2>2 DEF Control, CacheOK, BlockOK
<1>19. FlagsOK'
  <2>1. ~On("copy") /\ ~On("commit")
    BY <1>2, <1>3, NotBelow DEF Below
  <2> QED
    BY <1>2, <1>3, <1>9, <1>10, <1>12, <1>13, <2>1 DEF Control, FlagsOK
<1>20. PutOK'
  BY <1>12 DEF PutOK
<1>21. OpOK'
  <2>1. ~On("write") /\ ~On("fill") /\ ~On("cut") /\ ~On("growing")
    BY <1>2, <1>3, NotBelow DEF Below
  <2> QED
    BY <1>10, <1>12, <2>1 DEF Control, OpOK
<1>22. ReadOK'
  <2>1. On("revert") => n <= reg.arg
    <3>1. On("revert") => reg.left <= reg.arg /\ reg.arg \in 0 .. InlineMax
      BY <1>2 DEF Control, ReadOK, OpOK
    <3> QED
      BY <3>1, <1>5, <1>8, Sizes
  <2> QED
    BY <1>2, <1>8, <1>9, <1>10, <1>12, <1>13, <1>14, <2>1 DEF ReadOK
<1>23. InlineOK'
  BY <1>2, <1>9, <1>11, <1>12, <1>13, <1>14 DEF Control, InlineOK
<1> QED
  BY <1>16, <1>17, <1>18, <1>19, <1>20, <1>21, <1>22, <1>23 DEF Control

LEMMA ReadDataFailsKeeps ==
  ASSUME Control, ReadDataFails
  PROVE  Control'
<1>1. PICK block, off :
        /\ block = Place.block /\ off = Place.off
        /\ file' = [file EXCEPT !.block = block, !.off = off, !.flags = @ \cup {"reading"}]
  BY DEF ReadDataFails
<1>2. /\ pc = "read" /\ reg.left > 0 /\ ~IsInline /\ ~IsWriting /\ Place.block \in Blocks /\ Faulty
      /\ reg' = Failed /\ pc' = "idle" /\ stack' = <<>>
      /\ UNCHANGED <<cells, entry, cache, pcache, taken, bad, stamp, saved>>
  BY DEF ReadDataFails, IsInline, IsWriting
<1>3. block \in Blocks /\ off \in 0 .. BlockSize - 1 /\ file.pos + reg.left <= file.size
  BY <1>1, <1>2, PlaceIs
<1>4. /\ file.pos \in 0 .. FileMax /\ file.size \in 1 .. FileMax /\ off \in 0 .. BlockSize
  BY <1>2, <1>3, Constants DEF Control, Typed, FileIs, RegIs
<1>5. /\ FileIs(file') /\ file'.pos = file.pos /\ file'.size = file.size /\ file'.head = file.head
      /\ file'.open = file.open /\ IsReading' /\ ~IsWriting' /\ ~IsInline'
      /\ (IsDirty <=> IsDirty') /\ (IsAppend <=> IsAppend') /\ (IsErred <=> IsErred')
  BY <1>1, <1>2, <1>3, <1>4
     DEF Control, Typed, FileIs, IsReading, IsWriting, IsInline, IsErred, IsDirty, IsAppend, Has, Flags
<1>6. RegIs(reg') /\ (IsErred' => reg'.tainted) /\ file.open
  <2>1. file.open
    BY <1>2, InACall
  <2>2. RegIs(reg') /\ reg'.tainted = reg.tainted
    <3>1. Failed = [Done EXCEPT !.op = "failed"] /\ RegIs(Done) /\ Done.tainted = reg.tainted
      BY DoneIs DEF Failed, Control, Typed
    <3> QED
      BY <1>2, <3>1 DEF RegIs, Operations
  <2> QED
    BY <1>5, <2>1, <2>2 DEF Control, FlagsOK
<1>7. Typed'
  BY <1>2, <1>5, <1>6, FaultCounts DEF Control, Typed
<1>8. StackOK'
  BY <1>2 DEF StackOK, IsStack, Labels
<1>9. ~Puts' /\ ~Mid' /\ \A x : On(x)' <=> x = "idle"
  BY <1>2 DEF Puts, Mid, On, Holds
<1>10. ~WritesBlocks /\ ~WritesBlocks'
  BY <1>2, <1>5 DEF WritesBlocks
<1>11. CacheOK' /\ BlockOK'
  BY <1>2, <1>5, <1>10 DEF Control, CacheOK, BlockOK
<1>12. FlagsOK' /\ PutOK' /\ OpOK'
  BY <1>2, <1>5, <1>6, <1>9 DEF FlagsOK, PutOK, OpOK
<1>13. ReadOK' /\ InlineOK'
  BY <1>2, <1>4, <1>5, <1>9 DEF ReadOK, InlineOK
<1> QED
  BY <1>7, <1>8, <1>11, <1>12, <1>13 DEF Control

LEMMA SeekToIs ==
  ASSUME Control, pc \in {"seek", "sought"}
  PROVE  /\ SeekTo \in 0 .. FileMax
         /\ Holds(stack, "growing") => reg.op = "grow" /\ SeekTo = FileSize
         /\ Holds(stack, "revert") => reg.op = "shrink" /\ SeekTo = 0
<1>1. reg.arg \in 0 .. FileMax /\ reg.to \in 0 .. FileMax
  BY DEF Control, Typed, RegIs
<1>2. Holds(stack, "growing") => On("growing") /\ (pc = "seek" \/ On("sought"))
  BY DEF On
<1>3. Holds(stack, "growing") => reg.op = "grow" /\ reg.to = FileSize
  BY <1>2 DEF Control, OpOK
<1>4. Holds(stack, "revert") => reg.op = "shrink" /\ reg.to = 0
  BY DEF Control, OpOK, On
<1> QED
  BY <1>1, <1>3, <1>4 DEF SeekTo

LEMMA LeaveIs ==
  ASSUME Control, pc \in {"seek", "sought"}
  PROVE  /\ RegIs(Leave) /\ Leave.tainted = reg.tainted
         /\ (Holds(stack, "growing") \/ Holds(stack, "revert")) /\ stack # <<"idle">> => Leave = reg
<1>1. RegIs(Leave) /\ Leave.tainted = reg.tainted
  BY LeftIs DEF Leave, Control, Typed
<1>2. (Holds(stack, "growing") \/ Holds(stack, "revert")) => reg.op # "seek"
  BY SeekToIs
<1> QED
  BY <1>1, <1>2 DEF Leave

\* A seek ends: nothing but the position, and where it is in the cache.
LEMMA SeekEnds ==
  ASSUME Control, pc \in {"seek", "sought"}, Return, reg' = Leave,
         UNCHANGED <<cells, entry, cache, pcache, taken, bad, faults, stamp, saved>>,
         FileIs(file'), file'.size = file.size, file'.pos = SeekTo, file'.block = file.block,
         file'.head = file.head, file'.open = file.open, file'.flags = file.flags,
         file'.pos = file.pos \/ ~IsWriting \/ IsReading,
         IsWriting => pc = "seek" /\ file'.off = IF IsReading THEN file'.pos ELSE file.off,
         IsWriting /\ IsReading => SeekTo <= CacheSize /\ IsInline
  PROVE  Control'
<1>1. stack # <<>> /\ file.open /\ \A x : x # pc => (On(x) <=> Holds(stack, x))
  BY InACall
<1>2. /\ SeekTo \in 0 .. FileMax
      /\ Holds(stack, "growing") => reg.op = "grow" /\ SeekTo = FileSize
      /\ Holds(stack, "revert") => reg.op = "shrink" /\ SeekTo = 0
  BY SeekToIs
<1>3. /\ (IsReading <=> IsReading') /\ (IsWriting <=> IsWriting') /\ (IsInline <=> IsInline')
      /\ (IsDirty <=> IsDirty') /\ (IsAppend <=> IsAppend') /\ (IsErred <=> IsErred')
  BY DEF IsReading, IsWriting, IsInline, IsErred, IsDirty, IsAppend, Has
<1>4. /\ StackOK' /\ pc' \in {"idle", "growing", "readstart"} /\ \A x : On(x)' <=> Holds(stack, x)
      /\ pc' = "idle" => \A x : Holds(stack, x) => x = "idle"
      /\ pc' # "idle" => stack # <<"idle">>
      /\ Holds(stack, pc')
  <2>1. Holds(stack, Head(stack))
    BY <1>1, Popped DEF Control, StackOK
  <2> QED
    BY <1>1, <2>1, Ended DEF Returns
<1>5. \A x : Holds(stack, x) => x \in {"growing", "readstart", "revert", "idle"}
  BY <1>1, NotBelow DEF Below
<1>6. /\ RegIs(reg') /\ reg'.tainted = reg.tainted
      /\ Holds(stack, "growing") \/ Holds(stack, "revert") => reg' = reg
  <2>1. Holds(stack, "growing") \/ Holds(stack, "revert") => stack # <<"idle">>
    BY <1>4
  <2> QED
    BY <2>1, LeaveIs
<1>7. ~Mid' /\ ~Puts' /\ ~Mid
  BY <1>4 DEF Puts, Mid
<1>8. /\ FileSize = IF IsWriting /\ file.size < file.pos THEN file.pos ELSE file.size
      /\ FileSize' = IF IsWriting /\ file.size < SeekTo THEN SeekTo ELSE file.size
      /\ FileSize \in 0 .. FileMax
  <2>1. FileSize' = IF IsWriting' THEN Larger(file'.pos, file'.size) ELSE file'.size
    BY DEF FileSize, IsWriting
  <2> QED
    BY <1>2, <1>3, <2>1, SizeTyped DEF Larger, FileIs, Control, Typed
<1>9. Typed'
  BY <1>6 DEF Control, Typed
<1>10. CacheOK' /\ BlockOK'
  BY <1>1, <1>3, <1>4 DEF Control, CacheOK, BlockOK, WritesBlocks
<1>11. FlagsOK'
  BY <1>1, <1>3, <1>4, <1>5, <1>6, <1>7 DEF Control, FlagsOK
<1>12. PutOK'
  BY <1>7 DEF PutOK
<1>13. OpOK'
  <2>1. Holds(stack, "growing") => file'.pos = FileSize'
    BY <1>2, <1>8 DEF Control, Typed, FileIs
  <2>2. Holds(stack, "revert") => reg'.op = "shrink" /\ reg'.arg \in 0 .. InlineMax /\ reg'.to = 0
    BY <1>1, <1>6 DEF Control, OpOK
  <2> QED
    BY <1>2, <1>4, <1>5, <1>6, <2>1, <2>2 DEF OpOK
<1>14. ReadOK'
  <2>1. pc = "seek" /\ pc' = "readstart" => Holds(stack, "revert")
    BY <1>1, <1>4 DEF Control, ReadOK
  <2>2. Holds(stack, "revert") => file'.pos = 0
    BY <1>2
  <2>3. Holds(stack, "revert") /\ IsWriting /\ ~IsReading => reg.arg < FileSize'
    <3> SUFFICES ASSUME Holds(stack, "revert"), IsWriting, ~IsReading PROVE reg.arg < FileSize'
      OBVIOUS
    <3>1. pc = "seek" /\ On("revert")
      BY DEF On
    <3>2. reg.arg < FileSize
      BY <3>1 DEF Control, ReadOK
    <3>3. FileSize' = FileSize
      BY <1>8
    <3> QED
      BY <3>2, <3>3
  <2>4. IsReading /\ IsWriting => IsErred
    BY DEF Control, ReadOK
  <2> QED
    BY <1>3, <1>4, <1>6, <2>1, <2>2, <2>3, <2>4 DEF ReadOK
<1>15. InlineOK'
  <2>1. IsInline => FileSize' <= CacheSize
    <3>1. IsInline => FileSize <= CacheSize /\ file.size <= FileSize
      BY SizeTyped DEF Control, InlineOK, Typed
    <3> QED
      BY <1>2, <1>8, <3>1, Sizes DEF Control, Typed, FileIs
  <2>2. IsInline /\ FileSize' > InlineMax => IsErred
    <3>1. CASE IsWriting /\ IsReading
      BY <3>1 DEF Control, ReadOK
    <3>2. CASE ~(IsWriting /\ IsReading)
      <4>1. FileSize' = FileSize
        BY <1>8, <3>2
      <4> QED
        BY <4>1 DEF Control, InlineOK
    <3> QED
      BY <3>1, <3>2
  <2>3. IsInline /\ IsWriting => file'.off = file'.pos
    BY DEF Control, InlineOK
  <2>4. IsWriting /\ file'.pos = 0 => IsErred
    BY <1>7 DEF Control, InlineOK, ReadOK
  <2> QED
    BY <1>3, <1>4, <1>7, <2>1, <2>2, <2>3, <2>4 DEF Control, InlineOK
<1> QED
  BY <1>4, <1>9, <1>10, <1>11, <1>12, <1>13, <1>14, <1>15 DEF Control

LEMMA SeekNoopKeeps ==
  ASSUME Control, SeekNoop
  PROVE  Control'
<1>1. /\ pc = "seek" /\ file.pos = SeekTo /\ reg' = Leave /\ Return
      /\ UNCHANGED <<cells, entry, file, cache, pcache, taken, bad, faults, stamp, saved>>
  BY DEF SeekNoop
<1>2. IsWriting /\ IsReading => file.off = file.pos /\ file.pos <= CacheSize /\ IsInline
  BY <1>1 DEF Control, ReadOK
<1> QED
  BY <1>1, <1>2, SeekEnds DEF Control, Typed

LEMMA SeekInCacheKeeps ==
  ASSUME Control, SeekInCache
  PROVE  Control'
<1>1. /\ pc = "seek" /\ IsReading /\ file.off # BlockSize /\ Index[file.pos].i = Index[SeekTo].i
      /\ file' = [file EXCEPT !.pos = SeekTo, !.off = Index[SeekTo].off]
      /\ IsInline => Index[SeekTo].off < CacheSize
      /\ reg' = Leave /\ Return
      /\ UNCHANGED <<cells, entry, cache, pcache, taken, bad, faults, stamp, saved>>
  BY DEF SeekInCache, InCache, SameBlock, IsReading, IsInline
<1>2. SeekTo \in 0 .. FileMax
  BY <1>1, SeekToIs
<1>3. Index[SeekTo].off \in 0 .. BlockSize
  <2>1. PICK a : a = PtrSize * Skips(Index[SeekTo].i)
    OBVIOUS
  <2>2. Index[SeekTo].off \in a .. BlockSize - 1 /\ a \in 0 .. BlockSize - 1
    BY <1>2, <2>1, PlaceTyped, SkipsTyped
  <2> QED
    BY <2>2, Constants
<1>4. /\ FileIs(file') /\ file'.pos = SeekTo /\ file'.size = file.size /\ file'.block = file.block
      /\ file'.off = Index[SeekTo].off /\ file'.head = file.head /\ file'.open = file.open
      /\ file'.flags = file.flags
  BY <1>1, <1>2, <1>3 DEF Control, Typed, FileIs
<1>5. IsWriting => Index[SeekTo].off = SeekTo /\ SeekTo <= CacheSize /\ IsInline
  <2> SUFFICES ASSUME IsWriting PROVE Index[SeekTo].off = SeekTo /\ SeekTo <= CacheSize /\ IsInline
    OBVIOUS
  <2>1. file.off = file.pos /\ file.pos <= CacheSize /\ IsInline
    BY <1>1 DEF Control, ReadOK
  <2>2. file.pos \in 0 .. FileMax /\ file.pos < BlockSize
    BY <1>1, <2>1, Sizes, Constants DEF Control, Typed, FileIs
  <2>3. Index[SeekTo].i = 0
    BY <1>1, <2>2, FirstBlock
  <2>4. SeekTo < BlockSize
    BY <1>2, <2>3, OnlyFirst
  <2>5. Index[SeekTo].off = SeekTo
    BY <1>2, <2>4, FirstBlock
  <2> QED
    BY <1>1, <1>2, <2>1, <2>5, Sizes
<1> QED
  BY <1>1, <1>4, <1>5, SeekEnds

LEMMA SoughtKeeps ==
  ASSUME Control, Sought
  PROVE  Control'
<1>1. /\ pc = "sought" /\ file' = [file EXCEPT !.pos = SeekTo] /\ reg' = Leave /\ Return
      /\ UNCHANGED <<cells, entry, cache, pcache, taken, bad, faults, stamp, saved>>
  BY DEF Sought
<1>2. ~IsWriting /\ SeekTo \in 0 .. FileMax
  BY <1>1, SeekToIs DEF Control, FlagsOK
<1>3. /\ FileIs(file') /\ file'.pos = SeekTo /\ file'.size = file.size /\ file'.block = file.block
      /\ file'.off = file.off /\ file'.head = file.head /\ file'.open = file.open /\ file'.flags = file.flags
  BY <1>1, <1>2, MovedTo DEF Control, Typed
<1> QED
  BY <1>1, <1>2, <1>3, SeekEnds

LEMMA SeekFlushKeeps ==
  ASSUME Control, SeekFlush
  PROVE  Control'
<1>1. /\ pc = "seek" /\ CallThen("flush", "sought")
      /\ UNCHANGED <<cells, entry, file, cache, pcache, taken, bad, faults, stamp, saved, reg>>
  BY DEF SeekFlush
<1>2. stack # <<>> /\ file.open /\ \A x : x # pc => (On(x) <=> Holds(stack, x))
  BY <1>1, InACall
<1>3. /\ (IsReading <=> IsReading') /\ (IsWriting <=> IsWriting') /\ (IsInline <=> IsInline')
      /\ (IsDirty <=> IsDirty') /\ (IsAppend <=> IsAppend') /\ (IsErred <=> IsErred')
      /\ FileSize' = FileSize
  BY <1>1, SameFile
<1>4. /\ StackOK' /\ pc' = "flush" /\ stack' # <<>> /\ Head(stack') = "sought"
      /\ \A x : On(x)' <=> x \in {"flush", "sought"} \/ Holds(stack, x)
  BY <1>1, <1>2, CalledFrom DEF Labels, Returns, Below, Callers
<1>5. \A x : Holds(stack, x) => x \in {"growing", "readstart", "revert", "idle"}
  BY <1>1, NotBelow DEF Below
<1>6. ~Mid' /\ ~Puts' /\ ~Mid
  BY <1>1, <1>4 DEF Puts, Mid
<1>7. Typed'
  BY <1>1 DEF Control, Typed
<1>8. CacheOK' /\ BlockOK'
  BY <1>1, <1>2, <1>3, <1>4 DEF Control, CacheOK, BlockOK, WritesBlocks
<1>9. FlagsOK'
  BY <1>1, <1>2, <1>3, <1>4, <1>5, <1>6 DEF Control, FlagsOK
<1>10. PutOK'
  BY <1>6 DEF PutOK
<1>11. OpOK'
  BY <1>1, <1>2, <1>3, <1>4, <1>5 DEF Control, OpOK
<1>12. ReadOK'
  BY <1>1, <1>3, <1>4 DEF Control, ReadOK
<1>13. InlineOK'
  BY <1>1, <1>3, <1>4, <1>6 DEF Control, InlineOK
<1> QED
  BY <1>4, <1>7, <1>8, <1>9, <1>10, <1>11, <1>12, <1>13 DEF Control

LEMMA RevertKeeps ==
  ASSUME Control, Revert
  PROVE  Control'
<1>1. PICK d, w :
        /\ w = reg.was.position
        /\ file' = [file EXCEPT !.head = Inline, !.size = reg.arg,
                      !.flags = @ \cup {"dirty", "reading", "inline"}, !.data = d]
        /\ reg' = [reg EXCEPT !.to = w]
  BY DEF Revert
<1>2. /\ pc = "revert" /\ cells' = Forget(cache) /\ cache' = NoCache /\ Goto("seek")
      /\ UNCHANGED <<entry, pcache, taken, bad, faults, stamp, saved>>
  BY DEF Revert
<1>3. stack # <<>> /\ file.open /\ \A x : x # pc => (On(x) <=> Holds(stack, x))
  BY <1>2, InACall
<1>4. /\ reg.arg \in 0 .. InlineMax /\ reg.arg \in 0 .. FileMax /\ w \in 0 .. FileMax
      /\ file.pos \in 0 .. FileMax /\ file.size \in 0 .. FileMax
  <2>1. On("revert")
    BY <1>2 DEF On
  <2> QED
    BY <1>1, <2>1 DEF Control, OpOK, Typed, RegIs, FileIs
<1>5. /\ FileIs(file') /\ file'.pos = file.pos /\ file'.size = reg.arg /\ file'.block = file.block
      /\ file'.off = file.off /\ file'.head = Inline /\ file'.open = file.open
      /\ IsReading' /\ (IsWriting <=> IsWriting') /\ IsInline'
      /\ IsDirty' /\ (IsAppend <=> IsAppend') /\ (IsErred <=> IsErred')
  BY <1>1, <1>4 DEF Control, Typed, FileIs, IsReading, IsWriting, IsInline, IsErred, IsDirty, IsAppend, Has, Flags
<1>6. /\ RegIs(reg') /\ reg'.op = reg.op /\ reg'.arg = reg.arg /\ reg'.tainted = reg.tainted
  <2>1. RegIs(reg)
    BY DEF Control, Typed
  <2> QED
    BY <1>1, <1>4, <2>1 DEF RegIs
<1>7. StackOK' /\ pc' = "seek" /\ stack' = stack /\ \A x : On(x)' <=> x = "seek" \/ Holds(stack, x)
  BY <1>2, <1>3, WentTo DEF Labels, Returns, Below, Callers
<1>8. \A x : Holds(stack, x) => x = "idle"
  BY <1>2, NotBelow DEF Below
<1>9. ~Mid' /\ ~Puts' /\ ~Mid
  BY <1>2, <1>7 DEF Puts, Mid
<1>10. CellsAre(cells')
  <2>1. PICK S : cells \in [Blocks -> [0 .. BlockSize - 1 -> S]]
    BY DEF Control, Typed, CellsAre
  <2>2. cells' \in [Blocks -> [0 .. BlockSize - 1 -> S \cup {Gap}]]
    <3>1. CASE cache.block = NotABlock
      BY <1>2, <2>1, <3>1 DEF Forget
    <3>2. CASE cache.block # NotABlock
      <4>1. PICK n : n = cache.off
        OBVIOUS
      <4>2. PICK b \in Blocks : b = cache.block
        BY <3>2, CacheTyped
      <4>3. cells' = [cells EXCEPT ![b] = [i \in DOMAIN @ |-> IF i < n THEN @[i] ELSE Gap]]
        BY <1>2, <3>2, <4>1, <4>2 DEF Forget
      <4>4. [i \in DOMAIN cells[b] |-> IF i < n THEN cells[b][i] ELSE Gap] \in [0 .. BlockSize - 1 -> S \cup {Gap}]
        BY <2>1
      <4>5. \A x \in Blocks : cells[x] \in [0 .. BlockSize - 1 -> S \cup {Gap}]
        BY <2>1
      <4> QED
        BY <2>1, <4>3, <4>4, <4>5
    <3> QED
      BY <3>1, <3>2
  <2> QED
    BY <2>2 DEF CellsAre
<1>11. Typed'
  BY <1>2, <1>5, <1>6, <1>10 DEF Control, Typed
<1>12. IsWriting => IsErred /\ file.off = file.pos /\ file.pos <= CacheSize /\ ~IsAppend
  <2> SUFFICES ASSUME IsWriting PROVE IsErred /\ file.off = file.pos /\ file.pos <= CacheSize /\ ~IsAppend
    OBVIOUS
  <2>1. CASE IsReading
    BY <2>1 DEF Control, ReadOK, BlockOK
  <2>2. CASE ~IsReading
    <3>1. file.pos = 0 /\ On("revert")
      BY <1>2, <2>2 DEF Control, ReadOK, On
    <3>2. IsErred
      BY <1>9, <3>1 DEF Control, InlineOK
    <3>3. file.off = 0
      <4>1. CASE IsInline
        BY <3>1, <4>1 DEF Control, InlineOK
      <4>2. CASE ~IsInline
        BY <1>3, <2>2, <3>1, <4>2 DEF Control, BlockOK, WritesBlocks
      <4> QED
        BY <4>1, <4>2
    <3>4. reg.arg < FileSize
      BY <1>2, <2>2, <3>1 DEF Control, ReadOK
    <3>5. FileSize = file.size
      BY <1>4, <3>1, SizeTyped DEF Control, Typed
    <3>6. ~IsAppend
      BY <1>4, <3>1, <3>4, <3>5 DEF Control, BlockOK
    <3> QED
      BY <3>1, <3>2, <3>3, <3>6, Sizes
  <2> QED
    BY <2>1, <2>2
<1>13. CacheOK' /\ BlockOK'
  BY <1>2, <1>5, <1>12 DEF Control, CacheOK, BlockOK, WritesBlocks
<1>14. FlagsOK'
  BY <1>2, <1>3, <1>5, <1>6, <1>7, <1>8, <1>9 DEF Control, FlagsOK
<1>15. PutOK'
  BY <1>9 DEF PutOK
<1>16. OpOK'
  BY <1>7, <1>8 DEF OpOK
<1>17. ReadOK'
  BY <1>5, <1>7, <1>8, <1>12 DEF ReadOK
<1>18. InlineOK'
  <2>1. FileSize' = IF IsWriting /\ reg.arg < file.pos THEN file.pos ELSE reg.arg
    <3>1. FileSize' = IF IsWriting' THEN Larger(file'.pos, file'.size) ELSE file'.size
      BY DEF FileSize, IsWriting
    <3> QED
      BY <1>4, <1>5, <3>1 DEF Larger
  <2>2. FileSize' <= CacheSize /\ (FileSize' > InlineMax => IsErred)
    BY <1>4, <1>12, <2>1, Sizes, Constants
  <2> QED
    BY <1>5, <1>7, <1>12, <2>2 DEF InlineOK
<1> QED
  BY <1>7, <1>11, <1>13, <1>14, <1>15, <1>16, <1>17, <1>18 DEF Control

LEMMA CutKeeps ==
  ASSUME Control, Cut
  PROVE  Control'
<1>1. PICK b, w :
        /\ w = reg.was.position /\ b \in Blocks
        /\ file' = [file EXCEPT !.pos = reg.arg, !.block = b, !.head = b,
                          !.size = reg.arg, !.flags = @ \cup {"dirty", "reading"}]
        /\ reg' = [reg EXCEPT !.to = w]
  BY DEF Cut
<1>2. /\ pc = "cut" /\ Goto("seek")
      /\ UNCHANGED <<cells, entry, cache, pcache, taken, bad, faults, stamp, saved>>
  BY DEF Cut
<1>3. stack # <<>> /\ file.open /\ \A x : x # pc => (On(x) <=> Holds(stack, x))
  BY <1>2, InACall
<1>4. reg.arg \in InlineMax + 1 .. FileSize /\ reg.arg \in 0 .. FileMax /\ w \in 0 .. FileMax
  <2>1. On("cut")
    BY <1>2 DEF On
  <2> QED
    BY <1>1, <2>1 DEF Control, OpOK, Typed, RegIs
<1>5. ~IsWriting /\ ~IsReading /\ cache = NoCache
  BY <1>2 DEF Control, FlagsOK, CacheOK, WritesBlocks
<1>6. /\ FileIs(file') /\ file'.pos = reg.arg /\ file'.size = reg.arg /\ file'.block = b
      /\ file'.off = file.off /\ file'.head = b /\ file'.open = file.open
      /\ IsReading' /\ ~IsWriting' /\ (IsInline <=> IsInline')
      /\ IsDirty' /\ (IsAppend <=> IsAppend') /\ (IsErred <=> IsErred')
  BY <1>1, <1>4, <1>5 DEF Control, Typed, FileIs, IsReading, IsWriting, IsInline, IsErred, IsDirty, IsAppend, Has, Flags
<1>7. /\ RegIs(reg') /\ reg'.op = reg.op /\ reg'.arg = reg.arg /\ reg'.tainted = reg.tainted
  <2>1. RegIs(reg)
    BY DEF Control, Typed
  <2> QED
    BY <1>1, <1>4, <2>1 DEF RegIs
<1>8. StackOK' /\ pc' = "seek" /\ stack' = stack /\ \A x : On(x)' <=> x = "seek" \/ Holds(stack, x)
  BY <1>2, <1>3, WentTo DEF Labels, Returns, Below, Callers
<1>9. \A x : Holds(stack, x) => x = "idle"
  BY <1>2, NotBelow DEF Below
<1>10. ~Mid' /\ ~Puts' /\ ~Mid
  BY <1>2, <1>8 DEF Puts, Mid
<1>11. Typed'
  BY <1>2, <1>6, <1>7 DEF Control, Typed
<1>12. CacheOK' /\ BlockOK'
  BY <1>1, <1>2, <1>5, <1>6 DEF Control, CacheOK, BlockOK, WritesBlocks
<1>13. FlagsOK'
  BY <1>2, <1>3, <1>6, <1>7, <1>8, <1>9, <1>10 DEF Control, FlagsOK
<1>14. PutOK'
  BY <1>10 DEF PutOK
<1>15. OpOK'
  BY <1>8, <1>9 DEF OpOK
<1>16. ReadOK'
  BY <1>6, <1>8, <1>9 DEF ReadOK
<1>17. InlineOK'
  <2>1. FileSize' = reg.arg
    <3>1. FileSize' = IF IsWriting' THEN Larger(file'.pos, file'.size) ELSE file'.size
      BY DEF FileSize, IsWriting
    <3> QED
      BY <1>6, <3>1
  <2>2. IsInline => FileSize <= CacheSize /\ (FileSize > InlineMax => IsErred)
    BY DEF Control, InlineOK
  <2>3. reg.arg > 0 /\ reg.arg <= FileSize /\ FileSize > InlineMax
    BY <1>4, Sizes, SizeTyped DEF Control, Typed
  <2>4. IsInline => FileSize' <= CacheSize /\ IsErred
    BY <1>4, <2>1, <2>2, <2>3, Sizes, SizeTyped DEF Control, Typed
  <2> QED
    BY <1>6, <1>8, <2>3, <2>4 DEF InlineOK
<1> QED
  BY <1>8, <1>11, <1>12, <1>13, <1>14, <1>15, <1>16, <1>17 DEF Control

\* The steps that change neither the file nor the device.
LEMMA GrowIs ==
  ASSUME Control, pc = "growing"
  PROVE  /\ reg.op = "grow" /\ file.pos = FileSize /\ FileSize \in 0 .. FileMax
         /\ file.size = FileSize \/ IsWriting
         /\ file.size <= FileSize
         /\ IsReading /\ IsWriting => IsInline
         /\ stack # <<>> /\ file.open /\ \A x : x # pc => (On(x) <=> Holds(stack, x))
         /\ \A x : Holds(stack, x) => x = "idle"
<1>1. stack # <<>> /\ file.open /\ \A x : x # pc => (On(x) <=> Holds(stack, x))
  BY InACall
<1>2. \A x : Holds(stack, x) => x = "idle"
  BY NotBelow DEF Below
<1>3. On("growing") /\ ~On("sought")
  BY <1>1, <1>2 DEF On
<1>4. reg.op = "grow" /\ file.pos = FileSize
  BY <1>3 DEF Control, OpOK
<1>5. IsReading /\ IsWriting => IsInline
  BY DEF Control, ReadOK
<1> QED
  BY <1>1, <1>2, <1>4, <1>5, SizeTyped DEF Control, Typed, FileIs

LEMMA GrowStacks ==
  /\ Returns("growing") = {"idle"} /\ Below("growing") = {"idle"}
  /\ Returns("wrote") = {"idle", "growing"} /\ Below("wrote") = {"idle", "growing"}
  /\ "growing" \in Returns("flush") /\ "growing" \in Below("flush") /\ "idle" \in Below("flush")
  /\ "wrote" \in Returns("put") /\ Below("wrote") \cup {"wrote"} \subseteq Below("put")
  /\ {"growing", "wrote", "put", "flush"} \subseteq Labels
BY DEF Returns, Below, Labels, Callers

LEMMA GrowKeeps ==
  ASSUME Control, Grow
  PROVE  Control'
<1>1. /\ pc = "growing" /\ file.pos < reg.arg
      /\ IF IsReading THEN CallThen("flush", "growing") /\ UNCHANGED reg
         ELSE /\ pc' = "put" /\ stack' = <<"wrote", "growing">> \o stack
              /\ reg' = [reg EXCEPT !.todo = <<Zero>>]
      /\ UNCHANGED <<cells, entry, file, cache, pcache, taken, bad, faults, stamp, saved>>
  BY DEF Grow, IsReading
<1>2. /\ reg.op = "grow" /\ file.pos = FileSize /\ FileSize \in 0 .. FileMax
      /\ file.size = FileSize \/ IsWriting
      /\ file.size <= FileSize
      /\ IsReading /\ IsWriting => IsInline
      /\ stack # <<>> /\ file.open /\ \A x : x # pc => (On(x) <=> Holds(stack, x))
      /\ \A x : Holds(stack, x) => x = "idle"
  BY <1>1, GrowIs
<1>3. /\ (IsReading <=> IsReading') /\ (IsWriting <=> IsWriting') /\ (IsInline <=> IsInline')
      /\ (IsDirty <=> IsDirty') /\ (IsAppend <=> IsAppend') /\ (IsErred <=> IsErred')
      /\ FileSize' = FileSize
  BY <1>1, SameFile
<1>4. Typed' /\ reg'.op = reg.op /\ reg'.arg = reg.arg /\ reg'.to = reg.to
      /\ reg'.fill = reg.fill /\ reg'.tainted = reg.tainted /\ (~IsReading => Len(reg'.todo) = 1)
  <2>1. CASE IsReading
    BY <1>1, <2>1 DEF Control, Typed
  <2>2. CASE ~IsReading
    <3>1. PICK t : t = <<Zero>>
      OBVIOUS
    <3>2. ToDo(t) /\ Len(t) = 1 /\ reg' = [reg EXCEPT !.todo = t]
      BY <1>1, <2>2, <3>1, OneToDo DEF Zero
    <3>3. /\ RegIs(reg') /\ reg'.op = reg.op /\ reg'.arg = reg.arg /\ reg'.to = reg.to
          /\ reg'.fill = reg.fill /\ reg'.tainted = reg.tainted /\ Len(reg'.todo) = 1
      BY <3>2 DEF Control, Typed, RegIs
    <3> QED
      BY <1>1, <3>3 DEF Control, Typed
  <2> QED
    BY <2>1, <2>2
<1>5. CASE IsReading
  <2>1. /\ StackOK' /\ pc' = "flush" /\ stack' # <<>> /\ Head(stack') = "growing"
        /\ \A x : On(x)' <=> x \in {"flush", "growing"} \/ Holds(stack, x)
    <3>1. CallThen("flush", "growing")
      BY <1>1, <1>5
    <3> QED
      BY <1>1, <1>2, <3>1, CalledFrom, GrowStacks
  <2>2. ~Mid' /\ ~Puts' /\ ~Mid
    BY <1>1, <2>1 DEF Puts, Mid
  <2>3. CacheOK' /\ BlockOK'
    BY <1>1, <1>2, <1>3, <2>1 DEF Control, CacheOK, BlockOK, WritesBlocks
  <2>4. FlagsOK'
    BY <1>1, <1>2, <1>3, <1>4, <2>1, <2>2 DEF Control, FlagsOK
  <2>5. PutOK'
    BY <2>2 DEF PutOK
  <2>6. OpOK'
    BY <1>1, <1>2, <1>3, <1>4, <1>5, <2>1 DEF OpOK
  <2>7. ReadOK'
    BY <1>1, <1>2, <1>3, <2>1 DEF Control, ReadOK
  <2>8. InlineOK'
    BY <1>1, <1>3, <2>1, <2>2 DEF Control, InlineOK
  <2> QED
    BY <1>4, <2>1, <2>3, <2>4, <2>5, <2>6, <2>7, <2>8 DEF Control
<1>6. CASE ~IsReading
  <2>1. /\ StackOK' /\ pc' = "put" /\ stack' # <<>> /\ Head(stack') = "wrote"
        /\ \A x : On(x)' <=> x \in {"put", "wrote", "growing"} \/ Holds(stack, x)
    <3>1. IsStack("growing", stack) /\ stack # <<>> /\ stack \in Seq(Labels) /\ stack[1] = "idle"
      BY <1>1, <1>2, GrowStacks DEF Control, StackOK, IsStack
    <3>2. /\ IsStack("wrote", <<"growing">> \o stack) /\ <<"growing">> \o stack # <<>>
          /\ Head(<<"growing">> \o stack) = "growing"
          /\ \A x : Holds(<<"growing">> \o stack, x) <=> x = "growing" \/ Holds(stack, x)
      BY <3>1, Pushed, GrowStacks
    <3>3. PICK s : s = <<"growing">> \o stack
      OBVIOUS
    <3>4. IsStack("wrote", s) /\ s # <<>> /\ s[1] = "growing" /\ \A x : Holds(s, x) <=> x = "growing" \/ Holds(stack, x)
      <4>1. Head(s) = s[1]
        BY <3>2, <3>3 DEF IsStack
      <4> QED
        BY <3>2, <3>3, <4>1
    <3>5. /\ IsStack("put", <<"wrote">> \o s) /\ <<"wrote">> \o s # <<>> /\ Head(<<"wrote">> \o s) = "wrote"
          /\ \A x : Holds(<<"wrote">> \o s, x) <=> x = "wrote" \/ Holds(s, x)
      BY <3>4, Pushed, GrowStacks
    <3>6. <<"wrote", "growing">> \o stack = <<"wrote">> \o s
      <4>1. <<"wrote">> \o <<"growing">> = <<"wrote", "growing">>
        BY Joined
      <4>2. <<"wrote">> \in Seq(Labels) /\ <<"growing">> \in Seq(Labels)
        BY DEF Labels
      <4> QED
        BY <3>1, <3>3, <4>1, <4>2, ConcatAssociative
    <3> QED
      BY <1>1, <1>6, <3>4, <3>5, <3>6 DEF StackOK, On
  <2>2. ~Mid' /\ ~Mid
    BY <1>1, <2>1 DEF Mid
  <2>3. CacheOK' /\ BlockOK'
    BY <1>1, <1>2, <1>3, <2>1 DEF Control, CacheOK, BlockOK, WritesBlocks
  <2>4. FlagsOK'
    BY <1>1, <1>2, <1>3, <1>4, <1>6, <2>1, <2>2 DEF Control, FlagsOK
  <2>5. PutOK'
    <3>1. file.pos + 1 <= FileMax /\ file.pos >= file.size /\ (~IsWriting => file.pos <= file.size)
      BY SMTT(30), <1>1, <1>2, Constants DEF Control, Typed, RegIs, FileIs
    <3>2. file' = file /\ Len(reg'.todo) = 1 /\ pc' = "put"
      BY <1>1, <1>4, <1>6
    <3>3. ~On("fill")' /\ ~On("copy")'
      BY <1>2, <2>1
    <3> QED
      BY <1>3, <3>1, <3>2, <3>3 DEF PutOK
  <2>6. OpOK'
    BY <1>1, <1>2, <1>3, <1>4, <2>1 DEF OpOK
  <2>7. ReadOK'
    BY <1>1, <1>2, <1>3, <1>6, <2>1 DEF ReadOK
  <2>8. InlineOK'
    BY <1>1, <1>3, <2>1, <2>2 DEF Control, InlineOK
  <2> QED
    BY <1>4, <2>1, <2>3, <2>4, <2>5, <2>6, <2>7, <2>8 DEF Control
<1> QED
  BY <1>5, <1>6

LEMMA GrowEndKeeps ==
  ASSUME Control, GrowEnd
  PROVE  Control'
<1>1. /\ pc = "growing" /\ reg' = [reg EXCEPT !.to = reg.was.position] /\ Goto("seek")
      /\ UNCHANGED <<cells, entry, file, cache, pcache, taken, bad, faults, stamp, saved>>
  BY DEF GrowEnd
<1>2. /\ stack # <<>> /\ file.open /\ \A x : x # pc => (On(x) <=> Holds(stack, x))
      /\ \A x : Holds(stack, x) => x = "idle"
      /\ IsReading /\ IsWriting => IsInline
  BY <1>1, GrowIs
<1>3. /\ (IsReading <=> IsReading') /\ (IsWriting <=> IsWriting') /\ (IsInline <=> IsInline')
      /\ (IsDirty <=> IsDirty') /\ (IsAppend <=> IsAppend') /\ (IsErred <=> IsErred')
      /\ FileSize' = FileSize
  BY <1>1, SameFile
<1>4. /\ RegIs(reg') /\ reg'.op = reg.op /\ reg'.arg = reg.arg /\ reg'.tainted = reg.tainted
  <2>1. PICK w : w = reg.was.position
    OBVIOUS
  <2>2. RegIs(reg) /\ w \in 0 .. FileMax /\ reg' = [reg EXCEPT !.to = w]
    BY <1>1, <2>1 DEF Control, Typed, RegIs
  <2> QED
    BY <2>2 DEF RegIs
<1>5. StackOK' /\ pc' = "seek" /\ stack' = stack /\ \A x : On(x)' <=> x = "seek" \/ Holds(stack, x)
  BY <1>1, <1>2, WentTo DEF Labels, Returns, Below, Callers
<1>6. ~Mid' /\ ~Puts' /\ ~Mid
  BY <1>1, <1>5 DEF Puts, Mid
<1>7. Typed'
  BY <1>1, <1>4 DEF Control, Typed
<1>8. CacheOK' /\ BlockOK'
  BY <1>1, <1>2, <1>3, <1>5 DEF Control, CacheOK, BlockOK, WritesBlocks
<1>9. FlagsOK'
  BY <1>1, <1>2, <1>3, <1>4, <1>5, <1>6 DEF Control, FlagsOK
<1>10. PutOK' /\ OpOK'
  BY <1>2, <1>5, <1>6 DEF PutOK, OpOK
<1>11. ReadOK'
  BY <1>1, <1>2, <1>3, <1>5 DEF Control, ReadOK
<1>12. InlineOK'
  BY <1>1, <1>3, <1>5, <1>6 DEF Control, InlineOK
<1> QED
  BY <1>5, <1>7, <1>8, <1>9, <1>10, <1>11, <1>12 DEF Control

LEMMA CommitKeeps ==
  ASSUME Control, Commit
  PROVE  Control'
<1>1. /\ pc = "commit" /\ entry' = Struct /\ Goto("end")
      /\ file' = [file EXCEPT !.flags = @ \ {"dirty"}]
      /\ UNCHANGED <<cells, cache, pcache, taken, bad, faults, stamp, reg>>
  BY DEF Commit
<1>2. stack # <<>> /\ file.open /\ \A x : x # pc => (On(x) <=> Holds(stack, x))
  BY <1>1, InACall
<1>3. ~IsErred /\ ~IsWriting /\ ~IsReading
  BY <1>1 DEF On, Control, FlagsOK
<1>4. /\ FileIs(file') /\ file'.pos = file.pos /\ file'.size = file.size /\ file'.block = file.block
      /\ file'.off = file.off /\ file'.head = file.head /\ file'.open = file.open
      /\ ~IsReading' /\ ~IsWriting' /\ (IsInline <=> IsInline')
      /\ (IsAppend <=> IsAppend') /\ ~IsErred'
  BY <1>1, <1>3 DEF Control, Typed, FileIs, IsReading, IsWriting, IsInline, IsErred, IsDirty, IsAppend, Has
<1>5. FileSize' = FileSize /\ FileSize = file.size
  BY <1>3, <1>4 DEF FileSize, IsWriting
<1>6. EntryIs(entry')
  <2>1. CASE IsInline
    <3>1. file.size \in 0 .. InlineMax /\ file.size <= FileMax
      BY <1>3, <1>5, <2>1, Sizes, Constants DEF Control, InlineOK, Typed, FileIs
    <3>2. entry'.type = "inline" /\ DOMAIN entry'.data = 0 .. file.size - 1
      BY <1>1, <2>1 DEF Struct, Bytes, IsInline
    <3> QED
      BY <3>1, <3>2 DEF EntryIs
  <2>2. CASE ~IsInline
    <3>1. file.size # 0 /\ file.head \in Blocks
      BY <1>2, <1>3, <2>2 DEF Control, InlineOK, BlockOK
    <3>2. file.size \in 1 .. FileMax
      BY <3>1, Constants DEF Control, Typed, FileIs
    <3>3. entry'.type = "ctz" /\ entry'.size = file.size /\ entry'.head = file.head
      BY <1>1, <2>2 DEF Struct, IsInline
    <3> QED
      BY <3>1, <3>2, <3>3 DEF EntryIs
  <2> QED
    BY <2>1, <2>2
<1>7. StackOK' /\ pc' = "end" /\ stack' = stack /\ \A x : On(x)' <=> x = "end" \/ Holds(stack, x)
  BY <1>1, <1>2, WentTo DEF Labels, Returns, Below, Callers
<1>8. \A x : Holds(stack, x) => x = "idle"
  BY <1>1, NotBelow DEF Below
<1>9. ~Mid' /\ ~Puts' /\ ~Mid
  BY <1>1, <1>7 DEF Puts, Mid
<1>10. Typed'
  BY <1>1, <1>4, <1>6 DEF Control, Typed
<1>11. CacheOK' /\ BlockOK'
  BY <1>1, <1>3, <1>4 DEF Control, CacheOK, BlockOK, WritesBlocks
<1>12. FlagsOK'
  BY <1>1, <1>2, <1>3, <1>4, <1>7, <1>8, <1>9 DEF Control, FlagsOK
<1>13. PutOK' /\ OpOK'
  BY <1>7, <1>8, <1>9 DEF PutOK, OpOK
<1>14. ReadOK'
  BY <1>4, <1>7 DEF ReadOK
<1>15. InlineOK'
  BY <1>1, <1>3, <1>4, <1>5, <1>7 DEF Control, InlineOK
<1> QED
  BY <1>7, <1>10, <1>11, <1>12, <1>13, <1>14, <1>15 DEF Control

LEMMA CommitNothingKeeps ==
  ASSUME Control, CommitNothing
  PROVE  Control'
<1>1. /\ pc = "commit" /\ Goto("end")
      /\ UNCHANGED <<cells, entry, file, cache, pcache, taken, bad, faults, stamp, saved, reg>>
  BY DEF CommitNothing
<1>2. stack # <<>> /\ file.open /\ \A x : x # pc => (On(x) <=> Holds(stack, x))
  BY <1>1, InACall
<1>3. /\ (IsReading <=> IsReading') /\ (IsWriting <=> IsWriting') /\ (IsInline <=> IsInline')
      /\ (IsDirty <=> IsDirty') /\ (IsAppend <=> IsAppend') /\ (IsErred <=> IsErred')
      /\ FileSize' = FileSize
  BY <1>1, SameFile
<1>4. StackOK' /\ pc' = "end" /\ stack' = stack /\ \A x : On(x)' <=> x = "end" \/ Holds(stack, x)
  BY <1>1, <1>2, WentTo DEF Labels, Returns, Below, Callers
<1>5. \A x : Holds(stack, x) => x = "idle"
  BY <1>1, NotBelow DEF Below
<1>6. ~Mid' /\ ~Puts' /\ ~Mid /\ ~IsWriting
  BY <1>1, <1>4 DEF Puts, Mid, Control, FlagsOK
<1>7. Typed'
  BY <1>1 DEF Control, Typed
<1>8. CacheOK' /\ BlockOK'
  BY <1>1, <1>3, <1>6 DEF Control, CacheOK, BlockOK, WritesBlocks
<1>9. FlagsOK'
  BY <1>1, <1>2, <1>3, <1>4, <1>5, <1>6 DEF Control, FlagsOK
<1>10. PutOK' /\ OpOK'
  BY <1>4, <1>5, <1>6 DEF PutOK, OpOK
<1>11. ReadOK' /\ InlineOK'
  BY <1>1, <1>3, <1>4, <1>6 DEF Control, ReadOK, InlineOK
<1> QED
  BY <1>4, <1>7, <1>8, <1>9, <1>10, <1>11 DEF Control

LEMMA EndKeeps ==
  ASSUME Control, End
  PROVE  Control'
<1>1. pc = "end" /\ UNCHANGED <<entry, pcache, taken, bad, faults, stamp, saved>>
  BY DEF End
<1>2. CASE reg.op = "close"
  BY <1>1, <1>2, GoneKeeps DEF End, Control, Typed
<1>3. CASE reg.op # "close"
  <2>1. Return /\ reg' = Done /\ UNCHANGED <<file, cache, cells>>
    BY <1>3 DEF End
  <2>2. stack # <<>> /\ file.open /\ \A x : x # pc => (On(x) <=> Holds(stack, x))
    BY <1>1, InACall
  <2>3. /\ (IsReading <=> IsReading') /\ (IsWriting <=> IsWriting') /\ (IsInline <=> IsInline')
        /\ (IsDirty <=> IsDirty') /\ (IsAppend <=> IsAppend') /\ (IsErred <=> IsErred')
        /\ FileSize' = FileSize
    BY <2>1, SameFile
  <2>4. StackOK' /\ pc' = "idle" /\ (\A x : On(x)' <=> Holds(stack, x)) /\ (\A x : Holds(stack, x) => x = "idle")
    BY <1>1, <2>1, <2>2, Ended DEF Returns
  <2>5. RegIs(reg') /\ reg'.tainted = reg.tainted
    BY <2>1, DoneIs DEF Control, Typed
  <2>6. ~Mid' /\ ~Puts' /\ ~Mid
    BY <1>1, <2>4 DEF Puts, Mid
  <2>7. Typed'
    BY <1>1, <2>1, <2>5 DEF Control, Typed
  <2>8. CacheOK' /\ BlockOK'
    BY <1>1, <2>1, <2>2, <2>3, <2>4 DEF Control, CacheOK, BlockOK, WritesBlocks
  <2>9. FlagsOK'
    BY <1>1, <2>1, <2>2, <2>3, <2>4, <2>5, <2>6 DEF Control, FlagsOK
  <2>10. PutOK' /\ OpOK'
    BY <2>4, <2>6 DEF PutOK, OpOK
  <2>11. ReadOK' /\ InlineOK'
    BY <1>1, <2>1, <2>3, <2>4, <2>6 DEF Control, ReadOK, InlineOK
  <2> QED
    BY <2>4, <2>7, <2>8, <2>9, <2>10, <2>11 DEF Control
<1> QED
  BY <1>2, <1>3

-----------------------------------------------------------------------------
LEMMA InitIsControl ==
  ASSUME Init
  PROVE  Control
<1>1. /\ cells = [b \in Blocks |-> [i \in 0 .. BlockSize - 1 |-> Gap]]
      /\ entry = [type |-> "inline", data |-> NoBytes] /\ file = NoFile
      /\ cache = NoCache /\ pcache = NoCache
      /\ taken = {} /\ bad = {} /\ faults = 0 /\ stamp = 0
      /\ pc = "idle" /\ stack = <<>> /\ reg = NoReg
  BY DEF Init
<1>2. /\ FileIs(file) /\ file.open = FALSE /\ file.pos = 0 /\ ~IsReading /\ ~IsWriting /\ ~IsInline
      /\ ~IsErred /\ ~IsAppend
  BY <1>1, NoFileIs, NoReaders DEF IsReading, IsWriting, IsInline, IsErred, IsAppend, Has
<1>3. CellsAre(cells)
  <2>1. cells \in [Blocks -> [0 .. BlockSize - 1 -> {Gap}]]
    BY <1>1
  <2> QED
    BY <2>1 DEF CellsAre
<1>4. EntryIs(entry)
  <2>1. 0 \in 0 .. InlineMax /\ 0 <= FileMax /\ entry.type = "inline" /\ DOMAIN entry.data = 0 .. 0 - 1
    BY <1>1, Sizes, Constants DEF NoBytes
  <2> QED
    BY <2>1 DEF EntryIs
<1>5. Typed
  BY <1>1, <1>2, <1>3, <1>4, NoRegIs, Sizes DEF Typed
<1>6. StackOK /\ ~Puts /\ ~Mid /\ \A x : On(x) => x = "idle"
  BY <1>1 DEF StackOK, IsStack, Puts, Mid, On, Holds, Labels
<1>7. CacheOK /\ BlockOK /\ FlagsOK
  BY <1>1, <1>2, <1>6 DEF CacheOK, BlockOK, FlagsOK, WritesBlocks
<1>8. PutOK /\ OpOK /\ ReadOK /\ InlineOK
  BY <1>1, <1>2, <1>6 DEF PutOK, OpOK, ReadOK, InlineOK
<1> QED
  BY <1>5, <1>6, <1>7, <1>8 DEF Control

LEMMA StepKeepsControl ==
  ASSUME Control, Step
  PROVE  Control'
<1>1. CASE Allocating
  BY <1>1, OfferIsBadKeeps, FailingKeeps, RelocateKeeps, ExtendKeeps DEF Allocating, Failing
<1>2. CASE Putting
  BY <1>2, OutlineKeeps, OutlinedKeeps, ChunkInlineKeeps, FailingKeeps, ChunkExtendsKeeps,
     ProgIsBadKeeps, ProgKeeps DEF Putting, Failing
<1>3. CASE Flushing
  BY <1>3, FlushReadsKeeps, FlushInlineKeeps, FlushBlocksKeeps, FailingKeeps, CopyKeeps,
     BdFlushIsBadKeeps, BdFlushKeeps DEF Flushing, Failing
<1>4. CASE Operating
  BY <1>4, WriteTooBigKeeps, WriteGapKeeps, WritePutKeeps, FillKeeps, WroteKeeps,
     ReadStartKeeps, FailingKeeps, ReadDataFailsKeeps, ReadTurnKeeps, ReadEndKeeps,
     SeekNoopKeeps, SeekInCacheKeeps, SeekFlushKeeps, SoughtKeeps,
     RevertKeeps, CutKeeps, GrowKeeps, GrowEndKeeps,
     CommitKeeps, CommitNothingKeeps, EndKeeps DEF Operating, Failing
<1> QED
  BY <1>1, <1>2, <1>3, <1>4 DEF Step

\* "pc" is compared in every part, so each is taken on its own.
LEMMA StutterKeepsControl ==
  ASSUME Control, UNCHANGED vars
  PROVE  Control'
<1>1. /\ UNCHANGED <<cells, entry, file, cache, pcache, taken, bad, faults, stamp, pc, stack, reg>>
  BY DEF vars
<1>2. /\ (IsReading <=> IsReading') /\ (IsWriting <=> IsWriting') /\ (IsInline <=> IsInline')
      /\ (IsDirty <=> IsDirty') /\ (IsAppend <=> IsAppend') /\ (IsErred <=> IsErred')
      /\ FileSize' = FileSize
  BY <1>1, SameFile
<1>3. (\A x : On(x)' <=> On(x)) /\ (\A x : For(x)' <=> For(x)) /\ (Mid <=> Mid') /\ (Puts <=> Puts')
  BY <1>1 DEF On, For, Mid, Puts
<1>4. Typed' /\ StackOK'
  BY <1>1 DEF Control, Typed, StackOK
<1>5. CacheOK' /\ BlockOK'
  BY <1>1, <1>2 DEF Control, CacheOK, BlockOK, WritesBlocks
<1>6. FlagsOK'
  BY <1>1, <1>2, <1>3 DEF Control, FlagsOK
<1>7. PutOK'
  BY <1>1, <1>2, <1>3 DEF Control, PutOK
<1>8. OpOK'
  BY <1>1, <1>2, <1>3 DEF Control, OpOK
<1>9. ReadOK'
  BY <1>1, <1>2, <1>3 DEF Control, ReadOK
<1>10. InlineOK'
  BY <1>1, <1>2, <1>3 DEF Control, InlineOK
<1> QED
  BY <1>4, <1>5, <1>6, <1>7, <1>8, <1>9, <1>10 DEF Control

LEMMA NextKeepsControl ==
  ASSUME Control, [Next]_vars
  PROVE  Control'
BY StepKeepsControl, BeginningKeeps, OpenKeeps, CrashKeeps, StutterKeepsControl DEF Next

\* The invariant of control holds throughout: what the flags of a handle, its
\* offset, its position and its size have to do with one another wherever a
\* call may be, and what a function may return to.
THEOREM ControlHolds == Spec => []Control
<1>1. Init => Control
  BY InitIsControl
<1>2. Control /\ [Next]_vars => Control'
  BY NextKeepsControl
<1> QED
  BY <1>1, <1>2, PTL DEF Spec

LEMMA ControlIsTyped ==
  ASSUME Control
  PROVE  TypeOK
<1>1. Typed /\ StackOK /\ ReadOK /\ InlineOK
  BY DEF Control
<1>2. \A b \in Blocks : DOMAIN cells[b] = 0 .. BlockSize - 1
  BY <1>1, CellsDomain DEF Typed
<1>3. entry.type = "ctz" => entry.size \in 1 .. FileMax /\ entry.head \in Blocks
  BY <1>1 DEF Typed, EntryIs
<1>4. entry.type = "inline" => Cardinality(DOMAIN entry.data) <= InlineMax
  BY <1>1, EntrySize, Sizes DEF Typed
<1>5. /\ file.flags \subseteq Flags /\ file.block \in Blocks \cup {Inline}
      /\ {file.pos, file.size} \subseteq 0 .. FileMax /\ file.off \in 0 .. BlockSize
      /\ file.head \in Blocks \cup {Inline}
  BY <1>1 DEF Typed, FileIs
<1>6. Has("reading") /\ Has("writing") => Has("erred")
  BY <1>1 DEF ReadOK, IsReading, IsWriting, IsErred
<1>7. Has("inline") => FileSize <= CacheSize
  BY <1>1 DEF InlineOK, IsInline
<1>8. cache.block \in Blocks \cup {NotABlock} /\ pcache.block \in Blocks \cup {NotABlock}
  BY CacheTyped
<1>9. taken \subseteq Blocks \cup {NotABlock} /\ bad \subseteq Blocks /\ faults \in 0 .. MaxTrouble /\ stamp \in 0 .. MaxEdits
  BY SMTT(30), <1>1 DEF Typed
<1>10. /\ pc \in Labels /\ (pc = "idle" <=> stack = <<>>)
       /\ \A i \in DOMAIN stack : stack[i] \in Labels /\ (stack[i] = "idle" <=> i = Len(stack))
  <2>1. DOMAIN stack = 1 .. Len(stack) /\ \A i \in DOMAIN stack : stack[i] \in Labels
    BY <1>1 DEF StackOK, IsStack
  <2> QED
    BY <1>1, <2>1 DEF StackOK, IsStack
<1> QED
  BY <1>2, <1>3, <1>4, <1>5, <1>6, <1>7, <1>8, <1>9, <1>10 DEF TypeOK

\* Fields stay in range, the stack ends where the call began, a handle reads and
\* writes at once only after an error, and an inline file fits its cache.
THEOREM TypesHold == Spec => []TypeOK
BY ControlHolds, ControlIsTyped, PTL

\* Programs find the cache empty or at their block: lfs_bd_prog's assertion
\* never fails, whatever blocks turn bad and whatever calls fail.
THEOREM RoomHolds == Spec => []ProgFindsRoom
<1>1. Control => ProgFindsRoom
  BY DEF Control, StackOK, IsStack, ProgFindsRoom
<1> QED
  BY <1>1, ControlHolds, PTL

-----------------------------------------------------------------------------
(***************************************************************************)
(* The lists of blocks.                                                    *)
(***************************************************************************)
Body(n, L) == {L[i] : i \in 1 .. n}
All(n, L) == {L[i] : i \in 0 .. n}

\* Blocks that the allocator will not offer: it knows them, or it offers none.
Safe(known, X) == NotABlock \in known \/ X \subseteq known

\* What the allocator knows counts while a call runs and no scan is half done.
InCall == pc \notin {"idle", "end", "panic"}
Kept(X) == InCall /\ ~ScanMidway => Safe(taken, X)

\* The entry of the directory: a list, if it says so.
EntryListed == \E L : OnList(cells, Last(entry.size), entry.head, L)
EntryOK == (entry.type = "ctz" => EntryListed) /\ Kept(EntryBlocks)

\* The list of the handle: its size in bytes decides its length.
HeadListed ==
  \E L : /\ OnList(cells, Last(file.size), file.head, L)
         /\ Kept(Body(Last(file.size), L))
         /\ WritesBlocks => file.block \notin Body(Last(file.size), L)

\* A flush after an error has taken for the last byte's block the one after it.
LongerListed ==
  \E L : /\ OnList(cells, Last(file.size) + 1, file.head, L)
         /\ Kept(Body(Last(file.size) + 1, L))
Skewed == IsErred /\ IsDirty /\ ~IsWriting /\ Last(file.size) >= 2 /\ LongerListed

Committed == entry.type = "ctz" /\ entry.head = file.head /\ entry.size = file.size
\* A handle that is not written to has the committed list, or is about to.
HeadOK ==
  file.open /\ ~IsInline /\ file.head \in Blocks =>
    /\ file.size > 0 => HeadListed \/ Skewed
    /\ IsDirty \/ Committed \/ (IsWriting /\ file.size <= CacheSize)

\* The number of the block that is written, and whether it is a block further
\* than the byte before the position.
Here == IF file.off = BlockSize THEN Last(file.pos) ELSE Index[file.pos].i
AtPlace ==
  IF file.off = BlockSize THEN file.pos > 0 /\ Index[file.pos - 1].off = BlockSize - 1
  ELSE file.off = Index[file.pos].off
Ahead == file.pos > 0 /\ Last(file.pos) # Here
MayBeAhead == (IsErred /\ pc # "wrote") \/ pc = "chunk" \/ (pc = "relocate" /\ For("chunk"))

\* The list that a write builds ends in the block it writes.
WriteListed ==
  \E L : /\ OnList(cells, Here, file.block, L)
         /\ Kept(Body(Here, L))
         /\ file.block \notin Body(Here - 1, L)
WriteOK ==
  WritesBlocks =>
    /\ file.block \notin EntryBlocks
    /\ AtPlace /\ (Ahead => MayBeAhead)
    /\ WriteListed

\* lfs_ctz_extend has a list to extend, and a scan has seen it.
ExtendListed ==
  \E L : OnList(cells, Last(file.pos), file.block, L) /\ All(Last(file.pos), L) \subseteq Traversed
ExtendOK ==
  pc = "extend" =>
    /\ ~ScanMidway => Traversed \subseteq taken
    /\ ~IsWriting /\ file.pos > 0 => Skewed \/ ExtendListed

\* A handle that reads is where its position is.
PlaceOK ==
  IsReading /\ ~IsWriting /\ ~IsInline /\ ~IsErred /\ file.off # BlockSize /\ file.size > 0
  /\ Index[file.pos].i <= Last(file.size) =>
    /\ file.block = lfs_ctz_find(cells, file.head, file.size, file.pos).block
    /\ file.pos < file.size => file.off = Index[file.pos].off

Listed == EntryOK /\ SavedIsIntact /\ HeadOK /\ WriteOK /\ ExtendOK /\ PlaceOK

-----------------------------------------------------------------------------
LEMMA Placed ==
  ASSUME Control
  PROVE  /\ file.pos \in 0 .. FileMax /\ file.size \in 0 .. FileMax /\ file.off \in 0 .. BlockSize
         /\ file.block \in Blocks \cup {NotABlock} /\ file.head \in Blocks \cup {NotABlock}
         /\ DOMAIN cells = Blocks /\ NotABlock \notin DOMAIN cells /\ NotABlock \notin Blocks
BY CellsDomain, Sizes DEF Control, Typed, FileIs, Inline

\* Where the block after the one of the byte before the position begins.
LEMMA HereIs ==
  ASSUME Control, AtPlace
  PROVE  /\ Here \in 0 .. Most
         /\ file.pos = 0 => Here = 0
         /\ file.pos > 0 => file.pos \in 1 .. FileMax /\ Last(file.pos) \in 0 .. Most /\ Here \in {Last(file.pos), Last(file.pos) + 1}
         /\ Here > 0 => PtrSize * Skips(Here) <= file.off
<1>1. file.pos \in 0 .. FileMax /\ Index[file.pos].i \in 0 .. Most /\ Most \in 0 .. 255
  BY Placed, BlocksAreFew
<1>2. CASE file.pos = 0
  <2>1. Index[0].i = 0 /\ Index[0].off = 0
    BY FirstBlock, Constants
  <2>2. file.off # BlockSize /\ Here = 0
    BY <1>2, <2>1 DEF AtPlace, Here
  <2> QED
    BY <1>1, <1>2, <2>2
<1>3. CASE file.pos > 0
  <2> PICK q : q = file.pos - 1
    OBVIOUS
  <2>1. q \in 0 .. FileMax - 1 /\ q \in 0 .. FileMax /\ q + 1 = file.pos /\ file.pos \in 1 .. FileMax
    BY <1>1, <1>3, Constants
  <2>2. Last(file.pos) \in 0 .. Most
    BY <2>1, LastTyped
  <2>3. Last(file.pos) = Index[q].i
    BY DEF Last
  <2>4. Index[file.pos].i \in {Index[q].i, Index[q].i + 1}
    BY <2>1, NextPlaceIs
  <2>5. Here \in {Last(file.pos), Last(file.pos) + 1} /\ Here \in 0 .. Most
    BY <1>1, <2>2, <2>3, <2>4 DEF Here
  <2>6. PtrSize * Skips(Here) <= file.off
    <3>1. CASE file.off = BlockSize
      <4>1. PtrSize * Skips(Here) \in 0 .. BlockSize - 1
        BY <2>5, SkipsTyped
      <4> PICK m : m = PtrSize * Skips(Here)
        OBVIOUS
      <4> QED
        BY <4>1, <3>1, Constants
    <3>2. CASE file.off # BlockSize
      <4>1. file.off = Index[file.pos].off /\ Here = Index[file.pos].i
        BY <3>2 DEF AtPlace, Here
      <4>2. Index[file.pos].off \in PtrSize * Skips(Index[file.pos].i) .. BlockSize - 1
        BY <1>1, PlaceTyped
      <4> PICK m : m = PtrSize * Skips(Here)
        OBVIOUS
      <4>3. file.off \in m .. BlockSize - 1
        BY <4>1, <4>2
      <4> QED
        BY <4>3
    <3> QED
      BY <3>1, <3>2
  <2> QED
    BY <1>1, <1>3, <2>1, <2>2, <2>5, <2>6
<1> QED
  BY <1>1, <1>2, <1>3

LEMMA EntryIsList ==
  ASSUME Control, entry.type = "ctz", NEW L, OnList(cells, Last(entry.size), entry.head, L)
  PROVE  EntryBlocks = All(Last(entry.size), L) /\ entry.size \in 1 .. FileMax
<1>1. entry.size \in 1 .. FileMax
  BY DEF Control, Typed, EntryIs
<1>2. lfs_ctz_traverse(cells, entry.head, entry.size) = {L[i] : i \in 0 .. Last(entry.size)}
  BY <1>1, TraverseOnList
<1> QED
  BY <1>1, <1>2 DEF EntryBlocks, All

\* What is committed stays as long as its blocks do.
LEMMA EntrySame ==
  ASSUME Control, EntryOK, entry' = entry, DOMAIN cells' = Blocks,
         \A b \in EntryBlocks \cap Blocks : cells'[b] = cells[b]
  PROVE  EntryBlocks' = EntryBlocks /\ EntryContent' = EntryContent /\ (entry.type = "ctz" => EntryListed')
<1>1. CASE entry.type = "inline"
  BY <1>1 DEF EntryContent, EntryBlocks
<1>2. CASE entry.type # "inline"
  <2>1. entry.type = "ctz" /\ entry.size \in 1 .. FileMax
    BY <1>2 DEF Control, Typed, EntryIs
  <2>2. PICK L : OnList(cells, Last(entry.size), entry.head, L)
    BY <2>1 DEF EntryOK, EntryListed
  <2>3. EntryBlocks = All(Last(entry.size), L) /\ DOMAIN cells = Blocks
    BY <2>1, <2>2, EntryIsList, Placed
  <2>4. \A i \in 0 .. Last(entry.size) : L[i] \in EntryBlocks /\ L[i] \in Blocks
    BY <2>2, <2>3 DEF All, OnList
  <2>5. Last(entry.size) \in 0 .. Most /\ \A i \in 1 .. Last(entry.size) : i \in 0 .. Last(entry.size)
    BY <2>1, LastTyped
  <2>6. OnList(cells', Last(entry.size), entry.head, L)
    <3>1. \A i \in 1 .. Last(entry.size) : cells'[L[i]] = cells[L[i]]
      BY <2>4, <2>5
    <3> QED
      BY <2>2, <2>3, <3>1, SameCells
  <2>7. lfs_ctz_traverse(cells', entry.head, entry.size) = {L[i] : i \in 0 .. Last(entry.size)}
    BY <2>1, <2>6, TraverseOnList
  <2>8. EntryBlocks' = EntryBlocks
    BY <2>1, <2>3, <2>7 DEF EntryBlocks, All
  <2>9. \A p \in 0 .. entry.size - 1 : CellAt(entry.head, entry.size, p)' = CellAt(entry.head, entry.size, p)
    <3> TAKE p \in 0 .. entry.size - 1
    <3>1. p \in 0 .. FileMax /\ Index[p].i \in 0 .. Last(entry.size)
      BY <2>1, LastTyped
    <3>2. Index[p].i <= Last(entry.size)
      BY <3>1, <2>5
    <3> PICK at : at = [block |-> L[Index[p].i], off |-> Index[p].off]
      OBVIOUS
    <3>3. lfs_ctz_find(cells, entry.head, entry.size, p) = at
      BY <2>1, <2>2, <3>1, <3>2, FindOnList
    <3>4. lfs_ctz_find(cells', entry.head, entry.size, p) = at
      BY <2>1, <2>6, <3>1, <3>2, FindOnList
    <3>5. at.block \in EntryBlocks \cap Blocks /\ cells'[at.block] = cells[at.block]
      BY <2>4, <3>1
    <3> QED
      BY <3>3, <3>4, <3>5 DEF CellAt
  <2>10. EntryContent' = EntryContent
    BY <2>1, <2>9 DEF EntryContent
  <2> QED
    BY <2>1, <2>6, <2>8, <2>10 DEF EntryListed
<1> QED
  BY <1>1, <1>2

LEMMA EntryKeeps ==
  ASSUME Control, EntryOK, SavedIsIntact, entry' = entry, saved' = saved, DOMAIN cells' = Blocks,
         \A b \in EntryBlocks \cap Blocks : cells'[b] = cells[b],
         InCall' /\ ~ScanMidway => Safe(taken', EntryBlocks)
  PROVE  EntryOK' /\ SavedIsIntact' /\ EntryBlocks' = EntryBlocks
<1>1. EntryBlocks' = EntryBlocks /\ EntryContent' = EntryContent /\ (entry.type = "ctz" => EntryListed')
  BY EntrySame
<1> QED
  BY <1>1 DEF EntryOK, SavedIsIntact, Kept

LEMMA FindSame ==
  ASSUME NEW c, NEW d, NEW h, NEW L, NEW size \in 1 .. FileMax, NEW pos \in 0 .. FileMax,
         OnList(c, Last(size), h, L), OnList(d, Last(size), h, L), Index[pos].i <= Last(size)
  PROVE  lfs_ctz_find(c, h, size, pos) = lfs_ctz_find(d, h, size, pos)
<1>1. lfs_ctz_find(c, h, size, pos) = [block |-> L[Index[pos].i], off |-> Index[pos].off]
  BY FindOnList
<1>2. lfs_ctz_find(d, h, size, pos) = [block |-> L[Index[pos].i], off |-> Index[pos].off]
  BY FindOnList
<1> QED
  BY <1>1, <1>2

-----------------------------------------------------------------------------
(***************************************************************************)
(* What the traversal finds.                                               *)
(***************************************************************************)
LEMMA BodyInAll ==
  ASSUME NEW n \in Nat, NEW L
  PROVE  Body(n, L) \subseteq All(n, L) /\ (n = 0 => Body(n, L) = {})
BY DEF Body, All

HeadCovered ==
  file.open /\ ~IsInline /\ file.head \in Blocks /\ file.size > 0
  /\ (IsDirty \/ Committed \/ (IsWriting /\ file.size <= CacheSize)) =>
    /\ \A L : OnList(cells, Last(file.size), file.head, L) =>
         /\ Safe(Traversed, Body(Last(file.size), L))
         /\ IsDirty \/ Committed => All(Last(file.size), L) \subseteq Traversed
    /\ IsDirty /\ Last(file.size) >= 2 =>
         \A L : OnList(cells, Last(file.size) + 1, file.head, L) => NotABlock \in Traversed

LEMMA HeadIsCovered ==
  ASSUME Control
  PROVE  HeadCovered
<1> SUFFICES ASSUME file.open, ~IsInline, file.head \in Blocks, file.size > 0,
                    IsDirty \/ Committed \/ (IsWriting /\ file.size <= CacheSize)
             PROVE  /\ \A L : OnList(cells, Last(file.size), file.head, L) =>
                         /\ Safe(Traversed, Body(Last(file.size), L))
                         /\ IsDirty \/ Committed => All(Last(file.size), L) \subseteq Traversed
                    /\ IsDirty /\ Last(file.size) >= 2 =>
                         \A L : OnList(cells, Last(file.size) + 1, file.head, L) => NotABlock \in Traversed
  BY DEF HeadCovered
<1>1. file.size \in 1 .. FileMax /\ Last(file.size) \in 0 .. Most /\ Last(file.size) \in Nat /\ NotABlock \notin DOMAIN cells
  BY Placed, LastTyped
<1>2. IsDirty => lfs_ctz_traverse(cells, file.head, file.size) \subseteq Traversed
  <2>1. file.head # Inline
    BY Placed DEF Inline
  <2> QED
    BY <2>1 DEF Traversed, OpenBlocks, OpenList, IsDirty, IsInline
<1>3. Committed => lfs_ctz_traverse(cells, file.head, file.size) \subseteq Traversed
  BY DEF Committed, Traversed, EntryBlocks
<1>4. ASSUME NEW L, OnList(cells, Last(file.size), file.head, L)
      PROVE  /\ Safe(Traversed, Body(Last(file.size), L))
             /\ IsDirty \/ Committed => All(Last(file.size), L) \subseteq Traversed
  <2>1. lfs_ctz_traverse(cells, file.head, file.size) = All(Last(file.size), L)
    BY <1>1, <1>4, TraverseOnList DEF All
  <2>2. Body(Last(file.size), L) \subseteq All(Last(file.size), L)
    BY <1>1, BodyInAll
  <2>3. file.size <= CacheSize => Body(Last(file.size), L) = {}
    <3>1. ASSUME file.size <= CacheSize PROVE Last(file.size) = 0
      <4>1. file.size - 1 \in 0 .. FileMax /\ file.size - 1 < BlockSize
        BY <1>1, <3>1, Sizes, Constants
      <4> QED
        BY <4>1, FirstBlock DEF Last
    <3> QED
      BY <1>1, <3>1, BodyInAll
  <2> QED
    BY <1>2, <1>3, <2>1, <2>2, <2>3 DEF Safe
<1>5. ASSUME IsDirty, Last(file.size) >= 2, NEW L, OnList(cells, Last(file.size) + 1, file.head, L)
      PROVE  NotABlock \in Traversed
  BY <1>1, <1>2, <1>5, TraverseSkewed
<1> QED
  BY <1>4, <1>5

WriteCovered ==
  WritesBlocks /\ AtPlace =>
    \A L : OnList(cells, Here, file.block, L) => Safe(Traversed, Body(Here, L))

LEMMA WriteIsCovered ==
  ASSUME Control
  PROVE  WriteCovered
<1> SUFFICES ASSUME WritesBlocks, AtPlace, NEW L, OnList(cells, Here, file.block, L)
             PROVE  Safe(Traversed, Body(Here, L))
  BY DEF WriteCovered
<1>0. file.open /\ IsWriting /\ (IsInline => pc = "outlined")
  BY DEF WritesBlocks
<1>1. /\ Here \in 0 .. Most /\ Here \in Nat /\ (file.pos = 0 => Here = 0)
      /\ file.pos > 0 => file.pos \in 1 .. FileMax /\ Last(file.pos) \in 0 .. Most /\ Here \in {Last(file.pos), Last(file.pos) + 1}
  BY HereIs
<1>2. CASE Here = 0
  BY <1>1, <1>2, BodyInAll DEF Safe
<1>3. CASE Here # 0
  <2>1. file.pos \in 1 .. FileMax /\ Here \in {Last(file.pos), Last(file.pos) + 1} /\ Last(file.pos) \in 0 .. Most
    BY <1>1, <1>3, Placed
  <2>2. IsInline => Here = 0
    <3>1. ASSUME IsInline PROVE Here = 0
      <4>1. file.off = file.pos /\ file.pos <= CacheSize
        BY <1>0, <3>1 DEF Control, PutOK, Puts, Mid
      <4>2. file.pos - 1 \in 0 .. FileMax /\ file.pos - 1 < BlockSize /\ file.pos \in 0 .. FileMax
        BY <2>1, <4>1, Sizes, Constants
      <4>3. Last(file.pos) = 0
        BY <4>2, FirstBlock DEF Last
      <4>4. file.pos < BlockSize => Index[file.pos].i = 0
        BY <4>2, FirstBlock
      <4>5. file.off # BlockSize => file.pos < BlockSize
        BY <4>1, <4>2, Sizes, Constants
      <4> QED
        BY <4>3, <4>4, <4>5 DEF Here
    <3> QED
      BY <3>1
  <2>3. ~IsInline
    BY <1>3, <2>2
  <2>4. file.block \in Blocks /\ file.block # Inline /\ NotABlock \notin DOMAIN cells
    <3>1. L[Here] \in DOMAIN cells \ {NotABlock}
      BY <1>1 DEF OnList
    <3> QED
      BY <3>1, Placed DEF Inline, OnList
  <2>5. lfs_ctz_traverse(cells, file.block, file.pos) \subseteq Traversed
    BY <1>0, <2>3, <2>4 DEF Traversed, OpenBlocks, OpenList, IsWriting, IsInline
  <2>6. CASE Here = Last(file.pos)
    <3>1. lfs_ctz_traverse(cells, file.block, file.pos) = All(Here, L)
      BY <2>1, <2>6, TraverseOnList DEF All
    <3> QED
      BY <1>1, <2>5, <3>1, BodyInAll DEF Safe
  <2>7. CASE Here # Last(file.pos)
    <3>1. OnList(cells, Last(file.pos) + 1, file.block, L)
      BY <2>1, <2>7
    <3>2. IF Last(file.pos) >= 2 THEN NotABlock \in lfs_ctz_traverse(cells, file.block, file.pos)
          ELSE lfs_ctz_traverse(cells, file.block, file.pos) = {L[i] : i \in 1 .. Last(file.pos) + 1}
      BY <2>1, <2>4, <3>1, TraverseSkewed
    <3>3. Here = Last(file.pos) + 1
      BY <2>1, <2>7
    <3> QED
      BY <2>5, <3>2, <3>3 DEF Safe, Body
  <2> QED
    BY <2>6, <2>7
<1> QED
  BY <1>2, <1>3

LEMMA HeadIsCoveredNext == Control' => HeadCovered'
<1>1. Control => HeadCovered
  BY HeadIsCovered
<1> QED
  BY <1>1, PTL

LEMMA WriteIsCoveredNext == Control' => WriteCovered'
<1>1. Control => WriteCovered
  BY WriteIsCovered
<1> QED
  BY <1>1, PTL

LEMMA SafeGrows ==
  ASSUME NEW t, NEW u, NEW X, t \subseteq u, Safe(t, X)
  PROVE  Safe(u, X)
BY DEF Safe

LEMMA SafeShrinks ==
  ASSUME NEW t, NEW X, NEW Y, Y \subseteq X, Safe(t, X)
  PROVE  Safe(t, Y)
BY DEF Safe

\* No block is offered that is to be kept.
LEMMA OfferIsFree ==
  ASSUME HasOffer, NEW X, ~ScanMidway => Safe(taken, X), Safe(Traversed, X)
  PROVE  Offer \notin X
<1>1. Offer \in Blocks \ Taken /\ NotABlock \notin Taken
  BY OfferIs
<1>2. taken \subseteq Taken /\ (ScanMidway => Traversed \subseteq Taken)
  BY DEF Taken
<1> QED
  BY <1>1, <1>2 DEF Safe

-----------------------------------------------------------------------------
(***************************************************************************)
(* Steps that leave the lists alone.                                       *)
(***************************************************************************)
LEMMA KeptStays ==
  ASSUME NEW X, Kept(X), taken \subseteq taken', InCall' => InCall
  PROVE  InCall' /\ ~ScanMidway => Safe(taken', X)
BY SafeGrows DEF Kept

LEMMA HeadKeeps ==
  ASSUME HeadOK, UNCHANGED <<cells, entry>>, taken \subseteq taken', InCall' => InCall,
         file'.open => file.open, file'.head = file.head, file'.size = file.size,
         IsInline => IsInline', IsWriting' <=> IsWriting, IsDirty => IsDirty', IsErred => IsErred' \/ IsWriting,
         WritesBlocks' => WritesBlocks /\ file'.block = file.block
  PROVE  HeadOK'
<1>1. HeadListed => HeadListed'
  <2>1. ASSUME HeadListed PROVE HeadListed'
    <3>1. PICK L : /\ OnList(cells, Last(file.size), file.head, L)
                   /\ Kept(Body(Last(file.size), L))
                   /\ WritesBlocks => file.block \notin Body(Last(file.size), L)
      BY <2>1 DEF HeadListed
    <3>2. InCall' /\ ~ScanMidway => Safe(taken', Body(Last(file.size), L))
      BY <3>1, KeptStays
    <3> QED
      BY <3>1, <3>2 DEF HeadListed, Kept
  <2> QED
    BY <2>1
<1>2. Skewed => Skewed'
  <2>1. ASSUME Skewed PROVE Skewed'
    <3>1. PICK L : /\ OnList(cells, Last(file.size) + 1, file.head, L)
                   /\ Kept(Body(Last(file.size) + 1, L))
      BY <2>1 DEF Skewed, LongerListed
    <3>2. InCall' /\ ~ScanMidway => Safe(taken', Body(Last(file.size) + 1, L))
      BY <3>1, KeptStays
    <3>3. LongerListed'
      BY <3>1, <3>2 DEF LongerListed, Kept
    <3> QED
      BY <2>1, <3>3 DEF Skewed
  <2> QED
    BY <2>1
<1>3. Committed => Committed'
  BY DEF Committed
<1> QED
  BY <1>1, <1>2, <1>3 DEF HeadOK

LEMMA WriteKeeps ==
  ASSUME WriteOK, UNCHANGED <<cells, entry>>, taken \subseteq taken', InCall' => InCall,
         WritesBlocks' => /\ WritesBlocks /\ (Ahead => MayBeAhead')
                          /\ file'.block = file.block /\ file'.off = file.off /\ file'.pos = file.pos
  PROVE  WriteOK'
<1> SUFFICES ASSUME WritesBlocks' PROVE WriteOK'
  BY DEF WriteOK
<1>1. WritesBlocks /\ file.block \notin EntryBlocks /\ AtPlace /\ WriteListed
  BY DEF WriteOK
<1>2. EntryBlocks' = EntryBlocks /\ AtPlace' /\ (Ahead' <=> Ahead) /\ Here' = Here
  BY <1>1 DEF EntryBlocks, AtPlace, Ahead, Here
<1>3. PICK L : /\ OnList(cells, Here, file.block, L)
               /\ Kept(Body(Here, L))
               /\ file.block \notin Body(Here - 1, L)
  BY <1>1 DEF WriteListed
<1>4. InCall' /\ ~ScanMidway => Safe(taken', Body(Here, L))
  BY <1>3, KeptStays
<1>5. WriteListed'
  BY <1>2, <1>3, <1>4 DEF WriteListed, Kept
<1> QED
  BY <1>1, <1>2, <1>5 DEF WriteOK

LEMMA QuietKeeps ==
  ASSUME Control, Listed, UNCHANGED <<cells, entry, saved>>, taken \subseteq taken', InCall' => InCall,
         pc' # "extend",
         file'.open => file.open, file'.head = file.head, file'.size = file.size,
         IsInline => IsInline', IsWriting' <=> IsWriting, IsDirty => IsDirty', IsErred => IsErred' \/ IsWriting,
         WritesBlocks' => /\ WritesBlocks /\ (Ahead => MayBeAhead')
                          /\ file'.block = file.block /\ file'.off = file.off /\ file'.pos = file.pos,
         IsReading' => /\ IsReading /\ (IsInline' => IsInline) /\ (IsErred => IsErred')
                       /\ file'.block = file.block /\ file'.off = file.off /\ file'.pos = file.pos
  PROVE  Listed'
<1>1. EntryOK' /\ SavedIsIntact'
  <2>1. InCall' /\ ~ScanMidway => Safe(taken', EntryBlocks)
    BY KeptStays DEF Listed, EntryOK
  <2>2. DOMAIN cells = Blocks
    BY Placed
  <2> QED
    BY <2>1, <2>2, EntryKeeps DEF Listed
<1>2. HeadOK'
  BY HeadKeeps DEF Listed
<1>3. WriteOK'
  BY WriteKeeps DEF Listed
<1>4. ExtendOK'
  BY DEF ExtendOK
<1>5. PlaceOK'
  BY DEF Listed, PlaceOK
<1> QED
  BY <1>1, <1>2, <1>3, <1>4, <1>5 DEF Listed

\* The file stays as it is.
LEMMA UntouchedKeeps ==
  ASSUME Control, Listed, UNCHANGED <<cells, entry, saved, file>>, taken \subseteq taken', InCall' => InCall,
         pc' \notin {"extend", "outlined"},
         WritesBlocks /\ Ahead => MayBeAhead'
  PROVE  Listed'
<1>1. /\ (IsReading <=> IsReading') /\ (IsWriting <=> IsWriting') /\ (IsInline <=> IsInline')
      /\ (IsDirty <=> IsDirty') /\ (IsErred <=> IsErred')
  BY DEF IsReading, IsWriting, IsInline, IsErred, IsDirty, Has
<1>2. WritesBlocks' => WritesBlocks
  BY <1>1 DEF WritesBlocks
<1> QED
  BY <1>1, <1>2, QuietKeeps

LEMMA AheadIsKnown ==
  ASSUME Control, Listed, WritesBlocks, Ahead, pc \notin {"chunk", "relocate"}
  PROVE  IsErred /\ pc # "wrote"
BY DEF Listed, WriteOK, MayBeAhead

LEMMA CallHead ==
  ASSUME Control, NEW l, NEW r, CallThen(l, r), r \in Labels
  PROVE  pc' = l /\ stack' # <<>> /\ Head(stack') = r
<1>1. pc' = l /\ stack' = <<r>> \o stack /\ stack \in Seq(Labels)
  BY DEF CallThen, Control, StackOK, IsStack
<1>2. <<r>> \o stack # <<>> /\ Head(<<r>> \o stack) = r
  BY <1>1
<1> QED
  BY <1>1, <1>2

LEMMA ReturnsTo ==
  ASSUME Control, Return, pc # "idle"
  PROVE  pc' \in Returns(pc)
BY InACall, ReturnedTo

\* Going on elsewhere.
LEMMA GoingKeeps ==
  ASSUME Control, Listed,
         Fill \/ Copy \/ FlushBlocks \/ ReadStart \/ SeekFlush \/ Grow \/ GrowEnd \/ CommitNothing
  PROVE  Listed'
<1>1. /\ UNCHANGED <<cells, entry, saved, file, taken>>
      /\ pc \in {"fill", "copy", "flush", "readstart", "seek", "growing", "commit"}
      /\ pc' \in {"put", "copy", "read", "flush", "seek", "end"}
  BY DEF Fill, Copy, FlushBlocks, ReadStart, SeekFlush, Grow, GrowEnd, CommitNothing, Goto, CallThen
<1>2. IsErred' <=> IsErred
  BY <1>1, SameFile
<1>3. InCall /\ (WritesBlocks /\ Ahead => MayBeAhead')
  BY <1>1, <1>2, AheadIsKnown DEF InCall, MayBeAhead
<1> QED
  BY <1>1, <1>3, UntouchedKeeps

LEMMA ReturningKeeps ==
  ASSUME Control, Listed, pc \in {"read", "seek", "end"}, Return, UNCHANGED <<cells, entry, saved, file, taken>>
  PROVE  Listed'
<1>1. pc' \in {"idle", "revert", "growing", "readstart"}
  BY ReturnsTo DEF Returns
<1>2. IsErred' <=> IsErred
  BY SameFile
<1>3. (WritesBlocks /\ Ahead => MayBeAhead') /\ (InCall' => InCall)
  <2>1. pc = "end" => pc' = "idle"
    BY ReturnsTo DEF Returns
  <2> QED
    BY <1>1, <1>2, <2>1, AheadIsKnown DEF InCall, MayBeAhead
<1> QED
  BY <1>1, <1>3, UntouchedKeeps

\* A block is bad: the search for another begins.
LEMMA TurnedBadKeeps ==
  ASSUME Control, Listed, ProgIsBad \/ BdFlushIsBad
  PROVE  Listed'
<1>1. /\ UNCHANGED <<cells, entry, saved, file, taken>>
      /\ (pc \in {"put", "chunk"} /\ CallThen("relocate", "chunk")) \/ (pc = "copy" /\ CallThen("relocate", "copy"))
  BY WritingIs DEF ProgIsBad, BdFlushIsBad, Copied, Writing
<1>2. pc' = "relocate" /\ (pc # "copy" => For("chunk")')
  <2>1. CASE pc # "copy" /\ CallThen("relocate", "chunk")
    BY <2>1, CallHead DEF For, Labels
  <2>2. CASE pc = "copy" /\ CallThen("relocate", "copy")
    BY <2>2, CallHead DEF Labels
  <2> QED
    BY <1>1, <2>1, <2>2
<1>3. IsErred' <=> IsErred
  BY <1>1, SameFile
<1>4. InCall /\ (WritesBlocks /\ Ahead => MayBeAhead')
  BY <1>1, <1>2, <1>3, AheadIsKnown DEF InCall, MayBeAhead
<1> QED
  BY <1>1, <1>2, <1>4, UntouchedKeeps

LEMMA SameListsKeep ==
  ASSUME Control, Listed, UNCHANGED <<cells, entry, saved, file, pc, stack>>, taken \subseteq taken'
  PROVE  Listed'
<1>1. UNCHANGED <<cells, entry, saved, file, pc, stack>>
  OBVIOUS
<1>2. /\ (IsReading <=> IsReading') /\ (IsWriting <=> IsWriting') /\ (IsInline <=> IsInline')
      /\ (IsDirty <=> IsDirty') /\ (IsErred <=> IsErred')
  BY <1>1, SameFile
<1>3. (InCall' <=> InCall) /\ (WritesBlocks' <=> WritesBlocks) /\ (MayBeAhead' <=> MayBeAhead) /\ taken \subseteq taken'
  BY <1>1, <1>2 DEF InCall, WritesBlocks, MayBeAhead, For
<1>4. EntryOK' /\ SavedIsIntact'
  <2>1. InCall' /\ ~ScanMidway => Safe(taken', EntryBlocks)
    BY <1>3, KeptStays DEF Listed, EntryOK
  <2> QED
    BY <1>1, <2>1, EntryKeeps, Placed DEF Listed
<1>5. HeadOK'
  BY <1>1, <1>2, <1>3, HeadKeeps DEF Listed
<1>6. WriteOK'
  BY <1>1, <1>2, <1>3, WriteKeeps DEF Listed, WriteOK
<1>7. ExtendOK'
  <2>1. Traversed' = Traversed
    BY <1>1 DEF Traversed, EntryBlocks, OpenBlocks, OpenList, Has
  <2>2. ExtendListed => ExtendListed'
    BY <1>1, <2>1 DEF ExtendListed
  <2>3. Skewed => Skewed'
    <3>1. ASSUME Skewed PROVE LongerListed'
      <4>1. PICK L : /\ OnList(cells, Last(file.size) + 1, file.head, L)
                     /\ Kept(Body(Last(file.size) + 1, L))
        BY <3>1 DEF Skewed, LongerListed
      <4>2. InCall' /\ ~ScanMidway => Safe(taken', Body(Last(file.size) + 1, L))
        BY <1>3, <4>1, KeptStays
      <4> QED
        BY <1>1, <4>1, <4>2 DEF LongerListed, Kept
    <3> QED
      BY <1>1, <1>2, <3>1 DEF Skewed
  <2> QED
    BY <1>1, <1>2, <1>3, <2>1, <2>2, <2>3 DEF Listed, ExtendOK
<1>8. PlaceOK'
  BY <1>1, <1>2 DEF Listed, PlaceOK
<1> QED
  BY <1>4, <1>5, <1>6, <1>7, <1>8 DEF Listed

LEMMA OfferIsBadKeepsLists ==
  ASSUME Control, Listed, RelocateIsBad \/ ExtendIsBad
  PROVE  Listed'
BY SameListsKeep DEF RelocateIsBad, ExtendIsBad, OfferIsBad

LEMMA StutterKeepsLists ==
  ASSUME Control, Listed, UNCHANGED vars
  PROVE  Listed'
BY SameListsKeep DEF vars

\* What is committed stays when no block is touched.
LEMMA EntryStays ==
  ASSUME Control, Listed, UNCHANGED <<cells, entry, saved>>, taken \subseteq taken', InCall' => InCall
  PROVE  EntryOK' /\ SavedIsIntact' /\ EntryBlocks' = EntryBlocks
<1>1. InCall' /\ ~ScanMidway => Safe(taken', EntryBlocks)
  BY KeptStays DEF Listed, EntryOK
<1>2. DOMAIN cells = Blocks
  BY Placed
<1> QED
  BY <1>1, <1>2, EntryKeeps DEF Listed

\* No list is open.
LEMMA BareKeeps ==
  ASSUME EntryOK', SavedIsIntact', IsInline' \/ file' = NoFile, pc' \notin {"extend", "outlined"}
  PROVE  Listed'
<1>1. file' = NoFile => ~file'.open /\ ~IsReading'
  BY NoFileIs DEF IsReading, Has
<1>2. HeadOK'
  BY <1>1 DEF HeadOK
<1>3. WriteOK'
  BY <1>1 DEF WriteOK, WritesBlocks
<1>4. ExtendOK' /\ PlaceOK'
  BY <1>1 DEF ExtendOK, PlaceOK
<1> QED
  BY <1>2, <1>3, <1>4 DEF Listed

\* The list that an open file reads.
LEMMA ListRead ==
  ASSUME Control, Listed, file.open, ~IsInline, ~IsWriting, ~IsErred, file.size > 0
  PROVE  HeadListed /\ file.size \in 1 .. FileMax
<1>1. file.head \in Blocks
  BY DEF Control, BlockOK
<1> QED
  BY <1>1, Placed DEF Listed, HeadOK, Skewed

LEMMA MovingKeeps ==
  ASSUME Control, Listed, UNCHANGED <<cells, entry, saved>>, taken \subseteq taken', InCall' => InCall,
         pc' # "extend",
         file'.open => file.open, file'.head = file.head, file'.size = file.size,
         IsInline => IsInline', IsWriting' <=> IsWriting, IsDirty => IsDirty', IsErred => IsErred' \/ IsWriting,
         WritesBlocks' => /\ WritesBlocks /\ (Ahead => MayBeAhead')
                          /\ file'.block = file.block /\ file'.off = file.off /\ file'.pos = file.pos,
         PlaceOK'
  PROVE  Listed'
<1>1. EntryOK' /\ SavedIsIntact'
  BY EntryStays
<1>2. HeadOK'
  BY HeadKeeps DEF Listed
<1>3. WriteOK'
  BY WriteKeeps DEF Listed
<1>4. ExtendOK'
  BY DEF ExtendOK
<1> QED
  BY <1>1, <1>2, <1>3, <1>4 DEF Listed

-----------------------------------------------------------------------------
LEMMA FlushReadsKeepsLists ==
  ASSUME Control, Listed, FlushReads
  PROVE  Listed'
<1>1. /\ pc = "flush" /\ IsReading /\ pc' = pc /\ stack' = stack /\ reg' = reg
      /\ file' = [file EXCEPT !.flags = @ \ {"reading"}]
      /\ UNCHANGED <<entry, taken, saved>>
  BY DEF FlushReads, IsReading
<1>2. cache = NoCache
  BY <1>1 DEF Control, CacheOK, WritesBlocks
<1>3. cells' = cells
  BY <1>2 DEF FlushReads, Forget, NoCache, NotABlock
<1>4. /\ ~IsReading' /\ (IsWriting <=> IsWriting') /\ (IsInline <=> IsInline')
      /\ (IsErred <=> IsErred') /\ (IsDirty <=> IsDirty')
      /\ file'.size = file.size /\ file'.head = file.head /\ file'.open = file.open
  BY <1>1 DEF Control, Typed, FileIs, IsReading, IsWriting, IsInline, IsErred, IsDirty, Has
<1>5. ~WritesBlocks'
  BY <1>1, <1>4 DEF Control, ReadOK, WritesBlocks
<1>6. InCall /\ pc' # "extend"
  BY <1>1 DEF InCall
<1> QED
  BY <1>1, <1>3, <1>4, <1>5, <1>6, QuietKeeps

LEMMA WroteKeepsLists ==
  ASSUME Control, Listed, Wrote
  PROVE  Listed'
<1>1. /\ pc = "wrote" /\ Return /\ file' = [file EXCEPT !.flags = @ \ {"erred"}]
      /\ UNCHANGED <<cells, entry, taken, saved>>
  BY DEF Wrote
<1>2. pc' \in {"idle", "growing"}
  BY <1>1, ReturnsTo DEF Returns
<1>3. /\ (IsReading' <=> IsReading) /\ (IsWriting <=> IsWriting') /\ (IsInline <=> IsInline')
      /\ (IsDirty <=> IsDirty')
      /\ file'.size = file.size /\ file'.head = file.head /\ file'.open = file.open
      /\ file'.block = file.block /\ file'.off = file.off /\ file'.pos = file.pos
  BY <1>1 DEF Control, Typed, FileIs, IsReading, IsWriting, IsInline, IsDirty, Has
<1>4. ~IsReading /\ IsWriting
  BY <1>1 DEF Control, FlagsOK
<1>5. WritesBlocks' => WritesBlocks
  BY <1>2, <1>3 DEF WritesBlocks
<1>6. WritesBlocks => ~Ahead
  BY <1>1 DEF Listed, WriteOK, MayBeAhead
<1>7. InCall /\ pc' # "extend"
  BY <1>1, <1>2 DEF InCall
<1> QED
  BY <1>1, <1>3, <1>4, <1>5, <1>6, <1>7, QuietKeeps

\* lfs_file_write_ up to the first byte, and lfs_file_seek_ after a flush.
LEMMA PositionedKeeps ==
  ASSUME Control, Listed, WriteTooBig \/ WriteGap \/ WritePut \/ Sought
  PROVE  Listed'
<1>1. /\ UNCHANGED <<cells, entry, saved, taken>> /\ pc \in {"write", "sought"}
      /\ \E p : file' = [file EXCEPT !.pos = p] /\ (pc = "write" => p \in {WritePos, file.size})
                /\ (p # WritePos => ~IsWriting)
  <2>1. CASE WriteTooBig \/ WritePut
    BY <2>1 DEF WriteTooBig, WritePut
  <2>2. CASE WriteGap
    BY <2>2 DEF WriteGap, HasGap, IsWriting
  <2>3. CASE Sought
    BY <2>3 DEF Sought, Control, FlagsOK
  <2> QED
    BY <2>1, <2>2, <2>3
<1>2. pc' \in {"idle", "fill", "put", "growing", "readstart"}
  <2>1. CASE WriteTooBig
    BY <2>1, ReturnsTo DEF WriteTooBig, Returns
  <2>2. CASE WriteGap \/ WritePut
    BY <2>2 DEF WriteGap, WritePut, Goto, CallThen
  <2>3. CASE Sought
    BY <2>3, ReturnsTo DEF Sought, Returns
  <2> QED
    BY <2>1, <2>2, <2>3
<1>3. PICK p : file' = [file EXCEPT !.pos = p] /\ (p # WritePos => ~IsWriting)
  BY <1>1
<1>4. /\ (IsReading' <=> IsReading) /\ (IsWriting <=> IsWriting') /\ (IsInline <=> IsInline')
      /\ (IsDirty <=> IsDirty') /\ (IsErred <=> IsErred')
      /\ file'.size = file.size /\ file'.head = file.head /\ file'.open = file.open
      /\ file'.block = file.block /\ file'.off = file.off /\ file'.pos = p
  BY <1>3 DEF Control, Typed, FileIs, IsReading, IsWriting, IsInline, IsErred, IsDirty, Has
<1>5. ~IsReading /\ (pc = "sought" => ~IsWriting)
  BY <1>1 DEF Control, FlagsOK
<1>6. IsWriting => p = file.pos
  BY <1>1, <1>3, <1>5, WritePosIs
<1>7. WritesBlocks' => WritesBlocks /\ file'.pos = file.pos
  BY <1>2, <1>4, <1>6 DEF WritesBlocks
<1>8. WritesBlocks /\ Ahead => MayBeAhead'
  BY <1>1, <1>2, <1>4, AheadIsKnown DEF MayBeAhead
<1>9. InCall /\ pc' # "extend"
  BY <1>1, <1>2 DEF InCall
<1> QED
  BY <1>1, <1>4, <1>5, <1>7, <1>8, <1>9, QuietKeeps

LEMMA ChunkInlineKeepsLists ==
  ASSUME Control, Listed, ChunkInline
  PROVE  Listed'
<1>1. /\ Writing /\ IsInline
      /\ file' = [file EXCEPT !.block = Inline, !.off = file.pos, !.flags = @ \cup {"writing"}]
      /\ pc' = "chunk" /\ UNCHANGED <<cells, entry, taken, saved>>
  BY DEF ChunkInline, IsInline, Goto
<1>2. pc \in {"put", "chunk"}
  BY <1>1, WritingIs
<1>3. IsInline' /\ InCall
  BY <1>1, <1>2 DEF Control, Typed, FileIs, IsInline, Has, InCall
<1>4. EntryOK' /\ SavedIsIntact'
  BY <1>1, <1>3, EntryStays
<1> QED
  BY <1>1, <1>3, <1>4, BareKeeps

LEMMA FlushInlineKeepsLists ==
  ASSUME Control, Listed, FlushInline
  PROVE  Listed'
<1>1. /\ pc = "flush" /\ Return /\ UNCHANGED <<cells, entry, taken, saved>>
      /\ (IsWriting /\ IsInline /\ file' = Flushed(Larger(file.pos, file.size), file.pos)) \/ file' = file
  BY DEF FlushInline, IsWriting, IsInline
<1>2. pc' \in {"write", "readstart", "cut", "commit", "sought", "growing"} /\ InCall
  BY <1>1, ReturnsTo DEF Returns, InCall
<1>3. CASE file' = file
  <2>1. IsErred' <=> IsErred
    BY <1>3, SameFile
  <2>2. WritesBlocks /\ Ahead => MayBeAhead'
    BY <1>1, <1>2, <2>1, AheadIsKnown DEF MayBeAhead
  <2> QED
    BY <1>1, <1>2, <1>3, <2>2, UntouchedKeeps
<1>4. CASE IsInline /\ file' = Flushed(Larger(file.pos, file.size), file.pos)
  <2>1. IsInline'
    BY <1>4 DEF Flushed, Control, Typed, FileIs, IsInline, Has
  <2>2. EntryOK' /\ SavedIsIntact'
    BY <1>1, <1>2, EntryStays
  <2> QED
    BY <1>2, <2>1, <2>2, BareKeeps
<1> QED
  BY <1>1, <1>3, <1>4

LEMMA OutlineKeepsLists ==
  ASSUME Control, Listed, Outline
  PROVE  Listed'
<1>1. /\ pc = "put" /\ IsInline /\ file' = [file EXCEPT !.off = file.pos] /\ taken' = Ckpoint
      /\ pc' = "relocate" /\ UNCHANGED <<cells, entry, saved>>
  BY DEF Outline, Outlines, IsInline, CallThen
<1>2. IsInline'
  BY <1>1 DEF Control, Typed, FileIs, IsInline, Has
<1>3. ~ScanMidway => Safe(taken', EntryBlocks)
  BY <1>1 DEF Ckpoint, Traversed, Safe
<1>4. EntryOK' /\ SavedIsIntact'
  BY <1>1, <1>3, EntryKeeps, Placed DEF Listed
<1> QED
  BY <1>1, <1>2, <1>4, BareKeeps

-----------------------------------------------------------------------------
LEMMA GoneKeepsLists ==
  ASSUME Control, Listed, Gone, UNCHANGED <<entry, saved>>
  PROVE  Listed'
<1>1. file' = NoFile /\ pc' = "idle" /\ cells' = Only(EntryBlocks, cells)
  BY DEF Gone
<1>2. DOMAIN cells' = Blocks /\ \A b \in EntryBlocks \cap Blocks : cells'[b] = cells[b]
  BY <1>1 DEF Only
<1>3. EntryOK' /\ SavedIsIntact'
  BY <1>1, <1>2, EntryKeeps DEF Listed, InCall
<1> QED
  BY <1>1, <1>3, BareKeeps

LEMMA CrashKeepsLists ==
  ASSUME Control, Listed, Crash
  PROVE  Listed'
BY GoneKeepsLists DEF Crash

LEMMA FailKeepsLists ==
  ASSUME Control, Listed, NEW flags \in SUBSET {"erred"}, Fail(flags), UNCHANGED <<entry, saved, taken>>,
         WritesBlocks /\ Ahead => IsErred \/ flags # {}, pc \notin {"outlined", "idle"}
  PROVE  Listed'
<1>1. CASE reg.op = "close"
  BY <1>1, GoneKeepsLists DEF Fail
<1>2. CASE reg.op # "close"
  <2>1. file' = [file EXCEPT !.flags = @ \cup flags] /\ pc' = "idle" /\ cells' = cells
    BY <1>2 DEF Fail
  <2>2. /\ (IsReading <=> IsReading') /\ (IsWriting <=> IsWriting') /\ (IsInline <=> IsInline')
        /\ (IsDirty <=> IsDirty') /\ (IsErred' <=> IsErred \/ flags # {})
        /\ file'.pos = file.pos /\ file'.size = file.size /\ file'.block = file.block /\ file'.off = file.off
        /\ file'.head = file.head /\ file'.open = file.open
    BY <2>1 DEF Control, Typed, FileIs, IsReading, IsWriting, IsInline, IsErred, IsDirty, Has, Flags
  <2>3. WritesBlocks' <=> WritesBlocks
    BY <2>1, <2>2 DEF WritesBlocks
  <2>4. WritesBlocks /\ Ahead => MayBeAhead'
    BY <2>1, <2>2 DEF MayBeAhead
  <2>5. ~InCall' /\ pc' # "extend"
    BY <2>1 DEF InCall
  <2> QED
    BY <2>1, <2>2, <2>3, <2>4, <2>5, QuietKeeps
<1> QED
  BY <1>1, <1>2

LEMMA FailingKeepsLists ==
  ASSUME Control, Listed, Failing
  PROVE  Listed'
<1>1. InSync \in SUBSET {"erred"} /\ RelocateSets \in SUBSET {"erred"} /\ {} \in SUBSET {"erred"}
  BY DEF InSync, Sets, RelocateSets
<1>2. CASE RelocateNoSpace
  <2>1. pc = "relocate" /\ Fail(RelocateSets) /\ UNCHANGED <<entry, taken, saved>>
    BY <1>2 DEF RelocateNoSpace, NoBlockLeft
  <2>2. For("chunk") => RelocateSets # {}
    BY DEF For, RelocateSets, Sets
  <2>3. WritesBlocks /\ Ahead => IsErred \/ RelocateSets # {}
    BY <2>1, <2>2 DEF Listed, WriteOK, MayBeAhead
  <2> QED
    BY <1>1, <2>1, <2>3, FailKeepsLists
<1>3. CASE ExtendNoSpace \/ ChunkFindFails
  <2>1. Fail({"erred"}) /\ UNCHANGED <<entry, taken, saved>> /\ pc \in {"extend", "put", "chunk"}
    BY <1>3 DEF ExtendNoSpace, ChunkFindFails, NoBlockLeft, Writing
  <2> QED
    BY <2>1, FailKeepsLists
<1>4. CASE CopyFails \/ ReadFails \/ CutFails \/ SyncFails \/ CommitFails
  <2>1. PICK flags \in SUBSET {"erred"} : Fail(flags) /\ UNCHANGED <<entry, taken, saved>>
    BY <1>1, <1>4 DEF CopyFails, ReadFails, CutFails, SyncFails, CommitFails
  <2>2. pc \in {"copy", "read", "cut", "commit"}
    BY <1>4 DEF CopyFails, ReadFails, CutFails, SyncFails, CommitFails
  <2> QED
    BY <2>1, <2>2, AheadIsKnown, FailKeepsLists
<1> QED
  BY <1>2, <1>3, <1>4 DEF Failing

-----------------------------------------------------------------------------
LEMMA OpenKeepsLists ==
  ASSUME Control, Listed, Open
  PROVE  Listed'
<1>1. PICK how \in Opens : file' = Opened(how)
  BY DEF Open
<1>2. pc = "idle" /\ UNCHANGED <<cells, entry, taken, saved, pc>>
  BY DEF Open
<1>3. EntryOK' /\ SavedIsIntact'
  BY <1>2, EntryStays DEF InCall
<1> DEFINE inline == "trunc" \in how \/ entry.type = "inline"
           flags == (IF how \cap {"trunc", "attrs"} # {} THEN {"dirty"} ELSE {})
                    \cup (IF inline THEN {"inline"} ELSE {}) \cup (how \cap {"append"})
<1>4. file'.flags = flags /\ (~inline => file'.head = entry.head /\ file'.size = entry.size)
  BY <1>1 DEF Opened, NoFile
<1>5. "reading" \notin flags /\ "writing" \notin flags /\ ("inline" \in flags <=> inline)
  OBVIOUS
<1>6. ~IsReading' /\ ~IsWriting' /\ (IsInline' <=> inline)
  BY <1>4, <1>5 DEF IsReading, IsWriting, IsInline, Has
<1>7. WriteOK' /\ ExtendOK' /\ PlaceOK'
  BY <1>2, <1>6 DEF WriteOK, WritesBlocks, ExtendOK, PlaceOK
<1>8. HeadOK'
  <2>1. CASE inline
    BY <1>6, <2>1 DEF HeadOK
  <2>2. CASE ~inline
    <3>1. entry.type = "ctz" /\ file'.head = entry.head /\ file'.size = entry.size
      BY <1>4, <2>2 DEF Control, Typed, EntryIs
    <3>2. Committed'
      BY <1>2, <3>1 DEF Committed
    <3>3. PICK L : OnList(cells, Last(entry.size), entry.head, L)
      BY <3>1 DEF Listed, EntryOK, EntryListed
    <3>4. HeadListed'
      BY <1>2, <1>6, <3>1, <3>3 DEF HeadListed, Kept, InCall, WritesBlocks
    <3> QED
      BY <3>2, <3>4 DEF HeadOK
  <2> QED
    BY <2>1, <2>2
<1> QED
  BY <1>3, <1>7, <1>8 DEF Listed

LEMMA InitIsListed ==
  ASSUME Init
  PROVE  Listed
<1>1. entry.type = "inline" /\ entry.data = NoBytes /\ saved = NoBytes /\ file = NoFile /\ pc = "idle"
  BY DEF Init
<1>2. EntryOK /\ SavedIsIntact
  BY <1>1 DEF EntryOK, Kept, InCall, SavedIsIntact, EntryContent
<1>3. ~file.open /\ ~IsReading
  BY <1>1, NoFileIs DEF IsReading, Has
<1> QED
  BY <1>1, <1>2, <1>3 DEF Listed, HeadOK, WriteOK, WritesBlocks, ExtendOK, PlaceOK

\* A position read lies in the block that lfs_ctz_find returns for it.
LEMMA ReadAt ==
  ASSUME Control, Listed, file.open, ~IsInline, ~IsWriting, ~IsErred, file.size > 0,
         NEW p \in 0 .. FileMax, NEW q \in 0 .. FileMax, Index[p].i = Index[q].i, Index[p].i <= Last(file.size)
  PROVE  /\ lfs_ctz_find(cells, file.head, file.size, q).block = lfs_ctz_find(cells, file.head, file.size, p).block
         /\ lfs_ctz_find(cells, file.head, file.size, q).off = Index[q].off
<1>1. HeadListed /\ file.size \in 1 .. FileMax
  BY ListRead
<1>2. PICK L : OnList(cells, Last(file.size), file.head, L)
  BY <1>1 DEF HeadListed
<1>3. lfs_ctz_find(cells, file.head, file.size, p) = [block |-> L[Index[p].i], off |-> Index[p].off]
  BY <1>1, <1>2, FindOnList
<1>4. lfs_ctz_find(cells, file.head, file.size, q) = [block |-> L[Index[q].i], off |-> Index[q].off]
  BY <1>1, <1>2, FindOnList
<1> QED
  BY <1>3, <1>4

LEMMA SeekInCacheKeepsLists ==
  ASSUME Control, Listed, SeekInCache
  PROVE  Listed'
<1>1. /\ pc = "seek" /\ IsReading /\ file.off # BlockSize /\ Index[file.pos].i = Index[SeekTo].i
      /\ file' = [file EXCEPT !.pos = SeekTo, !.off = Index[SeekTo].off] /\ Return
      /\ UNCHANGED <<cells, entry, taken, saved>>
  BY DEF SeekInCache, InCache, SameBlock, IsReading
<1>2. SeekTo \in 0 .. FileMax
  BY <1>1, SeekToIs
<1>3. pc' \in {"idle", "growing", "readstart"}
  BY <1>1, ReturnsTo DEF Returns
<1>4. /\ IsReading' /\ (IsWriting <=> IsWriting') /\ (IsInline <=> IsInline')
      /\ (IsErred <=> IsErred') /\ (IsDirty <=> IsDirty')
      /\ file'.pos = SeekTo /\ file'.size = file.size /\ file'.block = file.block
      /\ file'.off = Index[SeekTo].off /\ file'.head = file.head /\ file'.open = file.open
  BY <1>1 DEF Control, Typed, FileIs, IsReading, IsWriting, IsInline, IsErred, IsDirty, Has
<1>5. PlaceOK'
  <2> SUFFICES ASSUME ~IsWriting, ~IsInline, ~IsErred, file.size > 0, Index[SeekTo].i <= Last(file.size)
               PROVE  file.block = lfs_ctz_find(cells, file.head, file.size, SeekTo).block
    BY <1>1, <1>4 DEF PlaceOK
  <2>1. file.block = lfs_ctz_find(cells, file.head, file.size, file.pos).block
    BY <1>1 DEF Listed, PlaceOK
  <2>2. file.open /\ file.pos \in 0 .. FileMax
    BY <1>1, InACall, Placed
  <2> QED
    BY <1>1, <1>2, <2>1, <2>2, ReadAt
<1>6. ~WritesBlocks' /\ InCall
  BY <1>1, <1>4 DEF WritesBlocks, InCall
<1> QED
  BY <1>1, <1>3, <1>4, <1>5, <1>6, MovingKeeps

LEMMA ReadTurnKeepsLists ==
  ASSUME Control, Listed, ReadTurn
  PROVE  Listed'
<1>1. PICK diff, block, off :
        /\ diff = Lesser(reg.left, BlockSize - Place.off) /\ block = Place.block /\ off = Place.off
        /\ file' = [file EXCEPT !.block = block, !.off = off + diff, !.pos = @ + diff,
                                !.flags = @ \cup {"reading"}]
  BY DEF ReadTurn
<1>2. /\ pc = "read" /\ reg.left > 0 /\ (IsInline \/ Place.block \in Blocks)
      /\ UNCHANGED <<cells, entry, taken, saved, pc>>
  BY DEF ReadTurn, IsInline
<1>3. off \in 0 .. BlockSize - 1 /\ file.pos + reg.left <= file.size
  BY <1>1, <1>2, PlaceIs
<1>4. file.pos \in 0 .. FileMax /\ file.size \in 0 .. FileMax /\ reg.left \in 1 .. FileMax /\ file.open
  BY <1>2, InACall, Constants DEF Control, Typed, FileIs, RegIs
<1>5. diff \in 1 .. reg.left
  <2>1. diff = IF reg.left < BlockSize - off THEN reg.left ELSE BlockSize - off
    BY <1>1 DEF Lesser
  <2> QED
    BY <1>3, <1>4, <2>1, Constants
<1>6. /\ IsReading' /\ (IsWriting <=> IsWriting') /\ (IsInline <=> IsInline')
      /\ (IsErred <=> IsErred') /\ (IsDirty <=> IsDirty')
      /\ file'.pos = file.pos + diff /\ file'.size = file.size /\ file'.block = block
      /\ file'.off = off + diff /\ file'.head = file.head /\ file'.open = file.open
  BY <1>1 DEF Control, Typed, FileIs, IsReading, IsWriting, IsInline, IsErred, IsDirty, Has
<1>7. PlaceOK'
  <2> SUFFICES ASSUME ~IsWriting, ~IsInline, ~IsErred, off + diff # BlockSize
               PROVE  /\ block = lfs_ctz_find(cells, file.head, file.size, file.pos + diff).block
                      /\ off + diff = Index[file.pos + diff].off
    BY <1>2, <1>6 DEF PlaceOK
  <2> PICK p, at : p = file.pos /\ at = lfs_ctz_find(cells, file.head, file.size, p)
    OBVIOUS
  <2>1. file.size \in 1 .. FileMax /\ p \in 0 .. file.size - 1 /\ p \in 0 .. FileMax
    BY <1>3, <1>4
  <2>2. Index[p].i <= Last(file.size)
    BY <2>1, LastTyped
  <2>3. block = at.block /\ off = Index[p].off
    <3>1. CASE Seeks
      <4>1. Place = at
        BY <3>1 DEF Place, IsInline
      <4>2. at.off = Index[p].off
        BY <2>1, <2>2, <1>4, ReadAt
      <4> QED
        BY <1>1, <4>1, <4>2
    <3>2. CASE ~Seeks
      <4>1. block = file.block /\ off = file.off /\ IsReading /\ file.off # BlockSize
        BY <1>1, <3>2 DEF Place, Seeks, IsReading
      <4>2. file.size > 0 /\ p < file.size
        BY <2>1
      <4> QED
        BY <2>2, <4>1, <4>2 DEF Listed, PlaceOK
    <3> QED
      BY <3>1, <3>2
  <2>4. off + diff < BlockSize
    <3>1. diff = IF reg.left < BlockSize - off THEN reg.left ELSE BlockSize - off
      BY <1>1 DEF Lesser
    <3> QED
      BY <1>3, <1>4, <3>1, Constants
  <2>5. diff \in Nat /\ p + diff <= FileMax /\ p + diff \in 0 .. FileMax
    <3> PICK n, m : n = reg.left /\ m = file.size
      OBVIOUS
    <3>1. p + n <= m /\ m \in 1 .. FileMax /\ n \in 1 .. FileMax /\ diff \in 1 .. n /\ p \in 0 .. FileMax
      BY <1>3, <1>4, <1>5, <2>1
    <3> QED
      BY <3>1, Constants
  <2>6. Index[p + diff].i = Index[p].i /\ Index[p + diff].off = off + diff
    BY <2>1, <2>3, <2>4, <2>5, PlacesInBlock
  <2>7. file.size > 0
    BY <2>1
  <2>8. lfs_ctz_find(cells, file.head, file.size, p + diff).block = at.block
    BY <1>4, <2>1, <2>2, <2>5, <2>6, <2>7, ReadAt
  <2> QED
    BY <2>3, <2>6, <2>8
<1>8. ~WritesBlocks' /\ InCall /\ pc' # "extend"
  BY <1>2, <1>6 DEF WritesBlocks, InCall
<1> QED
  BY <1>2, <1>6, <1>7, <1>8, MovingKeeps

LEMMA ReadDataFailsKeepsLists ==
  ASSUME Control, Listed, ReadDataFails
  PROVE  Listed'
<1>1. PICK block, off :
        /\ block = Place.block /\ off = Place.off
        /\ file' = [file EXCEPT !.block = block, !.off = off, !.flags = @ \cup {"reading"}]
  BY DEF ReadDataFails
<1>2. /\ pc = "read" /\ reg.left > 0 /\ ~IsInline /\ ~IsWriting /\ Place.block \in Blocks
      /\ pc' = "idle" /\ UNCHANGED <<cells, entry, taken, saved>>
  BY DEF ReadDataFails, IsInline, IsWriting
<1>3. off \in 0 .. BlockSize - 1 /\ file.pos + reg.left <= file.size
  BY <1>1, <1>2, PlaceIs
<1>4. file.pos \in 0 .. FileMax /\ file.size \in 0 .. FileMax /\ reg.left \in 1 .. FileMax /\ file.open
  BY <1>2, InACall, Constants DEF Control, Typed, FileIs, RegIs
<1>5. /\ IsReading' /\ ~IsWriting' /\ ~IsInline' /\ (IsErred <=> IsErred') /\ (IsDirty <=> IsDirty')
      /\ file'.pos = file.pos /\ file'.size = file.size /\ file'.block = block
      /\ file'.off = off /\ file'.head = file.head /\ file'.open = file.open
  BY <1>1, <1>2 DEF Control, Typed, FileIs, IsReading, IsWriting, IsInline, IsErred, IsDirty, Has
<1>6. PlaceOK'
  <2> SUFFICES ASSUME ~IsErred
               PROVE  /\ block = lfs_ctz_find(cells, file.head, file.size, file.pos).block
                      /\ off = Index[file.pos].off
    BY <1>2, <1>5 DEF PlaceOK
  <2> PICK p, at : p = file.pos /\ at = lfs_ctz_find(cells, file.head, file.size, p)
    OBVIOUS
  <2>1. file.size \in 1 .. FileMax /\ p \in 0 .. file.size - 1 /\ p \in 0 .. FileMax
    BY <1>3, <1>4
  <2>2. Index[p].i <= Last(file.size)
    BY <2>1, LastTyped
  <2>3. CASE Seeks
    <3>1. Place = at
      BY <1>2, <2>3 DEF Place, IsInline
    <3>2. at.off = Index[p].off
      BY <1>2, <1>4, <2>1, <2>2, ReadAt
    <3> QED
      BY <1>1, <3>1, <3>2
  <2>4. CASE ~Seeks
    <3>1. block = file.block /\ off = file.off /\ IsReading /\ file.off # BlockSize
      BY <1>1, <2>4 DEF Place, Seeks, IsReading
    <3> QED
      BY <1>2, <2>1, <2>2, <3>1 DEF Listed, PlaceOK
  <2> QED
    BY <2>3, <2>4
<1>7. ~WritesBlocks' /\ ~InCall' /\ pc' # "extend"
  BY <1>2, <1>5 DEF WritesBlocks, InCall
<1> QED
  BY <1>2, <1>5, <1>6, <1>7, MovingKeeps

HeadInUse ==
  /\ file.open /\ ~IsInline /\ file.head \in Blocks /\ file.size > 0
  /\ IsDirty \/ Committed \/ (IsWriting /\ file.size <= CacheSize)

HeadBody(L) ==
  /\ OnList(cells, Last(file.size), file.head, L)
  /\ Kept(Body(Last(file.size), L))
  /\ WritesBlocks => file.block \notin Body(Last(file.size), L)

\* The head's list is where it was, in cells that may have changed elsewhere.
LEMMA HeadFollows ==
  ASSUME Control, HeadOK, UNCHANGED entry, DOMAIN cells' = Blocks,
         file'.open => file.open, file'.head = file.head, file'.size = file.size,
         IsInline => IsInline', IsDirty => IsDirty', IsWriting => IsWriting',
         HeadInUse /\ Skewed => Skewed',
         \A L : HeadInUse /\ HeadBody(L) =>
            /\ \A b \in Body(Last(file.size), L) : cells'[b] = cells[b]
            /\ InCall' /\ ~ScanMidway => Safe(taken', Body(Last(file.size), L))
            /\ WritesBlocks' => file'.block \notin Body(Last(file.size), L)
  PROVE  HeadOK'
<1> SUFFICES ASSUME file'.open, ~IsInline', file'.head \in Blocks
             PROVE  /\ file'.size > 0 => HeadListed' \/ Skewed'
                    /\ IsDirty' \/ Committed' \/ (IsWriting' /\ file'.size <= CacheSize)
  BY DEF HeadOK
<1>1. file.open /\ ~IsInline /\ file.head \in Blocks
  OBVIOUS
<1>2. IsDirty \/ Committed \/ (IsWriting /\ file.size <= CacheSize)
  BY <1>1 DEF HeadOK
<1>3. Committed => Committed'
  BY DEF Committed
<1>4. ASSUME file.size > 0 PROVE HeadListed' \/ Skewed'
  <2>1. HeadInUse
    BY <1>1, <1>2, <1>4 DEF HeadInUse
  <2>2. CASE HeadListed
    <3>1. PICK L : HeadBody(L)
      BY <2>2 DEF HeadListed, HeadBody
    <3>2. /\ \A b \in Body(Last(file.size), L) : cells'[b] = cells[b]
          /\ InCall' /\ ~ScanMidway => Safe(taken', Body(Last(file.size), L))
          /\ WritesBlocks' => file'.block \notin Body(Last(file.size), L)
      BY <2>1, <3>1
    <3>3. OnList(cells, Last(file.size), file.head, L)
      BY <3>1 DEF HeadBody
    <3>4. OnList(cells', Last(file.size), file.head, L)
      <4>1. \A i \in 1 .. Last(file.size) : cells'[L[i]] = cells[L[i]]
        BY <3>2 DEF Body
      <4> QED
        BY <3>3, <4>1, Placed, SameCells
    <3> QED
      BY <3>2, <3>4 DEF HeadListed, Kept
  <2>3. CASE Skewed
    BY <2>1, <2>3
  <2> QED
    BY <1>1, <1>4, <2>2, <2>3 DEF HeadOK
<1> QED
  BY <1>2, <1>3, <1>4

-----------------------------------------------------------------------------
LEMMA BeginKeepsLists ==
  ASSUME Control, Listed, NEW op, NEW arg, NEW label, NEW return, Begin(op, arg, label, return),
         label \in {"flush", "write", "readstart", "seek", "end"}, UNCHANGED <<entry, saved>>
  PROVE  Listed'
<1>1. /\ pc = "idle" /\ file.open /\ pc' = label
      /\ cells' = IF NotABlock \in Traversed THEN cells ELSE Only(Traversed \cup {file.block}, cells)
      /\ taken' = Ckpoint
      /\ file' = IF IsReading \/ IsWriting THEN file ELSE [file EXCEPT !.block = Inline, !.off = 0]
  BY DEF Begin, IsReading, IsWriting
<1>2. /\ file'.pos = file.pos /\ file'.size = file.size /\ file'.head = file.head
      /\ file'.open = file.open /\ file'.flags = file.flags
      /\ IsReading \/ IsWriting => file' = file
  BY <1>1 DEF Control, Typed, FileIs
<1>3. /\ (IsReading <=> IsReading') /\ (IsWriting <=> IsWriting') /\ (IsInline <=> IsInline')
      /\ (IsDirty <=> IsDirty') /\ (IsErred <=> IsErred')
  BY <1>2 DEF IsReading, IsWriting, IsInline, IsErred, IsDirty, Has
<1>4. WritesBlocks' <=> WritesBlocks
  BY <1>1, <1>2, <1>3 DEF WritesBlocks
<1>5. DOMAIN cells = Blocks /\ DOMAIN cells' = Blocks
  BY <1>1, Placed DEF Only
<1>6. \A X : X \subseteq Blocks /\ Safe(Traversed, X) =>
        (\A b \in X : cells'[b] = cells[b]) /\ (~ScanMidway => Safe(taken', X))
  BY <1>1 DEF Safe, Only, Ckpoint
<1>7. EntryOK' /\ SavedIsIntact' /\ EntryBlocks' = EntryBlocks
  <2>1. Safe(Traversed, EntryBlocks \cap Blocks) /\ Safe(Traversed, EntryBlocks)
    BY DEF Traversed, Safe
  <2>2. ~ScanMidway => Safe(taken', EntryBlocks)
    BY <1>1 DEF Safe, Ckpoint, Traversed
  <2>3. \A b \in EntryBlocks \cap Blocks : cells'[b] = cells[b]
    BY <1>6, <2>1
  <2> QED
    BY <1>5, <2>2, <2>3, EntryKeeps DEF Listed
<1>8. \A L : HeadInUse /\ OnList(cells, Last(file.size), file.head, L) =>
        /\ \A b \in Body(Last(file.size), L) : cells'[b] = cells[b]
        /\ ~ScanMidway => Safe(taken', Body(Last(file.size), L))
  <2> SUFFICES ASSUME NEW L, HeadInUse, OnList(cells, Last(file.size), file.head, L)
               PROVE  /\ \A b \in Body(Last(file.size), L) : cells'[b] = cells[b]
                      /\ ~ScanMidway => Safe(taken', Body(Last(file.size), L))
    OBVIOUS
  <2>1. Safe(Traversed, Body(Last(file.size), L))
    BY HeadIsCovered DEF HeadCovered, HeadInUse
  <2>2. Body(Last(file.size), L) \subseteq Blocks
    <3>1. Last(file.size) \in Nat /\ \A i \in 1 .. Last(file.size) : L[i] \in Blocks
      BY <1>5, BlocksAreFew DEF OnList
    <3> QED
      BY <3>1 DEF Body
  <2> QED
    BY <1>6, <2>1, <2>2
<1>9. HeadInUse /\ Skewed => Skewed'
  <2> SUFFICES ASSUME HeadInUse, Skewed PROVE Skewed'
    OBVIOUS
  <2>1. PICK L : OnList(cells, Last(file.size) + 1, file.head, L)
    BY DEF Skewed, LongerListed
  <2>2. NotABlock \in Traversed
    BY <2>1, HeadIsCovered DEF HeadCovered, HeadInUse, Skewed
  <2>3. cells' = cells /\ (~ScanMidway => NotABlock \in taken')
    BY <1>1, <2>2 DEF Ckpoint
  <2>4. LongerListed'
    BY <1>2, <2>1, <2>3 DEF LongerListed, Kept, Safe
  <2> QED
    BY <1>2, <1>3, <2>4 DEF Skewed
<1>10. HeadOK'
  <2>1. \A L : HeadInUse /\ HeadBody(L) =>
          /\ \A b \in Body(Last(file.size), L) : cells'[b] = cells[b]
          /\ InCall' /\ ~ScanMidway => Safe(taken', Body(Last(file.size), L))
          /\ WritesBlocks' => file'.block \notin Body(Last(file.size), L)
    BY <1>2, <1>4, <1>8 DEF HeadBody, WritesBlocks
  <2> QED
    BY <1>2, <1>3, <1>5, <1>9, <2>1, HeadFollows DEF Listed
<1>11. WriteOK'
  <2> SUFFICES ASSUME WritesBlocks PROVE WriteOK'
    BY <1>4 DEF WriteOK
  <2>1. file' = file /\ file.block \notin EntryBlocks /\ AtPlace /\ (Ahead => IsErred) /\ WriteListed
    BY <1>1, <1>2 DEF Listed, WriteOK, WritesBlocks, MayBeAhead
  <2>2. AtPlace' /\ (Ahead' <=> Ahead) /\ Here' = Here /\ file'.block = file.block
    BY <2>1 DEF AtPlace, Ahead, Here
  <2>3. PICK L : OnList(cells, Here, file.block, L) /\ file.block \notin Body(Here - 1, L)
    BY <2>1 DEF WriteListed
  <2>4. Safe(Traversed, Body(Here, L))
    BY <2>1, <2>3, WriteIsCovered DEF WriteCovered
  <2>5. Body(Here, L) \subseteq Blocks /\ \A i \in 1 .. Here : L[i] \in Body(Here, L)
    <3>1. \A i \in 1 .. Here : L[i] \in Blocks
      BY <1>5, <2>3 DEF OnList
    <3> QED
      BY <3>1 DEF Body
  <2>6. (\A i \in 1 .. Here : cells'[L[i]] = cells[L[i]]) /\ (~ScanMidway => Safe(taken', Body(Here, L)))
    BY <1>6, <2>4, <2>5
  <2>7. OnList(cells', Here, file.block, L)
    BY <1>5, <2>3, <2>6, SameCells
  <2>8. WriteListed'
    BY <2>2, <2>3, <2>6, <2>7 DEF WriteListed, Kept
  <2>9. Ahead' => MayBeAhead'
    BY <1>1, <1>3, <2>1, <2>2 DEF MayBeAhead
  <2> QED
    BY <1>7, <2>1, <2>2, <2>8, <2>9 DEF WriteOK
<1>12. ExtendOK'
  BY <1>1 DEF ExtendOK
<1>13. PlaceOK'
  <2> SUFFICES ASSUME IsReading, ~IsWriting, ~IsInline, ~IsErred, file.off # BlockSize, file.size > 0,
                      Index[file.pos].i <= Last(file.size)
               PROVE  lfs_ctz_find(cells', file.head, file.size, file.pos) = lfs_ctz_find(cells, file.head, file.size, file.pos)
    BY <1>2, <1>3 DEF PlaceOK, Listed
  <2>1. HeadListed /\ file.size \in 1 .. FileMax /\ file.pos \in 0 .. FileMax
    BY <1>1, ListRead, Placed
  <2>2. PICK L : OnList(cells, Last(file.size), file.head, L)
    BY <2>1 DEF HeadListed
  <2>3. HeadInUse
    BY <1>1 DEF HeadInUse, Listed, HeadOK, Control, BlockOK
  <2>4. \A i \in 1 .. Last(file.size) : cells'[L[i]] = cells[L[i]]
    BY <1>8, <2>2, <2>3 DEF Body
  <2>5. OnList(cells', Last(file.size), file.head, L)
    BY <1>5, <2>2, <2>4, SameCells
  <2> QED
    BY <2>1, <2>2, <2>5, FindSame
<1> QED
  BY <1>7, <1>10, <1>11, <1>12, <1>13 DEF Listed

LEMMA BeginningKeepsLists ==
  ASSUME Control, Listed, Write \/ Read \/ Seek \/ Truncate \/ Sync
  PROVE  Listed'
<1>1. UNCHANGED <<entry, saved>>
  BY DEF Write, Read, Seek, Truncate, Sync
<1>2. \E op, arg, label, return :
        /\ Begin(op, arg, label, return)
        /\ label \in {"flush", "write", "readstart", "seek", "end"}
  <2>1. CASE Write
    BY <2>1 DEF Write
  <2>2. CASE Read
    BY <2>2 DEF Read
  <2>3. CASE Seek
    BY <2>3 DEF Seek
  <2>4. CASE Truncate
    BY <2>4 DEF Truncate
  <2>5. CASE Sync
    BY <2>5 DEF Sync
  <2> QED
    BY <2>1, <2>2, <2>3, <2>4, <2>5
<1> QED
  BY <1>1, <1>2, BeginKeepsLists

-----------------------------------------------------------------------------
(***************************************************************************)
(* Blocks that are allocated.                                              *)
(***************************************************************************)

\* The pointers of a copy, as far as it goes.
LEMMA FreshPtr ==
  ASSUME NEW c, NEW d, NEW b, NEW e, NEW m \in 0 .. BlockSize, NEW j \in Nat,
         b \in DOMAIN c, e \in DOMAIN d, DOMAIN d = DOMAIN c, d[e] = Fresh(m, c[b]), j < BlockSize
  PROVE  /\ j < m => PtrAt(d, e, j) = PtrAt(c, b, j)
         /\ PtrAt(d, e, j) \in {PtrAt(c, b, j), NotABlock}
<1>1. PtrSize = 1 /\ PtrSize * j = j /\ j \in 0 .. BlockSize - 1
  BY FileAssumption, Constants
<1>2. d[e][j] = IF j < m THEN c[b][j] ELSE Gap
  BY <1>1 DEF Fresh
<1>3. Gap[1] # "ptr"
  BY DEF Gap
<1> QED
  BY <1>1, <1>2, <1>3 DEF PtrAt

\* A list that ends with e and is otherwise L.
EndsWith(d, n, e, L) ==
  \E K : OnList(d, n, e, K) /\ Body(n, K) \subseteq Body(n - 1, L) \cup {e} /\ Body(n - 1, K) = Body(n - 1, L)

\* A block with the pointers of a list's last one can take its place.
LEMMA CopyEnds ==
  ASSUME NEW c, NEW d, NEW n, NEW b, NEW e \in DOMAIN c \ {NotABlock}, NEW L, OnList(c, n, b, L),
         DOMAIN d = DOMAIN c, \A i \in 1 .. n - 1 : d[L[i]] = c[L[i]],
         n > 0 => \A j \in 0 .. lfs_ctz(n) : PtrAt(d, e, j) = PtrAt(c, b, j),
         n >= 2 /\ n % 2 = 1 => \A j \in 1 .. lfs_ctz(n - 1) : PtrAt(d, e, j) \in {PtrAt(c, b, j), NotABlock}
  PROVE  EndsWith(d, n, e, L)
<1>1. n \in 0 .. Most /\ Most \in 0 .. 255 /\ L[n] = b
  BY BlocksAreFew DEF OnList
<1>2. n = 0 => EndsWith(d, n, e, L)
  <2> HAVE n = 0
  <2> PICK K : K = [i \in 0 .. 0 |-> e]
    OBVIOUS
  <2>1. OnList(d, 0, e, K)
    BY FirstOfList
  <2> QED
    BY <2>1 DEF EndsWith, Body
<1>3. n > 0 => EndsWith(d, n, e, L)
  <2>0. HAVE n > 0
  <2> PICK S : S = [i \in 0 .. n - 1 |-> L[i]]
    OBVIOUS
  <2>1. n \in 1 .. Most /\ n - 1 \in 0 .. n /\ \A i \in 1 .. n - 1 : S[i] = L[i]
    BY <1>1, <2>0
  <2>2. OnList(c, n - 1, L[n - 1], S)
    BY <2>1, Shorter
  <2>3. OnList(d, n - 1, L[n - 1], S)
    BY <2>1, <2>2, SameCells
  <2>4. \A j \in 0 .. lfs_ctz(n) : PtrAt(d, e, j) = S[n - Bit(j)]
    <3> TAKE j \in 0 .. lfs_ctz(n)
    <3>1. n \in 1 .. n
      BY <2>1, <1>1
    <3>2. n - Bit(j) \in 0 .. n - 1
      BY <1>1, <3>1, SkipBound
    <3>3. PtrAt(c, b, j) = L[n - Bit(j)]
      BY <1>1, <3>1 DEF OnList, Links
    <3> QED
      BY <2>0, <3>2, <3>3
  <2>5. ASSUME n >= 2, n % 2 = 1, NEW j \in 1 .. lfs_ctz(n - 1) PROVE PtrAt(d, e, j) = NotABlock
    <3>1. n \in 2 .. n
      BY <1>1, <2>5
    <3>2. PtrAt(c, b, j) = NotABlock
      BY <1>1, <2>5, <3>1 DEF OnList, Links
    <3> QED
      BY <2>5, <3>2
  <2> PICK K : K = Then(S, n, e)
    OBVIOUS
  <2>6. OnList(d, n, e, K)
    BY <2>1, <2>3, <2>4, <2>5, Longer
  <2>7. K[n] = e /\ \A i \in 1 .. n - 1 : K[i] = L[i]
    BY <1>1, <2>1 DEF Then
  <2>8. \A i \in 1 .. n : i = n \/ i \in 1 .. n - 1
    BY <1>1
  <2>9. Body(n - 1, K) = Body(n - 1, L) /\ Body(n, K) \subseteq Body(n - 1, L) \cup {e}
    BY <2>7, <2>8 DEF Body
  <2> QED
    BY <2>6, <2>9 DEF EndsWith
<1>4. n = 0 \/ n > 0
  BY <1>1
<1> QED
  BY <1>2, <1>3, <1>4

LEMMA OfferTaken ==
  ASSUME Control, Listed, HasOffer, InCall, NEW e, cells' = [cells EXCEPT ![Offer] = e],
         UNCHANGED <<entry, saved>>, taken' = taken \cup {Offer}
  PROVE  /\ Offer \in Blocks /\ Offer # NotABlock /\ Offer \notin EntryBlocks /\ DOMAIN cells' = Blocks
         /\ cells'[Offer] = e /\ \A b \in Blocks \ {Offer} : cells'[b] = cells[b]
         /\ EntryOK' /\ SavedIsIntact' /\ EntryBlocks' = EntryBlocks
<1>1. Offer \in Blocks /\ DOMAIN cells = Blocks /\ NotABlock \notin Blocks
  BY OfferIs, Placed
<1>2. ~ScanMidway => Safe(taken, EntryBlocks)
  BY DEF Listed, EntryOK, Kept
<1>3. Safe(Traversed, EntryBlocks)
  BY DEF Safe, Traversed
<1>4. Offer \notin EntryBlocks
  BY <1>2, <1>3, OfferIsFree
<1>5. DOMAIN cells' = Blocks /\ cells'[Offer] = e /\ \A b \in Blocks \ {Offer} : cells'[b] = cells[b]
  BY <1>1
<1>6. ~ScanMidway => Safe(taken', EntryBlocks)
  BY <1>2, SafeGrows
<1>7. EntryOK' /\ SavedIsIntact' /\ EntryBlocks' = EntryBlocks
  BY <1>4, <1>5, <1>6, EntryKeeps DEF Listed
<1> QED
  BY <1>1, <1>4, <1>5, <1>7

LEMMA OfferBehindHead ==
  ASSUME Control, Listed, HasOffer, InCall, NEW e, cells' = [cells EXCEPT ![Offer] = e],
         UNCHANGED <<entry, saved>>, taken' = taken \cup {Offer},
         file'.open = file.open, file'.head = file.head, file'.size = file.size, file'.block = Offer,
         IsInline => IsInline', IsDirty => IsDirty', IsWriting', ~(HeadInUse /\ Skewed)
  PROVE  HeadOK'
<1>1. DOMAIN cells' = Blocks /\ \A b \in Blocks \ {Offer} : cells'[b] = cells[b]
  BY OfferTaken
<1>2. ASSUME NEW L, HeadInUse, HeadBody(L)
      PROVE  /\ \A b \in Body(Last(file.size), L) : cells'[b] = cells[b]
             /\ ~ScanMidway => Safe(taken', Body(Last(file.size), L))
             /\ Offer \notin Body(Last(file.size), L)
  <2>1. OnList(cells, Last(file.size), file.head, L) /\ (~ScanMidway => Safe(taken, Body(Last(file.size), L)))
    BY <1>2 DEF HeadBody, Kept
  <2>2. Safe(Traversed, Body(Last(file.size), L))
    BY <1>2, <2>1, HeadIsCovered DEF HeadCovered, HeadInUse
  <2>3. Offer \notin Body(Last(file.size), L)
    BY <2>1, <2>2, OfferIsFree
  <2>4. Body(Last(file.size), L) \subseteq Blocks
    <3>1. \A i \in 1 .. Last(file.size) : L[i] \in Blocks
      BY <2>1, Placed, BlocksAreFew DEF OnList
    <3> QED
      BY <3>1 DEF Body
  <2>5. ~ScanMidway => Safe(taken', Body(Last(file.size), L))
    BY <2>1, SafeGrows
  <2> QED
    BY <1>1, <2>3, <2>4, <2>5
<1> QED
  BY <1>1, <1>2, HeadFollows DEF Listed

-----------------------------------------------------------------------------
LEMMA OutlinedKeepsLists ==
  ASSUME Control, Listed, Outlined
  PROVE  Listed'
<1>1. /\ pc = "outlined" /\ file' = [file EXCEPT !.flags = @ \ {"inline"}, !.data = NoBytes]
      /\ pc' = "chunk" /\ UNCHANGED <<cells, entry, taken, saved>>
  BY DEF Outlined, Goto
<1>2. ~IsReading /\ IsInline /\ IsWriting /\ file.open
  BY <1>1, InACall DEF Control, FlagsOK, Puts, Mid
<1>3. /\ file'.pos = file.pos /\ file'.size = file.size /\ file'.block = file.block
      /\ file'.off = file.off /\ file'.head = file.head /\ file'.open = file.open /\ IsWriting'
  BY <1>1, <1>2 DEF Control, Typed, FileIs, IsWriting, Has
<1>4. InCall /\ WritesBlocks
  BY <1>1, <1>2 DEF InCall, WritesBlocks
<1>5. EntryOK' /\ SavedIsIntact'
  BY <1>1, <1>4, EntryStays
<1>6. WriteOK'
  BY <1>1, <1>3, <1>4, WriteKeeps DEF Listed, MayBeAhead
<1>7. HeadOK'
  <2> SUFFICES ASSUME file.head \in Blocks, file.size > 0 \/ file.size <= CacheSize
               PROVE  file.size <= CacheSize /\ (file.size > 0 => HeadListed')
    BY <1>3, Placed, Sizes, Constants DEF HeadOK
  <2>1. file.size <= CacheSize
    BY <1>2, Placed, SizeTyped, Sizes DEF Control, InlineOK, Typed
  <2>2. ASSUME file.size > 0 PROVE HeadListed'
    <3>1. file.size - 1 \in 0 .. FileMax /\ file.size - 1 < BlockSize
      BY <2>1, <2>2, Placed, Sizes, Constants
    <3>2. Last(file.size) = 0
      BY <3>1, FirstBlock DEF Last
    <3> PICK L : L = [i \in 0 .. 0 |-> file.head]
      OBVIOUS
    <3>3. OnList(cells, 0, file.head, L)
      BY Placed, FirstOfList
    <3>4. Body(0, L) = {}
      BY BodyInAll
    <3> QED
      BY <1>1, <1>3, <3>2, <3>3, <3>4 DEF HeadListed, Kept, Safe
  <2> QED
    BY <2>1, <2>2
<1>8. ExtendOK' /\ PlaceOK'
  BY <1>1, <1>3 DEF ExtendOK, PlaceOK
<1> QED
  BY <1>5, <1>6, <1>7, <1>8 DEF Listed

\* An inline file moves to its first block.
LEMMA MovedInline ==
  ASSUME Control, pc = "relocate", IsInline
  PROVE  AtPlace /\ Here = 0 /\ ~Ahead
<1>1. file.off = file.pos /\ file.pos <= CacheSize
  <2>1. ~For("copy")
    BY DEF Control, FlagsOK, For
  <2> QED
    BY <2>1 DEF Control, PutOK, Puts, Mid
<1>2. file.pos \in 0 .. FileMax /\ file.pos <= BlockSize
  BY <1>1, Placed, Sizes, Constants
<1>3. file.pos > 0 => Last(file.pos) = 0 /\ Index[file.pos - 1].off = file.pos - 1
  <2>1. file.pos > 0 => file.pos - 1 \in 0 .. FileMax /\ file.pos - 1 < BlockSize
    BY <1>2, Constants
  <2> QED
    BY <2>1, FirstBlock DEF Last
<1>4. file.pos # BlockSize => Index[file.pos].i = 0 /\ Index[file.pos].off = file.pos
  <2>1. file.pos # BlockSize => file.pos < BlockSize
    BY <1>2, Constants
  <2> QED
    BY <1>2, <2>1, FirstBlock
<1>5. file.pos = BlockSize => file.pos > 0
  BY Constants
<1> QED
  BY <1>1, <1>3, <1>4, <1>5 DEF AtPlace, Here, Ahead

LEMMA RelocateKeepsLists ==
  ASSUME Control, Listed, Relocate
  PROVE  Listed'
<1>1. /\ pc = "relocate" /\ HasOffer
      /\ cells' = [cells EXCEPT ![Offer] = Fresh(file.off, Source)]
      /\ file' = [file EXCEPT !.block = Offer, !.flags = @ \cup {"writing"}]
      /\ taken' = taken \cup {Offer}
      /\ Return /\ UNCHANGED <<entry, saved>>
  BY DEF Relocate, Room, Control, CacheOK
<1>2. /\ Offer \in Blocks /\ Offer # NotABlock /\ Offer \notin EntryBlocks /\ DOMAIN cells' = Blocks
      /\ cells'[Offer] = Fresh(file.off, Source) /\ \A b \in Blocks \ {Offer} : cells'[b] = cells[b]
      /\ EntryOK' /\ SavedIsIntact' /\ EntryBlocks' = EntryBlocks /\ InCall
  BY <1>1, OfferTaken DEF InCall
<1>3. /\ IsWriting' /\ (IsInline <=> IsInline') /\ (IsErred <=> IsErred') /\ (IsDirty <=> IsDirty')
      /\ file'.pos = file.pos /\ file'.size = file.size /\ file'.block = Offer /\ file'.off = file.off
      /\ file'.head = file.head /\ file'.open = file.open
  BY <1>1, <1>2 DEF Control, Typed, FileIs, IsWriting, IsInline, IsErred, IsDirty, Has, Flags
<1>4. pc' = Head(stack) /\ pc' \in {"outlined", "chunk", "copy"} /\ stack # <<>> /\ file.open
  BY <1>1, InACall, ReturnsTo DEF Returns, Return
<1>5. ~IsReading /\ (~IsInline => IsWriting)
  BY <1>1 DEF Control, FlagsOK
<1>6. HeadOK'
  <2>1. ~(HeadInUse /\ Skewed)
    BY <1>5 DEF HeadInUse, Skewed
  <2> QED
    BY <1>1, <1>2, <1>3, <2>1, OfferBehindHead
<1>7. AtPlace' = AtPlace /\ Here' = Here /\ (Ahead' <=> Ahead)
  BY <1>3 DEF AtPlace, Here, Ahead
<1>8. WriteOK'
  <2>1. CASE IsInline
    <3>1. AtPlace /\ Here = 0 /\ ~Ahead
      BY <1>1, <2>1, MovedInline
    <3> PICK L : L = [i \in 0 .. 0 |-> Offer]
      OBVIOUS
    <3>2. OnList(cells', 0, Offer, L)
      BY <1>2, FirstOfList
    <3>3. Body(0, L) = {} /\ Body(0 - 1, L) = {}
      BY DEF Body
    <3>4. WriteListed'
      BY <1>3, <1>7, <3>1, <3>2, <3>3 DEF WriteListed, Kept, Safe
    <3> QED
      BY <1>2, <1>3, <1>7, <3>1, <3>4 DEF WriteOK
  <2>2. CASE ~IsInline
    <3>1. WritesBlocks
      BY <1>4, <1>5, <2>2 DEF WritesBlocks
    <3>2. AtPlace /\ (Ahead => MayBeAhead) /\ WriteListed
      BY <3>1 DEF Listed, WriteOK
    <3> PICK n, b : n = Here /\ b = file.block
      OBVIOUS
    <3>3. PICK L : OnList(cells, n, b, L) /\ Kept(Body(n, L)) /\ b \notin Body(n - 1, L)
      BY <3>2 DEF WriteListed
    <3>4. n \in 0 .. Most /\ Most \in 0 .. 255 /\ (n > 0 => Skips(n) <= file.off)
      <4>1. PtrSize = 1 /\ (n > 0 => PtrSize * Skips(n) <= file.off) /\ n \in 0 .. Most /\ Most \in 0 .. 255
        BY <3>2, HereIs, BlocksAreFew, FileAssumption
      <4>2. Skips(n) \in 0 .. 8
        BY <4>1, SkipsTyped
      <4> QED
        BY <4>1, <4>2
    <3>5. Safe(Traversed, Body(n, L))
      BY <3>1, <3>2, <3>3, WriteIsCovered DEF WriteCovered
    <3>6. Offer \notin Body(n, L)
      BY <1>1, <1>2, <3>3, <3>5, OfferIsFree DEF Kept
    <3>7. \A i \in 1 .. n : L[i] \in Blocks /\ L[i] \in Body(n, L)
      BY <3>3, Placed DEF OnList, Body
    <3>8. b \in Blocks /\ DOMAIN cells = Blocks /\ cells'[Offer] = Fresh(file.off, cells[b])
      <4>1. b \in Blocks
        BY <3>1 DEF Control, BlockOK
      <4> QED
        BY <1>2, <2>2, <4>1, Placed DEF Source, IsInline
    <3>9. file.off \in 0 .. BlockSize
      BY Placed
    <3>10. \A j \in Nat : j < BlockSize =>
             /\ j < file.off => PtrAt(cells', Offer, j) = PtrAt(cells, b, j)
             /\ PtrAt(cells', Offer, j) \in {PtrAt(cells, b, j), NotABlock}
      BY <1>2, <3>8, <3>9, FreshPtr
    <3>11. n > 0 => \A j \in 0 .. lfs_ctz(n) : PtrAt(cells', Offer, j) = PtrAt(cells, b, j)
      <4> SUFFICES ASSUME n > 0, NEW j \in 0 .. lfs_ctz(n) PROVE PtrAt(cells', Offer, j) = PtrAt(cells, b, j)
        OBVIOUS
      <4>1. n \in 1 .. 255 /\ lfs_ctz(n) \in 0 .. 7
        BY <3>4, CtzIs
      <4>2. lfs_ctz(n) + 1 <= file.off
        BY <3>4, <4>1 DEF Skips
      <4>3. j \in Nat /\ j < file.off /\ j < BlockSize
        BY <3>9, <4>1, <4>2, Constants
      <4> QED
        BY <3>10, <4>3
    <3>12. n >= 2 /\ n % 2 = 1 => \A j \in 1 .. lfs_ctz(n - 1) : PtrAt(cells', Offer, j) \in {PtrAt(cells, b, j), NotABlock}
      <4> SUFFICES ASSUME n >= 2, NEW j \in 1 .. lfs_ctz(n - 1)
                   PROVE  PtrAt(cells', Offer, j) \in {PtrAt(cells, b, j), NotABlock}
        OBVIOUS
      <4>1. n - 1 \in 1 .. Most /\ n - 1 \in 0 .. Most /\ n - 1 \in 1 .. 255 /\ n - 1 # 0
        BY <3>4
      <4>2. PtrSize * Skips(n - 1) \in 0 .. BlockSize - 1 /\ Skips(n - 1) \in 0 .. 8 /\ PtrSize = 1
        BY <4>1, SkipsTyped, FileAssumption
      <4>3. Skips(n - 1) = lfs_ctz(n - 1) + 1 /\ lfs_ctz(n - 1) \in 0 .. 7
        BY <4>1, CtzIs DEF Skips
      <4>4. j \in Nat /\ j < BlockSize
        BY <4>2, <4>3, Constants
      <4> QED
        BY <3>10, <4>4
    <3>13. \A i \in 1 .. n - 1 : cells'[L[i]] = cells[L[i]]
      <4>1. \A i \in 1 .. n - 1 : i \in 1 .. n
        BY <3>4
      <4> QED
        BY <1>2, <3>6, <3>7, <4>1
    <3>14. EndsWith(cells', n, Offer, L)
      BY <1>2, <3>3, <3>8, <3>11, <3>12, <3>13, CopyEnds
    <3>15. PICK K : OnList(cells', n, Offer, K) /\ Body(n, K) \subseteq Body(n - 1, L) \cup {Offer}
                    /\ Body(n - 1, K) = Body(n - 1, L)
      BY <3>14 DEF EndsWith
    <3>16. Body(n - 1, L) \subseteq Body(n, L)
      BY <3>4 DEF Body
    <3>17. ~ScanMidway => Safe(taken', Body(n, K))
      BY <1>1, <1>2, <3>3, <3>15, <3>16 DEF Kept, Safe
    <3>18. WriteListed'
      BY <1>3, <1>7, <3>6, <3>15, <3>16, <3>17 DEF WriteListed, Kept
    <3>19. Ahead' => MayBeAhead'
      BY <1>1, <1>3, <1>4, <1>7, <3>2 DEF MayBeAhead, For
    <3> QED
      BY <1>2, <1>3, <1>7, <3>2, <3>18, <3>19 DEF WriteOK
  <2> QED
    BY <2>1, <2>2
<1>9. ExtendOK' /\ PlaceOK'
  BY <1>3, <1>4 DEF ExtendOK, PlaceOK
<1> QED
  BY <1>2, <1>6, <1>8, <1>9 DEF Listed

\* A skewed list stays one that makes the traversal fail.
LEMMA SkewedStays ==
  ASSUME Control, HeadInUse, Skewed, cells' = cells, taken' = Ckpoint,
         file'.head = file.head, file'.size = file.size,
         IsErred => IsErred', IsDirty => IsDirty', ~IsWriting => ~IsWriting'
  PROVE  Skewed'
<1>1. PICK L : OnList(cells, Last(file.size) + 1, file.head, L)
  BY DEF Skewed, LongerListed
<1>2. NotABlock \in Traversed
  BY <1>1, HeadIsCovered DEF HeadCovered, HeadInUse, Skewed
<1>3. ~ScanMidway => NotABlock \in taken'
  BY <1>2 DEF Ckpoint
<1>4. LongerListed'
  BY <1>1, <1>3 DEF LongerListed, Kept, Safe
<1> QED
  BY <1>4 DEF Skewed

LEMMA ChunkExtendsKeepsLists ==
  ASSUME Control, Listed, ChunkExtends
  PROVE  Listed'
<1>1. /\ Writing /\ NeedsBlock /\ ~IsInline
      /\ IF Finds THEN /\ file' = [file EXCEPT !.block = Before]
                       /\ cells' = Forget(cache) /\ cache' = NoCache
                  ELSE UNCHANGED <<file, cells, cache>>
      /\ taken' = Ckpoint /\ pc' = "extend" /\ UNCHANGED <<entry, saved>>
  BY DEF ChunkExtends, IsInline, Goto
<1>2. pc \in {"put", "chunk"} /\ Puts /\ ~IsReading /\ file.open
  BY <1>1, WritingIs
<1>3. Finds => cache = NoCache /\ ~IsWriting
  BY DEF Control, CacheOK, WritesBlocks, Finds, IsWriting
<1>4. cells' = cells
  BY <1>1, <1>3 DEF Forget, NoCache
<1>5. /\ file'.pos = file.pos /\ file'.size = file.size
      /\ IsWriting => file'.block = file.block
      /\ file'.off = file.off /\ file'.head = file.head /\ file'.open = file.open /\ file'.flags = file.flags
  BY <1>1, <1>3 DEF Control, Typed, FileIs
<1>6. /\ (IsReading <=> IsReading') /\ (IsWriting <=> IsWriting') /\ (IsInline <=> IsInline')
      /\ (IsDirty <=> IsDirty') /\ (IsErred <=> IsErred')
  BY <1>5 DEF IsReading, IsWriting, IsInline, IsErred, IsDirty, Has
<1>7. IsWriting => file.off = BlockSize
  BY <1>1 DEF NeedsBlock, IsWriting
<1>8. \A X : Safe(Traversed, X) => (~ScanMidway => Safe(taken', X))
  BY <1>1 DEF Safe, Ckpoint
<1>9. EntryOK' /\ SavedIsIntact' /\ EntryBlocks' = EntryBlocks
  <2>1. Safe(Traversed, EntryBlocks)
    BY DEF Traversed, Safe
  <2>2. ~ScanMidway => Safe(taken', EntryBlocks)
    BY <1>8, <2>1
  <2> QED
    BY <1>1, <1>4, <2>2, EntryKeeps, Placed DEF Listed
<1>10. WritesBlocks' <=> WritesBlocks
  BY <1>1, <1>2, <1>5, <1>6 DEF WritesBlocks
<1>11. WritesBlocks => file'.block = file.block
  BY <1>5 DEF WritesBlocks
<1>12. HeadInUse /\ Skewed => Skewed'
  BY <1>1, <1>4, <1>5, <1>6, SkewedStays
<1>13. HeadOK'
  <2>1. ASSUME NEW L, HeadInUse, HeadBody(L)
        PROVE  /\ ~ScanMidway => Safe(taken', Body(Last(file.size), L))
               /\ WritesBlocks' => file'.block \notin Body(Last(file.size), L)
    <3>1. Safe(Traversed, Body(Last(file.size), L))
      BY <2>1, HeadIsCovered DEF HeadCovered, HeadInUse, HeadBody
    <3> QED
      BY <1>8, <1>10, <1>11, <2>1, <3>1 DEF HeadBody
  <2>2. DOMAIN cells' = Blocks
    BY <1>4, Placed
  <2> QED
    BY <1>1, <1>4, <1>5, <1>6, <1>12, <2>1, <2>2, HeadFollows DEF Listed
<1>14. WriteOK'
  <2> SUFFICES ASSUME WritesBlocks PROVE WriteOK'
    BY <1>10 DEF WriteOK
  <2>1. file.block \notin EntryBlocks /\ AtPlace /\ WriteListed
    BY DEF Listed, WriteOK
  <2>2. file'.block = file.block /\ file.off = BlockSize
    BY <1>7, <1>11 DEF WritesBlocks
  <2>3. AtPlace' /\ Here' = Here /\ ~Ahead'
    BY <1>5, <2>1, <2>2 DEF AtPlace, Here, Ahead
  <2>4. PICK L : OnList(cells, Here, file.block, L) /\ file.block \notin Body(Here - 1, L)
    BY <2>1 DEF WriteListed
  <2>5. Safe(Traversed, Body(Here, L))
    BY <2>1, <2>4, WriteIsCovered DEF WriteCovered
  <2>6. WriteListed'
    BY <1>4, <1>8, <2>2, <2>3, <2>4, <2>5 DEF WriteListed, Kept
  <2> QED
    BY <1>9, <2>1, <2>2, <2>3, <2>6 DEF WriteOK
<1>15. Traversed' = Traversed
  <2>1. OpenBlocks' = OpenBlocks
    BY <1>4, <1>5 DEF OpenBlocks, OpenList, Has, IsWriting
  <2> QED
    BY <1>9, <2>1 DEF Traversed
<1>16. ExtendOK'
  <2>1. ~ScanMidway => Traversed' \subseteq taken'
    BY <1>1, <1>15 DEF Ckpoint
  <2>2. ASSUME ~IsWriting, file.pos > 0 PROVE Skewed' \/ ExtendListed'
    <3>1. Finds /\ file'.block = Before /\ file.head \in Blocks /\ file.pos <= file.size
      <4>1. Finds
        BY <2>2 DEF Finds, IsWriting
      <4> QED
        BY <1>1, <1>2, <2>2, <4>1 DEF Control, BlockOK, PutOK, Typed, FileIs
    <3>2. file.pos \in 1 .. FileMax /\ file.size \in 1 .. FileMax /\ file.pos - 1 \in 0 .. file.size - 1
      BY <2>2, <3>1, Placed
    <3>3. HeadInUse /\ (IsDirty \/ Committed) /\ (HeadListed \/ Skewed)
      BY <1>1, <1>2, <2>2, <3>1, <3>2 DEF HeadInUse, Listed, HeadOK
    <3>4. CASE HeadListed
      <4> PICK n, m : n = Last(file.size) /\ m = Last(file.pos)
        OBVIOUS
      <4>1. PICK L : OnList(cells, n, file.head, L)
        BY <3>4 DEF HeadListed
      <4>2. file.pos - 1 \in 0 .. FileMax /\ m \in 0 .. n /\ n \in 0 .. Most /\ m = Index[file.pos - 1].i
        BY <3>2, LastTyped DEF Last
      <4>3. Before = L[m]
        <5>1. Index[file.pos - 1].i <= Last(file.size)
          BY <4>2, BlocksAreFew
        <5>2. lfs_ctz_find(cells, file.head, file.size, file.pos - 1)
                = [block |-> L[Index[file.pos - 1].i], off |-> Index[file.pos - 1].off]
          BY <3>2, <4>1, <4>2, <5>1, FindOnList
        <5> QED
          BY <4>2, <5>2 DEF Before
      <4> PICK K : K = [i \in 0 .. m |-> L[i]]
        OBVIOUS
      <4>4. OnList(cells, m, L[m], K)
        BY <4>1, <4>2, Shorter
      <4>5. \A i \in 0 .. m : i \in 0 .. n
        BY <4>2, BlocksAreFew
      <4>6. All(m, K) \subseteq All(n, L)
        BY <4>5 DEF All
      <4>7. All(n, L) \subseteq Traversed
        BY <3>3, <4>1, HeadIsCovered DEF HeadCovered, HeadInUse
      <4>8. ExtendListed'
        BY <1>4, <1>5, <1>15, <3>1, <4>3, <4>4, <4>6, <4>7 DEF ExtendListed
      <4> QED
        BY <4>8
    <3> QED
      BY <1>12, <3>3, <3>4
  <2> QED
    BY <1>5, <1>6, <2>1, <2>2 DEF ExtendOK
<1>17. PlaceOK'
  BY <1>2, <1>6 DEF PlaceOK
<1> QED
  BY <1>9, <1>13, <1>14, <1>16, <1>17 DEF Listed

-----------------------------------------------------------------------------
(***************************************************************************)
(* lfs_ctz_extend.                                                         *)
(***************************************************************************)
ToOf(h, w) ==
  w = [j \in 0 .. Skips(NextIndex) - 1 |-> IF j = 0 THEN h ELSE PtrAt(cells, w[j - 1], j - 1)]

\* The pointers it finds are those of the number of the new block.
LEMMA PointersAre ==
  ASSUME NEW n \in 1 .. Most, NextIndex = n, NEW h, NEW L, OnList(cells, n - 1, h, L)
  PROVE  \A j \in 0 .. lfs_ctz(n) : Pointers(h)[j] = Ptr(L[n - Bit(j)])
<1> PICK c : c = lfs_ctz(n)
  OBVIOUS
<1>1. n \in 1 .. 255 /\ c \in 0 .. 7 /\ Skips(NextIndex) - 1 = c
  <2>1. n \in 1 .. 255
    BY BlocksAreFew
  <2>2. c \in 0 .. 7
    BY <2>1, CtzIs
  <2>3. Skips(NextIndex) = c + 1
    BY <2>1 DEF Skips
  <2> QED
    BY <2>1, <2>2, <2>3
<1>2. L[n - Bit(0)] = h
  BY SMTT(30), <1>1, Bits DEF OnList
<1>3. ASSUME NEW j \in 1 .. c PROVE PtrAt(cells, L[n - Bit(j - 1)], j - 1) = L[n - Bit(j)]
  <2> PICK k, i : k = j - 1 /\ i = n - Bit(j - 1)
    OBVIOUS
  <2>1. k \in 0 .. c - 1 /\ k \in 0 .. 7
    BY <1>1
  <2>2. i \in 1 .. 255 /\ lfs_ctz(i) = k /\ i = n - Bit(k)
    BY <1>1, <2>1, CtzBefore
  <2>3. Bit(k) \in 1 .. 256 /\ Bit(j) = 2 * Bit(k)
    BY <1>1, <2>1, BitTyped
  <2>4. i \in 1 .. n - 1 /\ i - Bit(k) = n - Bit(j)
    <3> PICK a, b : a = Bit(k) /\ b = Bit(j)
      OBVIOUS
    <3>1. a \in 1 .. 256 /\ b = 2 * a /\ i = n - a /\ i \in 1 .. 255 /\ n \in 1 .. 255
      BY <1>1, <2>2, <2>3
    <3>2. i \in 1 .. n - 1 /\ i - a = n - b
      BY ONLY <3>1
    <3> QED
      BY <3>2
  <2>5. k \in 0 .. lfs_ctz(i)
    BY <2>1, <2>2
  <2>6. PtrAt(cells, L[i], k) = L[i - Bit(k)]
    BY <2>4, <2>5 DEF OnList, Links
  <2> QED
    BY <2>4, <2>6
<1> DEFINE w == CHOOSE w : ToOf(h, w)
<1>4. ToOf(h, w)
  <2> PICK v : v = [j \in 0 .. c |-> L[n - Bit(j)]]
    OBVIOUS
  <2>1. ASSUME NEW j \in 0 .. c PROVE v[j] = IF j = 0 THEN h ELSE PtrAt(cells, v[j - 1], j - 1)
    <3>1. CASE j = 0
      BY <1>2, <3>1
    <3>2. CASE j # 0
      <4>1. j \in 1 .. c /\ j - 1 \in 0 .. c
        BY <1>1, <3>2
      <4> QED
        BY <1>3, <3>2, <4>1
    <3> QED
      BY <3>1, <3>2
  <2>2. ToOf(h, v)
    BY <1>1, <2>1 DEF ToOf
  <2> QED
    BY <2>2
<1>5. Pointers(h) = [j \in 0 .. Skips(NextIndex) - 1 |-> Ptr(w[j])]
  BY DEF Pointers, ToOf
<1> HIDE DEF w
<1>6. \A j \in 0 .. c : w[j] = IF j = 0 THEN h ELSE PtrAt(cells, w[j - 1], j - 1)
  BY <1>1, <1>4 DEF ToOf
<1> DEFINE G == {j \in 0 .. c : w[j] = L[n - Bit(j)]}
           T == (0 .. c) \ G
<1>7. T = {}
  <2>1. SUFFICES ASSUME T # {} PROVE FALSE
    OBVIOUS
  <2>2. PICK k \in T : \A j \in T : k <= j
    <3>1. T \in SUBSET Nat
      BY <1>1
    <3> HIDE DEF T
    <3> QED
      BY <2>1, <3>1, Least
  <2>3. CASE k = 0
    BY <1>2, <1>6, <2>3
  <2>4. CASE k # 0
    <3>1. k \in 1 .. c /\ k - 1 \in 0 .. c /\ k - 1 < k
      BY <1>1, <2>4
    <3>2. k - 1 \in G
      <4> HIDE DEF G
      <4>1. k \in Nat /\ k - 1 \in Nat
        BY <1>1, <3>1
      <4> QED
        BY <2>2, <3>1, <4>1
    <3>3. w[k] = PtrAt(cells, w[k - 1], k - 1)
      BY <1>6, <2>4
    <3> QED
      BY <1>3, <3>1, <3>2, <3>3
  <2> QED
    BY <2>3, <2>4
<1>8. \A j \in 0 .. c : w[j] = L[n - Bit(j)]
  BY <1>7
<1> HIDE DEF G
<1> QED
  BY <1>1, <1>5, <1>8

\* A list that ends with e after blocks of X.
ListsTo(d, n, e, X) == \E K : OnList(d, n, e, K) /\ Body(n, K) \subseteq X \cup {e} /\ e \notin Body(n - 1, K)

\* The write begins within a block.
LEMMA ExtendsWithin ==
  ASSUME Control, HasOffer, pc = "extend", file.pos > 0, LastOff # BlockSize,
         cells' = [cells EXCEPT ![Offer] = Fresh(Prefix, cells[file.block])],
         NEW L, OnList(cells, Last(file.pos), file.block, L), Offer \notin Body(Last(file.pos), L)
  PROVE  ListsTo(cells', Index[file.pos].i, Offer, Body(Last(file.pos), L))
<1> PICK n, b, m : n = Last(file.pos) /\ b = file.block /\ m = Prefix
  OBVIOUS
<1>1. /\ file.pos \in 1 .. FileMax /\ Offer \in Blocks /\ Offer # NotABlock /\ DOMAIN cells = Blocks /\ DOMAIN cells' = Blocks
      /\ cells'[Offer] = Fresh(m, cells[b]) /\ \A x \in Blocks \ {Offer} : cells'[x] = cells[x]
  BY OfferIs, Placed
<1>2. Index[file.pos].i = n /\ m \in 0 .. BlockSize - 1 /\ m = Index[file.pos].off /\ n \in 0 .. Most /\ Most \in 0 .. 255
  BY <1>1, PrefixTyped, LastTyped, BlocksAreFew DEF Control, Typed, Prefix
<1>3. n > 0 => Skips(n) <= m
  <2>1. file.pos \in 0 .. FileMax
    BY Placed
  <2>2. m \in PtrSize * Skips(n) .. BlockSize - 1 /\ PtrSize = 1
    BY <1>2, <2>1, PlaceTyped, FileAssumption
  <2>3. Skips(n) \in 0 .. 8
    BY <1>2, SkipsTyped
  <2> QED
    BY <2>2, <2>3
<1>4. OnList(cells, n, b, L) /\ b \in Blocks /\ \A i \in 1 .. n : L[i] \in Blocks /\ L[i] \in Body(n, L)
  <2>1. OnList(cells, n, b, L) /\ \A i \in 1 .. n : L[i] \in Blocks /\ L[i] \in Body(n, L)
    BY <1>1 DEF OnList, Body
  <2>2. n \in 0 .. n
    BY <1>2
  <2> QED
    BY <1>1, <2>1, <2>2 DEF OnList
<1>5. m \in 0 .. BlockSize
  BY <1>2, Constants
<1>6. \A j \in Nat : j < BlockSize =>
         /\ j < m => PtrAt(cells', Offer, j) = PtrAt(cells, b, j)
         /\ PtrAt(cells', Offer, j) \in {PtrAt(cells, b, j), NotABlock}
  <2>1. Offer \in DOMAIN cells' /\ b \in DOMAIN cells /\ DOMAIN cells' = DOMAIN cells /\ cells'[Offer] = Fresh(m, cells[b])
    BY <1>1, <1>4
  <2> PICK d, e : d = cells' /\ e = Offer
    OBVIOUS
  <2>2. e \in DOMAIN d /\ DOMAIN d = DOMAIN cells /\ d[e] = Fresh(m, cells[b]) /\ b \in DOMAIN cells
    BY <2>1
  <2>3. ASSUME NEW j \in Nat, j < BlockSize
        PROVE  /\ j < m => PtrAt(d, e, j) = PtrAt(cells, b, j)
               /\ PtrAt(d, e, j) \in {PtrAt(cells, b, j), NotABlock}
    BY ONLY <1>5, <2>2, <2>3, FreshPtr
  <2> QED
    BY <2>3
<1>7. n > 0 => \A j \in 0 .. lfs_ctz(n) : PtrAt(cells', Offer, j) = PtrAt(cells, b, j)
  <2> SUFFICES ASSUME n > 0, NEW j \in 0 .. lfs_ctz(n) PROVE PtrAt(cells', Offer, j) = PtrAt(cells, b, j)
    OBVIOUS
  <2>1. n \in 1 .. 255 /\ lfs_ctz(n) \in 0 .. 7
    BY <1>2, CtzIs
  <2>2. lfs_ctz(n) + 1 <= m
    BY <1>3, <2>1 DEF Skips
  <2>3. j \in Nat /\ j < m /\ j < BlockSize
    BY <1>5, <2>1, <2>2, Constants
  <2> QED
    BY <1>6, <2>3
<1>8. n >= 2 /\ n % 2 = 1 => \A j \in 1 .. lfs_ctz(n - 1) : PtrAt(cells', Offer, j) \in {PtrAt(cells, b, j), NotABlock}
  <2> SUFFICES ASSUME n >= 2, NEW j \in 1 .. lfs_ctz(n - 1)
               PROVE  PtrAt(cells', Offer, j) \in {PtrAt(cells, b, j), NotABlock}
    OBVIOUS
  <2>1. n - 1 \in 1 .. Most /\ n - 1 \in 0 .. Most /\ n - 1 \in 1 .. 255 /\ n - 1 # 0
    BY <1>2
  <2>2. PtrSize * Skips(n - 1) \in 0 .. BlockSize - 1 /\ Skips(n - 1) \in 0 .. 8 /\ PtrSize = 1
    BY <2>1, SkipsTyped, FileAssumption
  <2>3. Skips(n - 1) = lfs_ctz(n - 1) + 1 /\ lfs_ctz(n - 1) \in 0 .. 7
    BY <2>1, CtzIs DEF Skips
  <2>4. j \in Nat /\ j < BlockSize
    BY <2>2, <2>3, Constants
  <2> QED
    BY <1>6, <2>4
<1>9. \A i \in 1 .. n - 1 : cells'[L[i]] = cells[L[i]]
  <2>1. \A i \in 1 .. n - 1 : i \in 1 .. n
    BY <1>2
  <2> QED
    BY <1>1, <1>4, <2>1
<1>10. EndsWith(cells', n, Offer, L)
  BY <1>1, <1>4, <1>7, <1>8, <1>9, CopyEnds
<1>11. PICK K : OnList(cells', n, Offer, K) /\ Body(n, K) \subseteq Body(n - 1, L) \cup {Offer}
                /\ Body(n - 1, K) = Body(n - 1, L)
  BY <1>10 DEF EndsWith
<1>12. Body(n - 1, L) \subseteq Body(n, L)
  BY <1>2 DEF Body
<1> QED
  BY <1>2, <1>11, <1>12 DEF ListsTo

\* Or the block before is full.
LEMMA ExtendsAfter ==
  ASSUME Control, HasOffer, pc = "extend", file.pos > 0, LastOff = BlockSize,
         cells' = [cells EXCEPT ![Offer] = Fresh(Prefix, Pointers(file.block))],
         NEW L, OnList(cells, Last(file.pos), file.block, L), Offer \notin Body(Last(file.pos), L)
  PROVE  ListsTo(cells', Index[file.pos].i, Offer, Body(Last(file.pos), L))
<1> PICK n, b, m : n = NextIndex /\ b = file.block /\ m = Prefix
  OBVIOUS
<1>1. /\ file.pos \in 1 .. FileMax /\ Offer \in Blocks /\ Offer # NotABlock /\ DOMAIN cells = Blocks /\ DOMAIN cells' = Blocks
      /\ cells'[Offer] = Fresh(m, Pointers(b)) /\ \A x \in Blocks \ {Offer} : cells'[x] = cells[x]
  BY OfferIs, Placed
<1>2. Index[file.pos].i = n /\ n \in 1 .. Most /\ Most \in 0 .. 255 /\ n - 1 = Last(file.pos)
  <2>1. NextIndex = Last(file.pos) + 1 /\ Last(file.pos) \in 0 .. Most
    BY <1>1, LastTyped DEF NextIndex, Last
  <2> QED
    BY <2>1, PrefixTyped, BlocksAreFew DEF Control, Typed
<1>3. m = Skips(n) /\ n \in 1 .. 255 /\ lfs_ctz(n) \in 0 .. 7 /\ m = lfs_ctz(n) + 1 /\ m < BlockSize
  <2>1. n \in 1 .. 255 /\ lfs_ctz(n) \in 0 .. 7 /\ Skips(n) = lfs_ctz(n) + 1 /\ n \in 0 .. Most
    BY <1>2, CtzIs DEF Skips
  <2>2. m = PtrSize * Skips(n) /\ PtrSize = 1
    BY <1>1, FileAssumption DEF Prefix
  <2>3. PtrSize * Skips(n) \in 0 .. BlockSize - 1
    BY <2>1, SkipsTyped
  <2> QED
    BY <2>1, <2>2, <2>3, Constants
<1>4. OnList(cells, n - 1, b, L) /\ \A i \in 1 .. n - 1 : L[i] \in Blocks /\ L[i] \in Body(n - 1, L)
  BY <1>1, <1>2 DEF OnList, Body
<1>5. \A j \in 0 .. lfs_ctz(n) : Pointers(b)[j] = Ptr(L[n - Bit(j)])
  BY <1>2, <1>4, PointersAre
<1>6. OnList(cells', n - 1, b, L)
  <2>1. \A i \in 1 .. n - 1 : cells'[L[i]] = cells[L[i]]
    BY <1>1, <1>2, <1>4
  <2> QED
    BY <1>1, <1>4, <2>1, SameCells
<1>7. PtrSize = 1 /\ \A j \in 0 .. BlockSize - 1 : PtrSize * j = j /\ cells'[Offer][j] = IF j < m THEN Pointers(b)[j] ELSE Gap
  BY <1>1, FileAssumption, Constants DEF Fresh
<1>8. ASSUME NEW j \in 0 .. lfs_ctz(n) PROVE PtrAt(cells', Offer, j) = L[n - Bit(j)]
  <2>1. j \in 0 .. BlockSize - 1 /\ j < m
    BY <1>3, Constants
  <2>2. cells'[Offer][PtrSize * j] = Ptr(L[n - Bit(j)])
    BY <1>5, <1>7, <2>1
  <2>3. n - Bit(j) \in 0 .. n - 1
    <3>1. n \in 1 .. n /\ n \in 0 .. Most
      BY <1>2
    <3> QED
      BY <3>1, SkipBound
  <2>4. L[n - Bit(j)] \in Blocks
    BY <1>1, <1>4, <2>3 DEF OnList
  <2> QED
    BY <1>1, <2>2, <2>4 DEF PtrAt, Ptr
<1>9. ASSUME n >= 2, n % 2 = 1, NEW j \in 1 .. lfs_ctz(n - 1) PROVE PtrAt(cells', Offer, j) = NotABlock
  <2>1. m = 1
    BY <1>3, <1>9, EvenSkips
  <2>2. n - 1 \in 1 .. Most /\ n - 1 \in 0 .. Most /\ n - 1 \in 1 .. 255 /\ n - 1 # 0
    BY <1>2, <1>9
  <2>3. PtrSize * Skips(n - 1) \in 0 .. BlockSize - 1 /\ Skips(n - 1) \in 0 .. 8
    BY <2>2, SkipsTyped
  <2>4. Skips(n - 1) = lfs_ctz(n - 1) + 1 /\ lfs_ctz(n - 1) \in 0 .. 7
    BY <2>2, CtzIs DEF Skips
  <2>5. j \in 0 .. BlockSize - 1 /\ ~(j < m)
    BY <1>7, <2>1, <2>3, <2>4, Constants
  <2>6. cells'[Offer][PtrSize * j] = Gap /\ Gap[1] # "ptr"
    BY <1>7, <2>5 DEF Gap
  <2> QED
    BY <2>6 DEF PtrAt
<1> PICK K : K = Then(L, n, Offer)
  OBVIOUS
<1>10. OnList(cells', n, Offer, K)
  BY <1>1, <1>2, <1>6, <1>8, <1>9, Longer
<1>11. \A i \in 1 .. n : (i = n /\ K[i] = Offer) \/ (i \in 1 .. n - 1 /\ K[i] = L[i])
  BY <1>2 DEF Then
<1>12. \A i \in 1 .. n - 1 : K[i] = L[i]
  BY <1>2 DEF Then
<1>13. Body(n, K) \subseteq Body(n - 1, L) \cup {Offer}
  BY <1>11 DEF Body
<1>14. Body(n - 1, K) = Body(n - 1, L)
  BY <1>12 DEF Body
<1> QED
  BY <1>2, <1>10, <1>13, <1>14 DEF ListsTo

\* The list that is extended, of which the allocator will not offer a block.
Extended(L) ==
  /\ OnList(cells, Last(file.pos), file.block, L)
  /\ Offer \notin Body(Last(file.pos), L)
  /\ ~ScanMidway => Safe(taken, Body(Last(file.pos), L))

LEMMA OfferNotSkewed ==
  ASSUME Control, Listed, HasOffer, pc = "extend"
  PROVE  ~(HeadInUse /\ Skewed)
<1> SUFFICES ASSUME HeadInUse, Skewed PROVE FALSE
  OBVIOUS
<1>1. PICK L : OnList(cells, Last(file.size) + 1, file.head, L)
  BY DEF Skewed, LongerListed
<1>2. NotABlock \in Traversed
  BY <1>1, HeadIsCovered DEF HeadCovered, HeadInUse, Skewed
<1>3. NotABlock \notin Taken
  BY OfferIs
<1> QED
  BY <1>2, <1>3 DEF Taken, Listed, ExtendOK

LEMMA ExtendedIs ==
  ASSUME Control, Listed, HasOffer, pc = "extend", file.pos > 0
  PROVE  \E L : Extended(L)
<1>1. ~IsReading /\ ~IsInline /\ file.open /\ (IsWriting => file.off = BlockSize) /\ (~IsWriting => file.pos <= file.size)
  BY InACall DEF Control, FlagsOK, PutOK, Puts, Mid
<1>2. CASE IsWriting
  <2>1. WritesBlocks /\ Here = Last(file.pos)
    BY <1>1, <1>2 DEF WritesBlocks, Here
  <2>2. AtPlace /\ WriteListed
    BY <2>1 DEF Listed, WriteOK
  <2>3. PICK L : OnList(cells, Last(file.pos), file.block, L) /\ Kept(Body(Last(file.pos), L))
    BY <2>1, <2>2 DEF WriteListed
  <2>4. Safe(Traversed, Body(Last(file.pos), L))
    BY <2>1, <2>2, <2>3, WriteIsCovered DEF WriteCovered
  <2>5. ~ScanMidway => Safe(taken, Body(Last(file.pos), L))
    BY <2>3 DEF Kept, InCall
  <2>6. Offer \notin Body(Last(file.pos), L)
    BY <2>4, <2>5, OfferIsFree
  <2> QED
    BY <2>3, <2>5, <2>6 DEF Extended
<1>3. CASE ~IsWriting
  <2>1. file.pos \in 1 .. FileMax /\ file.size > 0 /\ file.head \in Blocks
    BY <1>1, <1>3, Placed DEF Control, BlockOK
  <2>2. ~Skewed
    <3>1. Skewed => HeadInUse
      BY <1>1, <2>1 DEF HeadInUse, Skewed
    <3> QED
      BY <3>1, OfferNotSkewed
  <2>3. PICK L : OnList(cells, Last(file.pos), file.block, L) /\ All(Last(file.pos), L) \subseteq Traversed
    BY <1>3, <2>2 DEF Listed, ExtendOK, ExtendListed
  <2>4. Body(Last(file.pos), L) \subseteq Traversed
    <3>1. Last(file.pos) \in 0 .. Most /\ Last(file.pos) \in Nat
      BY <2>1, LastTyped
    <3> QED
      BY <2>3, <3>1, BodyInAll
  <2>5. ~ScanMidway => Safe(taken, Body(Last(file.pos), L))
    BY <2>4 DEF Listed, ExtendOK, Safe
  <2>6. Offer \notin Body(Last(file.pos), L)
    BY <2>4, <2>5, OfferIsFree DEF Safe
  <2> QED
    BY <2>3, <2>5, <2>6 DEF Extended
<1> QED
  BY <1>2, <1>3

LEMMA ExtendKeepsLists ==
  ASSUME Control, Listed, Extend
  PROVE  Listed'
<1>0. pc = "extend" /\ HasOffer /\ ~IsReading /\ ~IsInline /\ file.open
  BY InACall DEF Extend, Control, FlagsOK, PutOK, Puts, Mid
<1>1. cache = NoCache
  BY <1>0, NoneDirty DEF Control, CacheOK, WritesBlocks, PutOK, Puts, Mid
<1>2. Prefix \in 0 .. BlockSize - 1
  BY PrefixTyped DEF Control, Typed
<1>3. /\ cells' = [cells EXCEPT ![Offer] =
                     IF file.pos = 0 THEN Fresh(0, NoBytes)
                     ELSE IF LastOff # BlockSize THEN Fresh(Prefix, cells[file.block])
                     ELSE Fresh(Prefix, Pointers(file.block))]
      /\ file' = [file EXCEPT !.block = Offer, !.off = Prefix, !.flags = @ \cup {"writing"}]
      /\ taken' = taken \cup {Offer}
      /\ pc' = "chunk" /\ UNCHANGED <<entry, saved>>
  BY <1>1 DEF Extend, Room, Goto
<1>4. PICK e : cells' = [cells EXCEPT ![Offer] = e]
  BY <1>3
<1>5. /\ Offer \in Blocks /\ Offer # NotABlock /\ Offer \notin EntryBlocks /\ DOMAIN cells' = Blocks
      /\ EntryOK' /\ SavedIsIntact' /\ EntryBlocks' = EntryBlocks /\ InCall
  BY <1>0, <1>3, <1>4, OfferTaken DEF InCall
<1>6. /\ ~IsReading' /\ IsWriting' /\ ~IsInline' /\ (IsDirty <=> IsDirty')
      /\ file'.pos = file.pos /\ file'.size = file.size /\ file'.block = Offer /\ file'.off = Prefix
      /\ file'.head = file.head /\ file'.open = file.open
  BY <1>0, <1>2, <1>3, <1>5, Constants DEF Control, Typed, FileIs, IsReading, IsWriting, IsInline, IsDirty, Has, Flags
<1>7. HeadOK'
  BY <1>0, <1>3, <1>4, <1>5, <1>6, OfferNotSkewed, OfferBehindHead
<1>8. Prefix = Index[file.pos].off /\ Prefix # BlockSize
  <2>1. CASE file.pos = 0
    BY <1>2, <2>1, FirstBlock, Constants DEF Prefix
  <2>2. CASE file.pos # 0
    <3>1. file.pos > 0
      BY <2>2, Placed
    <3>2. FileIs(file)
      BY DEF Control, Typed
    <3> QED
      BY <1>2, <3>1, <3>2, PrefixTyped, Constants DEF Prefix
  <2> QED
    BY <2>1, <2>2
<1>9. AtPlace' /\ Here' = Index[file.pos].i /\ MayBeAhead'
  BY <1>3, <1>6, <1>8 DEF AtPlace, Here, MayBeAhead
<1>10. WriteListed'
  <2>1. CASE file.pos = 0
    <3> PICK L : L = [i \in 0 .. 0 |-> Offer]
      OBVIOUS
    <3>1. OnList(cells', 0, Offer, L)
      BY <1>5, FirstOfList
    <3>2. Body(0, L) = {} /\ Body(0 - 1, L) = {}
      BY DEF Body
    <3>3. Index[0].i = 0
      BY FirstBlock, Constants
    <3> QED
      BY <1>6, <1>9, <2>1, <3>1, <3>2, <3>3 DEF WriteListed, Kept, Safe
  <2>2. CASE file.pos # 0
    <3>1. file.pos > 0
      BY <2>2, Placed
    <3>2. PICK L : Extended(L)
      BY <1>0, <3>1, ExtendedIs
    <3> PICK X : X = Body(Last(file.pos), L)
      OBVIOUS
    <3>3. ListsTo(cells', Index[file.pos].i, Offer, X)
      <4>1. CASE LastOff # BlockSize
        <5>1. cells' = [cells EXCEPT ![Offer] = Fresh(Prefix, cells[file.block])]
          BY <1>3, <2>2, <4>1
        <5> QED
          BY <1>0, <3>1, <3>2, <4>1, <5>1, ExtendsWithin DEF Extended
      <4>2. CASE LastOff = BlockSize
        <5>1. cells' = [cells EXCEPT ![Offer] = Fresh(Prefix, Pointers(file.block))]
          BY <1>3, <2>2, <4>2
        <5> QED
          BY <1>0, <3>1, <3>2, <4>2, <5>1, ExtendsAfter DEF Extended
      <4> QED
        BY <4>1, <4>2
    <3> PICK n : n = Index[file.pos].i
      OBVIOUS
    <3>4. PICK K : OnList(cells', n, Offer, K) /\ Body(n, K) \subseteq X \cup {Offer} /\ Offer \notin Body(n - 1, K)
      BY <3>3 DEF ListsTo
    <3>5. ~ScanMidway => Safe(taken', Body(n, K))
      <4>1. ~ScanMidway => Safe(taken, X)
        BY <3>2 DEF Extended
      <4> QED
        BY <1>3, <3>4, <4>1 DEF Safe
    <3> QED
      BY <1>6, <1>9, <3>4, <3>5 DEF WriteListed, Kept
  <2> QED
    BY <2>1, <2>2
<1>11. WriteOK'
  BY <1>5, <1>6, <1>9, <1>10 DEF WriteOK
<1>12. ExtendOK' /\ PlaceOK'
  BY <1>3, <1>6 DEF ExtendOK, PlaceOK
<1> QED
  BY <1>5, <1>7, <1>11, <1>12 DEF Listed

-----------------------------------------------------------------------------
(***************************************************************************)
(* lfs_bd_prog.                                                            *)
(***************************************************************************)
\* What was written is known when the checkpoint is taken.
LEMMA EntryCovered ==
  ASSUME Control, EntryOK, SavedIsIntact, entry' = entry, saved' = saved, DOMAIN cells' = Blocks,
         \A b \in EntryBlocks \cap Blocks : cells'[b] = cells[b], taken' = Ckpoint'
  PROVE  EntryOK' /\ SavedIsIntact' /\ EntryBlocks' = EntryBlocks
<1>1. EntryBlocks' = EntryBlocks
  BY EntrySame
<1>2. ~ScanMidway => Safe(taken', EntryBlocks)
  BY <1>1 DEF Ckpoint, Traversed, Safe
<1> QED
  BY <1>2, EntryKeeps

\* k bytes of a block are written.
Programs(e, k) ==
  /\ cells' = [cells EXCEPT ![file.block] = e]
  /\ \A i \in 0 .. BlockSize - 1 :
       IF file.off <= i /\ i < file.off + k THEN e[i][1] = "data" ELSE e[i] = cells[file.block][i]

LEMMA ProgIs ==
  ASSUME Control, Prog
  PROVE  /\ Writing /\ IsWriting /\ ~IsReading /\ file.open /\ pc \in {"put", "chunk"}
         /\ UNCHANGED <<entry, saved>> /\ taken' = Ckpoint' /\ pc' \in {"chunk", "wrote", "fill", "copy"}
         /\ IsInline => UNCHANGED cells
         /\ file'.size = file.size /\ file'.block = file.block /\ file'.head = file.head
         /\ file'.open = file.open /\ file'.flags = file.flags
         /\ \E k \in 1 .. BlockSize :
              /\ file.off \in 0 .. BlockSize - 1 /\ file.off + k \in 1 .. BlockSize
              /\ file.pos \in 0 .. FileMax /\ file.pos + k \in 1 .. FileMax
              /\ file'.pos = file.pos + k /\ file'.off = file.off + k
              /\ ~IsInline => WritesBlocks /\ \E e : Programs(e, k)
<1> DEFINE upto == file.off + Chunk
           put(old) == [i \in DOMAIN old |-> IF file.off <= i /\ i < upto
                                             THEN reg.todo[i - file.off + 1] ELSE old[i]]
<1>1. /\ Writing /\ IsWriting /\ file.off # BlockSize
      /\ file' = [file EXCEPT !.pos = @ + Chunk, !.off = upto, !.data = IF IsInline THEN put(@) ELSE @]
      /\ IF IsInline THEN UNCHANGED <<cells, cache>>
         ELSE cells' = [cells EXCEPT ![file.block] = put(@)] /\ cache' = Dirty(file.block, upto)
      /\ IF IsInline \/ Room(cache, file.block, file.off)
         THEN IF Chunk = Len(reg.todo) THEN Return ELSE Goto("chunk")
         ELSE Goto("panic")
      /\ UNCHANGED <<entry, saved>> /\ taken' = Ckpoint'
  BY DEF Prog, NeedsBlock, IsInline, IsWriting
<1>2. pc \in {"put", "chunk"} /\ Puts /\ ~IsReading /\ file.open /\ Len(reg.todo) \in Nat /\ Len(reg.todo) > 0
  BY <1>1, WritingIs
<1>3. ~IsInline => WritesBlocks /\ file.block \in Blocks /\ Room(cache, file.block, file.off)
  BY <1>1, <1>2, RoomFor DEF WritesBlocks, Control, BlockOK
<1>4. file.off \in 0 .. BlockSize - 1 /\ file.pos \in 0 .. FileMax /\ BlockSize \in Nat /\ FileMax \in Nat
  BY <1>1, Constants, Placed
<1> PICK k, n : k = Chunk /\ n = Len(reg.todo)
  OBVIOUS
<1>5. k \in 1 .. n /\ k \in 1 .. BlockSize /\ file.off + k \in 1 .. BlockSize /\ file.pos + k \in 1 .. FileMax
  <2>1. n \in Nat /\ n > 0 /\ file.pos + n <= FileMax
    BY <1>2 DEF Control, PutOK
  <2>2. k = IF n < BlockSize - file.off THEN n ELSE BlockSize - file.off
    BY DEF Chunk, Lesser
  <2> QED
    BY ONLY <1>4, <2>1, <2>2
<1>6. /\ file'.size = file.size /\ file'.block = file.block /\ file'.head = file.head
      /\ file'.open = file.open /\ file'.flags = file.flags /\ file'.pos = file.pos + k /\ file'.off = file.off + k
  <2> HIDE DEF put
  <2> QED
    BY <1>1 DEF Control, Typed, FileIs
<1>7. ASSUME ~IsInline
      PROVE  \E e : Programs(e, k)
  <2> PICK e : e = put(cells[file.block])
    OBVIOUS
  <2>1. cells' = [cells EXCEPT ![file.block] = e]
    BY <1>1, <1>7
  <2>2. DOMAIN cells[file.block] = 0 .. BlockSize - 1
    BY <1>3, <1>7, CellsDomain DEF Control, Typed
  <2>3. \A i \in 1 .. n : reg.todo[i][1] = "data"
    <3>1. 0 \in 0 .. n /\ ToDo(reg.todo)
      BY <1>2 DEF Control, Typed, RegIs
    <3> QED
      BY <3>1, ShorterToDo
  <2>4. \A i \in 0 .. BlockSize - 1 : e[i] = IF file.off <= i /\ i < file.off + k
                                             THEN reg.todo[i - file.off + 1] ELSE cells[file.block][i]
    BY <2>2
  <2>5. \A i \in 0 .. BlockSize - 1 : file.off <= i /\ i < file.off + k => i - file.off + 1 \in 1 .. n
    <3> PICK o : o = file.off
      OBVIOUS
    <3>1. o \in 0 .. BlockSize - 1 /\ k \in 1 .. n /\ n \in Nat /\ BlockSize \in Nat
      BY <1>2, <1>4, <1>5
    <3>2. \A i \in 0 .. BlockSize - 1 : o <= i /\ i < o + k => i - o + 1 \in 1 .. n
      BY ONLY <3>1
    <3> QED
      BY <3>2
  <2>6. Programs(e, k)
    BY <2>1, <2>3, <2>4, <2>5 DEF Programs
  <2> QED
    BY <2>6
<1> HIDE DEF put
<1>8. pc' \in {"chunk", "wrote", "fill", "copy"}
  <2>1. Return \/ pc' = "chunk"
    BY <1>1, <1>3 DEF Goto
  <2>2. Return => pc' \in {"wrote", "fill", "copy"}
    BY <1>2, ReturnsTo DEF Returns
  <2> QED
    BY <2>1, <2>2
<1> QED
  BY <1>1, <1>2, <1>3, <1>4, <1>5, <1>6, <1>7, <1>8

\* The bytes of a block are at places next to one another.
LEMMA PlaceAfter ==
  ASSUME Control, AtPlace, file.off # BlockSize, NEW k \in 1 .. BlockSize,
         file.off \in 0 .. BlockSize - 1, file.off + k \in 1 .. BlockSize,
         file.pos \in 0 .. FileMax, file.pos + k \in 1 .. FileMax,
         file'.pos = file.pos + k, file'.off = file.off + k
  PROVE  AtPlace' /\ ~Ahead' /\ Here' = Here
<1> PICK p, o : p = file.pos /\ o = file.off
  OBVIOUS
<1>1. o = Index[p].off /\ Here = Index[p].i /\ p \in 0 .. FileMax /\ o \in 0 .. BlockSize - 1
      /\ p + k \in 1 .. FileMax /\ o + k \in 1 .. BlockSize /\ file'.pos = p + k /\ file'.off = o + k
  BY DEF AtPlace, Here
<1>2. k - 1 \in Nat /\ p + (k - 1) <= FileMax /\ o + (k - 1) < BlockSize /\ p + (k - 1) = (p + k) - 1 /\ o + (k - 1) = (o + k) - 1
  BY <1>1, Constants
<1>3. Index[p + (k - 1)].i = Index[p].i /\ Index[p + (k - 1)].off = o + (k - 1)
  BY <1>1, <1>2, PlacesInBlock
<1>4. Last(p + k) = Here /\ Index[(p + k) - 1].off = (o + k) - 1 /\ p + k > 0
  BY <1>1, <1>2, <1>3 DEF Last
<1>5. CASE o + k = BlockSize
  BY <1>1, <1>4, <1>5 DEF AtPlace, Ahead, Here
<1>6. CASE o + k # BlockSize
  <2>1. k \in Nat /\ p + k <= FileMax /\ o + k < BlockSize
    BY <1>1, <1>6, Constants
  <2>2. Index[p + k].i = Index[p].i /\ Index[p + k].off = o + k
    BY <1>1, <2>1, PlacesInBlock
  <2> QED
    BY <1>1, <1>4, <1>6, <2>2 DEF AtPlace, Ahead, Here
<1> QED
  BY <1>5, <1>6

\* The pointers of a block lie before what is written to it.
LEMMA ProgKeepsPtr ==
  ASSUME Control, NEW k \in 1 .. BlockSize, NEW e, Programs(e, k), file.block \in Blocks,
         file.off \in 0 .. BlockSize - 1, NEW j \in 0 .. BlockSize - 1
  PROVE  /\ j < file.off => PtrAt(cells', file.block, j) = PtrAt(cells, file.block, j)
         /\ PtrAt(cells', file.block, j) \in {PtrAt(cells, file.block, j), NotABlock}
<1> PICK b, o, d : b = file.block /\ o = file.off /\ d = cells'
  OBVIOUS
<1>1. PtrSize = 1 /\ PtrSize * j = j /\ DOMAIN cells = Blocks /\ DOMAIN d = Blocks /\ d[b] = e /\ b \in Blocks
  BY FileAssumption, Placed DEF Programs
<1>2. IF o <= j /\ j < o + k THEN d[b][j][1] = "data" ELSE d[b][j] = cells[b][j]
  BY <1>1 DEF Programs
<1>3. j < o => d[b][j] = cells[b][j]
  BY <1>2
<1> QED
  BY <1>1, <1>2, <1>3 DEF PtrAt

LEMMA ProgKeepsWrite ==
  ASSUME Control, Listed, Control', WritesBlocks, NEW k \in 1 .. BlockSize, NEW e, Programs(e, k),
         file.off \in 0 .. BlockSize - 1, taken' = Ckpoint',
         AtPlace', ~Ahead', Here' = Here, file'.block = file.block, WritesBlocks', EntryBlocks' = EntryBlocks
  PROVE  WriteOK'
<1>1. file.block \notin EntryBlocks /\ AtPlace /\ WriteListed
  BY DEF Listed, WriteOK
<1> PICK n, b : n = Here /\ b = file.block
  OBVIOUS
<1>2. PICK L : OnList(cells, n, b, L) /\ b \notin Body(n - 1, L)
  BY <1>1 DEF WriteListed
<1>3. n \in 0 .. Most /\ Most \in 0 .. 255 /\ (n > 0 => Skips(n) <= file.off)
  <2>1. PtrSize = 1 /\ (n > 0 => PtrSize * Skips(n) <= file.off) /\ n \in 0 .. Most /\ Most \in 0 .. 255
    BY <1>1, HereIs, BlocksAreFew, FileAssumption
  <2>2. Skips(n) \in 0 .. 8
    BY <2>1, SkipsTyped
  <2> QED
    BY <2>1, <2>2
<1>4. b \in Blocks /\ DOMAIN cells = Blocks /\ DOMAIN cells' = Blocks /\ \A x \in Blocks \ {b} : cells'[x] = cells[x]
  BY Placed DEF Control, BlockOK, Programs
<1>5. \A j \in 0 .. BlockSize - 1 :
         /\ j < file.off => PtrAt(cells', b, j) = PtrAt(cells, b, j)
         /\ PtrAt(cells', b, j) \in {PtrAt(cells, b, j), NotABlock}
  BY <1>4, ProgKeepsPtr
<1>6. \A i \in 1 .. n : \/ i = n /\ L[i] = b
                        \/ i # n /\ \A j : PtrAt(cells', L[i], j) = PtrAt(cells, L[i], j)
  <2> TAKE i \in 1 .. n
  <2>1. CASE i = n
    BY <1>2, <2>1 DEF OnList
  <2>2. CASE i # n
    <3>1. i \in 1 .. n - 1 /\ L[i] \in Blocks
      BY <1>2, <1>3, <1>4, <2>2 DEF OnList
    <3>2. L[i] \in Body(n - 1, L)
      BY <3>1 DEF Body
    <3>3. L[i] # b /\ cells'[L[i]] = cells[L[i]]
      BY <1>2, <1>4, <3>1, <3>2
    <3> QED
      BY <1>4, <2>2, <3>3 DEF PtrAt
  <2> QED
    BY <2>1, <2>2
<1>7. ASSUME NEW i \in 1 .. n, NEW j \in 0 .. lfs_ctz(i) PROVE PtrAt(cells', L[i], j) = PtrAt(cells, L[i], j)
  <2>1. CASE i # n
    BY <1>6, <2>1
  <2>2. CASE i = n
    <3>1. n > 0 /\ n \in 1 .. 255 /\ lfs_ctz(n) \in 0 .. 7
      BY <1>3, <2>2, CtzIs
    <3>2. lfs_ctz(n) + 1 <= file.off
      BY <1>3, <3>1 DEF Skips
    <3>3. j \in 0 .. BlockSize - 1 /\ j < file.off
      BY <2>2, <3>1, <3>2, Constants
    <3> QED
      BY <1>5, <1>6, <2>2, <3>3
  <2> QED
    BY <2>1, <2>2
<1>8. ASSUME NEW i \in 2 .. n, i % 2 = 1, NEW j \in 1 .. lfs_ctz(i - 1)
      PROVE  PtrAt(cells', L[i], j) \in {PtrAt(cells, L[i], j), NotABlock}
  <2>1. i \in 1 .. n
    OBVIOUS
  <2>2. CASE i # n
    BY <1>6, <2>1, <2>2
  <2>3. CASE i = n
    <3>1. n - 1 \in 1 .. Most /\ n - 1 \in 0 .. Most /\ n - 1 \in 1 .. 255 /\ n - 1 # 0
      BY <1>3, <2>3
    <3>2. PtrSize * Skips(n - 1) \in 0 .. BlockSize - 1 /\ Skips(n - 1) \in 0 .. 8 /\ PtrSize = 1
      BY <3>1, SkipsTyped, FileAssumption
    <3>3. Skips(n - 1) = lfs_ctz(n - 1) + 1 /\ lfs_ctz(n - 1) \in 0 .. 7
      BY <3>1, CtzIs DEF Skips
    <3>4. j \in 0 .. BlockSize - 1
      BY <2>3, <3>2, <3>3, Constants
    <3> QED
      BY <1>5, <1>6, <2>1, <2>3, <3>4
  <2> QED
    BY <2>2, <2>3
<1>9. OnList(cells', n, b, L)
  BY <1>2, <1>4, <1>7, <1>8, SameList
<1>10. Safe(Traversed', Body(n, L))
  BY <1>9, WriteIsCoveredNext DEF WriteCovered
<1>11. ~ScanMidway => Safe(taken', Body(n, L))
  BY <1>10 DEF Ckpoint, Safe
<1>12. WriteListed'
  BY <1>2, <1>9, <1>11 DEF WriteListed, Kept
<1> QED
  BY <1>1, <1>12 DEF WriteOK

LEMMA ProgKeepsHead ==
  ASSUME Control, Listed, Control', WritesBlocks, NEW k \in 1 .. BlockSize, NEW e, Programs(e, k),
         taken' = Ckpoint', entry' = entry, file'.block = file.block,
         file'.open = file.open, file'.head = file.head, file'.size = file.size, file'.flags = file.flags
  PROVE  HeadOK'
<1>1. DOMAIN cells' = Blocks /\ DOMAIN cells = Blocks /\ \A x \in Blocks \ {file.block} : cells'[x] = cells[x]
  BY Placed DEF Programs
<1>2. /\ (IsWriting <=> IsWriting') /\ (IsInline <=> IsInline') /\ (IsDirty <=> IsDirty')
  BY DEF IsWriting, IsInline, IsDirty, Has
<1>3. ~Skewed
  BY DEF Skewed, WritesBlocks
<1>4. Committed <=> Committed'
  BY DEF Committed
<1>5. ASSUME NEW L, HeadInUse, HeadBody(L)
      PROVE  /\ \A b \in Body(Last(file.size), L) : cells'[b] = cells[b]
             /\ ~ScanMidway => Safe(taken', Body(Last(file.size), L))
             /\ file.block \notin Body(Last(file.size), L)
  <2>1. OnList(cells, Last(file.size), file.head, L) /\ file.block \notin Body(Last(file.size), L)
    BY <1>5 DEF HeadBody
  <2>2. \A i \in 1 .. Last(file.size) : L[i] \in Blocks /\ L[i] \in Body(Last(file.size), L)
    <3>1. \A i \in 1 .. Last(file.size) : i \in 0 .. Last(file.size)
      OBVIOUS
    <3> QED
      BY <1>1, <2>1, <3>1 DEF OnList, Body
  <2>3. \A i \in 1 .. Last(file.size) : cells'[L[i]] = cells[L[i]]
    BY <1>1, <2>1, <2>2
  <2>4. OnList(cells', Last(file.size), file.head, L)
    BY <1>1, <2>1, <2>3, SameCells
  <2>5. Safe(Traversed', Body(Last(file.size), L))
    BY <1>2, <1>4, <1>5, <2>4, HeadIsCoveredNext DEF HeadCovered, HeadInUse
  <2> QED
    BY <2>1, <2>3, <2>5 DEF Ckpoint, Safe, Body
<1> QED
  BY <1>1, <1>2, <1>3, <1>5, HeadFollows DEF Listed

LEMMA ProgKeepsLists ==
  ASSUME Control, Listed, Control', Prog
  PROVE  Listed'
<1>1. /\ IsWriting /\ ~IsReading /\ file.open /\ UNCHANGED <<entry, saved>> /\ taken' = Ckpoint'
      /\ pc' \in {"chunk", "wrote", "fill", "copy"}
      /\ IsInline => UNCHANGED cells
      /\ file'.size = file.size /\ file'.block = file.block /\ file'.head = file.head
      /\ file'.open = file.open /\ file'.flags = file.flags
  BY ProgIs
<1>2. PICK k \in 1 .. BlockSize :
              /\ file.off \in 0 .. BlockSize - 1 /\ file.off + k \in 1 .. BlockSize
              /\ file.pos \in 0 .. FileMax /\ file.pos + k \in 1 .. FileMax
              /\ file'.pos = file.pos + k /\ file'.off = file.off + k
              /\ ~IsInline => WritesBlocks /\ \E e : Programs(e, k)
  BY ProgIs
<1>3. (IsReading <=> IsReading') /\ (IsWriting <=> IsWriting') /\ (IsInline <=> IsInline')
  BY <1>1 DEF IsReading, IsWriting, IsInline, Has
<1>4. CASE IsInline
  <2>1. DOMAIN cells' = Blocks /\ \A b \in Blocks : cells'[b] = cells[b]
    BY <1>1, <1>4, Placed
  <2>2. EntryOK' /\ SavedIsIntact'
    BY <1>1, <2>1, EntryCovered DEF Listed
  <2> QED
    BY <1>1, <1>3, <1>4, <2>2, BareKeeps
<1>5. CASE ~IsInline
  <2>1. WritesBlocks /\ file.block \notin EntryBlocks /\ AtPlace /\ file.off # BlockSize
    <3>1. file.off # BlockSize
      BY <1>2, Constants
    <3> QED
      BY <1>2, <1>5, <3>1 DEF Listed, WriteOK
  <2>2. PICK e : Programs(e, k)
    BY <1>2, <1>5
  <2>3. DOMAIN cells' = Blocks /\ DOMAIN cells = Blocks /\ \A x \in Blocks \ {file.block} : cells'[x] = cells[x]
    BY <2>2, Placed DEF Programs
  <2>4. EntryOK' /\ SavedIsIntact' /\ EntryBlocks' = EntryBlocks
    <3>1. \A b \in EntryBlocks \cap Blocks : cells'[b] = cells[b]
      BY <2>1, <2>3
    <3> QED
      BY <1>1, <2>3, <3>1, EntryCovered DEF Listed
  <2>5. AtPlace' /\ ~Ahead' /\ Here' = Here
    BY <1>2, <2>1, PlaceAfter
  <2>6. WritesBlocks'
    BY <1>1, <1>3, <1>5, <2>1 DEF WritesBlocks
  <2>7. WriteOK'
    BY <1>1, <1>2, <2>1, <2>2, <2>4, <2>5, <2>6, ProgKeepsWrite
  <2>8. HeadOK'
    BY <1>1, <2>1, <2>2, ProgKeepsHead
  <2>9. ExtendOK' /\ PlaceOK'
    BY <1>1, <1>3 DEF ExtendOK, PlaceOK
  <2> QED
    BY <2>4, <2>7, <2>8, <2>9 DEF Listed
<1> QED
  BY <1>4, <1>5

-----------------------------------------------------------------------------
(***************************************************************************)
(* Lists that become the file's.                                           *)
(***************************************************************************)
\* A list that is a block longer than it is taken for is skewed, or as good as
\* one of the right length.
LEMMA LongerIs ==
  ASSUME NEW c, NEW n \in 0 .. Most, NEW h, NEW L, OnList(c, n + 1, h, L)
  PROVE  n >= 2 \/ \E K : OnList(c, n, h, K) /\ Body(n, K) \subseteq Body(n + 1, L)
<1>0. n \in 0 .. 255
  BY BlocksAreFew
<1> SUFFICES ASSUME ~(n >= 2) PROVE \E K : OnList(c, n, h, K) /\ Body(n, K) \subseteq Body(n + 1, L)
  OBVIOUS
<1>1. n \in 0 .. 1
  BY <1>0
<1> PICK K : K = [i \in 0 .. n |-> L[i + 1]]
  OBVIOUS
<1>2. OnList(c, n, h, K)
  BY <1>1, Shifted
<1>3. \A i \in 1 .. n : K[i] = L[i + 1] /\ i + 1 \in 1 .. n + 1
  BY <1>0
<1>4. Body(n, K) \subseteq Body(n + 1, L)
  BY <1>3 DEF Body
<1> QED
  BY <1>2, <1>4

LEMMA BdFlushKeepsLists ==
  ASSUME Control, Listed, BdFlush
  PROVE  Listed'
<1>1. /\ pc = "copy" /\ file' = Flushed(file.pos, reg.pos) /\ Return
      /\ UNCHANGED <<cells, entry, taken, saved>>
  BY DEF BdFlush, Copied
<1>2. pc' \in {"write", "readstart", "cut", "commit", "sought", "growing"} /\ InCall
  BY <1>1, ReturnsTo DEF Returns, InCall
<1>3. IsWriting /\ ~IsInline /\ ~IsReading /\ file.open /\ WritesBlocks
  BY <1>1, InACall DEF Control, FlagsOK, On, WritesBlocks
<1>4. /\ file'.pos = reg.pos /\ file'.size = file.pos /\ file'.head = file.block /\ file'.open = file.open
      /\ ~IsReading' /\ ~IsWriting' /\ ~IsInline' /\ IsDirty' /\ (IsErred <=> IsErred')
  <2>1. file.pos \in 0 .. FileMax /\ reg.pos \in 0 .. FileMax
    BY Placed DEF Control, Typed, RegIs
  <2> QED
    BY <1>1, <1>3, <2>1, FlushedIs
<1>5. EntryOK' /\ SavedIsIntact'
  BY <1>1, <1>2, EntryStays
<1>6. AtPlace /\ (Ahead => IsErred) /\ WriteListed
  BY <1>1, <1>3, AheadIsKnown DEF Listed, WriteOK
<1>7. ASSUME file.pos > 0 PROVE HeadListed' \/ Skewed'
  <2> PICK n, b : n = Last(file.pos) /\ b = file.block
    OBVIOUS
  <2>1. Here \in {n, n + 1} /\ n \in 0 .. Most
    BY <1>6, <1>7, HereIs
  <2>2. PICK L : OnList(cells, Here, b, L) /\ (~ScanMidway => Safe(taken, Body(Here, L)))
    BY <1>2, <1>6 DEF WriteListed, Kept
  <2>3. ASSUME NEW K, OnList(cells, n, b, K), Body(n, K) \subseteq Body(Here, L) PROVE HeadListed'
    <3>1. ~ScanMidway => Safe(taken', Body(n, K))
      BY <1>1, <2>2, <2>3, SafeShrinks
    <3> QED
      BY <1>1, <1>4, <2>3, <3>1 DEF HeadListed, Kept, WritesBlocks
  <2>4. CASE Here = n
    BY <2>2, <2>3, <2>4
  <2>5. CASE Here # n
    <3>1. Here = n + 1 /\ IsErred
      BY <1>6, <1>7, <2>1, <2>5 DEF Ahead
    <3>2. n >= 2 => Skewed'
      BY <1>1, <1>4, <2>2, <3>1 DEF Skewed, LongerListed, Kept
    <3> QED
      BY <2>1, <2>2, <2>3, <3>1, <3>2, LongerIs
  <2> QED
    BY <2>4, <2>5
<1>8. HeadOK'
  BY <1>4, <1>7 DEF HeadOK
<1>9. WriteOK' /\ ExtendOK' /\ PlaceOK'
  BY <1>2, <1>4 DEF WriteOK, ExtendOK, PlaceOK, WritesBlocks
<1> QED
  BY <1>5, <1>8, <1>9 DEF Listed

LEMMA CutKeepsLists ==
  ASSUME Control, Listed, Cut
  PROVE  Listed'
<1> PICK b : b = NewHead
  OBVIOUS
<1>1. /\ pc = "cut" /\ b \in Blocks /\ pc' = "seek" /\ UNCHANGED <<cells, entry, taken, saved>>
      /\ file' = [file EXCEPT !.pos = reg.arg, !.block = b, !.head = b,
                          !.size = reg.arg, !.flags = @ \cup {"dirty", "reading"}]
  BY DEF Cut, Goto
<1>2. reg.arg \in InlineMax + 1 .. FileSize /\ reg.arg \in 0 .. FileMax /\ file.open
  <2>1. On("cut")
    BY <1>1 DEF On
  <2> QED
    BY <1>1, <2>1, InACall DEF Control, OpOK, Typed, RegIs
<1>3. ~IsWriting /\ ~IsReading
  BY <1>1 DEF Control, FlagsOK
<1>4. /\ file'.pos = reg.arg /\ file'.size = reg.arg /\ file'.block = b
      /\ file'.head = b /\ file'.open = file.open
      /\ IsReading' /\ ~IsWriting' /\ (IsInline <=> IsInline') /\ IsDirty' /\ (IsErred <=> IsErred')
  BY <1>1, <1>2, <1>3 DEF Control, Typed, FileIs, IsReading, IsWriting, IsInline, IsErred, IsDirty, Has, Flags
<1>5. EntryOK' /\ SavedIsIntact' /\ InCall
  BY <1>1, EntryStays DEF InCall
<1>6. CASE IsInline
  BY <1>1, <1>4, <1>5, <1>6, BareKeeps
<1>7. CASE ~IsInline
  <2>1. reg.arg \in 1 .. FileMax /\ file.size \in 1 .. FileMax /\ reg.arg <= file.size /\ file.head \in Blocks
    <3>1. FileSize = file.size
      BY <1>3 DEF FileSize, IsWriting
    <3> QED
      BY <1>2, <1>3, <1>7, <3>1, Placed, Sizes DEF Control, BlockOK
  <2> PICK n, m, p : n = Last(file.size) /\ m = Last(reg.arg) /\ p = reg.arg - 1
    OBVIOUS
  <2>2. p \in 0 .. FileMax /\ m = Index[p].i /\ m \in 0 .. n /\ n \in 0 .. Most /\ m \in 0 .. Most /\ Most \in 0 .. 255
        /\ m <= n
    <3>1. p \in 0 .. file.size - 1
      BY <2>1
    <3>2. m = Index[p].i
      BY DEF Last
    <3> QED
      BY <2>1, <3>1, <3>2, LastTyped, BlocksAreFew
  <2>3. b = lfs_ctz_find(cells, file.head, file.size, p).block
    BY DEF NewHead
  <2>4. HeadListed \/ Skewed
    BY <1>2, <1>7, <2>1 DEF Listed, HeadOK
  <2>5. CASE HeadListed
    <3>1. PICK L : OnList(cells, n, file.head, L) /\ (~ScanMidway => Safe(taken, Body(n, L)))
      BY <1>5, <2>5 DEF HeadListed, Kept
    <3>2. lfs_ctz_find(cells, file.head, file.size, p) = [block |-> L[Index[p].i], off |-> Index[p].off]
      BY <2>1, <2>2, <3>1, FindOnList
    <3>3. b = L[m]
      BY <2>2, <2>3, <3>2
    <3> PICK K : K = [i \in 0 .. m |-> L[i]]
      OBVIOUS
    <3>4. OnList(cells, m, b, K)
      BY <2>2, <3>1, <3>3, Shorter
    <3>5. \A i \in 1 .. m : i \in 1 .. n /\ K[i] = L[i]
      BY <2>2
    <3>6. Body(m, K) \subseteq Body(n, L)
      BY <3>5 DEF Body
    <3>7. ~ScanMidway => Safe(taken', Body(m, K))
      BY <1>1, <3>1, <3>6, SafeShrinks
    <3>8. HeadListed'
      BY <1>1, <1>3, <1>4, <3>4, <3>7 DEF HeadListed, Kept, WritesBlocks
    <3>9. Index[reg.arg].i <= m => lfs_ctz_find(cells, b, reg.arg, reg.arg).block = b
      <4> HAVE Index[reg.arg].i <= m
      <4>1. reg.arg \in 0 .. FileMax /\ p \in 0 .. reg.arg
        BY <2>1
      <4>2. Index[p].i <= Index[reg.arg].i /\ Index[reg.arg].i \in 0 .. Most
        BY <4>1, BlockGrows, BlocksAreFew
      <4>3. Index[reg.arg].i = m
        BY <2>2, <4>2
      <4>4. lfs_ctz_find(cells, b, reg.arg, reg.arg) = [block |-> K[Index[reg.arg].i], off |-> Index[reg.arg].off]
        <5>1. OnList(cells, Last(reg.arg), b, K) /\ Index[reg.arg].i <= Last(reg.arg)
          BY <3>4
        <5> QED
          BY ONLY <2>1, <4>1, <5>1, FindOnList
      <4> QED
        BY <3>4, <4>3, <4>4 DEF OnList
    <3>10. PlaceOK'
      BY <1>1, <1>4, <2>1, <3>9 DEF PlaceOK
    <3> QED
      BY <1>1, <1>3, <1>4, <1>5, <3>8, <3>10 DEF Listed, HeadOK, WriteOK, ExtendOK, WritesBlocks
  <2>6. CASE Skewed
    <3>1. PICK L : OnList(cells, n + 1, file.head, L) /\ (~ScanMidway => Safe(taken, Body(n + 1, L)))
      BY <1>5, <2>6 DEF Skewed, LongerListed, Kept
    <3>2. lfs_ctz_find(cells, file.head, file.size, p).block \in {L[Index[p].i + 1], NotABlock}
      BY <2>1, <2>2, <3>1, Placed, FindSkewed
    <3>3. b = L[m + 1]
      BY <1>1, <2>2, <2>3, <3>2, Placed
    <3> PICK K : K = [i \in 0 .. m + 1 |-> L[i]]
      OBVIOUS
    <3>4. OnList(cells, m + 1, b, K)
      <4>1. m + 1 \in 0 .. n + 1
        BY <2>2
      <4> QED
        BY <3>1, <3>3, <4>1, Shorter
    <3>5. \A i \in 1 .. m + 1 : i \in 1 .. n + 1 /\ K[i] = L[i]
      BY <2>2
    <3>6. Body(m + 1, K) \subseteq Body(n + 1, L)
      BY <3>5 DEF Body
    <3>7. HeadListed' \/ Skewed'
      <4>1. m >= 2 => Skewed'
        <5>1. ~ScanMidway => Safe(taken', Body(m + 1, K))
          BY <1>1, <3>1, <3>6, SafeShrinks
        <5> QED
          BY <1>1, <1>4, <2>6, <3>4, <5>1 DEF Skewed, LongerListed, Kept
      <4>2. ASSUME NEW M, OnList(cells, m, b, M), Body(m, M) \subseteq Body(m + 1, K) PROVE HeadListed'
        <5>1. ~ScanMidway => Safe(taken', Body(m, M))
          BY <1>1, <3>1, <3>6, <4>2, SafeShrinks
        <5> QED
          BY <1>1, <1>3, <1>4, <4>2, <5>1 DEF HeadListed, Kept, WritesBlocks
      <4> QED
        BY <2>2, <3>4, <4>1, <4>2, LongerIs
    <3>8. IsErred'
      BY <1>4, <2>6 DEF Skewed
    <3> QED
      BY <1>1, <1>3, <1>4, <1>5, <3>7, <3>8 DEF Listed, HeadOK, WriteOK, ExtendOK, PlaceOK, WritesBlocks
  <2> QED
    BY <2>4, <2>5, <2>6
<1> QED
  BY <1>6, <1>7

LEMMA RevertKeepsLists ==
  ASSUME Control, Listed, Revert
  PROVE  Listed'
<1>1. PICK data :
        file' = [file EXCEPT !.head = Inline, !.size = reg.arg,
                   !.flags = @ \cup {"dirty", "reading", "inline"}, !.data = data]
  BY DEF Revert
<1>2. pc = "revert" /\ pc' = "seek" /\ cells' = Forget(cache) /\ UNCHANGED <<entry, taken, saved>>
  BY DEF Revert, Goto
<1>3. cache = NoCache
  <2>1. WritesBlocks => file.pos = 0 /\ file.off = 0
    BY <1>2 DEF WritesBlocks, Control, ReadOK, BlockOK
  <2> QED
    BY <2>1, NoneDirty DEF Control, CacheOK
<1>4. cells' = cells
  BY <1>2, <1>3 DEF Forget, NoCache
<1>5. IsInline'
  BY <1>1 DEF Control, Typed, FileIs, IsInline, Has
<1>6. EntryOK' /\ SavedIsIntact'
  BY <1>2, <1>4, EntryStays DEF InCall
<1> QED
  BY <1>2, <1>5, <1>6, BareKeeps

\* What is committed is what the handle has.
LEMMA CommitKeepsLists ==
  ASSUME Control, Listed, Control', Commit
  PROVE  Listed'
<1>1. /\ pc = "commit" /\ pc' = "end" /\ entry' = Struct /\ saved' = Content
      /\ file' = [file EXCEPT !.flags = @ \ {"dirty"}] /\ UNCHANGED cells
  BY DEF Commit, Goto
<1>2. ~IsReading /\ ~IsWriting /\ ~IsErred /\ file.open
  BY <1>1, InACall DEF Control, FlagsOK, On
<1>3. /\ ~IsReading' /\ ~IsWriting' /\ (IsInline <=> IsInline')
      /\ file'.size = file.size /\ file'.head = file.head /\ file'.open = file.open
  BY <1>1, <1>2 DEF Control, Typed, FileIs, IsReading, IsWriting, IsInline, Has
<1>4. FileSize = file.size
  BY <1>2 DEF FileSize, IsWriting
<1>5. CASE IsInline
  <2>1. entry'.type = "inline" /\ entry'.data = [p \in 0 .. file.size - 1 |-> file.data[p]]
    BY <1>1, <1>5 DEF Struct, Bytes, IsInline
  <2>2. saved' = [p \in 0 .. file.size - 1 |-> file.data[p]]
    BY <1>1, <1>4, <1>5 DEF Content, IsInline
  <2>3. EntryOK' /\ SavedIsIntact'
    BY <1>1, <2>1, <2>2 DEF EntryOK, Kept, InCall, SavedIsIntact, EntryContent
  <2> QED
    BY <1>1, <1>3, <1>5, <2>3, BareKeeps
<1>6. CASE ~IsInline
  <2>1. entry'.type = "ctz" /\ entry'.head = file.head /\ entry'.size = file.size
    BY <1>1, <1>6 DEF Struct, IsInline
  <2>2. file.size > 0
    BY <2>1, Constants DEF Control, Typed, EntryIs
  <2>3. PICK L : OnList(cells, Last(file.size), file.head, L)
    BY <1>2, <1>6, <2>2, ListRead DEF HeadListed
  <2>4. EntryOK'
    BY <1>1, <2>1, <2>3 DEF EntryOK, EntryListed, Kept, InCall
  <2>5. SavedIsIntact'
    <3>1. EntryContent' = [p \in 0 .. file.size - 1 |-> CellAt(file.head, file.size, p)]
      BY <1>1, <2>1 DEF EntryContent, CellAt
    <3>2. Content = [p \in 0 .. file.size - 1 |-> CellAt(file.head, file.size, p)]
      BY <1>2, <1>4, <1>6 DEF Content, IsInline, IsWriting
    <3> QED
      BY <1>1, <3>1, <3>2 DEF SavedIsIntact
  <2>6. HeadOK'
    BY <1>1, <1>3, <2>1, <2>3 DEF HeadOK, HeadListed, Kept, InCall, WritesBlocks, Committed
  <2> QED
    BY <1>1, <1>3, <2>4, <2>5, <2>6 DEF Listed, WriteOK, WritesBlocks, ExtendOK, PlaceOK
<1> QED
  BY <1>5, <1>6

LEMMA EndingKeepsLists ==
  ASSUME Control, Listed, ReadEnd \/ SeekNoop \/ End
  PROVE  Listed'
<1>1. CASE End /\ reg.op = "close"
  BY <1>1, GoneKeepsLists DEF End
<1>2. CASE ReadEnd \/ SeekNoop \/ (End /\ reg.op # "close")
  <2>1. pc \in {"read", "seek", "end"} /\ Return /\ UNCHANGED <<cells, entry, saved, file, taken>>
    BY <1>2 DEF ReadEnd, SeekNoop, End
  <2> QED
    BY <2>1, ReturningKeeps
<1> QED
  BY <1>1, <1>2

-----------------------------------------------------------------------------
LEMMA StepKeepsLists ==
  ASSUME Control, Listed, Control', Step
  PROVE  Listed'
<1>1. CASE Allocating
  BY <1>1, OfferIsBadKeepsLists, FailingKeepsLists, RelocateKeepsLists, ExtendKeepsLists DEF Allocating, Failing
<1>2. CASE Putting
  BY <1>2, OutlineKeepsLists, OutlinedKeepsLists, ChunkInlineKeepsLists, FailingKeepsLists, ChunkExtendsKeepsLists,
     TurnedBadKeeps, ProgKeepsLists DEF Putting, Failing
<1>3. CASE Flushing
  BY <1>3, FlushReadsKeepsLists, FlushInlineKeepsLists, GoingKeeps, FailingKeepsLists,
     TurnedBadKeeps, BdFlushKeepsLists DEF Flushing, Failing
<1>4. CASE Operating
  BY <1>4, PositionedKeeps, GoingKeeps, WroteKeepsLists, FailingKeepsLists, ReadDataFailsKeepsLists, ReadTurnKeepsLists,
     EndingKeepsLists, SeekInCacheKeepsLists, RevertKeepsLists, CutKeepsLists, CommitKeepsLists
     DEF Operating, Failing
<1> QED
  BY <1>1, <1>2, <1>3, <1>4 DEF Step

LEMMA NextKeepsLists ==
  ASSUME Control, Listed, [Next]_vars
  PROVE  Listed'
<1>1. Control'
  BY NextKeepsControl
<1> QED
  BY <1>1, StepKeepsLists, BeginningKeepsLists, OpenKeepsLists, CrashKeepsLists, StutterKeepsLists DEF Next

\* Wherever a call may be, the entry, the handle's old list and the one it is
\* writing are lists of blocks with the right pointers, and the allocator will
\* offer none of their blocks.
THEOREM ListsHold == Spec => [](Control /\ Listed)
<1>1. Init => Control /\ Listed
  BY InitIsControl, InitIsListed
<1>2. Control /\ Listed /\ [Next]_vars => Control' /\ Listed'
  BY NextKeepsControl, NextKeepsLists
<1> QED
  BY <1>1, <1>2, PTL DEF Spec

\* The bytes that were committed stay where the entry finds them, whatever later
\* calls write, whatever blocks turn bad, whichever calls fail and whenever the
\* power is lost (lfs_file_relocate, lfs_ctz_extend, lfs_file_sync_).
THEOREM SavedStaysIntact == Spec => []SavedIsIntact
<1>1. Listed => SavedIsIntact
  BY DEF Listed
<1> QED
  BY <1>1, ListsHold, PTL

LEMMA PlaceIsWhereItShould ==
  ASSUME Control, Listed
  PROVE  PlaceIsCurrent
<1> SUFFICES ASSUME ~reg.tainted, file.open, file.pos < file.size, ~Seeks, IsReading, ~IsInline
             PROVE  [block |-> file.block, off |-> file.off] = lfs_ctz_find(cells, file.head, file.size, file.pos)
  BY DEF PlaceIsCurrent, IsReading, IsInline
<1>1. ~IsErred /\ ~IsWriting /\ file.off # BlockSize
  BY DEF Control, FlagsOK, ReadOK, Seeks
<1>2. file.pos \in 0 .. FileMax /\ file.size \in 1 .. FileMax /\ file.pos \in 0 .. file.size - 1
  BY Placed
<1>3. Index[file.pos].i <= Last(file.size)
  BY <1>2, LastTyped
<1>4. HeadListed
  BY <1>1, <1>2, ListRead
<1>5. PICK L : OnList(cells, Last(file.size), file.head, L)
  BY <1>4 DEF HeadListed
<1>6. lfs_ctz_find(cells, file.head, file.size, file.pos) = [block |-> L[Index[file.pos].i], off |-> Index[file.pos].off]
  BY <1>2, <1>3, <1>5, FindOnList
<1>7. /\ file.block = lfs_ctz_find(cells, file.head, file.size, file.pos).block
      /\ file.off = Index[file.pos].off
  BY <1>1, <1>2, <1>3 DEF Listed, PlaceOK
<1> QED
  BY <1>6, <1>7

\* A handle that reads is at the block and the offset of its position, after any
\* seeks, truncates, failed calls and flushes (lfs_file_seek_, lfs_file_truncate_:
\* "set pos/block/off consistently").
THEOREM PlaceStaysCurrent == Spec => []PlaceIsCurrent
BY ListsHold, PlaceIsWhereItShould, PTL
=============================================================================
