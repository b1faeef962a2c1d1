------------------------------- MODULE Paths -------------------------------
(***************************************************************************)
(* How a path is followed: lfs_dir_find of dir/find.rs, the helpers of     *)
(* util.rs, and what the calls make of the result.                         *)
(*                                                                         *)
(* lfs_dir_find never resolves ".." in the tree.  Before it looks a name   *)
(* up it looks ahead: if a ".." further on takes the name back, it goes on *)
(* behind that.  The assumptions compare this with the usual reading, in   *)
(* which the path is first brought to its shortest form.                   *)
(*                                                                         *)
(* A path is a sequence of words and slashes, and a position in it stands  *)
(* for the part from there on.  A tree gives each directory its entries.   *)
(* FsTree and DirHandles begin where the directory and the name are known. *)
(***************************************************************************)
EXTENDS Naturals, Sequences

CONSTANTS
  PlainWords,  \* the names a path may hold
  LongWords,   \* those of them that are longer than name_max
  MaxFolder,   \* directories are the numbers up to this
  MaxPath      \* how long paths are

ASSUME PathAssumption ==
  /\ MaxFolder \in Nat \ {0} /\ MaxPath \in Nat
  /\ {"", "/", ".", ".."} \cap PlainWords = {} /\ LongWords \subseteq PlainWords

Top == 0                     \* lfs.root
Folders == 0 .. MaxFolder
AFile == MaxFolder + 1
Nothing == MaxFolder + 2
IsFolder(o) == o \in Folders

-----------------------------------------------------------------------------
(***************************************************************************)
(* Positions in a path.                                                    *)
(***************************************************************************)

\* Behind the slashes at i (lfs_strspn); the word at i, "" if there is none; and
\* what is behind that (lfs_strcspn, lfs_path_namelen).
AfterSlashes(p, i) ==
  CHOOSE j \in i .. Len(p) + 1 :
    /\ \A k \in i .. j - 1 : p[k] = "/"
    /\ j <= Len(p) => p[j] # "/"
WordAt(p, i) == IF i <= Len(p) /\ p[i] # "/" THEN p[i] ELSE ""
AfterWord(p, i) == IF WordAt(p, i) = "" THEN i ELSE i + 1

lfs_path_islast(p, i) == AfterSlashes(p, AfterWord(p, i)) = Len(p) + 1
lfs_path_isdir(p, i) == AfterWord(p, i) <= Len(p)

\* Behind the ".." that takes back the name before "from"; 0 if none does.
TakenBack(p, from) ==
  LET ahead[i \in 1 .. Len(p) + 1, depth \in 1 .. Len(p) + 1] ==
        LET j == AfterSlashes(p, i)
            w == WordAt(p, j)
        IN  CASE w = ""                  -> 0
              [] w = "."                 -> ahead[j + 1, depth]
              [] w = ".." /\ depth = 1   -> j + 1
              [] w = ".." /\ depth > 1   -> ahead[j + 1, depth - 1]
              [] w \in PlainWords        -> ahead[j + 1, depth + 1]
  IN  ahead[from, 1]

-----------------------------------------------------------------------------
(***************************************************************************)
(* lfs_dir_find: what it returns, the object it found, the directory it    *)
(* looked in last, and where it had left the caller's path.                *)
(***************************************************************************)

Result(is, found, dir, at) == [is |-> is, found |-> found, dir |-> dir, at |-> at]

lfs_dir_find(tree, p) ==
  LET \* i: name; o: what tag stands for; dir: the mdir; at: *path
      nextname[i \in 1 .. Len(p) + 1, o \in Folders \cup {AFile},
               dir \in Folders, at \in 1 .. Len(p)] ==
        LET j == IF IsFolder(o) THEN AfterSlashes(p, i) ELSE i
            w == WordAt(p, j)
            back == TakenBack(p, AfterWord(p, j))
        IN  CASE w = "."       -> nextname[j + 1, o, dir, at]
              [] w = ".."      -> Result("Invalid", Nothing, dir, at)
              [] w \notin {".", ".."} /\ back # 0 -> nextname[back, o, dir, at]
              [] w \notin {".", ".."} /\ back = 0 ->
                   CASE j = Len(p) + 1 -> Result("Ok", o, dir, at)
                     [] j <= Len(p) /\ ~IsFolder(o) -> Result("NotDir", Nothing, dir, j)
                     [] j <= Len(p) /\ IsFolder(o) /\ tree[o][w] = Nothing ->
                          Result("NoEntry", Nothing, o, j)
                     [] j <= Len(p) /\ IsFolder(o) /\ tree[o][w] # Nothing ->
                          nextname[j + 1, tree[o][w], o, j]
  IN  IF p = <<>> THEN Result("Invalid", Nothing, Top, 1)
      ELSE nextname[1, Top, Top, 1]

-----------------------------------------------------------------------------
(***************************************************************************)
(* What the calls make of it, up to where they change anything.            *)
(***************************************************************************)

\* A path that names nothing yet and may be given to a new entry.
IsFree(p, r) == r.is = "NoEntry" /\ lfs_path_islast(p, r.at)

\* lfs_mkdir_
MkdirAnswer(tree, p) ==
  LET r == lfs_dir_find(tree, p)
  IN  CASE ~IsFree(p, r) /\ r.is = "Ok"              -> "Exists"
        [] ~IsFree(p, r) /\ r.is # "Ok"              -> r.is
        [] IsFree(p, r) /\ p[r.at] \in LongWords     -> "NameTooLong"
        [] IsFree(p, r) /\ p[r.at] \notin LongWords  -> "Ok"

\* lfs_file_opencfg_ with CREATE and without EXCL
CreateAnswer(tree, p) ==
  LET r == lfs_dir_find(tree, p)
      free == IsFree(p, r)
  IN  CASE ~free /\ r.is # "Ok"                      -> r.is
        [] r.is = "Ok" /\ IsFolder(r.found)          -> "IsDir"
        [] r.is = "Ok" /\ ~IsFolder(r.found)         -> "Ok"
        [] free /\ lfs_path_isdir(p, r.at)           -> "NotDir"
        [] free /\ ~lfs_path_isdir(p, r.at)
                /\ p[r.at] \in LongWords             -> "NameTooLong"
        [] free /\ ~lfs_path_isdir(p, r.at)
                /\ p[r.at] \notin LongWords          -> "Ok"

\* lfs_rename_, the new path of a file or a directory; "Replace" where an entry is
\* there, of which FsTree has the rest.
IsRoot(r) == r.is = "Ok" /\ r.found = Top
RenameAnswer(tree, p, ofDir) ==
  LET r == lfs_dir_find(tree, p)
      free == IsFree(p, r)
  IN  CASE ~free /\ r.is # "Ok"                      -> r.is
        [] IsRoot(r)                                 -> "Invalid"
        [] r.is = "Ok" /\ ~IsRoot(r)                 ->
             IF IsFolder(r.found) = ofDir THEN "Replace"
             ELSE IF ofDir THEN "NotDir" ELSE "IsDir"
        [] free /\ lfs_path_isdir(p, r.at) /\ ~ofDir -> "NotDir"
        [] free /\ (lfs_path_isdir(p, r.at) => ofDir)
                /\ p[r.at] \in LongWords             -> "NameTooLong"
        [] free /\ (lfs_path_isdir(p, r.at) => ofDir)
                /\ p[r.at] \notin LongWords          -> "Ok"

-----------------------------------------------------------------------------
(***************************************************************************)
(* The usual reading.                                                      *)
(***************************************************************************)

\* The positions of the names that are left when each ".." has taken back the name
\* before it, and whether each found one.
Shortest(p) ==
  LET kept[i \in 0 .. Len(p)] ==
        IF i = 0 THEN [names |-> <<>>, ok |-> TRUE]
        ELSE LET k == kept[i - 1]
                 n == Len(k.names)
             IN  CASE p[i] \in {"/", "."} -> k
                   [] p[i] = ".." /\ n = 0 -> [k EXCEPT !.ok = FALSE]
                   [] p[i] = ".." /\ n > 0 -> [k EXCEPT !.names = SubSeq(@, 1, n - 1)]
                   [] p[i] \in PlainWords  -> [k EXCEPT !.names = Append(@, i)]
  IN  kept[Len(p)]

\* The tree followed along these names.  A file may be followed by nothing at all.
Followed(tree, p) ==
  LET names == Shortest(p).names
      n == Len(names)
      upto[k \in 0 .. n] ==
        IF k = 0 THEN Result("Ok", Top, Top, 1)
        ELSE LET r == upto[k - 1]
                 at == names[k]
                 o == tree[r.found][p[at]]
             IN  CASE r.is # "Ok"              -> r
                   [] r.is = "Ok" /\ o = AFile /\ at < Len(p) -> Result("NotDir", Nothing, r.found, at)
                   [] r.is = "Ok" /\ o = Nothing -> Result("NoEntry", Nothing, r.found, at)
                   [] r.is = "Ok" /\ (IsFolder(o) \/ (o = AFile /\ at = Len(p))) ->
                        Result("Ok", o, r.found, at)
  IN  IF p = <<>> \/ ~Shortest(p).ok THEN Result("Invalid", Nothing, Top, 1) ELSE upto[n]

\* Two words next to each other would be one.
AllPaths ==
  {p \in UNION {[1 .. n -> PlainWords \cup {"/", ".", ".."}] : n \in 0 .. MaxPath} :
     \A i \in 1 .. Len(p) - 1 : "/" \in {p[i], p[i + 1]}}

\* A directory may hold the next one; the last one is empty and not in the tree yet.
MaySee(f) == {AFile, Nothing} \cup ({f + 1} \ {MaxFolder})
AllTrees ==
  LET inner == 0 .. MaxFolder - 1
      short == PlainWords \ LongWords
      shapes == {s \in [inner \X short -> UNION {MaySee(f) : f \in inner}] :
                   \A f \in inner, w \in short : s[f, w] \in MaySee(f)}
  IN  {[f \in Folders |-> [w \in PlainWords |->
           IF f \in inner /\ w \in short THEN s[f, w] ELSE Nothing]] : s \in shapes}

\* Looking ahead for ".." finds what the shortest form of the path names, in the
\* directory it names, and leaves the caller's path at the name it is to use.
ASSUME FindIsUsual ==
  \A t \in AllTrees, p \in AllPaths :
    LET r == lfs_dir_find(t, p)
        u == Followed(t, p)
    IN  /\ r.is = u.is /\ r.found = u.found
        /\ r.is \in {"Ok", "NoEntry"} => r.dir = u.dir /\ r.at = u.at

\* What a call creates for a path is what the next lookup of that path finds.
Filled(t, p, o) ==
  LET r == lfs_dir_find(t, p) IN [t EXCEPT ![r.dir][p[r.at]] = o]
ASSUME CreatedIsFound ==
  \A t \in AllTrees, p \in AllPaths :
    LET free == lfs_dir_find(t, p).is = "NoEntry"
    IN  /\ MkdirAnswer(t, p) = "Ok" =>
             lfs_dir_find(Filled(t, p, MaxFolder), p).found = MaxFolder
        /\ free /\ CreateAnswer(t, p) = "Ok" =>
             lfs_dir_find(Filled(t, p, AFile), p).found = AFile
        /\ \A ofDir \in BOOLEAN : free /\ RenameAnswer(t, p, ofDir) = "Ok" =>
             LET o == IF ofDir THEN MaxFolder ELSE AFile
             IN  lfs_dir_find(Filled(t, p, o), p).found = o
=============================================================================
