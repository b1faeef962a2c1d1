------------------------------ MODULE MCFsTree ------------------------------
(* The instance of FsTree that TLC checks.  Directories, files and names are  *)
(* only compared for equality, but one of the properties is liveness, so the *)
(* instance declares no symmetry.  How a path leads to a directory and a name *)
(* is in Paths, whose assumptions TLC evaluates with it.                     *)
EXTENDS FsTree, Paths
=============================================================================
