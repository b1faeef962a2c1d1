---------------------------- MODULE MCDirHandles ----------------------------
EXTENDS DirHandles

MCNames == 1..3
=============================================================================
