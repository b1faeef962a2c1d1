------------------------------ MODULE MCFileOps ------------------------------
EXTENDS FileOps

MCBlocks == 1 .. 4
MCTwoBlocks == 1 .. 2
MCOpens == {{}, {"append", "trunc", "attrs"}}
=============================================================================
