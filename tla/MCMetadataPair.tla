--------------------------- MODULE MCMetadataPair ---------------------------
EXTENDS MetadataPair, TLC

Movable == [append |-> 2, compact |-> 1, bad |-> 1, super |-> FALSE,
            parentFails |-> FALSE, handleOps |-> TRUE]

\* A pair that can move, used through open files; one whose parent's commit may
\* fail, used through paths; and the superblock pair.
MCSetups == {Movable,
             [Movable EXCEPT !.parentFails = TRUE, !.handleOps = FALSE],
             [Movable EXCEPT !.append = 1, !.compact = 2, !.super = TRUE, !.bad = 2]}

\* Blocks and contents are only compared for equality, and Init treats them
\* alike; no property is a liveness property.
Interchangeable == Permutations(Blocks) \cup Permutations(Values)
=============================================================================
