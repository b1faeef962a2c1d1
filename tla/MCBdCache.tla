------------------------------ MODULE MCBdCache ------------------------------
EXTENDS BdCache, TLC

\* Longer and shorter than the hint, aligned and not, and across two caches.
MCReads == {<<0, 4, 1>>, <<1, 2, 4>>, <<3, 1, 2>>}

\* Blocks and stamps are only compared for equality.
Interchangeable == Permutations(Blocks) \cup Permutations(Stamps)
=============================================================================
