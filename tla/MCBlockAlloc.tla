---------------------------- MODULE MCBlockAlloc ----------------------------
EXTENDS BlockAlloc
\* Four or five blocks, a window that does not divide them: the window wraps
\* around the end of the device and is cut short by the checkpoint.
NoGrow == {}
GrowBy == {5}
=============================================================================
