---------------------------- MODULE MCSuperblocks ---------------------------
(*  Superblocks on a small device.                                            *)
EXTENDS Superblocks
=============================================================================
