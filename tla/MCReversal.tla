----------------------------- MODULE MCReversal -----------------------------
(* Instances of Reversal for TLC.                                          *)
EXTENDS Reversal

CONSTANTS id1, id2, id3
=============================================================================
