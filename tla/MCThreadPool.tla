---------------------------- MODULE MCThreadPool ----------------------------
(* Instances of ThreadPool for TLC.                                        *)
EXTENDS ThreadPool

CONSTANTS w1, w2, w3, j1, j2, j3, j4
=============================================================================
