-------------------------- MODULE MCTwoPhaseCommit --------------------------
(* Instances of TwoPhaseCommit for TLC.                                     *)
EXTENDS TwoPhaseCommit, TLC

CONSTANTS t1, t2, c1, id1, id2

\* One coordinator shared by the callers, as its mutex and its duplicate check
\* are designed for (tests/test_2pc.c:203-222 keeps three open at once).
OneCoordinator == [t \in Threads |-> c1]

\* Threads are interchangeable, and so are identifiers.
Interchangeable == Permutations(Threads) \cup Permutations(TxnIds)
=============================================================================
