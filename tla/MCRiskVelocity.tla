--------------------------- MODULE MCRiskVelocity ---------------------------
(* An instance of RiskVelocity for TLC: two workers, more cards than entries,  *)
(* the empty PAN among them.                                                   *)
EXTENDS RiskVelocity, TLC

CONSTANTS w1, w2, k1, k2

\* Workers are interchangeable, and so are the cards but the empty one; no
\* property names one.
Interchangeable == Permutations(Workers) \cup Permutations(Cards \ {NoCard})
=============================================================================
