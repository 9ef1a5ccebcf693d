------------------------------ MODULE MCPayment -----------------------------
(* Instances of Payment for TLC: two workers with a coordinator each.      *)
EXTENDS Payment, TLC

CONSTANTS t1, t2, c1, c2, r1, r2, j1, j2, text

OwnCoordinator == [t \in Threads |-> IF t = t1 THEN c1 ELSE c2]

\* `text' is the beginning that all long request_ids have in common: what
\* follows it, the second included, does not fit.
Cut == [x \in LongReqs \X (1..MaxTime) |-> text]

AllTxnIds ==
  {<<r, s>> : r \in {ReqOf[j] : j \in Jobs} \ LongReqs, s \in 1..MaxTime}
    \cup {Cut[x] : x \in DOMAIN Cut}

\* The second request is the client's retry of the first.
Retry == [j \in Jobs |-> r1]

\* Requests that have nothing to do with each other.
OwnRequest == [j \in Jobs |-> IF j = j1 THEN r1 ELSE r2]

\* The workers are interchangeable with their coordinators, and the two
\* requests of Retry with each other; used where no liveness is checked.
Interchangeable ==
  {t1 :> t2 @@ t2 :> t1 @@ c1 :> c2 @@ c2 :> c1, j1 :> j2 @@ j2 :> j1}
=============================================================================
