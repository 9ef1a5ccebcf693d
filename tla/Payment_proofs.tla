--------------------------- MODULE Payment_proofs ---------------------------
(***************************************************************************)
(* Proofs about a payment, for any number of workers, requests, seconds    *)
(* and crashes.  The coordinator's invariants come from its own proofs:    *)
(* every step of a payment is a step of the coordinator or leaves it alone *)
(* (Composition), so that PaySpec has all the theorems of Spec.            *)
(*                                                                         *)
(* Two hypotheses appear.  DistinctIds: the clients send every request     *)
(* with a request_id of its own, and none of 48 bytes or more, which       *)
(* txn_id[64] would cut; or, at least, no txn_id is given to two requests. *)
(* OwnConnections, for approvals only: every worker has a connection of    *)
(* its own.  The run payment_collision shows that the first cannot be left *)
(* out; without the second, workers end each other's transactions.         *)
(***************************************************************************)
EXTENDS Payment, TwoPhaseCommit_refinement

\* The clock of the model stays within its bound.
NowInv == now \in 1..MaxTime

\* All steps of the pipeline by one worker.
WorkerStep(t) == Work(t) \/ \E j \in Jobs : Accept(t, j) \/ AcceptRefused(t, j)
-----------------------------------------------------------------------------
(* The coordinator's part of a step *)

LEMMA IdInTxnIds ==
  ASSUME NowInv, NEW j \in Jobs
  PROVE  TxnIdFor(j) \in TxnIds
<1>1. CASE ReqOf[j] \in LongReqs
  BY <1>1, PaymentAssumption DEF TxnIdFor, NowInv
<1>2. CASE ReqOf[j] \notin LongReqs
  BY <1>2, TxnIdsAssumption DEF TxnIdFor, NowInv
<1>3. QED
  BY <1>1, <1>2

\* What a worker's step means to the coordinator.
LEMMA WorkerCoordinator ==
  ASSUME NowInv, NEW t \in Threads, WorkerStep(t)
  PROVE  BeginStep(t) \/ CommitStep(t) \/ AbortStep(t) \/ UNCHANGED vars
<1>1. ASSUME NEW j \in Jobs, Accept(t, j) \/ AcceptRefused(t, j) PROVE BeginStep(t)
  BY <1>1, IdInTxnIds DEF Accept, AcceptRefused, BeginStep
<1>2. CASE Setup(t)
  BY <1>2 DEF Setup, InitParticipants, RegisterParticipant, DbBegin, Insert, Fail, BeginStep
<1>3. CASE CoordinatorStep(t)
  BY <1>3 DEF CoordinatorStep, CommitStep
<1>4. CASE Callback(t)
  BY <1>4 DEF Callback, DbPrepare, ClearingPrepare, DbCommit, ClearingCommit, AbortDb,
              AbortClearing, CommitStep
<1>5. CASE Ending(t)
  BY <1>5 DEF Ending, Approve, Decline, FailAbort, FailAbortDb, FailAbortClearing,
              FailReturn, AbortStep
<1>6. QED
  BY <1>1, <1>2, <1>3, <1>4, <1>5 DEF WorkerStep, Work

LEMMA StepCases ==
  ASSUME [PayNext]_allVars
  PROVE  \/ \E t \in Threads : WorkerStep(t)
         \/ \E t \in Threads : ConnectionLost(t)
         \/ ReversalRun \/ Tick \/ PayCrash \/ UNCHANGED allVars
BY DEF PayNext, WorkerStep

LEMMA NowStep == NowInv /\ [PayNext]_allVars => NowInv'
<1> SUFFICES ASSUME NowInv, [PayNext]_allVars PROVE NowInv'
  OBVIOUS
<1>1. CASE Tick
  BY <1>1, PaymentAssumption DEF Tick, NowInv
<1>2. CASE UNCHANGED now
  BY <1>2 DEF NowInv
<1>3. ASSUME NEW t \in Threads, WorkerStep(t) PROVE UNCHANGED now
  <2>1. ASSUME NEW j \in Jobs, Accept(t, j) \/ AcceptRefused(t, j) PROVE UNCHANGED now
    BY <2>1 DEF Accept, AcceptRefused
  <2>2. CASE Setup(t)
    BY <2>2 DEF Setup, InitParticipants, RegisterParticipant, DbBegin, Insert, Fail, client
  <2>3. CASE CoordinatorStep(t)
    BY <2>3 DEF CoordinatorStep, payVars, client
  <2>4. CASE Callback(t)
    BY <2>4 DEF Callback, DbPrepare, ClearingPrepare, DbCommit, ClearingCommit, AbortDb,
                AbortClearing, client
  <2>5. CASE Ending(t)
    BY <2>5 DEF Ending, Approve, Decline, FailAbort, FailAbortDb, FailAbortClearing,
                FailReturn, payVars, client
  <2>6. QED
    BY <1>3, <2>1, <2>2, <2>3, <2>4, <2>5 DEF WorkerStep, Work
<1>4. CASE (\E t \in Threads : ConnectionLost(t)) \/ ReversalRun \/ PayCrash \/ UNCHANGED allVars
  BY <1>2, <1>4 DEF ConnectionLost, ReversalRun, PayCrash, client, allVars, payVars
<1>5. QED
  BY <1>1, <1>2, <1>3, <1>4, StepCases

LEMMA StepIsNext == NowInv /\ [PayNext]_allVars => [Next]_vars
<1> SUFFICES ASSUME NowInv, [PayNext]_allVars PROVE [Next]_vars
  OBVIOUS
<1>1. ASSUME NEW t \in Threads, WorkerStep(t) PROVE [Next]_vars
  BY <1>1, WorkerCoordinator DEF Next
<1>2. CASE (\E t \in Threads : ConnectionLost(t)) \/ ReversalRun \/ Tick \/ UNCHANGED allVars
  BY <1>2 DEF ConnectionLost, ReversalRun, Tick, allVars
<1>3. CASE PayCrash
  BY <1>3 DEF PayCrash, Next
<1>4. QED
  BY <1>1, <1>2, <1>3, StepCases

\* The payment pipeline uses the coordinator as its specification allows:
\* every theorem of the coordinator is one of the whole server
\* (handler.c:399-522).
THEOREM Composition == PaySpec => Spec
<1>1. PayInit => Init /\ NowInv
  BY PaymentAssumption DEF PayInit, NowInv
<1>2. QED
  BY <1>1, NowStep, StepIsNext, PTL DEF PaySpec, Spec

\* Every payment's transaction behaves as one atomic commitment, across
\* crashes and restarts of the server (txn_commit, txn_abort).
THEOREM PaymentIsAtomic == PaySpec => ImplementsAtomicCommit
BY Composition, Refinement, PTL
-----------------------------------------------------------------------------
(* Where a worker is, and the types *)

\* The place in the pipeline and the place in the coordinator go together,
\* and from the second registration on there are two participants.
Flow(t) ==
  /\ hs[t] = "idle" <=> job[t] = NoJob
  /\ hs[t] # "idle" => txnId[t] \in TxnIds
  /\ hs[t] = "idle" => pc[t] = "idle"
  /\ hs[t] = "init" => pc[t] = "open" /\ Len(part[t]) = 0
  /\ hs[t] = "register" => pc[t] = "open" /\ Len(part[t]) \in {0, 1}
  /\ hs[t] \in {"begin", "insert"} => pc[t] = "open" /\ Len(part[t]) = 2
  /\ hs[t] = "commit" =>
       /\ Len(part[t]) = 2 /\ pc[t] # "xabort"
       /\ pc[t] = "idle" => ret[t] \in {"committed", "aborted"}
  /\ hs[t] = "failing" => pc[t] \in {"open", "xabort"}

FlowInv == \A t \in Threads : Flow(t)

\* A step of one worker leaves the control state and the contexts of the
\* others alone.
Same(u) ==
  /\ hs'[u] = hs[u] /\ job'[u] = job[u] /\ dbIn'[u] = dbIn[u] /\ hold'[u] = hold[u]
  /\ conn'[u] = conn[u] /\ pc'[u] = pc[u] /\ idx'[u] = idx[u] /\ ret'[u] = ret[u]
  /\ part'[u] = part[u] /\ txnId'[u] = txnId[u]

LEMMA CoordinatorOthers ==
  ASSUME TypeOK, NEW t \in Threads, BeginStep(t) \/ CommitStep(t) \/ AbortStep(t),
         NEW u \in Threads, u # t
  PROVE  /\ pc'[u] = pc[u] /\ idx'[u] = idx[u] /\ ret'[u] = ret[u]
         /\ part'[u] = part[u] /\ txnId'[u] = txnId[u]
BY DEF TypeOK, BeginStep, CommitStep, AbortStep, Begin, BeginRefused,
       BeginNoMemory, GetById, Register, RegisterRefused, CommitCall,
       PrepareOne, AllPrepared, CommitStart, CommitOne, Committed, AbortStart,
       AbortOne, Aborted, ReportAborted, AbortCall, AbortEach, AbortReturn, Goto, Loop,
       Advance, Return, SetPart, SetState, object

LEMMA Others ==
  ASSUME PayTypeOK, NEW t \in Threads, WorkerStep(t), NEW u \in Threads, u # t
  PROVE  Same(u)
<1>0. TypeOK /\ NowInv
  BY DEF PayTypeOK, NowInv
<1>1. /\ pc'[u] = pc[u] /\ idx'[u] = idx[u] /\ ret'[u] = ret[u]
      /\ part'[u] = part[u] /\ txnId'[u] = txnId[u]
  <2>1. CASE BeginStep(t) \/ CommitStep(t) \/ AbortStep(t)
    BY <1>0, <2>1, CoordinatorOthers
  <2>2. CASE UNCHANGED vars
    BY <2>2 DEF vars, thread, object
  <2>3. QED
    BY <1>0, <2>1, <2>2, WorkerCoordinator
<1>2. hs'[u] = hs[u] /\ job'[u] = job[u] /\ dbIn'[u] = dbIn[u] /\ hold'[u] = hold[u]
      /\ conn'[u] = conn[u]
  <2> DEFINE Kept5 == /\ hs'[u] = hs[u] /\ job'[u] = job[u] /\ dbIn'[u] = dbIn[u]
                      /\ hold'[u] = hold[u] /\ conn'[u] = conn[u]
  <2> SUFFICES Kept5
    OBVIOUS
  <2>0. /\ hs \in [Threads -> Steps] /\ job \in [Threads -> Jobs \cup {NoJob}]
        /\ dbIn \in [Threads -> BOOLEAN] /\ hold \in [Threads -> BOOLEAN]
        /\ conn \in [Threads -> Sessions]
    BY DEF PayTypeOK
  <2>1. ASSUME NEW j \in Jobs, Accept(t, j) \/ AcceptRefused(t, j) PROVE Kept5
    BY <2>0, <2>1 DEF Accept, AcceptRefused, handler, context, Step
  <2>2. CASE InitParticipants(t)
    BY <2>0, <2>2 DEF InitParticipants, ThreadGet, Connect, Step
  <2>3. CASE RegisterParticipant(t) \/ DbBegin(t) \/ Insert(t) \/ Fail(t)
    BY <2>0, <2>3 DEF RegisterParticipant, DbBegin, Insert, Fail, context, Step
  <2>4. CASE CoordinatorStep(t) \/ FailAbort(t)
    BY <2>4 DEF CoordinatorStep, FailAbort, payVars, handler, context
  <2>5. ASSUME NEW ok \in BOOLEAN,
               DbPrepare(t, ok) \/ ClearingPrepare(t, ok) \/ DbCommit(t, ok)
                 \/ ClearingCommit(t, ok)
        PROVE  Kept5
    BY <2>0, <2>5 DEF DbPrepare, ClearingPrepare, DbCommit, ClearingCommit, handler, context
  <2>6. CASE AbortDb(t) \/ AbortClearing(t)
    BY <2>0, <2>6 DEF AbortDb, DbAbort, AbortClearing, handler, PgRollback, PgRollbackPrepared
  <2>7. CASE Approve(t) \/ Decline(t) \/ FailAbortDb(t) \/ FailAbortClearing(t) \/ FailReturn(t)
    BY <2>0, <2>7 DEF Approve, Decline, FailAbortDb, FailAbortClearing, FailReturn, handler,
                      context, Step
  <2>8. QED
    BY <2>1, <2>2, <2>3, <2>4, <2>5, <2>6, <2>7
       DEF WorkerStep, Work, Setup, Callback, Ending
<1>3. QED
  BY <1>1, <1>2 DEF Same

\* The states of the two participants, by the place in txn_commit.
LEMMA TwoCells ==
  ASSUME IndInv, NEW t \in Threads, Len(part[t]) = 2
  PROVE  /\ part[t][1] \in PartStates /\ part[t][2] \in PartStates
         /\ DOMAIN part[t] = {1, 2}
         /\ InLoop(t) <=> idx[t] <= 2
         /\ SomeFailed(t) <=> part[t][1] = "FAILED" \/ part[t][2] = "FAILED"
         /\ pc[t] = "open" => part[t][1] = "INIT" /\ part[t][2] = "INIT"
         /\ pc[t] = "prepare" =>
              /\ idx[t] = 1 => part[t][1] \in Unprepared /\ part[t][2] \in Unprepared
              /\ idx[t] = 2 => part[t][1] = "PREPARED" /\ part[t][2] \in Unprepared
              /\ ~InLoop(t) => part[t][1] = "PREPARED" /\ part[t][2] = "PREPARED"
         /\ pc[t] = "decided" => part[t][1] = "PREPARED" /\ part[t][2] = "PREPARED"
         /\ pc[t] = "commit" =>
              /\ idx[t] = 1 => part[t][1] = "PREPARED" /\ part[t][2] = "PREPARED"
              /\ idx[t] = 2 => part[t][1] \in Told /\ part[t][2] = "PREPARED"
              /\ ~InLoop(t) => part[t][1] \in Told /\ part[t][2] \in Told
         /\ pc[t] = "abort" =>
              /\ idx[t] = 2 => part[t][1] \in Settled
              /\ ~InLoop(t) => part[t][1] \in Settled /\ part[t][2] \in Settled
         /\ pc[t] = "report" => part[t][1] \in Settled /\ part[t][2] \in Settled
         /\ ret[t] = "committed" => part[t][1] = "COMMITTED" /\ part[t][2] = "COMMITTED"
         /\ ret[t] = "aborted" => part[t][1] \in Settled /\ part[t][2] \in Settled
<1>0. /\ TypeOK /\ PhaseInv(t) /\ part[t] \in Seq(PartStates) /\ idx[t] \in Nat
      /\ 1 \in 1..2 /\ 2 \in 1..2 /\ 1..2 = {1, 2} /\ DOMAIN part[t] = 1..2
  BY DEF IndInv, AllPhases, TypeOK
<1>1. /\ part[t][1] \in PartStates /\ part[t][2] \in PartStates
  BY <1>0
<1>2. InLoop(t) <=> idx[t] <= 2
  BY DEF InLoop
<1>3. SomeFailed(t) <=> part[t][1] = "FAILED" \/ part[t][2] = "FAILED"
  BY <1>0 DEF SomeFailed
<1>4. pc[t] = "open" => part[t][1] = "INIT" /\ part[t][2] = "INIT"
  BY <1>0 DEF PhaseInv, Cells, Fresh
<1>5. ASSUME pc[t] = "prepare"
      PROVE  /\ idx[t] = 1 => part[t][1] \in Unprepared /\ part[t][2] \in Unprepared
             /\ idx[t] = 2 => part[t][1] = "PREPARED" /\ part[t][2] \in Unprepared
             /\ ~InLoop(t) => part[t][1] = "PREPARED" /\ part[t][2] = "PREPARED"
  <2>1. /\ idx[t] \in 1..3 /\ Cells(part[t], 1, idx[t] - 1, Voted)
        /\ Cells(part[t], idx[t], 2, Unprepared)
    BY <1>0, <1>5 DEF PhaseInv, Reached
  <2>2. QED
    BY <1>2, <2>1 DEF Cells, Voted
<1>6. pc[t] = "decided" => part[t][1] = "PREPARED" /\ part[t][2] = "PREPARED"
  BY <1>0 DEF PhaseInv, Cells, Voted
<1>7. ASSUME pc[t] = "commit"
      PROVE  /\ idx[t] = 1 => part[t][1] = "PREPARED" /\ part[t][2] = "PREPARED"
             /\ idx[t] = 2 => part[t][1] \in Told /\ part[t][2] = "PREPARED"
             /\ ~InLoop(t) => part[t][1] \in Told /\ part[t][2] \in Told
  <2>1. /\ idx[t] \in 1..3 /\ Cells(part[t], 1, idx[t] - 1, Told)
        /\ Cells(part[t], idx[t], 2, Voted)
    BY <1>0, <1>7 DEF PhaseInv, Reached
  <2>2. QED
    BY <1>2, <2>1 DEF Cells, Voted
<1>8. ASSUME pc[t] = "abort"
      PROVE  /\ idx[t] = 2 => part[t][1] \in Settled
             /\ ~InLoop(t) => part[t][1] \in Settled /\ part[t][2] \in Settled
  <2>1. idx[t] \in 1..3 /\ Cells(part[t], 1, idx[t] - 1, Settled)
    BY <1>0, <1>8 DEF PhaseInv, Reached
  <2>2. QED
    BY <1>2, <2>1 DEF Cells
<1>9. /\ pc[t] = "report" => part[t][1] \in Settled /\ part[t][2] \in Settled
      /\ ret[t] = "committed" => part[t][1] = "COMMITTED" /\ part[t][2] = "COMMITTED"
      /\ ret[t] = "aborted" => part[t][1] \in Settled /\ part[t][2] \in Settled
  BY <1>0 DEF PhaseInv, Cells, Kept
<1>10. QED
  BY <1>0, <1>1, <1>2, <1>3, <1>4, <1>5, <1>6, <1>7, <1>8, <1>9

\* Writing one of the two cells.
LEMMA SetCellOf ==
  ASSUME IndInv, NEW t \in Threads, Len(part[t]) = 2, NEW v \in PartStates, SetPart(t, v)
  PROVE  /\ Len(part'[t]) = 2
         /\ idx[t] = 1 => part'[t][1] = v /\ part'[t][2] = part[t][2]
         /\ idx[t] = 2 => part'[t][1] = part[t][1] /\ part'[t][2] = v
<1>1. TypeOK /\ 1 \in 1..2 /\ 2 \in 1..2
  BY DEF IndInv
<1>2. QED
  BY <1>1, SetPartEffect

\* What each callback finds and leaves: only a worker inside txn_commit is
\* called, and the turn writes its own cell.
CallbackAt(t, where) ==
  /\ hs[t] = "commit" /\ pc[t] = where /\ pc'[t] = where /\ ret'[t] = ret[t]
  /\ txnId'[t] = txnId[t] /\ Len(part[t]) = 2 /\ Len(part'[t]) = 2
  /\ UNCHANGED <<log, crashes>>

LEMMA InCommit ==
  ASSUME PayTypeOK, FlowInv, NEW t \in Threads, pc[t] \notin {"idle", "open", "xabort"}
  PROVE  hs[t] = "commit" /\ Len(part[t]) = 2
BY DEF FlowInv, Flow, PayTypeOK, Steps

LEMMA PrepareEffect ==
  ASSUME IndInv, PayTypeOK, FlowInv, NEW t \in Threads, NEW ok \in BOOLEAN, PrepareOne(t, ok)
  PROVE  /\ CallbackAt(t, "prepare")
         /\ idx[t] = 1 => /\ part[t][1] = "INIT" /\ part[t][2] = "INIT"
                          /\ part'[t][1] = IF ok THEN "PREPARED" ELSE "FAILED"
                          /\ part'[t][2] = "INIT"
         /\ idx[t] = 2 => /\ part[t][1] = "PREPARED" /\ part[t][2] = "INIT"
                          /\ part'[t][1] = "PREPARED"
                          /\ part'[t][2] = IF ok THEN "PREPARED" ELSE "FAILED"
<1>1. /\ pc[t] = "prepare" /\ ~SomeFailed(t) /\ UNCHANGED <<pc, ret, txnId, log, crashes>>
      /\ SetPart(t, IF ok THEN "PREPARED" ELSE "FAILED")
  BY DEF PrepareOne
<1>2. hs[t] = "commit" /\ Len(part[t]) = 2
  BY <1>1, InCommit
<1>3. (IF ok THEN "PREPARED" ELSE "FAILED") \in PartStates
  BY DEF PartStates
<1>4. QED
  BY <1>1, <1>2, <1>3, TwoCells, SetCellOf DEF CallbackAt, Unprepared

LEMMA CommitEffect ==
  ASSUME IndInv, PayTypeOK, FlowInv, NEW t \in Threads, NEW ok \in BOOLEAN, CommitOne(t, ok)
  PROVE  /\ CallbackAt(t, "commit")
         /\ idx[t] = 1 => /\ part[t][1] = "PREPARED" /\ part[t][2] = "PREPARED"
                          /\ part'[t][1] = IF ok THEN "COMMITTED" ELSE "FAILED"
                          /\ part'[t][2] = "PREPARED"
         /\ idx[t] = 2 => /\ part[t][1] \in Told /\ part[t][2] = "PREPARED"
                          /\ part'[t][1] = part[t][1]
                          /\ part'[t][2] = IF ok THEN "COMMITTED" ELSE "FAILED"
<1>1. /\ pc[t] = "commit" /\ InLoop(t) /\ UNCHANGED <<pc, ret, txnId, log, crashes>>
  BY DEF CommitOne
<1>2. hs[t] = "commit" /\ Len(part[t]) = 2
  BY <1>1, InCommit
<1>3. (IF ok THEN "COMMITTED" ELSE "FAILED") \in PartStates
  BY DEF PartStates
<1>4. CASE part[t][idx[t]] = "PREPARED"
  <2>1. SetPart(t, IF ok THEN "COMMITTED" ELSE "FAILED")
    BY <1>4 DEF CommitOne
  <2>2. QED
    BY <1>1, <1>2, <1>3, <2>1, TwoCells, SetCellOf DEF CallbackAt
<1>5. CASE part[t][idx[t]] # "PREPARED"
  <2>1. idx[t] \notin {1, 2}
    BY <1>1, <1>2, <1>5, TwoCells
  <2>2. Len(part'[t]) = 2
    BY <1>1, <1>2, SetPartType DEF CommitOne, IndInv, PartStates
  <2>3. QED
    BY <1>1, <1>2, <2>1, <2>2 DEF CallbackAt
<1>6. QED
  BY <1>4, <1>5

LEMMA AbortEffect ==
  ASSUME IndInv, PayTypeOK, FlowInv, NEW t \in Threads, AbortOne(t)
  PROVE  /\ CallbackAt(t, "abort")
         /\ idx[t] = 1 =>
              /\ MustAbort(t) <=> part[t][1] \in {"PREPARED", "FAILED"}
              /\ part'[t][1] = IF MustAbort(t) THEN "ABORTED" ELSE part[t][1]
              /\ part'[t][2] = part[t][2]
         /\ idx[t] = 2 =>
              /\ MustAbort(t) <=> part[t][2] \in {"PREPARED", "FAILED"}
              /\ part'[t][1] = part[t][1] /\ part[t][1] \in Settled
              /\ part'[t][2] = IF MustAbort(t) THEN "ABORTED" ELSE part[t][2]
<1>1. /\ pc[t] = "abort" /\ InLoop(t) /\ UNCHANGED <<pc, ret, txnId, log, crashes>>
      /\ SetPart(t, IF MustAbort(t) THEN "ABORTED" ELSE part[t][idx[t]])
  BY DEF AbortOne
<1>2. hs[t] = "commit" /\ Len(part[t]) = 2
  BY <1>1, InCommit
<1>3. idx[t] \in {1, 2}
  <2>1. PhaseInv(t)
    BY DEF IndInv, AllPhases
  <2>2. idx[t] \in 1..3
    BY <1>1, <1>2, <2>1 DEF PhaseInv, Reached
  <2>3. QED
    BY <1>1, <1>2, <2>2, TwoCells
<1>4. (IF MustAbort(t) THEN "ABORTED" ELSE part[t][idx[t]]) \in PartStates
  BY <1>2, <1>3, TwoCells DEF PartStates
<1>5. QED
  BY <1>1, <1>2, <1>3, <1>4, TwoCells, SetCellOf DEF CallbackAt, MustAbort

\* The worker's own place after each of its steps.
LEMMA FlowOwn ==
  ASSUME IndInv, IndInv', PayTypeOK, FlowInv, NEW t \in Threads, WorkerStep(t)
  PROVE  Flow(t)'
<1>0. /\ TypeOK /\ Flow(t) /\ hs \in [Threads -> Steps] /\ job \in [Threads -> Jobs \cup {NoJob}]
      /\ NoJob \notin Jobs /\ hs[t] \in Steps
      /\ pc \in [Threads -> Locations] /\ ret \in [Threads -> Results]
      /\ txnId \in [Threads -> TxnIds \cup {NoTxn}]
      /\ part \in [Threads -> Seq(PartStates)]
  BY PaymentAssumption DEF IndInv, PayTypeOK, FlowInv, TypeOK
<1>1. Owns(t)' => txnId'[t] \in TxnIds
  BY DEF IndInv, ListInv
<1>2. ASSUME NEW j \in Jobs, Accept(t, j) PROVE Flow(t)'
  <2>1. /\ hs'[t] = "init" /\ job'[t] = j /\ pc'[t] = "open" /\ part'[t] = <<>>
    BY <1>0, <1>2 DEF Accept, Begin, Goto, Step
  <2>2. Len(part'[t]) = 0
    BY <2>1
  <2>3. QED
    BY <1>0, <1>1, <2>1, <2>2 DEF Flow, Owns
<1>3. ASSUME NEW j \in Jobs, AcceptRefused(t, j) PROVE Flow(t)'
  <2>1. hs[t] = "idle" /\ UNCHANGED <<hs, job, pc, part, txnId>>
    BY <1>3 DEF AcceptRefused, BeginNoMemory, handler, object
  <2>2. QED
    BY <1>0, <2>1 DEF Flow
<1>4. CASE InitParticipants(t)
  <2>1. hs[t] = "init" /\ hs'[t] = "register" /\ UNCHANGED <<job, pc, part, txnId, ret>>
    BY <1>0, <1>4 DEF InitParticipants, Step, vars, thread, object
  <2>2. QED
    BY <1>0, <2>1 DEF Flow
<1>5. CASE RegisterParticipant(t)
  <2>1. /\ hs[t] = "register" /\ UNCHANGED <<job, pc, txnId>> /\ pc[t] = "open"
        /\ hs'[t] = (IF Len(part[t]) = 1 THEN "begin" ELSE "register")
        /\ part'[t] = Append(part[t], "INIT")
    BY <1>0, <1>5 DEF RegisterParticipant, Register, Step
  <2>2. Len(part[t]) \in {0, 1} /\ Len(part'[t]) = Len(part[t]) + 1
    BY <1>0, <2>1 DEF Flow
  <2>3. \/ hs'[t] = "begin" /\ Len(part'[t]) = 2
        \/ hs'[t] = "register" /\ Len(part'[t]) = 1
    <3>1. CASE Len(part[t]) = 0
      BY <2>1, <2>2, <3>1
    <3>2. CASE Len(part[t]) = 1
      BY <2>1, <2>2, <3>2
    <3>3. QED
      BY <2>2, <3>1, <3>2
  <2>4. job[t] # NoJob /\ txnId[t] \in TxnIds
    BY <1>0, <2>1 DEF Flow
  <2>5. QED
    BY <1>0, <2>1, <2>3, <2>4 DEF Flow
<1>6. CASE DbBegin(t) \/ Insert(t) \/ Fail(t)
  <2>1. /\ UNCHANGED <<job, pc, part, txnId, ret>>
        /\ \/ hs[t] = "begin" /\ hs'[t] = "insert"
           \/ hs[t] = "insert" /\ hs'[t] = "commit"
           \/ hs[t] \in {"init", "begin", "insert"} /\ hs'[t] = "failing"
    BY <1>0, <1>6 DEF DbBegin, Insert, Fail, Step, vars, thread, object
  <2>2. QED
    BY <1>0, <2>1 DEF Flow
<1>7. CASE CoordinatorStep(t)
  <2>1. /\ hs[t] = "commit" /\ UNCHANGED <<hs, job, part, txnId>>
        /\ pc'[t] \notin {"xabort", "idle"} \/ ret'[t] \in {"committed", "aborted"}
        /\ pc'[t] # "xabort"
    BY <1>0, <1>7 DEF CoordinatorStep, CommitCall, AllPrepared, CommitStart, Committed,
                      AbortStart, Aborted, ReportAborted, Goto, Loop, Return, payVars,
                      handler, object
  <2>2. QED
    BY <1>0, <2>1 DEF Flow
<1>8. CASE Callback(t)
  <2>1. UNCHANGED <<hs, job>>
    BY <1>8 DEF Callback, DbPrepare, ClearingPrepare, DbCommit, ClearingCommit, AbortDb,
                AbortClearing, handler
  <2>2. CallbackAt(t, "prepare") \/ CallbackAt(t, "commit") \/ CallbackAt(t, "abort")
    BY <1>8, PrepareEffect, CommitEffect, AbortEffect
       DEF Callback, DbPrepare, ClearingPrepare, DbCommit, ClearingCommit, AbortDb,
           AbortClearing
  <2>3. QED
    BY <1>0, <2>1, <2>2 DEF Flow, CallbackAt
<1>9. CASE Approve(t) \/ Decline(t)
  <2>1. /\ hs'[t] = "idle" /\ job'[t] = NoJob /\ pc'[t] = "idle"
    BY <1>0, <1>9 DEF Approve, Decline, Step, vars, thread
  <2>2. QED
    BY <2>1 DEF Flow
<1>10. CASE FailAbort(t)
  <2>1. /\ hs[t] = "failing" /\ UNCHANGED <<hs, job, txnId>> /\ pc'[t] = "xabort"
    BY <1>0, <1>10 DEF FailAbort, AbortCall, Loop, Goto, payVars, handler
  <2>2. QED
    BY <1>0, <2>1 DEF Flow
<1>11. CASE FailAbortDb(t) \/ FailAbortClearing(t)
  <2>1. /\ UNCHANGED <<hs, job, txnId, pc>> /\ pc[t] = "xabort"
    BY <1>11 DEF FailAbortDb, FailAbortClearing, AbortEach, handler
  <2>2. hs[t] = "failing"
    BY <1>0, <2>1 DEF Flow, Steps
  <2>3. QED
    BY <1>0, <2>1, <2>2 DEF Flow
<1>12. CASE FailReturn(t)
  <2>1. /\ hs'[t] = "idle" /\ job'[t] = NoJob /\ pc'[t] = "idle"
    BY <1>0, <1>12 DEF FailReturn, AbortReturn, Goto, Step
  <2>2. QED
    BY <2>1 DEF Flow
<1>13. QED
  BY <1>2, <1>3, <1>4, <1>5, <1>6, <1>7, <1>8, <1>9, <1>10, <1>11, <1>12
     DEF WorkerStep, Work, Setup, Ending

LEMMA FlowStep ==
  IndInv /\ IndInv' /\ PayTypeOK /\ FlowInv /\ [PayNext]_allVars => FlowInv'
<1> SUFFICES ASSUME IndInv, IndInv', PayTypeOK, FlowInv, [PayNext]_allVars,
                    NEW u \in Threads
             PROVE  Flow(u)'
  BY DEF FlowInv
<1>1. ASSUME NEW t \in Threads, WorkerStep(t) PROVE Flow(u)'
  <2>1. CASE u = t
    BY <1>1, <2>1, FlowOwn
  <2>2. CASE u # t
    <3>1. Same(u) /\ Flow(u)
      BY <1>1, <2>2, Others DEF FlowInv
    <3>2. QED
      BY <3>1 DEF Same, Flow
  <2>3. QED
    BY <2>1, <2>2
<1>2. CASE (\E t \in Threads : ConnectionLost(t)) \/ ReversalRun \/ Tick \/ UNCHANGED allVars
  <2>1. UNCHANGED <<hs, job, pc, part, txnId, ret>> /\ Flow(u)
    BY <1>2 DEF ConnectionLost, ReversalRun, Tick, allVars, payVars, vars, thread, object,
                handler, FlowInv
  <2>2. QED
    BY <2>1 DEF Flow
<1>3. CASE PayCrash
  <2>1. hs'[u] = "idle" /\ job'[u] = NoJob /\ pc'[u] = "idle"
    BY <1>3 DEF PayCrash, Crash
  <2>2. QED
    BY <2>1 DEF Flow
<1>4. QED
  BY <1>1, <1>2, <1>3, StepCases

\* The types of what the pipeline itself keeps.
LEMMA PayTypeStep ==
  IndInv /\ IndInv' /\ PayTypeOK /\ FlowInv /\ [PayNext]_allVars => PayTypeOK'
<1> SUFFICES ASSUME IndInv, IndInv', PayTypeOK, FlowInv, [PayNext]_allVars PROVE PayTypeOK'
  OBVIOUS
<1>0. NowInv /\ TypeOK' /\ Bootstrap \in Sessions /\ Threads \subseteq Sessions
  BY DEF IndInv, PayTypeOK, NowInv, Sessions
<1>a. now' \in 1..MaxTime
  BY <1>0, NowStep DEF NowInv
<1> USE DEF client, handler, context, postgres, outside, payVars
<1>1. ASSUME NEW t \in Threads, NEW j \in Jobs, Accept(t, j) \/ AcceptRefused(t, j)
      PROVE PayTypeOK'
  <2>1. TxnIdFor(j) \in TxnIds
    BY <1>0, IdInTxnIds
  <2>2. QED
    BY <1>0, <1>a, <1>1, <2>1 DEF Accept, AcceptRefused, Step, Steps, PayTypeOK
<1>2. ASSUME NEW t \in Threads, Setup(t) PROVE PayTypeOK'
  <2>1. CASE InitParticipants(t)
    BY <1>0, <1>a, <2>1 DEF InitParticipants, ThreadGet, Connect, Fault, Step, Steps, PayTypeOK
  <2>2. CASE RegisterParticipant(t)
    BY <1>0, <1>a, <2>2 DEF RegisterParticipant, Step, Steps, PayTypeOK
  <2>3. CASE DbBegin(t)
    BY <1>0, <1>a, <2>3 DEF DbBegin, Step, Steps, PayTypeOK
  <2>4. CASE Insert(t)
    <3>1. hs[t] = "insert" /\ job[t] \in Jobs
      BY <2>4 DEF Insert, FlowInv, Flow, PayTypeOK
    <3>2. NewRow(t) \subseteq Jobs
      BY <3>1 DEF NewRow
    <3>3. rows' \subseteq Jobs /\ pend' \in [Sessions -> SUBSET Jobs]
      BY <2>4, <3>2 DEF Insert, PayTypeOK
    <3>4. QED
      BY <1>0, <1>a, <2>4, <3>3 DEF Insert, Step, Steps, PayTypeOK
  <2>5. CASE Fail(t)
    <3>1. /\ sess' \in [Sessions -> {"none", "idle", "txn", "failed", "broken"}]
          /\ pend' \in [Sessions -> SUBSET Jobs]
      BY <2>5 DEF Fail, PgRollback, PayTypeOK
    <3>2. QED
      BY <1>0, <1>a, <2>5, <3>1 DEF Fail, Answer, Step, Steps, PayTypeOK
  <2>6. QED
    BY <1>2, <2>1, <2>2, <2>3, <2>4, <2>5 DEF Setup
<1>3. ASSUME NEW t \in Threads, CoordinatorStep(t) \/ FailAbort(t) PROVE PayTypeOK'
  BY <1>0, <1>3 DEF CoordinatorStep, FailAbort, PayTypeOK
<1>4. ASSUME NEW t \in Threads, Callback(t) PROVE PayTypeOK'
  <2>0. job[t] \in Jobs /\ txnId[t] \in TxnIds
    <3>1. hs[t] = "commit"
      BY <1>4, PrepareEffect, CommitEffect, AbortEffect
         DEF Callback, DbPrepare, ClearingPrepare, DbCommit, ClearingCommit, AbortDb,
             AbortClearing, CallbackAt
    <3>2. QED
      BY <3>1 DEF FlowInv, Flow, PayTypeOK
  <2>1. ASSUME NEW ok \in BOOLEAN, DbPrepare(t, ok) PROVE PayTypeOK'
    <3>1. pend[conn[t]] \subseteq Jobs
      BY DEF PayTypeOK
    <3>2. [gid |-> txnId[t], job |-> job[t], rows |-> pend[conn[t]]]
            \in [gid : TxnIds, job : Jobs, rows : SUBSET Jobs]
      BY <2>0, <3>1
    <3>3. prepared' \subseteq [gid : TxnIds, job : Jobs, rows : SUBSET Jobs]
      BY <2>1, <3>2 DEF DbPrepare, PgPrepare, PayTypeOK
    <3>4. sess' \in [Sessions -> {"none", "idle", "txn", "failed", "broken"}]
      BY <2>1 DEF DbPrepare, PgRollback, PayTypeOK
    <3>5. pend' \in [Sessions -> SUBSET Jobs]
      BY <2>1 DEF DbPrepare, PgPrepare, PgRollback, PayTypeOK
    <3>6. dbIn' \in [Threads -> BOOLEAN] /\ faulted' \subseteq Faults
      BY <2>1 DEF DbPrepare, Fault, PayTypeOK
    <3>7. QED
      BY <1>0, <1>a, <2>1, <3>3, <3>4, <3>5, <3>6 DEF DbPrepare, PayTypeOK
  <2>2. ASSUME NEW ok \in BOOLEAN, ClearingPrepare(t, ok) PROVE PayTypeOK'
    <3>1. clearing' \in [TxnIds -> {"none", "held", "settled", "released"}]
          /\ faulted' \subseteq Faults
      BY <2>2 DEF ClearingPrepare, ClearingHold, Fault, PayTypeOK
    <3>2. hold' \in [Threads -> BOOLEAN]
      BY <2>2 DEF ClearingPrepare, PayTypeOK
    <3>3. QED
      BY <1>0, <1>a, <2>2, <3>1, <3>2 DEF ClearingPrepare, PayTypeOK
  <2>3. ASSUME NEW ok \in BOOLEAN, DbCommit(t, ok) PROVE PayTypeOK'
    <3>1. /\ prepared' \subseteq prepared /\ rows' \subseteq Jobs
      BY <2>3 DEF DbCommit, PgCommitPrepared, WithGid, PayTypeOK
    <3>2. /\ sess' \in [Sessions -> {"none", "idle", "txn", "failed", "broken"}]
          /\ pend' \in [Sessions -> SUBSET Jobs] /\ faulted' \subseteq Faults
      BY <2>3 DEF DbCommit, PgError, Fault, PayTypeOK
    <3>3. QED
      BY <1>0, <1>a, <2>3, <3>1, <3>2 DEF DbCommit, PayTypeOK
  <2>4. ASSUME NEW ok \in BOOLEAN, ClearingCommit(t, ok) PROVE PayTypeOK'
    <3>1. clearing' \in [TxnIds -> {"none", "held", "settled", "released"}]
          /\ faulted' \subseteq Faults
      BY <2>4 DEF ClearingCommit, ClearingSettle, Fault, PayTypeOK
    <3>2. hold' \in [Threads -> BOOLEAN]
      BY <2>4 DEF ClearingCommit, PayTypeOK
    <3>3. QED
      BY <1>0, <1>a, <2>4, <3>1, <3>2 DEF ClearingCommit, PayTypeOK
  <2>5. CASE AbortDb(t)
    <3>1. /\ sess' \in [Sessions -> {"none", "idle", "txn", "failed", "broken"}]
          /\ pend' \in [Sessions -> SUBSET Jobs] /\ dbIn' \in [Threads -> BOOLEAN]
          /\ prepared' \subseteq prepared /\ faulted' \subseteq Faults
      BY <2>5 DEF AbortDb, DbAbort, PgRollback, PgRollbackPrepared, PgError, Fault, PayTypeOK
    <3>2. QED
      BY <1>0, <1>a, <2>5, <3>1 DEF AbortDb, PayTypeOK
  <2>6. CASE AbortClearing(t)
    <3>1. clearing' \in [TxnIds -> {"none", "held", "settled", "released"}]
          /\ faulted' \subseteq Faults
      BY <2>6 DEF AbortClearing, ClearingVoid, Fault, PayTypeOK
    <3>2. hold' \in [Threads -> BOOLEAN]
      BY <2>6 DEF AbortClearing, PayTypeOK
    <3>3. QED
      BY <1>0, <1>a, <2>6, <3>1, <3>2 DEF AbortClearing, PayTypeOK
  <2>7. QED
    BY <1>4, <2>1, <2>2, <2>3, <2>4, <2>5, <2>6 DEF Callback
<1>5. ASSUME NEW t \in Threads, Approve(t) \/ Decline(t) PROVE PayTypeOK'
  <2>1. job[t] \in Jobs /\ txnId[t] \in TxnIds
    BY <1>5 DEF Approve, Decline, FlowInv, Flow, PayTypeOK
  <2>2. reversals' \subseteq [id : TxnIds, job : Jobs] /\ faulted' \subseteq Faults
    BY <1>5, <2>1 DEF Approve, Decline, Enqueue, Fault, PayTypeOK
  <2>3. QED
    BY <1>0, <1>a, <1>5, <2>2 DEF Approve, Decline, Answer, Step, Steps, PayTypeOK
<1>6. ASSUME NEW t \in Threads, FailAbortDb(t) PROVE PayTypeOK'
  <2>1. /\ sess' \in [Sessions -> {"none", "idle", "txn", "failed", "broken"}]
        /\ pend' \in [Sessions -> SUBSET Jobs] /\ prepared' \subseteq prepared
    BY <1>6 DEF FailAbortDb, PgRollbackPrepared, PgError, PayTypeOK
  <2>2. QED
    BY <1>0, <1>a, <1>6, <2>1 DEF FailAbortDb, PayTypeOK
<1>7. ASSUME NEW t \in Threads, FailAbortClearing(t) \/ FailReturn(t) PROVE PayTypeOK'
  <2>1. CASE FailAbortClearing(t)
    <3>1. clearing' \in [TxnIds -> {"none", "held", "settled", "released"}]
          /\ faulted' \subseteq Faults
      BY <2>1 DEF FailAbortClearing, ClearingVoid, Fault, PayTypeOK
    <3>2. QED
      BY <1>0, <1>a, <2>1, <3>1 DEF FailAbortClearing, PayTypeOK
  <2>2. CASE FailReturn(t)
    BY <1>0, <1>a, <2>2 DEF FailReturn, Step, Steps, PayTypeOK
  <2>3. QED
    BY <1>7, <2>1, <2>2
<1>8. ASSUME NEW t \in Threads, ConnectionLost(t) PROVE PayTypeOK'
  BY <1>0, <1>a, <1>8 DEF ConnectionLost, Fault, PayTypeOK
<1>9. CASE ReversalRun
  BY <1>0, <1>a, <1>9 DEF ReversalRun, ClearingVoid, Fault, PayTypeOK
<1>10. CASE Tick \/ UNCHANGED allVars
  BY <1>0, <1>a, <1>10 DEF Tick, allVars, PayTypeOK
<1>11. CASE PayCrash
  BY <1>0, <1>a, <1>11 DEF PayCrash, NoSessionYet, Steps, PayTypeOK
<1>12. QED
  BY <1>1, <1>2, <1>3, <1>4, <1>5, <1>6, <1>7, <1>8, <1>9, <1>10, <1>11, StepCases
     DEF WorkerStep, Work, Ending
-----------------------------------------------------------------------------
(* What a worker's step may touch *)

\* The worker adds, or takes away, only a prepared transaction of its own id.
LEMMA PreparedCases ==
  ASSUME PayTypeOK, IndInv, FlowInv, NEW t \in Threads, WorkerStep(t)
  PROVE  \/ UNCHANGED prepared
         \/ /\ \/ \E p \in WithGid(txnId[t]) : prepared' = prepared \ {p}
               \/ prepared' = prepared \ WithGid(txnId[t])
            /\ Owns(t) /\ idx'[t] = idx[t] + 1 /\ hs[t] \in {"commit", "failing"}
         \/ /\ prepared' = prepared \cup
                 {[gid |-> txnId[t], job |-> job[t], rows |-> pend[conn[t]]]}
            /\ WithGid(txnId[t]) = {} /\ sess[conn[t]] = "txn" /\ hs[t] = "commit"
<1>0. idx \in [Threads -> Nat]
  BY DEF IndInv, TypeOK
<1>1. ASSUME NEW j \in Jobs, Accept(t, j) \/ AcceptRefused(t, j) PROVE UNCHANGED prepared
  BY <1>1 DEF Accept, AcceptRefused, postgres
<1>2. CASE Setup(t)
  BY <1>2 DEF Setup, InitParticipants, RegisterParticipant, DbBegin, Insert, Fail, postgres
<1>3. CASE CoordinatorStep(t) \/ FailAbort(t) \/ Approve(t) \/ Decline(t) \/ FailReturn(t)
           \/ FailAbortClearing(t) \/ AbortClearing(t)
  BY <1>3 DEF CoordinatorStep, FailAbort, Approve, Decline, FailReturn, FailAbortClearing,
              AbortClearing, payVars, postgres
<1>4. ASSUME NEW ok \in BOOLEAN, ClearingPrepare(t, ok) \/ ClearingCommit(t, ok)
      PROVE  UNCHANGED prepared
  BY <1>4 DEF ClearingPrepare, ClearingCommit, postgres
<1>5. ASSUME NEW ok \in BOOLEAN, DbPrepare(t, ok)
      PROVE  \/ UNCHANGED prepared
             \/ /\ prepared' = prepared \cup
                     {[gid |-> txnId[t], job |-> job[t], rows |-> pend[conn[t]]]}
                /\ WithGid(txnId[t]) = {} /\ sess[conn[t]] = "txn" /\ hs[t] = "commit"
  <2>1. hs[t] = "commit"
    BY <1>5, PrepareEffect DEF DbPrepare, CallbackAt
  <2>2. QED
    BY <1>5, <2>1 DEF DbPrepare, PgPrepare
<1>6. ASSUME NEW ok \in BOOLEAN, DbCommit(t, ok)
      PROVE  \/ UNCHANGED prepared
             \/ /\ \E p \in WithGid(txnId[t]) : prepared' = prepared \ {p}
                /\ Owns(t) /\ idx'[t] = idx[t] + 1 /\ hs[t] = "commit"
  <2>1. hs[t] = "commit" /\ Owns(t)
    BY <1>6, CommitEffect DEF DbCommit, CallbackAt, Owns
  <2>2. idx'[t] = idx[t] + 1
    BY <1>0, <1>6 DEF DbCommit, CommitOne, Advance
  <2>3. QED
    BY <1>6, <2>1, <2>2 DEF DbCommit, PgCommitPrepared
<1>7. CASE AbortDb(t)
  <2>1. hs[t] = "commit" /\ Owns(t)
    BY <1>7, AbortEffect DEF AbortDb, CallbackAt, Owns
  <2>2. idx'[t] = idx[t] + 1
    BY <1>0, <1>7 DEF AbortDb, AbortOne, Advance
  <2>3. prepared' = prepared \/ prepared' = prepared \ WithGid(txnId[t])
    BY <1>7 DEF AbortDb, DbAbort, PgRollbackPrepared
  <2>4. QED
    BY <2>1, <2>2, <2>3
<1>8. CASE FailAbortDb(t)
  <2>1. hs[t] = "failing" /\ Owns(t)
    BY <1>8 DEF FailAbortDb, AbortEach, FlowInv, Flow, PayTypeOK, Steps, Owns
  <2>2. idx'[t] = idx[t] + 1
    BY <1>0, <1>8 DEF FailAbortDb, AbortEach, Advance
  <2>3. prepared' = prepared \/ prepared' = prepared \ WithGid(txnId[t])
    BY <1>8 DEF FailAbortDb, PgRollbackPrepared
  <2>4. QED
    BY <2>1, <2>2, <2>3
<1>9. QED
  BY <1>1, <1>2, <1>3, <1>4, <1>5, <1>6, <1>7, <1>8
     DEF WorkerStep, Work, Callback, Ending

\* The worker sends clearing nothing but requests about its own id.
LEMMA ClearingCases ==
  ASSUME PayTypeOK, IndInv, FlowInv, NEW t \in Threads, WorkerStep(t)
  PROVE  \/ UNCHANGED clearing
         \/ /\ hs[t] \in {"commit", "failing"}
            /\ \E v : clearing' = [clearing EXCEPT ![txnId[t]] = v]
<1>1. ASSUME NEW j \in Jobs, Accept(t, j) \/ AcceptRefused(t, j) PROVE UNCHANGED clearing
  BY <1>1 DEF Accept, AcceptRefused, outside
<1>2. CASE Setup(t)
  BY <1>2 DEF Setup, InitParticipants, RegisterParticipant, DbBegin, Insert, Fail, outside
<1>3. CASE CoordinatorStep(t) \/ FailAbort(t) \/ Approve(t) \/ Decline(t) \/ FailReturn(t)
           \/ FailAbortDb(t) \/ AbortDb(t)
  BY <1>3 DEF CoordinatorStep, FailAbort, Approve, Decline, FailReturn, FailAbortDb,
              AbortDb, payVars, outside
<1>4. ASSUME NEW ok \in BOOLEAN, DbPrepare(t, ok) \/ DbCommit(t, ok)
      PROVE  UNCHANGED clearing
  BY <1>4 DEF DbPrepare, DbCommit, outside
<1>5. ASSUME NEW ok \in BOOLEAN, ClearingPrepare(t, ok) \/ ClearingCommit(t, ok)
      PROVE  UNCHANGED clearing \/ \E v : clearing' = [clearing EXCEPT ![txnId[t]] = v]
  BY <1>5 DEF ClearingPrepare, ClearingCommit, ClearingHold, ClearingSettle
<1>6. ASSUME AbortClearing(t) \/ FailAbortClearing(t)
      PROVE  UNCHANGED clearing \/ \E v : clearing' = [clearing EXCEPT ![txnId[t]] = v]
  BY <1>6 DEF AbortClearing, FailAbortClearing, ClearingVoid
<1>7. ASSUME \/ \E ok \in BOOLEAN : ClearingPrepare(t, ok) \/ ClearingCommit(t, ok)
             \/ AbortClearing(t)
      PROVE  hs[t] = "commit"
  BY <1>7, PrepareEffect, CommitEffect, AbortEffect
     DEF ClearingPrepare, ClearingCommit, AbortClearing, CallbackAt
<1>8. ASSUME FailAbortClearing(t) PROVE hs[t] = "failing"
  BY <1>8 DEF FailAbortClearing, AbortEach, FlowInv, Flow, PayTypeOK, Steps
<1>9. QED
  BY <1>1, <1>2, <1>3, <1>4, <1>5, <1>6, <1>7, <1>8 DEF WorkerStep, Work, Callback, Ending

\* Everything about another id stays as it is.
LEMMA OtherIds ==
  ASSUME PayTypeOK, IndInv, StateInv, FlowInv, NEW t \in Threads, WorkerStep(t),
         NEW id \in TxnIds, id # txnId'[t]
  PROVE  /\ log'[id] = log[id] /\ opened'[id] = opened[id]
         /\ id # txnId[t] => /\ clearing'[id] = clearing[id]
                             /\ WithGid(id)' = WithGid(id)
<1>0. /\ NowInv /\ log \in [TxnIds -> TxnStates \cup {"NONE"}]
      /\ opened \in [TxnIds -> Streams]
      /\ clearing \in [TxnIds -> {"none", "held", "settled", "released"}]
      /\ txnId \in [Threads -> TxnIds \cup {NoTxn}]
  BY DEF PayTypeOK, IndInv, TypeOK, NowInv
<1>1. log'[id] = log[id] /\ opened'[id] = opened[id]
  <2>1. CASE BeginStep(t) \/ CommitStep(t) \/ AbortStep(t)
    <3>1. CASE UNCHANGED <<log, opened>>
      BY <3>1
    <3>2. ASSUME NEW i \in TxnIds, Begin(t, i)
          PROVE  log'[id] = log[id] /\ opened'[id] = opened[id]
      BY <1>0, <3>2 DEF Begin
    <3>3. ASSUME NEW s, UNCHANGED txnId, SetState(t, s) PROVE log'[id] = log[id]
      BY <1>0, <3>3 DEF SetState, LogState
    <3>4. QED
      BY <2>1, <3>1, <3>2, <3>3, LogCases
  <2>2. CASE UNCHANGED vars
    BY <2>2 DEF vars
  <2>3. QED
    BY <1>0, <2>1, <2>2, WorkerCoordinator
<1>2. ASSUME id # txnId[t] PROVE clearing'[id] = clearing[id]
  BY <1>0, <1>2, ClearingCases
<1>3. ASSUME id # txnId[t] PROVE WithGid(id)' = WithGid(id)
  BY <1>3, PreparedCases DEF WithGid
<1>4. QED
  BY <1>1, <1>2, <1>3

\* A worker takes a request with Accept only, and keeps its id until it is
\* done with the request.
LEMMA JobCases ==
  ASSUME PayTypeOK, IndInv, NEW t \in Threads, WorkerStep(t)
  PROVE  \/ \E j \in Jobs : Accept(t, j)
         \/ UNCHANGED <<txnOf, txnId, begun>> /\ job'[t] \in {job[t], NoJob}
<1>0. job \in [Threads -> Jobs \cup {NoJob}]
  BY DEF PayTypeOK
<1> USE DEF vars, object, client, handler, payVars
<1>1. ASSUME NEW j \in Jobs, AcceptRefused(t, j) PROVE UNCHANGED <<txnOf, txnId, job, begun>>
  BY <1>1 DEF AcceptRefused, BeginNoMemory
<1>2. CASE Setup(t)
  BY <1>2 DEF Setup, InitParticipants, RegisterParticipant, Register, DbBegin, Insert, Fail
<1>3. CASE CoordinatorStep(t)
  BY <1>3 DEF CoordinatorStep, CommitCall, AllPrepared, CommitStart, Committed, AbortStart,
              Aborted, ReportAborted
<1>4. CASE Callback(t)
  BY <1>4 DEF Callback, DbPrepare, ClearingPrepare, DbCommit, ClearingCommit, AbortDb,
              AbortClearing, PrepareOne, CommitOne, AbortOne
<1>5. CASE Approve(t) \/ Decline(t) \/ FailReturn(t)
  BY <1>0, <1>5 DEF Approve, Decline, FailReturn, AbortReturn
<1>6. CASE FailAbort(t) \/ FailAbortDb(t) \/ FailAbortClearing(t)
  BY <1>6 DEF FailAbort, FailAbortDb, FailAbortClearing, AbortCall, AbortEach
<1>7. QED
  BY <1>1, <1>2, <1>3, <1>4, <1>5, <1>6 DEF WorkerStep, Work, Ending

\* Only txn_begin uses an id for the first time, and then the log is open or not.
LEMMA OpenedStays ==
  ASSUME PayTypeOK, IndInv, StateInv, NEW t \in Threads, WorkerStep(t), UNCHANGED begun
  PROVE  UNCHANGED opened
<1>0. NowInv /\ begun \in Nat
  BY BoundsAssumption DEF PayTypeOK, IndInv, TypeOK, NowInv
<1>1. ASSUME NEW id \in TxnIds, Begin(t, id) PROVE FALSE
  BY <1>0, <1>1 DEF Begin
<1>2. CASE BeginStep(t) \/ CommitStep(t) \/ AbortStep(t)
  BY <1>1, <1>2, LogCases
<1>3. CASE UNCHANGED vars
  BY <1>3 DEF vars
<1>4. QED
  BY <1>0, <1>2, <1>3, WorkerCoordinator

LEMMA BeginOpens ==
  ASSUME TypeOK, NEW t \in Threads, NEW id, Begin(t, id)
  PROVE  stream'[CoordOf[t]] \in Streams \ {"unset"}
<1>1. stream \in [Coordinators -> Streams] /\ CoordOf[t] \in Coordinators
  BY CoordOfAssumption DEF TypeOK
<1>2. PICK s \in IF stream[CoordOf[t]] = "unset" THEN {"open", "null"}
               ELSE {stream[CoordOf[t]]} :
        stream' = [stream EXCEPT ![CoordOf[t]] = s]
  BY DEF Begin, OpenLog
<1>3. s \in Streams \ {"unset"}
  BY <1>1, <1>2 DEF Streams
<1>4. QED
  BY <1>1, <1>2, <1>3
-----------------------------------------------------------------------------
(* Whose transaction is it *)

\* Every id that was given out has been begun, no two requests have the same,
\* a worker's Transaction has the id of its request, and a prepared
\* transaction is named after the request whose rows it holds.
OwnerInv ==
  /\ \A j \in Jobs : txnOf[j] # NoTxn => opened[txnOf[j]] # "unset"
  /\ \A j, k \in Jobs : txnOf[j] = txnOf[k] /\ txnOf[j] # NoTxn => j = k
  /\ \A t \in Threads : job[t] # NoJob => txnOf[job[t]] = txnId[t]
  /\ \A p \in prepared : p.gid = txnOf[p.job]
  /\ \A p, q \in prepared : p.gid = q.gid => p = q

LEMMA OwnerAccept ==
  ASSUME NewIds, PayTypeOK, IndInv, FlowInv, OwnerInv,
         NEW t \in Threads, NEW j \in Jobs, Accept(t, j)
  PROVE  OwnerInv'
<1> DEFINE id == TxnIdFor(j)
<1>1. id \in TxnIds /\ NoTxn \notin TxnIds
  BY IdInTxnIds, ThreadsAssumption DEF PayTypeOK, NowInv
<1>2. /\ txnOf[j] = NoTxn /\ txnOf' = [txnOf EXCEPT ![j] = id]
      /\ job' = [job EXCEPT ![t] = j] /\ UNCHANGED prepared
      /\ opened[id] = "unset"
      /\ \E s \in Streams \ {"unset"} : opened' = [opened EXCEPT ![id] = s]
      /\ txnId' = [txnId EXCEPT ![t] = id]
  <2>1. Begin(t, id) /\ txnOf[j] = NoTxn /\ txnOf' = [txnOf EXCEPT ![j] = id]
        /\ job' = [job EXCEPT ![t] = j] /\ UNCHANGED prepared
    BY DEF Accept, postgres
  <2>2. stream'[CoordOf[t]] \in Streams \ {"unset"}
    BY <2>1, BeginOpens DEF IndInv
  <2>3. QED
    BY <1>1, <2>1, <2>2 DEF Begin, NewIds
<1> HIDE DEF id
<1>3. /\ txnOf \in [Jobs -> TxnIds \cup {NoTxn}] /\ job \in [Threads -> Jobs \cup {NoJob}]
      /\ opened \in [TxnIds -> Streams]
      /\ txnId \in [Threads -> TxnIds \cup {NoTxn}]
      /\ \A u \in Threads : job[u] # NoJob => txnId[u] \in TxnIds
      /\ \A p \in prepared : p.gid \in TxnIds /\ p.job \in Jobs
  BY DEF PayTypeOK, IndInv, TypeOK, FlowInv, Flow
<1>4. \A k \in Jobs : txnOf[k] # id
  BY <1>1, <1>2 DEF OwnerInv
<1>5. \A k \in Jobs : txnOf'[k] # NoTxn => opened'[txnOf'[k]] # "unset"
  BY <1>1, <1>2, <1>3 DEF OwnerInv
<1>6. \A k, i \in Jobs : txnOf'[k] = txnOf'[i] /\ txnOf'[k] # NoTxn => k = i
  BY <1>1, <1>2, <1>3, <1>4 DEF OwnerInv
<1>7. \A u \in Threads : job'[u] # NoJob => txnOf'[job'[u]] = txnId'[u]
  BY <1>1, <1>2, <1>3 DEF OwnerInv
<1>8. \A p \in prepared : p.gid = txnOf'[p.job]
  BY <1>1, <1>2, <1>3 DEF OwnerInv
<1>9. QED
  BY <1>2, <1>5, <1>6, <1>7, <1>8 DEF OwnerInv

LEMMA OwnerStep ==
  IndInv /\ StateInv /\ PayTypeOK /\ FlowInv /\ OwnerInv /\ NewIds /\ [PayNext]_allVars
  => OwnerInv'
<1> SUFFICES ASSUME IndInv, StateInv, PayTypeOK, FlowInv, OwnerInv, NewIds, [PayNext]_allVars
             PROVE  OwnerInv'
  OBVIOUS
<1>0. /\ txnOf \in [Jobs -> TxnIds \cup {NoTxn}] /\ job \in [Threads -> Jobs \cup {NoJob}]
      /\ opened \in [TxnIds -> Streams]
      /\ txnId \in [Threads -> TxnIds \cup {NoTxn}]
      /\ \A u \in Threads : job[u] # NoJob => txnId[u] \in TxnIds
      /\ \A p \in prepared : p.gid \in TxnIds /\ p.job \in Jobs
      /\ NowInv
  BY DEF PayTypeOK, IndInv, TypeOK, FlowInv, Flow, NowInv
<1>1. ASSUME NEW t \in Threads, WorkerStep(t), UNCHANGED <<txnOf, txnId, begun>>,
             job'[t] \in {job[t], NoJob}
      PROVE  OwnerInv'
  <2>1. \A u \in Threads : job'[u] \in {job[u], NoJob}
    BY <1>1, Others DEF Same
  <2>2. UNCHANGED opened
    BY <1>1, OpenedStays
  <2>3. \A p \in prepared' : p.gid = txnOf[p.job]
    <3>1. ASSUME hs[t] = "commit"
          PROVE  LET p == [gid |-> txnId[t], job |-> job[t], rows |-> pend[conn[t]]]
                 IN  p.gid = txnOf[p.job]
      BY <3>1 DEF OwnerInv, FlowInv, Flow
    <3>2. QED
      BY <1>1, <3>1, PreparedCases DEF OwnerInv
  <2>4. \A p, q \in prepared' : p.gid = q.gid => p = q
    BY <1>1, PreparedCases DEF OwnerInv, WithGid
  <2>5. \A u \in Threads : job'[u] # NoJob => txnOf'[job'[u]] = txnId'[u]
    BY <1>1, <2>1 DEF OwnerInv
  <2>6. \A k \in Jobs : txnOf'[k] # NoTxn => opened'[txnOf'[k]] # "unset"
    BY <1>0, <1>1, <2>2 DEF OwnerInv
  <2>7. \A j, k \in Jobs : txnOf'[j] = txnOf'[k] /\ txnOf'[j] # NoTxn => j = k
    BY <1>1 DEF OwnerInv
  <2>8. QED
    BY <1>1, <2>3, <2>4, <2>5, <2>6, <2>7 DEF OwnerInv
<1>2. ASSUME NEW t \in Threads, WorkerStep(t) PROVE OwnerInv'
  BY <1>1, <1>2, JobCases, OwnerAccept
<1>3. CASE (\E t \in Threads : ConnectionLost(t)) \/ ReversalRun \/ Tick \/ UNCHANGED allVars
  <2>1. UNCHANGED <<txnOf, txnId, job, opened, prepared>>
    BY <1>3 DEF ConnectionLost, ReversalRun, Tick, allVars, payVars, vars, object, handler,
                client, postgres
  <2>2. QED
    BY <2>1 DEF OwnerInv
<1>4. CASE PayCrash
  <2>1. UNCHANGED <<txnOf, txnId, opened, prepared>> /\ \A u \in Threads : job'[u] = NoJob
    BY <1>4 DEF PayCrash, Crash, client
  <2>2. QED
    BY <2>1 DEF OwnerInv
<1>5. QED
  BY <1>2, <1>3, <1>4, StepCases

\* Only a worker's own step takes a prepared transaction away, and it is the
\* one of its request.
LEMMA OwnStep ==
  ASSUME IndInv, PayTypeOK, FlowInv, OwnerInv, [PayNext]_allVars,
         NEW p \in prepared \ prepared'
  PROVE  \E t \in Threads : job[t] = p.job /\ Owns(t) /\ idx'[t] # idx[t]
<1>0. p.gid \in TxnIds /\ p.job \in Jobs /\ idx \in [Threads -> Nat] /\ NoTxn \notin TxnIds
  BY ThreadsAssumption DEF PayTypeOK, IndInv, TypeOK
<1>1. PICK t \in Threads : WorkerStep(t)
  BY StepCases DEF ConnectionLost, ReversalRun, Tick, PayCrash, allVars, payVars, postgres
<1>2. /\ p \in WithGid(txnId[t]) /\ Owns(t) /\ idx'[t] = idx[t] + 1
      /\ hs[t] \in {"commit", "failing"}
  BY <1>1, PreparedCases
<1>3. job[t] \in Jobs /\ txnOf[job[t]] = txnId[t] /\ txnOf[p.job] = p.gid
  BY <1>2 DEF FlowInv, Flow, OwnerInv, PayTypeOK
<1>4. p.job = job[t]
  BY <1>0, <1>2, <1>3 DEF OwnerInv, WithGid
<1>5. idx'[t] # idx[t]
  BY <1>0, <1>2
<1>6. QED
  BY <1>2, <1>4, <1>5

\* Either no identifier is ever used twice, or every request has a request_id
\* of its own, short enough to be in its txn_id from end to end.
OwnRequestIds ==
  /\ \A j, k \in Jobs : ReqOf[j] = ReqOf[k] => j = k
  /\ \A j \in Jobs : ReqOf[j] \notin LongReqs

DistinctIds == FreshIds \/ OwnRequestIds

\* An id that was begun was given to a request, and carries its request_id
\* unless that is too long.
UsedInv ==
  /\ \A id \in TxnIds : opened[id] # "unset" => \E j \in Jobs : txnOf[j] = id
  /\ \A j \in Jobs :
       txnOf[j] # NoTxn /\ ReqOf[j] \notin LongReqs => txnOf[j][1] = ReqOf[j]

LEMMA UsedStep ==
  IndInv /\ StateInv /\ PayTypeOK /\ FlowInv /\ OwnerInv /\ UsedInv /\ [PayNext]_allVars
  => UsedInv'
<1> SUFFICES ASSUME IndInv, StateInv, PayTypeOK, FlowInv, OwnerInv, UsedInv, [PayNext]_allVars
             PROVE  UsedInv'
  OBVIOUS
<1>0. /\ txnOf \in [Jobs -> TxnIds \cup {NoTxn}] /\ job \in [Threads -> Jobs \cup {NoJob}]
      /\ opened \in [TxnIds -> Streams] /\ begun \in Nat /\ NowInv
  BY BoundsAssumption DEF PayTypeOK, IndInv, TypeOK, NowInv
<1>1. ASSUME NEW t \in Threads, NEW j \in Jobs, Accept(t, j) PROVE UsedInv'
  <2> DEFINE id == TxnIdFor(j)
  <2>1. /\ id \in TxnIds /\ (ReqOf[j] \notin LongReqs => id[1] = ReqOf[j])
        /\ txnOf[j] = NoTxn /\ NoTxn \notin TxnIds
        /\ txnOf' = [txnOf EXCEPT ![j] = id]
        /\ opened' = [opened EXCEPT ![id] = stream'[CoordOf[t]]]
    BY <1>0, <1>1, IdInTxnIds, ThreadsAssumption DEF Accept, Begin, TxnIdFor
  <2> HIDE DEF id
  <2>2. ASSUME NEW i \in TxnIds, opened'[i] # "unset" PROVE \E k \in Jobs : txnOf'[k] = i
    <3>1. CASE i = id
      BY <1>0, <2>1, <3>1
    <3>2. CASE i # id
      <4>1. PICK k \in Jobs : txnOf[k] = i
        BY <1>0, <2>1, <2>2, <3>2 DEF UsedInv
      <4>2. k # j
        BY <2>1, <4>1
      <4>3. QED
        BY <1>0, <2>1, <4>1, <4>2
    <3>3. QED
      BY <3>1, <3>2
  <2>3. \A k \in Jobs :
          txnOf'[k] # NoTxn /\ ReqOf[k] \notin LongReqs => txnOf'[k][1] = ReqOf[k]
    BY <1>0, <2>1 DEF UsedInv
  <2>4. QED
    BY <2>2, <2>3 DEF UsedInv
<1>2. ASSUME NEW t \in Threads, WorkerStep(t), UNCHANGED <<txnOf, txnId, begun>>
      PROVE  UsedInv'
  BY <1>2, OpenedStays DEF UsedInv
<1>3. CASE \/ (\E t \in Threads : ConnectionLost(t))
           \/ ReversalRun \/ Tick \/ PayCrash \/ UNCHANGED allVars
  <2>1. UNCHANGED <<txnOf, opened>>
    BY <1>3 DEF ConnectionLost, ReversalRun, Tick, PayCrash, Crash, allVars, payVars, vars, client
  <2>2. QED
    BY <2>1 DEF UsedInv
<1>4. QED
  BY <1>1, <1>2, <1>3, JobCases, StepCases

\* Requests with ids of their own never meet a txn_id that was begun before.
LEMMA AcceptIsNew ==
  ASSUME DistinctIds, PayTypeOK, UsedInv, NEW t \in Threads, NEW j \in Jobs, Accept(t, j)
  PROVE  opened[TxnIdFor(j)] = "unset"
<1>1. /\ TxnIdFor(j) \in TxnIds /\ NoTxn \notin TxnIds
      /\ ReqOf[j] \notin LongReqs => TxnIdFor(j)[1] = ReqOf[j]
  BY IdInTxnIds, ThreadsAssumption DEF PayTypeOK, NowInv, TxnIdFor
<1>2. CASE FreshIds
  BY <1>1, <1>2, FreshIsNew DEF Accept, NewIds
<1>3. CASE OwnRequestIds
  <2> SUFFICES ASSUME opened[TxnIdFor(j)] # "unset" PROVE FALSE
    OBVIOUS
  <2>1. PICK k \in Jobs : txnOf[k] = TxnIdFor(j)
    BY <1>1 DEF UsedInv
  <2>2. ReqOf[k] = ReqOf[j]
    BY <1>1, <1>3, <2>1 DEF UsedInv, OwnRequestIds
  <2>3. k = j
    BY <1>3, <2>2 DEF OwnRequestIds
  <2>4. txnOf[j] = NoTxn
    BY DEF Accept
  <2>5. QED
    BY <1>1, <2>1, <2>3, <2>4
<1>4. QED
  BY <1>2, <1>3 DEF DistinctIds

\* Only Accept opens a transaction.
LEMMA PayNewIds ==
  ASSUME DistinctIds
  PROVE  IndInv /\ PayTypeOK /\ UsedInv /\ [PayNext]_allVars => NewIds
<1> SUFFICES ASSUME IndInv, PayTypeOK, UsedInv, [PayNext]_allVars,
                    NEW t \in Threads, NEW id \in TxnIds, Begin(t, id)
             PROVE  opened[id] = "unset"
  BY DEF NewIds
<1>1. /\ begun \in Nat /\ begun' = begun + 1 /\ pc[t] = "idle" /\ pc'[t] = "open"
      /\ txnId'[t] = id
  BY BoundsAssumption DEF IndInv, TypeOK, Begin, Goto
<1>2. PICK u \in Threads, j \in Jobs : Accept(u, j)
  <2>1. CASE \/ (\E u \in Threads : ConnectionLost(u))
             \/ ReversalRun \/ Tick \/ PayCrash \/ UNCHANGED allVars
    <3>1. UNCHANGED begun
      BY <2>1 DEF ConnectionLost, ReversalRun, Tick, PayCrash, Crash, allVars, vars
    <3>2. QED
      BY <1>1, <3>1
  <2>2. ASSUME NEW u \in Threads, WorkerStep(u) PROVE \E j \in Jobs : Accept(u, j)
    BY <1>1, <2>2, JobCases
  <2>3. QED
    BY <2>1, <2>2, StepCases
<1>3. Begin(u, TxnIdFor(j)) /\ TxnIdFor(j) \in TxnIds
  BY <1>2, IdInTxnIds DEF Accept, PayTypeOK, NowInv
<1>4. u = t /\ id = TxnIdFor(j)
  <2>1. pc' = [pc EXCEPT ![u] = "open"] /\ txnId' = [txnId EXCEPT ![u] = TxnIdFor(j)]
    BY <1>3 DEF Begin, Goto
  <2>2. QED
    BY <1>1, <2>1 DEF IndInv, TypeOK
<1>5. QED
  BY <1>2, <1>4, AcceptIsNew

LEMMA PayTypeInit == PayInit => PayTypeOK /\ FlowInv
<1> SUFFICES ASSUME PayInit PROVE PayTypeOK /\ FlowInv
  OBVIOUS
<1>1. TypeOK
  BY TypeInit DEF PayInit
<1>a. 1 \in 1..MaxTime /\ Bootstrap \in Sessions
  BY PaymentAssumption DEF Sessions
<1>b. /\ sess \in [Sessions -> {"none", "idle", "txn", "failed", "broken"}]
      /\ pend \in [Sessions -> SUBSET Jobs] /\ conn \in [Threads -> Sessions]
  BY <1>a DEF PayInit, NoSessionYet
<1>c. dbIn \in [Threads -> BOOLEAN] /\ hold \in [Threads -> BOOLEAN] /\ faulted \subseteq Faults
  BY DEF PayInit
<1>2. PayTypeOK
  BY <1>1, <1>a, <1>b, <1>c DEF PayInit, PayTypeOK, Steps
<1>3. FlowInv
  BY DEF PayInit, Init, FlowInv, Flow
<1>4. QED
  BY <1>2, <1>3

\* The base of what follows: the coordinator's invariants, the types, the
\* places, and who owns what.
PayBase ==
  IndInv /\ StateInv /\ LogInv /\ OwnIds /\ PayTypeOK /\ FlowInv /\ OwnerInv /\ UsedInv

LEMMA BaseStep ==
  ASSUME DistinctIds
  PROVE  PayBase /\ IndInv' /\ [PayNext]_allVars => PayBase' /\ NewIds /\ [Next]_vars
<1> SUFFICES ASSUME PayBase, IndInv', [PayNext]_allVars
             PROVE  PayBase' /\ NewIds /\ [Next]_vars
  OBVIOUS
<1>1. [Next]_vars
  BY StepIsNext DEF PayBase, PayTypeOK, NowInv
<1>2. NewIds
  BY PayNewIds DEF PayBase
<1>3. StateInv' /\ LogInv' /\ OwnIds'
  BY <1>1, <1>2, StateStep, LogStep, OwnIdsStep DEF PayBase, IndInv
<1>4. PayTypeOK' /\ FlowInv' /\ OwnerInv' /\ UsedInv'
  BY <1>2, PayTypeStep, FlowStep, OwnerStep, UsedStep DEF PayBase
<1>5. QED
  BY <1>1, <1>2, <1>3, <1>4 DEF PayBase

LEMMA BaseInit == PayInit /\ IndInv => PayBase
<1> SUFFICES ASSUME PayInit, IndInv PROVE PayBase
  OBVIOUS
<1>1. Init
  BY DEF PayInit
<1>2. LogInv
  BY <1>1 DEF Init, LogInv, Busy, Owns, Final
<1>3. OwnIds
  BY <1>1, ThreadsAssumption DEF Init, OwnIds
<1>4. OwnerInv /\ UsedInv
  BY DEF PayInit, Init, OwnerInv, UsedInv
<1>5. QED
  BY <1>1, <1>2, <1>3, <1>4, StateInit, PayTypeInit DEF PayBase

LEMMA BaseInv == DistinctIds => (PaySpec => []PayBase)
<1> SUFFICES ASSUME DistinctIds PROVE PaySpec => []PayBase
  OBVIOUS
<1>1. PayBase /\ IndInv' /\ [PayNext]_allVars => PayBase'
  BY BaseStep
<1>2. PaySpec => []IndInv
  BY Composition, Inductive, PTL
<1>3. QED
  BY <1>1, <1>2, BaseInit, PTL DEF PaySpec

\* With a log that could be opened, a commit is never sent before the decision
\* to commit is in it, and the record stays, also inside a payment, whatever
\* the participants do, when every request has a short request_id of its own
\* (txn_commit).
THEOREM PaymentWritesAhead == DistinctIds => (PaySpec => []LoggedBeforeCommit)
<1> SUFFICES ASSUME DistinctIds PROVE PaySpec => []LoggedBeforeCommit
  OBVIOUS
<1>1. PayInit => LoggedBeforeCommit
  BY DEF PayInit, Init, LoggedBeforeCommit
<1>2. PayBase /\ PayBase' /\ LoggedBeforeCommit /\ [PayNext]_allVars => LoggedBeforeCommit'
  <2>1. PayBase /\ IndInv' /\ [PayNext]_allVars => [Next]_vars
    BY BaseStep
  <2>2. QED
    BY <2>1, DecidedStep DEF PayBase
<1>3. QED
  BY <1>1, <1>2, BaseInv, PTL DEF PaySpec

\* Every record of the log follows the protocol, whichever worker writes it:
\* a recovery can read off the log of a payment what became of it, when every
\* request has a short request_id of its own (log_transaction_state).
THEOREM PaymentLogProtocol == DistinctIds => (PaySpec => LogFollowsProtocol)
<1> SUFFICES ASSUME DistinctIds PROVE PaySpec => LogFollowsProtocol
  OBVIOUS
<1>1. PayBase /\ IndInv' /\ [PayNext]_allVars =>
        [\A id \in TxnIds :
           log'[id] # log[id] =>
             \/ <<log[id], log'[id]>> \in ProtocolSteps
             \/ crashes > 0 /\ log'[id] = "INIT"]_vars
  BY BaseStep, ProtocolStep DEF PayBase
<1>2. PaySpec => []IndInv
  BY Composition, Inductive, PTL
<1>3. QED
  BY <1>1, <1>2, BaseInv, PTL DEF PaySpec, LogFollowsProtocol

\* A worker commits or rolls back only the prepared transaction of the
\* request it handles, for any workers, requests, faults and crashes, as long
\* as no id is given twice (db_participant.c names it by a gid made of
\* request_id and second).
THEOREM OwnTransaction == DistinctIds => (PaySpec => OwnTransactionOnly)
<1> SUFFICES ASSUME DistinctIds PROVE PaySpec => OwnTransactionOnly
  OBVIOUS
<1>1. PayBase /\ [PayNext]_allVars =>
        [\A p \in prepared \ prepared' :
           \E t \in Threads : job[t] = p.job /\ Owns(t)
                              /\ (idx'[t] # idx[t])]_allVars
  BY OwnStep DEF PayBase
<1>2. PaySpec => []PayBase
  BY BaseInv
<1>3. QED
  BY <1>1, <1>2, PTL DEF PaySpec, OwnTransactionOnly
-----------------------------------------------------------------------------
(* Answers *)

\* A request in work has no answer yet, or, on the error paths, has been
\* declined; a reversal belongs to a declined request.
ReplyInv ==
  /\ \A t \in Threads : job[t] # NoJob =>
       reply[job[t]] = IF hs[t] = "failing" THEN "DECLINED" ELSE "none"
  /\ \A j \in Jobs : reply[j] = "APPROVED" => txnOf[j] # NoTxn
  /\ \A r \in reversals : r.id = txnOf[r.job] /\ reply[r.job] = "DECLINED"

\* No two workers have the same request.
LEMMA OneWorker ==
  ASSUME PayBase, NEW t \in Threads, NEW u \in Threads, job[t] # NoJob, job[t] = job[u]
  PROVE  t = u
<1>1. txnId[t] \in TxnIds /\ txnId[t] = txnId[u]
  BY DEF PayBase, OwnerInv, FlowInv, Flow
<1>2. QED
  BY <1>1 DEF PayBase, OwnIds

\* What a worker's step does to the answers.
LEMMA ReplyCases ==
  ASSUME PayBase, NEW t \in Threads, WorkerStep(t)
  PROVE  \/ /\ UNCHANGED <<reply, reversals>>
            /\ \/ hs'[t] # "failing" /\ hs[t] # "failing"
               \/ hs'[t] = "failing" /\ hs[t] = "failing"
               \/ job'[t] = NoJob
         \/ \E j \in Jobs : AcceptRefused(t, j)
         \/ Fail(t) \/ Approve(t) \/ Decline(t)
<1>0. hs \in [Threads -> Steps] /\ job \in [Threads -> Jobs \cup {NoJob}]
  BY DEF PayBase, PayTypeOK
<1> USE DEF client, handler, outside, payVars, Step
<1>1. ASSUME NEW j \in Jobs, Accept(t, j)
      PROVE  UNCHANGED <<reply, reversals>> /\ hs'[t] # "failing" /\ hs[t] # "failing"
  BY <1>0, <1>1 DEF Accept
<1>2. CASE InitParticipants(t) \/ RegisterParticipant(t) \/ DbBegin(t) \/ Insert(t)
  BY <1>0, <1>2 DEF InitParticipants, RegisterParticipant, DbBegin, Insert
<1>3. CASE CoordinatorStep(t) \/ FailAbort(t) \/ FailAbortDb(t) \/ FailAbortClearing(t)
  BY <1>3 DEF CoordinatorStep, FailAbort, FailAbortDb, FailAbortClearing
<1>4. CASE Callback(t)
  BY <1>4 DEF Callback, DbPrepare, ClearingPrepare, DbCommit, ClearingCommit, AbortDb,
              AbortClearing
<1>5. CASE FailReturn(t)
  BY <1>0, <1>5 DEF FailReturn
<1>6. QED
  BY <1>1, <1>2, <1>3, <1>4, <1>5 DEF WorkerStep, Work, Setup, Ending

LEMMA ReplyStep == PayBase /\ ReplyInv /\ [PayNext]_allVars => ReplyInv'
<1> SUFFICES ASSUME PayBase, ReplyInv, [PayNext]_allVars PROVE ReplyInv'
  OBVIOUS
<1>0. /\ txnOf \in [Jobs -> TxnIds \cup {NoTxn}] /\ job \in [Threads -> Jobs \cup {NoJob}]
      /\ reply \in [Jobs -> {"none", "APPROVED", "DECLINED"}]
      /\ hs \in [Threads -> Steps] /\ NoTxn \notin TxnIds /\ NoJob \notin Jobs
      /\ \A u \in Threads : job[u] # NoJob => job[u] \in Jobs /\ txnOf[job[u]] \in TxnIds
      /\ \A r \in reversals : r.id \in TxnIds /\ r.job \in Jobs
  BY ThreadsAssumption, PaymentAssumption DEF PayBase, PayTypeOK, FlowInv, Flow, OwnerInv
<1>1. ASSUME NEW t \in Threads, WorkerStep(t) PROVE ReplyInv'
  <2>0. PayTypeOK /\ IndInv /\ \A u \in Threads : u # t => Same(u)
    BY <1>1, Others DEF PayBase
  <2>1. \A k \in Jobs : txnOf[k] # NoTxn => txnOf'[k] = txnOf[k]
    BY <1>0, <1>1, <2>0, JobCases DEF Accept
  <2>2. CASE UNCHANGED <<reply, reversals>>
             /\ \/ hs'[t] # "failing" /\ hs[t] # "failing"
                \/ hs'[t] = "failing" /\ hs[t] = "failing"
                \/ job'[t] = NoJob
    <3>1. ASSUME NEW u \in Threads, job'[u] # NoJob
          PROVE  reply'[job'[u]] = IF hs'[u] = "failing" THEN "DECLINED" ELSE "none"
      <4>1. CASE u # t
        BY <2>0, <2>2, <3>1, <4>1 DEF Same, ReplyInv
      <4>2. CASE u = t
        <5>1. ASSUME NEW j \in Jobs, Accept(t, j) PROVE reply'[j] = "none" /\ job'[t] = j
          BY <1>0, <2>2, <5>1 DEF Accept
        <5>2. CASE job'[t] = job[t]
          BY <2>2, <3>1, <4>2, <5>2 DEF ReplyInv
        <5>3. ASSUME NEW j \in Jobs, Accept(t, j) PROVE hs'[t] # "failing"
          BY <1>0, <5>3 DEF Accept, Step
        <5>4. QED
          BY <1>1, <2>0, <3>1, <4>2, <5>1, <5>2, <5>3, JobCases
      <4>3. QED
        BY <4>1, <4>2
    <3>2. \A j \in Jobs : reply'[j] = "APPROVED" => txnOf'[j] # NoTxn
      BY <2>1, <2>2 DEF ReplyInv
    <3>3. \A r \in reversals' : r.id = txnOf'[r.job] /\ reply'[r.job] = "DECLINED"
      BY <1>0, <2>1, <2>2 DEF ReplyInv
    <3>4. QED
      BY <3>1, <3>2, <3>3 DEF ReplyInv
  <2>3. ASSUME NEW j \in Jobs, AcceptRefused(t, j) PROVE ReplyInv'
    <3>1. /\ txnOf[j] = NoTxn /\ reply' = [reply EXCEPT ![j] = "DECLINED"]
          /\ UNCHANGED <<txnOf, hs, job, reversals>>
      BY <2>3 DEF AcceptRefused, handler, outside
    <3>2. \A u \in Threads : job[u] # NoJob => job[u] # j
      BY <1>0, <3>1
    <3>3. \A r \in reversals : r.job # j
      BY <1>0, <3>1 DEF ReplyInv
    <3>4. QED
      BY <1>0, <3>1, <3>2, <3>3 DEF ReplyInv
  <2>4. CASE Fail(t)
    <3>1. /\ reply' = [reply EXCEPT ![job[t]] = "DECLINED"] /\ hs'[t] = "failing"
          /\ UNCHANGED <<txnOf, job, reversals>> /\ hs[t] \in {"init", "begin", "insert"}
          /\ \A u \in Threads : u # t => hs'[u] = hs[u]
      BY <1>0, <2>4 DEF Fail, Answer, Step, outside
    <3>2. job[t] \in Jobs
      BY <1>0, <3>1 DEF PayBase, FlowInv, Flow
    <3>3. \A u \in Threads : u # t /\ job[u] # NoJob => job[u] # job[t]
      BY OneWorker
    <3>4. \A u \in Threads : job'[u] # NoJob =>
            reply'[job'[u]] = IF hs'[u] = "failing" THEN "DECLINED" ELSE "none"
      BY <1>0, <3>1, <3>2, <3>3 DEF ReplyInv
    <3>5. \A r \in reversals' : r.id = txnOf'[r.job] /\ reply'[r.job] = "DECLINED"
      BY <1>0, <3>1, <3>2 DEF ReplyInv
    <3>6. \A k \in Jobs : reply'[k] = "APPROVED" => txnOf'[k] # NoTxn
      BY <1>0, <3>1, <3>2 DEF ReplyInv
    <3>7. QED
      BY <3>4, <3>5, <3>6 DEF ReplyInv
  <2>5. CASE Approve(t) \/ Decline(t)
    <3>1. /\ hs[t] = "commit" /\ UNCHANGED txnOf /\ job' = [job EXCEPT ![t] = NoJob]
          /\ hs' = [hs EXCEPT ![t] = "idle"]
          /\ \/ /\ reply' = [reply EXCEPT ![job[t]] = "APPROVED"] /\ UNCHANGED reversals
             \/ /\ reply' = [reply EXCEPT ![job[t]] = "DECLINED"]
                /\ \/ UNCHANGED reversals
                   \/ reversals' = reversals \cup {[id |-> txnId[t], job |-> job[t]]}
      BY <2>5 DEF Approve, Decline, Enqueue, Answer, Step, outside
    <3>2. job[t] \in Jobs /\ txnOf[job[t]] = txnId[t] /\ txnId[t] \in TxnIds
          /\ reply[job[t]] = "none"
      BY <1>0, <3>1 DEF PayBase, FlowInv, Flow, OwnerInv, ReplyInv
    <3>3. \A u \in Threads : u # t /\ job[u] # NoJob => job[u] # job[t]
      BY OneWorker
    <3>4. \A u \in Threads : job'[u] # NoJob =>
            reply'[job'[u]] = IF hs'[u] = "failing" THEN "DECLINED" ELSE "none"
      BY <1>0, <3>1, <3>2, <3>3 DEF ReplyInv
    <3>5. \A r \in reversals : r.job # job[t]
      BY <3>2 DEF ReplyInv
    <3>6. \A r \in reversals' : r.id = txnOf'[r.job] /\ reply'[r.job] = "DECLINED"
      BY <1>0, <3>1, <3>2, <3>5 DEF ReplyInv
    <3>7. \A k \in Jobs : reply'[k] = "APPROVED" => txnOf'[k] # NoTxn
      BY <1>0, <3>1, <3>2 DEF ReplyInv
    <3>8. QED
      BY <3>4, <3>6, <3>7 DEF ReplyInv
  <2>6. QED
    BY <1>1, <2>2, <2>3, <2>4, <2>5, ReplyCases
<1>2. CASE (\E t \in Threads : ConnectionLost(t)) \/ ReversalRun \/ Tick \/ UNCHANGED allVars
  <2>1. UNCHANGED <<txnOf, job, hs, reply>> /\ reversals' \subseteq reversals
    BY <1>2 DEF ConnectionLost, ReversalRun, Tick, allVars, payVars, handler, client, outside
  <2>2. QED
    BY <2>1 DEF ReplyInv
<1>3. CASE PayCrash
  <2>1. UNCHANGED <<txnOf, reply>> /\ reversals' = {} /\ \A u \in Threads : job'[u] = NoJob
    BY <1>3 DEF PayCrash, client
  <2>2. QED
    BY <2>1 DEF ReplyInv
<1>4. QED
  BY <1>1, <1>2, <1>3, StepCases
-----------------------------------------------------------------------------
(* Sessions *)

OwnConnections == "connect" \notin Faults

\* From the first registration on a worker uses its own connection, and a
\* session without an open transaction has no rows waiting.
SessionInv ==
  \A t \in Threads :
    /\ conn[t] \in {t, Bootstrap}
    /\ hs[t] \in {"register", "begin", "insert", "commit"} => conn[t] = t
    /\ sess[t] # "txn" => pend[t] = {}

\* What a worker's step does to the sessions: its own is touched, and only
\* DbBegin opens a transaction; what ends one drops its rows.
LEMMA SessionCases ==
  ASSUME PayTypeOK, NEW t \in Threads, WorkerStep(t)
  PROVE  \/ UNCHANGED <<sess, pend, conn>>
         \/ InitParticipants(t)
         \/ /\ UNCHANGED conn
            /\ \/ DbBegin(t)
               \/ Insert(t)
               \/ /\ \E v : v # "txn" /\ sess' = [sess EXCEPT ![conn[t]] = v]
                  /\ pend' = [pend EXCEPT ![conn[t]] = {}]
               \/ /\ sess[conn[t]] # "txn"
                  /\ \E v : v # "txn" /\ sess' = [sess EXCEPT ![conn[t]] = v]
                  /\ UNCHANGED pend
<1> USE DEF client, handler, context, postgres, outside, payVars
<1>1. ASSUME NEW j \in Jobs, Accept(t, j) \/ AcceptRefused(t, j)
      PROVE  UNCHANGED <<sess, pend, conn>>
  BY <1>1 DEF Accept, AcceptRefused
<1>2. CASE RegisterParticipant(t)
  BY <1>2 DEF RegisterParticipant
<1>3. CASE DbBegin(t) \/ Insert(t)
  BY <1>3 DEF DbBegin, Insert
<1>4. CASE Fail(t)
  BY <1>4 DEF Fail, PgRollback
<1>5. CASE CoordinatorStep(t) \/ FailAbort(t) \/ Approve(t) \/ Decline(t) \/ FailReturn(t)
           \/ FailAbortClearing(t) \/ AbortClearing(t)
  BY <1>5 DEF CoordinatorStep, FailAbort, Approve, Decline, FailReturn, FailAbortClearing,
              AbortClearing
<1>6. ASSUME NEW ok \in BOOLEAN, ClearingPrepare(t, ok) \/ ClearingCommit(t, ok)
      PROVE  UNCHANGED <<sess, pend, conn>>
  BY <1>6 DEF ClearingPrepare, ClearingCommit
<1>7. ASSUME NEW ok \in BOOLEAN, DbPrepare(t, ok)
      PROVE  /\ UNCHANGED conn
             /\ \/ UNCHANGED <<sess, pend>>
                \/ /\ \E v : v # "txn" /\ sess' = [sess EXCEPT ![conn[t]] = v]
                   /\ pend' = [pend EXCEPT ![conn[t]] = {}]
  BY <1>7 DEF DbPrepare, PgPrepare, PgRollback
<1>8. ASSUME NEW ok \in BOOLEAN, DbCommit(t, ok)
      PROVE  /\ UNCHANGED conn
             /\ \/ UNCHANGED <<sess, pend>>
                \/ /\ \E v : v # "txn" /\ sess' = [sess EXCEPT ![conn[t]] = v]
                   /\ pend' = [pend EXCEPT ![conn[t]] = {}]
                \/ /\ sess[conn[t]] # "txn"
                   /\ \E v : v # "txn" /\ sess' = [sess EXCEPT ![conn[t]] = v]
                   /\ UNCHANGED pend
  BY <1>8 DEF DbCommit, PgCommitPrepared, PgError
<1>9. CASE AbortDb(t)
  BY <1>9 DEF AbortDb, DbAbort, PgRollback, PgRollbackPrepared, PgError
<1>10. CASE FailAbortDb(t)
  BY <1>10 DEF FailAbortDb, PgRollbackPrepared, PgError
<1>11. QED
  BY <1>1, <1>2, <1>3, <1>4, <1>5, <1>6, <1>7, <1>8, <1>9, <1>10
     DEF WorkerStep, Work, Setup, Callback, Ending

LEMMA OtherSessions ==
  ASSUME PayTypeOK, SessionInv, NEW t \in Threads, WorkerStep(t), NEW u \in Threads, u # t
  PROVE  sess'[u] = sess[u] /\ pend'[u] = pend[u]
<1>1. /\ sess \in [Sessions -> {"none", "idle", "txn", "failed", "broken"}]
      /\ pend \in [Sessions -> SUBSET Jobs] /\ u \in Sessions /\ conn[t] # u
  BY PaymentAssumption DEF PayTypeOK, Sessions, SessionInv
<1>2. CASE InitParticipants(t)
  BY <1>1, <1>2 DEF InitParticipants, ThreadGet, Connect
<1>3. CASE DbBegin(t) \/ Insert(t)
  BY <1>1, <1>3 DEF DbBegin, Insert
<1>4. QED
  BY <1>1, <1>2, <1>3, SessionCases

\* No worker is refused its connection: because it never happens, or because
\* it has not happened yet.
LEMMA SessionStep ==
  /\ PayTypeOK /\ SessionInv /\ (OwnConnections \/ "connect" \notin faulted')
  /\ [PayNext]_allVars
  => SessionInv'
<1> SUFFICES ASSUME PayTypeOK, SessionInv, OwnConnections \/ "connect" \notin faulted',
                    [PayNext]_allVars, NEW u \in Threads
             PROVE  /\ conn'[u] \in {u, Bootstrap}
                    /\ hs'[u] \in {"register", "begin", "insert", "commit"} => conn'[u] = u
                    /\ sess'[u] # "txn" => pend'[u] = {}
  BY DEF SessionInv
<1>0. /\ sess \in [Sessions -> {"none", "idle", "txn", "failed", "broken"}]
      /\ pend \in [Sessions -> SUBSET Jobs] /\ u \in Sessions
      /\ conn \in [Threads -> Sessions] /\ hs \in [Threads -> Steps]
      /\ Bootstrap \notin Threads
      /\ conn[u] \in {u, Bootstrap}
      /\ hs[u] \in {"register", "begin", "insert", "commit"} => conn[u] = u
      /\ sess[u] # "txn" => pend[u] = {}
  BY PaymentAssumption DEF PayTypeOK, Sessions, SessionInv
<1>1. ASSUME NEW t \in Threads, WorkerStep(t), u # t
      PROVE  /\ conn'[u] \in {u, Bootstrap}
             /\ hs'[u] \in {"register", "begin", "insert", "commit"} => conn'[u] = u
             /\ sess'[u] # "txn" => pend'[u] = {}
  BY <1>0, <1>1, Others, OtherSessions DEF Same
<1>2. CASE InitParticipants(u)
  <2>1. conn'[u] = u
    BY <1>0, <1>2 DEF InitParticipants, ThreadGet, Connect, Fault, OwnConnections
  <2>2. pend'[u] = pend[u] /\ (sess'[u] = sess[u] \/ sess[u] = "none")
    BY <1>0, <1>2 DEF InitParticipants, ThreadGet, Connect
  <2>3. QED
    BY <1>0, <2>1, <2>2
<1>3. CASE WorkerStep(u) /\ UNCHANGED conn
  <2>1. hs'[u] \in {"register", "begin", "insert", "commit"} => conn[u] = u
    <3>1. hs'[u] \in {"register", "begin", "insert", "commit"} =>
            hs[u] \in {"register", "begin", "insert", "commit"} \/ InitParticipants(u)
      <4> USE DEF handler, payVars, Step
      <4>1. ASSUME NEW j \in Jobs, Accept(u, j) \/ AcceptRefused(u, j)
            PROVE  hs'[u] \in {"init", "idle"}
        BY <1>0, <4>1 DEF Accept, AcceptRefused
      <4>2. CASE RegisterParticipant(u) \/ DbBegin(u) \/ Insert(u) \/ Fail(u)
        BY <1>0, <4>2 DEF RegisterParticipant, DbBegin, Insert, Fail
      <4>3. CASE Callback(u) \/ CoordinatorStep(u)
        BY <4>3 DEF Callback, DbPrepare, ClearingPrepare, DbCommit, ClearingCommit, AbortDb,
                    AbortClearing, CoordinatorStep
      <4>4. CASE Ending(u)
        BY <1>0, <4>4 DEF Ending, Approve, Decline, FailAbort, FailAbortDb,
                          FailAbortClearing, FailReturn
      <4>5. QED
        BY <1>3, <4>1, <4>2, <4>3, <4>4 DEF WorkerStep, Work, Setup
    <3>2. QED
      BY <1>0, <1>2, <1>3, <3>1
  <2>2. sess'[u] # "txn" => pend'[u] = {}
    <3>1. CASE DbBegin(u) \/ Insert(u)
      BY <1>0, <3>1 DEF DbBegin, Insert
    <3>2. CASE InitParticipants(u)
      BY <1>2, <3>2
    <3>3. QED
      BY <1>0, <1>3, <3>1, <3>2, SessionCases
  <2>3. QED
    BY <1>0, <1>3, <2>1, <2>2
<1>4. ASSUME NEW t \in Threads, ConnectionLost(t)
      PROVE  /\ conn'[u] \in {u, Bootstrap}
             /\ hs'[u] \in {"register", "begin", "insert", "commit"} => conn'[u] = u
             /\ sess'[u] # "txn" => pend'[u] = {}
  BY <1>0, <1>4 DEF ConnectionLost, context, handler, Sessions
<1>5. CASE ReversalRun \/ Tick \/ UNCHANGED allVars
  BY <1>0, <1>5 DEF ReversalRun, Tick, allVars, payVars, context, handler, postgres
<1>6. CASE PayCrash
  BY <1>0, <1>6 DEF PayCrash
<1>7. QED
  BY <1>1, <1>2, <1>3, <1>4, <1>5, <1>6, StepCases, SessionCases DEF DbBegin, Insert
-----------------------------------------------------------------------------
(* An approved request is booked *)

\* A set of rows has one for the request: its own or one of an earlier
\* request with the same request_id.
Booked(j, set) == \E k \in set : k = j \/ (ReqOf[k] = ReqOf[j] /\ ReqOf[j] # NoReq)

\* What a worker in txn_commit has got done so far.
Progress(t) ==
  hs[t] = "commit" =>
    /\ sess[t] = "txn" => Booked(job[t], rows \cup pend[t])
    /\ part[t][1] = "COMMITTED" => Booked(job[t], rows)
    /\ part[t][2] = "COMMITTED" => clearing[txnId[t]] = "settled"

BookInv ==
  /\ \A p \in prepared : Booked(p.job, rows \cup p.rows)
  /\ \A t \in Threads : Progress(t)
  /\ ApprovedIsBooked

LEMMA BookedMore ==
  ASSUME NEW j, NEW S, NEW T, S \subseteq T, Booked(j, S) PROVE Booked(j, T)
BY DEF Booked

\* Rows are never deleted.
LEMMA RowsGrow ==
  ASSUME [PayNext]_allVars PROVE rows \subseteq rows'
<1> USE DEF client, handler, context, postgres, outside, payVars
<1>1. ASSUME NEW t \in Threads, WorkerStep(t) PROVE rows \subseteq rows'
  <2>1. ASSUME NEW j \in Jobs, Accept(t, j) \/ AcceptRefused(t, j) PROVE UNCHANGED rows
    BY <2>1 DEF Accept, AcceptRefused
  <2>2. CASE Setup(t)
    BY <2>2 DEF Setup, InitParticipants, RegisterParticipant, DbBegin, Insert, Fail
  <2>3. CASE CoordinatorStep(t) \/ Ending(t)
    BY <2>3 DEF CoordinatorStep, Ending, Approve, Decline, FailAbort, FailAbortDb,
                FailAbortClearing, FailReturn
  <2>4. CASE Callback(t)
    BY <2>4 DEF Callback, DbPrepare, ClearingPrepare, DbCommit, PgCommitPrepared,
                ClearingCommit, AbortDb, AbortClearing
  <2>5. QED
    BY <1>1, <2>1, <2>2, <2>3, <2>4 DEF WorkerStep, Work
<1>2. CASE (\E t \in Threads : ConnectionLost(t)) \/ ReversalRun \/ Tick \/ PayCrash
           \/ UNCHANGED allVars
  BY <1>2 DEF ConnectionLost, ReversalRun, Tick, PayCrash, allVars
<1>3. QED
  BY <1>1, <1>2, StepCases

\* The worker's own progress.
LEMMA ProgressOwn ==
  ASSUME PayBase, SessionInv, BookInv, NEW t \in Threads, WorkerStep(t)
  PROVE  Progress(t)'
<1> SUFFICES ASSUME hs'[t] = "commit"
             PROVE  /\ sess'[t] = "txn" => Booked(job'[t], rows' \cup pend'[t])
                    /\ part'[t][1] = "COMMITTED" => Booked(job'[t], rows')
                    /\ part'[t][2] = "COMMITTED" => clearing'[txnId'[t]] = "settled"
  BY DEF Progress
<1> DEFINE Goal == /\ sess'[t] = "txn" => Booked(job'[t], rows' \cup pend'[t])
                   /\ part'[t][1] = "COMMITTED" => Booked(job'[t], rows')
                   /\ part'[t][2] = "COMMITTED" => clearing'[txnId'[t]] = "settled"
<1>0. /\ IndInv /\ PayTypeOK /\ FlowInv /\ Progress(t)
      /\ hs \in [Threads -> Steps] /\ job \in [Threads -> Jobs \cup {NoJob}]
      /\ sess \in [Sessions -> {"none", "idle", "txn", "failed", "broken"}]
      /\ pend \in [Sessions -> SUBSET Jobs] /\ t \in Sessions
      /\ clearing \in [TxnIds -> {"none", "held", "settled", "released"}]
      /\ hs[t] = "commit" => conn[t] = t /\ job[t] \in Jobs /\ txnId[t] \in TxnIds
                             /\ Len(part[t]) = 2
  BY DEF PayBase, PayTypeOK, Sessions, SessionInv, BookInv, FlowInv, Flow
<1> USE DEF client, handler, context, postgres, outside, payVars
<1>1. CASE Insert(t)
  <2>1. /\ hs[t] = "insert" /\ UNCHANGED <<job, part, sess, pc>>
    BY <1>1 DEF Insert, vars, object, thread
  <2>2. conn[t] = t /\ job[t] \in Jobs /\ pc[t] = "open" /\ Len(part[t]) = 2
    BY <1>0, <2>1 DEF SessionInv, FlowInv, Flow
  <2>3. part'[t][1] = "INIT" /\ part'[t][2] = "INIT"
    BY <1>0, <2>1, <2>2, TwoCells
  <2>4. Booked(job[t], rows \cup pend[t] \cup NewRow(t))
    BY <2>2 DEF NewRow, Exists, SameRequest, Booked
  <2>5. sess'[t] = "txn" => rows' \cup pend'[t] = rows \cup pend[t] \cup NewRow(t)
    BY <1>0, <1>1, <2>1, <2>2 DEF Insert
  <2>6. QED
    BY <2>1, <2>3, <2>4, <2>5
<1>2. CASE CoordinatorStep(t)
  <2>1. UNCHANGED <<hs, sess, job, rows, pend, part, clearing, txnId>>
    BY <1>2 DEF CoordinatorStep, CommitCall, AllPrepared, CommitStart, Committed, AbortStart,
                Aborted, ReportAborted, object
  <2>2. QED
    BY <1>0, <2>1 DEF Progress
<1>3. ASSUME NEW ok \in BOOLEAN, DbPrepare(t, ok) PROVE Goal
  <2>1. /\ hs[t] = "commit" /\ part'[t][1] # "COMMITTED" /\ part'[t][2] # "COMMITTED"
    BY <1>0, <1>3, PrepareEffect DEF DbPrepare, CallbackAt
  <2>2. sess'[t] = "txn" => UNCHANGED <<sess, pend>>
    BY <1>0, <1>3, <2>1 DEF DbPrepare, PgRollback
  <2>3. UNCHANGED <<job, rows>>
    BY <1>3 DEF DbPrepare
  <2>4. QED
    BY <1>0, <2>1, <2>2, <2>3 DEF Progress
<1>4. ASSUME NEW ok \in BOOLEAN, ClearingPrepare(t, ok) PROVE Goal
  <2>1. /\ hs[t] = "commit" /\ part'[t][1] # "COMMITTED" /\ part'[t][2] # "COMMITTED"
    BY <1>0, <1>4, PrepareEffect DEF ClearingPrepare, CallbackAt
  <2>2. UNCHANGED <<sess, pend, job, rows>>
    BY <1>4 DEF ClearingPrepare
  <2>3. QED
    BY <1>0, <2>1, <2>2 DEF Progress
<1>5. ASSUME NEW ok \in BOOLEAN, DbCommit(t, ok) PROVE Goal
  <2>1. /\ hs[t] = "commit" /\ part'[t][2] # "COMMITTED"
        /\ part'[t][1] = IF ok THEN "COMMITTED" ELSE "FAILED"
    BY <1>0, <1>5, CommitEffect DEF DbCommit, CallbackAt
  <2>2. UNCHANGED job
    BY <1>5 DEF DbCommit
  <2>3. sess'[t] # "txn"
    BY <1>0, <1>5, <2>1 DEF DbCommit, PgCommitPrepared, PgError
  <2>4. ASSUME ok PROVE Booked(job[t], rows')
    <3>1. PICK p \in prepared : p.gid = txnId[t] /\ rows' = rows \cup p.rows
      BY <1>5, <2>4 DEF DbCommit, PgCommitPrepared, WithGid
    <3>2. p.job = job[t]
      BY <1>0, <2>1, <3>1, ThreadsAssumption DEF PayBase, OwnerInv, PayTypeOK, FlowInv, Flow
    <3>3. QED
      BY <3>1, <3>2 DEF BookInv
  <2>5. QED
    BY <2>1, <2>2, <2>3, <2>4
<1>6. ASSUME NEW ok \in BOOLEAN, ClearingCommit(t, ok) PROVE Goal
  <2>1. /\ hs[t] = "commit" /\ part'[t][1] = part[t][1] /\ txnId'[t] = txnId[t]
        /\ part'[t][2] = IF ok THEN "COMMITTED" ELSE "FAILED"
    BY <1>0, <1>6, CommitEffect DEF ClearingCommit, CallbackAt
  <2>2. UNCHANGED <<sess, pend, job, rows>>
    BY <1>6 DEF ClearingCommit
  <2>3. ok => clearing'[txnId[t]] = "settled"
    BY <1>0, <1>6, <2>1 DEF ClearingCommit, ClearingSettle
  <2>4. QED
    BY <1>0, <2>1, <2>2, <2>3 DEF Progress
<1>7. CASE AbortDb(t)
  <2>1. /\ hs[t] = "commit" /\ part'[t][2] = part[t][2] /\ txnId'[t] = txnId[t]
        /\ part'[t][1] = "COMMITTED" => part[t][1] = "COMMITTED"
    BY <1>0, <1>7, AbortEffect DEF AbortDb, CallbackAt
  <2>2. UNCHANGED <<job, rows, clearing>>
    BY <1>7 DEF AbortDb
  <2>3. sess'[t] = "txn" => sess[t] = "txn" /\ pend'[t] = pend[t]
    BY <1>0, <1>7, <2>1 DEF AbortDb, DbAbort, PgRollback, PgRollbackPrepared, PgError
  <2>4. QED
    BY <1>0, <2>1, <2>2, <2>3 DEF Progress
<1>8. CASE AbortClearing(t)
  <2>1. /\ hs[t] = "commit" /\ part'[t][1] = part[t][1] /\ txnId'[t] = txnId[t]
        /\ part'[t][2] = "COMMITTED" => part[t][2] = "COMMITTED" /\ ~MustAbort(t)
    BY <1>0, <1>8, AbortEffect DEF AbortClearing, CallbackAt
  <2>2. UNCHANGED <<sess, pend, job, rows>>
    BY <1>8 DEF AbortClearing
  <2>3. ~MustAbort(t) => UNCHANGED clearing
    BY <1>8 DEF AbortClearing
  <2>4. QED
    BY <1>0, <2>1, <2>2, <2>3 DEF Progress
<1>9. ASSUME NEW j \in Jobs, Accept(t, j) \/ AcceptRefused(t, j) PROVE hs'[t] # "commit"
  BY <1>0, <1>9 DEF Accept, AcceptRefused, Step
<1>10. CASE InitParticipants(t) \/ RegisterParticipant(t) \/ DbBegin(t) \/ Fail(t)
            \/ Approve(t) \/ Decline(t) \/ FailReturn(t)
  BY <1>0, <1>10 DEF InitParticipants, RegisterParticipant, DbBegin, Fail, Approve, Decline,
                     FailReturn, Step
<1>11. CASE FailAbort(t) \/ FailAbortDb(t) \/ FailAbortClearing(t)
  <2>1. UNCHANGED hs
    BY <1>11 DEF FailAbort, FailAbortDb, FailAbortClearing
  <2>2. hs[t] = "failing"
    BY <1>0, <1>11 DEF FailAbort, FailAbortDb, FailAbortClearing, AbortEach, FlowInv, Flow, Steps
  <2>3. QED
    BY <2>1, <2>2
<1>12. QED
  BY <1>1, <1>2, <1>3, <1>4, <1>5, <1>6, <1>7, <1>8, <1>9, <1>10, <1>11
     DEF WorkerStep, Work, Setup, Callback, Ending

\* The ids of two workers differ, before and after a step of one of them.
LEMMA OtherId ==
  ASSUME PayBase, PayBase', NEW t \in Threads, WorkerStep(t), NEW u \in Threads, u # t,
         job[u] # NoJob
  PROVE  txnId[u] \in TxnIds /\ txnId[u] # txnId[t] /\ txnId[u] # txnId'[t]
<1>1. txnId[u] \in TxnIds /\ txnId'[u] = txnId[u]
  BY Others DEF PayBase, FlowInv, Flow, Same
<1>2. QED
  BY <1>1 DEF PayBase, OwnIds

\* A request that is answered APPROVED is no other worker's business.
LEMMA ApprovedStays ==
  ASSUME PayBase, ReplyInv, NEW t \in Threads, WorkerStep(t),
         NEW j \in Jobs, reply[j] = "APPROVED"
  PROVE  txnOf'[j] = txnOf[j] /\ clearing'[txnOf[j]] = clearing[txnOf[j]]
<1>0. /\ PayTypeOK /\ IndInv /\ FlowInv
      /\ txnOf \in [Jobs -> TxnIds \cup {NoTxn}] /\ txnOf[j] \in TxnIds
      /\ clearing \in [TxnIds -> {"none", "held", "settled", "released"}]
  BY DEF PayBase, PayTypeOK, ReplyInv
<1>1. txnOf'[j] = txnOf[j]
  BY <1>0, JobCases DEF Accept
<1>2. hs[t] \in {"commit", "failing"} => txnId[t] # txnOf[j]
  <2> SUFFICES ASSUME hs[t] \in {"commit", "failing"}, txnId[t] = txnOf[j] PROVE FALSE
    OBVIOUS
  <2>1. job[t] \in Jobs /\ txnOf[job[t]] = txnId[t] /\ reply[job[t]] # "APPROVED"
    BY <1>0 DEF FlowInv, Flow, PayTypeOK, PayBase, OwnerInv, ReplyInv
  <2>2. QED
    BY <1>0, <2>1, ThreadsAssumption DEF PayBase, OwnerInv
<1>3. QED
  BY <1>0, <1>1, <1>2, ClearingCases

LEMMA BookWorker ==
  ASSUME PayBase, PayBase', SessionInv, ReplyInv, BookInv, [PayNext]_allVars,
         NEW t \in Threads, WorkerStep(t)
  PROVE  BookInv'
<1>0. /\ PayTypeOK /\ IndInv /\ StateInv /\ FlowInv /\ rows \subseteq rows'
      /\ reply \in [Jobs -> {"none", "APPROVED", "DECLINED"}]
  BY RowsGrow DEF PayBase, PayTypeOK
<1>1. \A p \in prepared' : Booked(p.job, rows' \cup p.rows)
  <2>1. \A p \in prepared : Booked(p.job, rows' \cup p.rows)
    BY <1>0 DEF BookInv, Booked
  <2>2. ASSUME sess[conn[t]] = "txn", hs[t] = "commit"
        PROVE  Booked(job[t], rows' \cup pend[conn[t]])
    BY <1>0, <2>2 DEF BookInv, Progress, SessionInv, Booked
  <2> DEFINE new == [gid |-> txnId[t], job |-> job[t], rows |-> pend[conn[t]]]
  <2>3. new.job = job[t] /\ new.rows = pend[conn[t]]
    OBVIOUS
  <2>4. \/ prepared' \subseteq prepared
        \/ prepared' = prepared \cup {new} /\ sess[conn[t]] = "txn" /\ hs[t] = "commit"
    BY <1>0, PreparedCases
  <2> HIDE DEF new
  <2>5. QED
    BY <2>1, <2>2, <2>3, <2>4
<1>2. ASSUME NEW u \in Threads PROVE Progress(u)'
  <2>1. CASE u = t
    BY <2>1, ProgressOwn
  <2>2. CASE u # t
    <3>1. Same(u) /\ sess'[u] = sess[u] /\ pend'[u] = pend[u] /\ Progress(u)
      BY <1>0, <2>2, Others, OtherSessions DEF BookInv
    <3>2. hs[u] = "commit" => clearing'[txnId[u]] = clearing[txnId[u]]
      <4>1. hs[u] = "commit" => job[u] # NoJob
        BY <1>0 DEF FlowInv, Flow
      <4>2. QED
        BY <1>0, <2>2, <4>1, OtherId, OtherIds
    <3>3. QED
      BY <1>0, <3>1, <3>2 DEF Same, Progress, Booked
  <2>3. QED
    BY <2>1, <2>2
<1>3. ASSUME NEW j \in Jobs, reply'[j] = "APPROVED"
      PROVE  Booked(j, rows') /\ clearing'[txnOf'[j]] = "settled"
  <2>1. CASE reply[j] = "APPROVED"
    <3>1. Booked(j, rows) /\ clearing[txnOf[j]] = "settled"
      BY <2>1 DEF BookInv, ApprovedIsBooked, Booked
    <3>2. QED
      BY <1>0, <2>1, <3>1, ApprovedStays, BookedMore
  <2>2. CASE reply[j] # "APPROVED"
    <3>1. Approve(t) /\ job[t] = j
      <4>1. ASSUME NEW k \in Jobs, AcceptRefused(t, k) PROVE FALSE
        BY <1>0, <1>3, <2>2, <4>1 DEF AcceptRefused
      <4>2. ~(Fail(t) \/ Decline(t))
        BY <1>0, <1>3, <2>2 DEF Fail, Decline, Answer
      <4>3. Approve(t)
        BY <1>3, <2>2, <4>1, <4>2, ReplyCases
      <4>4. QED
        BY <1>0, <1>3, <2>2, <4>3 DEF Approve, Answer
    <3>2. /\ hs[t] = "commit" /\ ret[t] = "committed"
          /\ UNCHANGED <<rows, clearing, txnOf>>
      BY <3>1 DEF Approve, postgres, outside
    <3>3. part[t][1] = "COMMITTED" /\ part[t][2] = "COMMITTED" /\ txnOf[j] = txnId[t]
      <4>1. Len(part[t]) = 2 /\ job[t] # NoJob
        BY <1>0, <3>2 DEF FlowInv, Flow
      <4>2. QED
        BY <1>0, <3>1, <3>2, <4>1, TwoCells DEF PayBase, OwnerInv
    <3>4. QED
      BY <3>1, <3>2, <3>3 DEF BookInv, Progress
  <2>3. QED
    BY <2>1, <2>2
<1>4. QED
  BY <1>1, <1>2, <1>3 DEF BookInv, ApprovedIsBooked, Booked

LEMMA BookStep ==
  /\ PayBase /\ PayBase' /\ SessionInv /\ ReplyInv /\ BookInv /\ [PayNext]_allVars
  => BookInv'
<1> SUFFICES ASSUME PayBase, PayBase', SessionInv, ReplyInv, BookInv, [PayNext]_allVars
             PROVE  BookInv'
  OBVIOUS
<1>0. /\ clearing \in [TxnIds -> {"none", "held", "settled", "released"}]
      /\ sess \in [Sessions -> {"none", "idle", "txn", "failed", "broken"}]
      /\ Threads \subseteq Sessions /\ NoTxn \notin TxnIds
      /\ pend \in [Sessions -> SUBSET Jobs]
  BY ThreadsAssumption DEF PayBase, PayTypeOK, Sessions
<1>1. ASSUME NEW t \in Threads, WorkerStep(t) PROVE BookInv'
  BY <1>1, BookWorker
<1>2. ASSUME NEW t \in Threads, ConnectionLost(t) PROVE BookInv'
  <2>1. /\ UNCHANGED <<hs, job, rows, prepared, part, clearing, txnId, txnOf, reply>>
        /\ sess' = [sess EXCEPT ![t] = "broken"] /\ pend' = [pend EXCEPT ![t] = {}]
    BY <1>2 DEF ConnectionLost, handler, vars, object, client
  <2>2. \A u \in Threads : Progress(u)'
    BY <1>0, <2>1 DEF BookInv, Progress
  <2>3. QED
    BY <2>1, <2>2 DEF BookInv, ApprovedIsBooked
<1>3. CASE ReversalRun
  <2>1. UNCHANGED <<hs, job, rows, prepared, part, txnId, txnOf, reply, sess, pend>>
    BY <1>3 DEF ReversalRun, vars, object, handler, client, postgres
  <2>2. PICK r \in reversals : ClearingVoid(r.id)
    BY <1>3 DEF ReversalRun
  <2>3. /\ r.id \in TxnIds /\ r.job \in Jobs /\ r.id = txnOf[r.job]
        /\ reply[r.job] = "DECLINED"
    BY DEF PayBase, PayTypeOK, ReplyInv
  <2>4. \A id \in TxnIds : id # r.id => clearing'[id] = clearing[id]
    BY <1>0, <2>2 DEF ClearingVoid
  <2>5. ASSUME NEW u \in Threads, hs[u] = "commit" PROVE txnId[u] \in TxnIds /\ txnId[u] # r.id
    <3>1. job[u] \in Jobs /\ txnId[u] \in TxnIds /\ txnOf[job[u]] = txnId[u]
      BY <2>5 DEF PayBase, FlowInv, Flow, OwnerInv, PayTypeOK
    <3>2. reply[job[u]] = "none"
      BY <2>5, <3>1, PaymentAssumption DEF ReplyInv
    <3>3. QED
      BY <1>0, <2>3, <3>1, <3>2 DEF PayBase, OwnerInv
  <2>6. \A u \in Threads : Progress(u)'
    BY <2>1, <2>4, <2>5 DEF BookInv, Progress
  <2>7. ASSUME NEW j \in Jobs, reply[j] = "APPROVED"
        PROVE  clearing'[txnOf[j]] = clearing[txnOf[j]]
    <3>1. txnOf[j] \in TxnIds
      BY <2>7 DEF ReplyInv, PayBase, PayTypeOK
    <3>2. txnOf[j] # r.id
      BY <1>0, <2>3, <2>7, <3>1 DEF PayBase, OwnerInv
    <3>3. QED
      BY <2>4, <3>1, <3>2
  <2>8. QED
    BY <2>1, <2>6, <2>7 DEF BookInv, ApprovedIsBooked
<1>4. CASE Tick \/ UNCHANGED allVars
  <2>1. UNCHANGED <<hs, job, rows, prepared, part, clearing, txnId, txnOf, reply, sess, pend>>
    BY <1>4 DEF Tick, allVars, payVars, vars, object, handler, client, postgres, outside
  <2>2. QED
    BY <2>1 DEF BookInv, Progress, ApprovedIsBooked
<1>5. CASE PayCrash
  <2>1. UNCHANGED <<rows, prepared, clearing, txnOf, reply>>
        /\ \A u \in Threads : hs'[u] = "idle"
    BY <1>5 DEF PayCrash, client
  <2>2. QED
    BY <2>1 DEF BookInv, Progress, ApprovedIsBooked
<1>6. QED
  BY <1>1, <1>2, <1>3, <1>4, <1>5, StepCases

LEMMA SessionReplyInit == PayInit => SessionInv /\ ReplyInv
<1> SUFFICES ASSUME PayInit PROVE SessionInv /\ ReplyInv
  OBVIOUS
<1>1. /\ \A t \in Threads : conn[t] = Bootstrap /\ hs[t] = "idle" /\ job[t] = NoJob
                             /\ pend[t] = {}
      /\ \A j \in Jobs : reply[j] = "none"
      /\ prepared = {} /\ reversals = {}
  BY DEF PayInit, Sessions
<1>2. SessionInv
  BY <1>1 DEF SessionInv
<1>3. ReplyInv
  BY <1>1 DEF ReplyInv
<1>4. QED
  BY <1>2, <1>3

\* APPROVED is never a lie: whatever is lost, reversed, aborted or crashes,
\* an approved request has a committed row and a settled charge, for ever,
\* when no id is given twice and each worker has its own connection
\* (handler.c:495-522).
THEOREM ApprovalsAreBooked ==
  DistinctIds /\ OwnConnections => (PaySpec => []ApprovedIsBooked)
<1> SUFFICES ASSUME DistinctIds, OwnConnections PROVE PaySpec => []ApprovedIsBooked
  OBVIOUS
<1>1. PayInit => BookInv
  <2> SUFFICES ASSUME PayInit PROVE BookInv
    OBVIOUS
  <2>1. /\ \A t \in Threads : hs[t] = "idle"
        /\ \A j \in Jobs : reply[j] = "none"
        /\ prepared = {}
    BY DEF PayInit
  <2>2. \A t \in Threads : Progress(t)
    BY <2>1 DEF Progress
  <2>3. ApprovedIsBooked
    BY <2>1 DEF ApprovedIsBooked
  <2>4. QED
    BY <2>1, <2>2, <2>3 DEF BookInv
<1>2. PaySpec => []PayBase
  BY BaseInv
<1>3. PayBase => PayTypeOK
  BY DEF PayBase
<1>4. PayTypeOK /\ SessionInv /\ [PayNext]_allVars => SessionInv'
  BY SessionStep
<1>5. BookInv => ApprovedIsBooked
  BY DEF BookInv
<1>6. QED
  BY <1>1, <1>2, <1>3, <1>4, <1>5, SessionReplyInit, ReplyStep, BookStep, PTL DEF PaySpec
-----------------------------------------------------------------------------
(* As long as nothing is lost: what the coordinator believes of the two     *)
(* sides of a payment is so.                                                *)

Early == {"init", "register", "begin", "insert", "failing"}

Released(id) == clearing[id] \in {"none", "released"}

\* The order of the two participants: as long as the database has not been
\* asked, clearing has not, and txn_commit has not got beyond its first phase.
Order(t) ==
  hs[t] = "commit" /\ part[t][1] = "INIT" =>
    part[t][2] = "INIT" /\ pc[t] \in {"open", "prepare"}

OrderInv == \A t \in Threads : Order(t)

\* The coordinator's view of the database is right: what is prepared at the
\* server belongs to a participant that is PREPARED, or whose commit failed,
\* and a ROLLBACK PREPARED will find the session idle.
DbSide(t) ==
  /\ hs[t] = "insert" => dbIn[t] /\ sess[t] = "txn"
  /\ hs[t] = "commit" =>
       /\ part[t][1] = "INIT" => dbIn[t] /\ sess[t] = "txn"
       /\ part[t][1] = "FAILED" => sess[t] # "broken" /\ (dbIn[t] \/ sess[t] = "idle")
       /\ part[t][1] \in {"PREPARED", "COMMITTED", "ABORTED"} => ~dbIn[t] /\ sess[t] = "idle"
       /\ WithGid(txnId[t]) # {} => ~dbIn[t] /\ part[t][1] \in {"PREPARED", "FAILED"}
  /\ hs[t] \in Early => WithGid(txnId[t]) = {}

\* Clearing has nothing for a participant it was not asked about, or that
\* has been aborted, and a charge for one that has committed.
ClearingSide(t) ==
  /\ hs[t] = "commit" /\ part[t][2] \in {"INIT", "ABORTED"} => Released(txnId[t])
  /\ hs[t] = "commit" /\ part[t][2] = "COMMITTED" => clearing[txnId[t]] = "settled"
  /\ hs[t] \in Early => Released(txnId[t])

\* Clearing knows only ids that were given to a request.
KnownInv ==
  \A id \in TxnIds : clearing[id] # "none" => \E j \in Jobs : txnOf[j] = id

\* Of the steps of a worker, only those listed lead to, or stay in, txn_commit.
LEMMA CommitCases ==
  ASSUME PayTypeOK, FlowInv, NEW t \in Threads, WorkerStep(t), hs'[t] = "commit"
  PROVE  Insert(t) \/ CoordinatorStep(t) \/ Callback(t)
<1>0. hs \in [Threads -> Steps]
  BY DEF PayTypeOK
<1>1. ASSUME NEW j \in Jobs PROVE ~Accept(t, j) /\ ~AcceptRefused(t, j)
  BY <1>0 DEF Accept, AcceptRefused, Step, handler
<1>2. ~(InitParticipants(t) \/ RegisterParticipant(t) \/ DbBegin(t) \/ Fail(t)
        \/ Approve(t) \/ Decline(t) \/ FailReturn(t))
  BY <1>0 DEF InitParticipants, RegisterParticipant, DbBegin, Fail, Approve, Decline,
              FailReturn, Step
<1>3. ~(FailAbort(t) \/ FailAbortDb(t) \/ FailAbortClearing(t))
  <2> SUFFICES ASSUME FailAbort(t) \/ FailAbortDb(t) \/ FailAbortClearing(t) PROVE FALSE
    OBVIOUS
  <2>1. UNCHANGED hs
    BY DEF FailAbort, FailAbortDb, FailAbortClearing, payVars, handler
  <2>2. hs[t] = "failing"
    BY <1>0 DEF FailAbort, FailAbortDb, FailAbortClearing, AbortEach, FlowInv, Flow, Steps
  <2>3. QED
    BY <2>1, <2>2
<1>4. QED
  BY <1>1, <1>2, <1>3 DEF WorkerStep, Work, Setup, Ending

LEMMA OrderOwn ==
  ASSUME PayBase, NEW t \in Threads, Order(t), WorkerStep(t)
  PROVE  Order(t)'
<1> SUFFICES ASSUME hs'[t] = "commit", part'[t][1] = "INIT"
             PROVE  part'[t][2] = "INIT" /\ pc'[t] \in {"open", "prepare"}
  BY DEF Order
<1> DEFINE Goal == part'[t][2] = "INIT" /\ pc'[t] \in {"open", "prepare"}
<1>0. PayTypeOK /\ IndInv /\ FlowInv /\ pc \in [Threads -> Locations]
  BY DEF PayBase, IndInv, TypeOK
<1>1. CASE Insert(t)
  <2>1. hs[t] = "insert" /\ UNCHANGED <<pc, part>>
    BY <1>1 DEF Insert, vars, object, thread
  <2>2. pc[t] = "open" /\ Len(part[t]) = 2
    BY <1>0, <2>1 DEF FlowInv, Flow
  <2>3. QED
    BY <1>0, <2>1, <2>2, TwoCells
<1>2. CASE CoordinatorStep(t)
  <2>1. hs[t] = "commit" /\ UNCHANGED part /\ Len(part[t]) = 2
    BY <1>0, <1>2
       DEF CoordinatorStep, CommitCall, AllPrepared, CommitStart, Committed, AbortStart,
           Aborted, ReportAborted, object, FlowInv, Flow
  <2>2. part[t][1] = "INIT" /\ part[t][2] = "INIT" /\ pc[t] \in {"open", "prepare"}
    BY <2>1 DEF Order
  <2>3. ~SomeFailed(t) /\ ~AllPrepared(t)
    BY <1>0, <2>1, <2>2, TwoCells DEF AllPrepared
  <2>4. CommitCall(t)
    BY <1>2, <2>2, <2>3
       DEF CoordinatorStep, CommitStart, Committed, AbortStart, Aborted, ReportAborted
  <2>5. QED
    BY <1>0, <2>1, <2>2, <2>4 DEF CommitCall, Loop, Goto
<1>3. ASSUME NEW ok \in BOOLEAN PROVE ~DbPrepare(t, ok) /\ ~ClearingPrepare(t, ok)
  BY <1>0, <1>3, PrepareEffect DEF DbPrepare, ClearingPrepare
<1>4. ASSUME NEW ok \in BOOLEAN PROVE ~DbCommit(t, ok) /\ ~ClearingCommit(t, ok)
  BY <1>0, <1>4, CommitEffect DEF DbCommit, ClearingCommit, Told
<1>5. ~AbortDb(t) /\ ~AbortClearing(t)
  <2> SUFFICES ASSUME AbortDb(t) \/ AbortClearing(t) PROVE FALSE
    OBVIOUS
  <2>1. hs[t] = "commit" /\ pc[t] = "abort" /\ part[t][1] = "INIT"
    BY <1>0, AbortEffect DEF AbortDb, AbortClearing, CallbackAt
  <2>2. QED
    BY <2>1 DEF Order
<1>6. QED
  BY <1>0, <1>1, <1>2, <1>3, <1>4, <1>5, CommitCases DEF Callback

LEMMA OrderStep == PayBase /\ OrderInv /\ [PayNext]_allVars => OrderInv'
<1> SUFFICES ASSUME PayBase, OrderInv, [PayNext]_allVars, NEW u \in Threads PROVE Order(u)'
  BY DEF OrderInv
<1>1. CASE WorkerStep(u)
  BY <1>1, OrderOwn DEF OrderInv
<1>2. ASSUME NEW t \in Threads, WorkerStep(t), u # t PROVE Order(u)'
  BY <1>2, Others DEF PayBase, OrderInv, Order, Same
<1>3. CASE (\E t \in Threads : ConnectionLost(t)) \/ ReversalRun \/ Tick \/ UNCHANGED allVars
  <2>1. UNCHANGED <<hs, part, pc>>
    BY <1>3 DEF ConnectionLost, ReversalRun, Tick, allVars, payVars, vars, object, thread, handler
  <2>2. QED
    BY <2>1 DEF OrderInv, Order
<1>4. CASE PayCrash
  BY <1>4 DEF PayCrash, Order
<1>5. QED
  BY <1>1, <1>2, <1>3, <1>4, StepCases

\* A new id has no prepared transaction and no hold.
LEMMA FreshStart ==
  ASSUME PayBase, PayBase', KnownInv, NEW t \in Threads, NEW j \in Jobs, Accept(t, j)
  PROVE  hs'[t] = "init" /\ WithGid(txnId[t])' = {} /\ Released(txnId[t])'
<1>1. /\ txnOf \in [Jobs -> TxnIds \cup {NoTxn}] /\ hs \in [Threads -> Steps]
      /\ job \in [Threads -> Jobs \cup {NoJob}] /\ NoTxn \notin TxnIds /\ NoJob \notin Jobs
      /\ prepared \subseteq [gid : TxnIds, job : Jobs, rows : SUBSET Jobs]
  BY ThreadsAssumption, PaymentAssumption DEF PayBase, PayTypeOK
<1>2. /\ txnOf[j] = NoTxn /\ job'[t] = j /\ hs'[t] = "init"
      /\ UNCHANGED <<prepared, clearing>>
      /\ \A k \in Jobs : k # j => txnOf'[k] = txnOf[k]
  BY <1>1 DEF Accept, Step, postgres, outside
<1>3. txnId'[t] \in TxnIds /\ txnOf'[j] = txnId'[t]
  BY <1>1, <1>2, Zenon DEF PayBase, FlowInv, Flow, OwnerInv
<1>4. \A k \in Jobs : txnOf[k] # txnId'[t]
  BY <1>1, <1>2, <1>3 DEF PayBase, OwnerInv
<1>5. \A p \in prepared : p.gid # txnId'[t]
  BY <1>1, <1>4 DEF PayBase, OwnerInv
<1>6. clearing[txnId'[t]] = "none"
  BY <1>3, <1>4 DEF KnownInv
<1>7. QED
  BY <1>2, <1>5, <1>6 DEF WithGid, Released

\* A step that stays on the way to txn_commit, or on an error path, keeps its
\* id and takes no prepared transaction from nowhere.
LEMMA EarlyCases ==
  ASSUME PayBase, NEW t \in Threads, WorkerStep(t), hs'[t] \in Early
  PROVE  \/ \E j \in Jobs : Accept(t, j)
         \/ /\ hs[t] \in Early /\ UNCHANGED txnId
            /\ InitParticipants(t) \/ RegisterParticipant(t) \/ DbBegin(t) \/ Fail(t)
                 \/ FailAbort(t) \/ FailAbortDb(t) \/ FailAbortClearing(t)
<1>0. /\ hs \in [Threads -> Steps] /\ PayTypeOK /\ IndInv /\ FlowInv
  BY DEF PayBase, PayTypeOK
<1> USE DEF handler, Step, Early
<1>1. ASSUME NEW j \in Jobs PROVE ~AcceptRefused(t, j)
  BY <1>0 DEF AcceptRefused
<1>2. ~(Insert(t) \/ Approve(t) \/ Decline(t) \/ FailReturn(t))
  BY <1>0 DEF Insert, Approve, Decline, FailReturn
<1>3. ~CoordinatorStep(t)
  BY DEF CoordinatorStep, payVars
<1>4. ~Callback(t)
  <2>1. ASSUME NEW ok \in BOOLEAN
        PROVE  ~DbPrepare(t, ok) /\ ~ClearingPrepare(t, ok)
    BY <1>0, PrepareEffect DEF DbPrepare, ClearingPrepare, CallbackAt
  <2>2. ASSUME NEW ok \in BOOLEAN
        PROVE  ~DbCommit(t, ok) /\ ~ClearingCommit(t, ok)
    BY <1>0, CommitEffect DEF DbCommit, ClearingCommit, CallbackAt
  <2>3. ~AbortDb(t) /\ ~AbortClearing(t)
    BY <1>0, AbortEffect DEF AbortDb, AbortClearing, CallbackAt
  <2>4. QED
    BY <2>1, <2>2, <2>3 DEF Callback
<1>5. CASE InitParticipants(t) \/ RegisterParticipant(t) \/ DbBegin(t) \/ Fail(t)
  BY <1>0, <1>5 DEF InitParticipants, RegisterParticipant, Register, DbBegin, Fail, vars, object
<1>6. CASE FailAbort(t) \/ FailAbortDb(t) \/ FailAbortClearing(t)
  BY <1>0, <1>6 DEF FailAbort, FailAbortDb, FailAbortClearing, AbortCall, AbortEach, payVars
<1>7. QED
  BY <1>1, <1>2, <1>3, <1>4, <1>5, <1>6 DEF WorkerStep, Work, Setup, Ending

LEMMA DbEarly ==
  ASSUME PayBase, PayBase', SessionInv, KnownInv, NEW t \in Threads, DbSide(t), WorkerStep(t),
         hs'[t] \in Early
  PROVE  DbSide(t)'
<1>0. /\ sess \in [Sessions -> {"none", "idle", "txn", "failed", "broken"}]
      /\ hs \in [Threads -> Steps] /\ t \in Sessions
      /\ dbIn \in [Threads -> BOOLEAN]
  BY DEF PayBase, PayTypeOK, Sessions
<1>1. ASSUME NEW j \in Jobs, Accept(t, j) PROVE DbSide(t)'
  BY <1>1, FreshStart DEF DbSide
<1>2. CASE hs'[t] = "insert"
  <2>1. DbBegin(t) /\ conn[t] = t
    BY <1>0, <1>2, EarlyCases
       DEF Accept, InitParticipants, RegisterParticipant, DbBegin, Fail, Step, SessionInv, Early,
           FailAbort, FailAbortDb, FailAbortClearing, payVars, handler, FlowInv, Flow, PayBase,
           AbortEach, Steps
  <2>2. dbIn'[t] /\ sess'[t] = "txn" /\ UNCHANGED <<prepared, txnId>> /\ hs[t] = "begin"
    BY <1>0, <2>1 DEF DbBegin, vars, object
  <2>3. QED
    BY <1>2, <2>2 DEF DbSide, Early, WithGid
<1>3. CASE hs'[t] # "insert" /\ ~\E j \in Jobs : Accept(t, j)
  <2>1. hs[t] \in Early /\ UNCHANGED txnId /\ prepared' \subseteq prepared
    BY <1>3, EarlyCases
       DEF InitParticipants, RegisterParticipant, DbBegin, Fail, FailAbort, FailAbortDb,
           FailAbortClearing, PgRollbackPrepared, PgError, payVars, postgres
  <2>2. QED
    BY <1>3, <2>1 DEF DbSide, Early, WithGid
<1>4. QED
  BY <1>1, <1>2, <1>3

LEMMA DbCommitting ==
  ASSUME PayBase, SessionInv, NEW t \in Threads, DbSide(t), DbSound',
         WorkerStep(t), hs'[t] = "commit"
  PROVE  DbSide(t)'
<1>0. /\ sess \in [Sessions -> {"none", "idle", "txn", "failed", "broken"}]
      /\ hs \in [Threads -> Steps] /\ t \in Sessions /\ PayTypeOK /\ IndInv /\ FlowInv
      /\ dbIn \in [Threads -> BOOLEAN]
  BY DEF PayBase, PayTypeOK, Sessions
<1> DEFINE Side == /\ part'[t][1] = "INIT" => dbIn'[t] /\ sess'[t] = "txn"
                   /\ part'[t][1] = "FAILED" =>
                        sess'[t] # "broken" /\ (dbIn'[t] \/ sess'[t] = "idle")
                   /\ part'[t][1] \in {"PREPARED", "COMMITTED", "ABORTED"} =>
                        ~dbIn'[t] /\ sess'[t] = "idle"
                   /\ WithGid(txnId[t])' # {} =>
                        ~dbIn'[t] /\ part'[t][1] \in {"PREPARED", "FAILED"}
<1> SUFFICES Side
  BY DEF DbSide, Early
<1>1. CASE Insert(t)
  <2>1. hs[t] = "insert" /\ UNCHANGED <<pc, part, txnId, prepared, dbIn, sess>>
    BY <1>1 DEF Insert, vars, object, thread, context
  <2>2. pc[t] = "open" /\ Len(part[t]) = 2
    BY <1>0, <2>1 DEF FlowInv, Flow
  <2>3. part[t][1] = "INIT"
    BY <1>0, <2>2, TwoCells
  <2>4. QED
    BY <2>1, <2>3 DEF DbSide, WithGid, Early
<1>2. CASE CoordinatorStep(t)
  <2>1. hs[t] = "commit" /\ UNCHANGED <<part, txnId, prepared, dbIn, sess>>
    BY <1>2
       DEF CoordinatorStep, CommitCall, AllPrepared, CommitStart, Committed, AbortStart,
           Aborted, ReportAborted, object, payVars, postgres, context
  <2>2. QED
    BY <2>1 DEF DbSide, WithGid
<1>3. ASSUME NEW ok \in BOOLEAN, DbPrepare(t, ok) PROVE Side
  <2>1. /\ hs[t] = "commit" /\ part[t][1] = "INIT" /\ txnId'[t] = txnId[t]
        /\ part'[t][1] = IF ok THEN "PREPARED" ELSE "FAILED"
    BY <1>0, <1>3, PrepareEffect DEF DbPrepare, CallbackAt
  <2>2. conn[t] = t /\ dbIn[t] /\ sess[t] = "txn" /\ WithGid(txnId[t]) = {}
    BY <2>1 DEF SessionInv, DbSide
  <2>3. CASE ok
    <3>1. sess'[t] = "idle" /\ ~dbIn'[t]
      BY <1>0, <1>3, <2>2, <2>3 DEF DbPrepare
    <3>2. QED
      BY <2>1, <2>3, <3>1
  <2>4. CASE ~ok
    <3>1. sess'[t] # "broken" /\ dbIn'[t] /\ UNCHANGED prepared
      BY <1>0, <1>3, <2>2, <2>4 DEF DbPrepare, PgRollback, Fault, DbSound
    <3>2. QED
      BY <2>1, <2>2, <2>4, <3>1 DEF WithGid
  <2>5. QED
    BY <2>3, <2>4
<1>4. ASSUME NEW ok \in BOOLEAN, DbCommit(t, ok) PROVE Side
  <2>1. /\ hs[t] = "commit" /\ part[t][1] = "PREPARED" /\ txnId'[t] = txnId[t]
        /\ part'[t][1] = IF ok THEN "COMMITTED" ELSE "FAILED"
    BY <1>0, <1>4, CommitEffect DEF DbCommit, CallbackAt
  <2>2. conn[t] = t /\ ~dbIn[t] /\ sess[t] = "idle" /\ UNCHANGED dbIn
    BY <1>4, <2>1 DEF SessionInv, DbSide, DbCommit, context
  <2>3. CASE ok
    <3>1. UNCHANGED sess /\ \E p \in WithGid(txnId[t]) : prepared' = prepared \ {p}
      BY <1>4, <2>3 DEF DbCommit, PgCommitPrepared
    <3>2. WithGid(txnId[t])' = {}
      BY <2>1, <3>1 DEF WithGid, PayBase, OwnerInv
    <3>3. QED
      BY <2>1, <2>2, <2>3, <3>1, <3>2
  <2>4. CASE ~ok
    <3>1. sess'[t] = "idle"
      BY <1>0, <1>4, <2>2, <2>4 DEF DbCommit, PgError, Fault, DbSound
    <3>2. QED
      BY <2>1, <2>2, <2>4, <3>1
  <2>5. QED
    BY <2>3, <2>4
<1>5. CASE AbortDb(t)
  <2>1. /\ hs[t] = "commit" /\ txnId'[t] = txnId[t]
        /\ MustAbort(t) <=> part[t][1] \in {"PREPARED", "FAILED"}
        /\ part'[t][1] = IF MustAbort(t) THEN "ABORTED" ELSE part[t][1]
    BY <1>0, <1>5, AbortEffect DEF AbortDb, CallbackAt
  <2>2. conn[t] = t
    BY <2>1 DEF SessionInv
  <2>3. CASE part[t][1] \in {"PREPARED", "FAILED"} /\ ~dbIn[t]
    <3>1. sess[t] = "idle"
      BY <2>1, <2>3 DEF DbSide
    <3>2. prepared' = prepared \ WithGid(txnId[t]) /\ UNCHANGED <<sess, dbIn>>
      BY <1>5, <2>1, <2>2, <2>3, <3>1
         DEF AbortDb, DbAbort, PgRollbackPrepared, Fault, DbSound
    <3>3. WithGid(txnId[t])' = {}
      BY <2>1, <3>2 DEF WithGid
    <3>4. QED
      BY <2>1, <2>3, <3>1, <3>2, <3>3
  <2>4. CASE part[t][1] \in {"PREPARED", "FAILED"} /\ dbIn[t]
    <3>1. sess[t] # "broken" /\ WithGid(txnId[t]) = {}
      BY <2>1, <2>4 DEF DbSide
    <3>2. ~dbIn'[t] /\ sess'[t] = "idle" /\ UNCHANGED prepared
      BY <1>0, <1>5, <2>1, <2>2, <2>4, <3>1 DEF AbortDb, DbAbort, PgRollback
    <3>3. WithGid(txnId[t])' = {}
      BY <2>1, <3>1, <3>2 DEF WithGid
    <3>4. QED
      BY <2>1, <2>4, <3>2, <3>3
  <2>5. CASE part[t][1] \notin {"PREPARED", "FAILED"}
    <3>1. UNCHANGED <<sess, prepared, dbIn>>
      BY <1>5, <2>1, <2>5 DEF AbortDb
    <3>2. QED
      BY <2>1, <2>5, <3>1 DEF DbSide, WithGid
  <2>6. QED
    BY <2>3, <2>4, <2>5
<1>6. ASSUME NEW ok \in BOOLEAN, ClearingPrepare(t, ok) PROVE Side
  <2>1. hs[t] = "commit" /\ part'[t][1] = part[t][1] /\ txnId'[t] = txnId[t]
    BY <1>0, <1>6, PrepareEffect DEF ClearingPrepare, CallbackAt
  <2>2. UNCHANGED <<sess, prepared, dbIn>>
    BY <1>6 DEF ClearingPrepare, postgres
  <2>3. QED
    BY <2>1, <2>2 DEF DbSide, WithGid
<1>7. ASSUME NEW ok \in BOOLEAN, ClearingCommit(t, ok) PROVE Side
  <2>1. hs[t] = "commit" /\ part'[t][1] = part[t][1] /\ txnId'[t] = txnId[t]
    BY <1>0, <1>7, CommitEffect DEF ClearingCommit, CallbackAt
  <2>2. UNCHANGED <<sess, prepared, dbIn>>
    BY <1>7 DEF ClearingCommit, postgres
  <2>3. QED
    BY <2>1, <2>2 DEF DbSide, WithGid
<1>8. CASE AbortClearing(t)
  <2>1. hs[t] = "commit" /\ part'[t][1] = part[t][1] /\ txnId'[t] = txnId[t]
    BY <1>0, <1>8, AbortEffect DEF AbortClearing, CallbackAt
  <2>2. UNCHANGED <<sess, prepared, dbIn>>
    BY <1>8 DEF AbortClearing, postgres
  <2>3. QED
    BY <2>1, <2>2 DEF DbSide, WithGid
<1>9. QED
  BY <1>0, <1>1, <1>2, <1>3, <1>4, <1>5, <1>6, <1>7, <1>8, CommitCases DEF Callback

LEMMA ClearingOwn ==
  ASSUME PayBase, PayBase', KnownInv, NEW t \in Threads, ClearingSide(t),
         "clearing" \notin faulted', WorkerStep(t)
  PROVE  ClearingSide(t)'
<1>0. /\ PayTypeOK /\ IndInv /\ FlowInv /\ hs \in [Threads -> Steps]
      /\ clearing \in [TxnIds -> {"none", "held", "settled", "released"}]
      /\ hs[t] # "idle" => txnId[t] \in TxnIds
  BY DEF PayBase, PayTypeOK, FlowInv, Flow
<1>1. CASE hs'[t] \in Early
  <2>1. ASSUME NEW j \in Jobs, Accept(t, j) PROVE Released(txnId[t])'
    BY <2>1, FreshStart
  <2>2. ASSUME ~\E j \in Jobs : Accept(t, j) PROVE Released(txnId[t])'
    <3>1. hs[t] \in Early /\ UNCHANGED txnId /\ Released(txnId[t])
      BY <1>1, <2>2, EarlyCases DEF ClearingSide
    <3>2. UNCHANGED clearing \/ ClearingVoid(txnId[t])
      BY <1>1, <2>2, EarlyCases
         DEF InitParticipants, RegisterParticipant, DbBegin, Fail, FailAbort, FailAbortDb,
             FailAbortClearing, payVars, outside
    <3>3. txnId[t] \in TxnIds
      BY <1>0, <3>1 DEF Early
    <3>4. clearing'[txnId[t]] \in {clearing[txnId[t]], "released"}
      BY <1>0, <3>2, <3>3 DEF ClearingVoid
    <3>5. txnId'[t] = txnId[t] /\ clearing[txnId[t]] \in {"none", "released"}
      BY <3>1 DEF Released
    <3>6. QED
      BY <3>4, <3>5 DEF Released
  <2>3. QED
    BY <1>1, <2>1, <2>2 DEF ClearingSide, Early
<1>2. CASE hs'[t] = "commit"
  <2> DEFINE Side == /\ part'[t][2] \in {"INIT", "ABORTED"} => Released(txnId[t])'
                     /\ part'[t][2] = "COMMITTED" => clearing'[txnId'[t]] = "settled"
  <2> SUFFICES Side
    BY <1>2 DEF ClearingSide, Early
  <2>0. ASSUME hs[t] = "commit", part'[t][2] = part[t][2], txnId'[t] = txnId[t],
               UNCHANGED clearing
        PROVE  Side
    BY <2>0 DEF ClearingSide, Released
  <2>1. CASE Insert(t)
    <3>1. hs[t] = "insert" /\ UNCHANGED <<pc, part, txnId, clearing>>
      BY <2>1 DEF Insert, vars, object, thread, outside
    <3>2. part[t][2] = "INIT"
      BY <1>0, <3>1, TwoCells DEF FlowInv, Flow
    <3>3. QED
      BY <3>1, <3>2 DEF ClearingSide, Early, Released
  <2>2. CASE CoordinatorStep(t)
    <3>1. hs[t] = "commit" /\ UNCHANGED <<part, txnId, clearing>>
      BY <2>2
         DEF CoordinatorStep, CommitCall, AllPrepared, CommitStart, Committed, AbortStart,
             Aborted, ReportAborted, object, payVars, outside
    <3>2. QED
      BY <2>0, <3>1
  <2>3. ASSUME NEW ok \in BOOLEAN, DbPrepare(t, ok) PROVE Side
    <3>1. hs[t] = "commit" /\ part'[t][2] = part[t][2] /\ txnId'[t] = txnId[t]
          /\ UNCHANGED clearing
      BY <1>0, <2>3, PrepareEffect DEF DbPrepare, CallbackAt
    <3>2. QED
      BY <2>0, <3>1
  <2>4. ASSUME NEW ok \in BOOLEAN, ClearingPrepare(t, ok) PROVE Side
    BY <1>0, <2>4, PrepareEffect DEF ClearingPrepare
  <2>5. ASSUME NEW ok \in BOOLEAN, DbCommit(t, ok) PROVE Side
    BY <1>0, <2>5, CommitEffect DEF DbCommit
  <2>6. ASSUME NEW ok \in BOOLEAN, ClearingCommit(t, ok) PROVE Side
    <3>1. /\ hs[t] = "commit" /\ txnId'[t] = txnId[t]
          /\ part'[t][2] = IF ok THEN "COMMITTED" ELSE "FAILED"
      BY <1>0, <2>6, CommitEffect DEF ClearingCommit, CallbackAt
    <3>2. ok => clearing'[txnId[t]] = "settled"
      BY <1>0, <2>6, <3>1 DEF ClearingCommit, ClearingSettle
    <3>3. QED
      BY <3>1, <3>2
  <2>7. CASE AbortDb(t)
    <3>1. hs[t] = "commit" /\ part'[t][2] = part[t][2] /\ txnId'[t] = txnId[t]
          /\ UNCHANGED clearing
      BY <1>0, <2>7, AbortEffect DEF AbortDb, CallbackAt, outside
    <3>2. QED
      BY <2>0, <3>1
  <2>8. CASE AbortClearing(t)
    <3>1. /\ hs[t] = "commit" /\ txnId'[t] = txnId[t]
          /\ part'[t][2] = IF MustAbort(t) THEN "ABORTED" ELSE part[t][2]
      BY <1>0, <2>8, AbortEffect DEF AbortClearing, CallbackAt
    <3>2. txnId[t] \in TxnIds
      BY <1>0, <3>1
    <3>3. CASE MustAbort(t)
      BY <1>0, <2>8, <3>1, <3>2, <3>3 DEF AbortClearing, ClearingVoid, Fault, Released
    <3>4. CASE ~MustAbort(t)
      BY <2>0, <2>8, <3>1, <3>4 DEF AbortClearing
    <3>5. QED
      BY <3>3, <3>4
  <2>9. QED
    BY <1>0, <1>2, <2>1, <2>2, <2>3, <2>4, <2>5, <2>6, <2>7, <2>8, CommitCases DEF Callback
<1>3. CASE hs'[t] \notin Early \cup {"commit"}
  BY <1>3 DEF ClearingSide
<1>4. QED
  BY <1>1, <1>2, <1>3

LEMMA DbOwn ==
  ASSUME PayBase, PayBase', SessionInv, KnownInv, NEW t \in Threads, DbSide(t), DbSound',
         WorkerStep(t)
  PROVE  DbSide(t)'
<1>1. CASE hs'[t] \in Early
  BY <1>1, DbEarly
<1>2. CASE hs'[t] = "commit"
  BY <1>2, DbCommitting
<1>3. CASE hs'[t] \notin Early \cup {"commit"}
  BY <1>3 DEF DbSide, Early
<1>4. QED
  BY <1>1, <1>2, <1>3

\* The step of one worker does not disturb the two sides of another.
LEMMA OtherSide ==
  ASSUME PayBase, PayBase', NEW t \in Threads, WorkerStep(t),
         NEW u \in Threads, u # t, hs[u] \in Early \cup {"commit"}
  PROVE  clearing'[txnId[u]] = clearing[txnId[u]] /\ WithGid(txnId[u])' = WithGid(txnId[u])
<1>0. PayTypeOK /\ IndInv /\ StateInv /\ FlowInv
  BY DEF PayBase
<1>1. job[u] # NoJob
  BY <1>0 DEF FlowInv, Flow, Early
<1>2. txnId[u] \in TxnIds /\ txnId[u] # txnId[t] /\ txnId[u] # txnId'[t]
  BY <1>1, OtherId
<1>3. \A id \in TxnIds : id # txnId'[t] /\ id # txnId[t] =>
        clearing'[id] = clearing[id] /\ WithGid(id)' = WithGid(id)
  BY <1>0, OtherIds
<1>4. txnId'[u] = txnId[u]
  BY <1>0, Others DEF Same
<1>5. QED
  BY <1>2, <1>3, <1>4 DEF WithGid

LEMMA SidesOther ==
  ASSUME PayBase, PayBase', NEW t \in Threads, WorkerStep(t), NEW u \in Threads, u # t
  PROVE  /\ SessionInv /\ DbSide(u) => DbSide(u)'
         /\ ClearingSide(u) => ClearingSide(u)'
<1>0. PayTypeOK
  BY DEF PayBase
<1>1. Same(u)
  BY <1>0, Others
<1>2. ASSUME SessionInv, DbSide(u) PROVE DbSide(u)'
  <2>1. sess'[u] = sess[u]
    BY <1>0, <1>2, OtherSessions
  <2>2. QED
    BY <1>1, <1>2, <2>1, OtherSide DEF Same, DbSide, Early
<1>3. ASSUME ClearingSide(u) PROVE ClearingSide(u)'
  BY <1>1, <1>3, OtherSide DEF Same, ClearingSide, Released
<1>4. QED
  BY <1>2, <1>3

\* A reversal leaves nothing at clearing that was not there.
LEMMA ReversalReleases ==
  ASSUME PayTypeOK, ReversalRun, NEW id \in TxnIds
  PROVE  /\ clearing'[id] \in {clearing[id], "released"}
         /\ clearing'[id] # clearing[id] => \E r \in reversals : r.id = id
BY DEF PayTypeOK, ReversalRun, ClearingVoid

\* A reversal is about a request that was answered, and no worker has it.
LEMMA ReversalElsewhere ==
  ASSUME PayBase, ReplyInv, ReversalRun, NEW u \in Threads, hs[u] = "commit"
  PROVE  clearing'[txnId[u]] = clearing[txnId[u]]
<1>1. /\ PayTypeOK /\ job[u] \in Jobs /\ txnId[u] \in TxnIds /\ txnOf[job[u]] = txnId[u]
      /\ NoTxn \notin TxnIds
  BY ThreadsAssumption DEF PayBase, FlowInv, Flow, OwnerInv, PayTypeOK
<1>2. reply[job[u]] = "none"
  BY <1>1, PaymentAssumption DEF ReplyInv
<1>3. ASSUME NEW r \in reversals PROVE r.id # txnId[u]
  <2>1. r.job \in Jobs /\ r.id = txnOf[r.job] /\ reply[r.job] = "DECLINED"
    BY <1>1 DEF ReplyInv, PayTypeOK
  <2>2. QED
    BY <1>1, <1>2, <2>1 DEF PayBase, OwnerInv
<1>4. QED
  BY <1>1, <1>3, ReversalReleases

LEMMA KnownStep ==
  PayBase /\ ReplyInv /\ KnownInv /\ [PayNext]_allVars => KnownInv'
<1> SUFFICES ASSUME PayBase, ReplyInv, KnownInv, [PayNext]_allVars,
                    NEW id \in TxnIds, clearing'[id] # "none"
             PROVE  \E j \in Jobs : txnOf'[j] = id
  BY DEF KnownInv
<1>0. /\ PayTypeOK /\ IndInv /\ FlowInv /\ NoTxn \notin TxnIds
      /\ txnOf \in [Jobs -> TxnIds \cup {NoTxn}]
      /\ clearing \in [TxnIds -> {"none", "held", "settled", "released"}]
  BY ThreadsAssumption DEF PayBase, PayTypeOK
<1>1. ASSUME NEW t \in Threads, WorkerStep(t) PROVE \E j \in Jobs : txnOf'[j] = id
  <2>1. \A j \in Jobs : txnOf[j] = id => txnOf'[j] = id
    BY <1>0, <1>1, JobCases DEF Accept
  <2>2. CASE clearing[id] # "none"
    BY <2>1, <2>2 DEF KnownInv
  <2>3. CASE clearing[id] = "none"
    <3>1. id = txnId[t] /\ hs[t] \in {"commit", "failing"}
      BY <1>0, <1>1, <2>3, ClearingCases
    <3>2. job[t] \in Jobs /\ txnOf[job[t]] = id
      BY <3>1 DEF PayBase, FlowInv, Flow, OwnerInv, PayTypeOK
    <3>3. QED
      BY <2>1, <3>2
  <2>4. QED
    BY <2>2, <2>3
<1>2. CASE ReversalRun
  <2>1. UNCHANGED txnOf
    BY <1>2 DEF ReversalRun, client
  <2>2. CASE clearing[id] # "none"
    BY <2>1, <2>2 DEF KnownInv
  <2>3. CASE clearing[id] = "none"
    <3>1. PICK r \in reversals : r.id = id
      BY <1>0, <1>2, <2>3, ReversalReleases
    <3>2. r.job \in Jobs /\ txnOf[r.job] = id
      BY <1>0, <3>1 DEF ReplyInv, PayTypeOK
    <3>3. QED
      BY <2>1, <3>2
  <2>4. QED
    BY <2>2, <2>3
<1>3. CASE (\E t \in Threads : ConnectionLost(t)) \/ Tick \/ PayCrash \/ UNCHANGED allVars
  <2>1. UNCHANGED <<txnOf, clearing>>
    BY <1>3 DEF ConnectionLost, Tick, PayCrash, allVars, payVars, client, outside
  <2>2. QED
    BY <2>1 DEF KnownInv
<1>4. QED
  BY <1>1, <1>2, <1>3, StepCases

\* A fault is remembered.
LEMMA FaultedStays ==
  ASSUME [PayNext]_allVars PROVE faulted \subseteq faulted'
<1>1. ASSUME NEW t \in Threads, WorkerStep(t) PROVE faulted \subseteq faulted'
  <2> USE DEF Fault, outside, payVars, ClearingVoid
  <2>1. CASE Setup(t)
    BY <2>1 DEF Setup, InitParticipants, ThreadGet, Connect, RegisterParticipant, DbBegin,
                Insert, Fail
  <2>2. CASE Callback(t)
    BY <2>2 DEF Callback, DbPrepare, ClearingPrepare, DbCommit, ClearingCommit, AbortDb,
                DbAbort, AbortClearing
  <2>3. CASE CoordinatorStep(t) \/ Ending(t)
    BY <2>3 DEF CoordinatorStep, Ending, Approve, Decline, Enqueue, FailAbort, FailAbortDb,
                FailAbortClearing, FailReturn
  <2>4. ASSUME NEW j \in Jobs, Accept(t, j) \/ AcceptRefused(t, j)
        PROVE  faulted \subseteq faulted'
    BY <2>4 DEF Accept, AcceptRefused
  <2>5. QED
    BY <1>1, <2>1, <2>2, <2>3, <2>4 DEF WorkerStep, Work
<1>2. CASE (\E t \in Threads : ConnectionLost(t)) \/ ReversalRun \/ Tick \/ PayCrash
           \/ UNCHANGED allVars
  BY <1>2 DEF ConnectionLost, ReversalRun, Tick, PayCrash, ClearingVoid, Fault, allVars,
              payVars, outside
<1>3. QED
  BY <1>1, <1>2, StepCases

\* As long as the database is sound every worker has its own connection and
\* the database side of its payment is as the coordinator sees it.
DbCalm == DbSound => SessionInv /\ \A t \in Threads : DbSide(t)

LEMMA DbCalmStep ==
  PayBase /\ PayBase' /\ KnownInv /\ DbCalm /\ [PayNext]_allVars => DbCalm'
<1> SUFFICES ASSUME PayBase, PayBase', KnownInv, DbCalm, [PayNext]_allVars, DbSound'
             PROVE  SessionInv' /\ \A u \in Threads : DbSide(u)'
  BY DEF DbCalm
<1>0. PayTypeOK
  BY DEF PayBase
<1>1. SessionInv /\ \A t \in Threads : DbSide(t)
  BY FaultedStays DEF DbCalm, DbSound
<1>2. SessionInv'
  BY <1>0, <1>1, SessionStep DEF DbSound
<1>3. ASSUME NEW u \in Threads PROVE DbSide(u)'
  <2>1. CASE WorkerStep(u)
    BY <1>1, <2>1, DbOwn
  <2>2. ASSUME NEW t \in Threads, WorkerStep(t), u # t PROVE DbSide(u)'
    BY <1>1, <2>2, SidesOther
  <2>3. ~\E t \in Threads : ConnectionLost(t)
    BY DEF ConnectionLost, Fault, DbSound
  <2>4. CASE ReversalRun \/ Tick \/ UNCHANGED allVars
    <3>1. UNCHANGED <<hs, part, dbIn, sess, prepared, txnId>>
      BY <2>4 DEF ReversalRun, Tick, allVars, payVars, vars, object, handler, context, postgres
    <3>2. QED
      BY <1>1, <3>1 DEF DbSide, WithGid
  <2>5. CASE PayCrash
    <3>1. hs'[u] = "idle"
      BY <2>5 DEF PayCrash
    <3>2. QED
      BY <3>1 DEF DbSide, Early
  <2>6. QED
    BY <2>1, <2>2, <2>3, <2>4, <2>5, StepCases
<1>4. QED
  BY <1>2, <1>3

\* As long as clearing answers, its side is as the coordinator sees it,
\* whatever happens to the database.
ClearingCalm == "clearing" \notin faulted => \A t \in Threads : ClearingSide(t)

LEMMA ClearingCalmStep ==
  PayBase /\ PayBase' /\ ReplyInv /\ KnownInv /\ ClearingCalm /\ [PayNext]_allVars
  => ClearingCalm'
<1> SUFFICES ASSUME PayBase, PayBase', ReplyInv, KnownInv, ClearingCalm, [PayNext]_allVars,
                    "clearing" \notin faulted', NEW u \in Threads
             PROVE  ClearingSide(u)'
  BY DEF ClearingCalm
<1>0. PayTypeOK /\ \A t \in Threads : ClearingSide(t)
  BY FaultedStays DEF PayBase, ClearingCalm
<1>1. CASE WorkerStep(u)
  BY <1>0, <1>1, ClearingOwn
<1>2. ASSUME NEW t \in Threads, WorkerStep(t), u # t PROVE ClearingSide(u)'
  BY <1>0, <1>2, SidesOther
<1>3. CASE ReversalRun
  <2>1. UNCHANGED <<hs, part, txnId>>
    BY <1>3 DEF ReversalRun, vars, object, handler
  <2>2. hs[u] \in Early => txnId[u] \in TxnIds
    BY DEF PayBase, FlowInv, Flow, Early
  <2>3. hs[u] \in Early /\ Released(txnId[u]) => Released(txnId[u])'
    BY <1>0, <1>3, <2>1, <2>2, ReversalReleases DEF Released
  <2>4. hs[u] = "commit" => clearing'[txnId[u]] = clearing[txnId[u]]
    BY <1>3, ReversalElsewhere
  <2>5. QED
    BY <1>0, <2>1, <2>3, <2>4 DEF ClearingSide, Released
<1>4. CASE (\E t \in Threads : ConnectionLost(t)) \/ Tick \/ UNCHANGED allVars
  <2>1. UNCHANGED <<hs, part, txnId, clearing>>
    BY <1>4 DEF ConnectionLost, Tick, allVars, payVars, vars, object, handler, outside
  <2>2. QED
    BY <1>0, <2>1 DEF ClearingSide, Released
<1>5. CASE PayCrash
  <2>1. hs'[u] = "idle"
    BY <1>5 DEF PayCrash
  <2>2. QED
    BY <2>1 DEF ClearingSide, Early
<1>6. QED
  BY <1>1, <1>2, <1>3, <1>4, <1>5, StepCases
-----------------------------------------------------------------------------
(* A declined request keeps no money *)

\* A charge that is left of a declined request waits for its reversal, which
\* only a crash can lose.
Reversed(j) ==
  /\ clearing[txnOf[j]] = "settled"
  /\ crashes > 0 \/ \E r \in reversals : r.id = txnOf[j]

DeclInv ==
  faulted \cap {"clearing", "memory"} = {} =>
    \A j \in Jobs : reply[j] = "DECLINED" /\ txnOf[j] # NoTxn =>
      Released(txnOf[j]) \/ Reversed(j)

\* When txn_commit has returned, what the two participants can be.
LEMMA Returned ==
  ASSUME PayBase, NEW t \in Threads, Order(t), hs[t] = "commit", pc[t] = "idle"
  PROVE  part[t][1] \in {"COMMITTED", "ABORTED"} /\ part[t][2] \in Settled
<1>1. IndInv /\ Len(part[t]) = 2 /\ ret[t] \in {"committed", "aborted"}
  BY DEF PayBase, FlowInv, Flow
<1>2. part[t][1] \in Settled /\ part[t][2] \in Settled
  BY <1>1, TwoCells DEF Settled
<1>3. part[t][1] # "INIT"
  BY DEF Order
<1>4. QED
  BY <1>2, <1>3 DEF Settled

\* A worker loses no reversal, and does not crash.
LEMMA QueueGrows ==
  ASSUME PayBase, NEW t \in Threads, WorkerStep(t)
  PROVE  UNCHANGED crashes /\ reversals \subseteq reversals'
<1>1. UNCHANGED crashes
  <2>1. IndInv /\ StateInv /\ NowInv
    BY DEF PayBase, PayTypeOK, NowInv
  <2>2. CASE BeginStep(t) \/ CommitStep(t) \/ AbortStep(t)
    BY <2>1, <2>2, LogCases
  <2>3. CASE UNCHANGED vars
    BY <2>3 DEF vars
  <2>4. QED
    BY <2>1, <2>2, <2>3, WorkerCoordinator
<1>2. reversals \subseteq reversals'
  BY ReplyCases DEF AcceptRefused, Fail, Approve, Decline, Enqueue, outside
<1>3. QED
  BY <1>1, <1>2

LEMMA DeclWorker ==
  ASSUME PayBase, PayBase', ReplyInv, OrderInv, ClearingCalm, ClearingCalm', DeclInv,
         faulted \cap {"clearing", "memory"} = {}, faulted' \cap {"clearing", "memory"} = {},
         NEW t \in Threads, WorkerStep(t),
         NEW j \in Jobs, reply'[j] = "DECLINED", txnOf'[j] # NoTxn
  PROVE  Released(txnOf[j])' \/ Reversed(j)'
<1>0. /\ PayTypeOK /\ IndInv /\ FlowInv /\ NoTxn \notin TxnIds
      /\ Order(t) /\ ClearingSide(t) /\ ClearingSide(t)'
      /\ txnOf \in [Jobs -> TxnIds \cup {NoTxn}]
      /\ reply \in [Jobs -> {"none", "APPROVED", "DECLINED"}]
      /\ clearing \in [TxnIds -> {"none", "held", "settled", "released"}]
  BY ThreadsAssumption DEF PayBase, PayTypeOK, ClearingCalm, OrderInv
<1>1. CASE reply[j] = "DECLINED"
  <2>1. txnOf'[j] = txnOf[j] /\ txnOf[j] \in TxnIds
    BY <1>0, <1>1, JobCases DEF Accept
  <2>2. Released(txnOf[j]) \/ Reversed(j)
    BY <1>0, <1>1, <2>1 DEF DeclInv
  <2>3. CASE clearing'[txnOf[j]] = clearing[txnOf[j]]
    BY <2>1, <2>2, <2>3, QueueGrows DEF Released, Reversed
  <2>4. CASE clearing'[txnOf[j]] # clearing[txnOf[j]]
    <3>1. txnOf[j] = txnId[t] /\ hs[t] \in {"commit", "failing"}
      BY <1>0, <2>1, <2>4, ClearingCases
    <3>2. job[t] = j /\ job[t] # NoJob
      BY <1>0, <2>1, <3>1 DEF PayBase, FlowInv, Flow, OwnerInv, PayTypeOK
    <3>3. hs[t] = "failing"
      BY <1>1, <3>2 DEF ReplyInv
    <3>4. txnId'[t] = txnId[t] /\ hs'[t] = "failing"
      <4>1. FailAbortClearing(t)
        BY <1>0, <2>4, <3>3
           DEF WorkerStep, Work, Setup, CoordinatorStep, Callback, Ending, Accept, AcceptRefused,
               InitParticipants, RegisterParticipant, DbBegin, Insert, Fail, DbPrepare,
               ClearingPrepare, DbCommit, ClearingCommit, AbortDb, AbortClearing, Approve, Decline,
               FailAbort, FailAbortDb, FailReturn, outside, payVars, PrepareOne, CommitOne,
               AbortOne, FlowInv, Flow
      <4>2. QED
        BY <3>3, <4>1 DEF FailAbortClearing, AbortEach, handler
    <3>5. QED
      BY <1>0, <2>1, <3>1, <3>4 DEF ClearingSide, Early, Released
  <2>5. QED
    BY <2>3, <2>4
<1>2. CASE reply[j] # "DECLINED"
  <2>1. CASE \E k \in Jobs : AcceptRefused(t, k)
    BY <1>0, <1>2, <2>1 DEF AcceptRefused
  <2>2. CASE Fail(t)
    <3>1. job[t] = j /\ hs[t] \in Early /\ UNCHANGED <<txnOf, clearing>>
      BY <1>0, <1>2, <2>2 DEF Fail, Answer, Early, outside
    <3>2. txnOf[j] = txnId[t]
      BY <3>1, PaymentAssumption DEF PayBase, OwnerInv
    <3>3. QED
      BY <1>0, <3>1, <3>2 DEF ClearingSide, Released
  <2>3. CASE Decline(t)
    <3>1. /\ job[t] = j /\ hs[t] = "commit" /\ pc[t] = "idle" /\ UNCHANGED <<txnOf, clearing>>
      BY <1>0, <1>2, <2>3 DEF Decline, Answer
    <3>2. txnOf[j] = txnId[t]
      BY <3>1, PaymentAssumption DEF PayBase, OwnerInv
    <3>3. CASE part[t][2] \in {"INIT", "ABORTED"}
      BY <1>0, <3>1, <3>2, <3>3 DEF ClearingSide, Released
    <3>4. CASE part[t][2] = "COMMITTED"
      <4>1. clearing'[txnOf'[j]] = "settled"
        BY <1>0, <3>1, <3>2, <3>4 DEF ClearingSide
      <4>2. [id |-> txnOf[j], job |-> j] \in reversals'
        BY <2>3, <3>1, <3>2 DEF Decline, Enqueue, Fault
      <4>3. QED
        BY <3>1, <4>1, <4>2 DEF Reversed
    <3>5. QED
      BY <1>0, <3>1, <3>3, <3>4, Returned DEF Settled
  <2>4. CASE Approve(t)
    BY <1>0, <1>2, <2>4 DEF Approve, Answer
  <2>5. QED
    BY <1>2, <2>1, <2>2, <2>3, <2>4, ReplyCases
<1>3. QED
  BY <1>1, <1>2

LEMMA DeclStep ==
  /\ PayBase /\ PayBase' /\ ReplyInv /\ OrderInv /\ ClearingCalm /\ ClearingCalm' /\ DeclInv
  /\ [PayNext]_allVars
  => DeclInv'
<1> SUFFICES ASSUME PayBase, PayBase', ReplyInv, OrderInv, ClearingCalm, ClearingCalm', DeclInv,
                    [PayNext]_allVars, faulted' \cap {"clearing", "memory"} = {},
                    NEW j \in Jobs, reply'[j] = "DECLINED", txnOf'[j] # NoTxn
             PROVE  Released(txnOf[j])' \/ Reversed(j)'
  BY DEF DeclInv
<1>0. /\ faulted \cap {"clearing", "memory"} = {} /\ PayTypeOK /\ crashes \in Nat
      /\ clearing \in [TxnIds -> {"none", "held", "settled", "released"}]
  BY FaultedStays, BoundsAssumption DEF PayBase, PayTypeOK, IndInv, TypeOK
<1>1. ASSUME NEW t \in Threads, WorkerStep(t) PROVE Released(txnOf[j])' \/ Reversed(j)'
  BY <1>0, <1>1, DeclWorker
<1>2. CASE ReversalRun
  <2>1. UNCHANGED <<reply, txnOf, crashes>>
    BY <1>2 DEF ReversalRun, client, vars
  <2>2. txnOf[j] \in TxnIds /\ (Released(txnOf[j]) \/ Reversed(j))
    BY <1>0, <2>1 DEF DeclInv, PayTypeOK
  <2>3. PICK r \in reversals : /\ reversals' = reversals \ {r} /\ r.id \in TxnIds
                               /\ clearing' = [clearing EXCEPT ![r.id] =
                                                 IF @ = "none" THEN @ ELSE "released"]
    BY <1>0, <1>2 DEF ReversalRun, ClearingVoid, Fault, PayTypeOK
  <2>4. CASE r.id = txnOf[j]
    BY <1>0, <2>1, <2>2, <2>3, <2>4 DEF Released
  <2>5. CASE r.id # txnOf[j]
    BY <1>0, <2>1, <2>2, <2>3, <2>5 DEF Released, Reversed
  <2>6. QED
    BY <2>4, <2>5
<1>3. CASE PayCrash
  <2>1. UNCHANGED <<reply, txnOf, clearing>> /\ crashes' > 0
    BY <1>0, <1>3 DEF PayCrash, Crash, client
  <2>2. QED
    BY <1>0, <2>1 DEF DeclInv, Released, Reversed
<1>4. CASE (\E t \in Threads : ConnectionLost(t)) \/ Tick \/ UNCHANGED allVars
  <2>1. UNCHANGED <<reply, txnOf, clearing, reversals, crashes>>
    BY <1>4 DEF ConnectionLost, Tick, allVars, payVars, client, outside, vars
  <2>2. QED
    BY <1>0, <2>1 DEF DeclInv, Released, Reversed
<1>5. QED
  BY <1>1, <1>2, <1>3, <1>4, StepCases

CalmInv == OrderInv /\ DbCalm /\ ClearingCalm

LEMMA CalmInit == PayInit => KnownInv /\ CalmInv /\ DeclInv
<1> SUFFICES ASSUME PayInit PROVE KnownInv /\ CalmInv /\ DeclInv
  OBVIOUS
<1>1. /\ \A t \in Threads : hs[t] = "idle"
      /\ \A j \in Jobs : reply[j] = "none"
      /\ \A id \in TxnIds : clearing[id] = "none"
  BY DEF PayInit
<1>2. \A t \in Threads : Order(t) /\ DbSide(t) /\ ClearingSide(t)
  BY <1>1 DEF Order, DbSide, ClearingSide, Early
<1>3. QED
  BY <1>1, <1>2, SessionReplyInit
     DEF KnownInv, CalmInv, OrderInv, DbCalm, ClearingCalm, DeclInv

\* What holds at every step of a payment, as long as one side is sound.
LEMMA CalmAlways ==
  DistinctIds => (PaySpec => [](PayBase /\ ReplyInv /\ KnownInv /\ CalmInv /\ DeclInv))
<1> SUFFICES ASSUME DistinctIds
             PROVE  PaySpec => [](PayBase /\ ReplyInv /\ KnownInv /\ CalmInv /\ DeclInv)
  OBVIOUS
<1>1. PaySpec => []PayBase
  BY BaseInv
<1>2. CalmInv <=> OrderInv /\ DbCalm /\ ClearingCalm
  BY DEF CalmInv
<1>3. QED
  BY <1>1, <1>2, CalmInit, SessionReplyInit, ReplyStep, KnownStep, OrderStep, DbCalmStep,
     ClearingCalmStep, DeclStep, PTL
     DEF PaySpec

\* A declined request keeps no money at clearing, neither a hold nor a
\* charge, for any number of workers and requests and whatever the database
\* does or loses: a charge is there only until its reversal has been run.
\* Clearing must answer, the reversal must have been allocated, and no id may
\* be given twice; after a crash the reversal may be gone, and only a hold is
\* excluded (handler.c:495-522, clearing_participant.c, reversal.c).
THEOREM DeclinesAreReleased == DistinctIds => (PaySpec => []DeclinedIsReleased)
<1> SUFFICES ASSUME DistinctIds PROVE PaySpec => []DeclinedIsReleased
  OBVIOUS
<1>1. DeclInv => DeclinedIsReleased
  BY DEF DeclInv, DeclinedIsReleased, Done, Released, Reversed
<1>2. QED
  BY <1>1, CalmAlways, PTL
-----------------------------------------------------------------------------
(* What a crash leaves prepared is in the log *)

Undecided == {"PREPARING", "PREPARED", "COMMITTING", "ABORTING"}

PendingInv ==
  \A t \in Threads :
    hs[t] = "commit" /\ part[t][1] \in {"PREPARED", "FAILED"} /\ opened[txnId[t]] = "open" =>
      log[txnId[t]] \in Undecided

\* A database participant that is PREPARED, or whose prepare or commit failed,
\* belongs to a transaction whose record is not final.
LEMMA PendingState == PayBase => PendingInv
<1> SUFFICES ASSUME PayBase, NEW t \in Threads, hs[t] = "commit",
                    part[t][1] \in {"PREPARED", "FAILED"}, opened[txnId[t]] = "open"
             PROVE  log[txnId[t]] \in Undecided
  BY DEF PendingInv
<1>1. /\ IndInv /\ Len(part[t]) = 2 /\ pc[t] # "xabort" /\ pc[t] \in Locations
      /\ pc[t] = "idle" => ret[t] \in {"committed", "aborted"}
  BY DEF PayBase, FlowInv, Flow, IndInv, TypeOK
<1>2. pc[t] \in {"prepare", "decided", "commit", "abort"}
  BY <1>1, TwoCells DEF Settled, Locations
<1>3. log[txnId[t]] = txnState[t]
  BY <1>2 DEF PayBase, LogInv, Busy, Owns, Filed
<1>4. txnState[t] \in Undecided
  BY <1>2 DEF PayBase, StateInv, StateAt, Undecided
<1>5. QED
  BY <1>3, <1>4

LEMMA OrphanStep ==
  /\ PayBase /\ PayBase' /\ DbCalm /\ DbCalm' /\ PendingInv' /\ OrphanIsLogged
  /\ [PayNext]_allVars
  => OrphanIsLogged'
<1> DEFINE Open(p) == opened[p.gid] = "open" =>
                        log[p.gid] \notin {"NONE", "INIT", "COMMITTED", "ABORTED"}
<1> SUFFICES ASSUME PayBase, PayBase', DbCalm, DbCalm', PendingInv', OrphanIsLogged,
                    [PayNext]_allVars, DbSound', NEW p \in prepared'
             PROVE  Open(p)'
  BY DEF OrphanIsLogged
<1>0. /\ DbSound /\ PayTypeOK /\ IndInv /\ StateInv /\ FlowInv /\ hs \in [Threads -> Steps]
      /\ \A q \in prepared : Open(q)
      /\ p.gid \in TxnIds
  BY FaultedStays DEF PayBase, PayTypeOK, OrphanIsLogged, DbSound
<1>1. ASSUME NEW t \in Threads, WorkerStep(t) PROVE Open(p)'
  <2>0. DbSide(t) /\ DbSide(t)'
    BY <1>0 DEF DbCalm
  <2>1. CASE p.gid # txnId'[t]
    <3>1. log'[p.gid] = log[p.gid] /\ opened'[p.gid] = opened[p.gid]
      BY <1>0, <1>1, <2>1, OtherIds
    <3>2. p \in prepared
      <4> DEFINE new == [gid |-> txnId[t], job |-> job[t], rows |-> pend[conn[t]]]
      <4>1. prepared' \subseteq prepared \/ (prepared' = prepared \cup {new} /\ hs[t] = "commit")
        BY <1>0, <1>1, PreparedCases
      <4>2. new.gid = txnId[t]
        OBVIOUS
      <4> HIDE DEF new
      <4>3. hs[t] = "commit" => txnId'[t] = txnId[t]
        BY <1>0, <1>1, JobCases DEF Accept
      <4>4. QED
        BY <2>1, <4>1, <4>2, <4>3
    <3>3. QED
      BY <1>0, <3>1, <3>2
  <2>2. CASE p.gid = txnId'[t] /\ hs'[t] # "idle"
    <3>1. WithGid(txnId[t])' # {}
      BY <2>2 DEF WithGid
    <3>2. hs'[t] \in Early \cup {"commit"}
      BY <2>2 DEF PayBase, PayTypeOK, Steps, Early
    <3>3. hs'[t] = "commit" /\ part'[t][1] \in {"PREPARED", "FAILED"}
      BY <2>0, <3>1, <3>2 DEF DbSide
    <3>4. QED
      BY <2>2, <3>3 DEF PendingInv, Undecided
  <2>3. CASE p.gid = txnId'[t] /\ hs'[t] = "idle"
    <3>1. FailReturn(t) \/ UNCHANGED <<log, opened, prepared>>
      <4> USE DEF Step, handler, vars, postgres
      <4>1. ASSUME NEW j \in Jobs PROVE ~Accept(t, j)
        BY <1>0, <2>3 DEF Accept
      <4>2. ASSUME NEW j \in Jobs, AcceptRefused(t, j) PROVE UNCHANGED <<log, opened, prepared>>
        BY <4>2 DEF AcceptRefused, BeginNoMemory
      <4>3. ~Setup(t)
        BY <1>0, <2>3 DEF Setup, InitParticipants, RegisterParticipant, DbBegin, Insert, Fail
      <4>4. ~CoordinatorStep(t)
        BY <2>3 DEF CoordinatorStep, payVars
      <4>5. ~Callback(t)
        <5>1. ASSUME NEW ok \in BOOLEAN PROVE ~DbPrepare(t, ok) /\ ~ClearingPrepare(t, ok)
          BY <1>0, <2>3, PrepareEffect DEF DbPrepare, ClearingPrepare, CallbackAt
        <5>2. ASSUME NEW ok \in BOOLEAN PROVE ~DbCommit(t, ok) /\ ~ClearingCommit(t, ok)
          BY <1>0, <2>3, CommitEffect DEF DbCommit, ClearingCommit, CallbackAt
        <5>3. ~AbortDb(t) /\ ~AbortClearing(t)
          BY <1>0, <2>3, AbortEffect DEF AbortDb, AbortClearing, CallbackAt
        <5>4. QED
          BY <5>1, <5>2, <5>3 DEF Callback
      <4>6. ~(FailAbort(t) \/ FailAbortDb(t) \/ FailAbortClearing(t))
        BY <1>0, <2>3 DEF FailAbort, FailAbortDb, FailAbortClearing, AbortEach, payVars, FlowInv,
                          Flow
      <4>7. CASE Approve(t) \/ Decline(t)
        BY <4>7 DEF Approve, Decline
      <4>8. QED
        BY <1>1, <4>1, <4>2, <4>3, <4>4, <4>5, <4>6, <4>7 DEF WorkerStep, Work, Ending
    <3>2. CASE UNCHANGED <<log, opened, prepared>>
      BY <1>0, <3>2
    <3>3. ~FailReturn(t)
      <4> SUFFICES ASSUME FailReturn(t) PROVE FALSE
        OBVIOUS
      <4>1. UNCHANGED <<txnId, prepared>> /\ pc[t] = "xabort"
        BY DEF FailReturn, AbortReturn, postgres
      <4>2. hs[t] = "failing"
        BY <1>0, <4>1 DEF FlowInv, Flow, Steps
      <4>3. QED
        BY <2>0, <2>3, <4>1, <4>2 DEF DbSide, WithGid, Early
    <3>4. QED
      BY <3>1, <3>2, <3>3
  <2>4. QED
    BY <2>1, <2>2, <2>3
<1>2. CASE (\E t \in Threads : ConnectionLost(t)) \/ ReversalRun \/ Tick \/ PayCrash
           \/ UNCHANGED allVars
  <2>1. UNCHANGED <<log, opened, prepared>>
    BY <1>2 DEF ConnectionLost, ReversalRun, Tick, PayCrash, Crash, allVars, payVars, vars,
                postgres
  <2>2. QED
    BY <1>0, <2>1
<1>3. QED
  BY <1>1, <1>2, StepCases

\* A log that could be opened has a record that is not final for every prepared
\* transaction, also for one that a crash leaves behind, at any number of
\* crashes, whatever is refused and until an answer of the database or a
\* rollback is lost: recovery could find it (transaction_coordinator.h,
\* txn_recover, whose body is missing).
THEOREM OrphansAreLogged == DistinctIds => (PaySpec => []OrphanIsLogged)
<1> SUFFICES ASSUME DistinctIds PROVE PaySpec => []OrphanIsLogged
  OBVIOUS
<1>1. PayInit => OrphanIsLogged
  BY DEF PayInit, OrphanIsLogged
<1>2. CalmInv => DbCalm
  BY DEF CalmInv
<1>3. QED
  BY <1>1, <1>2, CalmAlways, PendingState, OrphanStep, PTL DEF PaySpec
-----------------------------------------------------------------------------
(* Nothing is left over when txn_commit returns *)

\* has_hold is set only while the clearing participant may still be told to
\* commit or to abort (or before and after a request, where nobody looks).
HoldInv ==
  \A t \in Threads : hold[t] =>
    hs[t] \in {"idle", "init", "failing"}
      \/ (hs[t] = "commit" /\ part[t][2] \in {"PREPARED", "FAILED"})

LEMMA HoldOwn ==
  ASSUME PayBase, NEW t \in Threads, WorkerStep(t), HoldInv, hold'[t]
  PROVE  hs'[t] \in {"idle", "init", "failing"}
           \/ (hs'[t] = "commit" /\ part'[t][2] \in {"PREPARED", "FAILED"})
<1> DEFINE Goal == hs'[t] \in {"idle", "init", "failing"}
                     \/ (hs'[t] = "commit" /\ part'[t][2] \in {"PREPARED", "FAILED"})
<1> SUFFICES Goal
  OBVIOUS
<1>0. /\ PayTypeOK /\ IndInv /\ FlowInv /\ hs \in [Threads -> Steps]
      /\ hold \in [Threads -> BOOLEAN]
      /\ hold[t] => hs[t] \in {"idle", "init", "failing"}
                      \/ (hs[t] = "commit" /\ part[t][2] \in {"PREPARED", "FAILED"})
  BY DEF PayBase, PayTypeOK, HoldInv
<1> USE DEF Step, handler, context
<1>1. ASSUME NEW j \in Jobs, Accept(t, j) \/ AcceptRefused(t, j) PROVE Goal
  BY <1>0, <1>1 DEF Accept, AcceptRefused
<1>2. CASE Setup(t)
  <2>1. ~InitParticipants(t)
    BY <1>0 DEF InitParticipants
  <2>2. CASE RegisterParticipant(t) \/ DbBegin(t) \/ Insert(t)
    <3>1. hs[t] \in {"register", "begin", "insert"} /\ hold'[t] = hold[t]
      BY <2>2 DEF RegisterParticipant, DbBegin, Insert
    <3>2. QED
      BY <1>0, <3>1
  <2>3. CASE Fail(t)
    BY <1>0, <2>3 DEF Fail
  <2>4. QED
    BY <1>2, <2>1, <2>2, <2>3 DEF Setup
<1>3. CASE CoordinatorStep(t)
  <2>1. hs[t] = "commit" /\ UNCHANGED <<hs, part, hold>>
    BY <1>3 DEF CoordinatorStep, CommitCall, AllPrepared, CommitStart, Committed, AbortStart,
                Aborted, ReportAborted, object, payVars
  <2>2. QED
    BY <1>0, <2>1
<1>4. ASSUME NEW ok \in BOOLEAN, DbPrepare(t, ok) PROVE Goal
  <2>1. hs[t] = "commit" /\ part[t][2] = "INIT" /\ UNCHANGED hold
    BY <1>0, <1>4, PrepareEffect DEF DbPrepare, CallbackAt
  <2>2. QED
    BY <1>0, <2>1
<1>5. ASSUME NEW ok \in BOOLEAN, ClearingPrepare(t, ok) PROVE Goal
  <2>1. /\ hs[t] = "commit" /\ UNCHANGED hs
        /\ part'[t][2] = IF ok THEN "PREPARED" ELSE "FAILED"
    BY <1>0, <1>5, PrepareEffect DEF ClearingPrepare, CallbackAt
  <2>2. QED
    BY <2>1
<1>6. ASSUME NEW ok \in BOOLEAN, DbCommit(t, ok) PROVE Goal
  <2>1. hs[t] = "commit" /\ part'[t][2] = "PREPARED" /\ UNCHANGED hs
    BY <1>0, <1>6, CommitEffect DEF DbCommit, CallbackAt
  <2>2. QED
    BY <2>1
<1>7. ASSUME NEW ok \in BOOLEAN, ClearingCommit(t, ok) PROVE Goal
  <2>1. /\ hs[t] = "commit" /\ UNCHANGED hs
        /\ part'[t][2] = IF ok THEN "COMMITTED" ELSE "FAILED"
    BY <1>0, <1>7, CommitEffect DEF ClearingCommit, CallbackAt
  <2>2. ~ok
    BY <1>0, <1>7 DEF ClearingCommit
  <2>3. QED
    BY <2>1, <2>2
<1>8. CASE AbortDb(t)
  <2>1. hs[t] = "commit" /\ part'[t][2] = part[t][2] /\ UNCHANGED <<hs, hold>>
    BY <1>0, <1>8, AbortEffect DEF AbortDb, CallbackAt
  <2>2. QED
    BY <1>0, <2>1
<1>9. CASE AbortClearing(t)
  <2>1. /\ hs[t] = "commit" /\ UNCHANGED hs
        /\ part'[t][2] = IF MustAbort(t) THEN "ABORTED" ELSE part[t][2]
    BY <1>0, <1>9, AbortEffect DEF AbortClearing, CallbackAt
  <2>2. ~MustAbort(t) /\ hold'[t] = hold[t]
    BY <1>0, <1>9 DEF AbortClearing
  <2>3. QED
    BY <1>0, <2>1, <2>2
<1>10. CASE Approve(t) \/ Decline(t) \/ FailReturn(t)
  BY <1>0, <1>10 DEF Approve, Decline, FailReturn
<1>11. CASE FailAbort(t) \/ FailAbortDb(t) \/ FailAbortClearing(t)
  <2>1. UNCHANGED hs
    BY <1>11 DEF FailAbort, FailAbortDb, FailAbortClearing, payVars
  <2>2. hs[t] = "failing"
    BY <1>0, <1>11 DEF FailAbort, FailAbortDb, FailAbortClearing, AbortEach, FlowInv, Flow, Steps
  <2>3. QED
    BY <2>1, <2>2
<1>12. QED
  BY <1>1, <1>2, <1>3, <1>4, <1>5, <1>6, <1>7, <1>8, <1>9, <1>10, <1>11
     DEF WorkerStep, Work, Callback, Ending

LEMMA HoldStep == PayBase /\ HoldInv /\ [PayNext]_allVars => HoldInv'
<1> SUFFICES ASSUME PayBase, HoldInv, [PayNext]_allVars, NEW u \in Threads, hold'[u]
             PROVE  hs'[u] \in {"idle", "init", "failing"}
                      \/ (hs'[u] = "commit" /\ part'[u][2] \in {"PREPARED", "FAILED"})
  BY DEF HoldInv
<1>1. CASE WorkerStep(u)
  BY <1>1, HoldOwn
<1>2. ASSUME NEW t \in Threads, WorkerStep(t), u # t PROVE Same(u)
  BY <1>2, Others DEF PayBase
<1>3. CASE Same(u)
  BY <1>3 DEF Same, HoldInv
<1>4. CASE (\E t \in Threads : ConnectionLost(t)) \/ ReversalRun \/ Tick \/ UNCHANGED allVars
  <2>1. UNCHANGED <<hs, part, hold>>
    BY <1>4 DEF ConnectionLost, ReversalRun, Tick, allVars, payVars, vars, object, handler, context
  <2>2. QED
    BY <2>1 DEF HoldInv
<1>5. CASE PayCrash
  BY <1>5 DEF PayCrash
<1>6. QED
  BY <1>1, <1>2, <1>3, <1>4, <1>5, StepCases

LeftInv ==
  crashes = 0 /\ DbSound => \A p \in prepared : \E t \in Threads : job[t] = p.job

\* A request that ends leaves no prepared transaction behind.
LEMMA EndsClean ==
  ASSUME PayBase, NEW t \in Threads, Order(t), DbSide(t), WorkerStep(t), job'[t] # job[t],
         job[t] # NoJob, NEW p \in prepared
  PROVE  p.job # job[t]
<1>0. /\ job \in [Threads -> Jobs \cup {NoJob}] /\ FlowInv /\ IndInv /\ PayTypeOK
      /\ job[t] \in Jobs /\ p.job \in Jobs
  BY DEF PayBase, PayTypeOK
<1>1. WithGid(txnId[t]) = {}
  <2> USE DEF handler, payVars
  <2>1. ASSUME NEW j \in Jobs PROVE ~Accept(t, j) /\ ~AcceptRefused(t, j)
    BY <1>0 DEF Accept, AcceptRefused, FlowInv, Flow
  <2>2. ~(Setup(t) \/ CoordinatorStep(t) \/ Callback(t))
    BY DEF Setup, InitParticipants, RegisterParticipant, DbBegin, Insert, Fail, CoordinatorStep,
           Callback, DbPrepare, ClearingPrepare, DbCommit, ClearingCommit, AbortDb, AbortClearing
  <2>3. ~(FailAbort(t) \/ FailAbortDb(t) \/ FailAbortClearing(t))
    BY DEF FailAbort, FailAbortDb, FailAbortClearing
  <2>4. CASE Approve(t) \/ Decline(t)
    <3>1. hs[t] = "commit" /\ pc[t] = "idle"
      BY <2>4 DEF Approve, Decline
    <3>2. part[t][1] \notin {"PREPARED", "FAILED"}
      BY <3>1, Returned
    <3>3. QED
      BY <3>1, <3>2 DEF DbSide
  <2>5. CASE FailReturn(t)
    <3>1. pc[t] = "xabort"
      BY <2>5 DEF FailReturn, AbortReturn
    <3>2. hs[t] = "failing"
      BY <1>0, <3>1 DEF FlowInv, Flow, PayTypeOK, Steps
    <3>3. QED
      BY <3>2 DEF DbSide, Early
  <2>6. QED
    BY <2>1, <2>2, <2>3, <2>4, <2>5 DEF WorkerStep, Work, Ending
<1>2. txnOf[job[t]] = txnId[t] /\ p.gid = txnOf[p.job]
  BY DEF PayBase, OwnerInv
<1>3. QED
  BY <1>1, <1>2 DEF WithGid

LEMMA LeftStep == PayBase /\ CalmInv /\ LeftInv /\ [PayNext]_allVars => LeftInv'
<1> SUFFICES ASSUME PayBase, CalmInv, LeftInv, [PayNext]_allVars, crashes' = 0, DbSound',
                    NEW p \in prepared'
             PROVE  \E t \in Threads : job'[t] = p.job
  BY DEF LeftInv
<1>0. /\ DbSound /\ PayTypeOK /\ IndInv /\ FlowInv /\ NoJob \notin Jobs
      /\ \A q \in prepared : q.job \in Jobs
      /\ crashes \in Nat
  BY FaultedStays, PaymentAssumption, BoundsAssumption
     DEF PayBase, PayTypeOK, IndInv, TypeOK, DbSound
<1>1. ASSUME NEW t \in Threads, WorkerStep(t) PROVE \E u \in Threads : job'[u] = p.job
  <2>1. crashes = 0
    BY <1>1, QueueGrows
  <2>2. CASE p \in prepared
    <3>1. PICK u \in Threads : job[u] = p.job
      BY <1>0, <2>1, <2>2 DEF LeftInv
    <3>2. CASE u # t
      BY <1>0, <1>1, <3>1, <3>2, Others DEF Same
    <3>3. CASE u = t
      BY <1>0, <1>1, <2>2, <3>1, <3>3, EndsClean
         DEF CalmInv, OrderInv, DbCalm
    <3>4. QED
      BY <3>2, <3>3
  <2>3. CASE p \notin prepared
    <3> DEFINE new == [gid |-> txnId[t], job |-> job[t], rows |-> pend[conn[t]]]
    <3>1. prepared' \subseteq prepared \/ (prepared' = prepared \cup {new} /\ hs[t] = "commit")
      BY <1>0, <1>1, PreparedCases
    <3>2. new.job = job[t]
      OBVIOUS
    <3> HIDE DEF new
    <3>3. p = new /\ hs[t] = "commit"
      BY <2>3, <3>1
    <3>4. job'[t] = job[t]
      <4>1. ~(Approve(t) \/ Decline(t) \/ FailReturn(t))
        BY <2>3 DEF Approve, Decline, FailReturn, postgres
      <4>2. ASSUME NEW j \in Jobs PROVE ~Accept(t, j) /\ ~AcceptRefused(t, j)
        BY <3>3 DEF Accept, AcceptRefused
      <4>3. QED
        BY <1>1, <4>1, <4>2
           DEF WorkerStep, Work, Setup, InitParticipants, RegisterParticipant, DbBegin, Insert,
               Fail, CoordinatorStep, Callback, DbPrepare, ClearingPrepare, DbCommit,
               ClearingCommit, AbortDb, AbortClearing, Ending, FailAbort, FailAbortDb,
               FailAbortClearing, handler, payVars
    <3>5. QED
      BY <3>2, <3>3, <3>4
  <2>4. QED
    BY <2>2, <2>3
<1>2. CASE (\E t \in Threads : ConnectionLost(t)) \/ ReversalRun \/ Tick \/ UNCHANGED allVars
  <2>1. UNCHANGED <<crashes, job, prepared>>
    BY <1>2 DEF ConnectionLost, ReversalRun, Tick, allVars, payVars, vars, handler, postgres
  <2>2. QED
    BY <1>0, <2>1 DEF LeftInv
<1>3. ~PayCrash
  BY <1>0 DEF PayCrash, Crash
<1>4. QED
  BY <1>1, <1>2, <1>3, StepCases

\* Until the first crash, and as long as the database loses nothing, whatever
\* it or clearing refuses, txn_commit returns with nothing prepared, open or
\* held for the request, so that the two destroy functions have nothing to
\* undo, and no prepared transaction outlives its request (db_participant.c,
\* clearing_participant.c, handler.c:495-522).
THEOREM LeavesNothing == DistinctIds => (PaySpec => []NothingLeftOver)
<1> SUFFICES ASSUME DistinctIds PROVE PaySpec => []NothingLeftOver
  OBVIOUS
<1>1. PayInit => HoldInv /\ LeftInv
  BY DEF PayInit, HoldInv, LeftInv
<1>2. PayBase /\ CalmInv /\ HoldInv /\ LeftInv => NothingLeftOver
  <2> SUFFICES ASSUME PayBase, CalmInv, HoldInv, LeftInv, crashes = 0, DbSound
               PROVE  /\ \A p \in prepared : \E t \in Threads : job[t] = p.job
                      /\ \A t \in Threads : hs[t] = "commit" /\ pc[t] = "idle" =>
                           /\ ~dbIn[t] /\ ~hold[t] /\ sess[t] = "idle" /\ pend[t] = {}
                           /\ \A p \in prepared : p.job # job[t]
    BY DEF NothingLeftOver
  <2>1. ASSUME NEW t \in Threads, hs[t] = "commit", pc[t] = "idle"
        PROVE  /\ ~dbIn[t] /\ ~hold[t] /\ sess[t] = "idle" /\ pend[t] = {}
               /\ \A p \in prepared : p.job # job[t]
    <3>1. Order(t) /\ DbSide(t) /\ SessionInv
      BY DEF CalmInv, OrderInv, DbCalm
    <3>2. part[t][1] \in {"COMMITTED", "ABORTED"} /\ part[t][2] \in Settled
      BY <2>1, <3>1, Returned
    <3>3. ~dbIn[t] /\ sess[t] = "idle" /\ WithGid(txnId[t]) = {}
      BY <2>1, <3>1, <3>2 DEF DbSide
    <3>4. pend[t] = {}
      BY <3>1, <3>3 DEF SessionInv
    <3>5. ~hold[t]
      BY <2>1, <3>2 DEF HoldInv, Settled
    <3>6. ASSUME NEW p \in prepared PROVE p.job # job[t]
      <4>1. job[t] # NoJob
        BY <2>1 DEF PayBase, FlowInv, Flow
      <4>2. txnOf[job[t]] = txnId[t] /\ p.gid = txnOf[p.job]
        BY <4>1 DEF PayBase, OwnerInv
      <4>3. QED
        BY <3>3, <4>2 DEF WithGid
    <3>7. QED
      BY <3>3, <3>4, <3>5, <3>6
  <2>2. QED
    BY <2>1 DEF LeftInv
<1>3. QED
  BY <1>1, <1>2, CalmAlways, HoldStep, LeftStep, PTL DEF PaySpec
=============================================================================
