------------------------ MODULE TwoPhaseCommit_proofs ------------------------
(***************************************************************************)
(* Proofs about the coordinator, for every set of threads, coordinators    *)
(* and identifiers, and for every bound.                                   *)
(***************************************************************************)
EXTENDS TwoPhaseCommit, SequenceTheorems, FiniteSetTheorems, TLAPS

\* Writing one cell of an array keeps its type, its length and every other
\* cell.
LEMMA SetCell ==
  ASSUME NEW S, NEW s \in Seq(S), NEW i \in Nat, NEW v \in S
  PROVE  /\ [s EXCEPT ![i] = v] \in Seq(S)
         /\ Len([s EXCEPT ![i] = v]) = Len(s)
         /\ \A j \in 1..Len(s) : [s EXCEPT ![i] = v][j] = IF j = i THEN v ELSE s[j]
<1>1. CASE i \in 1..Len(s)
  BY <1>1, ExceptSeq
<1>2. CASE i \notin 1..Len(s)
  <2>1. DOMAIN s = 1..Len(s)
    OBVIOUS
  <2>2. [s EXCEPT ![i] = v] = s
    BY <1>2, <2>1
  <2>3. QED
    BY <1>2, <2>2
<1>3. QED
  BY <1>1, <1>2

\* What SetPart does to the participants of every thread.
LEMMA SetPartEffect ==
  ASSUME TypeOK, NEW t \in Threads, NEW v \in PartStates, SetPart(t, v)
  PROVE  /\ part' \in [Threads -> Seq(PartStates)]
         /\ \A u \in Threads : Len(part'[u]) = Len(part[u])
         /\ \A u \in Threads : u # t => part'[u] = part[u]
         /\ \A j \in 1..Len(part[t]) :
              part'[t][j] = IF j = idx[t] THEN v ELSE part[t][j]
<1>1. part[t] \in Seq(PartStates) /\ idx[t] \in Nat
  BY DEF TypeOK
<1>2. part' = [part EXCEPT ![t] = [part[t] EXCEPT ![idx[t]] = v]]
  BY DEF SetPart, TypeOK
<1>3. QED
  BY <1>1, <1>2, SetCell DEF TypeOK

\* Rewriting the current cell, or a cell outside the array, is harmless.
LEMMA SetPartType ==
  ASSUME TypeOK, NEW t \in Threads, NEW v, SetPart(t, v), InLoop(t),
         v \in PartStates \/ v = part[t][idx[t]]
  PROVE  /\ part' \in [Threads -> Seq(PartStates)]
         /\ \A u \in Threads : Len(part'[u]) = Len(part[u])
<1>1. CASE v \in PartStates
  BY <1>1, SetPartEffect
<1>2. CASE v = part[t][idx[t]]
  <2>1. part[t] \in Seq(PartStates)
    BY DEF TypeOK
  <2>2. [part[t] EXCEPT ![idx[t]] = part[t][idx[t]]] = part[t]
    BY <2>1
  <2>3. part' = part
    BY <1>2, <2>2 DEF SetPart, TypeOK
  <2>4. QED
    BY <2>3 DEF TypeOK
<1>3. QED
  BY <1>1, <1>2

\* SetState keeps the types of the two variables it writes.
LEMMA SetStateType ==
  ASSUME TypeOK, NEW t \in Threads, NEW s \in TxnStates, SetState(t, s)
  PROVE  /\ txnState' \in [Threads -> TxnStates]
         /\ log' \in [TxnIds -> TxnStates \cup {"NONE"}]
BY CoordOfAssumption DEF TypeOK, SetState, LogState

\* remove_transaction keeps the types of the list and of the heap.
LEMMA RemoveType ==
  ASSUME TypeOK, NEW t \in Threads, RemoveTransaction(CoordOf[t], txnId[t])
  PROVE  /\ active' \in [Coordinators -> SUBSET Threads]
         /\ live' \in [Threads -> BOOLEAN]
<1>1. CASE UNCHANGED <<active, live>>
  BY <1>1 DEF TypeOK
<1>2. ASSUME NEW victim \in Find(CoordOf[t], txnId[t]),
             active' = [active EXCEPT ![CoordOf[t]] = @ \ {victim}],
             live' = [live EXCEPT ![victim] = FALSE]
      PROVE  /\ active' \in [Coordinators -> SUBSET Threads]
             /\ live' \in [Threads -> BOOLEAN]
  BY <1>2, CoordOfAssumption DEF TypeOK, Find
<1>3. QED
  BY <1>1, <1>2 DEF RemoveTransaction

LEMMA TypeInit == Init => TypeOK
BY ThreadsAssumption, BoundsAssumption
   DEF Init, TypeOK, TxnStates, PartStates, Locations, Results, Streams

LEMMA TypeStep == TypeOK /\ [Next]_vars => TypeOK'
<1> SUFFICES ASSUME TypeOK, [Next]_vars PROVE TypeOK'
  OBVIOUS
<1> USE ThreadsAssumption, CoordOfAssumption, BoundsAssumption
<1> USE DEF TxnStates, PartStates, Locations, Results, Streams
<1>1. ASSUME NEW t \in Threads, BeginStep(t) PROVE TypeOK'
  <2>1. ASSUME NEW id \in TxnIds, Begin(t, id) PROVE TypeOK'
    <3>1. PICK s \in Streams : stream' = [stream EXCEPT ![CoordOf[t]] = s]
      BY <2>1 DEF Begin, OpenLog, TypeOK
    <3>2. /\ stream' \in [Coordinators -> Streams] /\ opened' \in [TxnIds -> Streams]
          /\ log' \in [TxnIds -> TxnStates \cup {"NONE"}]
      BY <2>1, <3>1 DEF TypeOK, Begin
    <3>3. /\ txnId' = [txnId EXCEPT ![t] = id]
          /\ txnState' = [txnState EXCEPT ![t] = "INIT"]
          /\ part' = [part EXCEPT ![t] = <<>>]
          /\ votes' = [votes EXCEPT ![t] = {}]
          /\ live' = [live EXCEPT ![t] = TRUE]
          /\ active' = [active EXCEPT ![CoordOf[t]] = @ \cup {t}]
          /\ begun' = begun + 1 /\ begun < MaxBegins
          /\ pc' = [pc EXCEPT ![t] = "open"] /\ ret' = [ret EXCEPT ![t] = "handle"]
          /\ UNCHANGED <<lock, idx, metrics, crashes>>
      BY <2>1 DEF Begin, Goto, Return
    <3>4. QED
      BY <3>2, <3>3 DEF TypeOK
  <2>2. ASSUME NEW id \in TxnIds,
               BeginRefused(t, id) \/ BeginNoMemory(t, id) \/ GetById(t, id)
        PROVE  TypeOK'
    BY <2>2 DEF TypeOK, BeginRefused, BeginNoMemory, GetById, Return, object
  <2>3. CASE Register(t)
    BY <2>3 DEF TypeOK, Register, Return
  <2>4. CASE RegisterRefused(t)
    BY <2>4 DEF TypeOK, RegisterRefused, Return, object
  <2>5. QED
    BY <1>1, <2>1, <2>2, <2>3, <2>4 DEF BeginStep
<1>2. ASSUME NEW t \in Threads, CommitStep(t) PROVE TypeOK'
  <2>1. CASE CommitCall(t)
    BY <2>1, SetStateType DEF TypeOK, CommitCall, Loop, Goto
  <2>2. ASSUME NEW ok \in BOOLEAN, PrepareOne(t, ok) PROVE TypeOK'
    <3>1. \E v \in PartStates : SetPart(t, v)
      BY <2>2 DEF PrepareOne
    <3>2. /\ part' \in [Threads -> Seq(PartStates)]
          /\ \A u \in Threads : Len(part'[u]) = Len(part[u])
      BY <3>1, SetPartEffect
    <3>3. /\ \/ votes' = [votes EXCEPT ![t] = @ \cup {idx[t]}] /\ Advance(t)
             \/ UNCHANGED <<votes, idx>>
          /\ UNCHANGED <<lock, active, txnId, txnState, live, pc, ret, log,
                        metrics, begun, crashes, stream, opened>>
      BY <2>2 DEF PrepareOne
    <3>a. votes[t] \cup {idx[t]} \in SUBSET Nat
      BY DEF TypeOK
    <3>b. votes \in [Threads -> SUBSET Nat] /\ idx \in [Threads -> Nat]
      BY DEF TypeOK
    <3>c. votes' \in [Threads -> SUBSET Nat]
      BY <3>3, <3>a, <3>b
    <3>d. idx' \in [Threads -> Nat]
      BY <3>3, <3>b DEF Advance
    <3>4. votes' \in [Threads -> SUBSET Nat] /\ idx' \in [Threads -> Nat]
      BY <3>c, <3>d
    <3>5. QED
      BY <3>2, <3>3, <3>4 DEF TypeOK
  <2>3. CASE AllPrepared(t)
    BY <2>3, SetStateType DEF TypeOK, AllPrepared, Goto
  <2>4. CASE CommitStart(t)
    BY <2>4, SetStateType DEF TypeOK, CommitStart, Loop, Goto
  <2>5. ASSUME NEW ok \in BOOLEAN, CommitOne(t, ok) PROVE TypeOK'
    <3>1. \E v : SetPart(t, v) /\ (v \in PartStates \/ v = part[t][idx[t]])
      BY <2>5 DEF CommitOne
    <3>2. /\ part' \in [Threads -> Seq(PartStates)]
          /\ \A u \in Threads : Len(part'[u]) = Len(part[u])
      BY <2>5, <3>1, SetPartType DEF CommitOne
    <3>3. /\ Advance(t)
          /\ UNCHANGED <<lock, active, txnId, txnState, live, votes, pc, ret, log,
                        metrics, begun, crashes, stream, opened>>
      BY <2>5 DEF CommitOne
    <3>4. QED
      BY <3>2, <3>3 DEF TypeOK, Advance
  <2>6. CASE Committed(t)
    BY <2>6, SetStateType, RemoveType DEF TypeOK, Committed, Goto, Return
  <2>7. CASE AbortStart(t)
    BY <2>7, SetStateType DEF TypeOK, AbortStart, Loop, Goto
  <2>8. CASE AbortOne(t)
    <3>1. \E v : SetPart(t, v) /\ (v \in PartStates \/ v = part[t][idx[t]])
      BY <2>8 DEF AbortOne
    <3>2. /\ part' \in [Threads -> Seq(PartStates)]
          /\ \A u \in Threads : Len(part'[u]) = Len(part[u])
      BY <2>8, <3>1, SetPartType DEF AbortOne
    <3>3. /\ Advance(t)
          /\ UNCHANGED <<lock, active, txnId, txnState, live, votes, pc, ret, log,
                        metrics, begun, crashes, stream, opened>>
      BY <2>8 DEF AbortOne
    <3>4. QED
      BY <3>2, <3>3 DEF TypeOK, Advance
  <2>9. CASE Aborted(t)
    BY <2>9, SetStateType, RemoveType DEF TypeOK, Aborted, Goto
  <2>10. CASE ReportAborted(t)
    BY <2>10 DEF TypeOK, ReportAborted, Goto, Return, object
  <2>11. QED
    BY <1>2, <2>1, <2>2, <2>3, <2>4, <2>5, <2>6, <2>7, <2>8, <2>9, <2>10 DEF CommitStep
<1>3. ASSUME NEW t \in Threads, AbortStep(t) PROVE TypeOK'
  <2>1. CASE AbortCall(t)
    BY <2>1, SetStateType DEF TypeOK, AbortCall, Loop, Goto
  <2>2. CASE AbortEach(t)
    BY <2>2, SetPartEffect DEF TypeOK, AbortEach, Advance
  <2>3. CASE AbortReturn(t)
    BY <2>3, SetStateType, RemoveType DEF TypeOK, AbortReturn, Goto, Return
  <2>4. QED
    BY <1>3, <2>1, <2>2, <2>3 DEF AbortStep
<1>4. CASE Crash
  BY <1>4 DEF TypeOK, Crash
<1>5. CASE UNCHANGED vars
  BY <1>5 DEF TypeOK, vars, object, thread
<1>6. QED
  BY <1>1, <1>2, <1>3, <1>4, <1>5 DEF Next

\* Type correctness of the coordinator: every state of every behaviour,
\* crashes included, is well typed, and no participants array outgrows
\* MAX_PARTICIPANTS (transaction_coordinator.c:194).
THEOREM TypeCorrect == Spec => []TypeOK
BY TypeInit, TypeStep, PTL DEF Spec
-----------------------------------------------------------------------------
(***************************************************************************)
(* The inductive invariant.  ListInv ties the list, the heap and the       *)
(* program counters together: removal by identifier frees the caller's own *)
(* object only because identifiers are unique in a list.  PhaseInv says,   *)
(* for one thread, how far each loop has come: which cells of the          *)
(* participants array it has written and who has voted.                    *)
(***************************************************************************)
ListInv ==
  /\ \A t \in Threads :
       Owns(t) => live[t] /\ t \in active[CoordOf[t]] /\ txnId[t] \in TxnIds
  /\ \A c \in Coordinators : \A t \in active[c] : CoordOf[t] = c /\ Owns(t)
  /\ \A c \in Coordinators : \A t, u \in active[c] : txnId[t] = txnId[u] => t = u

\* The kinds of cells a loop leaves behind it or still has ahead.
Fresh == {"INIT"}
Unprepared == {"INIT", "FAILED"}
Voted == {"PREPARED"}
Told == {"COMMITTED", "FAILED"}
Settled == {"INIT", "COMMITTED", "ABORTED"}
Kept == {"COMMITTED"}
Undone == {"ABORTED"}
NotDone == PartStates \ {"COMMITTED"}
Over == {"COMMITTED", "FAILED", "ABORTED"}
Refused == {"FAILED", "ABORTED"}

Cells(p, lo, hi, S) == \A i \in lo..hi : p[i] \in S

Reached(p, k) == k \in 1..(Len(p) + 1)

\* An abort in progress: some participant refused, and either none has
\* committed or all had voted yes and have been told to commit.
Undoing(t) ==
  LET n == Len(part[t]) IN
  /\ \E i \in 1..n : part[t][i] \in Refused
  /\ Cells(part[t], 1, n, NotDone) \/ (votes[t] = 1..n /\ Cells(part[t], 1, n, Over))

PhaseInv(t) ==
  LET n == Len(part[t]) IN
  /\ pc[t] = "open" => votes[t] = {} /\ Cells(part[t], 1, n, Fresh)
  /\ pc[t] = "prepare" =>
       /\ Reached(part[t], idx[t]) /\ votes[t] = 1..(idx[t] - 1)
       /\ Cells(part[t], 1, idx[t] - 1, Voted)
       /\ Cells(part[t], idx[t], n, Unprepared)
  /\ pc[t] = "decided" => votes[t] = 1..n /\ Cells(part[t], 1, n, Voted)
  /\ pc[t] = "commit" =>
       /\ Reached(part[t], idx[t]) /\ votes[t] = 1..n
       /\ Cells(part[t], 1, idx[t] - 1, Told)
       /\ Cells(part[t], idx[t], n, Voted)
  /\ pc[t] = "abort" =>
       /\ Reached(part[t], idx[t]) /\ Cells(part[t], 1, idx[t] - 1, Settled)
       /\ Undoing(t)
  /\ pc[t] = "report" => Cells(part[t], 1, n, Settled) /\ Undoing(t)
  /\ pc[t] = "xabort" =>
       /\ Reached(part[t], idx[t]) /\ Cells(part[t], 1, idx[t] - 1, Undone)
       /\ Cells(part[t], idx[t], n, Fresh)
  /\ pc[t] # "idle" => ret[t] \in {"handle", "ok", "fail"}
  /\ Cells(part[t], 1, n, NotDone) \/ votes[t] = 1..n
  /\ ret[t] = "committed" => Cells(part[t], 1, n, Kept)
  /\ ret[t] = "aborted" => Cells(part[t], 1, n, Settled) /\ Undoing(t)
  /\ ret[t] = "void" => Cells(part[t], 1, n, Undone)

AllPhases == \A t \in Threads : PhaseInv(t)

IndInv == TypeOK /\ ListInv /\ AllPhases

\* A step that leaves the thread's own cells alone keeps its phase.
LEMMA PhaseFrame ==
  ASSUME NEW t \in Threads, PhaseInv(t),
         pc'[t] = pc[t], idx'[t] = idx[t], part'[t] = part[t],
         votes'[t] = votes[t], ret'[t] = ret[t]
  PROVE  PhaseInv(t)'
BY DEF PhaseInv, Cells, Reached, Undoing

\* remove_transaction, called by a thread on its own identifier, frees that
\* thread's object and takes it, and no other, off the list.
LEMMA RemoveOwn ==
  ASSUME TypeOK, ListInv, NEW t \in Threads, Owns(t),
         RemoveTransaction(CoordOf[t], txnId[t])
  PROVE  /\ active' = [active EXCEPT ![CoordOf[t]] = @ \ {t}]
         /\ live' = [live EXCEPT ![t] = FALSE]
<1>1. t \in Find(CoordOf[t], txnId[t])
  BY DEF ListInv, Find
<1>2. \A u \in Find(CoordOf[t], txnId[t]) : u = t
  BY <1>1, CoordOfAssumption DEF ListInv, Find, TypeOK
<1>3. QED
  BY <1>1, <1>2 DEF RemoveTransaction

\* A thread that ends its transaction leaves the other transactions listed.
LEMMA ListLeave ==
  ASSUME TypeOK, ListInv, NEW t \in Threads, Owns(t),
         RemoveTransaction(CoordOf[t], txnId[t]),
         NEW where \in {"idle", "report"},
         pc' = [pc EXCEPT ![t] = where], UNCHANGED txnId
  PROVE  ListInv'
<1>1. /\ active' = [active EXCEPT ![CoordOf[t]] = @ \ {t}]
      /\ live' = [live EXCEPT ![t] = FALSE]
  BY RemoveOwn
<1>2. QED
  BY <1>1, CoordOfAssumption DEF ListInv, TypeOK, Owns

\* A step inside a transaction keeps the list as it is.
LEMMA ListStay ==
  ASSUME TypeOK, ListInv, NEW t \in Threads, Owns(t),
         NEW where, where \notin {"idle", "report"},
         pc' = [pc EXCEPT ![t] = where] \/ UNCHANGED pc,
         UNCHANGED <<active, live, txnId>>
  PROVE  ListInv'
<1>1. \A u \in Threads : Owns(u)' = Owns(u)
  BY DEF TypeOK, Owns
<1>2. \A c \in Coordinators : active[c] \subseteq Threads
  BY DEF TypeOK
<1>3. QED
  BY <1>1, <1>2 DEF ListInv

LEMMA ListStep == TypeOK /\ ListInv /\ [Next]_vars => ListInv'
<1> SUFFICES ASSUME TypeOK, ListInv, [Next]_vars PROVE ListInv'
  OBVIOUS
<1>1. ASSUME NEW t \in Threads, BeginStep(t) PROVE ListInv'
  <2>1. ASSUME NEW id \in TxnIds, Begin(t, id) PROVE ListInv'
    <3>1. \A u \in active[CoordOf[t]] : txnId[u] # id
      BY <2>1 DEF Begin, Find
    <3>2. /\ pc[t] = "idle"
          /\ txnId' = [txnId EXCEPT ![t] = id]
          /\ live' = [live EXCEPT ![t] = TRUE]
          /\ active' = [active EXCEPT ![CoordOf[t]] = @ \cup {t}]
          /\ pc' = [pc EXCEPT ![t] = "open"]
      BY <2>1 DEF Begin, Goto
    <3>a. /\ \A u \in Threads : Owns(u) =>
               live[u] /\ u \in active[CoordOf[u]] /\ txnId[u] \in TxnIds
          /\ \A c \in Coordinators : \A u \in active[c] : CoordOf[u] = c /\ Owns(u)
          /\ \A c \in Coordinators : \A u, v \in active[c] : txnId[u] = txnId[v] => u = v
      BY DEF ListInv
    <3>b. /\ active \in [Coordinators -> SUBSET Threads] /\ CoordOf \in [Threads -> Coordinators]
          /\ txnId \in [Threads -> TxnIds \cup {NoTxn}] /\ live \in [Threads -> BOOLEAN]
          /\ pc \in [Threads -> Locations]
      BY CoordOfAssumption DEF TypeOK
    <3>c. ~Owns(t) /\ Owns(t)' /\ \A u \in Threads : u # t => Owns(u)' = Owns(u)
      BY <3>2, <3>b DEF Owns
    <3>3. \A u \in Threads : Owns(u)' =>
            live'[u] /\ u \in active'[CoordOf[u]] /\ txnId'[u] \in TxnIds
      BY <3>2, <3>a, <3>b, <3>c
    <3>4. \A c \in Coordinators : \A u \in active'[c] : CoordOf[u] = c /\ Owns(u)'
      BY <3>2, <3>a, <3>b, <3>c
    <3>5. t \notin active[CoordOf[t]]
      BY <3>2, <3>a, <3>b, <3>c
    <3>6. ASSUME NEW c \in Coordinators, NEW u \in active'[c], NEW v \in active'[c],
                 txnId'[u] = txnId'[v]
          PROVE  u = v
      <4>1. CASE c = CoordOf[t]
        BY <4>1, <3>1, <3>2, <3>a, <3>b, <3>c, <3>5, <3>6
      <4>2. CASE c # CoordOf[t]
        <5>1. active'[c] = active[c] /\ u # t /\ v # t
          BY <4>2, <3>2, <3>a, <3>b, <3>c
        <5>2. QED
          BY <5>1, <3>2, <3>a, <3>b, <3>6
      <4>3. QED
        BY <4>1, <4>2
    <3>7. QED
      BY <3>3, <3>4, <3>6 DEF ListInv
  <2>2. ASSUME NEW id \in TxnIds,
               BeginRefused(t, id) \/ BeginNoMemory(t, id) \/ GetById(t, id)
        PROVE  ListInv'
    BY <2>2 DEF ListInv, Owns, BeginRefused, BeginNoMemory, GetById, object
  <2>3. CASE Register(t) \/ RegisterRefused(t)
    BY <2>3 DEF ListInv, Owns, Register, RegisterRefused, object
  <2>4. QED
    BY <1>1, <2>1, <2>2, <2>3 DEF BeginStep
<1>2. ASSUME NEW t \in Threads, CommitStep(t) PROVE ListInv'
  <2>1. CASE CommitCall(t)
    BY <2>1, ListStay DEF Owns, CommitCall, Loop, Goto
  <2>2. ASSUME NEW ok \in BOOLEAN, PrepareOne(t, ok) PROVE ListInv'
    BY <2>2, ListStay DEF Owns, PrepareOne
  <2>3. CASE AllPrepared(t)
    BY <2>3, ListStay DEF Owns, AllPrepared, Goto
  <2>4. CASE CommitStart(t)
    BY <2>4, ListStay DEF Owns, CommitStart, Loop, Goto
  <2>5. ASSUME NEW ok \in BOOLEAN, CommitOne(t, ok) PROVE ListInv'
    BY <2>5, ListStay DEF Owns, CommitOne
  <2>6. CASE Committed(t)
    BY <2>6, ListLeave DEF Owns, Committed, Goto
  <2>7. CASE AbortStart(t)
    BY <2>7, ListStay DEF Owns, AbortStart, Loop, Goto
  <2>8. CASE AbortOne(t)
    BY <2>8, ListStay DEF Owns, AbortOne
  <2>9. CASE Aborted(t)
    BY <2>9, ListLeave DEF Owns, Aborted, Goto
  <2>10. CASE ReportAborted(t)
    <3>1. /\ UNCHANGED <<active, live, txnId>>
          /\ \A u \in Threads : Owns(u)' = Owns(u)
      BY <2>10 DEF ReportAborted, Goto, Owns, object, TypeOK
    <3>2. \A c \in Coordinators : active[c] \subseteq Threads
      BY DEF TypeOK
    <3>3. QED
      BY <3>1, <3>2 DEF ListInv
  <2>11. QED
    BY <1>2, <2>1, <2>2, <2>3, <2>4, <2>5, <2>6, <2>7, <2>8, <2>9, <2>10 DEF CommitStep
<1>3. ASSUME NEW t \in Threads, AbortStep(t) PROVE ListInv'
  <2>1. CASE AbortCall(t)
    BY <2>1, ListStay DEF Owns, AbortCall, Loop, Goto
  <2>2. CASE AbortEach(t)
    BY <2>2, ListStay DEF Owns, AbortEach
  <2>3. CASE AbortReturn(t)
    BY <2>3, ListLeave DEF Owns, AbortReturn, Goto
  <2>4. QED
    BY <1>3, <2>1, <2>2, <2>3 DEF AbortStep
<1>4. CASE Crash
  BY <1>4 DEF Crash, ListInv, Owns
<1>5. CASE UNCHANGED vars
  BY <1>5 DEF ListInv, Owns, vars, object, thread
<1>6. QED
  BY <1>1, <1>2, <1>3, <1>4, <1>5 DEF Next

\* One step of thread t keeps the phase of every other thread: each action
\* writes only its own cells.
LEMMA PhaseOthers ==
  ASSUME TypeOK, AllPhases, NEW t \in Threads,
         BeginStep(t) \/ CommitStep(t) \/ AbortStep(t),
         NEW u \in Threads, u # t
  PROVE  PhaseInv(u)'
<1>1. /\ pc'[u] = pc[u] /\ idx'[u] = idx[u] /\ votes'[u] = votes[u]
      /\ ret'[u] = ret[u] /\ part'[u] = part[u]
  BY DEF TypeOK, BeginStep, CommitStep, AbortStep, Begin, BeginRefused,
         BeginNoMemory, GetById, Register, RegisterRefused, CommitCall,
         PrepareOne, AllPrepared, CommitStart, CommitOne, Committed, AbortStart,
         AbortOne, Aborted, ReportAborted, AbortCall, AbortEach, AbortReturn, Goto, Loop,
         Advance, Return, SetPart, object
<1>2. QED
  BY <1>1, PhaseFrame DEF AllPhases

\* One turn of a loop: the cell at the index gets a value v of the processed
\* kind A, and the index moves on.
LEMMA LoopTurn ==
  ASSUME TypeOK, NEW t \in Threads, NEW v \in PartStates, SetPart(t, v),
         Advance(t), InLoop(t), Reached(part[t], idx[t]), NEW A, NEW B, v \in A,
         Cells(part[t], 1, idx[t] - 1, A), Cells(part[t], idx[t], Len(part[t]), B)
  PROVE  /\ Len(part'[t]) = Len(part[t]) /\ Reached(part'[t], idx'[t])
         /\ Cells(part'[t], 1, idx'[t] - 1, A)
         /\ Cells(part'[t], idx'[t], Len(part'[t]), B)
         /\ \A i \in 1..Len(part[t]) : part'[t][i] \in A \cup B
<1> DEFINE n == Len(part[t])
           k == idx[t]
           q == part'[t]
<1>1. /\ n \in Nat /\ k \in 1..n /\ idx'[t] = k + 1
  BY DEF TypeOK, Reached, InLoop, Advance
<1>2. /\ Len(q) = n
      /\ \A j \in 1..n : q[j] = IF j = k THEN v ELSE part[t][j]
  BY SetPartEffect
<1>3. /\ \A i \in 1..(k - 1) : part[t][i] \in A
      /\ \A i \in k..n : part[t][i] \in B
  BY DEF Cells
<1> HIDE DEF n, k, q
<1>4. \A i \in 1..((k + 1) - 1) : q[i] \in A
  BY <1>1, <1>2, <1>3
<1>5. \A i \in (k + 1)..n : q[i] \in B
  BY <1>1, <1>2, <1>3
<1>6. ASSUME NEW i \in 1..n PROVE q[i] \in A \cup B
  <2>1. CASE i <= k
    BY <1>1, <1>4, <2>1
  <2>2. CASE i > k
    BY <1>1, <1>5, <2>2
  <2>3. QED
    BY <1>1, <2>1, <2>2
<1>7. k + 1 \in 1..(n + 1)
  BY <1>1
<1>8. QED
  BY <1>1, <1>2, <1>4, <1>5, <1>6, <1>7 DEF Cells, Reached, n, k, q

LEMMA PhaseBegin ==
  ASSUME TypeOK, NEW t \in Threads, PhaseInv(t), BeginStep(t)
  PROVE  PhaseInv(t)'
<1> USE DEF TypeOK
<1>1. ASSUME NEW id \in TxnIds, Begin(t, id) PROVE PhaseInv(t)'
  <2>1. /\ pc'[t] = "open" /\ part'[t] = <<>> /\ votes'[t] = {} /\ ret'[t] = "handle"
    BY <1>1 DEF Begin, Goto, Return
  <2>2. QED
    BY <2>1 DEF PhaseInv, Cells, Reached, Undoing
<1>2. ASSUME NEW id \in TxnIds,
             BeginRefused(t, id) \/ BeginNoMemory(t, id) \/ GetById(t, id)
      PROVE  PhaseInv(t)'
  <2>1. /\ pc[t] = "idle" /\ ret'[t] \in {"null", "found"}
        /\ UNCHANGED <<pc, part, votes, idx>>
    BY <1>2 DEF BeginRefused, BeginNoMemory, GetById, Return, object
  <2>2. QED
    BY <2>1 DEF PhaseInv
<1>3. CASE Register(t)
  <2>1. /\ pc[t] = "open" /\ part'[t] = Append(part[t], "INIT") /\ ret'[t] = "ok"
        /\ UNCHANGED <<pc, votes, idx>>
    BY <1>3 DEF Register, Return
  <2>2. /\ Len(part'[t]) = Len(part[t]) + 1
        /\ \A i \in 1..Len(part'[t]) : part'[t][i] = "INIT"
    BY <2>1 DEF PhaseInv, Cells, Fresh
  <2>3. Cells(part'[t], 1, Len(part'[t]), Fresh) /\ Cells(part'[t], 1, Len(part'[t]), NotDone)
    BY <2>2 DEF Cells, Fresh, NotDone, PartStates
  <2>4. QED
    BY <2>1, <2>3 DEF PhaseInv
<1>4. CASE RegisterRefused(t)
  <2>1. /\ pc[t] = "open" /\ ret'[t] = "fail" /\ UNCHANGED <<pc, part, votes, idx>>
    BY <1>4 DEF RegisterRefused, Return, object
  <2>2. QED
    BY <2>1 DEF PhaseInv
<1>5. QED
  BY <1>1, <1>2, <1>3, <1>4 DEF BeginStep

LEMMA PhasePrepareOne ==
  ASSUME TypeOK, NEW t \in Threads, PhaseInv(t), NEW ok \in BOOLEAN, PrepareOne(t, ok)
  PROVE  PhaseInv(t)'
<1>1. /\ pc[t] = "prepare" /\ InLoop(t) /\ UNCHANGED <<pc, ret>>
      /\ \/ /\ SetPart(t, "PREPARED") /\ Advance(t)
            /\ votes' = [votes EXCEPT ![t] = @ \cup {idx[t]}]
         \/ /\ SetPart(t, "FAILED") /\ UNCHANGED <<votes, idx>>
  BY DEF PrepareOne
<1>2. /\ Reached(part[t], idx[t]) /\ votes[t] = 1..(idx[t] - 1)
      /\ Cells(part[t], 1, idx[t] - 1, Voted)
      /\ Cells(part[t], idx[t], Len(part[t]), Unprepared)
      /\ ret[t] \in {"handle", "ok", "fail"}
  BY <1>1 DEF PhaseInv
<1>3. CASE /\ SetPart(t, "PREPARED") /\ Advance(t)
           /\ votes' = [votes EXCEPT ![t] = @ \cup {idx[t]}]
  <2>1. "PREPARED" \in PartStates /\ "PREPARED" \in Voted
    BY DEF PartStates, Voted
  <2>2. /\ Len(part'[t]) = Len(part[t]) /\ Reached(part'[t], idx'[t])
        /\ Cells(part'[t], 1, idx'[t] - 1, Voted)
        /\ Cells(part'[t], idx'[t], Len(part'[t]), Unprepared)
        /\ \A i \in 1..Len(part[t]) : part'[t][i] \in Voted \cup Unprepared
    BY <1>1, <1>2, <1>3, <2>1, LoopTurn
  <2>3. Cells(part'[t], 1, Len(part'[t]), NotDone)
    BY <2>2 DEF Cells, Voted, Unprepared, NotDone, PartStates
  <2>4. votes'[t] = 1..(idx'[t] - 1)
    BY <1>2, <1>3 DEF Advance, Reached, TypeOK
  <2>5. QED
    BY <1>1, <1>2, <2>2, <2>3, <2>4 DEF PhaseInv
<1>4. CASE SetPart(t, "FAILED") /\ UNCHANGED <<votes, idx>>
  <2>1. /\ Len(part'[t]) = Len(part[t])
        /\ \A j \in 1..Len(part[t]) :
             part'[t][j] = IF j = idx[t] THEN "FAILED" ELSE part[t][j]
    BY <1>4, SetPartEffect DEF PartStates
  <2>2. Len(part[t]) \in Nat /\ idx[t] \in 1..Len(part[t])
    BY <1>1, <1>2 DEF InLoop, Reached, TypeOK
  <2>3. Cells(part'[t], 1, idx[t] - 1, Voted)
    BY <1>2, <2>1, <2>2 DEF Cells
  <2>4. Cells(part'[t], idx[t], Len(part[t]), Unprepared)
    BY <1>2, <2>1, <2>2 DEF Cells, Unprepared
  <2>5. Cells(part'[t], 1, Len(part[t]), NotDone)
    BY <2>2, <2>3, <2>4 DEF Cells, Voted, Unprepared, NotDone, PartStates
  <2>6. Reached(part'[t], idx[t])
    BY <1>2, <2>1 DEF Reached
  <2>7. /\ pc'[t] = "prepare" /\ idx'[t] = idx[t] /\ votes'[t] = votes[t]
        /\ ret'[t] = ret[t]
    BY <1>1, <1>4
  <2>8. QED
    BY <1>2, <2>1, <2>3, <2>4, <2>5, <2>6, <2>7 DEF PhaseInv
<1>5. QED
  BY <1>1, <1>3, <1>4

LEMMA PhaseCommitOne ==
  ASSUME TypeOK, NEW t \in Threads, PhaseInv(t), NEW ok \in BOOLEAN, CommitOne(t, ok)
  PROVE  PhaseInv(t)'
<1>1. /\ pc[t] = "commit" /\ InLoop(t) /\ UNCHANGED <<pc, ret, votes>> /\ Advance(t)
  BY DEF CommitOne
<1>2. /\ Reached(part[t], idx[t]) /\ votes[t] = 1..Len(part[t])
      /\ Cells(part[t], 1, idx[t] - 1, Told)
      /\ Cells(part[t], idx[t], Len(part[t]), Voted)
      /\ ret[t] \in {"handle", "ok", "fail"}
  BY <1>1 DEF PhaseInv
<1>3. part[t][idx[t]] = "PREPARED"
  BY <1>1, <1>2 DEF Cells, Voted, InLoop, Reached, TypeOK
<1>4. \E v \in Told : SetPart(t, v)
  BY <1>3 DEF CommitOne, Told
<1>5. PICK v \in Told : SetPart(t, v)
  BY <1>4
<1>6. v \in PartStates
  BY DEF Told, PartStates
<1>7. /\ Len(part'[t]) = Len(part[t]) /\ Reached(part'[t], idx'[t])
      /\ Cells(part'[t], 1, idx'[t] - 1, Told)
      /\ Cells(part'[t], idx'[t], Len(part'[t]), Voted)
  BY <1>1, <1>2, <1>5, <1>6, LoopTurn
<1>8. QED
  BY <1>1, <1>2, <1>7 DEF PhaseInv

LEMMA PhaseAbortOne ==
  ASSUME TypeOK, NEW t \in Threads, PhaseInv(t), AbortOne(t)
  PROVE  PhaseInv(t)'
<1>1. /\ pc[t] = "abort" /\ InLoop(t) /\ UNCHANGED <<pc, ret, votes>> /\ Advance(t)
  BY DEF AbortOne
<1>2. /\ Reached(part[t], idx[t]) /\ Cells(part[t], 1, idx[t] - 1, Settled)
      /\ ret[t] \in {"handle", "ok", "fail"} /\ Undoing(t)
  BY <1>1 DEF PhaseInv, Owns
<1>3. /\ Len(part[t]) \in Nat /\ idx[t] \in 1..Len(part[t])
      /\ part[t][idx[t]] \in PartStates
      /\ Cells(part[t], idx[t], Len(part[t]), PartStates)
  BY <1>1, <1>2 DEF Cells, InLoop, Reached, TypeOK
<1>4. PICK v \in Settled :
        /\ SetPart(t, v) /\ (part[t][idx[t]] \in Refused => v \in Refused)
        /\ part[t][idx[t]] \in NotDone => v \in NotDone
        /\ part[t][idx[t]] \in Over => v \in Over
  BY <1>3 DEF AbortOne, MustAbort, Settled, Refused, NotDone, Over, PartStates
<1>5. v \in PartStates
  BY DEF Settled, PartStates
<1>6. /\ Len(part'[t]) = Len(part[t]) /\ Reached(part'[t], idx'[t])
      /\ Cells(part'[t], 1, idx'[t] - 1, Settled)
  BY <1>1, <1>2, <1>3, <1>4, <1>5, LoopTurn
<1>7. \A i \in 1..Len(part[t]) :
        part'[t][i] = IF i = idx[t] THEN v ELSE part[t][i]
  BY <1>4, <1>5, SetPartEffect
<1>8. Undoing(t)'
  <2>1. PICK i \in 1..Len(part[t]) : part[t][i] \in Refused
    BY <1>2 DEF Undoing
  <2>2. part'[t][i] \in Refused
    BY <1>4, <1>7, <2>1
  <2>3. Cells(part[t], 1, Len(part[t]), NotDone) => Cells(part'[t], 1, Len(part[t]), NotDone)
    BY <1>3, <1>4, <1>7 DEF Cells
  <2>4. Cells(part[t], 1, Len(part[t]), Over) => Cells(part'[t], 1, Len(part[t]), Over)
    BY <1>3, <1>4, <1>7 DEF Cells
  <2>5. QED
    BY <1>1, <1>2, <1>6, <2>2, <2>3, <2>4 DEF Undoing
<1>9. Cells(part'[t], 1, Len(part'[t]), NotDone) \/ votes'[t] = 1..Len(part'[t])
  BY <1>8 DEF Undoing
<1>10. QED
  BY <1>1, <1>2, <1>6, <1>8, <1>9 DEF PhaseInv

LEMMA PhaseCommit ==
  ASSUME TypeOK, NEW t \in Threads, PhaseInv(t), CommitStep(t)
  PROVE  PhaseInv(t)'
<1> USE DEF TypeOK, PartStates, Cells, Reached, Fresh, Unprepared, Voted, Told,
            Settled, Kept, Undone, NotDone, Over, Refused, Undoing
<1>1. CASE CommitCall(t)
  BY <1>1 DEF CommitCall, Loop, Goto, PhaseInv
<1>2. CASE AllPrepared(t)
  BY <1>2 DEF AllPrepared, Goto, PhaseInv, InLoop
<1>3. CASE CommitStart(t)
  BY <1>3 DEF CommitStart, Loop, Goto, PhaseInv
<1>4. CASE Committed(t)
  BY <1>4 DEF Committed, Goto, Return, PhaseInv, InLoop, SomeFailed
<1>5. CASE AbortStart(t)
  <2>1. /\ pc'[t] = "abort" /\ idx'[t] = 1 /\ UNCHANGED <<part, votes, ret>>
        /\ pc[t] = "prepare" \/ (pc[t] = "commit" /\ ~InLoop(t))
        /\ \E i \in 1..Len(part[t]) : part[t][i] = "FAILED"
    BY <1>5 DEF AbortStart, Loop, Goto, SomeFailed
  <2>2. CASE pc[t] = "prepare"
    <3>1. \A i \in 1..Len(part[t]) : part[t][i] \in NotDone
      <4> SUFFICES ASSUME NEW i \in 1..Len(part[t]) PROVE part[t][i] \in NotDone
        OBVIOUS
      <4>1. i \in 1..(idx[t] - 1) \/ i \in idx[t]..Len(part[t])
        OBVIOUS
      <4>2. QED
        BY <2>2, <4>1 DEF PhaseInv
    <3>2. QED
      BY <2>1, <2>2, <3>1 DEF PhaseInv
  <2>3. CASE pc[t] = "commit" /\ ~InLoop(t)
    BY <2>1, <2>3 DEF PhaseInv, InLoop
  <2>4. QED
    BY <2>1, <2>2, <2>3
<1>6. CASE Aborted(t)
  BY <1>6 DEF Aborted, Goto, PhaseInv, InLoop
<1>7. CASE ReportAborted(t)
  BY <1>7 DEF ReportAborted, Goto, Return, PhaseInv, object
<1>8. QED
  BY <1>1, <1>2, <1>3, <1>4, <1>5, <1>6, <1>7, PhasePrepareOne, PhaseCommitOne,
     PhaseAbortOne DEF CommitStep

LEMMA PhaseAbort ==
  ASSUME TypeOK, NEW t \in Threads, PhaseInv(t), AbortStep(t)
  PROVE  PhaseInv(t)'
<1>1. CASE AbortCall(t)
  BY <1>1 DEF AbortCall, Loop, Goto, PhaseInv, TypeOK, Cells, Reached, Undone
<1>2. CASE AbortEach(t)
  <2>1. /\ pc[t] = "xabort" /\ InLoop(t) /\ UNCHANGED <<pc, ret, votes>>
        /\ SetPart(t, "ABORTED") /\ Advance(t)
    BY <1>2 DEF AbortEach
  <2>2. /\ Reached(part[t], idx[t]) /\ Cells(part[t], 1, idx[t] - 1, Undone)
        /\ Cells(part[t], idx[t], Len(part[t]), Fresh)
        /\ ret[t] \in {"handle", "ok", "fail"}
    BY <2>1 DEF PhaseInv
  <2>3. "ABORTED" \in PartStates /\ "ABORTED" \in Undone
    BY DEF PartStates, Undone
  <2>4. /\ Len(part'[t]) = Len(part[t]) /\ Reached(part'[t], idx'[t])
        /\ Cells(part'[t], 1, idx'[t] - 1, Undone)
        /\ Cells(part'[t], idx'[t], Len(part'[t]), Fresh)
        /\ \A i \in 1..Len(part[t]) : part'[t][i] \in Undone \cup Fresh
    BY <2>1, <2>2, <2>3, LoopTurn
  <2>5. Cells(part'[t], 1, Len(part'[t]), NotDone)
    BY <2>4 DEF Cells, Undone, Fresh, NotDone, PartStates
  <2>6. QED
    BY <2>1, <2>2, <2>4, <2>5 DEF PhaseInv
<1>3. CASE AbortReturn(t)
  BY <1>3 DEF AbortReturn, Goto, Return, PhaseInv, InLoop, TypeOK, Cells, Reached, Undone
<1>4. QED
  BY <1>1, <1>2, <1>3 DEF AbortStep

LEMMA PhaseStep == TypeOK /\ AllPhases /\ [Next]_vars => AllPhases'
<1> SUFFICES ASSUME TypeOK, AllPhases, [Next]_vars, NEW u \in Threads
             PROVE  PhaseInv(u)'
  BY DEF AllPhases
<1>1. ASSUME NEW t \in Threads, BeginStep(t) \/ CommitStep(t) \/ AbortStep(t)
      PROVE  PhaseInv(u)'
  <2>1. CASE u = t
    BY <1>1, <2>1, PhaseBegin, PhaseCommit, PhaseAbort DEF AllPhases
  <2>2. CASE u # t
    BY <1>1, <2>2, PhaseOthers
  <2>3. QED
    BY <2>1, <2>2
<1>2. CASE Crash
  BY <1>2 DEF Crash, AllPhases, PhaseInv, Cells, Reached, Undoing
<1>3. CASE UNCHANGED vars
  BY <1>3 DEF AllPhases, PhaseInv, Cells, Reached, Undoing, vars, object, thread
<1>4. QED
  BY <1>1, <1>2, <1>3 DEF Next

LEMMA IndInit == Init => IndInv
<1> SUFFICES ASSUME Init PROVE IndInv
  OBVIOUS
<1>1. TypeOK
  BY TypeInit
<1>2. ListInv
  BY DEF Init, ListInv, Owns
<1>3. AllPhases
  BY DEF Init, AllPhases, PhaseInv, Cells, Reached, Undoing
<1>4. QED
  BY <1>1, <1>2, <1>3 DEF IndInv

\* The inductive invariant holds in every state of every behaviour.
THEOREM Inductive == Spec => []IndInv
<1>1. IndInv /\ [Next]_vars => IndInv'
  BY TypeStep, ListStep, PhaseStep DEF IndInv
<1>2. QED
  BY IndInit, <1>1, PTL DEF Spec

\* No thread's Transaction is freed under it, whatever other threads begin,
\* commit or abort meanwhile: until the thread's own remove_transaction
\* (transaction_coordinator.c:69-85) the object is there.  What txn_commit
\* does with it afterwards (NoUseAfterFree) is not covered, and false.
THEOREM MemorySafe == Spec => []FreedByOwnerOnly
<1>1. IndInv => FreedByOwnerOnly
  BY DEF IndInv, ListInv, FreedByOwnerOnly
<1>2. QED
  BY Inductive, <1>1, PTL

\* Phase 2 reaches a participant only after every registered participant
\* voted yes (txn_commit, transaction_coordinator.c:229-273).
THEOREM CommitIsUnanimous == Spec => []UnanimousCommit
<1>1. IndInv => UnanimousCommit
  <2> SUFFICES ASSUME IndInv, NEW t \in Threads, NEW i \in DOMAIN part[t],
                      part[t][i] = "COMMITTED"
               PROVE  votes[t] = DOMAIN part[t]
    BY DEF UnanimousCommit
  <2>1. DOMAIN part[t] = 1..Len(part[t])
    BY DEF IndInv, TypeOK
  <2>2. QED
    BY <2>1 DEF IndInv, AllPhases, PhaseInv, Cells, Kept, Undone, Settled, NotDone
<1>2. QED
  BY Inductive, <1>1, PTL

\* What the results of txn_commit and txn_abort say about the participants
\* (transaction_coordinator.c:275-309, 324-335): 0 is a commit of all; -1 is an
\* abort of at least one, with commits besides it only after a unanimous vote
\* and with nobody left untold.
THEOREM ResultTrue == Spec => []ResultExplained
<1>1. IndInv => ResultExplained
  <2> SUFFICES ASSUME IndInv, NEW t \in Threads
               PROVE  LET Only(S) == \A i \in DOMAIN part[t] : part[t][i] \in S IN
                      /\ ret[t] = "committed" => Only({"COMMITTED"})
                      /\ ret[t] = "aborted" =>
                           /\ ~Only({"INIT", "COMMITTED"})
                           /\ \/ Only({"INIT", "ABORTED"})
                              \/ Only({"COMMITTED", "ABORTED"}) /\ votes[t] = DOMAIN part[t]
                      /\ ret[t] = "void" => Only({"ABORTED"})
    BY DEF ResultExplained
  <2>1. DOMAIN part[t] = 1..Len(part[t]) /\ PhaseInv(t)
    BY DEF IndInv, TypeOK, AllPhases
  <2>2. CASE ret[t] = "aborted"
    <3>1. /\ \A i \in 1..Len(part[t]) : part[t][i] \in Settled
          /\ \E i \in 1..Len(part[t]) : part[t][i] \in Refused
          /\ \/ \A i \in 1..Len(part[t]) : part[t][i] \in NotDone
             \/ /\ votes[t] = 1..Len(part[t])
                /\ \A i \in 1..Len(part[t]) : part[t][i] \in Over
      BY <2>1, <2>2 DEF PhaseInv, Undoing, Cells
    <3>2. ~ \A i \in 1..Len(part[t]) : part[t][i] \in {"INIT", "COMMITTED"}
      BY <3>1 DEF Refused
    <3>3. \/ \A i \in 1..Len(part[t]) : part[t][i] \in {"INIT", "ABORTED"}
          \/ /\ \A i \in 1..Len(part[t]) : part[t][i] \in {"COMMITTED", "ABORTED"}
             /\ votes[t] = 1..Len(part[t])
      BY <3>1 DEF Settled, NotDone, Over
    <3>4. QED
      BY <2>1, <2>2, <3>2, <3>3
  <2>3. CASE ret[t] # "aborted"
    BY <2>1, <2>3 DEF PhaseInv, Cells, Kept, Undone
  <2>4. QED
    BY <2>2, <2>3
<1>2. QED
  BY Inductive, <1>1, PTL
-----------------------------------------------------------------------------
(***************************************************************************)
(* The capacity of the list.  The count is compared with the bound when a  *)
(* slot is taken, so the bound needs a list that stays finite; that it     *)
(* counts the transactions in progress is ListInv.                         *)
(***************************************************************************)
CapacityInv ==
  \A c \in Coordinators : IsFiniteSet(active[c]) /\ Cardinality(active[c]) <= MaxActive

\* A removal leaves every list finite and no longer than it was.
LEMMA CapacityRemove ==
  ASSUME TypeOK, CapacityInv, NEW t \in Threads,
         RemoveTransaction(CoordOf[t], txnId[t])
  PROVE  CapacityInv'
<1>1. CASE UNCHANGED <<active, live>>
  BY <1>1 DEF CapacityInv
<1>2. ASSUME NEW victim \in Find(CoordOf[t], txnId[t]),
             active' = [active EXCEPT ![CoordOf[t]] = @ \ {victim}]
      PROVE  CapacityInv'
  <2> SUFFICES ASSUME NEW c \in Coordinators
               PROVE  IsFiniteSet(active'[c]) /\ Cardinality(active'[c]) <= MaxActive
    BY DEF CapacityInv
  <2>1. active'[c] \in SUBSET active[c]
    BY <1>2, CoordOfAssumption DEF TypeOK
  <2>2. IsFiniteSet(active[c]) /\ Cardinality(active[c]) <= MaxActive
    BY DEF CapacityInv
  <2>3. /\ IsFiniteSet(active'[c])
        /\ Cardinality(active'[c]) <= Cardinality(active[c])
    BY <2>1, <2>2, FS_Subset
  <2>4. Cardinality(active'[c]) \in Nat /\ Cardinality(active[c]) \in Nat
    BY <2>2, <2>3, FS_CardinalityType
  <2>5. QED
    BY <2>2, <2>3, <2>4, BoundsAssumption
<1>3. QED
  BY <1>1, <1>2 DEF RemoveTransaction

LEMMA CapacityStep == TypeOK /\ CapacityInv /\ [Next]_vars => CapacityInv'
<1> SUFFICES ASSUME TypeOK, CapacityInv, [Next]_vars PROVE CapacityInv'
  OBVIOUS
<1>1. ASSUME NEW t \in Threads, NEW id \in TxnIds, Begin(t, id) PROVE CapacityInv'
  <2> SUFFICES ASSUME NEW c \in Coordinators
               PROVE  IsFiniteSet(active'[c]) /\ Cardinality(active'[c]) <= MaxActive
    BY DEF CapacityInv
  <2>1. IsFiniteSet(active[c]) /\ Cardinality(active[c]) <= MaxActive
    BY DEF CapacityInv
  <2>2. Cardinality(active[c]) \in Nat
    BY <2>1, FS_CardinalityType
  <2>3. CASE c = CoordOf[t]
    <3>1. active'[c] = active[c] \cup {t} /\ Cardinality(active[c]) < MaxActive
      BY <1>1, <2>3 DEF Begin, TypeOK
    <3>2. /\ IsFiniteSet(active[c] \cup {t})
          /\ Cardinality(active[c] \cup {t}) =
               IF t \in active[c] THEN Cardinality(active[c]) ELSE Cardinality(active[c]) + 1
      BY <2>1, FS_AddElement
    <3>3. QED
      BY <2>2, <3>1, <3>2, BoundsAssumption
  <2>4. CASE c # CoordOf[t]
    BY <1>1, <2>1, <2>4 DEF Begin, TypeOK
  <2>5. QED
    BY <2>3, <2>4
<1>2. ASSUME NEW t \in Threads,
             Committed(t) \/ Aborted(t) \/ AbortReturn(t)
      PROVE  CapacityInv'
  BY <1>2, CapacityRemove DEF Committed, Aborted, AbortReturn
<1>3. CASE UNCHANGED active
  BY <1>3 DEF CapacityInv
<1>4. CASE Crash
  BY <1>4, FS_EmptySet, BoundsAssumption DEF Crash, CapacityInv
<1>5. CASE UNCHANGED vars
  BY <1>3, <1>5 DEF vars
<1>6. ASSUME NEW t \in Threads, BeginStep(t) \/ CommitStep(t) \/ AbortStep(t)
      PROVE  \/ \E id \in TxnIds : Begin(t, id)
             \/ Committed(t) \/ Aborted(t) \/ AbortReturn(t)
             \/ UNCHANGED active
  BY <1>6 DEF BeginStep, CommitStep, AbortStep, BeginRefused, BeginNoMemory,
              GetById, Register, RegisterRefused, CommitCall, PrepareOne,
              AllPrepared, CommitStart, CommitOne, AbortStart, AbortOne,
              AbortCall, AbortEach, ReportAborted
<1>7. QED
  BY <1>1, <1>2, <1>3, <1>4, <1>5, <1>6 DEF Next

\* The table of active transactions is exact: a slot is held for as long as
\* its transaction is in progress, no longer and no shorter, there are never
\* more than MAX_ACTIVE_TRANSACTIONS, and no id is listed twice
\* (transaction_coordinator.c:69-85, 138-180).
THEOREM ListExact == Spec => []ActiveListExact
<1>1. Init => CapacityInv
  BY FS_EmptySet, BoundsAssumption DEF Init, CapacityInv
<1>2. IndInv /\ CapacityInv => ActiveListExact
  <2> SUFFICES ASSUME IndInv, CapacityInv, NEW c \in Coordinators
               PROVE  /\ active[c] = {t \in Threads : CoordOf[t] = c /\ Owns(t)}
                      /\ Cardinality(active[c]) <= MaxActive
                      /\ \A t, u \in active[c] : txnId[t] = txnId[u] => t = u
    BY DEF ActiveListExact
  <2>1. active[c] \subseteq Threads
    BY DEF IndInv, TypeOK
  <2>2. active[c] = {t \in Threads : CoordOf[t] = c /\ Owns(t)}
    BY <2>1 DEF IndInv, ListInv
  <2>3. QED
    BY <2>2 DEF IndInv, ListInv, CapacityInv
<1>3. IndInv /\ CapacityInv /\ [Next]_vars => CapacityInv'
  BY CapacityStep DEF IndInv
<1>4. QED
  BY Inductive, <1>1, <1>2, <1>3, PTL DEF Spec
=============================================================================
