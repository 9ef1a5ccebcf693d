---------------------- MODULE TwoPhaseCommit_refinement ----------------------
(***************************************************************************)
(* The coordinator implements AtomicCommit, and its log follows the        *)
(* protocol: what the two have in common is that Transaction.state is tied *)
(* to the place a thread has reached (StateInv).                           *)
(***************************************************************************)
EXTENDS TwoPhaseCommit_proofs

\* Transaction.state at each place of the API.
StateAt(t, where, state) == pc[t] = where => txnState[t] = state

StateInv ==
  \A t \in Threads :
    /\ StateAt(t, "open", "INIT") /\ StateAt(t, "prepare", "PREPARING")
    /\ StateAt(t, "decided", "PREPARED") /\ StateAt(t, "commit", "COMMITTING")
    /\ StateAt(t, "abort", "ABORTING") /\ StateAt(t, "xabort", "ABORTING")

\* A step of one thread leaves the state and the place of the others alone.
LEMMA OthersStay ==
  ASSUME TypeOK, NEW t \in Threads, BeginStep(t) \/ CommitStep(t) \/ AbortStep(t),
         NEW u \in Threads, u # t
  PROVE  /\ pc'[u] = pc[u] /\ txnState'[u] = txnState[u] /\ txnId'[u] = txnId[u]
         /\ part'[u] = part[u]
BY DEF TypeOK, BeginStep, CommitStep, AbortStep, Begin, BeginRefused,
       BeginNoMemory, GetById, Register, RegisterRefused, CommitCall,
       PrepareOne, AllPrepared, CommitStart, CommitOne, Committed, AbortStart,
       AbortOne, Aborted, ReportAborted, AbortCall, AbortEach, AbortReturn, Goto, Loop,
       SetState, SetPart, object

LEMMA StateStep == TypeOK /\ StateInv /\ [Next]_vars => StateInv'
<1> SUFFICES ASSUME TypeOK, StateInv, [Next]_vars PROVE StateInv'
  OBVIOUS
<1> USE DEF StateInv, StateAt
<1>1. ASSUME NEW t \in Threads, BeginStep(t) \/ CommitStep(t) \/ AbortStep(t)
      PROVE  StateInv'
  <2>1. \/ pc'[t] = pc[t] /\ txnState'[t] = txnState[t]
        \/ pc'[t] \in {"idle", "report"}
        \/ pc'[t] = "open" /\ txnState'[t] = "INIT"
        \/ pc'[t] = "prepare" /\ txnState'[t] = "PREPARING"
        \/ pc'[t] = "decided" /\ txnState'[t] = "PREPARED"
        \/ pc'[t] = "commit" /\ txnState'[t] = "COMMITTING"
        \/ pc'[t] \in {"abort", "xabort"} /\ txnState'[t] = "ABORTING"
    BY <1>1 DEF TypeOK, BeginStep, CommitStep, AbortStep, Begin, BeginRefused,
       BeginNoMemory, GetById, Register, RegisterRefused, CommitCall,
       PrepareOne, AllPrepared, CommitStart, CommitOne, Committed, AbortStart,
       AbortOne, Aborted, ReportAborted, AbortCall, AbortEach, AbortReturn, Goto, Loop,
       SetState, object
  <2>2. QED
    BY <1>1, <2>1, OthersStay
<1>2. CASE Crash
  BY <1>2 DEF Crash
<1>3. CASE UNCHANGED vars
  BY <1>3 DEF vars, object, thread
<1>4. QED
  BY <1>1, <1>2, <1>3 DEF Next
-----------------------------------------------------------------------------
(* The refinement *)

RunningBar == [t \in Threads |-> Owns(t)]
StageBar == [t \in Threads |-> StageOf(txnState[t])]

\* What the mapping makes of a step of thread t that leaves the others alone.
LEMMA BarStep ==
  ASSUME TypeOK, NEW t \in Threads, BeginStep(t) \/ CommitStep(t) \/ AbortStep(t)
  PROVE  /\ Owns(t)' => RunningBar' = [RunningBar EXCEPT ![t] = TRUE]
         /\ ~Owns(t)' => RunningBar' = [RunningBar EXCEPT ![t] = FALSE]
         /\ \A s : StageOf(txnState'[t]) = s => StageBar' = [StageBar EXCEPT ![t] = s]
<1>1. \A u \in Threads : u # t => Owns(u)' = Owns(u) /\ txnState'[u] = txnState[u]
  BY OthersStay DEF Owns
<1>a. Owns(t)' \in BOOLEAN
  BY DEF Owns
<1>2. Owns(t)' => RunningBar' = [RunningBar EXCEPT ![t] = TRUE]
  BY <1>1, <1>a DEF RunningBar
<1>3. ~Owns(t)' => RunningBar' = [RunningBar EXCEPT ![t] = FALSE]
  BY <1>1, <1>a DEF RunningBar
<1>4. ASSUME NEW s, StageOf(txnState'[t]) = s
      PROVE  StageBar' = [StageBar EXCEPT ![t] = s]
  BY <1>1, <1>4 DEF StageBar
<1>5. QED
  BY <1>2, <1>3, <1>4

LEMMA Stages ==
  /\ StageOf("INIT") = "working" /\ StageOf("PREPARING") = "working"
  /\ StageOf("PREPARED") = "working" /\ StageOf("COMMITTING") = "commit"
  /\ StageOf("ABORTING") = "abort" /\ StageOf("COMMITTED") = "committed"
  /\ StageOf("ABORTED") = "aborted"
BY DEF StageOf

\* The guards of AtomicCommit, read through the mapping.
LEMMA Guards ==
  ASSUME TypeOK, StateInv, NEW t \in Threads
  PROVE  /\ RunningBar[t] = Owns(t)
         /\ pc[t] \in {"open", "prepare", "decided"} => AC!At(t, "working")
         /\ pc[t] = "commit" => AC!At(t, "commit")
         /\ pc[t] \in {"abort", "xabort"} => AC!At(t, "abort")
<1>1. /\ RunningBar[t] = Owns(t)
      /\ StageBar[t] = StageOf(txnState[t])
  BY DEF RunningBar, StageBar
<1>2. /\ pc[t] \in {"open", "prepare", "decided"} => StageOf(txnState[t]) = "working"
      /\ pc[t] = "commit" => StageOf(txnState[t]) = "commit"
      /\ pc[t] \in {"abort", "xabort"} => StageOf(txnState[t]) = "abort"
  BY Stages DEF StateInv, StateAt
<1>3. QED
  BY <1>1, <1>2 DEF AC!At, RunningBar, StageBar, Owns

\* A step that keeps the place and the state of its thread leaves both
\* mapped variables as they are.
LEMMA BarStutter ==
  ASSUME TypeOK, NEW t \in Threads, BeginStep(t) \/ CommitStep(t) \/ AbortStep(t),
         Owns(t)' = Owns(t),
         StageOf(txnState'[t]) = StageOf(txnState[t])
  PROVE  UNCHANGED <<RunningBar, StageBar>>
<1>1. \A u \in Threads : u # t => Owns(u)' = Owns(u) /\ txnState'[u] = txnState[u]
  BY OthersStay DEF Owns
<1>2. RunningBar' = RunningBar
  BY <1>1 DEF RunningBar
<1>3. StageBar' = StageBar
  BY <1>1 DEF StageBar
<1>4. QED
  BY <1>2, <1>3

LEMMA RefineBegin ==
  ASSUME IndInv, StateInv, NEW t \in Threads, BeginStep(t)
  PROVE  [AC!ACNext]_(AC!acVars)
<1>0. TypeOK /\ PhaseInv(t)
  BY DEF IndInv, AllPhases
<1>1. ASSUME NEW id \in TxnIds, Begin(t, id) PROVE AC!Open(t)
  <2>1. /\ pc[t] = "idle" /\ pc'[t] = "open" /\ txnState'[t] = "INIT"
        /\ part' = [part EXCEPT ![t] = <<>>]
    BY <1>0, <1>1 DEF Begin, Goto, TypeOK
  <2>2. ~RunningBar[t]
    BY <1>0, <2>1, Guards DEF Owns
  <2>3. /\ RunningBar' = [RunningBar EXCEPT ![t] = TRUE]
        /\ StageBar' = [StageBar EXCEPT ![t] = "working"]
    BY <1>0, <2>1, BarStep, Stages DEF Owns
  <2>4. QED
    BY <2>1, <2>2, <2>3 DEF AC!Open, RunningBar, StageBar
<1>2. ASSUME NEW id \in TxnIds,
             BeginRefused(t, id) \/ BeginNoMemory(t, id) \/ GetById(t, id)
      PROVE  UNCHANGED AC!acVars
  BY <1>2 DEF BeginRefused, BeginNoMemory, GetById, object, AC!acVars, Owns
<1>3. CASE Register(t)
  <2>1. /\ pc[t] = "open" /\ UNCHANGED <<pc, txnState>>
        /\ part' = [part EXCEPT ![t] = Append(@, "INIT")]
    BY <1>3 DEF Register
  <2>2. AC!In(t, {"INIT"})
    BY <1>0, <2>1 DEF PhaseInv, Cells, Fresh, AC!In, TypeOK
  <2>3. AC!At(t, "working")
    BY <1>0, <2>1, Guards
  <2>4. AC!Join(t)
    BY <2>1, <2>2, <2>3 DEF AC!Join, Owns
  <2>5. QED
    BY <2>4 DEF AC!ACNext
<1>4. CASE RegisterRefused(t)
  BY <1>4 DEF RegisterRefused, object, AC!acVars, Owns
<1>5. QED
  BY <1>1, <1>2, <1>3, <1>4 DEF BeginStep, AC!ACNext

LEMMA RefinePrepareOne ==
  ASSUME IndInv, StateInv, NEW t \in Threads, NEW ok \in BOOLEAN, PrepareOne(t, ok)
  PROVE  AC!MemberStep(t, idx[t]) /\ idx[t] \in DOMAIN part[t]
<1>0. TypeOK /\ PhaseInv(t)
  BY DEF IndInv, AllPhases
<1>1. /\ pc[t] = "prepare" /\ InLoop(t) /\ ~SomeFailed(t) /\ UNCHANGED <<pc, txnState>>
      /\ SetPart(t, "PREPARED") \/ SetPart(t, "FAILED")
  BY DEF PrepareOne
<1>2. idx[t] \in 1..Len(part[t]) /\ DOMAIN part[t] = 1..Len(part[t])
  BY <1>0, <1>1 DEF PhaseInv, Reached, InLoop, TypeOK
<1>3. part[t][idx[t]] = "INIT"
  BY <1>0, <1>1, <1>2 DEF PhaseInv, Cells, Unprepared, SomeFailed
<1>4. AC!At(t, "working")
  BY <1>0, <1>1, Guards
<1>5. QED
  BY <1>1, <1>2, <1>3, <1>4 DEF AC!MemberStep, AC!MemberStates, SetPart, Owns

LEMMA RefineCommitOne ==
  ASSUME IndInv, StateInv, NEW t \in Threads, NEW ok \in BOOLEAN, CommitOne(t, ok)
  PROVE  AC!MemberStep(t, idx[t]) /\ idx[t] \in DOMAIN part[t]
<1>0. TypeOK /\ PhaseInv(t)
  BY DEF IndInv, AllPhases
<1>1. pc[t] = "commit" /\ InLoop(t) /\ UNCHANGED <<pc, txnState>>
  BY DEF CommitOne
<1>2. idx[t] \in 1..Len(part[t]) /\ DOMAIN part[t] = 1..Len(part[t])
  BY <1>0, <1>1 DEF PhaseInv, Reached, InLoop, TypeOK
<1>3. part[t][idx[t]] = "PREPARED"
  BY <1>0, <1>1, <1>2 DEF PhaseInv, Cells, Voted
<1>4. SetPart(t, "COMMITTED") \/ SetPart(t, "FAILED")
  BY <1>3 DEF CommitOne
<1>5. AC!At(t, "commit")
  BY <1>0, <1>1, Guards
<1>6. QED
  BY <1>1, <1>2, <1>3, <1>4, <1>5 DEF AC!MemberStep, AC!MemberStates, SetPart, Owns

LEMMA RefineAbortOne ==
  ASSUME IndInv, StateInv, NEW t \in Threads, AbortOne(t)
  PROVE  \/ AC!MemberStep(t, idx[t]) /\ idx[t] \in DOMAIN part[t]
         \/ UNCHANGED AC!acVars
<1>0. TypeOK /\ PhaseInv(t)
  BY DEF IndInv, AllPhases
<1>1. pc[t] = "abort" /\ InLoop(t) /\ UNCHANGED <<pc, txnState>>
  BY DEF AbortOne
<1>2. idx[t] \in 1..Len(part[t]) /\ DOMAIN part[t] = 1..Len(part[t])
  BY <1>0, <1>1 DEF PhaseInv, Reached, InLoop, TypeOK
<1>3. AC!At(t, "abort")
  BY <1>0, <1>1, Guards
<1>4. CASE MustAbort(t)
  <2>1. SetPart(t, "ABORTED") /\ part[t][idx[t]] # "COMMITTED"
    BY <1>4 DEF AbortOne, MustAbort
  <2>2. QED
    BY <1>1, <1>2, <1>3, <2>1 DEF AC!MemberStep, AC!MemberStates, SetPart, Owns
<1>5. CASE ~MustAbort(t)
  <2>1. part[t] \in Seq(PartStates) /\ part \in [Threads -> Seq(PartStates)]
    BY <1>0 DEF TypeOK
  <2>2. [part[t] EXCEPT ![idx[t]] = part[t][idx[t]]] = part[t]
    BY <2>1
  <2>3. part' = part
    BY <1>5, <2>1, <2>2 DEF AbortOne, SetPart
  <2>4. QED
    BY <1>1, <2>3 DEF AC!acVars, Owns
<1>6. QED
  BY <1>4, <1>5

LEMMA RefineCommit ==
  ASSUME IndInv, StateInv, NEW t \in Threads, CommitStep(t)
  PROVE  [AC!ACNext]_(AC!acVars)
<1>0. TypeOK /\ PhaseInv(t) /\ DOMAIN part[t] = 1..Len(part[t]) /\ Len(part[t]) \in Nat
  BY DEF IndInv, AllPhases, TypeOK
<1>1. CASE CommitCall(t) \/ AllPrepared(t)
  <2>1. /\ Owns(t) /\ Owns(t)' /\ UNCHANGED part
        /\ txnState[t] \in {"INIT", "PREPARING"}
        /\ txnState'[t] \in {"PREPARING", "PREPARED"}
    BY <1>0, <1>1 DEF CommitCall, AllPrepared, Loop, Goto, SetState, StateInv, StateAt, TypeOK,
                       Owns
  <2>2. UNCHANGED <<RunningBar, StageBar>>
    BY <1>0, <2>1, BarStutter, Stages
  <2>3. QED
    BY <2>1, <2>2 DEF AC!acVars, RunningBar, StageBar
<1>2. CASE CommitStart(t)
  <2>1. /\ pc[t] = "decided" /\ pc'[t] = "commit" /\ UNCHANGED part
        /\ txnState'[t] = "COMMITTING"
    BY <1>0, <1>2 DEF CommitStart, Loop, Goto, SetState, TypeOK
  <2>2. AC!At(t, "working")
    BY <1>0, <2>1, Guards
  <2>3. AC!In(t, {"PREPARED"})
    BY <1>0, <2>1 DEF PhaseInv, Cells, Voted, AC!In
  <2>4. /\ RunningBar' = [RunningBar EXCEPT ![t] = TRUE]
        /\ StageBar' = [StageBar EXCEPT ![t] = "commit"]
    BY <1>0, <2>1, BarStep, Stages DEF Owns
  <2>5. RunningBar' = RunningBar
    BY <2>1, <2>4 DEF RunningBar, Owns
  <2>6. AC!DecideCommit(t)
    BY <2>1, <2>2, <2>3, <2>4, <2>5 DEF AC!DecideCommit, RunningBar, StageBar
  <2>7. QED
    BY <2>6 DEF AC!ACNext
<1>3. CASE Committed(t)
  <2>1. /\ pc[t] = "commit" /\ pc'[t] = "idle" /\ UNCHANGED part
        /\ txnState'[t] = "COMMITTED" /\ ~InLoop(t) /\ ~SomeFailed(t)
    BY <1>0, <1>3 DEF Committed, Goto, SetState, TypeOK
  <2>2. AC!At(t, "commit")
    BY <1>0, <2>1, Guards
  <2>3. AC!In(t, {"COMMITTED"})
    BY <1>0, <2>1 DEF PhaseInv, Cells, Told, Reached, InLoop, SomeFailed, AC!In, TypeOK
  <2>4. /\ RunningBar' = [RunningBar EXCEPT ![t] = FALSE]
        /\ StageBar' = [StageBar EXCEPT ![t] = "committed"]
    BY <1>0, <2>1, BarStep, Stages DEF Owns
  <2>5. AC!Report(t)
    BY <2>1, <2>2, <2>3, <2>4 DEF AC!Report, RunningBar, StageBar
  <2>6. QED
    BY <2>5 DEF AC!ACNext
<1>4. CASE AbortStart(t)
  <2>1. /\ \/ pc[t] = "prepare"
           \/ pc[t] = "commit" /\ ~InLoop(t)
        /\ SomeFailed(t) /\ pc'[t] = "abort" /\ txnState'[t] = "ABORTING"
        /\ UNCHANGED part
    BY <1>0, <1>4 DEF AbortStart, Loop, Goto, SetState, TypeOK
  <2>2. \/ AC!At(t, "working")
        \/ AC!At(t, "commit") /\ AC!In(t, {"COMMITTED", "FAILED"}) /\ ~AC!In(t, {"COMMITTED"})
    <3>1. CASE pc[t] = "prepare"
      BY <1>0, <3>1, Guards
    <3>2. CASE pc[t] = "commit" /\ ~InLoop(t)
      <4>1. AC!At(t, "commit")
        BY <1>0, <3>2, Guards
      <4>2. AC!In(t, {"COMMITTED", "FAILED"})
        BY <1>0, <3>2 DEF PhaseInv, Cells, Told, Reached, InLoop, AC!In, TypeOK
      <4>3. ~AC!In(t, {"COMMITTED"})
        BY <2>1 DEF SomeFailed, AC!In
      <4>4. QED
        BY <4>1, <4>2, <4>3
    <3>3. QED
      BY <2>1, <3>1, <3>2
  <2>3. /\ RunningBar' = [RunningBar EXCEPT ![t] = TRUE]
        /\ StageBar' = [StageBar EXCEPT ![t] = "abort"]
    BY <1>0, <2>1, BarStep, Stages DEF Owns
  <2>4. RunningBar' = RunningBar
    BY <2>1, <2>3 DEF RunningBar, Owns
  <2>5. AC!DecideAbort(t)
    BY <2>1, <2>2, <2>3, <2>4 DEF AC!DecideAbort, RunningBar, StageBar
  <2>6. QED
    BY <2>5 DEF AC!ACNext
<1>5. CASE Aborted(t)
  <2>1. /\ pc[t] = "abort" /\ pc'[t] = "report" /\ UNCHANGED part
        /\ txnState'[t] = "ABORTED" /\ ~InLoop(t)
    BY <1>0, <1>5 DEF Aborted, Goto, SetState, TypeOK
  <2>2. AC!At(t, "abort")
    BY <1>0, <2>1, Guards
  <2>3. AC!In(t, {"INIT", "COMMITTED", "ABORTED"})
    BY <1>0, <2>1 DEF PhaseInv, Cells, Settled, Reached, InLoop, AC!In, TypeOK
  <2>4. /\ RunningBar' = [RunningBar EXCEPT ![t] = FALSE]
        /\ StageBar' = [StageBar EXCEPT ![t] = "aborted"]
    BY <1>0, <2>1, BarStep, Stages DEF Owns
  <2>5. AC!Report(t)
    BY <2>1, <2>2, <2>3, <2>4 DEF AC!Report, RunningBar, StageBar
  <2>6. QED
    BY <2>5 DEF AC!ACNext
<1>6. CASE ReportAborted(t)
  <2>1. /\ Owns(t)' = Owns(t) /\ UNCHANGED <<part, txnState>>
    BY <1>0, <1>6 DEF ReportAborted, Goto, Owns, object, TypeOK
  <2>2. UNCHANGED <<RunningBar, StageBar>>
    BY <1>0, <2>1, BarStutter
  <2>3. QED
    BY <2>1, <2>2 DEF AC!acVars, RunningBar, StageBar
<1>7. QED
  BY <1>1, <1>2, <1>3, <1>4, <1>5, <1>6, RefinePrepareOne, RefineCommitOne,
     RefineAbortOne DEF CommitStep, AC!ACNext

LEMMA RefineAbort ==
  ASSUME IndInv, StateInv, NEW t \in Threads, AbortStep(t)
  PROVE  [AC!ACNext]_(AC!acVars)
<1>0. TypeOK /\ PhaseInv(t) /\ DOMAIN part[t] = 1..Len(part[t]) /\ Len(part[t]) \in Nat
  BY DEF IndInv, AllPhases, TypeOK
<1>1. CASE AbortCall(t)
  <2>1. /\ pc[t] = "open" /\ pc'[t] = "xabort" /\ UNCHANGED part
        /\ txnState'[t] = "ABORTING"
    BY <1>0, <1>1 DEF AbortCall, Loop, Goto, SetState, TypeOK
  <2>2. AC!At(t, "working")
    BY <1>0, <2>1, Guards
  <2>3. /\ RunningBar' = [RunningBar EXCEPT ![t] = TRUE]
        /\ StageBar' = [StageBar EXCEPT ![t] = "abort"]
    BY <1>0, <2>1, BarStep, Stages DEF Owns
  <2>4. RunningBar' = RunningBar
    BY <2>1, <2>3 DEF RunningBar, Owns
  <2>5. AC!DecideAbort(t)
    BY <2>1, <2>2, <2>3, <2>4 DEF AC!DecideAbort, RunningBar, StageBar
  <2>6. QED
    BY <2>5 DEF AC!ACNext
<1>2. CASE AbortEach(t)
  <2>1. pc[t] = "xabort" /\ InLoop(t) /\ UNCHANGED <<pc, txnState>> /\ SetPart(t, "ABORTED")
    BY <1>2 DEF AbortEach
  <2>2. idx[t] \in DOMAIN part[t]
    BY <1>0, <2>1 DEF PhaseInv, Reached, InLoop, TypeOK
  <2>3. part[t][idx[t]] = "INIT"
    BY <1>0, <2>1, <2>2 DEF PhaseInv, Cells, Fresh, InLoop
  <2>4. AC!At(t, "abort")
    BY <1>0, <2>1, Guards
  <2>5. AC!MemberStep(t, idx[t])
    BY <2>1, <2>3, <2>4 DEF AC!MemberStep, AC!MemberStates, SetPart, Owns
  <2>6. QED
    BY <2>2, <2>5 DEF AC!ACNext
<1>3. CASE AbortReturn(t)
  <2>1. /\ pc[t] = "xabort" /\ pc'[t] = "idle" /\ UNCHANGED part
        /\ txnState'[t] = "ABORTED" /\ ~InLoop(t)
    BY <1>0, <1>3 DEF AbortReturn, Goto, SetState, TypeOK
  <2>2. AC!At(t, "abort")
    BY <1>0, <2>1, Guards
  <2>3. AC!In(t, {"INIT", "COMMITTED", "ABORTED"})
    BY <1>0, <2>1 DEF PhaseInv, Cells, Undone, Reached, InLoop, AC!In, TypeOK
  <2>4. /\ RunningBar' = [RunningBar EXCEPT ![t] = FALSE]
        /\ StageBar' = [StageBar EXCEPT ![t] = "aborted"]
    BY <1>0, <2>1, BarStep, Stages DEF Owns
  <2>5. AC!Report(t)
    BY <2>1, <2>2, <2>3, <2>4 DEF AC!Report, RunningBar, StageBar
  <2>6. QED
    BY <2>5 DEF AC!ACNext
<1>4. QED
  BY <1>1, <1>2, <1>3 DEF AbortStep

LEMMA StateInit == Init => StateInv
BY DEF Init, StateInv, StateAt

\* The coordinator implements atomic commitment with a heuristic outcome,
\* for any number of threads, coordinators, transactions and crashes: every
\* step of txn_begin, txn_register_participant, txn_commit and txn_abort is a
\* step of AtomicCommit or changes nothing it can see.
THEOREM Refinement == Spec => ImplementsAtomicCommit
<1>1. Init => AC!ACInit
  <2> SUFFICES ASSUME Init PROVE AC!ACInit
    OBVIOUS
  <2>1. \A t \in Threads : pc[t] = "idle" /\ StageOf(txnState[t]) = "working"
    BY Stages DEF Init
  <2>2. RunningBar = [t \in Threads |-> FALSE]
    BY <2>1 DEF RunningBar, Owns
  <2>3. StageBar = [t \in Threads |-> "working"]
    BY <2>1 DEF StageBar
  <2>4. QED
    BY <2>2, <2>3 DEF Init, AC!ACInit, RunningBar, StageBar
<1>2. IndInv /\ StateInv /\ [Next]_vars => [AC!ACNext]_(AC!acVars)
  <2> SUFFICES ASSUME IndInv, StateInv, [Next]_vars
               PROVE  [AC!ACNext]_(AC!acVars)
    OBVIOUS
  <2>1. CASE Crash
    <3>1. AC!Halt
      BY <2>1 DEF Crash, AC!Halt, Owns
    <3>2. QED
      BY <3>1 DEF AC!ACNext
  <2>2. CASE UNCHANGED vars
    BY <2>2 DEF vars, object, thread, AC!acVars, Owns
  <2>3. QED
    BY <2>1, <2>2, RefineBegin, RefineCommit, RefineAbort DEF Next
<1>3. IndInv /\ StateInv /\ [Next]_vars => StateInv'
  BY StateStep DEF IndInv
<1>4. QED
  BY Inductive, StateInit, <1>1, <1>2, <1>3, PTL DEF Spec, ImplementsAtomicCommit, AC!ACSpec
-----------------------------------------------------------------------------
(***************************************************************************)
(* The log.  All coordinators write to one file, and a record names its    *)
(* transaction by id, so the log is orderly only as far as ids tell        *)
(* transactions in progress apart: either no id is ever used twice, or one *)
(* coordinator, with its duplicate check, serves every thread.  The server *)
(* guarantees neither (a coordinator per worker, ids made of request_id    *)
(* and second); run payment_collision shows what happens then.  And a     *)
(* coordinator that could not open the file records nothing at all.        *)
(***************************************************************************)
OneCoordinator == \A t, u \in Threads : CoordOf[t] = CoordOf[u]

UniqueIds == FreshIds \/ OneCoordinator

\* What a step needs of it: if it opens a transaction, the id is new.
NewIds == \A t \in Threads, id \in TxnIds : Begin(t, id) => opened[id] = "unset"

LEMMA FreshIsNew == FreshIds => NewIds
BY DEF NewIds, Begin

LEMMA UniqueIsNew == UniqueIds => NewIds \/ OneCoordinator
BY FreshIsNew DEF UniqueIds

Busy(t) == Owns(t)

Final == {"NONE", "COMMITTED", "ABORTED"}

\* Of a transaction in progress the file has the state as its last record, or
\* nothing unfinished when there is no stream; ids of transactions in progress
\* differ, and until the first crash an id with an unfinished record belongs to
\* one of them.
Filed(t) ==
  /\ stream[CoordOf[t]] # "unset" /\ opened[txnId[t]] = stream[CoordOf[t]]
  /\ stream[CoordOf[t]] = "open" => log[txnId[t]] = txnState[t]
  /\ stream[CoordOf[t]] # "open" /\ crashes = 0 => log[txnId[t]] \in Final

LogInv ==
  /\ \A t \in Threads : Busy(t) => Filed(t)
  /\ \A t, u \in Threads : Busy(t) /\ Busy(u) /\ txnId[t] = txnId[u] => t = u
  /\ crashes = 0 =>
       \A id \in TxnIds :
         log[id] \in Final \/ \E t \in Threads : Busy(t) /\ txnId[t] = id

\* What a step of a thread does to the log: nothing, the record of txn_begin,
\* or the next record of its own transaction, as the protocol has it.
LEMMA LogCases ==
  ASSUME IndInv, StateInv, NEW t \in Threads,
         BeginStep(t) \/ CommitStep(t) \/ AbortStep(t)
  PROVE  /\ UNCHANGED crashes
         /\ \/ UNCHANGED <<log, txnId, txnState, stream, opened>> /\ Busy(t)' = Busy(t)
            \/ \E id \in TxnIds : Begin(t, id)
            \/ /\ Busy(t) /\ UNCHANGED <<txnId, stream, opened>>
               /\ \E s \in TxnStates :
                    /\ SetState(t, s) /\ <<txnState[t], s>> \in ProtocolSteps
                    /\ Busy(t)' \/ s \in Final
<1> USE DEF Busy, Owns
<1>0. TypeOK
  BY DEF IndInv
<1>1. CASE BeginStep(t)
  BY <1>1 DEF BeginStep, BeginRefused, BeginNoMemory, GetById, Register,
              RegisterRefused, object, Begin
<1>2. CASE CommitStep(t)
  <2>1. CASE \/ \E ok \in BOOLEAN : PrepareOne(t, ok) \/ CommitOne(t, ok)
             \/ AbortOne(t) \/ ReportAborted(t)
    BY <1>0, <2>1 DEF PrepareOne, CommitOne, AbortOne, ReportAborted, Goto, object, TypeOK
  <2>2. CASE CommitCall(t)
    BY <1>0, <2>2 DEF CommitCall, Loop, Goto, StateInv, StateAt, TxnStates, ProtocolSteps, TypeOK
  <2>3. CASE AllPrepared(t)
    BY <1>0, <2>3 DEF AllPrepared, Goto, StateInv, StateAt, TxnStates, ProtocolSteps, TypeOK
  <2>4. CASE CommitStart(t)
    BY <1>0, <2>4 DEF CommitStart, Loop, Goto, StateInv, StateAt, TxnStates, ProtocolSteps, TypeOK
  <2>5. CASE Committed(t)
    BY <1>0, <2>5 DEF Committed, StateInv, StateAt, TxnStates, ProtocolSteps, Final
  <2>6. CASE AbortStart(t)
    BY <1>0, <2>6 DEF AbortStart, Loop, Goto, StateInv, StateAt, TxnStates, ProtocolSteps, TypeOK
  <2>7. CASE Aborted(t)
    BY <1>0, <2>7 DEF Aborted, StateInv, StateAt, TxnStates, ProtocolSteps, Final
  <2>8. QED
    BY <1>2, <2>1, <2>2, <2>3, <2>4, <2>5, <2>6, <2>7 DEF CommitStep
<1>3. CASE AbortStep(t)
  <2>1. CASE AbortCall(t)
    BY <1>0, <2>1 DEF AbortCall, Loop, Goto, StateInv, StateAt, TxnStates, ProtocolSteps, TypeOK
  <2>2. CASE AbortEach(t)
    BY <2>2 DEF AbortEach
  <2>3. CASE AbortReturn(t)
    BY <1>0, <2>3 DEF AbortReturn, StateInv, StateAt, TxnStates, ProtocolSteps, Final
  <2>4. QED
    BY <1>3, <2>1, <2>2, <2>3 DEF AbortStep
<1>4. QED
  BY <1>1, <1>2, <1>3

\* txn_begin opens an id that no transaction in progress has.
LEMMA BeginUnused ==
  ASSUME NewIds \/ OneCoordinator, IndInv, LogInv,
         NEW t \in Threads, NEW id \in TxnIds, Begin(t, id)
  PROVE  \A u \in Threads : Busy(u) => txnId[u] # id
<1> SUFFICES ASSUME NEW u \in Threads, Busy(u), txnId[u] = id PROVE FALSE
  OBVIOUS
<1>1. CASE NewIds
  <2>1. opened[id] = "unset"
    BY <1>1 DEF NewIds
  <2>2. opened[id] # "unset"
    BY DEF LogInv, Filed
  <2>3. QED
    BY <2>1, <2>2
<1>2. CASE OneCoordinator
  <2>1. u \in active[CoordOf[t]]
    BY <1>2 DEF OneCoordinator, Busy, IndInv, ListInv
  <2>2. Find(CoordOf[t], id) = {}
    BY DEF Begin
  <2>3. QED
    BY <2>1, <2>2 DEF Find
<1>3. QED
  BY <1>1, <1>2

LEMMA LogStep ==
  IndInv /\ StateInv /\ LogInv /\ (NewIds \/ OneCoordinator) /\ [Next]_vars => LogInv'
<1> SUFFICES ASSUME IndInv, StateInv, LogInv, NewIds \/ OneCoordinator, [Next]_vars
             PROVE  LogInv'
  OBVIOUS
<1>0. /\ TypeOK
      /\ \A t \in Threads : Busy(t) => txnId[t] \in TxnIds
  BY DEF IndInv, ListInv, Busy
<1>1. ASSUME NEW t \in Threads, BeginStep(t) \/ CommitStep(t) \/ AbortStep(t)
      PROVE  LogInv'
  <2>0. UNCHANGED crashes /\ \A u \in Threads : u # t => Busy(u)' = Busy(u)
    BY <1>0, <1>1, LogCases, OthersStay DEF Busy, Owns
  <2>a. /\ txnId \in [Threads -> TxnIds \cup {NoTxn}] /\ txnState \in [Threads -> TxnStates]
        /\ log \in [TxnIds -> TxnStates \cup {"NONE"}]
        /\ stream \in [Coordinators -> Streams] /\ opened \in [TxnIds -> Streams]
        /\ CoordOf \in [Threads -> Coordinators]
    BY <1>0, CoordOfAssumption DEF TypeOK
  <2>1. CASE UNCHANGED <<log, txnId, txnState, stream, opened>> /\ Busy(t)' = Busy(t)
    BY <2>0, <2>1 DEF LogInv, Filed
  <2>2. ASSUME NEW id \in TxnIds, Begin(t, id) PROVE LogInv'
    <3>1. /\ txnId' = [txnId EXCEPT ![t] = id]
          /\ txnState' = [txnState EXCEPT ![t] = "INIT"]
          /\ ~Busy(t) /\ Busy(t)' /\ opened' = [opened EXCEPT ![id] = stream'[CoordOf[t]]]
          /\ log' = IF stream'[CoordOf[t]] = "open" THEN [log EXCEPT ![id] = "INIT"] ELSE log
      BY <1>0, <2>2 DEF Begin, Goto, Busy, Owns, TypeOK
    <3>2. \A u \in Threads : Busy(u) => txnId[u] # id
      BY <2>2, BeginUnused
    <3>3. /\ stream'[CoordOf[t]] \in {"open", "null"}
          /\ \A u \in Threads : Busy(u) => stream'[CoordOf[u]] = stream[CoordOf[u]]
      BY <2>2, <2>a DEF Begin, OpenLog, Streams, LogInv, Filed
    <3> HIDE DEF Busy
    <3>4. ASSUME NEW u \in Threads, Busy(u)' PROVE Filed(u)'
      <4>1. CASE u = t
        <5>1. /\ txnId'[t] = id /\ txnState'[t] = "INIT"
              /\ opened'[id] = stream'[CoordOf[t]]
          BY <2>a, <3>1
        <5>2. crashes = 0 => log[id] \in Final
          BY <3>2 DEF LogInv
        <5>3. QED
          BY <2>0, <2>a, <3>1, <3>3, <4>1, <5>1, <5>2 DEF Filed
      <4>2. CASE u # t
        <5>1. Busy(u) /\ Filed(u) /\ txnId[u] # id /\ txnId[u] \in TxnIds
          BY <1>0, <2>0, <3>2, <3>4, <4>2 DEF LogInv
        <5>2. /\ txnId'[u] = txnId[u] /\ txnState'[u] = txnState[u]
              /\ stream'[CoordOf[u]] = stream[CoordOf[u]]
              /\ opened'[txnId[u]] = opened[txnId[u]] /\ log'[txnId[u]] = log[txnId[u]]
          BY <2>a, <3>1, <3>3, <4>2, <5>1
        <5>3. QED
          BY <2>0, <5>1, <5>2 DEF Filed
      <4>3. QED
        BY <4>1, <4>2
    <3>5. \A u, v \in Threads : Busy(u)' /\ Busy(v)' /\ txnId'[u] = txnId'[v] => u = v
      BY <2>0, <2>a, <3>1, <3>2 DEF LogInv
    <3>6. crashes = 0 => \A i \in TxnIds :
            log'[i] \in Final \/ \E u \in Threads : Busy(u)' /\ txnId'[u] = i
      BY <2>0, <2>a, <3>1, <3>2 DEF LogInv
    <3>7. QED
      BY <2>0, <3>4, <3>5, <3>6 DEF LogInv
  <2>3. ASSUME NEW s \in TxnStates, Busy(t), UNCHANGED <<txnId, stream, opened>>,
               SetState(t, s), Busy(t)' \/ s \in Final
        PROVE  LogInv'
    <3>1. /\ log' = IF stream[CoordOf[t]] = "open" THEN [log EXCEPT ![txnId[t]] = s] ELSE log
          /\ txnState' = [txnState EXCEPT ![t] = s] /\ txnId[t] \in TxnIds
      BY <1>0, <2>3 DEF SetState, LogState
    <3> HIDE DEF Busy
    <3>2. Filed(t) /\ Filed(t)'
      BY <2>0, <2>a, <2>3, <3>1 DEF LogInv, Filed
    <3>3. ASSUME NEW u \in Threads, u # t, Busy(u)' PROVE Filed(u)'
      <4>1. Busy(u) /\ Filed(u) /\ txnId[u] # txnId[t]
        BY <2>0, <2>3, <3>3 DEF LogInv
      <4>2. log'[txnId[u]] = log[txnId[u]] /\ txnState'[u] = txnState[u]
        BY <1>0, <2>a, <3>1, <3>3, <4>1
      <4>3. QED
        BY <2>0, <2>3, <4>1, <4>2 DEF Filed
    <3>4. \A u, v \in Threads : Busy(u)' /\ Busy(v)' /\ txnId'[u] = txnId'[v] => u = v
      BY <2>0, <2>3, <3>1 DEF LogInv
    <3>5. ASSUME crashes = 0, NEW i \in TxnIds
          PROVE  log'[i] \in Final \/ \E u \in Threads : Busy(u)' /\ txnId'[u] = i
      <4>1. CASE i # txnId[t]
        BY <2>0, <2>3, <2>a, <3>1, <3>5, <4>1 DEF LogInv
      <4>2. CASE i = txnId[t]
        <5>1. ~Busy(t)' => log'[i] \in Final
          BY <2>3, <2>a, <3>1, <3>2, <3>5, <4>2 DEF Filed
        <5>2. QED
          BY <2>3, <4>2, <5>1
      <4>3. QED
        BY <4>1, <4>2
    <3>6. QED
      BY <2>0, <3>2, <3>3, <3>4, <3>5 DEF LogInv
  <2>4. QED
    BY <1>1, <2>1, <2>2, <2>3, LogCases
<1>2. CASE Crash
  <2>1. (\A t \in Threads : ~Busy(t)') /\ crashes' # 0
    BY <1>0, <1>2 DEF Crash, Busy, Owns, TypeOK
  <2>2. QED
    BY <2>1 DEF LogInv
<1>3. CASE UNCHANGED vars
  BY <1>3 DEF LogInv, Filed, Busy, Owns, vars, object, thread
<1>4. QED
  BY <1>1, <1>2, <1>3 DEF Next

\* A step that changes the record of an id goes on as the protocol has it.
LEMMA ProtocolStep ==
  IndInv /\ StateInv /\ LogInv /\ (NewIds \/ OneCoordinator) /\ [Next]_vars =>
    [\A id \in TxnIds :
       log'[id] # log[id] =>
         \/ <<log[id], log'[id]>> \in ProtocolSteps
         \/ crashes > 0 /\ log'[id] = "INIT"]_vars
<1> SUFFICES ASSUME IndInv, StateInv, LogInv, NewIds \/ OneCoordinator, Next,
                    NEW id \in TxnIds, log'[id] # log[id]
             PROVE  \/ <<log[id], log'[id]>> \in ProtocolSteps
                    \/ crashes > 0 /\ log'[id] = "INIT"
  OBVIOUS
<1>0. /\ TypeOK
      /\ log \in [TxnIds -> TxnStates \cup {"NONE"}] /\ crashes \in Nat
  BY BoundsAssumption DEF IndInv, TypeOK
<1>1. ASSUME NEW t \in Threads, BeginStep(t) \/ CommitStep(t) \/ AbortStep(t)
      PROVE  \/ <<log[id], log'[id]>> \in ProtocolSteps
             \/ crashes > 0 /\ log'[id] = "INIT"
  <2>1. ASSUME NEW i \in TxnIds, Begin(t, i)
        PROVE  \/ <<log[id], log'[id]>> \in ProtocolSteps
               \/ crashes > 0 /\ log'[id] = "INIT"
    <3>1. id = i /\ log'[id] = "INIT"
      BY <1>0, <2>1 DEF Begin
    <3>2. crashes = 0 => log[id] \in Final
      BY <2>1, <3>1, BeginUnused DEF LogInv
    <3>3. log[id] \in Final => <<log[id], "INIT">> \in ProtocolSteps
      BY DEF Final, ProtocolSteps
    <3>4. QED
      BY <1>0, <3>1, <3>2, <3>3
  <2>2. ASSUME NEW s \in TxnStates, Busy(t), SetState(t, s),
               <<txnState[t], s>> \in ProtocolSteps
        PROVE  <<log[id], log'[id]>> \in ProtocolSteps
    <3>1. id = txnId[t] /\ log'[id] = s
      BY <1>0, <2>2 DEF SetState, LogState
    <3>2. log[id] = txnState[t]
      BY <2>2, <3>1 DEF LogInv, Filed, SetState, LogState
    <3>3. QED
      BY <2>2, <3>1, <3>2
  <2>3. QED
    BY <1>1, <2>1, <2>2, LogCases
<1>2. QED
  BY <1>1 DEF Next, Crash

\* The records of an id follow the protocol, when ids are unique: no thread,
\* wherever it stands between two unlocks, writes a record that a reader of
\* logs/transactions.log could not place (log_transaction_state, transaction_coordinator.c:38-50).
THEOREM LogProtocol == UniqueIds => (Spec => LogFollowsProtocol)
<1> SUFFICES ASSUME UniqueIds PROVE Spec => LogFollowsProtocol
  OBVIOUS
<1>1. Init => LogInv
  BY DEF Init, LogInv, Busy, Owns, Final
<1>2. IndInv /\ StateInv /\ LogInv /\ [Next]_vars =>
        [\A id \in TxnIds :
           log'[id] # log[id] =>
             \/ <<log[id], log'[id]>> \in ProtocolSteps
             \/ crashes > 0 /\ log'[id] = "INIT"]_vars
  BY ProtocolStep, UniqueIsNew
<1>3. IndInv /\ StateInv /\ [Next]_vars => StateInv'
  BY StateStep DEF IndInv
<1>4. IndInv /\ StateInv /\ LogInv /\ [Next]_vars => LogInv'
  BY LogStep, UniqueIsNew
<1>5. QED
  BY Inductive, StateInit, <1>1, <1>2, <1>3, <1>4, PTL DEF Spec, LogFollowsProtocol
-----------------------------------------------------------------------------
(***************************************************************************)
(* The log is ahead of the participants.  Here the id of a transaction has *)
(* to be its own for good, also after it has ended: the record that shows  *)
(* a commit must not be overwritten by another transaction's.              *)
(***************************************************************************)
Decided == {"COMMITTING", "COMMITTED", "ABORTING", "ABORTED"}

SomeCommitted(t) == \E i \in DOMAIN part[t] : part[t][i] = "COMMITTED"

\* Every id in a Transaction object has been opened, no two objects share one,
\* and an object without an id has no participants.
OwnIds ==
  /\ \A t \in Threads : txnId[t] \in TxnIds => opened[txnId[t]] # "unset"
  /\ \A t, u \in Threads : txnId[t] \in TxnIds /\ txnId[t] = txnId[u] => t = u
  /\ \A t \in Threads : txnId[t] \notin TxnIds => part[t] = <<>>

\* A participant is committed only in the commit loop, in the abort loop
\* after it, or once the thread has returned; no cell becomes COMMITTED
\* elsewhere.
LEMMA CommittedWhere ==
  IndInv => \A t \in Threads : SomeCommitted(t) => pc[t] \in {"idle", "report", "commit", "abort"}
<1> SUFFICES ASSUME IndInv, NEW t \in Threads, SomeCommitted(t)
             PROVE  pc[t] \in {"idle", "report", "commit", "abort"}
  OBVIOUS
<1>1. PhaseInv(t) /\ pc[t] \in Locations /\ DOMAIN part[t] = 1..Len(part[t])
  BY DEF IndInv, AllPhases, TypeOK
<1>2. PICK i \in 1..Len(part[t]) : part[t][i] = "COMMITTED"
  BY <1>1 DEF SomeCommitted
<1>3. pc[t] \notin {"open", "decided"}
  BY <1>1, <1>2 DEF PhaseInv, Cells, Fresh, Voted
<1>4. pc[t] # "prepare"
  <2> SUFFICES ASSUME pc[t] = "prepare" PROVE FALSE
    OBVIOUS
  <2>1. i \in 1..(idx[t] - 1) \/ i \in idx[t]..Len(part[t])
    BY DEF IndInv, TypeOK
  <2>2. QED
    BY <1>1, <1>2, <2>1 DEF PhaseInv, Cells, Voted, Unprepared
<1>5. pc[t] # "xabort"
  <2> SUFFICES ASSUME pc[t] = "xabort" PROVE FALSE
    OBVIOUS
  <2>1. i \in 1..(idx[t] - 1) \/ i \in idx[t]..Len(part[t])
    BY DEF IndInv, TypeOK
  <2>2. QED
    BY <1>1, <1>2, <2>1 DEF PhaseInv, Cells, Undone, Fresh
<1>6. QED
  BY <1>1, <1>3, <1>4, <1>5 DEF Locations

\* The steps that touch the participants array.
LEMMA PartCases ==
  ASSUME TypeOK, NEW t \in Threads, BeginStep(t) \/ CommitStep(t) \/ AbortStep(t)
  PROVE  part'[t] = part[t] \/ Owns(t)'
BY DEF TypeOK, BeginStep, CommitStep, AbortStep, Begin, BeginRefused,
       BeginNoMemory, GetById, Register, RegisterRefused, CommitCall,
       PrepareOne, AllPrepared, CommitStart, CommitOne, Committed, AbortStart,
       AbortOne, Aborted, ReportAborted, AbortCall, AbortEach, AbortReturn, Goto,
       Loop, Owns, object

LEMMA OwnIdsStep ==
  IndInv /\ IndInv' /\ StateInv /\ OwnIds /\ NewIds /\ [Next]_vars => OwnIds'
<1> SUFFICES ASSUME IndInv, IndInv', StateInv, OwnIds, NewIds, [Next]_vars PROVE OwnIds'
  OBVIOUS
<1>0. /\ TypeOK
      /\ \A t \in Threads : Owns(t) => txnId[t] \in TxnIds
      /\ \A t \in Threads : Owns(t)' => txnId'[t] \in TxnIds
      /\ txnId \in [Threads -> TxnIds \cup {NoTxn}] /\ NoTxn \notin TxnIds
      /\ opened \in [TxnIds -> Streams]
  BY ThreadsAssumption DEF IndInv, ListInv, TypeOK
<1>1. ASSUME NEW t \in Threads, BeginStep(t) \/ CommitStep(t) \/ AbortStep(t)
      PROVE  OwnIds'
  <2>1. \A u \in Threads : txnId'[u] \notin TxnIds => part'[u] = <<>>
    <3> SUFFICES ASSUME NEW u \in Threads, txnId'[u] \notin TxnIds PROVE part'[u] = <<>>
      OBVIOUS
    <3>1. txnId'[u] = txnId[u]
      <4>1. CASE u # t
        BY <1>0, <1>1, <4>1, OthersStay
      <4>2. CASE u = t
        <5>1. ~ \E id \in TxnIds : Begin(t, id)
          BY <1>0, <4>2 DEF Begin
        <5>2. QED
          BY <1>1, <5>1, LogCases
      <4>3. QED
        BY <4>1, <4>2
    <3>2. part'[u] = part[u]
      BY <1>0, <1>1, PartCases, OthersStay
    <3>3. QED
      BY <3>1, <3>2 DEF OwnIds
  <2>2. CASE UNCHANGED <<opened, txnId>>
    BY <2>1, <2>2 DEF OwnIds
  <2>3. ASSUME NEW id \in TxnIds, Begin(t, id) PROVE OwnIds'
    <3>1. /\ txnId' = [txnId EXCEPT ![t] = id] /\ opened[id] = "unset"
          /\ \E s \in {"open", "null"} : opened' = [opened EXCEPT ![id] = s]
      <4>1. stream'[CoordOf[t]] \in {"open", "null"}
        BY <2>3, CoordOfAssumption DEF Begin, OpenLog, IndInv, TypeOK, Streams
      <4>2. QED
        BY <2>3, <4>1 DEF Begin, NewIds
    <3>2. \A u \in Threads : txnId[u] # id
      BY <3>1 DEF OwnIds
    <3>3. QED
      BY <1>0, <2>1, <3>1, <3>2 DEF OwnIds
  <2>4. QED
    BY <1>1, <2>2, <2>3, LogCases
<1>2. CASE Crash
  BY <1>2 DEF Crash, OwnIds
<1>3. CASE UNCHANGED vars
  BY <1>3 DEF OwnIds, vars, object
<1>4. QED
  BY <1>1, <1>2, <1>3 DEF Next

LEMMA DecidedStep ==
  /\ IndInv /\ IndInv' /\ StateInv /\ StateInv' /\ LogInv /\ LogInv'
  /\ OwnIds /\ OwnIds' /\ LoggedBeforeCommit /\ [Next]_vars
  => LoggedBeforeCommit'
<1> SUFFICES ASSUME IndInv, IndInv', StateInv, StateInv', LogInv, LogInv',
                    OwnIds, OwnIds', LoggedBeforeCommit, [Next]_vars,
                    NEW u \in Threads, SomeCommitted(u)', opened'[txnId'[u]] = "open"
             PROVE  log'[txnId'[u]] \in Decided
  BY DEF LoggedBeforeCommit, SomeCommitted, Decided
<1>1. pc'[u] \in {"idle", "report", "commit", "abort"}
  <2>1. (IndInv => \A t \in Threads :
           SomeCommitted(t) => pc[t] \in {"idle", "report", "commit", "abort"})'
    BY CommittedWhere, PTL
  <2>2. QED
    BY <2>1
<1>2. CASE Owns(u)'
  <2>1. log'[txnId'[u]] = txnState'[u]
    BY <1>2 DEF LogInv, Filed, Busy
  <2>2. txnState'[u] \in {"COMMITTING", "ABORTING"}
    BY <1>1, <1>2 DEF StateInv, StateAt, Owns
  <2>3. QED
    BY <2>1, <2>2 DEF Decided
<1>3. CASE ~Owns(u)'
  <2>0. /\ TypeOK /\ txnId \in [Threads -> TxnIds \cup {NoTxn}] /\ txnId'[u] \in TxnIds
        /\ log \in [TxnIds -> TxnStates \cup {"NONE"}]
        /\ opened \in [TxnIds -> Streams]
    BY DEF IndInv, TypeOK, OwnIds, SomeCommitted
  <2>1. ASSUME part'[u] = part[u], txnId'[u] = txnId[u],
               log'[txnId[u]] = log[txnId[u]], opened'[txnId[u]] = opened[txnId[u]]
        PROVE  log'[txnId'[u]] \in Decided
    BY <2>1 DEF LoggedBeforeCommit, SomeCommitted, Decided
  <2>2. ASSUME NEW t \in Threads, BeginStep(t) \/ CommitStep(t) \/ AbortStep(t), u # t
        PROVE  log'[txnId'[u]] \in Decided
    <3>1. part'[u] = part[u] /\ txnId'[u] = txnId[u]
      BY <2>0, <2>2, OthersStay
    <3>2. txnId'[t] # txnId[u]
      BY <2>0, <2>2, <3>1 DEF OwnIds
    <3>3. /\ log' = log \/ \E s : log' = [log EXCEPT ![txnId'[t]] = s]
          /\ opened' = opened \/ \E s : opened' = [opened EXCEPT ![txnId'[t]] = s]
      <4>1. CASE UNCHANGED <<log, opened>>
        BY <4>1
      <4>2. ASSUME NEW id \in TxnIds, Begin(t, id)
            PROVE  /\ log' = log \/ \E s : log' = [log EXCEPT ![txnId'[t]] = s]
                   /\ opened' = opened \/ \E s : opened' = [opened EXCEPT ![txnId'[t]] = s]
        <5>1. /\ txnId'[t] = id /\ opened' = [opened EXCEPT ![id] = stream'[CoordOf[t]]]
              /\ log' = log \/ log' = [log EXCEPT ![id] = "INIT"]
          BY <2>0, <4>2 DEF Begin
        <5>2. QED
          BY <5>1
      <4>3. ASSUME NEW s \in TxnStates, UNCHANGED <<txnId, opened>>, SetState(t, s)
            PROVE  /\ log' = log \/ \E r : log' = [log EXCEPT ![txnId'[t]] = r]
                   /\ opened' = opened
        BY <4>3 DEF SetState, LogState
      <4>4. QED
        BY <2>2, <4>1, <4>2, <4>3, LogCases
    <3>4. log'[txnId[u]] = log[txnId[u]] /\ opened'[txnId[u]] = opened[txnId[u]]
      BY <2>0, <3>1, <3>2, <3>3
    <3>5. QED
      BY <2>1, <3>1, <3>4
  <2>3. CASE BeginStep(u) \/ CommitStep(u) \/ AbortStep(u)
    <3>1. part'[u] = part[u]
      BY <1>3, <2>0, <2>3, PartCases
    <3>2. CASE UNCHANGED <<log, txnId, txnState, stream, opened>>
      BY <2>1, <3>1, <3>2
    <3>3. ASSUME NEW id \in TxnIds, Begin(u, id) PROVE FALSE
      BY <1>3, <2>0, <3>3 DEF Begin, Goto, TypeOK, Owns
    <3>4. ASSUME NEW s \in TxnStates, Busy(u), UNCHANGED <<txnId, stream, opened>>,
                 SetState(u, s), s \in Final
          PROVE  log'[txnId'[u]] \in Decided
      <4>1. stream[CoordOf[u]] = "open"
        BY <3>4 DEF LogInv, Filed
      <4>2. QED
        BY <2>0, <3>4, <4>1 DEF SetState, LogState, Final, TxnStates, Decided
    <3>5. QED
      BY <1>3, <2>3, <3>2, <3>3, <3>4, LogCases DEF Busy
  <2>4. CASE Crash \/ UNCHANGED vars
    BY <2>1, <2>4 DEF Crash, vars, object
  <2>5. QED
    BY <2>2, <2>3, <2>4 DEF Next
<1>4. QED
  BY <1>2, <1>3

\* The decision to commit is on file before any participant commits, and
\* stays readable for good, when no id is used twice and the coordinator could
\* open the file: a recovery that presumes abort for INIT, PREPARING and
\* PREPARED is safe after a crash at any step (transaction_coordinator.c:246-273).
\* Of a transaction opened without a stream (108-111) nothing is claimed.
THEOREM WriteAhead == FreshIds => (Spec => []LoggedBeforeCommit)
<1> SUFFICES ASSUME FreshIds PROVE Spec => []LoggedBeforeCommit
  OBVIOUS
<1>1. NewIds
  BY FreshIsNew
<1>2. Init => LogInv /\ OwnIds /\ LoggedBeforeCommit
  <2> SUFFICES ASSUME Init PROVE LogInv /\ OwnIds /\ LoggedBeforeCommit
    OBVIOUS
  <2>1. LogInv
    BY DEF Init, LogInv, Busy, Owns, Final
  <2>2. OwnIds
    BY ThreadsAssumption DEF Init, OwnIds
  <2>3. LoggedBeforeCommit
    BY DEF Init, LoggedBeforeCommit
  <2>4. QED
    BY <2>1, <2>2, <2>3
<1>3. IndInv /\ StateInv /\ [Next]_vars => StateInv'
  BY StateStep DEF IndInv
<1>4. IndInv /\ StateInv /\ LogInv /\ [Next]_vars => LogInv'
  BY <1>1, LogStep
<1>5. IndInv /\ IndInv' /\ StateInv /\ OwnIds /\ [Next]_vars => OwnIds'
  BY <1>1, OwnIdsStep
<1>6. /\ IndInv /\ IndInv' /\ StateInv /\ StateInv' /\ LogInv /\ LogInv'
      /\ OwnIds /\ OwnIds' /\ LoggedBeforeCommit /\ [Next]_vars
      => LoggedBeforeCommit'
  BY DecidedStep
<1>7. QED
  BY Inductive, StateInit, <1>2, <1>3, <1>4, <1>5, <1>6, PTL DEF Spec
=============================================================================
