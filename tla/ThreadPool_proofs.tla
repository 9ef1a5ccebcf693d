------------------------- MODULE ThreadPool_proofs -------------------------
(***************************************************************************)
(* Proofs about the worker pool, for any number of workers and             *)
(* connections and any capacity of the queue.                              *)
(***************************************************************************)
EXTENDS ThreadPool, FiniteSetTheorems, TLAPS

(***************************************************************************)
(* The inductive invariant.  MutexInv: only a worker between its test and  *)
(* its wait keeps the mutex, and the queue stays empty meanwhile.          *)
(* StageInv: what each stage of the main thread implies, and that a worker *)
(* leaves only a drained pool, which stays drained.  QueueInv and RunInv   *)
(* say where the queued and the running connections are.                   *)
(***************************************************************************)
MutexInv ==
  /\ \A w \in Workers : wpc[w] = "checked" => mutex = w
  /\ mutex # NoWorker => queue = <<>>

StageInv ==
  /\ main \in {"create", "undo", "null", "end"} => queue = <<>>
  /\ main \in {"create", "accept"} => shutting = FALSE
  /\ main \in {"accept", "join"} => \A w \in Workers : wpc[w] # "unborn"
  /\ main = "end" => \A w \in Workers : wpc[w] = "exit"
  /\ \A w \in Workers : wpc[w] = "exit" => shutting = TRUE /\ queue = <<>>

QueueInv ==
  /\ \A i, k \in 1..Len(queue) : queue[i] = queue[k] => i = k
  /\ \A j \in Jobs : outcome[j] = "queued" <=> \E i \in 1..Len(queue) : queue[i] = j

RunInv ==
  /\ \A w \in Workers : job[w] # NoJob <=> wpc[w] = "run"
  /\ \A w, v \in Workers : job[w] = job[v] /\ job[w] # NoJob => w = v
  /\ \A j \in Jobs : outcome[j] = "running" <=> \E w \in Workers : job[w] = j

PoolInv == TypeOK /\ MutexInv /\ StageInv /\ QueueInv /\ RunInv /\ NoLostWakeup

\* The steps of Next, sorted by what they do to the queue and to the jobs.
Refuse(j) == SubmitBusy(j) \/ SubmitNoMemory(j) \/ AcceptDrop(j)
Stir(w) == Spawn(w) \/ WorkerCheck(w) \/ WorkerWait(w) \/ SpuriousWakeup(w) \/ WorkerExit(w)
Announce == SpawnFail \/ Destroy

LEMMA EmptyQueue == <<>> \in Seq(Jobs) /\ Len(<<>>) <= Cap
<1>1. <<>> \in Seq(Jobs) /\ Len(<<>>) = 0
  OBVIOUS
<1>2. QED
  BY <1>1, PoolAssumption

LEMMA NextCases ==
  ASSUME [Next]_vars
  PROVE  \/ \E w \in Workers : Stir(w) \/ WorkerTake(w) \/ WorkerDone(w)
         \/ \E j \in Jobs : Submit(j) \/ Refuse(j)
         \/ Announce \/ MainJoins \/ UNCHANGED vars
BY DEF Next, WorkerStep, Stir, Refuse, Announce, Stopped

\* A signal moves at most one worker, and only from the wait set.
LEMMA SignalMoves ==
  ASSUME TypeOK, Signal
  PROVE  /\ wpc' \in [Workers -> WorkerLocations]
         /\ \A w \in Workers : wpc'[w] = wpc[w] \/ (wpc[w] = "waiting" /\ wpc'[w] = "top")
BY DEF Signal, At, Move, TypeOK, WorkerLocations

LEMMA BroadcastMoves ==
  ASSUME TypeOK, Broadcast
  PROVE  /\ wpc' \in [Workers -> WorkerLocations]
         /\ \A w \in Workers : IF wpc[w] = "waiting" THEN wpc'[w] = "top" ELSE wpc'[w] = wpc[w]
BY DEF Broadcast, TypeOK, WorkerLocations

LEMMA TypeStep == TypeOK /\ RunInv /\ [Next]_vars => TypeOK'
<1> SUFFICES ASSUME TypeOK, RunInv, [Next]_vars PROVE TypeOK'
  OBVIOUS
<1> USE PoolAssumption
<1>1. ASSUME NEW w \in Workers, Stir(w) PROVE TypeOK'
  <2>1. wpc' \in [Workers -> WorkerLocations]
    BY <1>1 DEF Stir, Spawn, WorkerCheck, WorkerWait, SpuriousWakeup, WorkerExit,
                Move, TypeOK, WorkerLocations
  <2>2. main' \in MainLocations
    BY <1>1 DEF Stir, Spawn, WorkerCheck, WorkerWait, SpuriousWakeup, WorkerExit,
                TypeOK, MainLocations
  <2>3. QED
    BY <1>1, <2>1, <2>2 DEF Stir, Spawn, WorkerCheck, WorkerWait, SpuriousWakeup,
                            WorkerExit, TypeOK
<1>2. ASSUME NEW w \in Workers, WorkerTake(w) PROVE TypeOK'
  <2>1. /\ Head(queue) \in Jobs
        /\ Tail(queue) \in Seq(Jobs) /\ Len(Tail(queue)) = Len(queue) - 1
    BY <1>2 DEF WorkerTake, TypeOK
  <2>2. /\ wpc' \in [Workers -> WorkerLocations] /\ outcome' \in [Jobs -> Outcomes]
        /\ job' \in [Workers -> Jobs \cup {NoJob}]
    BY <1>2, <2>1 DEF WorkerTake, Move, Becomes, TypeOK, WorkerLocations, Outcomes
  <2>3. queue' \in Seq(Jobs) /\ Len(queue') <= Cap
    BY <1>2, <2>1 DEF WorkerTake, TypeOK
  <2>4. QED
    BY <1>2, <2>2, <2>3 DEF WorkerTake, TypeOK
<1>3. ASSUME NEW w \in Workers, WorkerDone(w) PROVE TypeOK'
  <2>1. job[w] \in Jobs
    BY <1>3 DEF WorkerDone, RunInv, TypeOK
  <2>2. /\ wpc' \in [Workers -> WorkerLocations] /\ outcome' \in [Jobs -> Outcomes]
        /\ job' \in [Workers -> Jobs \cup {NoJob}]
    BY <1>3, <2>1 DEF WorkerDone, Move, Becomes, TypeOK, WorkerLocations, Outcomes
  <2>3. QED
    BY <1>3, <2>2 DEF WorkerDone, TypeOK
<1>4. ASSUME NEW j \in Jobs, Submit(j) PROVE TypeOK'
  <2>1. queue' \in Seq(Jobs) /\ Len(queue') <= Cap
    BY <1>4 DEF Submit, TypeOK
  <2>2. outcome' \in [Jobs -> Outcomes]
    BY <1>4 DEF Submit, Becomes, TypeOK, Outcomes
  <2>3. QED
    BY <1>4, <2>1, <2>2, SignalMoves DEF Submit, TypeOK
<1>5. ASSUME NEW j \in Jobs, Refuse(j) PROVE TypeOK'
  BY <1>5 DEF Refuse, SubmitBusy, SubmitNoMemory, AcceptDrop, Becomes, TypeOK, Outcomes
<1>6. CASE Announce
  BY <1>6, BroadcastMoves DEF Announce, SpawnFail, Destroy, TypeOK, MainLocations
<1>7. CASE MainJoins
  <2>1. queue' \in Seq(Jobs) /\ Len(queue') <= Cap
    BY <1>7, EmptyQueue DEF MainJoins, CreateReturnsNull, DestroyReturns, TypeOK
  <2>2. QED
    BY <1>7, <2>1 DEF MainJoins, CreateReturnsNull, DestroyReturns, TypeOK, MainLocations
<1>8. CASE UNCHANGED vars
  BY <1>8 DEF vars, TypeOK
<1>9. QED
  BY <1>1, <1>2, <1>3, <1>4, <1>5, <1>6, <1>7, <1>8, NextCases

LEMMA MutexStep == PoolInv /\ [Next]_vars => MutexInv'
<1> SUFFICES ASSUME PoolInv, [Next]_vars PROVE MutexInv'
  OBVIOUS
<1> USE PoolAssumption DEF PoolInv, MutexInv
<1>1. ASSUME NEW w \in Workers, Stir(w) PROVE MutexInv'
  BY <1>1 DEF Stir, Spawn, WorkerCheck, WorkerWait, SpuriousWakeup, WorkerExit, Move, TypeOK
<1>2. ASSUME NEW w \in Workers, WorkerTake(w) \/ WorkerDone(w) PROVE MutexInv'
  BY <1>2 DEF WorkerTake, WorkerDone, Move, TypeOK
<1>3. ASSUME NEW j \in Jobs, Submit(j) \/ Refuse(j) PROVE MutexInv'
  <2>1. CASE Submit(j)
    BY <2>1, SignalMoves DEF Submit
  <2>2. CASE Refuse(j)
    BY <2>2 DEF Refuse, SubmitBusy, SubmitNoMemory, AcceptDrop
  <2>3. QED
    BY <1>3, <2>1, <2>2
<1>4. CASE Announce
  BY <1>4, BroadcastMoves DEF Announce, SpawnFail, Destroy
<1>5. CASE MainJoins \/ UNCHANGED vars
  BY <1>5 DEF MainJoins, CreateReturnsNull, DestroyReturns, vars
<1>6. QED
  BY <1>1, <1>2, <1>3, <1>4, <1>5, NextCases

LEMMA StageStep == PoolInv /\ [Next]_vars => StageInv'
<1> SUFFICES ASSUME PoolInv, [Next]_vars PROVE StageInv'
  OBVIOUS
<1> USE PoolAssumption DEF PoolInv, StageInv
<1>1. ASSUME NEW w \in Workers, Stir(w) PROVE StageInv'
  <2>1. CASE Spawn(w)
    BY <2>1 DEF Spawn, Move, TypeOK, At
  <2>2. CASE WorkerCheck(w) \/ WorkerWait(w) \/ SpuriousWakeup(w) \/ WorkerExit(w)
    BY <2>2 DEF WorkerCheck, WorkerWait, SpuriousWakeup, WorkerExit, Move, TypeOK
  <2>3. QED
    BY <1>1, <2>1, <2>2 DEF Stir
<1>2. ASSUME NEW w \in Workers, WorkerTake(w) \/ WorkerDone(w) PROVE StageInv'
  BY <1>2 DEF WorkerTake, WorkerDone, Move, TypeOK
<1>3. ASSUME NEW j \in Jobs, Submit(j) \/ Refuse(j) PROVE StageInv'
  <2>1. CASE Submit(j)
    BY <2>1, SignalMoves DEF Submit
  <2>2. CASE Refuse(j)
    BY <2>2 DEF Refuse, SubmitBusy, SubmitNoMemory, AcceptDrop
  <2>3. QED
    BY <1>3, <2>1, <2>2
<1>4. CASE Announce
  BY <1>4, BroadcastMoves DEF Announce, SpawnFail, Destroy
<1>5. CASE MainJoins
  BY <1>5 DEF MainJoins, CreateReturnsNull, DestroyReturns, Exited
<1>6. CASE UNCHANGED vars
  BY <1>6 DEF vars
<1>7. QED
  BY <1>1, <1>2, <1>3, <1>4, <1>5, <1>6, NextCases

LEMMA QueueStep == PoolInv /\ [Next]_vars => QueueInv'
<1> SUFFICES ASSUME PoolInv, [Next]_vars PROVE QueueInv'
  OBVIOUS
<1>0. /\ queue \in Seq(Jobs) /\ Len(queue) \in Nat /\ outcome \in [Jobs -> Outcomes]
      /\ job \in [Workers -> Jobs \cup {NoJob}]
  BY DEF PoolInv, TypeOK
<1>1. CASE UNCHANGED <<queue, outcome>>
  BY <1>1 DEF PoolInv, QueueInv
<1>2. ASSUME NEW w \in Workers, WorkerTake(w) PROVE QueueInv'
  <2>1. /\ queue' = Tail(queue) /\ Len(queue) >= 1 /\ Head(queue) = queue[1]
        /\ queue[1] \in Jobs
    BY <1>0, <1>2 DEF WorkerTake
  <2>2. Len(queue') = Len(queue) - 1 /\ \A i \in 1..Len(queue') : queue'[i] = queue[i + 1]
    BY <1>0, <2>1
  <2>3. \A i, k \in 1..Len(queue') : queue'[i] = queue'[k] => i = k
    BY <1>0, <2>1, <2>2 DEF PoolInv, QueueInv
  <2>4. \A j \in Jobs : (\E i \in 1..Len(queue') : queue'[i] = j)
                        <=> (j # queue[1] /\ \E i \in 1..Len(queue) : queue[i] = j)
    <3> TAKE j \in Jobs
    <3>1. ASSUME NEW i \in 1..Len(queue'), queue'[i] = j
          PROVE  j # queue[1] /\ \E k \in 1..Len(queue) : queue[k] = j
      <4>1. i + 1 \in 1..Len(queue) /\ i + 1 # 1 /\ 1 \in 1..Len(queue)
            /\ queue[i + 1] = j
        BY <1>0, <2>1, <2>2, <3>1
      <4>2. QED
        BY <4>1 DEF PoolInv, QueueInv
    <3>2. ASSUME j # queue[1], NEW i \in 1..Len(queue), queue[i] = j
          PROVE  \E k \in 1..Len(queue') : queue'[k] = j
      <4>1. i - 1 \in 1..Len(queue') /\ queue'[i - 1] = j
        BY <1>0, <2>1, <2>2, <3>2
      <4>2. QED
        BY <4>1
    <3>3. QED
      BY <3>1, <3>2
  <2>5. outcome' = [outcome EXCEPT ![queue[1]] = "running"]
    BY <1>2, <2>1 DEF WorkerTake, Becomes
  <2>6. \A j \in Jobs : outcome'[j] = "queued" <=> (j # queue[1] /\ outcome[j] = "queued")
    BY <1>0, <2>1, <2>5
  <2>7. QED
    BY <2>3, <2>4, <2>6 DEF PoolInv, QueueInv
<1>3. ASSUME NEW w \in Workers, WorkerDone(w) PROVE QueueInv'
  <2>1. job[w] \in Jobs /\ outcome[job[w]] = "running"
    BY <1>0, <1>3 DEF WorkerDone, PoolInv, RunInv
  <2>2. \A j \in Jobs : outcome'[j] = "queued" <=> outcome[j] = "queued"
    BY <1>0, <1>3, <2>1 DEF WorkerDone, Becomes
  <2>3. QED
    BY <1>3, <2>2 DEF WorkerDone, PoolInv, QueueInv
<1>4. ASSUME NEW j \in Jobs, Submit(j) PROVE QueueInv'
  <2>1. /\ queue' = Append(queue, j) /\ Len(queue') = Len(queue) + 1
        /\ queue'[Len(queue) + 1] = j
        /\ \A i \in 1..Len(queue) : queue'[i] = queue[i] /\ queue[i] # j
    BY <1>0, <1>4 DEF Submit, PoolInv, QueueInv
  <2>2. \A i \in 1..Len(queue') : i \in 1..Len(queue) \/ i = Len(queue) + 1
    BY <1>0, <2>1
  <2>3. \A i, k \in 1..Len(queue') : queue'[i] = queue'[k] => i = k
    BY <2>1, <2>2 DEF PoolInv, QueueInv
  <2>4. \A k \in Jobs : outcome'[k] = "queued" <=> (k = j \/ outcome[k] = "queued")
    BY <1>0, <1>4 DEF Submit, Becomes
  <2>5. 1..Len(queue') = 1..Len(queue) \cup {Len(queue) + 1}
    BY <1>0, <2>1
  <2>6. QED
    BY <2>1, <2>3, <2>4, <2>5 DEF PoolInv, QueueInv
<1>5. ASSUME NEW j \in Jobs, Refuse(j) PROVE QueueInv'
  <2>1. \A k \in Jobs : outcome'[k] = "queued" <=> outcome[k] = "queued"
    BY <1>0, <1>5 DEF Refuse, SubmitBusy, SubmitNoMemory, AcceptDrop, Becomes
  <2>2. UNCHANGED queue
    BY <1>5 DEF Refuse, SubmitBusy, SubmitNoMemory, AcceptDrop
  <2>3. QED
    BY <2>1, <2>2 DEF PoolInv, QueueInv
<1>6. CASE DestroyReturns
  <2>1. PICK w \in Workers : TRUE
    BY WorkersAssumption
  <2>2. wpc[w] = "exit"
    BY <1>6 DEF DestroyReturns, Exited, PoolInv, StageInv
  <2>3. UNCHANGED <<queue, outcome>>
    BY <1>6, <2>2 DEF DestroyReturns, PoolInv, StageInv
  <2>4. QED
    BY <1>1, <2>3
<1>7. CASE \/ \E w \in Workers : Stir(w)
           \/ Announce \/ CreateReturnsNull \/ UNCHANGED vars
  BY <1>1, <1>7 DEF Stir, Spawn, WorkerCheck, WorkerWait, SpuriousWakeup, WorkerExit,
                    Announce, SpawnFail, Destroy, CreateReturnsNull, vars
<1>8. QED
  BY <1>2, <1>3, <1>4, <1>5, <1>6, <1>7, NextCases DEF MainJoins

LEMMA RunStep == PoolInv /\ [Next]_vars => RunInv'
<1> SUFFICES ASSUME PoolInv, [Next]_vars PROVE RunInv'
  OBVIOUS
<1>0. /\ queue \in Seq(Jobs) /\ outcome \in [Jobs -> Outcomes]
      /\ wpc \in [Workers -> WorkerLocations]
      /\ job \in [Workers -> Jobs \cup {NoJob}] /\ NoJob \notin Jobs
  BY PoolAssumption DEF PoolInv, TypeOK
<1>1. CASE /\ UNCHANGED job
           /\ \A w \in Workers : wpc'[w] = "run" <=> wpc[w] = "run"
           /\ \A j \in Jobs : outcome'[j] = "running" <=> outcome[j] = "running"
  BY <1>1 DEF PoolInv, RunInv
<1>2. ASSUME NEW w \in Workers, Stir(w) PROVE RunInv'
  <2>1. UNCHANGED <<job, outcome>>
    BY <1>2 DEF Stir, Spawn, WorkerCheck, WorkerWait, SpuriousWakeup, WorkerExit
  <2>2. \A v \in Workers : wpc'[v] = "run" <=> wpc[v] = "run"
    BY <1>0, <1>2 DEF Stir, Spawn, WorkerCheck, WorkerWait, SpuriousWakeup, WorkerExit, Move
  <2>3. QED
    BY <1>1, <2>1, <2>2
<1>3. ASSUME NEW w \in Workers, WorkerTake(w) PROVE RunInv'
  <2>1. /\ queue[1] \in Jobs /\ outcome[queue[1]] = "queued"
        /\ job' = [job EXCEPT ![w] = queue[1]]
        /\ outcome' = [outcome EXCEPT ![queue[1]] = "running"]
    <3>1. Head(queue) = queue[1] /\ 1 \in 1..Len(queue) /\ queue[1] \in Jobs
      BY <1>0, <1>3 DEF WorkerTake
    <3>2. QED
      BY <1>3, <3>1 DEF WorkerTake, Becomes, PoolInv, QueueInv
  <2>2. \A v \in Workers : job[v] # queue[1]
    BY <1>0, <2>1 DEF PoolInv, RunInv
  <2>3. wpc[w] = "top" /\ wpc' = [wpc EXCEPT ![w] = "run"] /\ job[w] = NoJob
    BY <1>0, <1>3 DEF WorkerTake, Move, PoolInv, RunInv
  <2>4. QED
    BY <1>0, <2>1, <2>2, <2>3 DEF PoolInv, RunInv
<1>4. ASSUME NEW w \in Workers, WorkerDone(w) PROVE RunInv'
  <2>1. /\ job[w] \in Jobs
        /\ job' = [job EXCEPT ![w] = NoJob]
        /\ wpc' = [wpc EXCEPT ![w] = "top"]
        /\ outcome' = [outcome EXCEPT ![job[w]] = "done"]
    BY <1>0, <1>4 DEF WorkerDone, Move, Becomes, PoolInv, RunInv
  <2>2. \A v \in Workers : v # w => job[v] # job[w]
    BY <1>0, <2>1 DEF PoolInv, RunInv
  <2>3. QED
    BY <1>0, <2>1, <2>2 DEF PoolInv, RunInv
<1>5. ASSUME NEW j \in Jobs, Submit(j) \/ Refuse(j) PROVE RunInv'
  <2>1. UNCHANGED job /\ \A k \in Jobs : outcome'[k] = "running" <=> outcome[k] = "running"
    BY <1>0, <1>5 DEF Submit, Refuse, SubmitBusy, SubmitNoMemory, AcceptDrop, Becomes
  <2>2. \A v \in Workers : wpc'[v] = "run" <=> wpc[v] = "run"
    BY <1>5, SignalMoves DEF Submit, Refuse, SubmitBusy, SubmitNoMemory, AcceptDrop, PoolInv
  <2>3. QED
    BY <1>1, <2>1, <2>2
<1>6. CASE Announce
  <2>1. \A v \in Workers : wpc'[v] = "run" <=> wpc[v] = "run"
    BY <1>6, BroadcastMoves DEF Announce, SpawnFail, Destroy, PoolInv
  <2>2. QED
    BY <1>1, <1>6, <2>1 DEF Announce, SpawnFail, Destroy
<1>7. CASE MainJoins \/ UNCHANGED vars
  BY <1>1, <1>7 DEF MainJoins, CreateReturnsNull, DestroyReturns, vars
<1>8. QED
  BY <1>2, <1>3, <1>4, <1>5, <1>6, <1>7, NextCases
-----------------------------------------------------------------------------
(* The workers that are about to look at the queue *)

LEMMA TopFinite == IsFiniteSet(At("top")) /\ Cardinality(At("top")) \in Nat
<1>1. At("top") \in SUBSET Workers
  BY DEF At
<1>2. QED
  BY <1>1, WorkersAssumption, FS_Subset, FS_CardinalityType

LEMMA JoinTop ==
  ASSUME TypeOK, NEW w \in Workers, wpc[w] # "top", Move(w, "top")
  PROVE  Cardinality(At("top")') = Cardinality(At("top")) + 1
<1>1. At("top")' = At("top") \cup {w} /\ w \notin At("top")
  BY DEF At, Move, TypeOK
<1>2. QED
  BY <1>1, TopFinite, FS_AddElement

LEMMA LeaveTop ==
  ASSUME TypeOK, NEW w \in Workers, wpc[w] = "top", Move(w, "run")
  PROVE  Cardinality(At("top")') = Cardinality(At("top")) - 1
<1>1. At("top")' = At("top") \ {w} /\ w \in At("top")
  BY DEF At, Move, TypeOK
<1>2. QED
  BY <1>1, TopFinite, FS_RemoveElement

LEMMA WakeStep == PoolInv /\ [Next]_vars => NoLostWakeup'
<1> SUFFICES ASSUME PoolInv, [Next]_vars, At("waiting")' # {}
             PROVE  Len(queue') <= Cardinality(At("top")')
  BY DEF NoLostWakeup
<1>0. /\ TypeOK /\ queue \in Seq(Jobs) /\ Len(queue) \in Nat
      /\ Cardinality(At("top")) \in Nat /\ Cardinality(At("top")') \in Nat
  <2>1. (Cardinality(At("top")) \in Nat)'
    BY TopFinite, PTL
  <2>2. QED
    BY <2>1, TopFinite DEF PoolInv, TypeOK
<1>1. CASE queue' = <<>>
  BY <1>0, <1>1
<1>2. CASE UNCHANGED <<queue, wpc>>
  BY <1>2 DEF PoolInv, NoLostWakeup, At
<1>3. ASSUME At("waiting") # {}, NEW w \in Workers, wpc[w] # "top", Move(w, "top"),
             Len(queue') <= Len(queue) + 1, Len(queue') \in Nat
      PROVE  Len(queue') <= Cardinality(At("top")')
  <2>1. Cardinality(At("top")') = Cardinality(At("top")) + 1
    BY <1>0, <1>3, JoinTop
  <2>2. Len(queue) <= Cardinality(At("top"))
    BY <1>3 DEF PoolInv, NoLostWakeup
  <2>3. QED
    BY <1>0, <1>3, <2>1, <2>2
<1>4. ASSUME NEW w \in Workers, Stir(w) PROVE Len(queue') <= Cardinality(At("top")')
  <2>1. CASE Spawn(w)
    BY <1>0, <1>1, <2>1 DEF Spawn, PoolInv, StageInv
  <2>2. CASE WorkerCheck(w) \/ WorkerExit(w)
    BY <1>1, <2>2 DEF WorkerCheck, WorkerExit
  <2>3. CASE WorkerWait(w)
    BY <1>1, <2>3, PoolAssumption DEF WorkerWait, PoolInv, MutexInv
  <2>4. CASE SpuriousWakeup(w)
    <3>1. At("waiting") # {} /\ wpc[w] # "top" /\ Move(w, "top") /\ queue' = queue
      BY <2>4 DEF SpuriousWakeup, At
    <3>2. QED
      BY <1>0, <1>3, <3>1
  <2>5. QED
    BY <1>4, <2>1, <2>2, <2>3, <2>4 DEF Stir
<1>5. ASSUME NEW w \in Workers, WorkerTake(w) PROVE Len(queue') <= Cardinality(At("top")')
  <2>1. Cardinality(At("top")') = Cardinality(At("top")) - 1
    BY <1>0, <1>5, LeaveTop DEF WorkerTake
  <2>2. Len(queue') = Len(queue) - 1
    BY <1>0, <1>5 DEF WorkerTake
  <2>3. At("waiting") # {}
    BY <1>0, <1>5 DEF WorkerTake, Move, At, TypeOK
  <2>4. QED
    BY <1>0, <2>1, <2>2, <2>3 DEF PoolInv, NoLostWakeup
<1>6. ASSUME NEW w \in Workers, WorkerDone(w) PROVE Len(queue') <= Cardinality(At("top")')
  <2>1. At("waiting") # {}
    BY <1>0, <1>6 DEF WorkerDone, Move, At, TypeOK
  <2>2. QED
    BY <1>0, <1>3, <1>6, <2>1 DEF WorkerDone
<1>7. ASSUME NEW j \in Jobs, Submit(j) PROVE Len(queue') <= Cardinality(At("top")')
  <2>1. Len(queue') = Len(queue) + 1
    BY <1>0, <1>7 DEF Submit
  <2>2. PICK w \in At("waiting") : Move(w, "top")
    BY <1>7 DEF Submit, Signal, At
  <2>3. QED
    BY <1>0, <1>3, <2>1, <2>2 DEF At
<1>8. ASSUME NEW j \in Jobs, Refuse(j) PROVE Len(queue') <= Cardinality(At("top")')
  BY <1>2, <1>8 DEF Refuse, SubmitBusy, SubmitNoMemory, AcceptDrop
<1>9. CASE Announce
  BY <1>0, <1>9, BroadcastMoves DEF Announce, SpawnFail, Destroy, At
<1>10. CASE MainJoins \/ UNCHANGED vars
  BY <1>1, <1>2, <1>10 DEF MainJoins, CreateReturnsNull, DestroyReturns, vars
<1>11. QED
  BY <1>4, <1>5, <1>6, <1>7, <1>8, <1>9, <1>10, NextCases

LEMMA PoolInductive == Spec => []PoolInv
<1>1. Init => PoolInv
  <2> SUFFICES ASSUME Init PROVE PoolInv
    OBVIOUS
  <2>1. TypeOK
    BY PoolAssumption, EmptyQueue DEF Init, TypeOK, WorkerLocations, MainLocations, Outcomes
  <2>2. MutexInv /\ StageInv
    BY PoolAssumption DEF Init, MutexInv, StageInv
  <2>3. QueueInv /\ RunInv
    BY PoolAssumption DEF Init, QueueInv, RunInv
  <2>4. NoLostWakeup
    BY DEF Init, NoLostWakeup, At
  <2>5. QED
    BY <2>1, <2>2, <2>3, <2>4 DEF PoolInv
<1>2. PoolInv /\ [Next]_vars => PoolInv'
  BY TypeStep, MutexStep, StageStep, QueueStep, RunStep, WakeStep DEF PoolInv
<1>3. QED
  BY <1>1, <1>2, PTL DEF Spec
-----------------------------------------------------------------------------
(* The theorems *)

\* The state is well typed and the queue never holds more than QUEUE_CAP jobs
\* (threadpool_submit).
THEOREM PoolTypes == Spec => []TypeOK
<1>1. PoolInv => TypeOK
  BY DEF PoolInv
<1>2. QED
  BY <1>1, PoolInductive, PTL

\* No signal is lost: while a worker sleeps, as many workers as there are jobs
\* in the queue are on their way to it (worker_main, threadpool_submit).
THEOREM WakeupsReach == Spec => []NoLostWakeup
<1>1. PoolInv => NoLostWakeup
  BY DEF PoolInv
<1>2. QED
  BY <1>1, PoolInductive, PTL

\* Every connection is in exactly one place: no job is lost, run twice or run
\* by two workers (worker_main, threadpool_submit, threadpool_destroy).
THEOREM JobsOnce == Spec => []EachJobOnce
<1>1. PoolInv => EachJobOnce
  <2> SUFFICES ASSUME PoolInv, NEW j \in Jobs
               PROVE  /\ Cardinality({i \in DOMAIN queue : queue[i] = j})
                           = IF outcome[j] = "queued" /\ main # "end" THEN 1 ELSE 0
                      /\ Cardinality({w \in Workers : job[w] = j})
                           = IF outcome[j] = "running" THEN 1 ELSE 0
    BY DEF EachJobOnce
  <2> DEFINE Places == {i \in DOMAIN queue : queue[i] = j}
             Runners == {w \in Workers : job[w] = j}
  <2>1. queue \in Seq(Jobs) /\ DOMAIN queue = 1..Len(queue)
    BY DEF PoolInv, TypeOK
  <2>2. Cardinality(Places) = IF outcome[j] = "queued" THEN 1 ELSE 0
    <3>1. CASE outcome[j] = "queued"
      <4>1. PICK i \in 1..Len(queue) : queue[i] = j
        BY <3>1 DEF PoolInv, QueueInv
      <4>2. Places = {i}
        BY <2>1, <4>1 DEF PoolInv, QueueInv
      <4>3. QED
        BY <3>1, <4>2, FS_Singleton
    <3>2. CASE outcome[j] # "queued"
      <4>1. Places = {}
        BY <2>1, <3>2 DEF PoolInv, QueueInv
      <4>2. QED
        BY <3>2, <4>1, FS_EmptySet
    <3>3. QED
      BY <3>1, <3>2
  <2>3. main = "end" => outcome[j] # "queued"
    BY <2>1 DEF PoolInv, StageInv, QueueInv
  <2>4. Cardinality(Runners) = IF outcome[j] = "running" THEN 1 ELSE 0
    <3>1. CASE outcome[j] = "running"
      <4>1. PICK w \in Workers : job[w] = j
        BY <3>1 DEF PoolInv, RunInv
      <4>2. Runners = {w}
        BY <4>1, PoolAssumption DEF PoolInv, RunInv
      <4>3. QED
        BY <3>1, <4>2, FS_Singleton
    <3>2. CASE outcome[j] # "running"
      <4>1. Runners = {}
        BY <3>2 DEF PoolInv, RunInv
      <4>2. QED
        BY <3>2, <4>1, FS_EmptySet
    <3>3. QED
      BY <3>1, <3>2
  <2>5. QED
    BY <2>2, <2>3, <2>4
<1>2. QED
  BY <1>1, PoolInductive, PTL

\* When threadpool_destroy returns, every queued job has been run to its end:
\* its last loop finds nothing to free.
THEOREM PoolDrains == Spec => []DrainedAtEnd
<1>1. PoolInv => DrainedAtEnd
  <2> SUFFICES ASSUME PoolInv, main = "end", NEW j \in Jobs
               PROVE  outcome[j] \notin {"queued", "running"}
    BY DEF DrainedAtEnd
  <2>1. queue = <<>> /\ \A w \in Workers : wpc[w] = "exit"
    BY DEF PoolInv, StageInv
  <2>2. outcome[j] # "queued"
    BY <2>1 DEF PoolInv, QueueInv
  <2>3. outcome[j] # "running"
    BY <2>1, PoolAssumption DEF PoolInv, RunInv
  <2>4. QED
    BY <2>2, <2>3
<1>2. QED
  BY <1>1, PoolInductive, PTL
=============================================================================
