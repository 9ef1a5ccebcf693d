----------------------------- MODULE ThreadPool -----------------------------
(***************************************************************************)
(* The worker pool of server/threadpool.c and its two users: the accept    *)
(* loop of net.c, which submits one job per connection, and main.c, which  *)
(* creates the pool and destroys it when the accept loop ends.             *)
(*                                                                         *)
(* Every critical section of the pool's mutex is one step, except the      *)
(* worker's test of line 59 followed by pthread_cond_wait: there the       *)
(* worker keeps the mutex (location "checked"), and pool creation can run  *)
(* between the two because its error path does not take the mutex.         *)
(***************************************************************************)
EXTENDS Naturals, FiniteSets, Sequences, SequencesExt

CONSTANTS
  Workers,     \* the worker threads
  Jobs,        \* the connections; each is submitted at most once
  NoWorker,    \* the holder of a free mutex
  NoJob,       \* the job of a worker that runs none
  Cap,         \* queue capacity (QUEUE_CAP)
  SpawnFails   \* TRUE when pthread_create may fail

ASSUME PoolAssumption ==
  /\ NoWorker \notin Workers /\ NoJob \notin Jobs
  /\ Cap \in Nat \ {0} /\ SpawnFails \in BOOLEAN
ASSUME WorkersAssumption == IsFiniteSet(Workers) /\ Workers # {}

VARIABLES
  mutex,      \* who holds pool->m from one step to the next
  queue,      \* the list head..tail; size is its length
  shutting,   \* pool->shutting_down
  wpc,        \* where each worker is
  job,        \* the job each worker runs
  main,       \* where the main thread is
  outcome     \* history: what became of each connection

vars == <<mutex, queue, shutting, wpc, job, main, outcome>>

\* A worker is not spawned yet, at the top of its loop, past the test of line
\* 59 with the mutex, in the wait set of pool->cv, running a job, or gone.
WorkerLocations == {"unborn", "top", "checked", "waiting", "run", "exit"}

\* create: the loop of threadpool_create; undo: its error path; accept: the
\* accept loop; join: threadpool_destroy.
MainLocations == {"create", "undo", "accept", "join", "end", "null"}

Outcomes == {"new", "queued", "running", "done", "busy", "dropped"}

TypeOK ==
  /\ mutex \in Workers \cup {NoWorker}
  /\ queue \in Seq(Jobs) /\ Len(queue) <= Cap
  /\ shutting \in BOOLEAN
  /\ wpc \in [Workers -> WorkerLocations]
  /\ job \in [Workers -> Jobs \cup {NoJob}]
  /\ main \in MainLocations
  /\ outcome \in [Jobs -> Outcomes]

Init ==
  /\ mutex = NoWorker
  /\ queue = <<>>
  /\ shutting = FALSE
  /\ wpc = [w \in Workers |-> "unborn"]
  /\ job = [w \in Workers |-> NoJob]
  /\ main = "create"
  /\ outcome = [j \in Jobs |-> "new"]

At(where) == {w \in Workers : wpc[w] = where}

Move(w, where) == wpc' = [wpc EXCEPT ![w] = where]

Becomes(j, what) == outcome' = [outcome EXCEPT ![j] = what]
-----------------------------------------------------------------------------
(* threadpool_create *)

Spawn(w) ==
  /\ main = "create" /\ wpc[w] = "unborn"
  /\ Move(w, "top")
  /\ main' = IF At("unborn") = {w} THEN "accept" ELSE "create"
  /\ UNCHANGED <<mutex, queue, shutting, job, outcome>>

\* Mutant: no broadcast.
Broadcast_Nobody == UNCHANGED wpc

\* pthread_cond_broadcast: every waiting worker goes back to the loop's top,
\* where it locks the mutex and tests again.
Broadcast ==
  wpc' = [w \in Workers |-> IF wpc[w] = "waiting" THEN "top" ELSE wpc[w]]

\* The error path stores the flag and broadcasts without the mutex.
SpawnFail ==
  /\ SpawnFails
  /\ main = "create"
  /\ shutting' = TRUE
  /\ Broadcast
  /\ main' = "undo"
  /\ UNCHANGED <<mutex, queue, job, outcome>>

Exited == \A w \in Workers : wpc[w] \in {"unborn", "exit"}

CreateReturnsNull ==
  /\ main = "undo" /\ Exited
  /\ main' = "null"
  /\ UNCHANGED <<mutex, queue, shutting, wpc, job, outcome>>
-----------------------------------------------------------------------------
(* The accept loop and threadpool_submit *)

\* Mutant: the job is queued without a signal.
NoSignal == UNCHANGED wpc

\* pthread_cond_signal wakes one waiting worker, if there is one.
Signal ==
  \/ At("waiting") = {} /\ UNCHANGED wpc
  \/ \E w \in At("waiting") : Move(w, "top")

\* Mutant: the bound of the queue is off by one.
Submit_OffByOne(j) ==
  /\ main = "accept" /\ mutex = NoWorker
  /\ outcome[j] = "new"
  /\ Len(queue) <= Cap
  /\ queue' = Append(queue, j)
  /\ Signal
  /\ Becomes(j, "queued")
  /\ UNCHANGED <<mutex, shutting, job, main>>

Submit(j) ==
  /\ main = "accept" /\ mutex = NoWorker
  /\ outcome[j] = "new"
  /\ Len(queue) < Cap
  /\ queue' = Append(queue, j)
  /\ Signal
  /\ Becomes(j, "queued")
  /\ UNCHANGED <<mutex, shutting, job, main>>

\* The queue is full: the client is told server_busy, the connection closed.
SubmitBusy(j) ==
  /\ main = "accept" /\ mutex = NoWorker
  /\ outcome[j] = "new"
  /\ Len(queue) >= Cap
  /\ Becomes(j, "busy")
  /\ UNCHANGED <<mutex, queue, shutting, wpc, job, main>>

\* malloc of the Job fails, before the mutex: the client is told the same.
SubmitNoMemory(j) ==
  /\ main = "accept"
  /\ outcome[j] = "new"
  /\ Becomes(j, "busy")
  /\ UNCHANGED <<mutex, queue, shutting, wpc, job, main>>

\* malloc of the HandlerContext fails: closed without an answer.
AcceptDrop(j) ==
  /\ main = "accept"
  /\ outcome[j] = "new"
  /\ Becomes(j, "dropped")
  /\ UNCHANGED <<mutex, queue, shutting, wpc, job, main>>
-----------------------------------------------------------------------------
(* worker_main *)

WorkerCheck(w) ==
  /\ wpc[w] = "top" /\ mutex = NoWorker
  /\ ~shutting /\ queue = <<>>
  /\ mutex' = w
  /\ Move(w, "checked")
  /\ UNCHANGED <<queue, shutting, job, main, outcome>>

WorkerWait(w) ==
  /\ wpc[w] = "checked"
  /\ mutex' = NoWorker
  /\ Move(w, "waiting")
  /\ UNCHANGED <<queue, shutting, job, main, outcome>>

\* POSIX lets pthread_cond_wait return without a signal.
SpuriousWakeup(w) ==
  /\ wpc[w] = "waiting"
  /\ Move(w, "top")
  /\ UNCHANGED <<mutex, queue, shutting, job, main, outcome>>

\* Mutant: the head of the list is not moved on.
WorkerTake_KeepHead(w) ==
  /\ wpc[w] = "top" /\ mutex = NoWorker
  /\ queue # <<>>
  /\ job' = [job EXCEPT ![w] = Head(queue)]
  /\ Move(w, "run")
  /\ Becomes(Head(queue), "running")
  /\ UNCHANGED <<mutex, queue, shutting, main>>

WorkerTake(w) ==
  /\ wpc[w] = "top" /\ mutex = NoWorker
  /\ queue # <<>>
  /\ queue' = Tail(queue)
  /\ job' = [job EXCEPT ![w] = Head(queue)]
  /\ Move(w, "run")
  /\ Becomes(Head(queue), "running")
  /\ UNCHANGED <<mutex, shutting, main>>

\* Mutant: the job reads on after its connection has ended.
WorkerDone_ReadsOn(w) == wpc[w] = "run" /\ UNCHANGED vars

WorkerDone(w) ==
  /\ wpc[w] = "run"
  /\ Becomes(job[w], "done")
  /\ job' = [job EXCEPT ![w] = NoJob]
  /\ Move(w, "top")
  /\ UNCHANGED <<mutex, queue, shutting, main>>

\* Mutant: a worker leaves as soon as it sees the flag.
WorkerExit_AtOnce(w) ==
  /\ wpc[w] = "top" /\ mutex = NoWorker
  /\ shutting
  /\ Move(w, "exit")
  /\ UNCHANGED <<mutex, queue, shutting, job, main, outcome>>

WorkerExit(w) ==
  /\ wpc[w] = "top" /\ mutex = NoWorker
  /\ shutting /\ queue = <<>>
  /\ Move(w, "exit")
  /\ UNCHANGED <<mutex, queue, shutting, job, main, outcome>>
-----------------------------------------------------------------------------
(* threadpool_destroy, called when accept fails for good *)

Destroy ==
  /\ main = "accept" /\ mutex = NoWorker
  /\ shutting' = TRUE
  /\ Broadcast
  /\ main' = "join"
  /\ UNCHANGED <<mutex, queue, job, outcome>>

\* The jobs still in the list are freed without having run.
DestroyReturns ==
  /\ main = "join" /\ Exited
  /\ main' = "end"
  /\ queue' = <<>>
  /\ UNCHANGED <<mutex, shutting, wpc, job, outcome>>

\* The process ends, or threadpool_create reported its error.
Stopped ==
  /\ main \in {"end", "null"}
  /\ UNCHANGED vars

WorkerStep(w) ==
  WorkerCheck(w) \/ WorkerWait(w) \/ WorkerTake(w) \/ WorkerDone(w) \/ WorkerExit(w)

MainJoins == CreateReturnsNull \/ DestroyReturns

Next ==
  \/ \E w \in Workers : Spawn(w) \/ WorkerStep(w) \/ SpuriousWakeup(w)
  \/ \E j \in Jobs : Submit(j) \/ SubmitBusy(j) \/ SubmitNoMemory(j) \/ AcceptDrop(j)
  \/ SpawnFail \/ Destroy \/ MainJoins \/ Stopped

Spec == Init /\ [][Next]_vars

\* A worker keeps running when it can, jobs end, and pthread_join returns
\* when the thread has ended.  WF is enough although the mutex is contended:
\* its holder releases it in its next step, and once no connection is new
\* only workers can take it.  Nobody has to connect, and accept need not fail.
Fairness ==
  /\ \A w \in Workers : WF_vars(WorkerStep(w))
  /\ WF_vars(MainJoins)
  /\ WF_vars(\E w \in Workers : Spawn(w))

FairSpec == Spec /\ Fairness
-----------------------------------------------------------------------------
(* Properties *)

\* The signal of threadpool_submit is never lost: while a worker sleeps,
\* there are at least as many workers about to look at the queue as there are
\* jobs in it (threadpool.c:59-60 against 144-148).
NoLostWakeup ==
  At("waiting") # {} => Len(queue) <= Cardinality(At("top"))

\* A connection is in exactly one place: queued once, with one worker, or
\* finished: none is dropped, run twice or run by two workers.
EachJobOnce ==
  \A j \in Jobs :
    /\ Cardinality({i \in DOMAIN queue : queue[i] = j})
         = IF outcome[j] = "queued" /\ main # "end" THEN 1 ELSE 0
    /\ Cardinality({w \in Workers : job[w] = j})
         = IF outcome[j] = "running" THEN 1 ELSE 0

\* threadpool.h: all queued jobs have finished when threadpool_destroy
\* returns; the loop of line 168 finds nothing to free.
DrainedAtEnd ==
  main = "end" => \A j \in Jobs : outcome[j] \notin {"queued", "running"}

\* An accepted connection is served, also when the pool is destroyed
\* meanwhile, and threadpool_destroy returns.
EveryJobServed ==
  \A j \in Jobs : outcome[j] = "queued" ~> outcome[j] = "done"
DestroyTerminates == main = "join" ~> main = "end"
=============================================================================
