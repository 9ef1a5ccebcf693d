------------------------------ MODULE Reversal ------------------------------
(***************************************************************************)
(* The reversal queue of server/reversal.c: handlers enqueue the id of a   *)
(* payment whose two-phase commit failed, one background thread asks the   *)
(* clearing system to void it, and main.c shuts the thread down after the  *)
(* workers have been joined.  When reversal_init cannot create the thread, *)
(* main.c goes on without it, and tasks are accepted all the same.         *)
(*                                                                         *)
(* Every use of the list is one critical section of g_mu, hence one step.  *)
(* A queued task keeps the seconds left until its next_at.                 *)
(***************************************************************************)
EXTENDS Naturals, FiniteSets, Sequences, SequencesExt

CONSTANTS
  Ids,          \* transaction ids; each is enqueued at most once
  NoTask,       \* the worker's hand is empty
  MaxAttempts,  \* REVERSAL_MAX_ATTEMPTS
  BaseDelayMs   \* REVERSAL_BASE_DELAY_MS

\* The largest int.
IntMax == 2147483647

\* max_attempts and base_delay_ms fall back to 6 and 250 below 1.  The code
\* does not guard the shift and the product of line 110: the model is about
\* settings for which no delay that is computed overflows an int.
ASSUME ReversalAssumption ==
  MaxAttempts \in Nat \ {0} /\ BaseDelayMs \in Nat \ {0}
ASSUME DelayAssumption ==
  \A k \in 1..(MaxAttempts - 1) : BaseDelayMs * 2^(k - 1) \in 0..IntMax

VARIABLES
  queue,     \* the list from g_head: records [id, attempts, due]
  hand,      \* the task the thread works on
  shutdown,  \* g_shutdown
  wpc,       \* where the thread is
  main,      \* where main.c is: "run", "join" (reversal_shutdown), "end"
  outcome    \* what became of each id

vars == <<queue, hand, shutdown, wpc, main, outcome>>

\* "voided" and "assumed" are both counted as succeeded: clearing has carried
\* out the abort, or it has not.
Outcomes == {"none", "lost", "enqueued", "voided", "assumed", "failed"}

\* delay / 1000: whole seconds.
Delay(attempts) == (BaseDelayMs * 2^(attempts - 1)) \div 1000

Tasks == [id : Ids, attempts : 0..(MaxAttempts - 1), due : 0..(IntMax \div 1000)]

ASSUME HandAssumption == NoTask \notin Tasks

TypeOK ==
  /\ queue \in Seq(Tasks)
  /\ hand \in Tasks \cup {NoTask}
  /\ shutdown \in BOOLEAN
  /\ wpc \in {"top", "waiting", "timed", "work", "retry", "exit", "none"}
  /\ main \in {"run", "join", "end", "crashed"}
  /\ outcome \in [Ids -> Outcomes]

\* reversal_init: the thread is created, or pthread_create fails, which
\* main.c:35 does not look at.
Init ==
  /\ queue = <<>>
  /\ hand = NoTask
  /\ shutdown = FALSE
  /\ wpc \in {"top", "none"}
  /\ main = "run"
  /\ outcome = [id \in Ids |-> "none"]

Becomes(id, what) == outcome' = [outcome EXCEPT ![id] = what]

\* Mutant: reversal_enqueue does not signal.
Wake_Nobody == wpc

\* pthread_cond_signal and pthread_cond_broadcast: one thread can wait.
Wake == IF wpc \in {"waiting", "timed"} THEN "top" ELSE wpc
-----------------------------------------------------------------------------
(* reversal_enqueue, called by the workers of the pool *)

Enqueue(id) ==
  /\ main = "run" /\ outcome[id] = "none"
  /\ queue' = Append(queue, [id |-> id, attempts |-> 0, due |-> 0])
  /\ wpc' = Wake
  /\ Becomes(id, "enqueued")
  /\ UNCHANGED <<hand, shutdown, main>>

\* malloc fails: -1, which handler.c:515 and :624 ignore.
EnqueueNoMemory(id) ==
  /\ main = "run" /\ outcome[id] = "none"
  /\ Becomes(id, "lost")
  /\ UNCHANGED <<queue, hand, shutdown, wpc, main>>
-----------------------------------------------------------------------------
(* reversal_loop *)

WaitForTask ==
  /\ wpc = "top" /\ ~shutdown /\ queue = <<>>
  /\ wpc' = "waiting"
  /\ UNCHANGED <<queue, hand, shutdown, main, outcome>>

SpuriousWakeup ==
  /\ wpc = "waiting"
  /\ wpc' = "top"
  /\ UNCHANGED <<queue, hand, shutdown, main, outcome>>

\* Mutant: the flag alone ends the loop.
Exit_AtOnce ==
  /\ wpc = "top" /\ shutdown
  /\ wpc' = "exit"
  /\ UNCHANGED <<queue, hand, shutdown, main, outcome>>

\* Mutant: the break leaves only the inner loop.
Exit_InnerLoop ==
  /\ wpc = "top" /\ shutdown /\ queue = <<>>
  /\ UNCHANGED vars

Exit ==
  /\ wpc = "top" /\ shutdown /\ queue = <<>>
  /\ wpc' = "exit"
  /\ UNCHANGED <<queue, hand, shutdown, main, outcome>>

\* queue_pop_ready: the first task whose time has come.
Ready == {i \in DOMAIN queue : queue[i].due = 0}

Pop ==
  /\ wpc = "top" /\ Ready # {}
  /\ LET i == CHOOSE k \in Ready : \A j \in Ready : k <= j IN
       /\ hand' = queue[i]
       /\ queue' = RemoveAt(queue, i)
  /\ wpc' = "work"
  /\ UNCHANGED <<shutdown, main, outcome>>

\* Nothing is ready: sleep for at most a second.
TimedWait ==
  /\ wpc = "top" /\ queue # <<>> /\ Ready = {}
  /\ wpc' = "timed"
  /\ UNCHANGED <<queue, hand, shutdown, main, outcome>>

\* Mutant: the deadline is taken from another clock and never comes.
Timeout_OtherClock == wpc = "timed" /\ UNCHANGED vars

Timeout ==
  /\ wpc = "timed"
  /\ wpc' = "top"
  /\ UNCHANGED <<queue, hand, shutdown, main, outcome>>

\* clearing_participant_abort returns 0 whether or not its request got
\* through, so a reversal that is sent always counts as a success.
Void ==
  /\ wpc = "work"
  /\ \E what \in {"voided", "assumed"} : Becomes(hand.id, what)
  /\ hand' = NoTask
  /\ wpc' = "top"
  /\ UNCHANGED <<queue, shutdown, main>>

\* clearing_participant_init returns NULL: attempts++.
NoContext ==
  /\ wpc = "work"
  /\ wpc' = "retry"
  /\ UNCHANGED <<queue, hand, shutdown, main, outcome>>

\* Mutant: > for >=, one attempt too many.
GivesUp_OffByOne == hand.attempts + 1 > MaxAttempts

GivesUp == hand.attempts + 1 >= MaxAttempts

GiveUp ==
  /\ wpc = "retry" /\ GivesUp
  /\ Becomes(hand.id, "failed")
  /\ hand' = NoTask
  /\ wpc' = "top"
  /\ UNCHANGED <<queue, shutdown, main>>

\* Mutant: the task is forgotten instead of queued again.
Retry_Drop ==
  /\ wpc = "retry" /\ ~GivesUp
  /\ hand' = NoTask
  /\ wpc' = "top"
  /\ UNCHANGED <<queue, shutdown, main, outcome>>

Retry ==
  /\ wpc = "retry" /\ ~GivesUp
  /\ queue' = Append(queue, [id |-> hand.id, attempts |-> hand.attempts + 1,
                             due |-> Delay(hand.attempts + 1)])
  /\ hand' = NoTask
  /\ wpc' = "top"
  /\ UNCHANGED <<shutdown, main, outcome>>
-----------------------------------------------------------------------------
(* reversal_shutdown *)

Shutdown ==
  /\ main = "run"
  /\ shutdown' = TRUE
  /\ wpc' = Wake
  /\ main' = "join"
  /\ UNCHANGED <<queue, hand, outcome>>

\* pthread_join returns; whatever is left in the list is freed.
ShutdownReturns ==
  /\ main = "join" /\ wpc = "exit"
  /\ queue' = <<>>
  /\ main' = "end"
  /\ UNCHANGED <<hand, shutdown, wpc, outcome>>

\* There is no thread: pthread_join gets a g_thread that was never set, which
\* is undefined: it returns an error, which is ignored, or the process ends.
JoinNoThread ==
  /\ main = "join" /\ wpc = "none"
  /\ \/ queue' = <<>> /\ main' = "end"
     \/ queue' = queue /\ main' = "crashed"
  /\ UNCHANGED <<hand, shutdown, wpc, outcome>>

Tick ==
  /\ \E i \in DOMAIN queue : queue[i].due > 0
  /\ queue' = [i \in DOMAIN queue |->
                 [queue[i] EXCEPT !.due = IF @ = 0 THEN 0 ELSE @ - 1]]
  /\ UNCHANGED <<hand, shutdown, wpc, main, outcome>>

Ended == main \in {"end", "crashed"} /\ UNCHANGED vars

Worker ==
  \/ WaitForTask \/ Exit \/ Pop \/ TimedWait \/ Timeout
  \/ Void \/ NoContext \/ GiveUp \/ Retry

Next ==
  \/ \E id \in Ids : Enqueue(id) \/ EnqueueNoMemory(id)
  \/ Worker \/ SpuriousWakeup \/ Shutdown \/ ShutdownReturns \/ JoinNoThread
  \/ Tick \/ Ended

Spec == Init /\ [][Next]_vars

\* The thread runs when it can, timed waits time out, time passes and
\* pthread_join returns.  Nobody has to enqueue or to shut down.
Fairness == WF_vars(Worker) /\ WF_vars(Tick) /\ WF_vars(ShutdownReturns)

FairSpec == Spec /\ Fairness
-----------------------------------------------------------------------------
(* Properties *)

\* The thread never sleeps without a timeout while there is something to do:
\* the signal of reversal_enqueue and the broadcast of reversal_shutdown are
\* not lost, also when they come while a task is being worked on.
NoSleepOnWork == wpc = "waiting" => queue = <<>> /\ ~shutdown

\* A task that was accepted is in exactly one place until it is settled, and
\* then it is nowhere: no reversal is dropped or carried out twice.
TaskOnce ==
  \A id \in Ids :
    Cardinality({i \in DOMAIN queue : queue[i].id = id})
      + (IF hand # NoTask /\ hand.id = id THEN 1 ELSE 0)
      = IF outcome[id] = "enqueued" /\ main # "end" THEN 1 ELSE 0

\* reversal_init has created the thread.
HasThread == wpc # "none"

\* reversal_shutdown waits for the tasks in the queue, also for those that
\* are in back-off: it frees none that is unsettled, if there is a thread.
DrainedAtShutdown ==
  main = "end" /\ HasThread => \A id \in Ids : outcome[id] # "enqueued"

Settled(id) == outcome[id] \in {"voided", "assumed", "failed"}

\* With a thread, every accepted reversal is settled: the abort is sent, with
\* or without success, or the attempts are used up.
EveryTaskSettled ==
  \A id \in Ids : outcome[id] = "enqueued" /\ HasThread ~> Settled(id)

\* With a thread, reversal_shutdown returns.
ShutdownTerminates == main = "join" /\ HasThread ~> main = "end"
=============================================================================
