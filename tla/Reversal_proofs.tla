-------------------------- MODULE Reversal_proofs --------------------------
(***************************************************************************)
(* Proofs about the reversal queue, for any number of transaction ids and  *)
(* any limits whose back-off delays fit an int.                            *)
(***************************************************************************)
EXTENDS Reversal, FiniteSetTheorems, WellFoundedInduction, TLAPS

(***************************************************************************)
(* The inductive invariant.  StageInv: what the locations of the thread    *)
(* and of the main thread imply; the thread leaves only an empty queue,    *)
(* which stays empty.  PlaceInv: a task that was accepted and is not       *)
(* settled is in the queue, once, or in the thread's hand, never in both;  *)
(* only a shutdown that had no thread to wait for can have freed it.       *)
(***************************************************************************)
InHand(id) == hand # NoTask /\ hand.id = id
InQueue(id) == \E i \in 1..Len(queue) : queue[i].id = id

\* What reversal_shutdown freed without a thread to settle it.
Freed == main = "end" /\ wpc = "none"

StageInv ==
  /\ hand # NoTask <=> wpc \in {"work", "retry"}
  /\ main = "run" <=> shutdown = FALSE
  /\ wpc = "waiting" => queue = <<>> /\ shutdown = FALSE
  /\ wpc = "exit" => queue = <<>> /\ shutdown = TRUE
  /\ main = "end" => wpc \in {"exit", "none"} /\ queue = <<>>
  /\ main = "crashed" => wpc = "none"

PlaceInv ==
  /\ \A i, k \in 1..Len(queue) : queue[i].id = queue[k].id => i = k
  /\ \A id \in Ids : ~(InHand(id) /\ InQueue(id))
  /\ \A id \in Ids : InHand(id) \/ InQueue(id) => outcome[id] = "enqueued"
  /\ ~Freed => \A id \in Ids : outcome[id] = "enqueued" => InHand(id) \/ InQueue(id)

ReversalInv == TypeOK /\ StageInv /\ PlaceInv

\* The steps of the thread that touch neither a task nor an outcome.
Idle == WaitForTask \/ SpuriousWakeup \/ Exit \/ TimedWait \/ Timeout \/ NoContext

\* The steps that settle the task in hand.
Settle == Void \/ GiveUp

LEMMA NextCases ==
  ASSUME [Next]_vars
  PROVE  \/ \E id \in Ids : Enqueue(id) \/ EnqueueNoMemory(id)
         \/ Idle \/ Pop \/ Settle \/ Retry
         \/ Shutdown \/ ShutdownReturns \/ JoinNoThread \/ Tick \/ UNCHANGED vars
BY DEF Next, Worker, Idle, Settle, Ended
-----------------------------------------------------------------------------
(* The operators of the model *)

LEMMA MaxDue == IntMax \div 1000 \in Nat
<1>1. IntMax \in Nat
  BY SMT DEF IntMax
<1>2. QED
  BY <1>1

\* The back-off of a task that is queued again is a number of seconds within
\* the range of an int of milliseconds.
LEMMA DelayRange ==
  ASSUME NEW k \in 1..(MaxAttempts - 1)
  PROVE  Delay(k) \in 0..(IntMax \div 1000)
<1> DEFINE ms == BaseDelayMs * 2^(k - 1)
<1>1. ms \in 0..IntMax
  BY DelayAssumption
<1>2. Delay(k) = ms \div 1000
  BY DEF Delay
<1> HIDE DEF ms
<1>3. IntMax \in Nat
  BY SMT DEF IntMax
<1>4. /\ ms \in Nat /\ ms <= IntMax
      /\ ms \div 1000 \in Nat /\ IntMax \div 1000 \in Nat
  BY <1>1, <1>3
<1>5. ms \div 1000 <= IntMax \div 1000
  BY <1>3, <1>4
<1>6. QED
  BY <1>2, <1>4, <1>5

\* What RemoveAt leaves of a sequence.
LEMMA RemoveAtElements ==
  ASSUME NEW S, NEW s \in Seq(S), NEW i \in 1..Len(s)
  PROVE  /\ RemoveAt(s, i) \in Seq(S)
         /\ Len(RemoveAt(s, i)) = Len(s) - 1
         /\ \A k \in 1..(Len(s) - 1) : RemoveAt(s, i)[k] = IF k < i THEN s[k] ELSE s[k + 1]
<1> DEFINE before == SubSeq(s, 1, i - 1)
           after == SubSeq(s, i + 1, Len(s))
<1>1. /\ before \in Seq(S) /\ Len(before) = i - 1
      /\ after \in Seq(S) /\ Len(after) = Len(s) - i
  OBVIOUS
<1>2. /\ \A k \in 1..(i - 1) : before[k] = s[k]
      /\ \A k \in 1..(Len(s) - i) : after[k] = s[i + k]
  OBVIOUS
<1>3. RemoveAt(s, i) = before \o after
  BY DEF RemoveAt
<1> HIDE DEF before, after
<1>4. before \o after \in Seq(S) /\ Len(before \o after) = Len(s) - 1
  BY <1>1
<1>5. ASSUME NEW k \in 1..(Len(s) - 1)
      PROVE  (before \o after)[k] = IF k < i THEN s[k] ELSE s[k + 1]
  <2>1. (before \o after)[k] = IF k <= i - 1 THEN before[k] ELSE after[k - (i - 1)]
    BY <1>1
  <2>2. CASE k < i
    BY <1>2, <2>1, <2>2
  <2>3. CASE k >= i
    <3>1. k - (i - 1) \in 1..(Len(s) - i) /\ i + (k - (i - 1)) = k + 1
      BY <2>3
    <3>2. QED
      BY <1>2, <2>1, <2>3, <3>1
  <2>4. k < i \/ k >= i
    OBVIOUS
  <2>5. QED
    BY <2>2, <2>3, <2>4
<1>6. QED
  BY <1>3, <1>4, <1>5

\* A set of positions that is not empty has a first one.
LEMMA FirstPosition ==
  ASSUME NEW S, S \subseteq Nat, S # {}
  PROVE  \E k \in S : \A j \in S : k <= j
<1> DEFINE R == OpToRel(<, Nat)
<1>1. IsWellFoundedOn(R, Nat)
  BY NatLessThanWellFounded
<1>2. \A x, y \in Nat : <<y, x>> \in R <=> y < x
  BY DEF OpToRel
<1> HIDE DEF R
<1>3. \E x \in S : \A y \in S : ~(<<y, x>> \in R)
  BY <1>1, WFMin
<1>4. PICK x \in S : \A y \in S : ~(<<y, x>> \in R)
  BY <1>3
<1>5. \A y \in S : x \in Nat /\ y \in Nat /\ ~(y < x)
  BY <1>2, <1>4
<1>6. \A y \in S : x <= y
  BY <1>5
<1>7. QED
  BY <1>6

\* queue_pop_ready unlinks one task that is due and keeps the others in order.
LEMMA PopEffect ==
  ASSUME TypeOK, Pop
  PROVE  \E i \in 1..Len(queue) :
           /\ hand' = queue[i] /\ queue[i] \in Tasks
           /\ queue' \in Seq(Tasks) /\ Len(queue') = Len(queue) - 1
           /\ \A k \in 1..(Len(queue) - 1) : queue'[k] = IF k < i THEN queue[k] ELSE queue[k + 1]
<1> DEFINE i == CHOOSE k \in Ready : \A j \in Ready : k <= j
<1>1. queue \in Seq(Tasks) /\ DOMAIN queue = 1..Len(queue) /\ Len(queue) \in Nat
  BY DEF TypeOK
<1>2. i \in Ready
  <2>1. Ready # {} /\ Ready \subseteq Nat
    BY <1>1 DEF Pop, Ready
  <2>2. \E k \in Ready : \A j \in Ready : k <= j
    BY <2>1, FirstPosition
  <2>3. QED
    BY <2>2
<1>3. i \in 1..Len(queue) /\ queue[i] \in Tasks
  BY <1>1, <1>2 DEF Ready
<1>4. hand' = queue[i] /\ queue' = RemoveAt(queue, i)
  BY DEF Pop
<1> HIDE DEF i
<1>5. QED
  BY <1>1, <1>3, <1>4, RemoveAtElements
-----------------------------------------------------------------------------
(* The steps preserve the invariant *)

\* The fields of a task; the range of its due time is not looked into.
LEMMA TaskFields ==
  /\ \A t \in Tasks : t.id \in Ids /\ t.attempts \in 0..(MaxAttempts - 1)
                      /\ t.due \in 0..(IntMax \div 1000)
  /\ \A id \in Ids, a \in 0..(MaxAttempts - 1), d \in 0..(IntMax \div 1000) :
       [id |-> id, attempts |-> a, due |-> d] \in Tasks
BY DEF Tasks

LEMMA TickTasks ==
  ASSUME TypeOK, Tick
  PROVE  /\ queue' \in Seq(Tasks) /\ Len(queue') = Len(queue)
         /\ \A i \in 1..Len(queue) : queue'[i].id = queue[i].id
<1>1. queue \in Seq(Tasks) /\ DOMAIN queue = 1..Len(queue) /\ Len(queue) \in Nat
  BY DEF TypeOK
<1> DEFINE Later(t) == [t EXCEPT !.due = IF @ = 0 THEN 0 ELSE @ - 1]
<1>2. \A t \in Tasks : Later(t) \in Tasks /\ Later(t).id = t.id
  <2> TAKE t \in Tasks
  <2>1. (IF t.due = 0 THEN 0 ELSE t.due - 1) \in 0..(IntMax \div 1000)
    BY TaskFields, MaxDue
  <2>2. QED
    BY <2>1 DEF Tasks
<1>3. queue' = [i \in 1..Len(queue) |-> Later(queue[i])]
  BY <1>1 DEF Tick
<1> HIDE DEF Later
<1>4. \A i \in 1..Len(queue) : queue[i] \in Tasks
  BY <1>1
<1>5. queue' \in [1..Len(queue) -> Tasks]
  BY <1>2, <1>3, <1>4
<1>6. queue' \in Seq(Tasks) /\ Len(queue') = Len(queue)
  BY <1>1, <1>5
<1>7. QED
  BY <1>2, <1>3, <1>4, <1>6

LEMMA TypeStep == TypeOK /\ StageInv /\ [Next]_vars => TypeOK'
<1> SUFFICES ASSUME TypeOK, StageInv, [Next]_vars PROVE TypeOK'
  OBVIOUS
<1>1. ASSUME NEW id \in Ids, Enqueue(id) PROVE TypeOK'
  <2>1. 0 \in 0..(MaxAttempts - 1) /\ 0 \in 0..(IntMax \div 1000)
    BY MaxDue, ReversalAssumption
  <2>2. queue' \in Seq(Tasks)
    BY <1>1, <2>1, TaskFields DEF Enqueue, TypeOK
  <2>3. QED
    BY <1>1, <2>2 DEF Enqueue, Wake, Becomes, TypeOK, Outcomes
<1>2. ASSUME NEW id \in Ids, EnqueueNoMemory(id) PROVE TypeOK'
  BY <1>2 DEF EnqueueNoMemory, Becomes, TypeOK, Outcomes
<1>3. CASE Idle
  BY <1>3 DEF Idle, WaitForTask, SpuriousWakeup, Exit, TimedWait, Timeout, NoContext, TypeOK
<1>4. CASE Pop
  BY <1>4, PopEffect DEF Pop, TypeOK
<1>5. CASE Settle
  <2>1. hand \in Tasks /\ hand.id \in Ids
    BY <1>5, TaskFields DEF Settle, Void, GiveUp, StageInv, TypeOK
  <2>2. outcome' \in [Ids -> Outcomes]
    BY <1>5, <2>1 DEF Settle, Void, GiveUp, Becomes, TypeOK, Outcomes
  <2>3. QED
    BY <1>5, <2>2 DEF Settle, Void, GiveUp, TypeOK
<1>6. CASE Retry
  <2>1. hand \in Tasks
    BY <1>6 DEF Retry, StageInv, TypeOK
  <2>2. /\ hand.id \in Ids /\ hand.attempts + 1 \in 0..(MaxAttempts - 1)
        /\ hand.attempts + 1 \in 1..(MaxAttempts - 1)
    BY <1>6, <2>1, TaskFields, ReversalAssumption DEF Retry, GivesUp
  <2>3. Delay(hand.attempts + 1) \in 0..(IntMax \div 1000)
    BY <2>2, DelayRange
  <2>4. queue' \in Seq(Tasks)
    BY <1>6, <2>2, <2>3, TaskFields DEF Retry, TypeOK
  <2>5. QED
    BY <1>6, <2>4 DEF Retry, TypeOK
<1>7. CASE Shutdown
  BY <1>7 DEF Shutdown, Wake, TypeOK
<1>8. CASE ShutdownReturns \/ JoinNoThread
  <2>1. queue' \in Seq(Tasks)
    <3>1. <<>> \in Seq(Tasks)
      OBVIOUS
    <3>2. queue' = <<>> \/ queue' = queue
      BY <1>8 DEF ShutdownReturns, JoinNoThread
    <3>3. QED
      BY <3>1, <3>2 DEF TypeOK
  <2>2. main' \in {"run", "join", "end", "crashed"}
    BY <1>8 DEF ShutdownReturns, JoinNoThread
  <2>3. QED
    BY <1>8, <2>1, <2>2 DEF ShutdownReturns, JoinNoThread, TypeOK
<1>9. CASE Tick
  BY <1>9, TickTasks DEF Tick, TypeOK
<1>10. CASE UNCHANGED vars
  BY <1>10 DEF vars, TypeOK
<1>11. QED
  BY <1>1, <1>2, <1>3, <1>4, <1>5, <1>6, <1>7, <1>8, <1>9, <1>10, NextCases

LEMMA StageStep == ReversalInv /\ [Next]_vars => StageInv'
<1> SUFFICES ASSUME ReversalInv, [Next]_vars PROVE StageInv'
  OBVIOUS
<1> USE DEF ReversalInv, StageInv
<1>1. ASSUME NEW id \in Ids, Enqueue(id) PROVE StageInv'
  BY <1>1 DEF Enqueue, Wake
<1>2. ASSUME NEW id \in Ids, EnqueueNoMemory(id) PROVE StageInv'
  BY <1>2 DEF EnqueueNoMemory
<1>3. CASE Idle
  BY <1>3 DEF Idle, WaitForTask, SpuriousWakeup, Exit, TimedWait, Timeout, NoContext, TypeOK
<1>4. CASE Pop
  <2>1. hand' # NoTask
    BY <1>4, PopEffect, HandAssumption
  <2>2. QED
    BY <1>4, <2>1 DEF Pop
<1>5. CASE Settle \/ Retry
  BY <1>5 DEF Settle, Void, GiveUp, Retry
<1>6. CASE Shutdown
  BY <1>6 DEF Shutdown, Wake, TypeOK
<1>7. CASE ShutdownReturns \/ JoinNoThread
  BY <1>7 DEF ShutdownReturns, JoinNoThread
<1>8. CASE Tick
  <2>1. queue' # <<>> /\ queue # <<>>
    <3>1. PICK i \in DOMAIN queue : TRUE
      BY <1>8 DEF Tick
    <3>2. queue # <<>> /\ DOMAIN queue' = DOMAIN queue
      BY <1>8, <3>1 DEF Tick
    <3>3. QED
      BY <3>1, <3>2
  <2>2. QED
    BY <1>8, <2>1 DEF Tick
<1>9. CASE UNCHANGED vars
  BY <1>9 DEF vars
<1>10. QED
  BY <1>1, <1>2, <1>3, <1>4, <1>5, <1>6, <1>7, <1>8, <1>9, NextCases

LEMMA PlaceStep == ReversalInv /\ [Next]_vars => PlaceInv'
<1> SUFFICES ASSUME ReversalInv, [Next]_vars PROVE PlaceInv'
  OBVIOUS
<1>0. /\ queue \in Seq(Tasks) /\ Len(queue) \in Nat /\ outcome \in [Ids -> Outcomes]
      /\ hand \in Tasks \cup {NoTask}
      /\ \A i \in 1..Len(queue) : queue[i] \in Tasks /\ queue[i].id \in Ids
  BY TaskFields DEF ReversalInv, TypeOK
\* A step after which nothing is freed starts from such a state.
<1>a. ASSUME ~Freed' PROVE ~Freed
  <2>1. SUFFICES ASSUME Freed PROVE Freed'
    BY <1>a
  <2>2. main = "end" /\ wpc = "none" /\ hand = NoTask /\ queue = <<>> /\ shutdown = TRUE
    BY <2>1 DEF Freed, ReversalInv, StageInv, TypeOK
  <2>3. QED
    BY <2>2, NextCases
       DEF Freed, Enqueue, EnqueueNoMemory, Idle, WaitForTask, SpuriousWakeup, Exit, TimedWait,
           Timeout, NoContext, Pop, Settle, Void, GiveUp, Retry, Shutdown, ShutdownReturns,
           JoinNoThread, Tick, vars
<1>1. CASE UNCHANGED <<queue, hand, outcome>>
  BY <1>a, <1>1 DEF ReversalInv, PlaceInv, InHand, InQueue
\* A task for an id that is nowhere in the queue goes to its end.
<1>2. ASSUME NEW t \in Tasks, queue' = Append(queue, t), ~InQueue(t.id)
      PROVE  /\ \A i, k \in 1..Len(queue') : queue'[i].id = queue'[k].id => i = k
             /\ \A id \in Ids : InQueue(id)' <=> (id = t.id \/ InQueue(id))
  <2>1. /\ Len(queue') = Len(queue) + 1 /\ queue'[Len(queue) + 1] = t
        /\ \A i \in 1..Len(queue) : queue'[i] = queue[i]
    BY <1>0, <1>2
  <2>2. 1..Len(queue') = 1..Len(queue) \cup {Len(queue) + 1}
    BY <1>0, <2>1
  <2>3. \A i \in 1..Len(queue) : queue[i].id # t.id
    BY <1>2 DEF InQueue
  <2>4. \A i, k \in 1..Len(queue') : queue'[i].id = queue'[k].id => i = k
    BY <2>1, <2>2, <2>3 DEF ReversalInv, PlaceInv
  <2>5. \A id \in Ids : InQueue(id)' <=> (id = t.id \/ InQueue(id))
    BY <2>1, <2>2 DEF InQueue
  <2>6. QED
    BY <2>4, <2>5
<1>3. ASSUME NEW id \in Ids, Enqueue(id) PROVE PlaceInv'
  <2> DEFINE t == [id |-> id, attempts |-> 0, due |-> 0]
  <2>1. t \in Tasks /\ t.id = id
    BY TaskFields, MaxDue, ReversalAssumption
  <2>2. queue' = Append(queue, t) /\ hand' = hand /\ ~InQueue(id) /\ ~InHand(id)
    BY <1>3 DEF Enqueue, ReversalInv, PlaceInv
  <2> HIDE DEF t
  <2>3. \A k \in Ids : outcome'[k] = "enqueued" <=> (k = id \/ outcome[k] = "enqueued")
    BY <1>0, <1>3 DEF Enqueue, Becomes
  <2>4. \A k \in Ids : InHand(k)' <=> InHand(k)
    BY <2>2 DEF InHand
  <2>5. /\ \A i, k \in 1..Len(queue') : queue'[i].id = queue'[k].id => i = k
        /\ \A k \in Ids : InQueue(k)' <=> (k = id \/ InQueue(k))
    BY <1>2, <2>1, <2>2
  <2>6. QED
    BY <1>a, <2>2, <2>3, <2>4, <2>5 DEF ReversalInv, PlaceInv
<1>4. ASSUME NEW id \in Ids, EnqueueNoMemory(id) PROVE PlaceInv'
  <2>1. \A k \in Ids : outcome'[k] = "enqueued" <=> outcome[k] = "enqueued"
    BY <1>0, <1>4 DEF EnqueueNoMemory, Becomes
  <2>2. UNCHANGED <<queue, hand>>
    BY <1>4 DEF EnqueueNoMemory
  <2>3. QED
    BY <1>a, <2>1, <2>2 DEF ReversalInv, PlaceInv, InHand, InQueue
<1>5. CASE Pop
  <2>1. PICK i \in 1..Len(queue) :
          /\ hand' = queue[i] /\ Len(queue') = Len(queue) - 1
          /\ \A k \in 1..(Len(queue) - 1) : queue'[k] = IF k < i THEN queue[k] ELSE queue[k + 1]
    BY <1>5, PopEffect DEF ReversalInv
  <2>2. \A k \in 1..Len(queue') : \E m \in 1..Len(queue) :
          m # i /\ m = (IF k < i THEN k ELSE k + 1) /\ queue'[k] = queue[m]
    BY <1>0, <2>1
  <2>3. \A m \in 1..Len(queue) : m # i =>
          \E k \in 1..Len(queue') : queue'[k] = queue[m]
    <3> SUFFICES ASSUME NEW m \in 1..Len(queue), m # i
                 PROVE  \E k \in 1..Len(queue') : queue'[k] = queue[m]
      OBVIOUS
    <3>1. CASE m < i
      <4>1. m \in 1..Len(queue') /\ queue'[m] = queue[m]
        BY <1>0, <2>1, <3>1
      <4>2. QED
        BY <4>1
    <3>2. CASE m > i
      <4>1. m - 1 \in 1..Len(queue') /\ queue'[m - 1] = queue[m]
        BY <1>0, <2>1, <3>2
      <4>2. QED
        BY <4>1
    <3>3. m < i \/ m > i
      BY <1>0
    <3>4. QED
      BY <3>1, <3>2, <3>3
  <2>4. \A k, l \in 1..Len(queue') : queue'[k].id = queue'[l].id => k = l
    <3> SUFFICES ASSUME NEW k \in 1..Len(queue'), NEW l \in 1..Len(queue'),
                        queue'[k].id = queue'[l].id
                 PROVE  k = l
      OBVIOUS
    <3>1. PICK m \in 1..Len(queue) :
            m = (IF k < i THEN k ELSE k + 1) /\ m # i /\ queue'[k] = queue[m]
      BY <2>2
    <3>2. PICK n \in 1..Len(queue) :
            n = (IF l < i THEN l ELSE l + 1) /\ n # i /\ queue'[l] = queue[n]
      BY <2>2
    <3>3. m = n
      BY <3>1, <3>2 DEF ReversalInv, PlaceInv
    <3>4. QED
      BY <1>0, <2>1, <3>1, <3>2, <3>3
  <2>5. \A id \in Ids : InQueue(id)' <=> (InQueue(id) /\ id # queue[i].id)
    <3> TAKE id \in Ids
    <3>1. ASSUME NEW k \in 1..Len(queue'), queue'[k].id = id
          PROVE  InQueue(id) /\ id # queue[i].id
      <4>1. PICK m \in 1..Len(queue) : m # i /\ queue'[k] = queue[m]
        BY <2>2
      <4>2. QED
        BY <3>1, <4>1 DEF InQueue, ReversalInv, PlaceInv
    <3>2. ASSUME InQueue(id), id # queue[i].id
          PROVE  InQueue(id)'
      <4>1. PICK m \in 1..Len(queue) : queue[m].id = id
        BY <3>2 DEF InQueue
      <4>2. PICK k \in 1..Len(queue') : queue'[k] = queue[m]
        BY <2>3, <3>2, <4>1
      <4>3. QED
        BY <4>1, <4>2 DEF InQueue
    <3>3. QED
      BY <3>1, <3>2 DEF InQueue
  <2>6. \A id \in Ids : ~InHand(id) /\ (InHand(id)' <=> id = queue[i].id)
    <3>1. hand = NoTask
      BY <1>5 DEF Pop, ReversalInv, StageInv
    <3>2. hand' # NoTask
      BY <1>0, <2>1, HandAssumption
    <3>3. QED
      BY <2>1, <3>1, <3>2 DEF InHand
  <2>7. UNCHANGED outcome /\ \A id \in Ids : id = queue[i].id => InQueue(id)
    BY <1>5 DEF Pop, InQueue
  <2>8. QED
    BY <1>a, <2>4, <2>5, <2>6, <2>7 DEF ReversalInv, PlaceInv
<1>6. CASE Settle
  <2>1. /\ hand # NoTask /\ hand.id \in Ids /\ hand' = NoTask /\ queue' = queue
        /\ \A id \in Ids : outcome'[id] = "enqueued" <=> (id # hand.id /\ outcome[id] = "enqueued")
    <3>1. hand # NoTask /\ hand.id \in Ids
      BY <1>0, <1>6, TaskFields DEF Settle, Void, GiveUp, ReversalInv, StageInv
    <3>2. QED
      BY <1>0, <1>6, <3>1 DEF Settle, Void, GiveUp, Becomes
  <2>2. QED
    BY <1>a, <2>1 DEF ReversalInv, PlaceInv, InHand, InQueue
<1>7. CASE Retry
  <2> DEFINE t == [id |-> hand.id, attempts |-> hand.attempts + 1,
                   due |-> Delay(hand.attempts + 1)]
  <2>1. hand \in Tasks /\ hand # NoTask /\ hand.id \in Ids /\ InHand(hand.id)
    BY <1>0, <1>7, TaskFields DEF Retry, ReversalInv, StageInv, InHand
  <2>2. t \in Tasks /\ t.id = hand.id
    <3>1. hand.attempts + 1 \in 1..(MaxAttempts - 1)
      BY <1>7, <2>1, TaskFields, ReversalAssumption DEF Retry, GivesUp
    <3>2. hand.attempts + 1 \in 0..(MaxAttempts - 1)
      BY <3>1
    <3>3. QED
      BY <2>1, <3>1, <3>2, DelayRange, TaskFields
  <2>3. queue' = Append(queue, t) /\ hand' = NoTask /\ UNCHANGED outcome
    BY <1>7 DEF Retry
  <2> HIDE DEF t
  <2>4. /\ \A i, k \in 1..Len(queue') : queue'[i].id = queue'[k].id => i = k
        /\ \A id \in Ids : InQueue(id)' <=> (id = hand.id \/ InQueue(id))
    BY <1>2, <2>1, <2>2, <2>3 DEF ReversalInv, PlaceInv
  <2>5. \A id \in Ids : ~InHand(id)' /\ (InHand(id) <=> id = hand.id)
    BY <2>1, <2>3 DEF InHand
  <2>6. QED
    BY <1>a, <2>3, <2>4, <2>5 DEF ReversalInv, PlaceInv
<1>8. CASE Tick
  <2>1. Len(queue') = Len(queue) /\ \A i \in 1..Len(queue) : queue'[i].id = queue[i].id
    BY <1>8, TickTasks DEF ReversalInv
  <2>2. \A id \in Ids : (InQueue(id)' <=> InQueue(id)) /\ (InHand(id)' <=> InHand(id))
    BY <1>8, <2>1 DEF Tick, InQueue, InHand
  <2>3. \A i, k \in 1..Len(queue') : queue'[i].id = queue'[k].id => i = k
    BY <2>1 DEF ReversalInv, PlaceInv
  <2>4. QED
    BY <1>a, <1>8, <2>2, <2>3 DEF Tick, ReversalInv, PlaceInv
<1>9. CASE ShutdownReturns \/ JoinNoThread
  <2>1. CASE UNCHANGED queue
    BY <1>1, <1>9, <2>1 DEF ShutdownReturns, JoinNoThread
  <2>2. CASE ShutdownReturns
    BY <2>1, <2>2 DEF ShutdownReturns, ReversalInv, StageInv
  <2>3. CASE JoinNoThread /\ queue' = <<>> /\ main' = "end"
    <3>1. Freed' /\ hand = NoTask /\ hand' = NoTask
      BY <2>3 DEF JoinNoThread, Freed, ReversalInv, StageInv
    <3>2. QED
      BY <2>3, <3>1 DEF PlaceInv, InHand, InQueue
  <2>4. QED
    BY <1>9, <2>1, <2>2, <2>3 DEF JoinNoThread
<1>10. CASE Idle \/ Shutdown \/ UNCHANGED vars
  BY <1>1, <1>10 DEF Idle, WaitForTask, SpuriousWakeup, Exit, TimedWait, Timeout, NoContext,
                     Shutdown, vars
<1>11. QED
  BY <1>3, <1>4, <1>5, <1>6, <1>7, <1>8, <1>9, <1>10, NextCases

LEMMA ReversalInductive == Spec => []ReversalInv
<1>1. Init => ReversalInv
  <2> SUFFICES ASSUME Init PROVE ReversalInv
    OBVIOUS
  <2>1. TypeOK
    <3>1. queue \in Seq(Tasks)
      BY DEF Init
    <3>2. QED
      BY <3>1 DEF Init, TypeOK, Outcomes
  <2>2. StageInv /\ PlaceInv
    BY DEF Init, StageInv, PlaceInv, InHand, InQueue
  <2>3. QED
    BY <2>1, <2>2 DEF ReversalInv
<1>2. ReversalInv /\ [Next]_vars => ReversalInv'
  BY TypeStep, StageStep, PlaceStep DEF ReversalInv
<1>3. QED
  BY <1>1, <1>2, PTL DEF Spec
-----------------------------------------------------------------------------
(* The theorems *)

\* The state is well typed: no task is queued with attempts used up, and no
\* delay is negative (reversal_loop).
THEOREM ReversalTypes == Spec => []TypeOK
<1>1. ReversalInv => TypeOK
  BY DEF ReversalInv
<1>2. QED
  BY <1>1, ReversalInductive, PTL

\* The thread never sleeps for good while there is a task or a shutdown to
\* see to (reversal_loop against reversal_enqueue and reversal_shutdown).
THEOREM NeverSleepsOnWork == Spec => []NoSleepOnWork
<1>1. ReversalInv => NoSleepOnWork
  BY DEF ReversalInv, StageInv, NoSleepOnWork
<1>2. QED
  BY <1>1, ReversalInductive, PTL

\* An accepted reversal is in exactly one place until it is settled: none is
\* dropped, duplicated or sent again after it was settled (reversal_loop).
THEOREM TasksOnce == Spec => []TaskOnce
<1>1. ReversalInv => TaskOnce
  <2> SUFFICES ASSUME ReversalInv, NEW id \in Ids
               PROVE  Cardinality({i \in DOMAIN queue : queue[i].id = id})
                        + (IF hand # NoTask /\ hand.id = id THEN 1 ELSE 0)
                        = IF outcome[id] = "enqueued" /\ main # "end" THEN 1 ELSE 0
    BY DEF TaskOnce
  <2> DEFINE Places == {i \in DOMAIN queue : queue[i].id = id}
  <2>1. DOMAIN queue = 1..Len(queue)
    BY DEF ReversalInv, TypeOK
  <2>2. CASE InQueue(id)
    <3>1. PICK i \in 1..Len(queue) : queue[i].id = id
      BY <2>2 DEF InQueue
    <3>2. Places = {i}
      BY <2>1, <3>1 DEF ReversalInv, PlaceInv
    <3>3. Cardinality(Places) = 1
      BY <3>2, FS_Singleton
    <3>4. ~InHand(id) /\ outcome[id] = "enqueued" /\ main # "end"
      BY <2>2 DEF ReversalInv, PlaceInv, StageInv, InQueue
    <3>5. QED
      BY <3>3, <3>4 DEF InHand
  <2>3. CASE ~InQueue(id)
    <3>1. Places = {}
      BY <2>1, <2>3 DEF InQueue
    <3>2. Cardinality(Places) = 0
      BY <3>1, FS_EmptySet
    <3>3. InHand(id) <=> outcome[id] = "enqueued" /\ main # "end"
      BY <2>3 DEF ReversalInv, PlaceInv, StageInv, InHand, Freed
    <3>4. QED
      BY <3>2, <3>3 DEF InHand
  <2>4. QED
    BY <2>2, <2>3
<1>2. QED
  BY <1>1, ReversalInductive, PTL

\* When reversal_init has created the thread, reversal_shutdown returns only
\* when every accepted reversal is settled: what its last loop could free is
\* nothing.
THEOREM ShutdownDrains == Spec => []DrainedAtShutdown
<1>1. ReversalInv => DrainedAtShutdown
  BY DEF ReversalInv, StageInv, PlaceInv, InHand, InQueue, Freed, HasThread, DrainedAtShutdown
<1>2. QED
  BY <1>1, ReversalInductive, PTL
=============================================================================
