--------------------------- MODULE TwoPhaseCommit ---------------------------
(***************************************************************************)
(* The transaction coordinator of server/transaction_coordinator.c.        *)
(*                                                                         *)
(* A thread opens a Transaction with txn_begin, registers participants     *)
(* with txn_register_participant, and ends it either with txn_commit (the  *)
(* two phases) or with txn_abort.  It holds at most one Transaction at a   *)
(* time, so the Transaction object is named by the thread that opened it.  *)
(* Participants are callbacks: their answers are the parameter `ok' of     *)
(* PrepareOne and CommitOne, which the composing module Payment ties to    *)
(* the database and the clearing system.                                   *)
(*                                                                         *)
(* The mutex of a coordinator is explicit, because txn_commit releases it  *)
(* around every callback while txn_abort keeps it.  CoordOf says which     *)
(* coordinator a thread uses: the unit tests let callers share one, the    *)
(* server gives each worker its own (`static __thread', handler.c:116).    *)
(* All coordinators append to one file, logs/transactions.log, each        *)
(* through a stream of its own; a coordinator whose fopen failed works on  *)
(* without recording anything.  What is written to an open stream is taken *)
(* to reach the file: the results of fprintf and fflush are not looked at. *)
(***************************************************************************)
EXTENDS Naturals, FiniteSets, Sequences

CONSTANTS
  Threads,          \* the threads that call the coordinator
  Coordinators,     \* the TransactionCoordinator objects
  CoordOf,          \* the coordinator each thread uses
  TxnIds,           \* transaction identifiers
  NoTxn,            \* the id of a Transaction object never allocated
  NoThread,         \* the holder of a free mutex
  MaxActive,        \* MAX_ACTIVE_TRANSACTIONS
  MaxParticipants,  \* MAX_PARTICIPANTS
  FreshIds,         \* TRUE when no caller ever uses an identifier twice
  MaxBegins,        \* bound: transactions opened in a behaviour
  MaxCrashes        \* bound: crashes of the process in a behaviour

ASSUME ThreadsAssumption == NoThread \notin Threads /\ NoTxn \notin TxnIds
ASSUME CoordOfAssumption == CoordOf \in [Threads -> Coordinators]
ASSUME BoundsAssumption ==
  /\ MaxActive \in Nat /\ MaxParticipants \in Nat
  /\ MaxBegins \in Nat /\ MaxCrashes \in Nat
  /\ FreshIds \in BOOLEAN

VARIABLES
  lock,       \* who holds each coordinator's mutex
  active,     \* active_transactions: the Transaction objects listed
  txnId,      \* Transaction.transaction_id
  txnState,   \* Transaction.state
  part,       \* Transaction.participants: the state of each, in order
  live,       \* the Transaction object is allocated (not yet freed)
  pc,         \* where the thread is in the API
  idx,        \* the loop index i of the phase the thread runs
  ret,        \* what the last call of the thread returned
  log,        \* the last state recorded in the log file for each id
  stream,     \* txn_log of each coordinator: open, NULL, or not yet tried
  metrics,    \* the counters twopc_committed and twopc_aborted
  votes,      \* history: participants whose prepare returned 0
  opened,     \* history: the stream each id was last opened with
  begun,      \* history: transactions opened so far
  crashes     \* history: crashes so far

object == <<txnId, txnState, part, live, votes>>
thread == <<pc, idx, ret>>
vars == <<lock, active, object, thread, log, metrics, begun, crashes, stream,
          opened>>

TxnStates == {"INIT", "PREPARING", "PREPARED", "COMMITTING", "COMMITTED",
              "ABORTING", "ABORTED"}
PartStates == {"INIT", "PREPARED", "COMMITTED", "ABORTED", "FAILED"}

\* "decided" and "xabort" are the two places where a thread keeps the mutex
\* from one step to the next; at "report" txn_commit has freed the Transaction
\* and has not returned.
Locations == {"idle", "open", "prepare", "decided", "commit", "abort", "xabort",
              "report"}

Streams == {"unset", "open", "null"}

Results == {"none", "null", "handle", "ok", "fail", "committed", "aborted",
            "void", "found"}

TypeOK ==
  /\ lock \in [Coordinators -> Threads \cup {NoThread}]
  /\ active \in [Coordinators -> SUBSET Threads]
  /\ txnId \in [Threads -> TxnIds \cup {NoTxn}]
  /\ txnState \in [Threads -> TxnStates]
  /\ part \in [Threads -> Seq(PartStates)]
  /\ \A t \in Threads : Len(part[t]) <= MaxParticipants
  /\ live \in [Threads -> BOOLEAN]
  /\ pc \in [Threads -> Locations]
  /\ idx \in [Threads -> Nat]
  /\ ret \in [Threads -> Results]
  /\ log \in [TxnIds -> TxnStates \cup {"NONE"}]
  /\ stream \in [Coordinators -> Streams]
  /\ opened \in [TxnIds -> Streams]
  /\ metrics \in [{"committed", "aborted"} -> Nat]
  /\ votes \in [Threads -> SUBSET Nat]
  /\ begun \in 0..MaxBegins
  /\ crashes \in 0..MaxCrashes

Init ==
  /\ lock = [c \in Coordinators |-> NoThread]
  /\ active = [c \in Coordinators |-> {}]
  /\ txnId = [t \in Threads |-> NoTxn]
  /\ txnState = [t \in Threads |-> "INIT"]
  /\ part = [t \in Threads |-> <<>>]
  /\ live = [t \in Threads |-> FALSE]
  /\ pc = [t \in Threads |-> "idle"]
  /\ idx = [t \in Threads |-> 0]
  /\ ret = [t \in Threads |-> "none"]
  /\ log = [id \in TxnIds |-> "NONE"]
  /\ stream = [c \in Coordinators |-> "unset"]
  /\ opened = [id \in TxnIds |-> "unset"]
  /\ metrics = [k \in {"committed", "aborted"} |-> 0]
  /\ votes = [t \in Threads |-> {}]
  /\ begun = 0
  /\ crashes = 0
-----------------------------------------------------------------------------
(* Helpers *)

Free(t) == lock[CoordOf[t]] = NoThread

\* The thread has a Transaction in progress.
Owns(t) == pc[t] \notin {"idle", "report"}

\* Mutant: the lookup of txn_begin's duplicate check never matches.
Begin_FindNothing(c, id) == {}

\* find_transaction: the listed objects that carry an identifier.
Find(c, id) == {t \in active[c] : txnId[t] = id}

\* log_transaction_state: nothing without a stream.
LogState(t, s) ==
  log' = IF stream[CoordOf[t]] = "open" THEN [log EXCEPT ![txnId[t]] = s] ELSE log

\* Mutant: the decision to commit is not logged.
SetState_SkipDecision(t, s) ==
  /\ txnState' = [txnState EXCEPT ![t] = s]
  /\ IF s = "COMMITTING" THEN UNCHANGED log ELSE LogState(t, s)

\* Setting txn->state and recording it, always done together.
SetState(t, s) ==
  /\ txnState' = [txnState EXCEPT ![t] = s]
  /\ LogState(t, s)

\* Mutant: the slot is given by position, not by id.
Remove_AnySlot(c, id) ==
  \E victim \in active[c] :
    /\ active' = [active EXCEPT ![c] = @ \ {victim}]
    /\ live' = [live EXCEPT ![victim] = FALSE]

\* remove_transaction: one listed object with the identifier is freed.
RemoveTransaction(c, id) ==
  \/ /\ Find(c, id) = {}
     /\ UNCHANGED <<active, live>>
  \/ \E victim \in Find(c, id) :
       /\ active' = [active EXCEPT ![c] = @ \ {victim}]
       /\ live' = [live EXCEPT ![victim] = FALSE]

Goto(t, where) == pc' = [pc EXCEPT ![t] = where]

Loop(t, where) == Goto(t, where) /\ idx' = [idx EXCEPT ![t] = 1]

Advance(t) == idx' = [idx EXCEPT ![t] = @ + 1]

InLoop(t) == idx[t] <= Len(part[t])

Return(t, r) == ret' = [ret EXCEPT ![t] = r]

SetPart(t, s) == part' = [part EXCEPT ![t][idx[t]] = s]

\* A participant answered no to the phase the thread runs.
SomeFailed(t) == \E i \in DOMAIN part[t] : part[t][i] = "FAILED"
-----------------------------------------------------------------------------
(* txn_coordinator_init, when a coordinator is first used: fopen succeeds   *)
(* or fails, and the coordinator keeps what it got.                         *)
OpenLog(c) ==
  \E s \in IF stream[c] = "unset" THEN {"open", "null"} ELSE {stream[c]} :
    stream' = [stream EXCEPT ![c] = s]

(* txn_begin *)

Begin(t, id) ==
  LET c == CoordOf[t] IN
  /\ pc[t] = "idle" /\ Free(t)
  /\ begun < MaxBegins /\ (FreshIds => opened[id] = "unset")
  /\ Find(c, id) = {}
  /\ Cardinality(active[c]) < MaxActive
  /\ txnId' = [txnId EXCEPT ![t] = id]
  /\ txnState' = [txnState EXCEPT ![t] = "INIT"]
  /\ part' = [part EXCEPT ![t] = <<>>]
  /\ votes' = [votes EXCEPT ![t] = {}]
  /\ live' = [live EXCEPT ![t] = TRUE]
  /\ active' = [active EXCEPT ![c] = @ \cup {t}]
  /\ OpenLog(c)
  /\ log' = IF stream'[c] = "open" THEN [log EXCEPT ![id] = "INIT"] ELSE log
  /\ opened' = [opened EXCEPT ![id] = stream'[c]]
  /\ begun' = begun + 1
  /\ Goto(t, "open") /\ Return(t, "handle")
  /\ UNCHANGED <<lock, idx, metrics, crashes>>

\* The three early returns: the id is already active, the list is full, or
\* malloc fails.
BeginRefused(t, id) ==
  /\ pc[t] = "idle" /\ Free(t)
  /\ \/ Find(CoordOf[t], id) # {}
     \/ Cardinality(active[CoordOf[t]]) >= MaxActive
  /\ Return(t, "null")
  /\ UNCHANGED <<lock, active, object, pc, idx, log, metrics, begun, crashes,
                 stream, opened>>

BeginNoMemory(t, id) ==
  /\ pc[t] = "idle" /\ Free(t)
  /\ Find(CoordOf[t], id) = {}
  /\ Cardinality(active[CoordOf[t]]) < MaxActive
  /\ Return(t, "null")
  /\ UNCHANGED <<lock, active, object, pc, idx, log, metrics, begun, crashes,
                 stream, opened>>

(* txn_get_by_id *)
GetById(t, id) ==
  /\ pc[t] = "idle" /\ Free(t)
  /\ Return(t, IF Find(CoordOf[t], id) # {} THEN "found" ELSE "null")
  /\ UNCHANGED <<lock, active, object, pc, idx, log, metrics, begun, crashes,
                 stream, opened>>

\* Mutant: the bound of the participants array is off by one.
Register_OffByOne(t) ==
  /\ pc[t] = "open"
  /\ Len(part[t]) <= MaxParticipants
  /\ part' = [part EXCEPT ![t] = Append(@, "INIT")]
  /\ Return(t, "ok")
  /\ UNCHANGED <<lock, active, txnId, txnState, live, votes, pc, idx, log,
                 metrics, begun, crashes, stream, opened>>

(* txn_register_participant: takes no lock *)
Register(t) ==
  /\ pc[t] = "open"
  /\ Len(part[t]) < MaxParticipants
  /\ part' = [part EXCEPT ![t] = Append(@, "INIT")]
  /\ Return(t, "ok")
  /\ UNCHANGED <<lock, active, txnId, txnState, live, votes, pc, idx, log,
                 metrics, begun, crashes, stream, opened>>

RegisterRefused(t) ==
  /\ pc[t] = "open"
  /\ Len(part[t]) >= MaxParticipants
  /\ Return(t, "fail")
  /\ UNCHANGED <<lock, active, object, pc, idx, log, metrics, begun, crashes,
                 stream, opened>>
-----------------------------------------------------------------------------
(* txn_commit *)

\* Mutant: the prepare phase is not recorded.
CommitCall_NoRecord(t) ==
  /\ pc[t] = "open" /\ Free(t)
  /\ txnState' = [txnState EXCEPT ![t] = "PREPARING"]
  /\ Loop(t, "prepare")
  /\ UNCHANGED <<lock, active, txnId, part, live, votes, ret, log, metrics,
                 begun, crashes, stream, opened>>

CommitCall(t) ==
  /\ pc[t] = "open" /\ Free(t)
  /\ SetState(t, "PREPARING")
  /\ Loop(t, "prepare")
  /\ UNCHANGED <<lock, active, txnId, part, live, votes, ret, metrics, begun,
                 crashes, stream, opened>>

\* Mutant: the loop does not stop at a refusal, and the refusal is lost.
PrepareOne_KeepGoing(t, ok) ==
  /\ pc[t] = "prepare" /\ InLoop(t)
  /\ SetPart(t, "PREPARED")
  /\ votes' = IF ok THEN [votes EXCEPT ![t] = @ \cup {idx[t]}] ELSE votes
  /\ Advance(t)
  /\ UNCHANGED <<lock, active, txnId, txnState, live, pc, ret, log, metrics,
                 begun, crashes, stream, opened>>

\* The prepare callback of the next participant answers; a refusal ends the
\* loop (SomeFailed).
PrepareOne(t, ok) ==
  /\ pc[t] = "prepare" /\ InLoop(t) /\ ~SomeFailed(t)
  /\ \/ /\ ok
        /\ SetPart(t, "PREPARED")
        /\ votes' = [votes EXCEPT ![t] = @ \cup {idx[t]}]
        /\ Advance(t)
     \/ /\ ~ok
        /\ SetPart(t, "FAILED")
        /\ UNCHANGED <<votes, idx>>
  /\ UNCHANGED <<lock, active, txnId, txnState, live, pc, ret, log, metrics,
                 begun, crashes, stream, opened>>

\* Both records are written in one critical section; a crash can fall
\* between them.
AllPrepared(t) ==
  /\ pc[t] = "prepare" /\ ~InLoop(t) /\ ~SomeFailed(t) /\ Free(t)
  /\ lock' = [lock EXCEPT ![CoordOf[t]] = t]
  /\ SetState(t, "PREPARED")
  /\ Goto(t, "decided")
  /\ UNCHANGED <<active, txnId, part, live, votes, idx, ret, metrics, begun,
                 crashes, stream, opened>>

CommitStart(t) ==
  /\ pc[t] = "decided"
  /\ lock' = [lock EXCEPT ![CoordOf[t]] = NoThread]
  /\ SetState(t, "COMMITTING")
  /\ Loop(t, "commit")
  /\ UNCHANGED <<active, txnId, part, live, votes, ret, metrics, begun, crashes,
                 stream, opened>>

\* The commit callback of the next participant, called only if it is
\* PREPARED; a failure does not end the loop.
CommitOne(t, ok) ==
  /\ pc[t] = "commit" /\ InLoop(t)
  /\ SetPart(t, IF part[t][idx[t]] # "PREPARED" THEN part[t][idx[t]]
                ELSE IF ok THEN "COMMITTED" ELSE "FAILED")
  /\ Advance(t)
  /\ UNCHANGED <<lock, active, txnId, txnState, live, votes, pc, ret, log,
                 metrics, begun, crashes, stream, opened>>

Committed(t) ==
  /\ pc[t] = "commit" /\ ~InLoop(t) /\ ~SomeFailed(t) /\ Free(t)
  /\ SetState(t, "COMMITTED")
  /\ RemoveTransaction(CoordOf[t], txnId[t])
  /\ metrics' = [metrics EXCEPT !["committed"] = @ + 1]
  /\ Goto(t, "idle") /\ Return(t, "committed")
  /\ UNCHANGED <<lock, txnId, part, votes, idx, begun, crashes, stream, opened>>

\* After a failed prepare, and also after the commit loop when a commit failed.
AbortStart(t) ==
  /\ \/ pc[t] = "prepare"
     \/ pc[t] = "commit" /\ ~InLoop(t)
  /\ SomeFailed(t) /\ Free(t)
  /\ SetState(t, "ABORTING")
  /\ Loop(t, "abort")
  /\ UNCHANGED <<lock, active, txnId, part, live, votes, ret, metrics, begun,
                 crashes, stream, opened>>

\* Mutant: a participant whose call failed is not aborted.
MustAbort_PreparedOnly(t) == part[t][idx[t]] = "PREPARED"

\* Mutant: the state of the participant is not looked at.
MustAbort_Any(t) == TRUE

\* The abort callback, whose result is ignored, called on participants that
\* are PREPARED or FAILED.
MustAbort(t) == part[t][idx[t]] \in {"PREPARED", "FAILED"}


AbortOne(t) ==
  /\ pc[t] = "abort" /\ InLoop(t)
  /\ SetPart(t, IF MustAbort(t) THEN "ABORTED" ELSE part[t][idx[t]])
  /\ Advance(t)
  /\ UNCHANGED <<lock, active, txnId, txnState, live, votes, pc, ret, log,
                 metrics, begun, crashes, stream, opened>>

\* Mutant: the final record and the removal are forgotten on the abort path.
Aborted_NoRecord(t) ==
  /\ pc[t] = "abort" /\ ~InLoop(t) /\ Free(t)
  /\ RemoveTransaction(CoordOf[t], txnId[t])
  /\ metrics' = [metrics EXCEPT !["aborted"] = @ + 1]
  /\ Goto(t, "report")
  /\ UNCHANGED <<lock, txnId, txnState, part, votes, idx, ret, log, begun,
                 crashes, stream, opened>>

Aborted(t) ==
  /\ pc[t] = "abort" /\ ~InLoop(t) /\ Free(t)
  /\ SetState(t, "ABORTED")
  /\ RemoveTransaction(CoordOf[t], txnId[t])
  /\ metrics' = [metrics EXCEPT !["aborted"] = @ + 1]
  /\ Goto(t, "report")
  /\ UNCHANGED <<lock, txnId, part, votes, idx, ret, begun, crashes, stream,
                 opened>>

\* The log line after the unlock takes the id from the Transaction freed above
\* (txn_id points into it): what it prints is whatever is there now.
ReportAborted(t) ==
  /\ pc[t] = "report"
  /\ Goto(t, "idle") /\ Return(t, "aborted")
  /\ UNCHANGED <<lock, active, object, idx, log, metrics, begun, crashes,
                 stream, opened>>
-----------------------------------------------------------------------------
(* txn_abort: the mutex is held from the first line to the last, the       *)
(* callbacks included, and every registered participant is called.         *)

AbortCall(t) ==
  /\ pc[t] = "open" /\ Free(t)
  /\ lock' = [lock EXCEPT ![CoordOf[t]] = t]
  /\ SetState(t, "ABORTING")
  /\ Loop(t, "xabort")
  /\ UNCHANGED <<active, txnId, part, live, votes, ret, metrics, begun, crashes,
                 stream, opened>>

AbortEach(t) ==
  /\ pc[t] = "xabort" /\ InLoop(t)
  /\ SetPart(t, "ABORTED")
  /\ Advance(t)
  /\ UNCHANGED <<lock, active, txnId, txnState, live, votes, pc, ret, log,
                 metrics, begun, crashes, stream, opened>>

AbortReturn(t) ==
  /\ pc[t] = "xabort" /\ ~InLoop(t)
  /\ SetState(t, "ABORTED")
  /\ RemoveTransaction(CoordOf[t], txnId[t])
  /\ lock' = [lock EXCEPT ![CoordOf[t]] = NoThread]
  /\ Goto(t, "idle") /\ Return(t, "void")
  /\ UNCHANGED <<txnId, part, votes, idx, metrics, begun, crashes, stream,
                 opened>>
-----------------------------------------------------------------------------
(* The process dies and is started again.  The coordinators, their         *)
(* mutexes, lists and counters are gone; the log file stays.  Nothing at   *)
(* start-up reads it: txn_recover has no caller and no body.               *)

Crash ==
  /\ crashes < MaxCrashes
  /\ crashes' = crashes + 1
  /\ lock' = [c \in Coordinators |-> NoThread]
  /\ active' = [c \in Coordinators |-> {}]
  /\ live' = [t \in Threads |-> FALSE]
  /\ pc' = [t \in Threads |-> "idle"]
  /\ ret' = [t \in Threads |-> "none"]
  /\ metrics' = [k \in {"committed", "aborted"} |-> 0]
  /\ stream' = [c \in Coordinators |-> "unset"]
  /\ UNCHANGED <<txnId, txnState, part, votes, idx, log, opened, begun>>

CommitStep(t) ==
  \/ CommitCall(t)
  \/ \E ok \in BOOLEAN : PrepareOne(t, ok)
  \/ AllPrepared(t)
  \/ CommitStart(t)
  \/ \E ok \in BOOLEAN : CommitOne(t, ok)
  \/ Committed(t)
  \/ AbortStart(t)
  \/ AbortOne(t)
  \/ Aborted(t)
  \/ ReportAborted(t)

AbortStep(t) == AbortCall(t) \/ AbortEach(t) \/ AbortReturn(t)

BeginStep(t) ==
  \/ \E id \in TxnIds :
       Begin(t, id) \/ BeginRefused(t, id) \/ BeginNoMemory(t, id) \/ GetById(t, id)
  \/ Register(t)
  \/ RegisterRefused(t)

Next ==
  \/ \E t \in Threads : BeginStep(t) \/ CommitStep(t) \/ AbortStep(t)
  \/ Crash

Spec == Init /\ [][Next]_vars
-----------------------------------------------------------------------------
(* Properties *)

\* Until it frees it itself, a thread's Transaction stays allocated: nobody
\* frees it under the thread.  txn_commit keeps the pointer across every
\* unlock, and remove_transaction frees by id, so this rests on txn_begin's
\* duplicate check.
FreedByOwnerOnly == \A t \in Threads : Owns(t) => live[t]

\* A thread inside the API never touches a Transaction that has been freed.
\* It does, after every abort: the last log line of txn_commit reads txn_id,
\* which points into the object remove_transaction has freed.
NoUseAfterFree == \A t \in Threads : pc[t] # "idle" => live[t]

\* The list holds exactly the transactions in progress: every return path of
\* txn_commit and txn_abort gives its slot back, and no slot is given back
\* early, so the capacity check of txn_begin counts what it means to count.
ActiveListExact ==
  \A c \in Coordinators :
    /\ active[c] = {t \in Threads : CoordOf[t] = c /\ Owns(t)}
    /\ Cardinality(active[c]) <= MaxActive
    /\ \A t, u \in active[c] : txnId[t] = txnId[u] => t = u

\* No participant is committed unless the prepare of every registered
\* participant returned 0 (phase 2 starts only after a unanimous phase 1).
UnanimousCommit ==
  \A t \in Threads :
    (\E i \in DOMAIN part[t] : part[t][i] = "COMMITTED")
      => votes[t] = DOMAIN part[t]

\* What the result of a call says about the participants.  0: every one has
\* committed.  -1: one was aborted, none is left prepared or failed, and if
\* any has committed then all had voted yes and all were told to commit (the
\* heuristic outcome).  After txn_abort: every one was aborted.
ResultExplained ==
  \A t \in Threads :
    LET Only(S) == \A i \in DOMAIN part[t] : part[t][i] \in S IN
    /\ ret[t] = "committed" => Only({"COMMITTED"})
    /\ ret[t] = "aborted" =>
         /\ ~Only({"INIT", "COMMITTED"})
         /\ \/ Only({"INIT", "ABORTED"})
            \/ Only({"COMMITTED", "ABORTED"}) /\ votes[t] = DOMAIN part[t]
    /\ ret[t] = "void" => Only({"ABORTED"})

\* The log is written ahead of the callbacks, for every transaction of a
\* coordinator that could open it: once a participant has committed, the last
\* record of the transaction is past the decision, at every moment and after
\* any crash.  A recovery may therefore presume abort for INIT, PREPARING and
\* PREPARED; of the transactions opened without a stream it learns nothing.
LoggedBeforeCommit ==
  \A t \in Threads :
    (\E i \in DOMAIN part[t] : part[t][i] = "COMMITTED") /\ opened[txnId[t]] = "open"
      => log[txnId[t]] \in {"COMMITTING", "COMMITTED", "ABORTING", "ABORTED"}

\* The successive records of one identifier follow the protocol: the
\* transitions of property_consistency in 2PC_CHUYEN_GIA_GUIDE.md, with the
\* end of an abort and the opening of a new transaction after a final record.
\* After a crash an identifier may also be opened again whatever its record.
ProtocolSteps ==
  {<<"NONE", "INIT">>, <<"COMMITTED", "INIT">>, <<"ABORTED", "INIT">>,
   <<"INIT", "PREPARING">>, <<"INIT", "ABORTING">>,
   <<"PREPARING", "PREPARED">>, <<"PREPARING", "ABORTING">>,
   <<"PREPARED", "COMMITTING">>, <<"PREPARED", "ABORTING">>,
   <<"COMMITTING", "COMMITTED">>, <<"COMMITTING", "ABORTING">>,
   <<"ABORTING", "ABORTED">>}

LogFollowsProtocol ==
  [][\A id \in TxnIds :
       log'[id] # log[id] =>
         \/ <<log[id], log'[id]>> \in ProtocolSteps
         \/ crashes > 0 /\ log'[id] = "INIT"]_vars

\* How the coordinator's state is read as AtomicCommit's: the stage is
\* Transaction.state with the protocol's own steps forgotten, and a
\* transaction is in progress until the thread frees it.
StageOf(state) ==
  CASE state \in {"INIT", "PREPARING", "PREPARED"} -> "working"
    [] state = "COMMITTING" -> "commit"
    [] state = "ABORTING" -> "abort"
    [] state = "COMMITTED" -> "committed"
    [] state = "ABORTED" -> "aborted"

AC == INSTANCE AtomicCommit WITH
  Clients <- Threads,
  running <- [t \in Threads |-> Owns(t)],
  stage <- [t \in Threads |-> StageOf(txnState[t])],
  member <- part

\* txn_begin, txn_register_participant, txn_commit and txn_abort implement
\* atomic commitment with a heuristic outcome, whatever other threads do
\* between the unlocks and wherever the process dies: in particular no
\* participant that has committed is ever aborted, and a decision to commit
\* is reversed only after every participant has been called and one refused.
ImplementsAtomicCommit == AC!ACSpec

\* Every transaction the log has seen opened gets a final record: each path of
\* handler.c from 399 to 522 reaches txn_commit or txn_abort, which come to an
\* end when the callbacks do.  Unless the process crashes: nothing resolves what
\* a crash has left (txn_recover).
Unfinished(id) == log[id] \notin {"NONE", "COMMITTED", "ABORTED"}
=============================================================================
