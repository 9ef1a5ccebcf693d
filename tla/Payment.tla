------------------------------ MODULE Payment ------------------------------
(***************************************************************************)
(* A payment, from the request line to the answer: the pipeline of         *)
(* handler.c (and its copy for POST /secure/tx), the database participant, *)
(* the clearing participant and the reversal queue, composed with the      *)
(* coordinator of TwoPhaseCommit.  Threads are the pool's workers.  The    *)
(* first participant is the database, the second the clearing system.      *)
(*                                                                         *)
(* PostgreSQL and the clearing system are external: the model has of them  *)
(* what the code relies on.  A session is a worker's own connection, or    *)
(* the bootstrap connection, which several workers share when they cannot  *)
(* connect (db_thread_get).  db_participant.c casts the DBConnection to    *)
(* PGconn, so what its commands do is undefined; the model lets each do    *)
(* what it says, or fail (the third outcome, a crash of the process, is    *)
(* PayCrash).  A refused PREPARE or COMMIT is an ordinary answer; Faults   *)
(* lists what the properties have to name: see its comment.                *)
(***************************************************************************)
EXTENDS TwoPhaseCommit

CONSTANTS
  Jobs,      \* payment requests that passed validation, one line each
  NoJob,
  ReqIds,    \* values of request_id
  NoReq,     \* the request has no request_id
  ReqOf,     \* the request_id of each job
  LongReqs,  \* the request_ids of 48 bytes and more, which fill up txn_id
  CutText,   \* what char txn_id[64] keeps of such a request_id and a second
  MaxTime,   \* bound: the last second of the clock
  Bootstrap, \* the connection opened at start-up
  MaxFaults, \* bound: kinds of Faults in a behaviour
  Faults     \* what may go wrong: "db", a connection or an answer of the
             \* database is lost, or a ROLLBACK PREPARED fails; "clearing", a
             \* request to clearing or its answer is lost; "connect", a
             \* worker's first connection is refused; "memory", no reversal
             \* task can be allocated

ASSUME PaymentAssumption ==
  /\ NoJob \notin Jobs /\ NoReq \notin ReqIds
  /\ ReqOf \in [Jobs -> ReqIds \cup {NoReq}]
  /\ MaxTime \in Nat \ {0}
  /\ LongReqs \subseteq ReqIds /\ CutText \in [LongReqs \X (1..MaxTime) -> TxnIds]
  /\ Faults \subseteq {"db", "clearing", "connect", "memory"}
  /\ Bootstrap \notin Threads /\ MaxFaults \in Nat
  /\ MaxParticipants >= 2 /\ MaxActive >= 1
ASSUME TxnIdsAssumption ==
  \A j \in Jobs, s \in 1..MaxTime : ReqOf[j] \in LongReqs \/ <<ReqOf[j], s>> \in TxnIds

VARIABLES
  now,        \* time(NULL)
  hs,         \* where the worker is in the pipeline
  job,        \* the request the worker handles
  txnOf,      \* history: the txn_id each request was given
  reply,      \* the status sent to the client
  dbIn,       \* DBParticipantContext.in_transaction
  hold,       \* ClearingParticipantContext.has_hold
  conn,       \* DBParticipantContext.dbc: the session the request uses
  sess,       \* the state of each session at the server
  pend,       \* the rows its open transaction has inserted
  prepared,   \* pg_prepared_xacts
  rows,       \* requests with a committed row in table transactions
  clearing,   \* what clearing has recorded for an id
  reversals,  \* the reversal queue, in memory
  faulted     \* history: the Faults that have happened

client == <<now, txnOf, reply>>
handler == <<hs, job>>
context == <<conn, dbIn, hold>>
postgres == <<sess, pend, prepared, rows>>
outside == <<clearing, reversals, faulted>>
payVars == <<client, handler, context, postgres, outside>>
allVars == <<vars, payVars>>

Sessions == Threads \cup {Bootstrap}

Steps == {"idle", "init", "register", "begin", "insert", "commit", "failing"}

PayTypeOK ==
  /\ TypeOK
  /\ now \in 1..MaxTime
  /\ hs \in [Threads -> Steps]
  /\ job \in [Threads -> Jobs \cup {NoJob}]
  /\ txnOf \in [Jobs -> TxnIds \cup {NoTxn}]
  /\ reply \in [Jobs -> {"none", "APPROVED", "DECLINED"}]
  /\ dbIn \in [Threads -> BOOLEAN]
  /\ hold \in [Threads -> BOOLEAN]
  /\ conn \in [Threads -> Sessions]
  /\ sess \in [Sessions -> {"none", "idle", "txn", "failed", "broken"}]
  /\ pend \in [Sessions -> SUBSET Jobs]
  /\ prepared \subseteq [gid : TxnIds, job : Jobs, rows : SUBSET Jobs]
  /\ rows \subseteq Jobs
  /\ clearing \in [TxnIds -> {"none", "held", "settled", "released"}]
  /\ reversals \subseteq [id : TxnIds, job : Jobs]
  /\ faulted \subseteq Faults

\* Only the bootstrap connection is open at start-up.
NoSessionYet == [s \in Sessions |-> IF s = Bootstrap THEN "idle" ELSE "none"]

PayInit ==
  /\ Init
  /\ now = 1
  /\ hs = [t \in Threads |-> "idle"]
  /\ job = [t \in Threads |-> NoJob]
  /\ txnOf = [j \in Jobs |-> NoTxn]
  /\ reply = [j \in Jobs |-> "none"]
  /\ dbIn = [t \in Threads |-> FALSE]
  /\ hold = [t \in Threads |-> FALSE]
  /\ conn = [t \in Threads |-> Bootstrap]
  /\ sess = NoSessionYet
  /\ pend = [s \in Sessions |-> {}]
  /\ prepared = {}
  /\ rows = {}
  /\ clearing = [id \in TxnIds |-> "none"]
  /\ reversals = {}
  /\ faulted = {}

Step(t, where) == hs' = [hs EXCEPT ![t] = where]

Answer(t, status) == reply' = [reply EXCEPT ![job[t]] = status]

Fault(what) ==
  /\ what \in Faults
  /\ what \in faulted \/ Cardinality(faulted) < MaxFaults
  /\ faulted' = faulted \cup {what}
-----------------------------------------------------------------------------
(* The database server (external) *)

\* Mutant: the name is made of the request_id alone.
WithGid_ByRequest(id) == {p \in prepared : p.gid[1] = id[1]}

\* The prepared transaction called 'visa_<txn_id>'.
WithGid(id) == {p \in prepared : p.gid = id}

\* The rows the open transaction of a session has inserted become part of a
\* prepared transaction, which outlives the session.  With no transaction
\* open, or with one that has failed, the command is a warning and its status
\* is success, but nothing is prepared.
PgPrepare(t) ==
  LET s == conn[t] IN
  /\ \/ /\ sess[s] = "txn" /\ WithGid(txnId[t]) = {}
        /\ prepared' = prepared \cup {[gid |-> txnId[t], job |-> job[t], rows |-> pend[s]]}
     \/ sess[s] \in {"idle", "failed"} /\ UNCHANGED prepared
  /\ pend' = [pend EXCEPT ![s] = {}]

PgCommitPrepared(t) ==
  /\ sess[conn[t]] = "idle"
  /\ \E p \in WithGid(txnId[t]) :
       /\ prepared' = prepared \ {p}
       /\ rows' = rows \cup p.rows

\* An error fails the transaction that is open on the session, whoever
\* opened it.
PgError(s) ==
  /\ sess' = [sess EXCEPT ![s] = IF @ = "txn" THEN "failed" ELSE @]
  /\ pend' = [pend EXCEPT ![s] = {}]

\* ROLLBACK PREPARED names the transaction by its gid.  An unknown gid is an
\* error, and so is an open transaction; db_participant_abort ignores both.
PgRollbackPrepared(t) ==
  IF sess[conn[t]] = "idle"
  THEN prepared' = prepared \ WithGid(txnId[t]) /\ UNCHANGED <<sess, pend>>
  ELSE PgError(conn[t]) /\ UNCHANGED prepared

PgRollback(s) ==
  /\ sess' = [sess EXCEPT ![s] = IF @ = "broken" THEN "broken" ELSE "idle"]
  /\ pend' = [pend EXCEPT ![s] = {}]

\* INSERT ... ON CONFLICT waits for whoever has the same request_id in a
\* transaction of another session that is open or prepared.
Uncommitted(t) ==
  UNION ({pend[s] : s \in Sessions \ {conn[t]}} \cup {p.rows : p \in prepared})

SameRequest(t, jobs) ==
  ReqOf[job[t]] # NoReq /\ \E j \in jobs : ReqOf[j] = ReqOf[job[t]]

Blocked(t) == SameRequest(t, Uncommitted(t))

Exists(t) == SameRequest(t, rows \cup pend[conn[t]])

\* The connection of a worker breaks: the server rolls its open transaction
\* back, and nothing in db.c ever reconnects it.
ConnectionLost(t) ==
  /\ Fault("db") /\ sess[t] \notin {"none", "broken"}
  /\ sess' = [sess EXCEPT ![t] = "broken"]
  /\ pend' = [pend EXCEPT ![t] = {}]
  /\ UNCHANGED <<vars, client, handler, context, prepared, rows, clearing, reversals>>
-----------------------------------------------------------------------------
(* The clearing system (external): requests are idempotent by id *)

ClearingHold(id) ==
  clearing' = [clearing EXCEPT ![id] = IF @ = "settled" THEN @ ELSE "held"]

ClearingSettle(id) ==
  /\ clearing[id] \in {"held", "settled"}
  /\ clearing' = [clearing EXCEPT ![id] = "settled"]

\* An abort voids a hold or a charge; it may not get through, and
\* clearing_participant_abort does not tell.
ClearingVoid(id) ==
  \/ /\ clearing' = [clearing EXCEPT ![id] = IF @ = "none" THEN @ ELSE "released"]
     /\ UNCHANGED faulted
  \/ Fault("clearing") /\ UNCHANGED clearing
-----------------------------------------------------------------------------
(* The pipeline up to txn_commit *)

\* "visa_%s_%ld" of the request_id and the second, cut to 64 bytes: a long
\* request_id leaves no room for the whole second, or for any of it and for its
\* own end.
TxnIdFor(j) ==
  IF ReqOf[j] \in LongReqs THEN CutText[<<ReqOf[j], now>>] ELSE <<ReqOf[j], now>>

Accept(t, j) ==
  /\ hs[t] = "idle" /\ reply[j] = "none" /\ txnOf[j] = NoTxn
  /\ Begin(t, TxnIdFor(j))
  /\ Step(t, "init")
  /\ job' = [job EXCEPT ![t] = j]
  /\ txnOf' = [txnOf EXCEPT ![j] = TxnIdFor(j)]
  /\ UNCHANGED <<now, reply, context, postgres, outside>>

\* txn_begin returns NULL: DECLINED, txn_init_failed.
AcceptRefused(t, j) ==
  /\ hs[t] = "idle" /\ reply[j] = "none" /\ txnOf[j] = NoTxn
  /\ BeginNoMemory(t, TxnIdFor(j))
  /\ reply' = [reply EXCEPT ![j] = "DECLINED"]
  /\ UNCHANGED <<now, txnOf, handler, context, postgres, outside>>

\* db_connect: a session of the worker's own, kept in its thread-local storage.
Connect(t) ==
  /\ sess' = [sess EXCEPT ![t] = "idle"]
  /\ conn' = [conn EXCEPT ![t] = t]
  /\ UNCHANGED faulted

\* db_thread_get: the connection the worker keeps, a new one, or, for this
\* request, the shared one.
ThreadGet(t) ==
  \/ /\ sess[t] # "none"
     /\ conn' = [conn EXCEPT ![t] = t]
     /\ UNCHANGED <<sess, faulted>>
  \/ sess[t] = "none" /\ Connect(t)
  \/ /\ sess[t] = "none" /\ Fault("connect")
     /\ conn' = [conn EXCEPT ![t] = Bootstrap]
     /\ UNCHANGED sess

InitParticipants(t) ==
  /\ hs[t] = "init"
  /\ ThreadGet(t)
  /\ dbIn' = [dbIn EXCEPT ![t] = FALSE]
  /\ hold' = [hold EXCEPT ![t] = FALSE]
  /\ Step(t, "register")
  /\ UNCHANGED <<vars, client, job, pend, prepared, rows, clearing, reversals>>

RegisterParticipant(t) ==
  /\ hs[t] = "register"
  /\ Register(t)
  /\ Step(t, IF Len(part[t]) = 1 THEN "begin" ELSE "register")
  /\ UNCHANGED <<client, job, context, postgres, outside>>

\* BEGIN (a warning if another worker has a transaction open on the session),
\* then clearing_participant_set_transaction, which cannot fail here.
DbBegin(t) ==
  /\ hs[t] = "begin" /\ sess[conn[t]] \in {"idle", "txn"}
  /\ sess' = [sess EXCEPT ![conn[t]] = "txn"]
  /\ dbIn' = [dbIn EXCEPT ![t] = TRUE]
  /\ Step(t, "insert")
  /\ UNCHANGED <<vars, client, job, conn, hold, pend, prepared, rows, outside>>

\* What an INSERT adds: nothing if the request_id is there already.
NewRow(t) == IF Exists(t) THEN {} ELSE {job[t]}

\* A row that exists makes the request a duplicate (is_dup): no new row, and
\* the two-phase commit runs all the same.  If another worker has ended the
\* transaction of a shared session, the row is committed at once.
Insert(t) ==
  /\ hs[t] = "insert" /\ ~Blocked(t)
  /\ \/ /\ sess[conn[t]] = "txn"
        /\ pend' = [pend EXCEPT ![conn[t]] = @ \cup NewRow(t)]
        /\ UNCHANGED rows
     \/ /\ sess[conn[t]] = "idle"
        /\ rows' = rows \cup NewRow(t)
        /\ UNCHANGED pend
  /\ Step(t, "commit")
  /\ UNCHANGED <<vars, client, job, context, sess, prepared, outside>>

\* Mutant: an error path returns without an answer.
Fail_Silent(t) ==
  /\ hs[t] \in {"init", "begin"}
  /\ Step(t, "failing")
  /\ UNCHANGED <<vars, client, job, context, postgres, outside>>

\* A step before txn_commit fails.  The client is answered and the contexts
\* are destroyed (db_participant_destroy rolls an open transaction back)
\* before txn_abort is called.
Fail(t) ==
  /\ \/ hs[t] \in {"init", "begin"}
     \/ hs[t] = "insert" /\ (sess[conn[t]] \in {"broken", "failed"} \/ ~Blocked(t))
  /\ Answer(t, "DECLINED")
  /\ IF dbIn[t] THEN PgRollback(conn[t]) ELSE UNCHANGED <<sess, pend>>
  /\ dbIn' = [dbIn EXCEPT ![t] = FALSE]
  /\ Step(t, "failing")
  /\ UNCHANGED <<vars, now, txnOf, job, conn, hold, prepared, rows, outside>>
-----------------------------------------------------------------------------
(* txn_commit and its callbacks *)

CoordinatorStep(t) ==
  /\ hs[t] = "commit"
  /\ CommitCall(t) \/ AllPrepared(t) \/ CommitStart(t) \/ Committed(t)
       \/ AbortStart(t) \/ Aborted(t) \/ ReportAborted(t)
  /\ UNCHANGED payVars

\* The command succeeds, is refused (which ends the transaction), cannot be
\* sent, or succeeds and its answer is lost with the connection.
DbPrepare(t, ok) ==
  /\ idx[t] = 1 /\ PrepareOne(t, ok)
  /\ \/ /\ ok /\ dbIn[t]
        /\ PgPrepare(t)
        /\ sess' = [sess EXCEPT ![conn[t]] = "idle"]
        /\ dbIn' = [dbIn EXCEPT ![t] = FALSE]
        /\ UNCHANGED faulted
     \/ /\ ~ok
        /\ PgRollback(conn[t]) \/ UNCHANGED <<sess, pend>>
        /\ UNCHANGED <<prepared, dbIn, faulted>>
     \/ /\ ~ok /\ dbIn[t] /\ Fault("db")
        /\ PgPrepare(t)
        /\ sess' = [sess EXCEPT ![conn[t]] = "broken"]
        /\ UNCHANGED dbIn
  /\ UNCHANGED <<client, handler, conn, hold, rows, clearing, reversals>>

\* A refusal: the breaker is open, or no attempt of the request made it; with
\* a fault the hold was placed and every answer was lost.
ClearingPrepare(t, ok) ==
  /\ idx[t] = 2 /\ PrepareOne(t, ok)
  /\ \/ ok /\ ClearingHold(txnId[t]) /\ UNCHANGED faulted
     \/ ~ok /\ UNCHANGED <<clearing, faulted>>
     \/ ~ok /\ Fault("clearing") /\ ClearingHold(txnId[t])
  /\ hold' = [hold EXCEPT ![t] = ok]
  /\ UNCHANGED <<client, handler, conn, dbIn, postgres, reversals>>

\* COMMIT PREPARED is carried out, fails, for whatever reason, or is carried
\* out and its answer is lost with the connection.
DbCommit(t, ok) ==
  LET s == conn[t] IN
  /\ idx[t] = 1 /\ CommitOne(t, ok)
  /\ \/ ok /\ PgCommitPrepared(t) /\ UNCHANGED <<sess, pend, faulted>>
     \/ ~ok /\ PgError(s) /\ UNCHANGED <<prepared, rows, faulted>>
     \/ /\ ~ok /\ Fault("db")
        /\ PgCommitPrepared(t)
        /\ sess' = [sess EXCEPT ![s] = "broken"]
        /\ UNCHANGED pend
  /\ UNCHANGED <<client, handler, context, clearing, reversals>>

ClearingCommit(t, ok) ==
  /\ idx[t] = 2 /\ CommitOne(t, ok)
  /\ \/ ok /\ hold[t] /\ ClearingSettle(txnId[t]) /\ UNCHANGED faulted
     \/ ~ok /\ UNCHANGED <<clearing, faulted>>
     \/ ~ok /\ hold[t] /\ Fault("clearing") /\ ClearingSettle(txnId[t])
  /\ hold' = [hold EXCEPT ![t] = @ /\ ~ok]
  /\ UNCHANGED <<client, handler, conn, dbIn, postgres, reversals>>

\* Mutant: a transaction that was prepared is rolled back with ROLLBACK.
DbAbort_PlainRollback(t) ==
  /\ PgRollback(conn[t])
  /\ dbIn' = [dbIn EXCEPT ![t] = FALSE]
  /\ UNCHANGED <<prepared, faulted>>

\* db_participant_abort: ROLLBACK before the prepare, ROLLBACK PREPARED after;
\* a failure is logged and forgotten.
DbAbort(t) ==
  \/ /\ dbIn[t]
     /\ PgRollback(conn[t])
     /\ dbIn' = [dbIn EXCEPT ![t] = FALSE]
     /\ UNCHANGED <<prepared, faulted>>
  \/ ~dbIn[t] /\ PgRollbackPrepared(t) /\ UNCHANGED <<dbIn, faulted>>
  \/ ~dbIn[t] /\ Fault("db") /\ UNCHANGED <<sess, pend, prepared, dbIn>>

AbortDb(t) ==
  /\ idx[t] = 1 /\ AbortOne(t)
  /\ IF MustAbort(t) THEN DbAbort(t)
     ELSE UNCHANGED <<sess, pend, prepared, dbIn, faulted>>
  /\ UNCHANGED <<client, handler, conn, hold, rows, clearing, reversals>>

AbortClearing(t) ==
  /\ idx[t] = 2 /\ AbortOne(t)
  /\ IF MustAbort(t)
     THEN ClearingVoid(txnId[t]) /\ hold' = [hold EXCEPT ![t] = FALSE]
     ELSE UNCHANGED <<clearing, hold, faulted>>
  /\ UNCHANGED <<client, handler, conn, dbIn, postgres, reversals>>

\* Mutant: the result of txn_commit is not looked at.
Approve_IgnoreResult(t) ==
  /\ hs[t] = "commit" /\ pc[t] = "idle" /\ ret[t] # "none"
  /\ Answer(t, "APPROVED")
  /\ Step(t, "idle") /\ job' = [job EXCEPT ![t] = NoJob]
  /\ UNCHANGED <<vars, now, txnOf, context, postgres, outside>>

\* txn_commit has returned: the contexts are destroyed, which finds nothing
\* left to undo (NothingLeftOver), and the client is answered.
Approve(t) ==
  /\ hs[t] = "commit" /\ pc[t] = "idle" /\ ret[t] = "committed"
  /\ Answer(t, "APPROVED")
  /\ Step(t, "idle") /\ job' = [job EXCEPT ![t] = NoJob]
  /\ UNCHANGED <<vars, now, txnOf, context, postgres, outside>>

\* Mutant: no reversal is asked for.
Enqueue_Nothing(t) == UNCHANGED <<reversals, faulted>>

\* reversal_enqueue, whose result is ignored.
Enqueue(t) ==
  \/ /\ reversals' = reversals \cup {[id |-> txnId[t], job |-> job[t]]}
     /\ UNCHANGED faulted
  \/ Fault("memory") /\ UNCHANGED reversals

Decline(t) ==
  /\ hs[t] = "commit" /\ pc[t] = "idle" /\ ret[t] = "aborted"
  /\ Enqueue(t)
  /\ Answer(t, "DECLINED")
  /\ Step(t, "idle") /\ job' = [job EXCEPT ![t] = NoJob]
  /\ UNCHANGED <<vars, now, txnOf, context, postgres, clearing>>
-----------------------------------------------------------------------------
(* txn_abort on the error paths.  The participants' contexts have been      *)
(* freed: their flags are whatever the allocator left there.                *)

FailAbort(t) ==
  /\ hs[t] = "failing" /\ AbortCall(t)
  /\ UNCHANGED payVars

FailAbortDb(t) ==
  /\ idx[t] = 1 /\ AbortEach(t)
  /\ PgRollbackPrepared(t) \/ UNCHANGED <<prepared, sess, pend>>
  /\ UNCHANGED <<client, handler, context, rows, outside>>

FailAbortClearing(t) ==
  /\ idx[t] = 2 /\ AbortEach(t)
  /\ ClearingVoid(txnId[t]) \/ UNCHANGED <<clearing, faulted>>
  /\ UNCHANGED <<client, handler, context, postgres, reversals>>

FailReturn(t) ==
  /\ AbortReturn(t)
  /\ Step(t, "idle") /\ job' = [job EXCEPT ![t] = NoJob]
  /\ UNCHANGED <<client, context, postgres, outside>>
-----------------------------------------------------------------------------
\* reversal_loop takes a task and voids it; the result always counts as
\* success (module Reversal has the thread itself).
ReversalRun ==
  /\ \E r \in reversals :
       /\ reversals' = reversals \ {r}
       /\ ClearingVoid(r.id)
  /\ UNCHANGED <<vars, client, handler, context, postgres>>

Tick ==
  /\ now < MaxTime
  /\ now' = now + 1
  /\ UNCHANGED <<vars, txnOf, reply, handler, context, postgres, outside>>

\* The process dies: sessions end, their open transactions are rolled back
\* and the reversal queue is lost; what is prepared, committed or recorded
\* at clearing stays.
PayCrash ==
  /\ Crash
  /\ hs' = [t \in Threads |-> "idle"]
  /\ job' = [t \in Threads |-> NoJob]
  /\ dbIn' = [t \in Threads |-> FALSE]
  /\ hold' = [t \in Threads |-> FALSE]
  /\ conn' = [t \in Threads |-> Bootstrap]
  /\ sess' = NoSessionYet
  /\ pend' = [s \in Sessions |-> {}]
  /\ reversals' = {}
  /\ UNCHANGED <<client, prepared, rows, clearing, faulted>>

Setup(t) ==
  \/ InitParticipants(t) \/ RegisterParticipant(t) \/ DbBegin(t) \/ Insert(t) \/ Fail(t)

Callback(t) ==
  \/ \E ok \in BOOLEAN : DbPrepare(t, ok) \/ ClearingPrepare(t, ok)
                           \/ DbCommit(t, ok) \/ ClearingCommit(t, ok)
  \/ AbortDb(t) \/ AbortClearing(t)

Ending(t) ==
  \/ Approve(t) \/ Decline(t)
  \/ FailAbort(t) \/ FailAbortDb(t) \/ FailAbortClearing(t) \/ FailReturn(t)

Work(t) == Setup(t) \/ CoordinatorStep(t) \/ Callback(t) \/ Ending(t)

PayNext ==
  \/ \E t \in Threads, j \in Jobs : Accept(t, j) \/ AcceptRefused(t, j)
  \/ \E t \in Threads : Work(t) \/ ConnectionLost(t)
  \/ ReversalRun \/ Tick \/ PayCrash

PaySpec == PayInit /\ [][PayNext]_allVars

\* A worker that has a request goes on with it; every callback returns.
PayFairSpec == PaySpec /\ \A t \in Threads : WF_allVars(Work(t))
-----------------------------------------------------------------------------
(* Properties *)

Done(j) == txnOf[j] # NoTxn /\ reply[j] # "none" /\ \A t \in Threads : job[t] # j

\* An answer APPROVED stands for a committed row for the request, its own or
\* an earlier one with the same request_id, and for a settled charge; no
\* abort, reversal, crash or lost answer takes either away afterwards.
ApprovedIsBooked ==
  \A j \in Jobs : reply[j] = "APPROVED" =>
    /\ \E k \in rows : k = j \/ (ReqOf[k] = ReqOf[j] /\ ReqOf[j] # NoReq)
    /\ clearing[txnOf[j]] = "settled"

\* A declined request keeps no money, whatever the database did, as long as
\* its requests to clearing are answered and its reversal could be allocated:
\* once its worker is done with it, clearing has no hold for it, and a charge
\* (the database's commit failed, clearing's did not) only while the reversal
\* that voids it is queued.  A crash loses that queue, and the charge stays.
DeclinedIsReleased ==
  \A j \in Jobs :
    Done(j) /\ reply[j] = "DECLINED" /\ faulted \cap {"clearing", "memory"} = {} =>
      \/ clearing[txnOf[j]] \in {"none", "released"}
      \/ /\ clearing[txnOf[j]] = "settled"
         /\ crashes > 0 \/ \E r \in reversals : r.id = txnOf[j]

\* No answer and no connection of the database has been lost, every ROLLBACK
\* PREPARED was carried out, and every worker has a session of its own.
DbSound == faulted \cap {"db", "connect"} = {}

\* Until the first crash, and as long as the database is sound in this sense
\* (it may refuse any PREPARE and any COMMIT): when txn_commit returns, nothing
\* is prepared, open or held for it: the clean-up of the two destroy functions
\* has nothing to do, and no prepared transaction outlives the request it
\* belongs to.
NothingLeftOver == crashes = 0 /\ DbSound =>
  /\ \A p \in prepared : \E t \in Threads : job[t] = p.job
  /\ \A t \in Threads : hs[t] = "commit" /\ pc[t] = "idle" =>
       /\ ~dbIn[t] /\ ~hold[t] /\ sess[t] = "idle" /\ pend[t] = {}
       /\ \A p \in prepared : p.job # job[t]

\* The log knows of every prepared transaction whose coordinator could open
\* it: one that a crash leaves behind has a record that is not final, so the
\* recovery the header promises could find it there (unless a rollback was
\* lost: its record is final).
OrphanIsLogged == DbSound =>
  \A p \in prepared : opened[p.gid] = "open" =>
    log[p.gid] \notin {"NONE", "INIT", "COMMITTED", "ABORTED"}

\* A worker commits or rolls back only the prepared transaction of the
\* request it handles, although it names it by a gid made of request_id and
\* second.
OwnTransactionOnly ==
  [][\A p \in prepared \ prepared' :
       \E t \in Threads : job[t] = p.job /\ Owns(t)
                          /\ (idx'[t] # idx[t])]_allVars

\* Every request a worker has taken is answered, also when it waits for the
\* row of another one, unless the server crashes or a connection or a rollback
\* is lost: then a request may wait for ever for a prepared row.
EveryJobAnswered ==
  \A j \in Jobs :
    (\E t \in Threads : job[t] = j) ~> (reply[j] # "none" \/ crashes > 0 \/ ~DbSound)

\* Sending a request_id again does not charge the card again.
ChargedOnce ==
  \A r \in ReqIds :
    Cardinality({id \in TxnIds : /\ clearing[id] = "settled"
                                 /\ \E j \in Jobs : ReqOf[j] = r /\ txnOf[j] = id}) <= 1
=============================================================================
