---------------------------- MODULE AtomicCommit ----------------------------
(***************************************************************************)
(* What the transaction coordinator promises its callers, without saying   *)
(* how: no mutex, no list, no identifiers, no log, no loop order.  Every   *)
(* client runs one transaction at a time over a sequence of members.       *)
(*                                                                         *)
(* It is atomic commitment with a heuristic outcome.  A member that        *)
(* refuses its commit turns the decision into an abort of the members that *)
(* have not committed, after every other member has been told to commit;   *)
(* a member that has committed is never aborted, and the client then       *)
(* hears "aborted" although some members have committed.                   *)
(***************************************************************************)
EXTENDS Sequences

CONSTANT Clients

VARIABLES
  running,   \* the client has a transaction in progress
  stage,     \* what has been decided and reported for its last one
  member     \* the state of each member of that transaction

acVars == <<running, stage, member>>

Stages == {"working", "commit", "abort", "committed", "aborted"}
MemberStates == {"INIT", "PREPARED", "COMMITTED", "ABORTED", "FAILED"}

ACInit ==
  /\ running = [c \in Clients |-> FALSE]
  /\ stage = [c \in Clients |-> "working"]
  /\ member = [c \in Clients |-> <<>>]

In(c, states) == \A i \in DOMAIN member[c] : member[c][i] \in states

At(c, s) == running[c] /\ stage[c] = s

\* A transaction is opened and grows while nobody has voted.
Open(c) ==
  /\ ~running[c]
  /\ running' = [running EXCEPT ![c] = TRUE]
  /\ stage' = [stage EXCEPT ![c] = "working"]
  /\ member' = [member EXCEPT ![c] = <<>>]

Join(c) ==
  /\ At(c, "working") /\ In(c, {"INIT"})
  /\ member' = [member EXCEPT ![c] = Append(@, "INIT")]
  /\ UNCHANGED <<running, stage>>

\* What a member may do at each stage.  It votes once, commits only what it
\* has prepared, and is aborted whatever it voted, but never once committed.
MemberStep(c, i) ==
  /\ \E s \in MemberStates :
       /\ \/ At(c, "working") /\ member[c][i] = "INIT" /\ s \in {"PREPARED", "FAILED"}
          \/ At(c, "commit") /\ member[c][i] = "PREPARED" /\ s \in {"COMMITTED", "FAILED"}
          \/ At(c, "abort") /\ member[c][i] # "COMMITTED" /\ s = "ABORTED"
       /\ member' = [member EXCEPT ![c][i] = s]
  /\ UNCHANGED <<running, stage>>

DecideCommit(c) ==
  /\ At(c, "working") /\ In(c, {"PREPARED"})
  /\ stage' = [stage EXCEPT ![c] = "commit"]
  /\ UNCHANGED <<running, member>>

\* Before the decision an abort needs no reason; after it, it needs a member
\* that refused, and waits until all have been told.
DecideAbort(c) ==
  /\ \/ At(c, "working")
     \/ At(c, "commit") /\ In(c, {"COMMITTED", "FAILED"}) /\ ~In(c, {"COMMITTED"})
  /\ stage' = [stage EXCEPT ![c] = "abort"]
  /\ UNCHANGED <<running, member>>

\* What is reported: "committed" when every member has committed, "aborted"
\* when no member is left prepared or failed.
Report(c) ==
  /\ \/ /\ At(c, "commit") /\ In(c, {"COMMITTED"})
        /\ stage' = [stage EXCEPT ![c] = "committed"]
     \/ /\ At(c, "abort") /\ In(c, {"INIT", "COMMITTED", "ABORTED"})
        /\ stage' = [stage EXCEPT ![c] = "aborted"]
  /\ running' = [running EXCEPT ![c] = FALSE]
  /\ UNCHANGED member

\* A crash leaves every transaction where it is, and nobody goes on with it.
Halt ==
  /\ running' = [c \in Clients |-> FALSE]
  /\ UNCHANGED <<stage, member>>

ACNext ==
  \/ \E c \in Clients :
       \/ Open(c) \/ Join(c) \/ DecideCommit(c) \/ DecideAbort(c) \/ Report(c)
       \/ \E i \in DOMAIN member[c] : MemberStep(c, i)
  \/ Halt

ACSpec == ACInit /\ [][ACNext]_acVars
=============================================================================
