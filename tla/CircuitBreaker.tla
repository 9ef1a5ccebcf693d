--------------------------- MODULE CircuitBreaker ---------------------------
(***************************************************************************)
(* The process-wide circuit breaker g_cb of server/clearing_participant.c  *)
(* and the calls that go through it: the retry loops of                    *)
(* clearing_participant_prepare and clearing_participant_commit, which are *)
(* the same code.                                                          *)
(*                                                                         *)
(* Both cb_should_short_circuit and cb_on_result read the clock BEFORE     *)
(* they lock g_cb.mu, so the time they use can be stale.  Only differences *)
(* of times matter, so the model keeps ages: openAge is `time - opened_at',*)
(* windowAge is `time - window_start', and readAge is how long ago a       *)
(* caller read its `now'.  Then `now - opened_at' is openAge - readAge,    *)
(* and storing `now' in opened_at makes openAge equal to readAge.          *)
(***************************************************************************)
EXTENDS Integers, FiniteSets

CONSTANTS
  Callers,     \* the threads that call the clearing service
  Window,      \* window_seconds
  Threshold,   \* failure_threshold
  OpenSecs,    \* open_seconds
  MaxRetries,  \* max_retries
  MaxDelay     \* bound: seconds from reading the clock to holding the mutex

\* env_get_int refuses values below 1 for the four tunables.
ASSUME TunablesAssumption ==
  /\ Window \in Nat \ {0} /\ Threshold \in Nat \ {0}
  /\ OpenSecs \in Nat \ {0} /\ MaxRetries \in Nat \ {0}
  /\ MaxDelay \in Nat
ASSUME CallersAssumption == IsFiniteSet(Callers)

VARIABLES
  open,       \* g_cb.open
  fails,      \* g_cb.failure_count
  windowAge,  \* age of g_cb.window_start
  openAge,    \* age of g_cb.opened_at
  loc,        \* where each caller is
  readAge,    \* age of the caller's `now'
  attempt,    \* the caller's loop variable
  ok,         \* the caller's result == 0
  openFor,    \* history: how long the breaker has been open
  streak      \* history: failures reported since the last reported success

breaker == <<open, fails, windowAge, openAge>>
caller == <<loc, readAge, attempt, ok>>
history == <<openFor, streak>>
vars == <<breaker, caller, history>>

\* Ages are capped where no comparison tells them apart any more.
MaxWindowAge == Window + MaxDelay + 1
MaxOpenAge == OpenSecs + MaxDelay
Unset == MaxWindowAge + 1            \* window_start == 0
MaxStreak == Threshold               \* bound on the history

Older(age, max) == IF age < max THEN age + 1 ELSE age

TypeOK ==
  /\ open \in BOOLEAN
  /\ fails \in 0..(Threshold + Cardinality(Callers))
  /\ windowAge \in 0..Unset
  /\ openAge \in 0..MaxOpenAge
  /\ loc \in [Callers -> {"idle", "gate", "call", "clock", "report"}]
  /\ readAge \in [Callers -> 0..MaxDelay]
  /\ attempt \in [Callers -> 0..MaxRetries]
  /\ ok \in [Callers -> BOOLEAN]
  /\ openFor \in 0..MaxOpenAge
  /\ streak \in 0..MaxStreak

Init ==
  /\ open = FALSE
  /\ fails = 0
  /\ windowAge = Unset
  /\ openAge = MaxOpenAge
  /\ loc = [c \in Callers |-> "idle"]
  /\ readAge = [c \in Callers |-> 0]
  /\ attempt = [c \in Callers |-> 0]
  /\ ok = [c \in Callers |-> FALSE]
  /\ openFor = 0
  /\ streak = 0
-----------------------------------------------------------------------------
\* `now - window_start > window_seconds', or no window yet.
WindowOver(c) == windowAge = Unset \/ windowAge - readAge[c] > Window

\* Mutant: a second too early.
StillOpen_Short(c) == open /\ openAge - readAge[c] + 1 < OpenSecs

\* Mutant: the open time is not looked at.
StillOpen_Forever(c) == open

StillOpen(c) == open /\ openAge - readAge[c] < OpenSecs

\* time(NULL), the first line of cb_should_short_circuit.
ReadClock(c) ==
  /\ loc[c] = "idle"
  /\ loc' = [loc EXCEPT ![c] = "gate"]
  /\ readAge' = [readAge EXCEPT ![c] = 0]
  /\ UNCHANGED <<breaker, attempt, ok, history>>

ShortCircuit(c) ==
  /\ loc[c] = "gate" /\ StillOpen(c)
  /\ loc' = [loc EXCEPT ![c] = "idle"]
  /\ UNCHANGED <<breaker, readAge, attempt, ok, history>>

\* The breaker is closed, or its time is up and it closes for a trial.
Admit(c) ==
  /\ loc[c] = "gate" /\ ~StillOpen(c)
  /\ open' = FALSE
  /\ fails' = IF open \/ WindowOver(c) THEN 0 ELSE fails
  /\ windowAge' = IF open \/ WindowOver(c) THEN readAge[c] ELSE windowAge
  /\ loc' = [loc EXCEPT ![c] = "call"]
  /\ attempt' = [attempt EXCEPT ![c] = 0]
  /\ UNCHANGED <<openAge, readAge, ok, history>>

\* Mutant: one attempt too many.
Request_OffByOne(c, success) ==
  /\ loc[c] = "call"
  /\ ok' = [ok EXCEPT ![c] = success]
  /\ IF success \/ attempt[c] > MaxRetries
     THEN loc' = [loc EXCEPT ![c] = "clock"] /\ UNCHANGED attempt
     ELSE attempt' = [attempt EXCEPT ![c] = @ + 1] /\ UNCHANGED loc
  /\ UNCHANGED <<breaker, readAge, history>>

\* One turn of the retry loop; the loop ends with a success or when the
\* attempts are used up.
Request(c, success) ==
  /\ loc[c] = "call"
  /\ ok' = [ok EXCEPT ![c] = success]
  /\ IF success \/ attempt[c] = MaxRetries
     THEN loc' = [loc EXCEPT ![c] = "clock"] /\ UNCHANGED attempt
     ELSE attempt' = [attempt EXCEPT ![c] = @ + 1] /\ UNCHANGED loc
  /\ UNCHANGED <<breaker, readAge, history>>

\* time(NULL), the first line of cb_on_result.
ReadClockAgain(c) ==
  /\ loc[c] = "clock"
  /\ loc' = [loc EXCEPT ![c] = "report"]
  /\ readAge' = [readAge EXCEPT ![c] = 0]
  /\ UNCHANGED <<breaker, attempt, ok, history>>

Reported(c) ==
  /\ loc' = [loc EXCEPT ![c] = "idle"]
  /\ UNCHANGED <<readAge, attempt, ok>>

\* Mutant: a success leaves the count alone.
OnSuccess_KeepCount(c) ==
  /\ loc[c] = "report" /\ ok[c]
  /\ streak' = 0
  /\ Reported(c)
  /\ UNCHANGED <<breaker, openFor>>

OnSuccess(c) ==
  /\ loc[c] = "report" /\ ok[c]
  /\ fails' = 0
  /\ windowAge' = IF windowAge = Unset THEN readAge[c] ELSE windowAge
  /\ streak' = 0
  /\ Reported(c)
  /\ UNCHANGED <<open, openAge, openFor>>

\* Mutant: the breaker opens one failure late.
OnFailure_OffByOne(c) ==
  LET n == IF WindowOver(c) THEN 1 ELSE fails + 1 IN
  /\ loc[c] = "report" /\ ~ok[c]
  /\ fails' = n
  /\ windowAge' = IF WindowOver(c) THEN readAge[c] ELSE windowAge
  /\ open' = (open \/ n > Threshold)
  /\ openAge' = IF ~open /\ n > Threshold THEN readAge[c] ELSE openAge
  /\ openFor' = IF ~open /\ n > Threshold THEN 0 ELSE openFor
  /\ streak' = Older(streak, MaxStreak)
  /\ Reported(c)

\* A failure that finds the breaker already open is counted and no more.
OnFailure(c) ==
  LET n == IF WindowOver(c) THEN 1 ELSE fails + 1
      opens == ~open /\ n >= Threshold IN
  /\ loc[c] = "report" /\ ~ok[c]
  /\ fails' = n
  /\ windowAge' = IF WindowOver(c) THEN readAge[c] ELSE windowAge
  /\ open' = (open \/ opens)
  /\ openAge' = IF opens THEN readAge[c] ELSE openAge
  /\ openFor' = IF opens THEN 0 ELSE openFor
  /\ streak' = Older(streak, MaxStreak)
  /\ Reported(c)

\* A second passes.  A caller that has read the clock gets the mutex within
\* MaxDelay seconds: nothing blocks while holding it.
Tick ==
  /\ \A c \in Callers : loc[c] \in {"gate", "report"} => readAge[c] < MaxDelay
  /\ windowAge' = IF windowAge = Unset THEN Unset
                  ELSE Older(windowAge, MaxWindowAge)
  /\ openAge' = Older(openAge, MaxOpenAge)
  /\ openFor' = IF open THEN Older(openFor, MaxOpenAge) ELSE openFor
  /\ readAge' = [c \in Callers |->
       IF loc[c] \in {"gate", "report"} THEN readAge[c] + 1 ELSE readAge[c]]
  /\ UNCHANGED <<open, fails, loc, attempt, ok, streak>>

Step(c) ==
  \/ ReadClock(c) \/ ShortCircuit(c) \/ Admit(c)
  \/ \E success \in BOOLEAN : Request(c, success)
  \/ ReadClockAgain(c) \/ OnSuccess(c) \/ OnFailure(c)

Next == Tick \/ \E c \in Callers : Step(c)

Spec == Init /\ [][Next]_vars

\* Time passes, and every caller comes back with a new call (there is
\* traffic).  The answers of the service are not fair in any way.
Fairness == WF_vars(Tick) /\ \A c \in Callers : WF_vars(Step(c))

FairSpec == Spec /\ Fairness
-----------------------------------------------------------------------------
(* Properties *)

\* A closed breaker has room for another failure: the count never reaches
\* the threshold without opening, whatever reports interleave, also those of
\* calls admitted before the breaker opened and closed again.
ClosedBelowThreshold == ~open => fails < Threshold

\* The breaker opens only on Threshold failures in a row: no success was
\* reported in between, by any thread.
OpensOnStreak == [][~open /\ open' => streak' >= Threshold]_vars

\* Once open it stays open for open_seconds, less what the clock reading of
\* the opening thread was stale by when it got the mutex.
StaysOpen == [][open /\ ~open' => openFor + MaxDelay >= OpenSecs]_vars

\* It does not stay open for ever while there is traffic: late failures of
\* calls that were in flight cannot push the closing back.
EventuallyTried == open ~> ~open
=============================================================================
