----------------------- MODULE CircuitBreaker_proofs -----------------------
(***************************************************************************)
(* Proofs about the circuit breaker, for any number of callers, any values *)
(* of the four tunables and any bound on how stale a clock reading is.     *)
(***************************************************************************)
EXTENDS CircuitBreaker, FiniteSetTheorems, TLAPS

\* The calls that have passed the gate and have not reported yet.
InFlight == {c \in Callers : loc[c] \in {"call", "clock", "report"}}

(***************************************************************************)
(* The inductive invariant.  CountInv: a closed breaker has room for a     *)
(* failure, and what an open one still counts are the reports of calls     *)
(* admitted before it opened, of which there are at most as many as        *)
(* callers.  StreakInv: the count never exceeds the failures in a row.     *)
(* AgeInv: opened_at, although stored from a stale clock reading, is at    *)
(* most MaxDelay older than the moment of opening.                         *)
(***************************************************************************)
CountInv ==
  /\ ~open => fails < Threshold
  /\ open => fails + Cardinality(InFlight) <= Threshold + Cardinality(Callers)

StreakInv == fails <= streak \/ streak = Threshold

AgeInv == open => openAge <= openFor + MaxDelay

\* TypeOK without the bound on the count, which is a consequence of CountInv.
Typed ==
  /\ open \in BOOLEAN
  /\ fails \in Nat
  /\ windowAge \in 0..Unset
  /\ openAge \in 0..MaxOpenAge
  /\ loc \in [Callers -> {"idle", "gate", "call", "clock", "report"}]
  /\ readAge \in [Callers -> 0..MaxDelay]
  /\ attempt \in [Callers -> 0..MaxRetries]
  /\ ok \in [Callers -> BOOLEAN]
  /\ openFor \in 0..MaxOpenAge
  /\ streak \in 0..MaxStreak

BreakerInv == Typed /\ CountInv /\ StreakInv /\ AgeInv

LEMMA Counting ==
  /\ Cardinality(Callers) \in Nat
  /\ IsFiniteSet(InFlight) /\ Cardinality(InFlight) \in Nat
  /\ Cardinality(InFlight) <= Cardinality(Callers)
<1>1. InFlight \in SUBSET Callers
  BY DEF InFlight
<1>2. QED
  BY <1>1, CallersAssumption, FS_Subset, FS_CardinalityType

\* A report takes its call out of flight.
LEMMA Landing ==
  ASSUME Typed, NEW c \in Callers, loc[c] = "report",
         loc' = [loc EXCEPT ![c] = "idle"]
  PROVE  Cardinality(InFlight') = Cardinality(InFlight) - 1
<1>1. InFlight' = InFlight \ {c} /\ c \in InFlight
  BY DEF InFlight, Typed
<1>2. QED
  BY <1>1, Counting, FS_RemoveElement

LEMMA TypedStep == Typed /\ [Next]_vars => Typed'
<1> SUFFICES ASSUME Typed, [Next]_vars PROVE Typed'
  OBVIOUS
<1> USE TunablesAssumption DEF Typed, MaxWindowAge, MaxOpenAge, Unset, MaxStreak
<1>1. CASE Tick
  <2>1. readAge' \in [Callers -> 0..MaxDelay]
    BY <1>1 DEF Tick
  <2>2. windowAge' \in 0..Unset /\ openAge' \in 0..MaxOpenAge /\ openFor' \in 0..MaxOpenAge
    BY <1>1 DEF Tick, Older
  <2>3. QED
    BY <1>1, <2>1, <2>2 DEF Tick
<1>2. ASSUME NEW c \in Callers, Step(c) PROVE Typed'
  <2>1. CASE ReadClock(c) \/ ShortCircuit(c) \/ ReadClockAgain(c)
    BY <2>1 DEF ReadClock, ShortCircuit, ReadClockAgain, breaker, history
  <2>2. CASE Admit(c)
    <3>1. windowAge' \in 0..Unset /\ fails' \in Nat
      BY <2>2 DEF Admit
    <3>2. /\ loc' \in [Callers -> {"idle", "gate", "call", "clock", "report"}]
          /\ attempt' \in [Callers -> 0..MaxRetries]
      BY <2>2 DEF Admit
    <3>3. QED
      BY <2>2, <3>1, <3>2 DEF Admit, history
  <2>3. ASSUME NEW success \in BOOLEAN, Request(c, success) PROVE Typed'
    BY <2>3 DEF Request, breaker, history
  <2>4. CASE OnSuccess(c)
    BY <2>4 DEF OnSuccess, Reported
  <2>5. CASE OnFailure(c)
    <3>1. /\ fails' \in Nat /\ windowAge' \in 0..Unset /\ openAge' \in 0..MaxOpenAge
          /\ openFor' \in 0..MaxOpenAge /\ streak' \in 0..MaxStreak
      BY <2>5 DEF OnFailure, Older
    <3>2. /\ loc' \in [Callers -> {"idle", "gate", "call", "clock", "report"}]
          /\ UNCHANGED <<readAge, attempt, ok>>
      BY <2>5 DEF OnFailure, Reported
    <3>3. open' \in BOOLEAN
      BY <2>5 DEF OnFailure
    <3>4. QED
      BY <3>1, <3>2, <3>3
  <2>6. QED
    BY <1>2, <2>1, <2>2, <2>3, <2>4, <2>5 DEF Step
<1>3. CASE UNCHANGED vars
  BY <1>3 DEF vars, breaker, caller, history
<1>4. QED
  BY <1>1, <1>2, <1>3 DEF Next

\* What a failure report does to the count, in one place.
LEMMA FailureEffect ==
  ASSUME BreakerInv, NEW c \in Callers, OnFailure(c)
  PROVE  /\ fails' <= fails + 1 /\ fails' >= 1
         /\ \/ open /\ open' /\ openAge' = openAge /\ openFor' = openFor
            \/ ~open /\ ~open' /\ fails' < Threshold
            \/ /\ ~open /\ open' /\ fails' = Threshold
               /\ openAge' = readAge[c] /\ openFor' = 0
         /\ loc[c] = "report" /\ loc' = [loc EXCEPT ![c] = "idle"]
         /\ streak' = IF streak < Threshold THEN streak + 1 ELSE streak
<1>1. fails \in Nat /\ (~open => fails < Threshold) /\ Threshold \in Nat \ {0}
  BY TunablesAssumption DEF BreakerInv, Typed, CountInv
<1>2. DEFINE n == IF WindowOver(c) THEN 1 ELSE fails + 1
             opens == ~open /\ n >= Threshold
<1>3. n \in Nat /\ n <= fails + 1 /\ n >= 1
  BY <1>1
<1>4. /\ fails' = n
      /\ open' = (open \/ opens)
      /\ openAge' = IF opens THEN readAge[c] ELSE openAge
      /\ openFor' = IF opens THEN 0 ELSE openFor
  BY DEF OnFailure
<1>5. /\ loc[c] = "report" /\ loc' = [loc EXCEPT ![c] = "idle"]
      /\ streak' = IF streak < Threshold THEN streak + 1 ELSE streak
  BY DEF OnFailure, Reported, Older, MaxStreak
<1> HIDE DEF n, opens
<1>6. CASE open
  <2>1. ~opens /\ open'
    BY <1>4, <1>6 DEF opens
  <2>2. QED
    BY <1>3, <1>4, <1>5, <1>6, <2>1
<1>7. CASE ~open /\ ~opens
  <2>1. ~open'
    BY <1>4, <1>7
  <2>2. n < Threshold
    BY <1>1, <1>3, <1>7 DEF opens
  <2>3. QED
    BY <1>3, <1>4, <1>5, <1>7, <2>1, <2>2
<1>8. CASE ~open /\ opens
  <2>1. open'
    BY <1>4, <1>8
  <2>2. n = Threshold
    BY <1>1, <1>3, <1>8 DEF opens
  <2>3. QED
    BY <1>3, <1>4, <1>5, <1>8, <2>1, <2>2
<1>9. QED
  BY <1>6, <1>7, <1>8

\* Only a report, the gate and the clock touch the count, the streak and the
\* ages; every other step leaves them, and who is in flight, or takes nobody
\* into flight.
LEMMA QuietStep ==
  ASSUME BreakerInv, NEW c \in Callers,
         \/ ReadClock(c) \/ ShortCircuit(c) \/ ReadClockAgain(c)
         \/ \E success \in BOOLEAN : Request(c, success)
  PROVE  UNCHANGED <<open, fails, openAge, openFor, streak>> /\ InFlight' = InFlight
<1>1. CASE ReadClock(c) \/ ShortCircuit(c) \/ ReadClockAgain(c)
  BY <1>1 DEF ReadClock, ShortCircuit, ReadClockAgain, breaker, history, InFlight,
              BreakerInv, Typed
<1>2. ASSUME NEW success \in BOOLEAN, Request(c, success)
      PROVE  UNCHANGED <<open, fails, openAge, openFor, streak>> /\ InFlight' = InFlight
  BY <1>2 DEF Request, breaker, history, InFlight, BreakerInv, Typed
<1>3. QED
  BY <1>1, <1>2

LEMMA CountStep == BreakerInv /\ [Next]_vars => CountInv'
<1> SUFFICES ASSUME BreakerInv, [Next]_vars PROVE CountInv'
  OBVIOUS
<1>1. /\ Threshold \in Nat \ {0} /\ fails \in Nat
      /\ Cardinality(Callers) \in Nat
      /\ Cardinality(InFlight) \in Nat /\ Cardinality(InFlight') \in Nat
      /\ Cardinality(InFlight') <= Cardinality(Callers)
  <2>1. (Cardinality(InFlight) \in Nat /\ Cardinality(InFlight) <= Cardinality(Callers))'
    BY Counting, PTL
  <2>2. QED
    BY <2>1, Counting, TunablesAssumption DEF BreakerInv, Typed
<1>2. CASE Tick \/ UNCHANGED vars
  <2>1. UNCHANGED <<open, fails, loc>>
    BY <1>2 DEF Tick, vars, breaker, caller
  <2>2. QED
    BY <2>1 DEF BreakerInv, CountInv, InFlight
<1>3. ASSUME NEW c \in Callers, Step(c) PROVE CountInv'
  <2>1. CASE \/ ReadClock(c) \/ ShortCircuit(c) \/ ReadClockAgain(c)
             \/ \E success \in BOOLEAN : Request(c, success)
    BY <2>1, QuietStep DEF BreakerInv, CountInv
  <2>2. CASE Admit(c)
    BY <1>1, <2>2 DEF Admit, BreakerInv, CountInv
  <2>3. CASE OnSuccess(c)
    <3>1. fails' = 0 /\ open' = open
      BY <2>3 DEF OnSuccess
    <3>2. QED
      BY <1>1, <3>1 DEF CountInv
  <2>4. CASE OnFailure(c)
    <3>1. Cardinality(InFlight') = Cardinality(InFlight) - 1
      BY <2>4, FailureEffect, Landing DEF BreakerInv
    <3>2. CASE open
      <4>1. open' /\ fails' <= fails + 1 /\ fails' \in Nat
        BY <2>4, <3>2, FailureEffect, TypedStep DEF BreakerInv, Typed
      <4>2. QED
        BY <1>1, <3>1, <3>2, <4>1 DEF BreakerInv, CountInv
    <3>3. CASE ~open
      BY <1>1, <2>4, <3>3, FailureEffect DEF CountInv
    <3>4. QED
      BY <3>2, <3>3
  <2>5. QED
    BY <1>3, <2>1, <2>2, <2>3, <2>4 DEF Step
<1>4. QED
  BY <1>2, <1>3 DEF Next

LEMMA StreakStep == BreakerInv /\ [Next]_vars => StreakInv'
<1> SUFFICES ASSUME BreakerInv, [Next]_vars PROVE StreakInv'
  OBVIOUS
<1>1. Threshold \in Nat \ {0} /\ fails \in Nat /\ streak \in 0..Threshold
  BY TunablesAssumption DEF BreakerInv, Typed, MaxStreak
<1>2. CASE Tick \/ UNCHANGED vars
  BY <1>2 DEF Tick, vars, breaker, history, BreakerInv, StreakInv
<1>3. ASSUME NEW c \in Callers, Step(c) PROVE StreakInv'
  <2>1. CASE \/ ReadClock(c) \/ ShortCircuit(c) \/ ReadClockAgain(c)
             \/ \E success \in BOOLEAN : Request(c, success)
    BY <2>1, QuietStep DEF BreakerInv, StreakInv
  <2>2. CASE Admit(c)
    BY <1>1, <2>2 DEF Admit, history, BreakerInv, StreakInv
  <2>3. CASE OnSuccess(c)
    BY <2>3 DEF OnSuccess, StreakInv
  <2>4. CASE OnFailure(c)
    <3>1. /\ fails' <= fails + 1 /\ fails' \in Nat
          /\ streak' = IF streak < Threshold THEN streak + 1 ELSE streak
      BY <2>4, FailureEffect, TypedStep DEF BreakerInv, Typed
    <3>2. QED
      BY <1>1, <3>1 DEF BreakerInv, StreakInv
  <2>5. QED
    BY <1>3, <2>1, <2>2, <2>3, <2>4 DEF Step
<1>4. QED
  BY <1>2, <1>3 DEF Next

LEMMA AgeStep == BreakerInv /\ [Next]_vars => AgeInv'
<1> SUFFICES ASSUME BreakerInv, [Next]_vars PROVE AgeInv'
  OBVIOUS
<1>1. /\ MaxDelay \in Nat /\ OpenSecs \in Nat
      /\ openAge \in 0..(OpenSecs + MaxDelay) /\ openFor \in 0..(OpenSecs + MaxDelay)
  BY TunablesAssumption DEF BreakerInv, Typed, MaxOpenAge
<1>2. CASE Tick
  BY <1>1, <1>2 DEF Tick, Older, MaxOpenAge, BreakerInv, AgeInv
<1>3. ASSUME NEW c \in Callers, Step(c) PROVE AgeInv'
  <2>1. CASE \/ ReadClock(c) \/ ShortCircuit(c) \/ ReadClockAgain(c)
             \/ \E success \in BOOLEAN : Request(c, success)
    BY <2>1, QuietStep DEF BreakerInv, AgeInv
  <2>2. CASE Admit(c)
    BY <2>2 DEF Admit, AgeInv
  <2>3. CASE OnSuccess(c)
    BY <2>3 DEF OnSuccess, BreakerInv, AgeInv
  <2>4. CASE OnFailure(c)
    <3>1. readAge[c] \in 0..MaxDelay
      BY DEF BreakerInv, Typed
    <3>2. QED
      BY <1>1, <2>4, <3>1, FailureEffect DEF BreakerInv, AgeInv
  <2>5. QED
    BY <1>3, <2>1, <2>2, <2>3, <2>4 DEF Step
<1>4. CASE UNCHANGED vars
  BY <1>4 DEF vars, breaker, history, BreakerInv, AgeInv
<1>5. QED
  BY <1>2, <1>3, <1>4 DEF Next

\* The invariant holds whatever reports, gates and seconds interleave.
LEMMA BreakerInductive == Spec => []BreakerInv
<1>1. Init => BreakerInv
  <2> SUFFICES ASSUME Init PROVE BreakerInv
    OBVIOUS
  <2>1. Typed
    <3>1. /\ loc \in [Callers -> {"idle", "gate", "call", "clock", "report"}]
          /\ readAge \in [Callers -> 0..MaxDelay]
          /\ attempt \in [Callers -> 0..MaxRetries]
          /\ ok \in [Callers -> BOOLEAN]
      BY TunablesAssumption DEF Init
    <3>2. /\ fails \in Nat /\ windowAge \in 0..Unset /\ openAge \in 0..MaxOpenAge
          /\ openFor \in 0..MaxOpenAge /\ streak \in 0..MaxStreak
      BY TunablesAssumption DEF Init, MaxStreak, Unset, MaxWindowAge, MaxOpenAge
    <3>3. QED
      BY <3>1, <3>2 DEF Init, Typed
  <2>2. ~open /\ fails = 0 /\ streak = 0
    BY DEF Init
  <2>3. QED
    BY <2>1, <2>2, TunablesAssumption DEF BreakerInv, CountInv, StreakInv, AgeInv
<1>2. BreakerInv /\ [Next]_vars => BreakerInv'
  BY TypedStep, CountStep, StreakStep, AgeStep DEF BreakerInv
<1>3. QED
  BY <1>1, <1>2, PTL DEF Spec
-----------------------------------------------------------------------------
(* The theorems *)

\* The state is well typed.  The bound on failure_count, which the code does
\* not cap, is the point: once the breaker is open only calls admitted before
\* that still count, at most one a caller (cb_on_result).
THEOREM BreakerTypes == Spec => []TypeOK
<1>1. BreakerInv => TypeOK
  <2> SUFFICES ASSUME BreakerInv PROVE TypeOK
    OBVIOUS
  <2>1. fails \in 0..(Threshold + Cardinality(Callers))
    BY Counting, TunablesAssumption DEF BreakerInv, Typed, CountInv
  <2>2. QED
    BY <2>1 DEF BreakerInv, Typed, TypeOK
<1>2. QED
  BY <1>1, BreakerInductive, PTL

\* A closed breaker is below the threshold: no interleaving of reports takes
\* the count past it without opening (cb_on_result).
THEOREM BelowThreshold == Spec => []ClosedBelowThreshold
<1>1. BreakerInv => ClosedBelowThreshold
  BY DEF BreakerInv, CountInv, ClosedBelowThreshold
<1>2. QED
  BY <1>1, BreakerInductive, PTL

\* Only failure_threshold failures in a row, without a success of any thread
\* between them, open the breaker.
THEOREM StreakOpens == Spec => OpensOnStreak
<1>1. BreakerInv /\ BreakerInv' /\ [Next]_vars
      => [~open /\ open' => streak' >= Threshold]_vars
  <2> SUFFICES ASSUME BreakerInv, BreakerInv', [Next]_vars, ~open, open'
               PROVE  streak' >= Threshold
    OBVIOUS
  <2>1. PICK c \in Callers : Step(c)
    BY DEF Next, Tick, vars, breaker
  <2>2. OnFailure(c)
    <3>1. CASE \/ ReadClock(c) \/ ShortCircuit(c) \/ ReadClockAgain(c)
               \/ \E success \in BOOLEAN : Request(c, success)
      BY <3>1, QuietStep
    <3>2. CASE Admit(c) \/ OnSuccess(c)
      BY <3>2 DEF Admit, OnSuccess
    <3>3. QED
      BY <2>1, <3>1, <3>2 DEF Step
  <2>3. fails' = Threshold
    BY <2>2, FailureEffect
  <2>4. QED
    BY <2>3, TunablesAssumption DEF BreakerInv, Typed, StreakInv, MaxStreak
<1>2. QED
  BY <1>1, BreakerInductive, PTL DEF Spec, OpensOnStreak

\* An open breaker closes only when open_seconds have passed, less the
\* staleness of the clock reading stored in opened_at: late failure reports
\* and stale gates do not close it sooner (cb_should_short_circuit).
THEOREM StaysOpenLongEnough == Spec => StaysOpen
<1>1. BreakerInv /\ [Next]_vars => [open /\ ~open' => openFor + MaxDelay >= OpenSecs]_vars
  <2> SUFFICES ASSUME BreakerInv, [Next]_vars, open, ~open'
               PROVE  openFor + MaxDelay >= OpenSecs
    OBVIOUS
  <2>1. PICK c \in Callers : Step(c)
    BY DEF Next, Tick, vars, breaker
  <2>2. Admit(c)
    <3>1. CASE \/ ReadClock(c) \/ ShortCircuit(c) \/ ReadClockAgain(c)
               \/ \E success \in BOOLEAN : Request(c, success)
      BY <3>1, QuietStep
    <3>2. CASE OnSuccess(c)
      BY <3>2 DEF OnSuccess
    <3>3. CASE OnFailure(c)
      BY <3>3, FailureEffect
    <3>4. QED
      BY <2>1, <3>1, <3>2, <3>3 DEF Step
  <2>3. /\ MaxDelay \in Nat /\ OpenSecs \in Nat /\ readAge[c] \in 0..MaxDelay
        /\ openAge \in 0..(OpenSecs + MaxDelay) /\ openFor \in 0..(OpenSecs + MaxDelay)
    BY TunablesAssumption DEF BreakerInv, Typed, MaxOpenAge
  <2>4. openAge - readAge[c] >= OpenSecs
    BY <2>2, <2>3 DEF Admit, StillOpen
  <2>5. QED
    BY <2>3, <2>4 DEF BreakerInv, AgeInv
<1>2. QED
  BY <1>1, BreakerInductive, PTL DEF Spec, StaysOpen
=============================================================================
