------------------------ MODULE RiskVelocity_proofs ------------------------
(***************************************************************************)
(* Proofs about the velocity limiter, for any number of workers, cards and *)
(* entries, any limit and any window.                                      *)
(*                                                                         *)
(* The type invariant says that no worker ever uses entry -1; it is        *)
(* inductive together with what a worker that is evaluating a request has  *)
(* in its locals.  The bound on bursts and the justification of a decline  *)
(* rest on LimiterInv: whose requests the count of an entry stands for     *)
(* (CountInv, under any interleaving), and, while evaluations run one at a *)
(* time, how the requests that were allowed lie around the start of the    *)
(* entry's window (Settled).                                               *)
(***************************************************************************)
EXTENDS RiskVelocity, FiniteSetTheorems, TLAPS

\* A worker that evaluates a request has its card, and the second it read.
BusyInv ==
  \A w \in Workers : loc[w] # "idle" => card[w] \in Cards /\ clock[w] \in Seconds

IndInv == TypeOK /\ BusyInv

EntryType == [pan : Cards \cup {NoCard}, start : 0..MaxTime, count : Nat]

ProbeType == [now : 0..MaxTime, i : 1..(Cap + 1), free : 0..Cap,
              oldest : 0..MaxTime, oldestIdx : 0..Cap]

Histories == [Cards -> [Seconds -> Nat]]

LEMMA BumpType ==
  ASSUME NEW f \in Histories, NEW c \in Cards, NEW s \in Seconds
  PROVE  Bump(f, c, s) \in Histories
BY DEF Bump, Histories

\* vel_get returns an entry of the table, whatever the loop has found.
LEMMA VictimInTable ==
  ASSUME NEW p \in ProbeType PROVE Victim(p) \in Slots
<1>1. p.free \in 0..Cap /\ p.oldestIdx \in 0..Cap /\ Cap \in Nat \ {0}
  BY RiskAssumption DEF ProbeType
<1>2. QED
  BY <1>1 DEF Victim, Slots, None

LEMMA Bounds == Cap \in Nat \ {0} /\ MaxTime \in Nat \ {0} /\ 1 \in Seconds
BY RiskAssumption DEF Seconds

LEMMA ProbeStart ==
  ASSUME NEW n \in 0..MaxTime
  PROVE  NoProbe \in ProbeType /\ [NoProbe EXCEPT !.now = n, !.oldest = n] \in ProbeType
<1>1. 0 \in 0..MaxTime /\ 1 \in 1..(Cap + 1) /\ 0 \in 0..Cap
  BY Bounds
<1>2. NoProbe \in ProbeType
  BY <1>1 DEF NoProbe, ProbeType, None
<1>3. [NoProbe EXCEPT !.now = n, !.oldest = n] \in ProbeType
  BY <1>2 DEF ProbeType
<1>4. QED
  BY <1>2, <1>3

LEMMA EmptyType == Empty \in EntryType
BY Bounds DEF Empty, EntryType

LEMMA InitInd == Init => IndInv
<1> SUFFICES ASSUME Init PROVE IndInv
  OBVIOUS
<1>1. NoProbe \in ProbeType /\ Empty \in EntryType
  <2>1. 0 \in 0..MaxTime
    BY Bounds
  <2>2. QED
    BY <2>1, ProbeStart, EmptyType
<1>2. table \in [Slots -> EntryType] /\ probe \in [Workers -> ProbeType]
  BY <1>1 DEF Init
<1>3. overlapped \in BOOLEAN /\ straddled \in BOOLEAN
  BY DEF Init
<1>4. asked \in [Cards -> [Seconds -> Nat]] /\ allowed \in [Cards -> [Seconds -> Nat]]
  BY DEF Init
<1>5. TypeOK
  BY <1>2, <1>3, <1>4, Bounds DEF Init, TypeOK, EntryType, ProbeType, Locations, None, Seconds
<1>6. QED
  BY <1>5 DEF Init, IndInv, BusyInv

\* A store to the entry a worker holds keeps the table's type.
LEMMA StoreType ==
  ASSUME TypeOK, NEW w \in Workers, NEW e \in EntryType, Store(w, e)
  PROVE  table' \in [Slots -> EntryType]
BY DEF TypeOK, Store, EntryType

LEMMA IndStep == IndInv /\ [Next]_vars => IndInv'
<1> SUFFICES ASSUME IndInv, [Next]_vars PROVE IndInv'
  OBVIOUS
<1>0. /\ now \in Seconds /\ table \in [Slots -> EntryType] /\ loc \in [Workers -> Locations]
      /\ card \in [Workers -> Cards \cup {NoCard}] /\ clock \in [Workers -> 0..MaxTime]
      /\ probe \in [Workers -> ProbeType] /\ slot \in [Workers -> 0..Cap]
      /\ \A w \in Workers : slot[w] = None => loc[w] \in {"idle", "enter", "scan"}
      /\ read \in [Workers -> Nat] /\ verdict \in [Workers -> {"none", "allow", "decline"}]
      /\ asked \in Histories /\ allowed \in Histories /\ owners \in [Slots -> SUBSET Cards]
      /\ overlapped \in BOOLEAN /\ straddled \in BOOLEAN /\ BusyInv /\ TypeOK
  BY DEF IndInv, TypeOK, EntryType, ProbeType, Histories
<1>a. ASSUME NEW w \in Workers, loc[w] \notin {"idle", "enter", "scan"}
      PROVE  slot[w] \in Slots /\ Entry(w) \in EntryType
  <2>1. slot[w] \in 0..Cap /\ slot[w] # 0
    BY <1>0, <1>a DEF None
  <2>2. slot[w] \in Slots
    BY <2>1, Bounds DEF Slots
  <2>3. QED
    BY <1>0, <2>2 DEF Entry
<1>b. Seconds \subseteq 0..MaxTime
  BY Bounds DEF Seconds
\* What is shown of each step: the variables it may change keep their types.
<1> DEFINE Good == /\ now' \in Seconds /\ table' \in [Slots -> EntryType]
                   /\ loc' \in [Workers -> Locations]
                   /\ card' \in [Workers -> Cards \cup {NoCard}]
                   /\ clock' \in [Workers -> 0..MaxTime]
                   /\ probe' \in [Workers -> ProbeType] /\ slot' \in [Workers -> 0..Cap]
                   /\ \A w \in Workers : slot'[w] = None => loc'[w] \in {"idle", "enter", "scan"}
                   /\ read' \in [Workers -> Nat]
                   /\ verdict' \in [Workers -> {"none", "allow", "decline"}]
                   /\ asked' \in Histories /\ allowed' \in Histories
                   /\ owners' \in [Slots -> SUBSET Cards]
                   /\ overlapped' \in BOOLEAN /\ straddled' \in BOOLEAN
                   /\ BusyInv'
<1> SUFFICES Good
  BY DEF IndInv, TypeOK, EntryType, ProbeType, Histories
<1>1. ASSUME NEW w \in Workers, NEW c \in Cards, Evaluate(w, c) PROVE Good
  <2>1. asked' \in Histories
    BY <1>0, <1>1, BumpType DEF Evaluate
  <2>2. overlapped' \in BOOLEAN
    BY <1>1 DEF Evaluate
  <2>3. /\ card' = [card EXCEPT ![w] = c] /\ clock' = [clock EXCEPT ![w] = now]
        /\ verdict' = [verdict EXCEPT ![w] = "none"] /\ loc' = [loc EXCEPT ![w] = "enter"]
        /\ UNCHANGED <<now, table, probe, slot, read, allowed, owners, straddled>>
    BY <1>1 DEF Evaluate, Goto
  <2>4. card' \in [Workers -> Cards \cup {NoCard}] /\ clock' \in [Workers -> 0..MaxTime]
        /\ loc' \in [Workers -> Locations] /\ verdict' \in [Workers -> {"none", "allow", "decline"}]
    BY <1>0, <1>b, <2>3 DEF Locations
  <2>5. BusyInv'
    BY <1>0, <2>3 DEF BusyInv
  <2>6. \A u \in Workers : slot'[u] = None => loc'[u] \in {"idle", "enter", "scan"}
    BY <1>0, <2>3
  <2>7. QED
    BY <1>0, <2>1, <2>2, <2>3, <2>4, <2>5, <2>6
<1>2. ASSUME NEW w \in Workers, Enter(w) PROVE Good
  <2> DEFINE p == [NoProbe EXCEPT !.now = now, !.oldest = now]
  <2>1. p \in ProbeType
    BY <1>0, <1>b, ProbeStart
  <2> HIDE DEF p
  <2>2. /\ probe' = [probe EXCEPT ![w] = p] /\ loc' = [loc EXCEPT ![w] = "scan"]
        /\ loc[w] = "enter"
        /\ UNCHANGED <<now, table, card, clock, slot, read, verdict, asked, allowed, owners,
                       overlapped, straddled>>
    BY <1>2 DEF Enter, Goto, history, p
  <2>3. probe' \in [Workers -> ProbeType]
    BY <1>0, <2>1, <2>2
  <2>4. loc' \in [Workers -> Locations] /\ BusyInv'
    BY <1>0, <2>2 DEF Locations, BusyInv
  <2>5. QED
    BY <1>0, <2>2, <2>3, <2>4
<1>3. ASSUME NEW w \in Workers, Probe(w) PROVE Good
  <2> DEFINE p == probe[w]
             e == table[p.i]
  <2>1. /\ p \in ProbeType /\ loc[w] = "scan" /\ p.i \in Slots
        /\ UNCHANGED <<now, table, card, clock, read, verdict, asked, allowed, owners,
                       overlapped, straddled>>
    BY <1>0, <1>3, Bounds DEF Probe, history, ProbeType, Slots
  <2>2. e \in EntryType
    BY <1>0, <2>1
  <2>3. CASE slot' = [slot EXCEPT ![w] = p.i] /\ probe' = [probe EXCEPT ![w] = NoProbe]
             /\ loc' = [loc EXCEPT ![w] = "window"]
    <3>1. probe' \in [Workers -> ProbeType]
      BY <1>0, <2>3, Bounds, ProbeStart
    <3>2. slot' \in [Workers -> 0..Cap] /\ p.i # None
      BY <1>0, <2>1, <2>3, Bounds DEF Slots, None
    <3>3. loc' \in [Workers -> Locations] /\ BusyInv'
      BY <1>0, <2>1, <2>3 DEF Locations, BusyInv
    <3>4. \A u \in Workers : slot'[u] = None => loc'[u] \in {"idle", "enter", "scan"}
      BY <1>0, <2>3, <3>2
    <3>5. QED
      BY <1>0, <2>1, <3>1, <3>2, <3>3, <3>4
  <2>4. ASSUME NEW q \in ProbeType, probe' = [probe EXCEPT ![w] = q], UNCHANGED <<slot, loc>>
        PROVE  Good
    <3>1. probe' \in [Workers -> ProbeType]
      BY <1>0, <2>4
    <3>2. BusyInv'
      BY <1>0, <2>1, <2>4 DEF BusyInv
    <3>3. QED
      BY <1>0, <2>1, <2>4, <3>1, <3>2
  <2>5. ASSUME probe' = [probe EXCEPT ![w].i = @ + 1, ![w].free = IF @ = None THEN p.i ELSE @]
        PROVE  \E q \in ProbeType : probe' = [probe EXCEPT ![w] = q]
    <3> DEFINE q == [p EXCEPT !.i = p.i + 1, !.free = IF p.free = None THEN p.i ELSE p.free]
    <3>1. q \in ProbeType
      <4>1. /\ p.i + 1 \in 1..(Cap + 1)
            /\ (IF p.free = None THEN p.i ELSE p.free) \in 0..Cap
        BY <2>1, Bounds DEF ProbeType, Slots
      <4>2. QED
        BY <2>1, <4>1 DEF ProbeType
    <3>2. probe' = [probe EXCEPT ![w] = q]
      BY <1>0, <2>1, <2>5 DEF ProbeType
    <3>3. QED
      BY <3>1, <3>2
  <2>6. /\ [p EXCEPT !.i = p.i + 1, !.oldest = e.start, !.oldestIdx = p.i] \in ProbeType
        /\ [p EXCEPT !.i = p.i + 1] \in ProbeType
    <3>1. p.i + 1 \in 1..(Cap + 1) /\ p.i \in 0..Cap /\ e.start \in 0..MaxTime
      BY <2>1, <2>2, Bounds DEF EntryType, Slots
    <3>2. QED
      BY <2>1, <3>1 DEF ProbeType
  <2>7. QED
    BY <1>3, <2>3, <2>4, <2>5, <2>6 DEF Probe, Goto
<1>4. ASSUME NEW w \in Workers, NotFound(w) PROVE Good
  <2>1. Victim(probe[w]) \in Slots
    BY <1>0, VictimInTable
  <2>2. /\ slot' = [slot EXCEPT ![w] = Victim(probe[w])] /\ loc' = [loc EXCEPT ![w] = "clear"]
        /\ loc[w] = "scan"
        /\ UNCHANGED <<now, table, card, clock, probe, read, verdict, asked, allowed, owners,
                       overlapped, straddled>>
    BY <1>4 DEF NotFound, Goto, history
  <2>3. Victim(probe[w]) \in 0..Cap /\ Victim(probe[w]) # None
    BY <2>1, Bounds DEF Slots, None
  <2>4. slot' \in [Workers -> 0..Cap] /\ loc' \in [Workers -> Locations] /\ BusyInv'
    BY <1>0, <2>2, <2>3 DEF Locations, BusyInv
  <2>5. \A u \in Workers : slot'[u] = None => loc'[u] \in {"idle", "enter", "scan"}
    BY <1>0, <2>2, <2>3
  <2>6. QED
    BY <1>0, <2>2, <2>4, <2>5
\* The steps that store to the entry the worker holds.
<1>5. ASSUME NEW w \in Workers, NEW e \in EntryType, Store(w, e),
             loc[w] \notin {"idle", "enter", "scan"},
             NEW next \in Locations, next # "idle", loc' = [loc EXCEPT ![w] = next],
             owners' \in [Slots -> SUBSET Cards], probe' \in [Workers -> ProbeType]
      PROVE  Good
  <2>1. /\ table' \in [Slots -> EntryType]
        /\ UNCHANGED <<now, card, clock, slot, read, verdict, asked, allowed, overlapped, straddled>>
    BY <1>0, <1>5, StoreType DEF Store
  <2>2. loc' \in [Workers -> Locations] /\ BusyInv'
    BY <1>0, <1>5, <2>1 DEF BusyInv
  <2>3. \A u \in Workers : slot'[u] = None => loc'[u] \in {"idle", "enter", "scan"}
    BY <1>0, <1>5, <2>1
  <2>4. QED
    BY <1>0, <1>5, <2>1, <2>2, <2>3
<1>6. ASSUME NEW w \in Workers, Clear(w) PROVE Good
  BY <1>0, <1>5, <1>6, EmptyType DEF Clear, Goto, Locations
<1>7. ASSUME NEW w \in Workers, Name(w) PROVE Good
  <2>1. loc[w] = "name" /\ slot[w] \in Slots /\ Entry(w) \in EntryType /\ card[w] \in Cards
    BY <1>0, <1>7, <1>a DEF Name, BusyInv
  <2>2. [Entry(w) EXCEPT !.pan = card[w]] \in EntryType
    BY <2>1 DEF EntryType
  <2>3. owners' \in [Slots -> SUBSET Cards]
    BY <1>0, <1>7, <2>1 DEF Name
  <2>4. QED
    BY <1>0, <1>5, <1>7, <2>1, <2>2, <2>3 DEF Name, Goto, Locations
<1>8. ASSUME NEW w \in Workers, Stamp(w) PROVE Good
  <2>1. loc[w] = "stamp" /\ Entry(w) \in EntryType /\ probe[w].now \in 0..MaxTime
    BY <1>0, <1>8, <1>a DEF Stamp, ProbeType
  <2>2. [Entry(w) EXCEPT !.start = probe[w].now] \in EntryType
    BY <2>1 DEF EntryType
  <2>3. probe' \in [Workers -> ProbeType]
    BY <1>0, <1>8, Bounds, ProbeStart DEF Stamp
  <2>4. QED
    BY <1>0, <1>5, <1>8, <2>1, <2>2, <2>3 DEF Stamp, Goto, Locations
<1>9. ASSUME NEW w \in Workers, Zero(w) \/ Reset(w) PROVE Good
  <2>1. loc[w] \in {"zero", "reset"} /\ Entry(w) \in EntryType
    BY <1>0, <1>9, <1>a DEF Zero, Reset
  <2>2. [Entry(w) EXCEPT !.count = 0] \in EntryType
    BY <2>1 DEF EntryType
  <2>3. QED
    BY <1>0, <1>5, <1>9, <2>1, <2>2 DEF Zero, Reset, Goto, Locations
<1>10. ASSUME NEW w \in Workers, SameWindow(w) PROVE Good
  <2>1. /\ loc[w] = "window" /\ loc' = [loc EXCEPT ![w] = "count"]
        /\ UNCHANGED <<now, table, card, clock, probe, slot, read, verdict, asked, allowed, owners,
                       overlapped, straddled>>
    BY <1>10 DEF SameWindow, Goto, history
  <2>2. loc' \in [Workers -> Locations] /\ BusyInv'
    BY <1>0, <2>1 DEF Locations, BusyInv
  <2>3. QED
    BY <1>0, <2>1, <2>2
<1>11. ASSUME NEW w \in Workers, NewWindow(w) PROVE Good
  <2>1. loc[w] = "window" /\ Entry(w) \in EntryType /\ clock[w] \in 0..MaxTime
    BY <1>0, <1>11, <1>a DEF NewWindow
  <2>2. [Entry(w) EXCEPT !.start = clock[w]] \in EntryType
    BY <2>1 DEF EntryType
  <2>3. QED
    BY <1>0, <1>5, <1>11, <2>1, <2>2 DEF NewWindow, Goto, Locations
<1>12. ASSUME NEW w \in Workers, CountRead(w) PROVE Good
  <2>1. /\ loc[w] = "count" /\ loc' = [loc EXCEPT ![w] = "add"]
        /\ read' = [read EXCEPT ![w] = Entry(w).count]
        /\ UNCHANGED <<now, table, card, clock, probe, slot, verdict, asked, allowed, owners,
                       overlapped, straddled>>
    BY <1>12 DEF CountRead, Goto, history
  <2>2. Entry(w).count \in Nat
    BY <1>a, <2>1 DEF EntryType
  <2>3. read' \in [Workers -> Nat] /\ loc' \in [Workers -> Locations] /\ BusyInv'
    BY <1>0, <2>1, <2>2 DEF Locations, BusyInv
  <2>4. QED
    BY <1>0, <2>1, <2>3
<1>13. ASSUME NEW w \in Workers, CountWrite(w) PROVE Good
  <2>1. loc[w] = "add" /\ Entry(w) \in EntryType /\ read[w] + 1 \in Nat
    BY <1>0, <1>13, <1>a DEF CountWrite
  <2>2. [Entry(w) EXCEPT !.count = read[w] + 1] \in EntryType
    BY <2>1 DEF EntryType
  <2>3. QED
    BY <1>0, <1>5, <1>13, <2>1, <2>2 DEF CountWrite, Goto, Locations
<1>14. ASSUME NEW w \in Workers, Decide(w) PROVE Good
  <2>1. /\ loc[w] = "decide" /\ loc' = [loc EXCEPT ![w] = "idle"]
        /\ slot' = [slot EXCEPT ![w] = None] /\ read' = [read EXCEPT ![w] = 0]
        /\ UNCHANGED <<now, table, card, clock, probe, asked, owners, overlapped, straddled>>
    BY <1>14 DEF Decide, Goto
  <2>2. card[w] \in Cards /\ clock[w] \in Seconds
    BY <1>0, <2>1 DEF BusyInv
  <2>3. Bump(allowed, card[w], clock[w]) \in Histories
    BY <1>0, <2>2, BumpType
  <2>4. allowed' \in Histories
    BY <1>0, <1>14, <2>3 DEF Decide
  <2>5. verdict' \in [Workers -> {"none", "allow", "decline"}]
    BY <1>0, <1>14 DEF Decide
  <2>6. /\ loc' \in [Workers -> Locations] /\ BusyInv' /\ read' \in [Workers -> Nat]
    BY <1>0, <2>1 DEF Locations, BusyInv
  <2>7. slot' \in [Workers -> 0..Cap]
    BY <1>0, <2>1, Bounds DEF None
  <2>8. \A u \in Workers : slot'[u] = None => loc'[u] \in {"idle", "enter", "scan"}
    BY <1>0, <2>1
  <2>9. QED
    BY <1>0, <2>1, <2>4, <2>5, <2>6, <2>7, <2>8
<1>15. CASE Tick
  <2>1. now' \in Seconds
    BY <1>0, <1>15, Bounds DEF Tick, Seconds
  <2>2. straddled' \in BOOLEAN
    BY <1>15 DEF Tick
  <2>3. UNCHANGED <<table, loc, card, clock, probe, slot, read, verdict, asked, allowed, owners,
                    overlapped>>
    BY <1>15 DEF Tick, worker
  <2>4. BusyInv'
    BY <1>0, <2>3 DEF BusyInv
  <2>5. QED
    BY <1>0, <2>1, <2>2, <2>3, <2>4
<1>16. CASE UNCHANGED vars
  <2>1. UNCHANGED <<now, table, loc, card, clock, probe, slot, read, verdict, asked, allowed,
                    owners, overlapped, straddled>>
    BY <1>16 DEF vars, worker, history
  <2>2. QED
    BY <1>0, <2>1 DEF BusyInv
<1>17. QED
  BY <1>1, <1>2, <1>3, <1>4, <1>6, <1>7, <1>8, <1>9, <1>10, <1>11, <1>12, <1>13, <1>14, <1>15,
     <1>16 DEF Next

\* vel_get never hands out entry -1, however full the table is and however
\* the workers interleave: a worker past the scan holds an entry of the table
\* (risk.c:30-48).
THEOREM LimiterTypes == Spec => []TypeOK
<1>1. IndInv => TypeOK
  BY DEF IndInv
<1>2. QED
  BY <1>1, InitInd, IndStep, PTL DEF Spec
-----------------------------------------------------------------------------
(* Totals.  A total is the number of pairs of a second and a request's number *)
(* in it, so that the theorems on finite sets carry it and no sum is needed.  *)

Numbered(f, S) == UNION {{s} \X (1..f[s]) : s \in S}

LEMMA NumberedIs ==
  ASSUME NEW S, NEW f \in [S -> Nat], NEW T \in SUBSET S, NEW r
  PROVE  r \in Numbered(f, T) <=> \E s \in T, k \in Nat : 1 <= k /\ k <= f[s] /\ r = <<s, k>>
BY DEF Numbered

\* A total is a natural number.
LEMMA TotalFinite ==
  ASSUME NEW f \in [Seconds -> Nat], NEW T \in SUBSET Seconds
  PROVE  /\ IsFiniteSet(Numbered(f, T))
         /\ Total(f, T) = Cardinality(Numbered(f, T))
         /\ Total(f, T) \in Nat
<1> DEFINE row == [s \in T |-> {s} \X (1..f[s])]
           rows == {{s} \X (1..f[s]) : s \in T}
<1>1. IsFiniteSet(T)
  <2>1. IsFiniteSet(Seconds)
    BY RiskAssumption, FS_Interval DEF Seconds
  <2>2. QED
    BY <2>1, FS_Subset
<1>2. row \in Surjection(T, rows)
  BY DEF Surjection
<1>3. IsFiniteSet(rows)
  BY <1>1, <1>2, FS_Surjection
<1>4. ASSUME NEW R \in rows PROVE IsFiniteSet(R)
  <2>1. PICK s \in T : R = {s} \X (1..f[s])
    BY <1>4
  <2>2. IsFiniteSet({s}) /\ IsFiniteSet(1..f[s])
    <3>1. 1 \in Int /\ f[s] \in Int
      OBVIOUS
    <3>2. QED
      BY <3>1, FS_Singleton, FS_Interval
  <2>3. QED
    BY <2>1, <2>2, FS_Product
<1>5. IsFiniteSet(Numbered(f, T))
  BY <1>3, <1>4, FS_UNION DEF Numbered
<1>6. QED
  BY <1>5, FS_CardinalityType DEF Total, Numbered

\* A larger set of seconds, and more requests in each of them.
LEMMA TotalMono ==
  ASSUME NEW f \in [Seconds -> Nat], NEW g \in [Seconds -> Nat],
         NEW S \in SUBSET Seconds, NEW T \in SUBSET Seconds,
         \A s \in S : f[s] > 0 => s \in T /\ f[s] <= g[s]
  PROVE  Total(f, S) <= Total(g, T)
<1>1. Numbered(f, S) \subseteq Numbered(g, T)
  <2> SUFFICES ASSUME NEW r \in Numbered(f, S) PROVE r \in Numbered(g, T)
    OBVIOUS
  <2>1. PICK s \in S, k \in Nat : 1 <= k /\ k <= f[s] /\ r = <<s, k>>
    BY NumberedIs
  <2>2. s \in T /\ k <= g[s]
    BY <2>1
  <2>3. QED
    BY <2>1, <2>2, NumberedIs
<1>2. QED
  BY <1>1, TotalFinite, FS_Subset

\* No requests in the set.
LEMMA TotalZero ==
  ASSUME NEW f \in [Seconds -> Nat], NEW S \in SUBSET Seconds, \A s \in S : f[s] = 0
  PROVE  Total(f, S) = 0
<1>1. Numbered(f, S) = {}
  <2> SUFFICES ASSUME NEW r \in Numbered(f, S) PROVE FALSE
    OBVIOUS
  <2>1. PICK s \in S, k \in Nat : 1 <= k /\ k <= f[s] /\ r = <<s, k>>
    BY NumberedIs
  <2>2. QED
    BY <2>1
<1>2. QED
  BY <1>1, TotalFinite, FS_EmptySet

\* The requests of a union are at most those of the two sets.
LEMMA TotalUnion ==
  ASSUME NEW f \in [Seconds -> Nat], NEW S \in SUBSET Seconds, NEW T \in SUBSET Seconds
  PROVE  Total(f, S \cup T) <= Total(f, S) + Total(f, T)
<1>1. Numbered(f, S \cup T) = Numbered(f, S) \cup Numbered(f, T)
  BY DEF Numbered
<1>2. /\ IsFiniteSet(Numbered(f, S)) /\ IsFiniteSet(Numbered(f, T))
      /\ IsFiniteSet(Numbered(f, S) \cap Numbered(f, T))
  BY TotalFinite, FS_Intersection
<1>3. /\ Total(f, S \cup T) = Cardinality(Numbered(f, S) \cup Numbered(f, T))
      /\ Total(f, S) = Cardinality(Numbered(f, S)) /\ Total(f, S) \in Nat
      /\ Total(f, T) = Cardinality(Numbered(f, T)) /\ Total(f, T) \in Nat
  <2>1. S \cup T \in SUBSET Seconds
    OBVIOUS
  <2>2. QED
    BY <1>1, <2>1, TotalFinite
<1>4. Cardinality(Numbered(f, S) \cap Numbered(f, T)) \in Nat
  BY <1>2, FS_CardinalityType
<1>5. Cardinality(Numbered(f, S) \cup Numbered(f, T)) =
        Cardinality(Numbered(f, S)) + Cardinality(Numbered(f, T))
          - Cardinality(Numbered(f, S) \cap Numbered(f, T))
  BY <1>2, FS_Union
<1>6. QED
  BY <1>3, <1>4, <1>5

\* One request more.
Plus(f, t) == [f EXCEPT ![t] = @ + 1]

\* A request more in a second of the set, and only there, adds one to the total.
LEMMA TotalBump ==
  ASSUME NEW f \in [Seconds -> Nat], NEW t \in Seconds, NEW S \in SUBSET Seconds
  PROVE  /\ Plus(f, t) \in [Seconds -> Nat]
         /\ Total(Plus(f, t), S) = IF t \in S THEN Total(f, S) + 1 ELSE Total(f, S)
<1> DEFINE g == Plus(f, t)
           new == <<t, f[t] + 1>>
<1>1. g \in [Seconds -> Nat] /\ \A s \in Seconds : g[s] = IF s = t THEN f[t] + 1 ELSE f[s]
  BY DEF Plus
<1> HIDE DEF g
<1>2. ASSUME t \notin S PROVE Total(g, S) = Total(f, S)
  <2>1. Numbered(g, S) = Numbered(f, S)
    <3>1. \A s \in S : g[s] = f[s]
      BY <1>1, <1>2
    <3>2. QED
      BY <3>1 DEF Numbered
  <2>2. QED
    BY <1>1, <1>2, <2>1, TotalFinite
<1>3. ASSUME t \in S PROVE Total(g, S) = Total(f, S) + 1
  <2>1. new \notin Numbered(f, S)
    BY NumberedIs
  <2>2. ASSUME NEW r PROVE r \in Numbered(g, S) <=> r \in Numbered(f, S) \cup {new}
    <3>1. r \in Numbered(f, S) \cup {new} => r \in Numbered(g, S)
      <4>1. CASE r = new
        BY <1>1, <1>3, <4>1, NumberedIs
      <4>2. ASSUME r \in Numbered(f, S) PROVE r \in Numbered(g, S)
        <5>1. PICK s \in S, k \in Nat : 1 <= k /\ k <= f[s] /\ r = <<s, k>>
          BY <4>2, NumberedIs
        <5>2. k <= g[s]
          BY <1>1, <5>1
        <5>3. QED
          BY <1>1, <5>1, <5>2, NumberedIs
      <4>3. QED
        BY <4>1, <4>2
    <3>2. ASSUME r \in Numbered(g, S) PROVE r \in Numbered(f, S) \cup {new}
      <4>1. PICK s \in S, k \in Nat : 1 <= k /\ k <= g[s] /\ r = <<s, k>>
        BY <1>1, <3>2, NumberedIs
      <4>2. k <= f[s] \/ (s = t /\ k = f[t] + 1)
        BY <1>1, <4>1
      <4>3. QED
        BY <4>1, <4>2, NumberedIs
    <3>3. QED
      BY <3>1, <3>2
  <2>3. Numbered(g, S) = Numbered(f, S) \cup {new}
    BY <2>2
  <2>4. QED
    <3>1. Total(g, S) = Cardinality(Numbered(f, S) \cup {new})
      BY <1>1, <2>3, TotalFinite
    <3>2. IsFiniteSet(Numbered(f, S)) /\ Total(f, S) = Cardinality(Numbered(f, S))
      BY TotalFinite
    <3>3. Cardinality(Numbered(f, S) \cup {new}) = Cardinality(Numbered(f, S)) + 1
      BY <2>1, <3>2, FS_AddElement
    <3>4. QED
      BY <1>3, <3>1, <3>2, <3>3
<1>4. QED
  BY <1>1, <1>2, <1>3 DEF g

LEMMA TotalSome ==
  ASSUME NEW f \in [Seconds -> Nat], NEW S \in SUBSET Seconds, NEW t \in S, f[t] > 0
  PROVE  Total(f, S) >= 1
<1>1. <<t, 1>> \in Numbered(f, S)
  BY NumberedIs
<1>2. QED
  BY <1>1, TotalFinite, FS_EmptySet
-----------------------------------------------------------------------------
(* What holds between the steps *)

\* Entries of the table a worker uses as its own: between vel_get's memset and
\* the decision.
Working == {"name", "stamp", "zero", "window", "reset", "count", "add", "decide"}

\* Workers whose request is asked for and not yet counted.
Pending(c) == {w \in Workers : loc[w] \notin {"idle", "decide"} /\ card[w] = c}
Owed(c) == Cardinality(Pending(c))
Asked(c) == Total(asked[c], Seconds)

\* An entry's card is one of its owners, an entry nobody has owned counts
\* nothing, and a worker past vel_get's snprintf works for an owner of its entry.
OwnerInv ==
  /\ \A s \in Slots : table[s].pan # NoCard => table[s].pan \in owners[s]
  /\ \A s \in Slots : owners[s] = {} => table[s].count = 0
  /\ \A w \in Workers : loc[w] \in Working \ {"name"} => card[w] \in owners[slot[w]]

\* The requests of a card that have been counted, at most.
Counted(c) == Asked(c) - Owed(c)

\* Every request is counted at most once.
OwedInv == \A c \in Cards : IsFiniteSet(Pending(c)) /\ Counted(c) >= 0

\* While no entry is reused, the count of an entry, and what a worker has read
\* of it, is covered by requests its owner made, whatever updates were lost.
CountInv ==
  NoEntryReused =>
    /\ \A s \in Slots : \A c \in owners[s] : table[s].count <= Counted(c)
    /\ \A w \in Workers, c \in Cards : card[w] = c =>
         /\ loc[w] = "add" => read[w] <= Counted(c)
         /\ loc[w] = "decide" => read[w] + 1 <= Counted(c)

\* The first half of DeclineJustified, in the terms of CountInv.
OwnRequests ==
  NoEntryReused =>
    \A w \in Workers : verdict[w] = "decline" =>
      card[w] \in Cards /\ \A c \in Cards : card[w] = c => Asked(c) > Limit

\* Until evaluations overlap, at most one is in progress.
AloneInv == ~overlapped => \A u, v \in Busy : u = v

\* Nothing is stamped or asked for in the future; a request in progress was
\* asked for in the second it read, which is the present one until a second ends
\* during an evaluation.
TimeInv ==
  /\ \A s \in Slots : table[s].start <= now
  /\ \A c \in Cards, x \in Seconds : asked[c][x] > 0 => x <= now
  /\ \A w \in Workers :
       /\ clock[w] <= now /\ probe[w].now <= now
       /\ loc[w] \in {"scan", "clear", "name", "stamp"} => clock[w] <= probe[w].now
       /\ loc[w] # "idle" => asked[card[w]][clock[w]] > 0
       /\ ~straddled /\ loc[w] # "idle" => clock[w] = now

\* A card that owns no entry has had nothing allowed.
UnownedInv ==
  \A c \in Cards : (\A s \in Slots : c \notin owners[s]) => \A x \in Seconds : allowed[c][x] = 0

\* The seconds after t, those from t on, and those of the window that ends before t.
After(t) == {x \in Seconds : x > t}
Since(t) == {x \in Seconds : x >= t}
Before(t) == {x \in Seconds : t - Window < x /\ x < t}

\* What was allowed (f) against the entry of a card when no evaluation is in
\* progress: with the window's start st and its count n, at most n and at most
\* Limit requests were allowed since st, one less after st; what came before st
\* in the same stretch of Window seconds is less than Limit, or there is nothing
\* before st at all; and nothing was allowed after the window.
Settled(f, st, n) ==
  LET m == IF n < Limit THEN n ELSE Limit IN
  /\ n >= 1
  /\ Total(f, After(st)) + 1 <= m
  /\ Total(f, Since(st)) <= m
  /\ Total(f, Seconds) <= m \/ Total(f, Before(st)) + 1 <= Limit
  /\ \A x \in Seconds : f[x] > 0 => x < st + Window

\* A new entry: stamped not before the request, and nothing allowed.
NoneYet(f, st, t) == t <= st /\ \A x \in Seconds : f[x] = 0

\* The window was replaced: it starts now, and less than Limit requests were
\* allowed in the seconds before that a window could still hold.
NewPeriod(f, st, t) ==
  /\ st = t
  /\ \A x \in Seconds : f[x] > 0 => x < t
  /\ Total(f, Before(st)) + 1 <= Limit

\* An evaluation at t may count its request in an entry with start st and count n.
Ready(f, st, n, t) ==
  \/ n = 0 /\ (NoneYet(f, st, t) \/ NewPeriod(f, st, t))
  \/ Settled(f, st, n) /\ st <= t /\ t < st + Window

\* What was allowed to a card that the limiter limits: the requests with the empty
\* PAN are left out, whose entry is cleared for each of them.
Hist(c) == IF c = NoCard THEN [x \in Seconds |-> 0] ELSE allowed[c]

\* What an evaluation that runs alone knows at each of its steps.
InStep(w) ==
  LET e == Entry(w)
      f == Hist(card[w])
      t == clock[w] IN
  /\ loc[w] \in {"enter", "scan"} => \A s \in Slots : table[s].start <= t
  /\ loc[w] = "scan" /\ card[w] # NoCard => \A j \in 1..(probe[w].i - 1) : table[j].pan # card[w]
  /\ loc[w] \in {"clear", "name"} /\ card[w] # NoCard => \A s \in Slots : card[w] \notin owners[s]
  /\ loc[w] = "name" => e.count = 0 /\ e.start = 0
  /\ loc[w] = "stamp" => e.count = 0 /\ \A x \in Seconds : f[x] = 0
  /\ loc[w] = "zero" => e.count = 0 /\ NoneYet(f, e.start, t)
  /\ loc[w] = "window" => \/ e.count = 0 /\ NoneYet(f, e.start, t)
                          \/ Settled(f, e.start, e.count) /\ e.start <= t
  /\ loc[w] = "reset" => NewPeriod(f, e.start, t)
  /\ loc[w] = "count" => Ready(f, e.start, e.count, t)
  /\ loc[w] = "add" => read[w] = e.count /\ Ready(f, e.start, read[w], t)
  /\ loc[w] = "decide" => read[w] + 1 = e.count /\ Ready(f, e.start, read[w], t)

\* No worker uses the entry.
Free(s) == \A w \in Workers : loc[w] \in Working => slot[w] # s

\* Each card but the empty PAN has one entry at most, under its own name; every
\* entry not in use is settled; and no Window seconds hold 2 * Limit allowed
\* requests of a card but the empty PAN.
AloneAndSettled ==
  /\ \A s \in Slots : \A c \in owners[s] :
       table[s].pan = c \/ \E w \in Workers : loc[w] = "name" /\ slot[w] = s
  /\ \A r, s \in Slots, c \in Cards \ {NoCard} : c \in owners[r] /\ c \in owners[s] => r = s
  /\ \A w \in Workers : InStep(w)
  /\ \A s \in Slots : Free(s) => \A c \in owners[s] : Settled(Hist(c), table[s].start, table[s].count)
  /\ \A c \in Cards \ {NoCard}, y \in Seconds : Total(allowed[c], Recent(y)) <= 2 * Limit - 1

\* While evaluations run one at a time and no entry is reused.
SeqInv == ~overlapped /\ NoEntryReused => AloneAndSettled

\* And when, moreover, no second ends during an evaluation, the count of an entry
\* stands for requests asked for since the start of its window.
SinceInv ==
  ~overlapped /\ ~straddled /\ NoEntryReused =>
    /\ \A s \in Slots : (\A w \in Workers : loc[w] = "reset" => slot[w] # s) =>
         \A c \in owners[s] : table[s].count + Owed(c) <= Total(asked[c], Since(table[s].start))
    /\ \A w \in Workers : verdict[w] = "decline" => Total(asked[card[w]], Recent(clock[w])) > Limit

\* The sets of seconds the invariants talk about.
LEMMA SecondSets ==
  ASSUME NEW t
  PROVE  /\ After(t) \in SUBSET Seconds /\ Since(t) \in SUBSET Seconds
         /\ Before(t) \in SUBSET Seconds /\ Recent(t) \in SUBSET Seconds
         /\ Seconds \in SUBSET Seconds /\ Seconds \subseteq Nat
BY RiskAssumption DEF After, Since, Before, Recent, Seconds

\* When nothing at all was allowed, every entry that counts a request is settled.
LEMMA NothingSettled ==
  ASSUME NEW f, \A x \in Seconds : f[x] = 0, f \in [Seconds -> Nat], NEW st \in Nat, NEW n \in Nat, n >= 1
  PROVE  Settled(f, st, n)
<1>1. /\ Total(f, After(st)) = 0 /\ Total(f, Since(st)) = 0 /\ Total(f, Before(st)) = 0
      /\ Total(f, Seconds) = 0
  BY SecondSets, TotalZero DEF After, Since, Before
<1>2. QED
  BY <1>1, RiskAssumption DEF Settled

\* What is allowed after a request that finds n requests counted.
Admit(f, n, t) == IF OverLimit(n + 1) THEN f ELSE Plus(f, t)

\* A request that may be allowed leaves the counts of its entry settled.
LEMMA Admitted ==
  ASSUME NEW f \in [Seconds -> Nat], NEW st \in Nat, NEW n \in Nat, NEW t \in Seconds,
         Ready(f, st, n, t)
  PROVE  Admit(f, n, t) \in [Seconds -> Nat] /\ Settled(Admit(f, n, t), st, n + 1)
<1> DEFINE g == Admit(f, n, t)
<1>0. g \in [Seconds -> Nat]
  BY SecondSets, TotalBump DEF Admit
<1> HIDE DEF g
<1> USE RiskAssumption
<1>1. /\ Total(f, After(st)) \in Nat /\ Total(f, Since(st)) \in Nat
      /\ Total(f, Seconds) \in Nat /\ Total(f, Before(st)) \in Nat
  BY SecondSets, TotalFinite
<1>2. CASE OverLimit(n + 1)
  <2>1. Settled(f, st, n) /\ n >= Limit
    BY <1>2 DEF OverLimit, Ready
  <2>2. g = f
    BY <1>2 DEF g, Admit
  <2>3. QED
    BY <1>0, <1>1, <1>2, <2>1, <2>2 DEF Settled, g
<1>3. CASE ~OverLimit(n + 1)
  <2>1. n + 1 <= Limit /\ g = Plus(f, t)
    BY <1>3 DEF OverLimit, g, Admit
  <2>2. ASSUME NEW S \in SUBSET Seconds
        PROVE  Total(g, S) = IF t \in S THEN Total(f, S) + 1 ELSE Total(f, S)
    BY <2>1, TotalBump
  <2>3. /\ Total(g, After(st)) = IF t \in After(st) THEN Total(f, After(st)) + 1 ELSE Total(f, After(st))
        /\ Total(g, Since(st)) = IF t \in Since(st) THEN Total(f, Since(st)) + 1 ELSE Total(f, Since(st))
        /\ Total(g, Seconds) = Total(f, Seconds) + 1
        /\ Total(g, Before(st)) = IF t \in Before(st) THEN Total(f, Before(st)) + 1 ELSE Total(f, Before(st))
    BY <2>2, SecondSets
  <2>4. /\ \A x \in Seconds : g[x] > 0 => f[x] > 0 \/ x = t
        /\ t \in Nat
    BY <2>1, SecondSets DEF Plus
  <2>5. (t \in After(st) <=> t > st) /\ (t \in Since(st) <=> t >= st) /\ (t \in Before(st) => t < st)
    BY DEF After, Since, Before
  <2>6. ASSUME n = 0 /\ NoneYet(f, st, t) PROVE Settled(g, st, n + 1)
    <3>1. /\ Total(f, After(st)) = 0 /\ Total(f, Since(st)) = 0 /\ Total(f, Seconds) = 0
      BY <2>6, SecondSets, TotalZero DEF NoneYet
    <3>2. t <= st /\ t < st + Window /\ \A x \in Seconds : g[x] > 0 => x < st + Window
      BY <2>4, <2>6 DEF NoneYet
    <3>3. QED
      BY <2>1, <2>3, <2>4, <2>5, <2>6, <3>1, <3>2 DEF Settled
  <2>7. ASSUME n = 0 /\ NewPeriod(f, st, t) PROVE Settled(g, st, n + 1)
    <3>1. \A x \in After(st) : f[x] = 0
      BY <2>4, <2>7, SecondSets DEF NewPeriod, After
    <3>2. \A x \in Since(st) : f[x] = 0
      BY <2>4, <2>7, SecondSets DEF NewPeriod, Since
    <3>3. Total(f, After(st)) = 0 /\ Total(f, Since(st)) = 0
      BY <3>1, <3>2, SecondSets, TotalZero
    <3>4. st = t /\ Total(f, Before(st)) + 1 <= Limit
      BY <2>7 DEF NewPeriod
    <3>5. \A x \in Seconds : g[x] > 0 => x < st + Window
      BY <2>4, <2>7, SecondSets DEF NewPeriod
    <3>6. QED
      BY <2>1, <2>3, <2>4, <2>5, <2>7, <3>3, <3>4, <3>5 DEF Settled
  <2>8. ASSUME Settled(f, st, n) /\ st <= t /\ t < st + Window
        PROVE  Settled(g, st, n + 1)
    <3>1. \A x \in Seconds : g[x] > 0 => x < st + Window
      BY <2>4, <2>8 DEF Settled
    <3>2. QED
      BY <1>1, <2>1, <2>3, <2>4, <2>5, <2>8, <3>1 DEF Settled
  <2>9. Settled(g, st, n + 1)
    BY <2>6, <2>7, <2>8 DEF Ready
  <2>10. QED
    BY <1>0, <2>9 DEF g
<1>4. QED
  BY <1>2, <1>3

\* When the window is over, what it allowed counts for the next one only with
\* what came after its first request.
LEMMA WindowTurns ==
  ASSUME NEW f \in [Seconds -> Nat], NEW st \in Nat, NEW n \in Nat, NEW t \in Seconds,
         Settled(f, st, n), t - st >= Window
  PROVE  NewPeriod(f, t, t)
<1> USE RiskAssumption
<1>1. t \in Nat /\ Total(f, After(st)) \in Nat /\ Total(f, Before(t)) \in Nat
  BY SecondSets, TotalFinite
<1>2. \A x \in Seconds : f[x] > 0 => x < t
  BY <1>1, SecondSets DEF Settled
<1>3. \A x \in Before(t) : x \in After(st)
  BY <1>1, SecondSets DEF Before, After
<1>4. Total(f, Before(t)) <= Total(f, After(st))
  BY <1>3, SecondSets, TotalMono
<1>5. QED
  BY <1>1, <1>2, <1>4 DEF NewPeriod, Settled

\* The bound on bursts survives a request that may be allowed.
LEMMA BurstStep ==
  ASSUME NEW f \in [Seconds -> Nat], NEW st \in Nat, NEW n \in Nat, NEW t \in Seconds,
         Ready(f, st, n, t),
         NEW y \in Seconds, Total(f, Recent(y)) <= 2 * Limit - 1
  PROVE  Total(Admit(f, n, t), Recent(y)) <= 2 * Limit - 1
<1> DEFINE g == Admit(f, n, t)
<1> USE RiskAssumption
<1>1. g \in [Seconds -> Nat] /\ Settled(g, st, n + 1)
  BY Admitted
<1> HIDE DEF g
<1>2. ASSUME OverLimit(n + 1) \/ t \notin Recent(y)
      PROVE  Total(g, Recent(y)) <= 2 * Limit - 1
  <2>1. CASE OverLimit(n + 1)
    BY <2>1 DEF g, Admit
  <2>2. CASE t \notin Recent(y) /\ ~OverLimit(n + 1)
    BY <2>2, SecondSets, TotalBump DEF g, Admit
  <2>3. QED
    BY <1>2, <2>1, <2>2
<1>3. ASSUME ~OverLimit(n + 1), t \in Recent(y)
      PROVE  Total(g, Recent(y)) <= 2 * Limit - 1
  <2>1. /\ Total(g, Since(st)) \in Nat /\ Total(g, Seconds) \in Nat
        /\ Total(g, Before(st)) \in Nat /\ Total(g, Recent(y)) \in Nat
        /\ y \in Nat /\ t \in Nat /\ n + 1 <= Limit
    BY <1>1, <1>3, SecondSets, TotalFinite DEF OverLimit
  <2>2. CASE Total(g, Seconds) <= n + 1
    <3>1. Total(g, Recent(y)) <= Total(g, Seconds)
      BY <1>1, SecondSets, TotalMono
    <3>2. QED
      BY <2>1, <2>2, <3>1
  <2>3. CASE Total(g, Before(st)) + 1 <= Limit /\ st <= t
    <3>1. t <= y
      BY <1>3 DEF Recent
    <3>2. \A x \in Recent(y) : x \in Before(st) \cup Since(st)
      BY <2>1, <2>3, <3>1, SecondSets DEF Recent, Before, Since
    <3>3. Total(g, Recent(y)) <= Total(g, Before(st) \cup Since(st))
      BY <1>1, <3>2, SecondSets, TotalMono
    <3>4. Total(g, Before(st) \cup Since(st)) <= Total(g, Before(st)) + Total(g, Since(st))
      BY <1>1, SecondSets, TotalUnion
    <3>5. Before(st) \cup Since(st) \in SUBSET Seconds
      BY SecondSets
    <3>6. Total(g, Before(st) \cup Since(st)) \in Nat
      BY <1>1, <3>5, TotalFinite
    <3>7. Total(g, Since(st)) <= Limit
      BY <1>1, <2>1 DEF Settled
    <3>8. QED
      BY <2>1, <2>3, <3>3, <3>4, <3>6, <3>7
  <2>4. Total(g, Seconds) <= n + 1 \/ (Total(g, Before(st)) + 1 <= Limit /\ st <= t)
    <3>1. CASE st <= t
      BY <1>1, <2>1, <3>1 DEF Settled
    <3>2. CASE ~(st <= t)
      <4>1. n = 0 /\ \A x \in Seconds : f[x] = 0
        BY <2>1, <3>2 DEF Ready, NoneYet, NewPeriod
      <4>2. Total(f, Seconds) = 0
        BY <4>1, SecondSets, TotalZero
      <4>3. Total(g, Seconds) = 1
        BY <1>3, <4>2, SecondSets, TotalBump DEF g, Admit
      <4>4. QED
        BY <4>1, <4>3
    <3>3. QED
      BY <3>1, <3>2
  <2>5. QED
    BY <2>2, <2>3, <2>4
<1>4. QED
  BY <1>2, <1>3 DEF g
-----------------------------------------------------------------------------
(* What each step does, variable by variable *)

\* The other workers' locals are their own.
Same(w) ==
  \A u \in Workers : u # w =>
    /\ loc'[u] = loc[u] /\ card'[u] = card[u] /\ clock'[u] = clock[u]
    /\ probe'[u] = probe[u] /\ slot'[u] = slot[u] /\ read'[u] = read[u]
    /\ verdict'[u] = verdict[u]

\* A step of w from one place of the code to another.
Goes(w, from, to) == loc[w] = from /\ loc'[w] = to /\ Same(w)

\* A step that leaves the table alone.
Quiet(w) ==
  UNCHANGED <<now, table, card, clock, verdict, asked, allowed, owners, overlapped, straddled>>

\* A step that stores to the entry the worker holds.
Stores(w, pan, begin, n) ==
  /\ slot[w] \in Slots
  /\ table'[slot[w]].pan = pan /\ table'[slot[w]].start = begin /\ table'[slot[w]].count = n
  /\ \A s \in Slots : s # slot[w] => table'[s] = table[s]
  /\ UNCHANGED <<now, card, clock, slot, read, verdict, asked, allowed, overlapped, straddled>>

\* The types, with the names of this module.
LEMMA Types ==
  ASSUME IndInv
  PROVE  /\ now \in Seconds /\ table \in [Slots -> EntryType] /\ loc \in [Workers -> Locations]
         /\ card \in [Workers -> Cards \cup {NoCard}] /\ clock \in [Workers -> 0..MaxTime]
         /\ probe \in [Workers -> ProbeType] /\ slot \in [Workers -> 0..Cap]
         /\ read \in [Workers -> Nat] /\ verdict \in [Workers -> {"none", "allow", "decline"}]
         /\ asked \in Histories /\ allowed \in Histories /\ owners \in [Slots -> SUBSET Cards]
         /\ overlapped \in BOOLEAN /\ straddled \in BOOLEAN
BY DEF IndInv, TypeOK, EntryType, ProbeType, Histories

\* A worker past the scan holds an entry of the table.
LEMMA Held ==
  ASSUME IndInv, NEW w \in Workers
  PROVE  /\ loc[w] \notin {"idle", "enter", "scan"} =>
              /\ slot[w] \in Slots /\ Entry(w) = table[slot[w]] /\ Entry(w) \in EntryType
              /\ Entry(w).start \in Nat /\ Entry(w).count \in Nat
         /\ loc[w] # "idle" => card[w] \in Cards /\ clock[w] \in Seconds
<1>1. ASSUME loc[w] \notin {"idle", "enter", "scan"}
      PROVE  /\ slot[w] \in Slots /\ Entry(w) = table[slot[w]] /\ Entry(w) \in EntryType
             /\ Entry(w).start \in Nat /\ Entry(w).count \in Nat
  <2>1. slot[w] \in 0..Cap /\ slot[w] # 0
    BY <1>1 DEF IndInv, TypeOK, None
  <2>2. slot[w] \in Slots
    BY <2>1, Bounds DEF Slots
  <2>3. Entry(w) \in EntryType
    BY <2>2, Types DEF Entry
  <2>4. QED
    BY <2>2, <2>3, Bounds DEF Entry, EntryType
<1>2. QED
  BY <1>1 DEF IndInv, BusyInv

LEMMA EvaluateDoes ==
  ASSUME IndInv, NEW w \in Workers, NEW c \in Cards, Evaluate(w, c)
  PROVE  /\ Goes(w, "idle", "enter") /\ card'[w] = c /\ clock'[w] = now /\ verdict'[w] = "none"
         /\ asked'[c] = Plus(asked[c], now) /\ \A d \in Cards : d # c => asked'[d] = asked[d]
         /\ overlapped' <=> (overlapped \/ Busy # {})
         /\ UNCHANGED <<now, table, probe, slot, read, allowed, owners, straddled>>
<1>1. /\ Goes(w, "idle", "enter") /\ card'[w] = c /\ clock'[w] = now /\ verdict'[w] = "none"
  BY Types DEF Evaluate, Goto, Goes, Same
<1>2. asked'[c] = Plus(asked[c], now) /\ \A d \in Cards : d # c => asked'[d] = asked[d]
  BY Types DEF Evaluate, Bump, Plus, Histories
<1>3. QED
  BY <1>1, <1>2 DEF Evaluate

LEMMA EnterDoes ==
  ASSUME IndInv, NEW w \in Workers, Enter(w)
  PROVE  /\ Goes(w, "enter", "scan") /\ Quiet(w) /\ UNCHANGED <<slot, read>>
         /\ probe'[w].now = now /\ probe'[w].i = 1
BY Types DEF Enter, Goto, Goes, Same, Quiet, history, NoProbe

LEMMA ProbeDoes ==
  ASSUME IndInv, NEW w \in Workers, Probe(w)
  PROVE  /\ Quiet(w) /\ UNCHANGED read /\ probe[w].i \in Slots
         /\ \/ /\ Goes(w, "scan", "window") /\ table[probe[w].i].pan = card[w] /\ card[w] # NoCard
               /\ slot'[w] = probe[w].i /\ probe'[w].now = 0
            \/ /\ Goes(w, "scan", "scan") /\ (card[w] = NoCard \/ table[probe[w].i].pan # card[w])
               /\ probe'[w].i = probe[w].i + 1 /\ probe'[w].now = probe[w].now /\ UNCHANGED slot
<1>0. probe[w] \in ProbeType /\ probe[w].i \in Slots
  BY Types, Bounds DEF Probe, ProbeType, Slots
<1>1. Quiet(w) /\ UNCHANGED read
  BY DEF Probe, Quiet, history
<1> DEFINE p == probe[w]
           e == table[p.i]
<1>2. CASE e.pan # NoCard /\ e.pan = card[w] /\ slot' = [slot EXCEPT ![w] = p.i] /\ probe' = [probe EXCEPT ![w] = NoProbe]
           /\ Goto(w, "window")
  BY <1>0, <1>1, <1>2, Types DEF Probe, Goto, Goes, Same, Quiet, NoProbe
<1>3. CASE e.pan = NoCard
           /\ probe' = [probe EXCEPT ![w].i = @ + 1, ![w].free = IF @ = None THEN p.i ELSE @]
           /\ UNCHANGED <<slot, loc>>
  <2>1. probe'[w].i = p.i + 1 /\ probe'[w].now = p.now /\ \A u \in Workers : u # w => probe'[u] = probe[u]
    BY <1>0, <1>3, Types DEF ProbeType
  <2>2. QED
    BY <1>0, <1>1, <1>3, <2>1, Types DEF Probe, Goto, Goes, Same, Quiet
<1>4. CASE e.pan # NoCard /\ e.pan # card[w]
           /\ probe' = [probe EXCEPT ![w] =
                IF e.start < p.oldest
                THEN [p EXCEPT !.i = p.i + 1, !.oldest = e.start, !.oldestIdx = p.i]
                ELSE [p EXCEPT !.i = p.i + 1]]
           /\ UNCHANGED <<slot, loc>>
  <2>1. probe'[w].i = p.i + 1 /\ probe'[w].now = p.now /\ \A u \in Workers : u # w => probe'[u] = probe[u]
    BY <1>0, <1>4, Types DEF ProbeType
  <2>2. QED
    BY <1>0, <1>1, <1>4, <2>1, Types DEF Probe, Goto, Goes, Same, Quiet
<1>5. QED
  BY <1>2, <1>3, <1>4 DEF Probe

LEMMA NotFoundDoes ==
  ASSUME IndInv, NEW w \in Workers, NotFound(w)
  PROVE  /\ Goes(w, "scan", "clear") /\ Quiet(w) /\ UNCHANGED <<probe, read>>
         /\ probe[w].i > Cap /\ slot'[w] \in Slots
<1>1. Victim(probe[w]) \in Slots
  BY Types, VictimInTable
<1>2. QED
  BY <1>1, Types DEF NotFound, Goto, Goes, Same, Quiet, history

LEMMA SameWindowDoes ==
  ASSUME IndInv, NEW w \in Workers, SameWindow(w)
  PROVE  /\ Goes(w, "window", "count") /\ Quiet(w) /\ UNCHANGED <<probe, slot, read>>
         /\ ~(clock[w] - Entry(w).start >= Window)
BY Types DEF SameWindow, WindowOver, Goto, Goes, Same, Quiet, history

LEMMA CountReadDoes ==
  ASSUME IndInv, NEW w \in Workers, CountRead(w)
  PROVE  /\ Goes(w, "count", "add") /\ Quiet(w) /\ UNCHANGED <<probe, slot>>
         /\ read'[w] = Entry(w).count
BY Types DEF CountRead, Goto, Goes, Same, Quiet, history

LEMMA StoreDoes ==
  ASSUME IndInv, NEW w \in Workers, NEW e \in EntryType, Store(w, e),
         loc[w] \notin {"idle", "enter", "scan"}
  PROVE  Stores(w, e.pan, e.start, e.count)
BY Types, Held DEF Store, Stores

LEMMA ClearDoes ==
  ASSUME IndInv, NEW w \in Workers, Clear(w)
  PROVE  /\ Goes(w, "clear", "name") /\ Stores(w, NoCard, 0, 0) /\ UNCHANGED <<probe, owners>>
<1>1. Stores(w, NoCard, 0, 0)
  BY StoreDoes, EmptyType DEF Clear, Empty
<1>2. QED
  BY <1>1, Types DEF Clear, Goto, Goes, Same, Stores

LEMMA NameDoes ==
  ASSUME IndInv, NEW w \in Workers, Name(w)
  PROVE  /\ Goes(w, "name", "stamp") /\ Stores(w, card[w], Entry(w).start, Entry(w).count)
         /\ UNCHANGED probe /\ owners'[slot[w]] = owners[slot[w]] \cup {card[w]}
         /\ \A s \in Slots : s # slot[w] => owners'[s] = owners[s]
<1> DEFINE e == [Entry(w) EXCEPT !.pan = card[w]]
<1>1. e \in EntryType /\ e.pan = card[w] /\ e.start = Entry(w).start /\ e.count = Entry(w).count
  BY Held DEF Name, EntryType
<1>2. Store(w, e) /\ loc[w] = "name"
  BY DEF Name
<1> HIDE DEF e
<1>3. Stores(w, card[w], Entry(w).start, Entry(w).count)
  BY <1>1, <1>2, StoreDoes
<1>4. QED
  BY <1>3, Types DEF Name, Goto, Goes, Same, Stores

LEMMA StampDoes ==
  ASSUME IndInv, NEW w \in Workers, Stamp(w)
  PROVE  /\ Goes(w, "stamp", "zero") /\ Stores(w, Entry(w).pan, probe[w].now, Entry(w).count)
         /\ UNCHANGED owners /\ probe'[w].now = 0
<1> DEFINE e == [Entry(w) EXCEPT !.start = probe[w].now]
<1>0. Entry(w) \in EntryType /\ probe[w].now \in 0..MaxTime
  BY Held, Types DEF Stamp, ProbeType
<1>1. e \in EntryType /\ e.pan = Entry(w).pan /\ e.start = probe[w].now /\ e.count = Entry(w).count
  BY <1>0 DEF EntryType
<1>2. Store(w, e) /\ loc[w] = "stamp"
  BY DEF Stamp
<1> HIDE DEF e
<1>3. Stores(w, Entry(w).pan, probe[w].now, Entry(w).count)
  BY <1>1, <1>2, StoreDoes
<1>4. QED
  BY <1>3, Types DEF Stamp, Goto, Goes, Same, Stores, NoProbe

\* Zero and Reset.
LEMMA NoCountDoes ==
  ASSUME IndInv, NEW w \in Workers, Zero(w) \/ Reset(w)
  PROVE  /\ Stores(w, Entry(w).pan, Entry(w).start, 0) /\ UNCHANGED <<probe, owners>>
         /\ Zero(w) => Goes(w, "zero", "window")
         /\ Reset(w) => Goes(w, "reset", "count")
<1> DEFINE e == [Entry(w) EXCEPT !.count = 0]
<1>1. e \in EntryType /\ e.pan = Entry(w).pan /\ e.start = Entry(w).start /\ e.count = 0
  BY Held DEF Zero, Reset, EntryType
<1>2. Store(w, e) /\ loc[w] \in {"zero", "reset"}
  BY DEF Zero, Reset
<1> HIDE DEF e
<1>3. Stores(w, Entry(w).pan, Entry(w).start, 0)
  BY <1>1, <1>2, StoreDoes
<1>4. Zero(w) => Goes(w, "zero", "window")
  BY <1>3, Types DEF Zero, Goto, Goes, Same, Stores
<1>5. Reset(w) => Goes(w, "reset", "count")
  BY <1>3, Types DEF Reset, Goto, Goes, Same, Stores
<1>6. QED
  BY <1>3, <1>4, <1>5 DEF Zero, Reset

LEMMA NewWindowDoes ==
  ASSUME IndInv, NEW w \in Workers, NewWindow(w)
  PROVE  /\ Goes(w, "window", "reset") /\ Stores(w, Entry(w).pan, clock[w], Entry(w).count)
         /\ UNCHANGED <<probe, owners>> /\ clock[w] - Entry(w).start >= Window
<1> DEFINE e == [Entry(w) EXCEPT !.start = clock[w]]
<1>0. Entry(w) \in EntryType /\ clock[w] \in 0..MaxTime
  BY Held, Types DEF NewWindow
<1>1. e \in EntryType /\ e.pan = Entry(w).pan /\ e.start = clock[w] /\ e.count = Entry(w).count
  BY <1>0 DEF EntryType
<1>2. Store(w, e) /\ loc[w] = "window"
  BY DEF NewWindow
<1> HIDE DEF e
<1>3. Stores(w, Entry(w).pan, clock[w], Entry(w).count)
  BY <1>1, <1>2, StoreDoes
<1>4. QED
  BY <1>3, Types DEF NewWindow, WindowOver, Goto, Goes, Same, Stores

LEMMA CountWriteDoes ==
  ASSUME IndInv, NEW w \in Workers, CountWrite(w)
  PROVE  /\ Goes(w, "add", "decide") /\ Stores(w, Entry(w).pan, Entry(w).start, read[w] + 1)
         /\ UNCHANGED <<probe, owners>>
<1> DEFINE e == [Entry(w) EXCEPT !.count = read[w] + 1]
<1>0. Entry(w) \in EntryType /\ read[w] + 1 \in Nat
  BY Held, Types DEF CountWrite
<1>1. e \in EntryType /\ e.pan = Entry(w).pan /\ e.start = Entry(w).start /\ e.count = read[w] + 1
  BY <1>0 DEF EntryType
<1>2. Store(w, e) /\ loc[w] = "add"
  BY DEF CountWrite
<1> HIDE DEF e
<1>3. Stores(w, Entry(w).pan, Entry(w).start, read[w] + 1)
  BY <1>1, <1>2, StoreDoes
<1>4. QED
  BY <1>3, Types DEF CountWrite, Goto, Goes, Same, Stores

LEMMA DecideDoes ==
  ASSUME IndInv, NEW w \in Workers, Decide(w)
  PROVE  /\ Goes(w, "decide", "idle")
         /\ UNCHANGED <<now, table, card, clock, probe, asked, owners, overlapped, straddled>>
         /\ \E n \in {read[w] + 1, Entry(w).count} :
              /\ verdict'[w] = IF OverLimit(n) THEN "decline" ELSE "allow"
              /\ allowed'[card[w]] = IF OverLimit(n) THEN allowed[card[w]]
                                     ELSE Plus(allowed[card[w]], clock[w])
         /\ \A d \in Cards : d # card[w] => allowed'[d] = allowed[d]
<1>1. PICK n \in {read[w] + 1, Entry(w).count} :
        /\ verdict' = [verdict EXCEPT ![w] = IF OverLimit(n) THEN "decline" ELSE "allow"]
        /\ allowed' = IF OverLimit(n) THEN allowed ELSE Bump(allowed, card[w], clock[w])
  BY DEF Decide
<1>2. card[w] \in Cards
  BY Held DEF Decide
<1>3. /\ allowed'[card[w]] = IF OverLimit(n) THEN allowed[card[w]]
                             ELSE Plus(allowed[card[w]], clock[w])
      /\ \A d \in Cards : d # card[w] => allowed'[d] = allowed[d]
  BY <1>1, <1>2, Types DEF Bump, Plus, Histories
<1>4. Goes(w, "decide", "idle") /\ verdict'[w] = IF OverLimit(n) THEN "decline" ELSE "allow"
  BY <1>1, Types DEF Decide, Goto, Goes, Same
<1>5. QED
  BY <1>3, <1>4 DEF Decide

LEMMA TickDoes ==
  ASSUME Tick
  PROVE  /\ now < MaxTime /\ now' = now + 1
         /\ straddled' <=> (straddled \/ Busy # {})
         /\ UNCHANGED <<table, loc, card, clock, probe, slot, read, verdict, asked, allowed,
                        owners, overlapped>>
BY DEF Tick, worker

-----------------------------------------------------------------------------
(* Whose requests an entry counts *)

\* The steps, with the variables that make up the tuples spelled out.
LEMMA StepCases ==
  ASSUME [Next]_vars
  PROVE  \/ \E w \in Workers :
              \/ \E c \in Cards : Evaluate(w, c)
              \/ Enter(w) \/ Probe(w) \/ NotFound(w)
              \/ Clear(w) \/ Name(w) \/ Stamp(w) \/ Zero(w) \/ Reset(w)
              \/ SameWindow(w) \/ NewWindow(w) \/ CountRead(w) \/ CountWrite(w) \/ Decide(w)
         \/ Tick
         \/ UNCHANGED <<now, table, loc, card, clock, probe, slot, read, verdict, asked, allowed,
                        owners, overlapped, straddled>>
BY DEF Next, vars, worker, history

\* OwnerInv is inductive.
LEMMA OwnerStep ==
  ASSUME IndInv, IndInv', OwnerInv, [Next]_vars PROVE OwnerInv'
<1> USE DEF OwnerInv, Working
<1>0. owners \in [Slots -> SUBSET Cards] /\ slot \in [Workers -> 0..Cap]
  BY Types
<1>1. ASSUME NEW w \in Workers, NEW c \in Cards, Evaluate(w, c) PROVE OwnerInv'
  BY <1>1, EvaluateDoes DEF Goes, Same
<1>2. ASSUME NEW w \in Workers, Enter(w) PROVE OwnerInv'
  BY <1>2, EnterDoes DEF Goes, Same, Quiet
<1>3. ASSUME NEW w \in Workers, Probe(w) PROVE OwnerInv'
  <2>1. card[w] \in Cards
    BY <1>3, Held DEF Probe
  <2>2. QED
    BY <1>0, <1>3, <2>1, ProbeDoes DEF Goes, Same, Quiet
<1>4. ASSUME NEW w \in Workers, NotFound(w) PROVE OwnerInv'
  BY <1>4, NotFoundDoes DEF Goes, Same, Quiet
<1>5. ASSUME NEW w \in Workers, Clear(w) PROVE OwnerInv'
  BY <1>5, ClearDoes DEF Goes, Same, Stores
<1>6. ASSUME NEW w \in Workers, Name(w) PROVE OwnerInv'
  <2>1. \A s \in Slots : owners[s] \subseteq owners'[s]
    BY <1>6, NameDoes
  <2>2. ASSUME NEW u \in Workers, loc'[u] \in Working \ {"name"} PROVE card'[u] \in owners'[slot'[u]]
    <3>1. CASE u = w
      BY <1>6, <3>1, NameDoes DEF Goes, Same, Stores
    <3>2. CASE u # w
      <4>1. loc[u] \in Working \ {"name"} /\ card'[u] = card[u] /\ slot'[u] = slot[u]
        BY <1>6, <2>2, <3>2, NameDoes DEF Goes, Same, Stores
      <4>2. slot[u] \in Slots
        BY <4>1, Held
      <4>3. QED
        BY <2>1, <4>1, <4>2
    <3>3. QED
      BY <3>1, <3>2
  <2>3. QED
    BY <1>6, <2>1, <2>2, NameDoes DEF Goes, Same, Stores
<1>7. ASSUME NEW w \in Workers, Stamp(w) PROVE OwnerInv'
  BY <1>7, StampDoes DEF Goes, Same, Stores, Entry
<1>8. ASSUME NEW w \in Workers, Zero(w) \/ Reset(w) PROVE OwnerInv'
  BY <1>8, NoCountDoes DEF Goes, Same, Stores, Entry
<1>9. ASSUME NEW w \in Workers, SameWindow(w) PROVE OwnerInv'
  BY <1>9, SameWindowDoes DEF Goes, Same, Quiet
<1>10. ASSUME NEW w \in Workers, NewWindow(w) PROVE OwnerInv'
  BY <1>10, NewWindowDoes DEF Goes, Same, Stores, Entry
<1>11. ASSUME NEW w \in Workers, CountRead(w) PROVE OwnerInv'
  BY <1>11, CountReadDoes DEF Goes, Same, Quiet
<1>12. ASSUME NEW w \in Workers, CountWrite(w) PROVE OwnerInv'
  BY <1>12, CountWriteDoes DEF Goes, Same, Stores, Entry
<1>13. ASSUME NEW w \in Workers, Decide(w) PROVE OwnerInv'
  BY <1>13, DecideDoes DEF Goes, Same
<1>14. CASE Tick
  BY <1>14, TickDoes
<1>15. QED
  BY <1>1, <1>2, <1>3, <1>4, <1>5, <1>6, <1>7, <1>8, <1>9, <1>10, <1>11, <1>12, <1>13, <1>14, StepCases

\* How the requests in progress change.
LEMMA OwedStep ==
  ASSUME IndInv, [Next]_vars, NEW d \in Cards, IsFiniteSet(Pending(d))
  PROVE  /\ IsFiniteSet(Pending(d)')
         /\ Owed(d) \in Nat
         /\ \/ \E w \in Workers : Evaluate(w, d) /\ Owed(d)' = Owed(d) + 1
            \/ \E w \in Workers : CountWrite(w) /\ card[w] = d /\ Owed(d) = Owed(d)' + 1
            \/ Owed(d)' = Owed(d) /\ \A w \in Workers : ~Evaluate(w, d) /\ ~(CountWrite(w) /\ card[w] = d)
<1> DEFINE Unmoved == \A w \in Workers : ~Evaluate(w, d) /\ ~(CountWrite(w) /\ card[w] = d)
<1>0. Owed(d) \in Nat
  BY FS_CardinalityType DEF Owed
<1>1. ASSUME NEW w \in Workers, Evaluate(w, d)
      PROVE  IsFiniteSet(Pending(d)') /\ Owed(d)' = Owed(d) + 1
  <2>1. Pending(d)' = Pending(d) \cup {w} /\ w \notin Pending(d)
    BY <1>1, EvaluateDoes DEF Goes, Same, Pending
  <2>2. QED
    BY <2>1, FS_AddElement DEF Owed
<1>2. ASSUME NEW w \in Workers, CountWrite(w), card[w] = d
      PROVE  IsFiniteSet(Pending(d)') /\ Owed(d) = Owed(d)' + 1
  <2>1. Pending(d)' = Pending(d) \ {w} /\ w \in Pending(d)
    BY <1>2, CountWriteDoes DEF Goes, Same, Pending, Stores
  <2>2. IsFiniteSet(Pending(d)') /\ Cardinality(Pending(d)') = Cardinality(Pending(d)) - 1
    BY <2>1, FS_RemoveElement
  <2>3. QED
    BY <1>0, <2>2 DEF Owed
<1>3. ASSUME Unmoved PROVE Pending(d)' = Pending(d)
  <2>1. ASSUME NEW w \in Workers, NEW c \in Cards, Evaluate(w, c) PROVE Pending(d)' = Pending(d)
    BY <1>3, <2>1, EvaluateDoes DEF Goes, Same, Pending
  <2>2. ASSUME NEW w \in Workers, Enter(w) PROVE Pending(d)' = Pending(d)
    BY <2>2, EnterDoes DEF Goes, Same, Quiet, Pending
  <2>3. ASSUME NEW w \in Workers, Probe(w) PROVE Pending(d)' = Pending(d)
    BY <2>3, ProbeDoes DEF Goes, Same, Quiet, Pending
  <2>4. ASSUME NEW w \in Workers, NotFound(w) PROVE Pending(d)' = Pending(d)
    BY <2>4, NotFoundDoes DEF Goes, Same, Quiet, Pending
  <2>5. ASSUME NEW w \in Workers, Clear(w) PROVE Pending(d)' = Pending(d)
    BY <2>5, ClearDoes DEF Goes, Same, Stores, Pending
  <2>6. ASSUME NEW w \in Workers, Name(w) PROVE Pending(d)' = Pending(d)
    BY <2>6, NameDoes DEF Goes, Same, Stores, Pending
  <2>7. ASSUME NEW w \in Workers, Stamp(w) PROVE Pending(d)' = Pending(d)
    BY <2>7, StampDoes DEF Goes, Same, Stores, Pending
  <2>8. ASSUME NEW w \in Workers, Zero(w) \/ Reset(w) PROVE Pending(d)' = Pending(d)
    BY <2>8, NoCountDoes DEF Goes, Same, Stores, Pending
  <2>9. ASSUME NEW w \in Workers, SameWindow(w) PROVE Pending(d)' = Pending(d)
    BY <2>9, SameWindowDoes DEF Goes, Same, Quiet, Pending
  <2>10. ASSUME NEW w \in Workers, NewWindow(w) PROVE Pending(d)' = Pending(d)
    BY <2>10, NewWindowDoes DEF Goes, Same, Stores, Pending
  <2>11. ASSUME NEW w \in Workers, CountRead(w) PROVE Pending(d)' = Pending(d)
    BY <2>11, CountReadDoes DEF Goes, Same, Quiet, Pending
  <2>12. ASSUME NEW w \in Workers, CountWrite(w) PROVE Pending(d)' = Pending(d)
    BY <1>3, <2>12, CountWriteDoes DEF Goes, Same, Stores, Pending
  <2>13. ASSUME NEW w \in Workers, Decide(w) PROVE Pending(d)' = Pending(d)
    BY <2>13, DecideDoes DEF Goes, Same, Pending
  <2>14. CASE Tick
    BY <2>14, TickDoes DEF Pending
  <2>15. CASE UNCHANGED <<loc, card>>
    BY <2>15 DEF Pending
  <2>16. QED
    BY <2>1, <2>2, <2>3, <2>4, <2>5, <2>6, <2>7, <2>8, <2>9, <2>10, <2>11, <2>12, <2>13, <2>14,
       <2>15, StepCases
<1>4. QED
  BY <1>0, <1>1, <1>2, <1>3 DEF Owed

\* A step asks for at most one request of a card, in the present second.
LEMMA AskedStep ==
  ASSUME IndInv, IndInv', [Next]_vars, NEW d \in Cards
  PROVE  /\ asked[d] \in [Seconds -> Nat] /\ asked'[d] \in [Seconds -> Nat]
         /\ asked'[d] = asked[d] \/ asked'[d] = Plus(asked[d], now)
         /\ \A w \in Workers : Evaluate(w, d) => asked'[d] = Plus(asked[d], now)
         /\ \A x \in Seconds : asked[d][x] <= asked'[d][x]
         /\ \A S \in SUBSET Seconds :
              /\ Total(asked[d], S) \in Nat /\ Total(asked'[d], S) \in Nat
              /\ Total(asked[d], S) <= Total(asked'[d], S)
<1>0. asked[d] \in [Seconds -> Nat] /\ asked'[d] \in [Seconds -> Nat] /\ now \in Seconds
  BY Types DEF IndInv, TypeOK, Histories
<1>1. \A w \in Workers : Evaluate(w, d) => asked'[d] = Plus(asked[d], now)
  BY EvaluateDoes
<1>2. ASSUME \A w \in Workers : ~Evaluate(w, d) PROVE asked'[d] = asked[d]
  <2>1. ASSUME NEW w \in Workers, NEW c \in Cards, Evaluate(w, c) PROVE asked'[d] = asked[d]
    BY <1>2, <2>1, EvaluateDoes
  <2>2. ASSUME NEW w \in Workers,
               \/ Enter(w) \/ Probe(w) \/ NotFound(w)
               \/ Clear(w) \/ Name(w) \/ Stamp(w) \/ Zero(w) \/ Reset(w)
               \/ SameWindow(w) \/ NewWindow(w) \/ CountRead(w) \/ CountWrite(w) \/ Decide(w)
        PROVE  asked'[d] = asked[d]
    BY <2>2 DEF Enter, Probe, NotFound, Clear, Name, Stamp, Zero, Reset, SameWindow, NewWindow,
                CountRead, CountWrite, Decide, Store, history
  <2>3. CASE Tick
    BY <2>3, TickDoes
  <2>4. QED
    BY <2>1, <2>2, <2>3, StepCases
<1>3. asked'[d] = asked[d] \/ asked'[d] = Plus(asked[d], now)
  BY <1>1, <1>2
<1>4. \A x \in Seconds : asked[d][x] <= asked'[d][x]
  BY <1>0, <1>3 DEF Plus
<1>5. ASSUME NEW S \in SUBSET Seconds
      PROVE  /\ Total(asked[d], S) \in Nat /\ Total(asked'[d], S) \in Nat
             /\ Total(asked[d], S) <= Total(asked'[d], S)
  BY <1>0, <1>4, TotalFinite, TotalMono
<1>6. QED
  BY <1>0, <1>1, <1>3, <1>4, <1>5

\* A request is counted once: the number of counted requests of a card never
\* falls, and rises with each store of a count.
LEMMA CountedStep ==
  ASSUME IndInv, IndInv', OwedInv, [Next]_vars, NEW d \in Cards
  PROVE  /\ IsFiniteSet(Pending(d)')
         /\ Owed(d) \in Nat /\ Counted(d) \in Nat /\ Counted(d)' \in Int
         /\ Counted(d) <= Counted(d)'
         /\ \A w \in Workers : CountWrite(w) /\ card[w] = d => Counted(d)' = Counted(d) + 1
<1>1. /\ Asked(d) \in Nat /\ Asked(d)' \in Nat /\ Asked(d) <= Asked(d)'
      /\ asked'[d] = asked[d] => Asked(d)' = Asked(d)
      /\ \A w \in Workers : Evaluate(w, d) => Asked(d)' = Asked(d) + 1
  <2>1. now \in Seconds /\ Seconds \in SUBSET Seconds
    BY Types
  <2>2. asked'[d] = Plus(asked[d], now) => Total(asked'[d], Seconds) = Total(asked[d], Seconds) + 1
    BY <2>1, AskedStep, TotalBump
  <2>3. QED
    BY <2>1, <2>2, AskedStep DEF Asked
<1>2. IsFiniteSet(Pending(d)) /\ Counted(d) >= 0
  BY DEF OwedInv
<1>3. IsFiniteSet(Pending(d)') /\ Owed(d) \in Nat /\ Owed(d)' \in Nat
  BY <1>2, OwedStep, FS_CardinalityType DEF Owed
<1>4. \A w \in Workers : CountWrite(w) => asked' = asked
  BY DEF CountWrite, Store
<1>5. \A w, v \in Workers : CountWrite(w) => ~Evaluate(v, d)
  BY EvaluateDoes, CountWriteDoes DEF Goes, Same
<1>6. QED
  BY <1>1, <1>2, <1>3, <1>4, <1>5, OwedStep DEF Counted

\* Owners are never forgotten: a state with no reused entry comes from one.
LEMMA ReuseStays ==
  ASSUME IndInv, [Next]_vars, NoEntryReused' PROVE NoEntryReused
<1>1. \A s \in Slots : owners[s] \subseteq owners'[s]
  <2>1. ASSUME NEW w \in Workers, Name(w) PROVE \A s \in Slots : owners[s] \subseteq owners'[s]
    BY <2>1, NameDoes DEF Stores
  <2>2. ASSUME NEW w \in Workers,
               \/ \E c \in Cards : Evaluate(w, c)
               \/ Enter(w) \/ Probe(w) \/ NotFound(w)
               \/ Clear(w) \/ Stamp(w) \/ Zero(w) \/ Reset(w)
               \/ SameWindow(w) \/ NewWindow(w) \/ CountRead(w) \/ CountWrite(w) \/ Decide(w)
        PROVE  owners' = owners
    BY <2>2 DEF Evaluate, Enter, Probe, NotFound, Clear, Stamp, Zero, Reset, SameWindow, NewWindow,
                CountRead, CountWrite, Decide, Store, history
  <2>3. QED
    BY <2>1, <2>2, TickDoes, StepCases
<1>2. QED
  BY <1>1 DEF NoEntryReused

LEMMA OwedIsKept == ASSUME IndInv, IndInv', OwedInv, [Next]_vars PROVE OwedInv'
BY CountedStep DEF OwedInv

\* What a worker has read stays covered by the requests of its card, whatever
\* the others store meanwhile.
LEMMA CountIsKept ==
  ASSUME IndInv, IndInv', OwnerInv, OwnerInv', OwedInv, CountInv, [Next]_vars
  PROVE  CountInv'
<1> SUFFICES ASSUME NoEntryReused' PROVE CountInv'
  BY DEF CountInv
<1>0. NoEntryReused
  BY ReuseStays
<1> DEFINE Entries == \A s \in Slots : \A c \in owners[s] : table[s].count <= Counted(c)
           Reads == \A w \in Workers, c \in Cards : card[w] = c =>
                      /\ loc[w] = "add" => read[w] <= Counted(c)
                      /\ loc[w] = "decide" => read[w] + 1 <= Counted(c)
<1>1. Entries /\ Reads
  BY <1>0 DEF CountInv
<1>2. /\ owners \in [Slots -> SUBSET Cards] /\ owners' \in [Slots -> SUBSET Cards]
      /\ table \in [Slots -> EntryType] /\ table' \in [Slots -> EntryType]
      /\ read \in [Workers -> Nat] /\ read' \in [Workers -> Nat]
      /\ \A s \in Slots : table[s].count \in Nat /\ table'[s].count \in Nat
  <2>1. /\ owners \in [Slots -> SUBSET Cards] /\ owners' \in [Slots -> SUBSET Cards]
        /\ table \in [Slots -> EntryType] /\ table' \in [Slots -> EntryType]
        /\ read \in [Workers -> Nat] /\ read' \in [Workers -> Nat]
    BY DEF IndInv, TypeOK, EntryType
  <2>2. QED
    BY <2>1 DEF EntryType
<1>3. ASSUME NEW d \in Cards
      PROVE  Counted(d) \in Nat /\ Counted(d)' \in Int /\ Counted(d) <= Counted(d)'
  BY CountedStep
<1>4. \A w \in Workers : loc[w] # "idle" => card[w] \in Cards
  BY Held
<1>5. \A s \in Slots : \A c, d \in owners'[s] : c = d
  BY DEF NoEntryReused
<1>6. SUFFICES Entries' /\ Reads'
  BY DEF CountInv
\* Steps that store no positive count.
<1>7. ASSUME \A s \in Slots : table'[s].count = table[s].count \/ table'[s].count = 0,
             \A s \in Slots : owners'[s] = owners[s]
      PROVE  Entries'
  <2> SUFFICES ASSUME NEW s \in Slots, NEW c \in owners'[s] PROVE table'[s].count <= Counted(c)'
    OBVIOUS
  <2>1. c \in Cards /\ c \in owners[s]
    BY <1>2, <1>7
  <2>2. table[s].count <= Counted(c) /\ Counted(c) <= Counted(c)' /\ Counted(c) \in Nat /\ Counted(c)' \in Int
    BY <1>1, <1>3, <2>1
  <2>3. QED
    BY <1>2, <1>7, <2>2
<1>8. ASSUME NEW w \in Workers, Same(w), loc'[w] \notin {"add", "decide"}
      PROVE  Reads'
  <2> SUFFICES ASSUME NEW u \in Workers, NEW c \in Cards, card'[u] = c
               PROVE  /\ loc'[u] = "add" => read'[u] <= Counted(c)'
                      /\ loc'[u] = "decide" => read'[u] + 1 <= Counted(c)'
    OBVIOUS
  <2>1. Counted(c) \in Nat /\ Counted(c)' \in Int /\ Counted(c) <= Counted(c)'
    BY <1>3
  <2>2. u # w => loc'[u] = loc[u] /\ read'[u] = read[u] /\ card[u] = c
    BY <1>8 DEF Same
  <2>3. QED
    BY <1>1, <1>2, <1>8, <2>1, <2>2
<1>9. ASSUME NEW w \in Workers, NEW c \in Cards, Evaluate(w, c) PROVE Entries' /\ Reads'
  <2>1. Goes(w, "idle", "enter") /\ UNCHANGED <<table, owners>>
    BY <1>9, EvaluateDoes
  <2>2. QED
    BY <1>7, <1>8, <2>1 DEF Goes
<1>10. ASSUME NEW w \in Workers, Enter(w) \/ Probe(w) \/ NotFound(w) \/ SameWindow(w)
       PROVE  Entries' /\ Reads'
  <2>1. /\ \/ Goes(w, "enter", "scan") \/ Goes(w, "scan", "window") \/ Goes(w, "scan", "scan")
           \/ Goes(w, "scan", "clear") \/ Goes(w, "window", "count")
        /\ UNCHANGED <<table, owners>>
    BY <1>10, EnterDoes, ProbeDoes, NotFoundDoes, SameWindowDoes DEF Quiet
  <2>2. QED
    BY <1>7, <1>8, <2>1 DEF Goes
<1>11. ASSUME NEW w \in Workers, Clear(w) \/ Stamp(w) \/ Zero(w) \/ Reset(w) \/ NewWindow(w)
       PROVE  Entries' /\ Reads'
  <2>1. /\ loc'[w] \notin {"add", "decide"} /\ Same(w) /\ UNCHANGED owners
        /\ \A s \in Slots : table'[s].count = table[s].count \/ table'[s].count = 0
    BY <1>11, ClearDoes, StampDoes, NoCountDoes, NewWindowDoes DEF Goes, Stores, Entry
  <2>2. QED
    BY <1>7, <1>8, <2>1
<1>12. ASSUME NEW w \in Workers, Name(w) PROVE Entries' /\ Reads'
  <2>1. /\ Goes(w, "name", "stamp") /\ owners'[slot[w]] = owners[slot[w]] \cup {card[w]}
        /\ slot[w] \in Slots /\ card[w] \in Cards
        /\ \A s \in Slots : s # slot[w] => owners'[s] = owners[s]
        /\ \A s \in Slots : table'[s].count = table[s].count
    BY <1>12, <1>4, NameDoes DEF Goes, Stores, Entry
  <2>2. ASSUME NEW s \in Slots, NEW c \in owners'[s] PROVE table'[s].count <= Counted(c)'
    <3>1. c \in Cards /\ Counted(c) \in Nat /\ Counted(c)' \in Int /\ Counted(c) <= Counted(c)'
      BY <1>2, <1>3
    <3>2. CASE c \in owners[s]
      BY <1>1, <1>2, <2>1, <3>1, <3>2
    <3>3. CASE c \notin owners[s]
      <4>1. s = slot[w] /\ c = card[w]
        BY <2>1, <2>2, <3>3
      <4>2. owners[s] = {}
        BY <1>5, <2>1, <3>3, <4>1
      <4>3. table[s].count = 0
        BY <4>2 DEF OwnerInv
      <4>4. QED
        BY <2>1, <3>1, <4>3
    <3>4. QED
      BY <3>2, <3>3
  <2>3. QED
    BY <1>8, <2>1, <2>2 DEF Goes
<1>13. ASSUME NEW w \in Workers, CountRead(w) PROVE Entries' /\ Reads'
  <2>1. /\ Goes(w, "count", "add") /\ UNCHANGED <<table, owners, card>> /\ read'[w] = table[slot[w]].count
        /\ slot[w] \in Slots /\ card[w] \in owners[slot[w]]
    BY <1>13, CountReadDoes, Held DEF Quiet, Goes, OwnerInv, Working
  <2>2. Entries'
    BY <1>7, <2>1
  <2>3. ASSUME NEW u \in Workers, NEW c \in Cards, card'[u] = c
        PROVE  /\ loc'[u] = "add" => read'[u] <= Counted(c)'
               /\ loc'[u] = "decide" => read'[u] + 1 <= Counted(c)'
    <3>1. Counted(c) \in Nat /\ Counted(c)' \in Int /\ Counted(c) <= Counted(c)'
      BY <1>3
    <3>2. CASE u = w
      <4>1. read'[w] <= Counted(c) /\ read'[w] \in Nat
        BY <1>1, <1>2, <2>1, <2>3, <3>2
      <4>2. QED
        BY <2>1, <3>1, <3>2, <4>1 DEF Goes
    <3>3. CASE u # w
      BY <1>1, <1>2, <2>1, <2>3, <3>1, <3>3 DEF Goes, Same
    <3>4. QED
      BY <3>2, <3>3
  <2>4. QED
    BY <2>2, <2>3
<1>14. ASSUME NEW w \in Workers, CountWrite(w) PROVE Entries' /\ Reads'
  <2>1. /\ Goes(w, "add", "decide") /\ UNCHANGED <<owners, card, read>>
        /\ slot[w] \in Slots /\ card[w] \in owners[slot[w]] /\ card[w] \in Cards
        /\ table'[slot[w]].count = read[w] + 1
        /\ \A s \in Slots : s # slot[w] => table'[s] = table[s]
    BY <1>14, CountWriteDoes, Held DEF Stores, Goes, OwnerInv, Working
  <2>2. ASSUME NEW c \in Cards, c = card[w]
        PROVE  read[w] + 1 <= Counted(c)' /\ Counted(c)' = Counted(c) + 1
    BY <1>1, <1>2, <1>3, <1>14, <2>1, <2>2, CountedStep DEF Goes
  <2>3. ASSUME NEW s \in Slots, NEW c \in owners'[s] PROVE table'[s].count <= Counted(c)'
    <3>1. c \in Cards /\ Counted(c) \in Nat /\ Counted(c)' \in Int /\ Counted(c) <= Counted(c)'
      BY <1>2, <1>3
    <3>2. CASE s = slot[w]
      BY <1>5, <2>1, <2>2, <3>1, <3>2
    <3>3. CASE s # slot[w]
      BY <1>1, <1>2, <2>1, <3>1, <3>3
    <3>4. QED
      BY <3>2, <3>3
  <2>4. ASSUME NEW u \in Workers, NEW c \in Cards, card'[u] = c
        PROVE  /\ loc'[u] = "add" => read'[u] <= Counted(c)'
               /\ loc'[u] = "decide" => read'[u] + 1 <= Counted(c)'
    <3>1. Counted(c) \in Nat /\ Counted(c)' \in Int /\ Counted(c) <= Counted(c)'
      BY <1>3
    <3>2. CASE u = w
      BY <2>1, <2>2, <2>4, <3>2 DEF Goes
    <3>3. CASE u # w
      BY <1>1, <1>2, <2>1, <2>4, <3>1, <3>3 DEF Goes, Same
    <3>4. QED
      BY <3>2, <3>3
  <2>5. QED
    BY <2>3, <2>4
<1>15. ASSUME NEW w \in Workers, Decide(w) PROVE Entries' /\ Reads'
  <2>1. Goes(w, "decide", "idle") /\ UNCHANGED <<table, owners>>
    BY <1>15, DecideDoes
  <2>2. QED
    BY <1>7, <1>8, <2>1 DEF Goes
<1>16. ASSUME UNCHANGED <<table, owners, loc, read, card>> PROVE Entries' /\ Reads'
  <2>1. Reads'
    BY <1>1, <1>2, <1>3, <1>16
  <2>2. QED
    BY <1>7, <1>16, <2>1
<1>17. QED
  BY <1>9, <1>10, <1>11, <1>12, <1>13, <1>14, <1>15, <1>16, TickDoes, StepCases

\* A decision to decline follows a count that the card's own requests cover.
LEMMA RequestsAreOwn ==
  ASSUME IndInv, IndInv', OwnerInv, OwedInv, OwedInv', CountInv, OwnRequests, [Next]_vars
  PROVE  OwnRequests'
<1> SUFFICES ASSUME NoEntryReused', NEW u \in Workers, verdict'[u] = "decline"
             PROVE  card'[u] \in Cards /\ \A c \in Cards : card'[u] = c => Asked(c)' > Limit
  BY DEF OwnRequests
<1>0. NoEntryReused
  BY ReuseStays
<1>1. ASSUME NEW c \in Cards PROVE Asked(c) \in Nat /\ Asked(c)' \in Nat /\ Asked(c) <= Asked(c)'
  <2>1. Seconds \in SUBSET Seconds
    OBVIOUS
  <2>2. QED
    BY <2>1, AskedStep DEF Asked
<1>2. Limit \in Nat
  BY RiskAssumption
<1>3. ASSUME card'[u] = card[u], verdict[u] = "decline"
      PROVE  card'[u] \in Cards /\ \A c \in Cards : card'[u] = c => Asked(c)' > Limit
  BY <1>0, <1>1, <1>2, <1>3 DEF OwnRequests
<1>4. ASSUME NEW w \in Workers, NEW c \in Cards, Evaluate(w, c)
      PROVE  card'[u] = card[u] /\ verdict[u] = "decline"
  BY <1>4, EvaluateDoes DEF Goes, Same
<1>5. ASSUME NEW w \in Workers,
               \/ Enter(w) \/ Probe(w) \/ NotFound(w)
               \/ Clear(w) \/ Name(w) \/ Stamp(w) \/ Zero(w) \/ Reset(w)
               \/ SameWindow(w) \/ NewWindow(w) \/ CountRead(w) \/ CountWrite(w)
      PROVE  card'[u] = card[u] /\ verdict[u] = "decline"
  BY <1>5 DEF Enter, Probe, NotFound, Clear, Name, Stamp, Zero, Reset, SameWindow, NewWindow,
              CountRead, CountWrite, Store
<1>6. ASSUME NEW w \in Workers, Decide(w)
      PROVE  card'[u] \in Cards /\ \A c \in Cards : card'[u] = c => Asked(c)' > Limit
  <2>1. CASE u # w
    BY <1>3, <1>6, <2>1, DecideDoes DEF Goes, Same
  <2>2. CASE u = w
    <3>1. /\ loc[w] = "decide" /\ card' = card /\ card[w] \in Cards /\ card[w] \in owners[slot[w]]
          /\ slot[w] \in Slots
      BY <1>6, DecideDoes, Held DEF Goes, OwnerInv, Working
    <3>2. PICK n \in {read[w] + 1, table[slot[w]].count} : n > Limit
      BY <1>6, <2>2, DecideDoes DEF OverLimit, Entry
    <3>3. ASSUME NEW c \in Cards, card[w] = c PROVE Asked(c)' > Limit
      <4>1. n <= Counted(c) /\ n \in Nat
        <5>1. read[w] \in Nat /\ table[slot[w]].count \in Nat
          BY <3>1, Types, Held DEF Entry
        <5>2. QED
          BY <1>0, <3>1, <3>2, <3>3, <5>1 DEF CountInv
      <4>2. Owed(c) \in Nat
        BY CountedStep
      <4>3. QED
        BY <1>1, <1>2, <3>2, <4>1, <4>2 DEF Counted
    <3>4. QED
      BY <2>2, <3>1, <3>3
  <2>3. QED
    BY <2>1, <2>2
<1>7. QED
  BY <1>3, <1>4, <1>5, <1>6, TickDoes, StepCases

-----------------------------------------------------------------------------
(* Time, and evaluations that run one at a time *)

\* A step of an evaluation that is in progress, not its first.
InProgress(w) ==
  \/ Enter(w) \/ Probe(w) \/ NotFound(w)
  \/ Clear(w) \/ Name(w) \/ Stamp(w) \/ Zero(w) \/ Reset(w)
  \/ SameWindow(w) \/ NewWindow(w) \/ CountRead(w) \/ CountWrite(w) \/ Decide(w)

\* Such a step changes no other worker, and never asks for a request.
LEMMA ProgressDoes ==
  ASSUME IndInv, NEW w \in Workers, InProgress(w)
  PROVE  /\ loc[w] # "idle" /\ Same(w)
         /\ UNCHANGED <<now, card, clock, asked, overlapped, straddled>>
<1> USE DEF Goes, Quiet, Stores
<1>1. CASE Enter(w) \/ Probe(w) \/ NotFound(w) \/ SameWindow(w) \/ CountRead(w)
  BY <1>1, EnterDoes, ProbeDoes, NotFoundDoes, SameWindowDoes, CountReadDoes
<1>2. CASE Clear(w) \/ Name(w) \/ Stamp(w)
  BY <1>2, ClearDoes, NameDoes, StampDoes
<1>3. CASE Zero(w) \/ Reset(w) \/ NewWindow(w) \/ CountWrite(w)
  BY <1>3, NoCountDoes, NewWindowDoes, CountWriteDoes
<1>4. CASE Decide(w)
  BY <1>4, DecideDoes
<1>5. QED
  BY <1>1, <1>2, <1>3, <1>4 DEF InProgress

\* Workers start only at an evaluation, and a second one sets overlapped.
LEMMA AloneStep ==
  ASSUME IndInv, AloneInv, [Next]_vars PROVE AloneInv'
<1> USE DEF AloneInv, Busy
<1>1. ASSUME NEW w \in Workers, NEW c \in Cards, Evaluate(w, c) PROVE AloneInv'
  BY <1>1, EvaluateDoes DEF Goes, Same
<1>2. ASSUME NEW w \in Workers, InProgress(w) PROVE AloneInv'
  BY <1>2, ProgressDoes DEF Same
<1>3. QED
  BY <1>1, <1>2, TickDoes, StepCases DEF InProgress

\* TimeInv is inductive: the clock only moves forward.
LEMMA TimeStep ==
  ASSUME IndInv, IndInv', TimeInv, [Next]_vars PROVE TimeInv'
<1>0. /\ now \in Nat /\ now' \in Nat /\ now \in Seconds /\ Seconds \subseteq Nat
      /\ \A w \in Workers : clock[w] \in Nat /\ probe[w].now \in Nat
      /\ \A s \in Slots : table[s].start \in Nat
  <2>1. Seconds \subseteq Nat /\ now \in Seconds /\ now' \in Seconds
    BY Bounds DEF Seconds, IndInv, TypeOK
  <2>2. \A w \in Workers : clock[w] \in Nat /\ probe[w].now \in Nat
    BY Types, Bounds DEF ProbeType
  <2>3. \A s \in Slots : table[s].start \in Nat
    BY Types, Bounds DEF EntryType
  <2>4. QED
    BY <2>1, <2>2, <2>3
<1>1. ASSUME NEW w \in Workers, NEW c \in Cards, Evaluate(w, c) PROVE TimeInv'
  <2>1. /\ Goes(w, "idle", "enter") /\ card'[w] = c /\ clock'[w] = now
        /\ UNCHANGED <<now, table, probe, straddled>>
    BY <1>1, EvaluateDoes
  <2>2. ASSUME NEW d \in Cards, NEW x \in Seconds
        PROVE  /\ asked'[d][x] > 0 => x <= now'
               /\ asked[d][x] > 0 => asked'[d][x] > 0
               /\ d = c /\ x = now => asked'[d][x] > 0
    <3>1. asked[d] \in [Seconds -> Nat]
      BY Types DEF Histories
    <3>2. d = c => asked'[d] = Plus(asked[d], now)
      BY <1>1, EvaluateDoes
    <3>3. d # c => asked'[d] = asked[d]
      BY <1>1, EvaluateDoes
    <3>4. QED
      BY <1>0, <2>1, <3>1, <3>2, <3>3 DEF Plus, TimeInv
  <2>3. \A u \in Workers : loc[u] # "idle" => card[u] \in Cards /\ clock[u] \in Seconds
    BY Held
  <2>4. QED
    BY <1>0, <2>1, <2>2, <2>3 DEF Goes, Same, TimeInv
<1>2. ASSUME NEW w \in Workers, InProgress(w) PROVE TimeInv'
  <2>1. /\ loc[w] # "idle" /\ Same(w) /\ UNCHANGED <<now, card, clock, asked, straddled>>
    BY <1>2, ProgressDoes
  <2>2. \A s \in Slots : table'[s].start <= now
    <3>1. CASE Stamp(w) \/ NewWindow(w) \/ Clear(w)
      BY <1>0, <3>1, StampDoes, NewWindowDoes, ClearDoes DEF Stores, TimeInv
    <3>2. CASE Name(w) \/ Zero(w) \/ Reset(w) \/ CountWrite(w)
      BY <1>0, <3>2, NameDoes, NoCountDoes, CountWriteDoes DEF Stores, TimeInv, Entry
    <3>3. CASE UNCHANGED table
      BY <3>3 DEF TimeInv
    <3>4. QED
      BY <1>2, <3>1, <3>2, <3>3, EnterDoes, ProbeDoes, NotFoundDoes, SameWindowDoes, CountReadDoes,
         DecideDoes DEF InProgress, Quiet
  <2>3. /\ probe'[w].now <= now
        /\ loc'[w] \in {"scan", "clear", "name", "stamp"} => clock[w] <= probe'[w].now
    <3>1. CASE Enter(w)
      BY <1>0, <3>1, EnterDoes DEF Goes, TimeInv
    <3>2. CASE Probe(w)
      BY <1>0, <3>2, ProbeDoes DEF Goes, TimeInv
    <3>3. CASE NotFound(w) \/ Clear(w) \/ Name(w)
      BY <1>0, <3>3, NotFoundDoes, ClearDoes, NameDoes DEF Goes, TimeInv
    <3>4. CASE Stamp(w)
      BY <1>0, <3>4, StampDoes DEF Goes, TimeInv
    <3>5. CASE Zero(w) \/ Reset(w) \/ SameWindow(w) \/ NewWindow(w) \/ CountRead(w) \/ CountWrite(w)
      BY <1>0, <3>5, NoCountDoes, SameWindowDoes, NewWindowDoes, CountReadDoes, CountWriteDoes
         DEF Goes, TimeInv
    <3>6. CASE Decide(w)
      BY <1>0, <3>6, DecideDoes DEF Goes, TimeInv
    <3>7. QED
      BY <1>2, <3>1, <3>2, <3>3, <3>4, <3>5, <3>6 DEF InProgress
  <2>4. QED
    BY <2>1, <2>2, <2>3 DEF Same, TimeInv
<1>3. CASE Tick
  <2>1. \A w \in Workers : loc[w] # "idle" => straddled'
    BY <1>3, TickDoes DEF Busy
  <2>2. /\ now' = now + 1
        /\ UNCHANGED <<table, loc, card, clock, probe, asked>>
    BY <1>3, TickDoes
  <2>3. /\ \A s \in Slots : table'[s].start <= now'
        /\ \A c \in Cards, x \in Seconds : asked'[c][x] > 0 => x <= now'
    BY <1>0, <2>2 DEF TimeInv
  <2>4. ASSUME NEW w \in Workers
        PROVE  /\ clock'[w] <= now' /\ probe'[w].now <= now'
               /\ loc'[w] \in {"scan", "clear", "name", "stamp"} => clock'[w] <= probe'[w].now
               /\ loc'[w] # "idle" => asked'[card'[w]][clock'[w]] > 0
    BY <1>0, <2>2 DEF TimeInv
  <2>5. QED
    BY <2>1, <2>2, <2>3, <2>4 DEF TimeInv
<1>4. QED
  BY <1>1, <1>2, <1>3, StepCases DEF InProgress, TimeInv

\* Only a decision allows a request, in the second its evaluation read.
LEMMA AllowedStep ==
  ASSUME IndInv, [Next]_vars, NEW d \in Cards, allowed'[d] # allowed[d]
  PROVE  \E w \in Workers : Decide(w) /\ card[w] = d
<1>1. ASSUME NEW w \in Workers, NEW c \in Cards, Evaluate(w, c) PROVE FALSE
  BY <1>1, EvaluateDoes
<1>2. ASSUME NEW w \in Workers, InProgress(w), ~Decide(w) PROVE FALSE
  <2>1. UNCHANGED allowed
    BY <1>2 DEF InProgress, Enter, Probe, NotFound, Clear, Name, Stamp, Zero, Reset, SameWindow, NewWindow,
              CountRead, CountWrite, Store, history
  <2>2. QED
    BY <2>1
<1>3. ASSUME NEW w \in Workers, Decide(w) PROVE card[w] = d
  BY <1>3, DecideDoes
<1>4. QED
  BY <1>1, <1>2, <1>3, TickDoes, StepCases DEF InProgress

\* Only Name adds an owner to an entry.
LEMMA OwnersGrow ==
  ASSUME IndInv, [Next]_vars
  PROVE  /\ \A s \in Slots : owners[s] \subseteq owners'[s]
         /\ (\A w \in Workers : ~Name(w)) => owners' = owners
<1>1. ASSUME NEW w \in Workers, Name(w) PROVE \A s \in Slots : owners[s] \subseteq owners'[s]
  BY <1>1, NameDoes DEF Stores
<1>2. ASSUME NEW w \in Workers, \/ \E c \in Cards : Evaluate(w, c)
                                \/ InProgress(w) /\ ~Name(w)
      PROVE  owners' = owners
  BY <1>2 DEF InProgress, Evaluate, Enter, Probe, NotFound, Clear, Stamp, Zero, Reset, SameWindow,
              NewWindow, CountRead, CountWrite, Decide, Store, history
<1>3. QED
  BY <1>1, <1>2, TickDoes, StepCases DEF InProgress

\* UnownedInv is inductive: the decision belongs to an owner.
LEMMA UnownedStep ==
  ASSUME IndInv, OwnerInv, UnownedInv, [Next]_vars PROVE UnownedInv'
<1> SUFFICES ASSUME NEW d \in Cards, \A s \in Slots : d \notin owners'[s]
             PROVE  \A x \in Seconds : allowed'[d][x] = 0
  BY DEF UnownedInv
<1>1. \A s \in Slots : d \notin owners[s]
  BY OwnersGrow
<1>2. allowed'[d] = allowed[d]
  <2>1. ASSUME NEW w \in Workers, Decide(w), card[w] = d PROVE FALSE
    BY <1>1, <2>1, DecideDoes, Held DEF Goes, OwnerInv, Working
  <2>2. QED
    BY <2>1, AllowedStep
<1>3. QED
  BY <1>1, <1>2 DEF UnownedInv

\* A step inside an evaluation that runs alone and gives no entry away.
LEMMA SettledFrame ==
  ASSUME AloneAndSettled, NEW w \in Workers, \A u \in Workers : u # w => loc[u] = "idle",
         Same(w), UNCHANGED <<owners, allowed>>, loc[w] # "name",
         \A s \in Slots : table'[s] = table[s] \/ (s = slot'[w] /\ loc'[w] \in Working),
         \A s \in Slots : table'[s].pan = table[s].pan \/ (s = slot'[w] /\ loc'[w] = "name"),
         loc[w] \in Working => loc'[w] \in Working /\ slot'[w] = slot[w],
         InStep(w)'
  PROVE  AloneAndSettled'
<1>1. \A u \in Workers : u # w => loc'[u] = "idle"
  BY DEF Same
<1>2. ASSUME NEW u \in Workers PROVE InStep(u)'
  BY <1>1 DEF InStep
<1>3. ASSUME NEW s \in Slots, NEW c \in owners'[s]
      PROVE  table'[s].pan = c \/ \E v \in Workers : loc'[v] = "name" /\ slot'[v] = s
  BY DEF AloneAndSettled
<1>4. ASSUME NEW s \in Slots, Free(s)', NEW c \in owners'[s]
      PROVE  Settled(Hist(c), table[s].start, table[s].count)'
  <2>1. Free(s)
    BY <1>4 DEF Free, Working
  <2>2. table'[s] = table[s]
    BY <1>4 DEF Free
  <2>3. Hist(c)' = Hist(c)
    BY DEF Hist
  <2>4. QED
    BY <2>1, <2>2, <2>3 DEF AloneAndSettled
<1>5. QED
  BY <1>2, <1>3, <1>4 DEF AloneAndSettled

\* SeqInv is inductive: the window test, the reset, the increment and the
\* decision turn a settled entry into a settled entry.
LEMMA SeqStep ==
  ASSUME IndInv, IndInv', OwnerInv, AloneInv, TimeInv, UnownedInv, SeqInv, [Next]_vars
  PROVE  SeqInv'
<1> SUFFICES ASSUME ~overlapped', NoEntryReused' PROVE AloneAndSettled'
  BY DEF SeqInv
<1>0. NoEntryReused /\ \A s \in Slots : \A c, d \in owners'[s] : c = d
  BY ReuseStays DEF NoEntryReused
<1>1. /\ owners \in [Slots -> SUBSET Cards] /\ allowed \in Histories
      /\ Slots = 1..Cap /\ Window \in Nat \ {0} /\ Cap \in Nat
  BY Types, RiskAssumption DEF Slots
<1>2. ASSUME NEW w \in Workers, NEW c \in Cards, Evaluate(w, c) PROVE AloneAndSettled'
  <2>1. /\ Goes(w, "idle", "enter") /\ clock'[w] = now
        /\ UNCHANGED <<table, owners, allowed>>
        /\ overlapped' <=> (overlapped \/ Busy # {})
    BY <1>2, EvaluateDoes
  <2>2. ~overlapped /\ Busy = {}
    BY <2>1
  <2>3. AloneAndSettled /\ \A u \in Workers : loc[u] = "idle"
    BY <1>0, <2>2 DEF SeqInv, Busy
  <2>4. InStep(w)'
    BY <2>1 DEF Goes, InStep, TimeInv
  <2>5. Working \cap {"idle", "enter"} = {}
    BY DEF Working
  <2>6. loc[w] \notin Working /\ loc[w] # "name"
    BY <2>3, <2>5 DEF Working
  <2>7. QED
    BY <2>1, <2>3, <2>4, <2>6, SettledFrame DEF Goes
<1>3. ASSUME NEW w \in Workers, InProgress(w)
      PROVE  /\ ~overlapped /\ AloneAndSettled /\ InStep(w) /\ Same(w)
             /\ \A u \in Workers : u # w => loc[u] = "idle"
             /\ card[w] \in Cards /\ clock[w] \in Seconds /\ Hist(card[w]) \in [Seconds -> Nat]
             /\ loc[w] \notin Working => \A s \in Slots : Free(s)
             /\ UNCHANGED <<card, clock>> /\ (UNCHANGED allowed => Hist(card[w])' = Hist(card[w]))
  <2>1. loc[w] # "idle" /\ Same(w) /\ ~overlapped /\ UNCHANGED <<card, clock>>
    BY <1>3, ProgressDoes
  <2>2. \A u \in Workers : u # w => loc[u] = "idle"
    BY <2>1 DEF AloneInv, Busy
  <2>3. AloneAndSettled /\ InStep(w)
    BY <1>0, <2>1 DEF SeqInv, AloneAndSettled
  <2>4. card[w] \in Cards /\ clock[w] \in Seconds /\ Hist(card[w]) \in [Seconds -> Nat]
    BY <1>1, <2>1, Held DEF Histories, Hist
  <2>5. QED
    BY <2>1, <2>2, <2>3, <2>4 DEF Free, Working, Hist
<1>4. ASSUME NEW w \in Workers, Enter(w) PROVE AloneAndSettled'
  <2>1. InProgress(w) /\ Goes(w, "enter", "scan") /\ Quiet(w) /\ probe'[w].i = 1
    BY <1>4, EnterDoes DEF InProgress
  <2>2. InStep(w)'
    BY <1>3, <2>1 DEF Goes, Quiet, InStep
  <2>3. QED
    BY <1>3, <2>1, <2>2, SettledFrame DEF Goes, Quiet, Working
<1>5. ASSUME NEW w \in Workers, Probe(w) PROVE AloneAndSettled'
  <2>1. InProgress(w) /\ Quiet(w) /\ probe[w].i \in Slots /\ loc[w] = "scan"
    BY <1>5, ProbeDoes DEF InProgress, Goes
  <2>2. CASE /\ Goes(w, "scan", "window") /\ table[probe[w].i].pan = card[w] /\ card[w] # NoCard
             /\ slot'[w] = probe[w].i
    <3>1. card[w] \in owners[probe[w].i]
      BY <1>1, <1>3, <2>1, <2>2 DEF OwnerInv
    <3>2. Settled(Hist(card[w]), table[probe[w].i].start, table[probe[w].i].count)
      BY <1>3, <2>1, <3>1 DEF AloneAndSettled, Working
    <3>3. table[probe[w].i].start <= clock[w]
      BY <1>3, <2>1 DEF InStep
    <3>4. InStep(w)'
      BY <1>3, <2>1, <2>2, <3>2, <3>3 DEF Goes, Quiet, InStep, Entry
    <3>5. QED
      BY <1>3, <2>1, <2>2, <3>4, SettledFrame DEF Goes, Quiet, Working
  <2>3. CASE /\ Goes(w, "scan", "scan") /\ (card[w] = NoCard \/ table[probe[w].i].pan # card[w])
             /\ probe'[w].i = probe[w].i + 1
    <3>1. card[w] # NoCard => \A j \in 1..(probe'[w].i - 1) : table[j].pan # card[w]
      <4>1. /\ probe[w].i \in Nat
            /\ card[w] # NoCard => \A j \in 1..(probe[w].i - 1) : table[j].pan # card[w]
        BY <1>1, <1>3, <2>1 DEF InStep
      <4>2. QED
        BY <2>3, <4>1
    <3>2. InStep(w)'
      BY <1>3, <2>1, <2>3, <3>1 DEF Goes, Quiet, InStep
    <3>3. QED
      BY <1>3, <2>1, <2>3, <3>2, SettledFrame DEF Goes, Quiet, Working
  <2>4. QED
    BY <1>5, <2>2, <2>3, ProbeDoes
<1>6. ASSUME NEW w \in Workers, NotFound(w) PROVE AloneAndSettled'
  <2>1. InProgress(w) /\ Goes(w, "scan", "clear") /\ Quiet(w) /\ probe[w].i > Cap /\ probe[w].i \in Nat
    BY <1>1, <1>6, NotFoundDoes, Types DEF InProgress, ProbeType
  <2>2. card[w] # NoCard => \A s \in Slots : table[s].pan # card[w]
    BY <1>1, <1>3, <2>1 DEF InStep, Goes
  <2>3. card[w] # NoCard => \A s \in Slots : card[w] \notin owners[s]
    BY <1>3, <2>1, <2>2 DEF AloneAndSettled, Goes
  <2>4. InStep(w)'
    BY <1>3, <2>1, <2>3 DEF Goes, Quiet, InStep
  <2>5. QED
    BY <1>3, <2>1, <2>4, SettledFrame DEF Goes, Quiet, Working
<1>7. ASSUME NEW w \in Workers, Clear(w) PROVE AloneAndSettled'
  <2>1. InProgress(w) /\ Goes(w, "clear", "name") /\ Stores(w, NoCard, 0, 0) /\ UNCHANGED owners
    BY <1>7, ClearDoes DEF InProgress
  <2>2. InStep(w)'
    BY <1>3, <2>1 DEF Goes, Stores, InStep, Entry
  <2>3. QED
    BY <1>3, <2>1, <2>2, SettledFrame DEF Goes, Stores, Working
<1>8. ASSUME NEW w \in Workers, Stamp(w) PROVE AloneAndSettled'
  <2>1. /\ InProgress(w) /\ Goes(w, "stamp", "zero") /\ UNCHANGED owners
        /\ Stores(w, Entry(w).pan, probe[w].now, Entry(w).count)
    BY <1>8, StampDoes DEF InProgress
  <2>2. Entry(w).count = 0 /\ NoneYet(Hist(card[w]), probe[w].now, clock[w])
    BY <1>3, <2>1 DEF Goes, InStep, TimeInv, NoneYet
  <2>3. InStep(w)'
    BY <1>3, <2>1, <2>2 DEF Goes, Stores, InStep, Entry
  <2>4. QED
    BY <1>3, <2>1, <2>3, SettledFrame DEF Goes, Stores, Working, Entry
<1>9. ASSUME NEW w \in Workers, Zero(w) PROVE AloneAndSettled'
  <2>1. /\ InProgress(w) /\ Goes(w, "zero", "window") /\ UNCHANGED owners
        /\ Stores(w, Entry(w).pan, Entry(w).start, 0)
    BY <1>9, NoCountDoes DEF InProgress
  <2>2. NoneYet(Hist(card[w]), Entry(w).start, clock[w])
    BY <1>3, <2>1 DEF Goes, InStep
  <2>3. InStep(w)'
    BY <1>3, <2>1, <2>2 DEF Goes, Stores, InStep, Entry
  <2>4. QED
    BY <1>3, <2>1, <2>3, SettledFrame DEF Goes, Stores, Working, Entry
<1>10. ASSUME NEW w \in Workers, SameWindow(w) PROVE AloneAndSettled'
  <2>1. /\ InProgress(w) /\ Goes(w, "window", "count") /\ Quiet(w) /\ UNCHANGED slot
        /\ ~(clock[w] - Entry(w).start >= Window)
    BY <1>10, SameWindowDoes DEF InProgress
  <2>2. Entry(w).start \in Nat /\ Entry(w).count \in Nat /\ clock[w] \in Nat
    BY <1>3, <2>1, Held, SecondSets DEF Goes
  <2>3. Ready(Hist(card[w]), Entry(w).start, Entry(w).count, clock[w])
    BY <1>1, <1>3, <2>1, <2>2 DEF Goes, InStep, Ready
  <2>4. InStep(w)'
    BY <1>3, <2>1, <2>3 DEF Goes, Quiet, InStep, Entry
  <2>5. QED
    BY <1>3, <2>1, <2>4, SettledFrame DEF Goes, Quiet, Working
<1>11. ASSUME NEW w \in Workers, NewWindow(w) PROVE AloneAndSettled'
  <2>1. /\ InProgress(w) /\ Goes(w, "window", "reset") /\ UNCHANGED owners
        /\ Stores(w, Entry(w).pan, clock[w], Entry(w).count)
        /\ clock[w] - Entry(w).start >= Window
    BY <1>11, NewWindowDoes DEF InProgress
  <2>2. Entry(w).start \in Nat /\ Entry(w).count \in Nat /\ clock[w] \in Nat
    BY <1>3, <2>1, Held, SecondSets DEF Goes
  <2>3. Settled(Hist(card[w]), Entry(w).start, Entry(w).count)
    BY <1>1, <1>3, <2>1, <2>2 DEF Goes, InStep, NoneYet
  <2>4. NewPeriod(Hist(card[w]), clock[w], clock[w])
    BY <1>3, <2>1, <2>2, <2>3, WindowTurns
  <2>5. InStep(w)'
    BY <1>3, <2>1, <2>4 DEF Goes, Stores, InStep, Entry
  <2>6. QED
    BY <1>3, <2>1, <2>5, SettledFrame DEF Goes, Stores, Working, Entry
<1>12. ASSUME NEW w \in Workers, Reset(w) PROVE AloneAndSettled'
  <2>1. /\ InProgress(w) /\ Goes(w, "reset", "count") /\ UNCHANGED owners
        /\ Stores(w, Entry(w).pan, Entry(w).start, 0)
    BY <1>12, NoCountDoes DEF InProgress
  <2>2. Ready(Hist(card[w]), Entry(w).start, 0, clock[w])
    BY <1>3, <2>1 DEF Goes, InStep, Ready
  <2>3. InStep(w)'
    BY <1>3, <2>1, <2>2 DEF Goes, Stores, InStep, Entry
  <2>4. QED
    BY <1>3, <2>1, <2>3, SettledFrame DEF Goes, Stores, Working, Entry
<1>13. ASSUME NEW w \in Workers, CountRead(w) PROVE AloneAndSettled'
  <2>1. /\ InProgress(w) /\ Goes(w, "count", "add") /\ Quiet(w) /\ UNCHANGED slot
        /\ read'[w] = Entry(w).count
    BY <1>13, CountReadDoes DEF InProgress
  <2>2. Ready(Hist(card[w]), Entry(w).start, Entry(w).count, clock[w])
    BY <1>3, <2>1 DEF Goes, InStep
  <2>3. InStep(w)'
    BY <1>3, <2>1, <2>2 DEF Goes, Quiet, InStep, Entry
  <2>4. QED
    BY <1>3, <2>1, <2>3, SettledFrame DEF Goes, Quiet, Working
<1>14. ASSUME NEW w \in Workers, CountWrite(w) PROVE AloneAndSettled'
  <2>1. /\ InProgress(w) /\ Goes(w, "add", "decide") /\ UNCHANGED owners
        /\ Stores(w, Entry(w).pan, Entry(w).start, read[w] + 1)
    BY <1>14, CountWriteDoes DEF InProgress
  <2>2. Ready(Hist(card[w]), Entry(w).start, read[w], clock[w])
    BY <1>3, <2>1 DEF Goes, InStep
  <2>3. InStep(w)'
    BY <1>3, <2>1, <2>2 DEF Goes, Stores, InStep, Entry
  <2>4. QED
    BY <1>3, <2>1, <2>3, SettledFrame DEF Goes, Stores, Working, Entry
\* The entry gets the card: nobody had it before.
<1>15. ASSUME NEW w \in Workers, Name(w) PROVE AloneAndSettled'
  <2>1. /\ InProgress(w) /\ Goes(w, "name", "stamp")
        /\ Stores(w, card[w], Entry(w).start, Entry(w).count)
        /\ owners'[slot[w]] = owners[slot[w]] \cup {card[w]}
        /\ \A s \in Slots : s # slot[w] => owners'[s] = owners[s]
    BY <1>15, NameDoes DEF InProgress
  <2>2. card[w] # NoCard => \A s \in Slots : card[w] \notin owners[s]
    BY <1>3, <2>1 DEF Goes, InStep
  <2>3. owners'[slot[w]] = {card[w]}
    BY <1>0, <2>1 DEF Stores
  <2>4. \A x \in Seconds : Hist(card[w])[x] = 0
    BY <1>3, <2>1, <2>2 DEF UnownedInv, Hist
  <2>5. Entry(w).count = 0
    BY <1>3, <2>1 DEF Goes, InStep
  <2>6. InStep(w)'
    BY <1>3, <2>1, <2>4, <2>5 DEF Goes, Stores, InStep, Entry
  <2>7. ASSUME NEW u \in Workers PROVE InStep(u)'
    BY <1>3, <2>1, <2>6 DEF Goes, Same, InStep
  <2>8. ASSUME NEW s \in Slots, NEW c \in owners'[s] PROVE table'[s].pan = c
    <3>1. CASE s = slot[w]
      BY <2>1, <2>3, <3>1 DEF Stores
    <3>2. CASE s # slot[w]
      BY <1>3, <2>1, <3>2 DEF Stores, AloneAndSettled
    <3>3. QED
      BY <3>1, <3>2
  <2>9. ASSUME NEW r \in Slots, NEW s \in Slots, NEW c \in Cards \ {NoCard}, c \in owners'[r], c \in owners'[s]
        PROVE  r = s
    BY <1>3, <2>1, <2>2, <2>3, <2>9 DEF AloneAndSettled
  <2>10. ASSUME NEW s \in Slots, Free(s)', NEW c \in owners'[s]
         PROVE  Settled(Hist(c), table[s].start, table[s].count)'
    <3>1. s # slot[w]
      BY <2>1, <2>10 DEF Free, Goes, Stores, Working
    <3>2. Free(s) /\ table'[s] = table[s] /\ owners'[s] = owners[s]
      BY <1>3, <2>1, <3>1 DEF Free, Goes, Stores, Working
    <3>3. Hist(c)' = Hist(c)
      BY <2>1 DEF Hist, Stores
    <3>4. QED
      BY <1>3, <2>1, <3>2, <3>3 DEF AloneAndSettled, Stores
  <2>11. \A c \in Cards \ {NoCard}, y \in Seconds : Total(allowed'[c], Recent(y)) <= 2 * Limit - 1
    BY <1>3, <2>1 DEF AloneAndSettled, Stores
  <2>12. QED
    BY <2>7, <2>8, <2>9, <2>10, <2>11 DEF AloneAndSettled
<1>16. ASSUME NEW w \in Workers, Decide(w) PROVE AloneAndSettled'
  <2> DEFINE f == Hist(card[w])
             g == IF card[w] = NoCard THEN f ELSE Admit(f, read[w], clock[w])
  <2>1. /\ InProgress(w) /\ Goes(w, "decide", "idle")
        /\ UNCHANGED <<table, card, clock, owners>>
        /\ \A d \in Cards : d # card[w] => allowed'[d] = allowed[d]
    BY <1>16, DecideDoes DEF InProgress
  <2>2. /\ Ready(f, Entry(w).start, read[w], clock[w]) /\ read[w] + 1 = Entry(w).count
        /\ slot[w] \in Slots /\ Entry(w) = table[slot[w]] /\ Entry(w).start \in Nat
        /\ read[w] \in Nat /\ card[w] \in owners[slot[w]]
    BY <1>3, <2>1, Held, Types DEF Goes, InStep, OwnerInv, Working
  <2>3. Hist(card[w])' = g
    BY <1>3, <1>16, <2>1, <2>2, DecideDoes DEF Admit, Hist
  <2>4. Settled(g, table[slot[w]].start, table[slot[w]].count)
    <3>1. CASE card[w] # NoCard
      BY <1>3, <2>1, <2>2, <3>1, Admitted
    <3>2. CASE card[w] = NoCard
      BY <2>2, <3>2, NothingSettled DEF Hist
    <3>3. QED
      BY <3>1, <3>2
  <2>5. ASSUME NEW y \in Seconds, card[w] # NoCard PROVE Total(g, Recent(y)) <= 2 * Limit - 1
    <3>1. \A z \in Seconds : Total(f, Recent(z)) <= 2 * Limit - 1
      BY <1>3, <2>1, <2>5 DEF AloneAndSettled, Hist
    <3>2. QED
      BY <1>3, <2>1, <2>2, <2>5, <3>1, BurstStep
  <2> HIDE DEF g, f
  <2>6. ASSUME NEW c \in Cards \ {NoCard}, NEW y \in Seconds
        PROVE  Total(allowed'[c], Recent(y)) <= 2 * Limit - 1
    BY <1>3, <2>1, <2>3, <2>5 DEF AloneAndSettled, Hist
  <2>7. ASSUME NEW s \in Slots, NEW c \in owners'[s]
        PROVE  Settled(Hist(c), table[s].start, table[s].count)'
    <3>1. CASE s = slot[w]
      <4>1. c = card[w]
        BY <1>0, <2>1, <2>2, <3>1
      <4>2. QED
        BY <2>1, <2>3, <2>4, <3>1, <4>1
    <3>2. CASE s # slot[w]
      <4>1. Hist(c)' = Hist(c)
        <5>1. c \in Cards /\ (c = NoCard \/ c # card[w])
          BY <1>1, <1>3, <2>1, <2>2, <3>2 DEF AloneAndSettled
        <5>2. QED
          BY <2>1, <5>1 DEF Hist
      <4>2. Free(s)
        BY <1>3, <2>1, <3>2 DEF Free, Working
      <4>3. QED
        BY <1>3, <2>1, <4>1, <4>2 DEF AloneAndSettled
    <3>3. QED
      BY <3>1, <3>2
  <2>8. ASSUME NEW u \in Workers PROVE InStep(u)'
    BY <1>3, <2>1 DEF Goes, Same, InStep
  <2>9. QED
    BY <1>3, <2>1, <2>6, <2>7, <2>8 DEF AloneAndSettled, Goes
<1>17. ASSUME UNCHANGED <<table, loc, card, clock, probe, slot, read, allowed, owners, overlapped>>
       PROVE  AloneAndSettled'
  <2>1. AloneAndSettled
    BY <1>0, <1>17 DEF SeqInv
  <2>2. ASSUME NEW u \in Workers PROVE InStep(u)'
    BY <1>17, <2>1 DEF AloneAndSettled, InStep, Entry, Hist
  <2>3. ASSUME NEW c PROVE Hist(c)' = Hist(c)
    BY <1>17 DEF Hist
  <2>4. QED
    BY <1>17, <2>1, <2>2, <2>3 DEF AloneAndSettled, Free
<1>18. QED
  BY <1>2, <1>4, <1>5, <1>6, <1>7, <1>8, <1>9, <1>10, <1>11, <1>12, <1>13, <1>14, <1>15, <1>16, <1>17,
     TickDoes, StepCases

\* Only the store of a count settles a request of an evaluation in progress.
LEMMA OwedKept ==
  ASSUME IndInv, OwedInv, [Next]_vars, NEW w \in Workers, InProgress(w), loc[w] # "add", NEW d \in Cards
  PROVE  Owed(d)' = Owed(d)
<1>1. loc[w] # "idle" /\ Same(w)
  BY ProgressDoes
<1>2. ASSUME NEW v \in Workers, Evaluate(v, d) PROVE FALSE
  BY <1>1, <1>2, EvaluateDoes DEF Goes, Same
<1>3. ASSUME NEW v \in Workers, CountWrite(v) PROVE FALSE
  BY <1>1, <1>3, CountWriteDoes DEF Goes, Same
<1>4. QED
  BY <1>2, <1>3, OwedStep DEF OwedInv

\* SinceInv is inductive.
LEMMA SinceStep ==
  ASSUME IndInv, IndInv', OwnerInv, OwedInv, OwedInv', OwnRequests, AloneInv, TimeInv, SeqInv,
         SinceInv, [Next]_vars
  PROVE  SinceInv'
<1> DEFINE Undisturbed(s) == \A w \in Workers : loc[w] = "reset" => slot[w] # s
           Entries == \A s \in Slots : Undisturbed(s) =>
                        \A c \in owners[s] :
                          table[s].count + Owed(c) <= Total(asked[c], Since(table[s].start))
           Declines == \A w \in Workers : verdict[w] = "decline" =>
                         Total(asked[card[w]], Recent(clock[w])) > Limit
<1> SUFFICES ASSUME ~overlapped', ~straddled', NoEntryReused' PROVE Entries' /\ Declines'
  BY DEF SinceInv
<1>1. /\ NoEntryReused /\ \A s \in Slots : \A c, d \in owners'[s] : c = d
      /\ \A s \in Slots : \A c, d \in owners[s] : c = d
  BY ReuseStays DEF NoEntryReused
<1>2. /\ owners \in [Slots -> SUBSET Cards] /\ owners' \in [Slots -> SUBSET Cards]
      /\ \A s \in Slots : table[s].count \in Nat /\ table[s].start \in Nat
      /\ now \in Seconds /\ Limit \in Nat /\ Window \in Nat \ {0} /\ Seconds \subseteq Nat
  <2>1. owners \in [Slots -> SUBSET Cards] /\ owners' \in [Slots -> SUBSET Cards]
    BY DEF IndInv, TypeOK
  <2>2. \A s \in Slots : table[s].count \in Nat /\ table[s].start \in Nat
    BY Types, Bounds DEF EntryType
  <2>3. now \in Seconds /\ Limit \in Nat /\ Window \in Nat \ {0} /\ Seconds \subseteq Nat
    BY Types, RiskAssumption DEF Seconds
  <2>4. QED
    BY <2>1, <2>2, <2>3
<1>3. ASSUME NEW c \in Cards
      PROVE  /\ IsFiniteSet(Pending(c)) /\ IsFiniteSet(Pending(c)')
             /\ Owed(c) \in Nat /\ Owed(c)' \in Nat /\ Asked(c)' \in Nat /\ Owed(c)' <= Asked(c)'
  <2>1. IsFiniteSet(Pending(c)) /\ IsFiniteSet(Pending(c)') /\ Counted(c)' >= 0
    BY DEF OwedInv
  <2>2. Owed(c) \in Nat /\ Owed(c)' \in Nat
    BY <2>1, FS_CardinalityType DEF Owed
  <2>3. Asked(c)' \in Nat
    BY AskedStep, SecondSets DEF Asked
  <2>4. QED
    BY <2>1, <2>2, <2>3 DEF Counted
<1>4. ASSUME NEW c \in Cards, NEW t
      PROVE  /\ Total(asked[c], Since(t)) \in Nat /\ Total(asked'[c], Since(t)) \in Nat
             /\ Total(asked[c], Since(t)) <= Total(asked'[c], Since(t))
             /\ Total(asked[c], Recent(t)) \in Nat /\ Total(asked'[c], Recent(t)) \in Nat
             /\ Total(asked[c], Recent(t)) <= Total(asked'[c], Recent(t))
  BY AskedStep, SecondSets
<1>5. Since(0) = Seconds
  BY RiskAssumption DEF Since, Seconds
\* What was declined stays justified.
<1>6. ASSUME ~overlapped, ~straddled, NEW u \in Workers, verdict'[u] = "decline",
             verdict[u] = "decline", card'[u] = card[u], clock'[u] = clock[u]
      PROVE  Total(asked'[card'[u]], Recent(clock'[u])) > Limit
  <2>1. card[u] \in Cards
    BY <1>1, <1>6 DEF OwnRequests
  <2>2. Total(asked[card[u]], Recent(clock[u])) > Limit
    BY <1>1, <1>6 DEF SinceInv
  <2>3. QED
    BY <1>2, <1>4, <1>6, <2>1, <2>2
<1>7. ASSUME NEW w \in Workers, NEW d \in Cards, Evaluate(w, d) PROVE Entries' /\ Declines'
  <2>1. /\ Goes(w, "idle", "enter") /\ card'[w] = d /\ verdict'[w] = "none"
        /\ asked'[d] = Plus(asked[d], now)
        /\ overlapped' <=> (overlapped \/ Busy # {})
        /\ UNCHANGED <<now, table, slot, owners, straddled>>
    BY <1>7, EvaluateDoes
  <2>2. ~overlapped /\ ~straddled /\ \A u \in Workers : loc[u] = "idle"
    BY <2>1 DEF Busy
  <2>3. Declines'
    BY <1>6, <2>1, <2>2 DEF Goes, Same
  <2>4. ASSUME NEW s \in Slots, NEW c \in owners'[s]
        PROVE  table'[s].count + Owed(c)' <= Total(asked'[c], Since(table'[s].start))
    <3>1. c \in Cards /\ c \in owners[s] /\ table'[s] = table[s]
      BY <1>2, <2>1
    <3>2. table[s].count + Owed(c) <= Total(asked[c], Since(table[s].start))
      BY <1>1, <2>2, <3>1 DEF SinceInv
    <3>3. \A v \in Workers : ~CountWrite(v)
      BY <2>2, CountWriteDoes DEF Goes
    <3>4. CASE c = d
      <4>1. Owed(c)' = Owed(c) + 1
        BY <1>3, <1>7, <3>1, <3>3, <3>4, OwedStep
      <4>2. now \in Since(table[s].start)
        BY <1>2 DEF Since, TimeInv
      <4>3. asked[c] \in [Seconds -> Nat]
        BY <3>1, AskedStep
      <4>4. Total(asked'[c], Since(table[s].start)) = Total(asked[c], Since(table[s].start)) + 1
        BY <1>2, <2>1, <3>4, <4>2, <4>3, SecondSets, TotalBump
      <4>5. QED
        BY <1>2, <1>3, <1>4, <3>1, <3>2, <4>1, <4>4
    <3>5. CASE c # d
      <4>1. \A v \in Workers : ~Evaluate(v, c)
        BY <2>1, <3>1, <3>5, EvaluateDoes DEF Goes, Same
      <4>2. Owed(c)' = Owed(c)
        BY <1>3, <3>1, <3>3, <4>1, OwedStep
      <4>3. QED
        BY <1>2, <1>3, <1>4, <3>1, <3>2, <4>2
    <3>6. QED
      BY <3>4, <3>5
  <2>5. QED
    BY <2>3, <2>4
<1>8. ASSUME NEW w \in Workers, InProgress(w)
      PROVE  /\ ~overlapped /\ ~straddled /\ Entries /\ Declines /\ Same(w) /\ InStep(w)
             /\ \A u \in Workers : u # w => loc[u] = "idle" /\ loc'[u] = "idle"
             /\ card[w] \in Cards /\ clock[w] \in Seconds /\ clock[w] = now
             /\ asked[card[w]] \in [Seconds -> Nat] /\ asked[card[w]][now] > 0
             /\ UNCHANGED <<now, card, clock, asked>>
  <2>1. /\ loc[w] # "idle" /\ Same(w) /\ ~overlapped /\ ~straddled
        /\ UNCHANGED <<now, card, clock, asked>>
    BY <1>8, ProgressDoes
  <2>2. \A u \in Workers : u # w => loc[u] = "idle" /\ loc'[u] = "idle"
    BY <2>1 DEF AloneInv, Busy, Same
  <2>3. InStep(w)
    BY <1>1, <2>1 DEF SeqInv, AloneAndSettled
  <2>4. Entries /\ Declines
    BY <1>1, <2>1 DEF SinceInv
  <2>5. card[w] \in Cards /\ clock[w] \in Seconds /\ clock[w] = now /\ asked[card[w]][now] > 0
    BY <2>1, Held DEF TimeInv
  <2>6. QED
    BY <2>1, <2>2, <2>3, <2>4, <2>5, AskedStep
\* One step of an evaluation, by what it does to an entry.
<1>9. ASSUME NEW w \in Workers, InProgress(w), ~CountWrite(w), NEW s \in Slots,
             Undisturbed(s), table'[s].count = table[s].count \/ table'[s].count = 0,
             table'[s].start = table[s].start, owners'[s] = owners[s], NEW c \in owners'[s]
      PROVE  table'[s].count + Owed(c)' <= Total(asked'[c], Since(table'[s].start))
  <2>1. c \in Cards /\ Owed(c)' = Owed(c)
    <3>1. loc[w] # "add"
      BY <1>9 DEF InProgress, Enter, Probe, NotFound, Clear, Name, Stamp, Zero, Reset, SameWindow, NewWindow,
                  CountRead, Decide
    <3>2. QED
      BY <1>2, <1>9, <3>1, OwedKept
  <2>2. table[s].count + Owed(c) <= Total(asked[c], Since(table[s].start))
    BY <1>8, <1>9
  <2>3. QED
    BY <1>2, <1>3, <1>4, <1>9, <2>1, <2>2
\* An entry that counts nothing, from the current second on.
<1>10. ASSUME NEW w \in Workers, InProgress(w), NEW s \in Slots, table'[s].count = 0,
              table'[s].start = now, NEW c \in owners'[s], card[w] \in owners'[s]
       PROVE  table'[s].count + Owed(c)' <= Total(asked'[c], Since(table'[s].start))
  <2>1. c = card[w] /\ c \in Cards
    BY <1>1, <1>8, <1>10
  <2>2. Owed(c)' \in Nat /\ Owed(c)' <= 1
    <3>1. Pending(c)' \in SUBSET {w}
      BY <1>8, <1>10 DEF Pending
    <3>2. IsFiniteSet({w}) /\ Cardinality({w}) = 1
      BY FS_Singleton
    <3>3. Cardinality(Pending(c)') <= Cardinality({w})
      BY <3>1, <3>2, FS_Subset
    <3>4. QED
      BY <1>3, <2>1, <3>2, <3>3 DEF Owed
  <2>3. now \in Since(now)
    BY <1>2 DEF Since
  <2>4. Total(asked[c], Since(now)) >= 1
    BY <1>8, <1>10, <2>1, <2>3, SecondSets, TotalSome
  <2>5. QED
    BY <1>4, <1>8, <1>10, <2>1, <2>2, <2>4
<1>11. ASSUME NEW w \in Workers, InProgress(w), NEW s \in Slots, table'[s].count = 0,
              table'[s].start = 0, NEW c \in owners'[s]
       PROVE  table'[s].count + Owed(c)' <= Total(asked'[c], Since(table'[s].start))
  <2>1. c \in Cards
    BY <1>2
  <2>2. QED
    BY <1>3, <1>5, <1>11, <2>1 DEF Asked
<1>12. ASSUME NEW w \in Workers, InProgress(w), UNCHANGED verdict PROVE Declines'
  BY <1>6, <1>8, <1>12
<1>13. ASSUME NEW w \in Workers, Enter(w) \/ Probe(w) \/ NotFound(w) \/ SameWindow(w) \/ CountRead(w)
       PROVE  Entries' /\ Declines'
  <2>1. /\ InProgress(w) /\ ~CountWrite(w) /\ UNCHANGED <<table, owners, verdict>> /\ loc[w] # "reset"
    BY <1>13, EnterDoes, ProbeDoes, NotFoundDoes, SameWindowDoes, CountReadDoes, CountWriteDoes
       DEF InProgress, Goes, Quiet
  <2>2. \A s \in Slots : Undisturbed(s)
    BY <1>8, <2>1
  <2>3. QED
    BY <1>9, <1>12, <2>1, <2>2
<1>14. ASSUME NEW w \in Workers, Clear(w) \/ Name(w) PROVE Entries' /\ Declines'
  <2>1. /\ InProgress(w) /\ ~CountWrite(w) /\ UNCHANGED verdict /\ loc[w] # "reset" /\ slot[w] \in Slots
        /\ \A s \in Slots : s # slot[w] => table'[s] = table[s] /\ owners'[s] = owners[s]
    BY <1>14, ClearDoes, NameDoes, CountWriteDoes DEF InProgress, Goes, Stores
  <2>2. table'[slot[w]].count = 0 /\ table'[slot[w]].start = 0
    BY <1>8, <1>14, <2>1, ClearDoes, NameDoes DEF Goes, Stores, InStep
  <2>3. \A s \in Slots : Undisturbed(s)
    BY <1>8, <2>1
  <2>4. ASSUME NEW s \in Slots, NEW c \in owners'[s]
        PROVE  table'[s].count + Owed(c)' <= Total(asked'[c], Since(table'[s].start))
    <3>1. CASE s = slot[w]
      BY <1>11, <2>1, <2>2, <3>1
    <3>2. CASE s # slot[w]
      BY <1>9, <2>1, <2>3, <3>2
    <3>3. QED
      BY <3>1, <3>2
  <2>5. QED
    BY <1>12, <2>1, <2>4
<1>15. ASSUME NEW w \in Workers, Stamp(w) PROVE Entries' /\ Declines'
  <2>1. /\ InProgress(w) /\ ~CountWrite(w) /\ UNCHANGED <<verdict, owners>> /\ loc[w] = "stamp"
        /\ slot[w] \in Slots /\ \A s \in Slots : s # slot[w] => table'[s] = table[s]
        /\ table'[slot[w]].start = probe[w].now /\ table'[slot[w]].count = Entry(w).count
    BY <1>15, StampDoes, CountWriteDoes DEF InProgress, Goes, Stores
  <2>2. Entry(w).count = 0 /\ card[w] \in owners[slot[w]]
    BY <1>8, <2>1 DEF InStep, OwnerInv, Working
  <2>3. probe[w].now = now
    <3>1. probe[w].now \in Nat /\ now \in Nat /\ now <= probe[w].now /\ probe[w].now <= now
      BY <1>2, <1>8, <2>1, Types, Bounds DEF TimeInv, ProbeType
    <3>2. QED
      BY <3>1
  <2>4. \A s \in Slots : Undisturbed(s)
    BY <1>8, <2>1
  <2>5. ASSUME NEW s \in Slots, NEW c \in owners'[s]
        PROVE  table'[s].count + Owed(c)' <= Total(asked'[c], Since(table'[s].start))
    <3>1. CASE s = slot[w]
      BY <1>10, <2>1, <2>2, <2>3, <3>1
    <3>2. CASE s # slot[w]
      BY <1>9, <2>1, <2>4, <3>2
    <3>3. QED
      BY <3>1, <3>2
  <2>6. QED
    BY <1>12, <2>1, <2>5
<1>16. ASSUME NEW w \in Workers, Zero(w) PROVE Entries' /\ Declines'
  <2>1. /\ InProgress(w) /\ ~CountWrite(w) /\ UNCHANGED <<verdict, owners>> /\ loc[w] # "reset"
        /\ \A s \in Slots : /\ table'[s].count = table[s].count \/ table'[s].count = 0
                            /\ table'[s].start = table[s].start
    BY <1>16, NoCountDoes, CountWriteDoes DEF InProgress, Goes, Stores, Entry
  <2>2. \A s \in Slots : Undisturbed(s)
    BY <1>8, <2>1
  <2>3. QED
    BY <1>9, <1>12, <2>1, <2>2
<1>17. ASSUME NEW w \in Workers, NewWindow(w) PROVE Entries' /\ Declines'
  <2>1. /\ InProgress(w) /\ ~CountWrite(w) /\ UNCHANGED <<verdict, owners>> /\ loc[w] # "reset"
        /\ \A s \in Slots : s # slot[w] => table'[s] = table[s]
        /\ loc'[w] = "reset" /\ slot'[w] = slot[w]
    BY <1>17, NewWindowDoes, CountWriteDoes DEF InProgress, Goes, Stores
  <2>2. \A s \in Slots : Undisturbed(s)
    BY <1>8, <2>1
  <2>3. QED
    BY <1>9, <1>12, <2>1, <2>2
<1>18. ASSUME NEW w \in Workers, Reset(w) PROVE Entries' /\ Declines'
  <2>1. /\ InProgress(w) /\ ~CountWrite(w) /\ UNCHANGED <<verdict, owners>> /\ loc[w] = "reset"
        /\ slot[w] \in Slots /\ \A s \in Slots : s # slot[w] => table'[s] = table[s]
        /\ table'[slot[w]].start = Entry(w).start /\ table'[slot[w]].count = 0
    BY <1>18, NoCountDoes, CountWriteDoes DEF InProgress, Goes, Stores
  <2>2. Entry(w).start = now /\ card[w] \in owners[slot[w]]
    BY <1>8, <2>1 DEF InStep, NewPeriod, OwnerInv, Working
  <2>3. \A s \in Slots : s # slot[w] => Undisturbed(s)
    BY <1>8, <2>1
  <2>4. ASSUME NEW s \in Slots, NEW c \in owners'[s]
        PROVE  table'[s].count + Owed(c)' <= Total(asked'[c], Since(table'[s].start))
    <3>1. CASE s = slot[w]
      BY <1>10, <2>1, <2>2, <3>1
    <3>2. CASE s # slot[w]
      BY <1>9, <2>1, <2>3, <3>2
    <3>3. QED
      BY <3>1, <3>2
  <2>5. QED
    BY <1>12, <2>1, <2>4
<1>19. ASSUME NEW w \in Workers, CountWrite(w) PROVE Entries' /\ Declines'
  <2>1. /\ InProgress(w) /\ UNCHANGED <<verdict, owners>> /\ loc[w] = "add"
        /\ slot[w] \in Slots /\ \A s \in Slots : s # slot[w] => table'[s] = table[s]
        /\ table'[slot[w]].start = table[slot[w]].start /\ table'[slot[w]].count = read[w] + 1
    BY <1>19, CountWriteDoes DEF InProgress, Goes, Stores, Entry
  <2>2. read[w] = table[slot[w]].count /\ card[w] \in owners[slot[w]]
    BY <1>8, <2>1 DEF InStep, Entry, OwnerInv, Working
  <2>3. \A s \in Slots : Undisturbed(s)
    BY <1>8, <2>1
  <2>4. \A v \in Workers, d \in Cards : ~Evaluate(v, d)
    BY <1>8, <2>1, EvaluateDoes DEF Goes, Same
  <2>5. ASSUME NEW s \in Slots, NEW c \in owners'[s]
        PROVE  table'[s].count + Owed(c)' <= Total(asked'[c], Since(table'[s].start))
    <3>1. c \in Cards /\ c \in owners[s]
      BY <1>2, <2>1
    <3>2. table[s].count + Owed(c) <= Total(asked[c], Since(table[s].start))
      BY <1>8, <2>1, <2>3, <3>1
    <3>3. Owed(c)' <= Owed(c) /\ (c = card[w] => Owed(c) = Owed(c)' + 1)
      BY <1>3, <1>19, <2>4, <3>1, OwedStep
    <3>4. CASE s = slot[w]
      <4>1. c = card[w]
        BY <1>1, <2>2, <3>1, <3>4
      <4>2. QED
        BY <1>2, <1>3, <1>4, <2>1, <2>2, <3>1, <3>2, <3>3, <3>4, <4>1
    <3>5. CASE s # slot[w]
      BY <1>2, <1>3, <1>4, <2>1, <3>1, <3>2, <3>3, <3>5
    <3>6. QED
      BY <3>4, <3>5
  <2>6. QED
    BY <1>12, <2>1, <2>5
<1>20. ASSUME NEW w \in Workers, Decide(w) PROVE Entries' /\ Declines'
  <2>1. /\ InProgress(w) /\ ~CountWrite(w) /\ UNCHANGED <<table, owners>> /\ loc[w] = "decide"
    BY <1>20, DecideDoes, CountWriteDoes DEF InProgress, Goes
  <2>2. \A s \in Slots : Undisturbed(s)
    BY <1>8, <2>1
  <2>3. Entries'
    BY <1>9, <2>1, <2>2
  <2>4. ASSUME verdict'[w] = "decline" PROVE Total(asked'[card[w]], Recent(clock[w])) > Limit
    <3> DEFINE c == card[w]
               e == table[slot[w]]
    <3>1. /\ slot[w] \in Slots /\ c \in owners[slot[w]] /\ c \in Cards
          /\ read[w] + 1 = e.count /\ Ready(Hist(c), e.start, read[w], clock[w])
      BY <1>8, <2>1, Held DEF InStep, OwnerInv, Working, Entry
    <3>2. e.count > Limit
      BY <1>20, <2>4, <3>1, DecideDoes DEF OverLimit, Entry
    <3>3. e.count + Owed(c) <= Total(asked[c], Since(e.start))
      BY <1>8, <2>1, <2>2, <3>1
    <3>4. clock[w] < e.start + Window
      BY <1>2, <1>8, <2>1, <3>1 DEF Ready, NoneYet, NewPeriod
    <3>5. \A x \in Since(e.start) : asked[c][x] > 0 => x \in Recent(clock[w])
      BY <1>2, <1>8, <2>1, <3>1, <3>4 DEF Since, Recent, TimeInv
    <3>6. asked[c] \in [Seconds -> Nat]
      BY <1>8, <2>1
    <3>7. Total(asked[c], Since(e.start)) <= Total(asked[c], Recent(clock[w]))
      BY <3>5, <3>6, SecondSets, TotalMono
    <3>8. QED
      BY <1>2, <1>3, <1>4, <3>1, <3>2, <3>3, <3>7
  <2>5. Declines'
    BY <1>6, <1>8, <2>1, <2>4, DecideDoes DEF Same
  <2>6. QED
    BY <2>3, <2>5
<1>21. ASSUME UNCHANGED <<table, loc, card, clock, slot, verdict, owners>>, ~overlapped, ~straddled
       PROVE  Entries' /\ Declines'
  <2>1. Declines'
    BY <1>6, <1>21
  <2>2. ASSUME NEW s \in Slots, Undisturbed(s)', NEW c \in owners'[s]
        PROVE  table'[s].count + Owed(c)' <= Total(asked'[c], Since(table'[s].start))
    <3>1. c \in Cards /\ Owed(c)' = Owed(c)
      BY <1>2, <1>21 DEF Owed, Pending
    <3>2. table[s].count + Owed(c) <= Total(asked[c], Since(table[s].start))
      BY <1>1, <1>21, <2>2 DEF SinceInv
    <3>3. QED
      BY <1>2, <1>3, <1>4, <1>21, <3>1, <3>2
  <2>3. QED
    BY <2>1, <2>2
<1>22. CASE Tick
  <2>1. ~overlapped /\ ~straddled
    BY <1>22, TickDoes
  <2>2. QED
    BY <1>21, <1>22, <2>1, TickDoes
<1>23. QED
  BY <1>7, <1>13, <1>14, <1>15, <1>16, <1>17, <1>18, <1>19, <1>20, <1>21, <1>22, StepCases

\* The inductive invariant.
LimiterInv ==
  /\ IndInv /\ OwnerInv /\ OwedInv /\ CountInv /\ OwnRequests
  /\ AloneInv /\ TimeInv /\ UnownedInv /\ SeqInv /\ SinceInv

LEMMA LimiterStep == LimiterInv /\ [Next]_vars => LimiterInv'
<1> SUFFICES ASSUME LimiterInv, [Next]_vars PROVE LimiterInv'
  OBVIOUS
<1>1. IndInv'
  BY IndStep DEF LimiterInv
<1>2. OwnerInv' /\ OwedInv' /\ AloneInv' /\ TimeInv' /\ UnownedInv' /\ SeqInv'
  BY <1>1, OwnerStep, OwedIsKept, AloneStep, TimeStep, UnownedStep, SeqStep DEF LimiterInv
<1>3. CountInv' /\ OwnRequests' /\ SinceInv'
  BY <1>1, <1>2, CountIsKept, RequestsAreOwn, SinceStep DEF LimiterInv
<1>4. QED
  BY <1>1, <1>2, <1>3 DEF LimiterInv

LEMMA LimiterInit == Init => LimiterInv
<1> SUFFICES ASSUME Init PROVE LimiterInv
  OBVIOUS
<1>1. IndInv
  BY InitInd
<1>2. /\ \A s \in Slots : owners[s] = {} /\ table[s].pan = NoCard /\ table[s].start = 0 /\ table[s].count = 0
      /\ \A w \in Workers : loc[w] = "idle" /\ clock[w] = 0 /\ probe[w].now = 0 /\ verdict[w] = "none"
      /\ \A c \in Cards, x \in Seconds : asked[c][x] = 0 /\ allowed[c][x] = 0
      /\ now = 1
  BY DEF Init, Empty, NoProbe
<1>3. OwnerInv /\ OwnRequests /\ AloneInv /\ CountInv
  BY <1>2 DEF OwnerInv, OwnRequests, AloneInv, Busy, CountInv, Working
<1>4. TimeInv /\ UnownedInv
  BY <1>2 DEF TimeInv, UnownedInv
<1>5. ASSUME NEW c \in Cards PROVE IsFiniteSet(Pending(c)) /\ Counted(c) >= 0
  <2>1. Pending(c) = {}
    BY <1>2 DEF Pending
  <2>2. IsFiniteSet(Pending(c)) /\ Owed(c) = 0
    BY <2>1, FS_EmptySet DEF Owed
  <2>3. Asked(c) \in Nat
    BY <1>1, Types, SecondSets, TotalFinite DEF Asked, Histories
  <2>4. QED
    BY <2>2, <2>3 DEF Counted
<1>6. \A c \in Cards \ {NoCard}, y \in Seconds : Total(allowed[c], Recent(y)) <= 2 * Limit - 1
  <2> SUFFICES ASSUME NEW c \in Cards, NEW y \in Seconds PROVE Total(allowed[c], Recent(y)) <= 2 * Limit - 1
    OBVIOUS
  <2>1. allowed[c] \in [Seconds -> Nat] /\ \A x \in Recent(y) : allowed[c][x] = 0
    BY <1>1, <1>2, Types, SecondSets DEF Histories
  <2>2. Total(allowed[c], Recent(y)) = 0
    BY <2>1, SecondSets, TotalZero
  <2>3. QED
    BY <2>2, RiskAssumption
<1>7. SeqInv
  BY <1>2, <1>6 DEF SeqInv, AloneAndSettled, InStep
<1>8. SinceInv
  BY <1>2 DEF SinceInv
<1>9. QED
  BY <1>1, <1>3, <1>4, <1>5, <1>7, <1>8 DEF LimiterInv, OwedInv

\* While evaluations do not overlap and no entry is reused, at most
\* 2 * Limit - 1 requests of a card are allowed within any Window seconds: the
\* window of risk_evaluate is replaced as a whole when it is over, and what the
\* old one still let through adds up to at most Limit - 1 (risk.c:57-65).  The
\* empty PAN is not such a card: its requests may be among the others, and they
\* are not limited.
THEOREM BurstsAreBounded == Spec => []BurstBound
<1>1. LimiterInv => BurstBound
  BY DEF LimiterInv, SeqInv, AloneAndSettled, BurstBound
<1>2. QED
  BY <1>1, LimiterInit, LimiterStep, PTL DEF Spec

\* A card is declined only for requests of its own, however the workers
\* interleave on its entry: the unlocked e->count++ loses counts and never
\* invents one, as long as no entry is reused.  Without overlap, and with
\* evaluations that end in the second they began, a declined card had more
\* than Limit requests within the last Window seconds (risk.c:57-65).
THEOREM DeclinesAreJustified == Spec => []DeclineJustified
<1>1. LimiterInv => DeclineJustified
  BY DEF LimiterInv, OwnRequests, SinceInv, DeclineJustified, Asked
<1>2. QED
  BY <1>1, LimiterInit, LimiterStep, PTL DEF Spec
=============================================================================
