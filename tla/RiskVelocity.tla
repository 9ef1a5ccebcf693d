---------------------------- MODULE RiskVelocity ----------------------------
(***************************************************************************)
(* The velocity limiter of server/risk.c: a table of VEL_CAP entries, one  *)
(* per card, that counts the requests of the card since window_start.  All *)
(* workers of the pool call risk_evaluate on the same table and there is   *)
(* no lock, so every read and write of an entry is a step of its own.      *)
(*                                                                         *)
(* The entry a worker holds (`slot') is a pointer into the table: another  *)
(* worker may give it to another card meanwhile.                           *)
(***************************************************************************)
EXTENDS Integers, FiniteSets, Functions

CONSTANTS
  Workers,      \* the threads that evaluate requests
  Cards,        \* PANs of requests, the empty one possibly among them
  NoCard,       \* the empty string: the pan of an empty entry
  Cap,          \* VEL_CAP
  Limit,        \* g_vel_limit
  Window,       \* g_vel_window_sec
  MaxTime,      \* bound: the last second of the clock
  MaxRequests   \* bound: requests evaluated in a behaviour

ASSUME RiskAssumption ==
  /\ Cap \in Nat \ {0} /\ Limit \in Nat \ {0} /\ Window \in Nat \ {0}
  /\ MaxTime \in Nat \ {0} /\ MaxRequests \in Nat

VARIABLES
  now,        \* time(NULL)
  table,      \* g_vel
  loc,        \* where the worker is in risk_evaluate
  card,       \* req->pan
  clock,      \* `now' of risk_evaluate
  probe,      \* vel_get: its own `now', the loop index, free_idx, oldest, oldest_idx
  slot,       \* e, the entry the worker holds
  read,       \* the count the worker has read
  verdict,    \* out->allow of the worker's last evaluation
  asked,      \* history: requests of each card, by the second in `clock'
  allowed,    \* history: those that were allowed
  owners,     \* history: the cards each entry has been given to
  overlapped, \* history: two evaluations have been in progress at once
  straddled   \* history: the second has changed during an evaluation

worker == <<loc, card, clock, probe, slot, read, verdict>>
history == <<asked, allowed, owners, overlapped, straddled>>
vars == <<now, table, worker, history>>

Slots == 1..Cap
Seconds == 1..MaxTime
Locations == {"idle", "enter", "scan", "clear", "name", "stamp", "zero",
              "window", "reset", "count", "add", "decide"}

\* No entry: an index of -1 in the code.
None == 0
NoProbe == [now |-> 0, i |-> 1, free |-> None, oldest |-> 0, oldestIdx |-> None]

\* The entry a worker is about to use is an entry of the table: vel_get never
\* returns g_vel[-1], also when the table is full and no window is older than
\* the current second.
TypeOK ==
  /\ now \in Seconds
  /\ table \in [Slots -> [pan : Cards \cup {NoCard}, start : 0..MaxTime, count : Nat]]
  /\ loc \in [Workers -> Locations]
  /\ card \in [Workers -> Cards \cup {NoCard}]
  /\ clock \in [Workers -> 0..MaxTime]
  /\ probe \in [Workers -> [now : 0..MaxTime, i : 1..(Cap + 1), free : 0..Cap,
                            oldest : 0..MaxTime, oldestIdx : 0..Cap]]
  /\ slot \in [Workers -> 0..Cap]
  /\ \A w \in Workers : slot[w] = None => loc[w] \in {"idle", "enter", "scan"}
  /\ read \in [Workers -> Nat]
  /\ verdict \in [Workers -> {"none", "allow", "decline"}]
  /\ asked \in [Cards -> [Seconds -> Nat]]
  /\ allowed \in [Cards -> [Seconds -> Nat]]
  /\ owners \in [Slots -> SUBSET Cards]
  /\ overlapped \in BOOLEAN /\ straddled \in BOOLEAN

Empty == [pan |-> NoCard, start |-> 0, count |-> 0]

Init ==
  /\ now = 1
  /\ table = [s \in Slots |-> Empty]
  /\ loc = [w \in Workers |-> "idle"]
  /\ card = [w \in Workers |-> NoCard]
  /\ clock = [w \in Workers |-> 0]
  /\ probe = [w \in Workers |-> NoProbe]
  /\ slot = [w \in Workers |-> None]
  /\ read = [w \in Workers |-> 0]
  /\ verdict = [w \in Workers |-> "none"]
  /\ asked = [c \in Cards |-> [s \in Seconds |-> 0]]
  /\ allowed = [c \in Cards |-> [s \in Seconds |-> 0]]
  /\ owners = [s \in Slots |-> {}]
  /\ overlapped = FALSE
  /\ straddled = FALSE
-----------------------------------------------------------------------------
Busy == {w \in Workers : loc[w] # "idle"}

Goto(w, where) == loc' = [loc EXCEPT ![w] = where]

Entry(w) == table[slot[w]]

\* A plain store to the entry the worker holds.
Store(w, entry) ==
  /\ table' = [table EXCEPT ![slot[w]] = entry]
  /\ UNCHANGED <<now, card, clock, slot, read, verdict, asked, allowed,
                 overlapped, straddled>>

Bump(f, c, s) == [f EXCEPT ![c][s] = @ + 1]

\* How many requests f counts in the seconds of S: the sum of f over S, as the
\* size of the set of numbered requests.
Total(f, S) == Cardinality(UNION {{s} \X (1..f[s]) : s \in S})
-----------------------------------------------------------------------------
(* risk_evaluate, up to the call of vel_get *)

Evaluate(w, c) ==
  /\ loc[w] = "idle"
  /\ SumFunction([d \in Cards |-> Total(asked[d], Seconds)]) < MaxRequests
  /\ card' = [card EXCEPT ![w] = c]
  /\ clock' = [clock EXCEPT ![w] = now]
  /\ verdict' = [verdict EXCEPT ![w] = "none"]
  /\ Goto(w, "enter")
  /\ asked' = Bump(asked, c, now)
  /\ overlapped' = (overlapped \/ Busy # {})
  /\ UNCHANGED <<now, table, probe, slot, read, allowed, owners, straddled>>

(* vel_get *)
Enter(w) ==
  /\ loc[w] = "enter"
  /\ probe' = [probe EXCEPT ![w] = [NoProbe EXCEPT !.now = now, !.oldest = now]]
  /\ Goto(w, "scan")
  /\ UNCHANGED <<now, table, card, clock, slot, read, verdict, history>>

\* One turn of the loop.  An entry with the empty pan is free, whoever it was
\* given to: a request with the empty PAN never finds its entry again.
Probe(w) ==
  LET p == probe[w]
      e == table[p.i] IN
  /\ loc[w] = "scan" /\ p.i <= Cap
  /\ \/ /\ e.pan = NoCard
        /\ probe' = [probe EXCEPT ![w].i = @ + 1,
                                  ![w].free = IF @ = None THEN p.i ELSE @]
        /\ UNCHANGED <<slot, loc>>
     \/ /\ e.pan # NoCard /\ e.pan = card[w]
        /\ slot' = [slot EXCEPT ![w] = p.i]
        /\ probe' = [probe EXCEPT ![w] = NoProbe]
        /\ Goto(w, "window")
     \/ /\ e.pan # NoCard /\ e.pan # card[w]
        /\ probe' = [probe EXCEPT ![w] =
             IF e.start < p.oldest
             THEN [p EXCEPT !.i = p.i + 1, !.oldest = e.start, !.oldestIdx = p.i]
             ELSE [p EXCEPT !.i = p.i + 1]]
        /\ UNCHANGED <<slot, loc>>
  /\ UNCHANGED <<now, table, card, clock, read, verdict, history>>

\* Mutant: the last resort, entry 0, is forgotten.
Victim_NoFallback(p) == IF p.free # None THEN p.free ELSE p.oldestIdx

\* The first free entry, or the one with the oldest window, or the first.
Victim(p) ==
  IF p.free # None THEN p.free
  ELSE IF p.oldestIdx # None THEN p.oldestIdx ELSE 1

NotFound(w) ==
  /\ loc[w] = "scan" /\ probe[w].i > Cap
  /\ slot' = [slot EXCEPT ![w] = Victim(probe[w])]
  /\ Goto(w, "clear")
  /\ UNCHANGED <<now, table, card, clock, probe, read, verdict, history>>

\* memset, snprintf and the two assignments.
Clear(w) ==
  /\ loc[w] = "clear"
  /\ Store(w, Empty)
  /\ Goto(w, "name")
  /\ UNCHANGED <<probe, owners>>

Name(w) ==
  /\ loc[w] = "name"
  /\ Store(w, [Entry(w) EXCEPT !.pan = card[w]])
  /\ owners' = [owners EXCEPT ![slot[w]] = @ \cup {card[w]}]
  /\ Goto(w, "stamp")
  /\ UNCHANGED probe

Stamp(w) ==
  /\ loc[w] = "stamp"
  /\ Store(w, [Entry(w) EXCEPT !.start = probe[w].now])
  /\ Goto(w, "zero")
  /\ probe' = [probe EXCEPT ![w] = NoProbe]
  /\ UNCHANGED owners

Zero(w) ==
  /\ loc[w] = "zero"
  /\ Store(w, [Entry(w) EXCEPT !.count = 0])
  /\ Goto(w, "window")
  /\ UNCHANGED <<probe, owners>>
-----------------------------------------------------------------------------
(* The rest of risk_evaluate *)

\* Mutant: the window is one second short.
WindowOver_Early(w) == clock[w] - Entry(w).start >= Window - 1

WindowOver(w) == clock[w] - Entry(w).start >= Window

SameWindow(w) ==
  /\ loc[w] = "window" /\ ~WindowOver(w)
  /\ Goto(w, "count")
  /\ UNCHANGED <<now, table, card, clock, probe, slot, read, verdict, history>>

NewWindow(w) ==
  /\ loc[w] = "window" /\ WindowOver(w)
  /\ Store(w, [Entry(w) EXCEPT !.start = clock[w]])
  /\ Goto(w, "reset")
  /\ UNCHANGED <<probe, owners>>

\* Mutant: a new window goes on with the old count.
Reset_KeepCount(w) ==
  /\ loc[w] = "reset"
  /\ Goto(w, "count")
  /\ UNCHANGED <<now, table, card, clock, probe, slot, read, verdict, history>>

Reset(w) ==
  /\ loc[w] = "reset"
  /\ Store(w, [Entry(w) EXCEPT !.count = 0])
  /\ Goto(w, "count")
  /\ UNCHANGED <<probe, owners>>

\* e->count++ is a read and a write.
CountRead(w) ==
  /\ loc[w] = "count"
  /\ read' = [read EXCEPT ![w] = Entry(w).count]
  /\ Goto(w, "add")
  /\ UNCHANGED <<now, table, card, clock, probe, slot, verdict, history>>

CountWrite(w) ==
  /\ loc[w] = "add"
  /\ Store(w, [Entry(w) EXCEPT !.count = read[w] + 1])
  /\ Goto(w, "decide")
  /\ UNCHANGED <<probe, owners>>

OverLimit(n) == n > Limit

\* The compiler may compare the value it wrote, or load the field again.
Decide(w) ==
  /\ loc[w] = "decide"
  /\ \E n \in {read[w] + 1, Entry(w).count} :
       /\ verdict' = [verdict EXCEPT ![w] = IF OverLimit(n) THEN "decline" ELSE "allow"]
       /\ allowed' = IF OverLimit(n) THEN allowed ELSE Bump(allowed, card[w], clock[w])
  /\ Goto(w, "idle")
  /\ slot' = [slot EXCEPT ![w] = None]
  /\ read' = [read EXCEPT ![w] = 0]
  /\ UNCHANGED <<now, table, card, clock, probe, asked, owners, overlapped,
                 straddled>>

Tick ==
  /\ now < MaxTime
  /\ now' = now + 1
  /\ straddled' = (straddled \/ Busy # {})
  /\ UNCHANGED <<table, worker, asked, allowed, owners, overlapped>>

Next ==
  \/ \E w \in Workers :
       \/ \E c \in Cards : Evaluate(w, c)
       \/ Enter(w) \/ Probe(w) \/ NotFound(w)
       \/ Clear(w) \/ Name(w) \/ Stamp(w) \/ Zero(w)
       \/ SameWindow(w) \/ NewWindow(w) \/ Reset(w)
       \/ CountRead(w) \/ CountWrite(w) \/ Decide(w)
  \/ Tick

Spec == Init /\ [][Next]_vars
-----------------------------------------------------------------------------
(* Properties *)

\* The Window seconds that end with s.
Recent(s) == {x \in Seconds : s - Window < x /\ x <= s}

\* No entry has served two cards, the empty PAN counted as one: neither by
\* eviction from a full table, nor because two workers claimed the same free
\* entry, nor because the entry was given to the empty PAN before.
NoEntryReused == \A s \in Slots : \A c, d \in owners[s] : c = d

\* What the limiter gives to a PAN that is not empty when evaluations do not
\* overlap and the table is not full: at most 2 * Limit - 1 requests are allowed
\* within Window seconds.  The window starts at a request and is replaced as a
\* whole, it does not slide, so the rest of one window and all of the next go
\* through.  The empty PAN is never limited: vel_get takes the entry it gave to
\* it for a free one and clears it again for each request.
BurstBound ==
  ~overlapped /\ NoEntryReused =>
    \A c \in Cards \ {NoCard}, s \in Seconds :
      Total(allowed[c], Recent(s)) <= 2 * Limit - 1

\* A card is declined only for requests of its own.  Races on its entry lose
\* counts and may carry the count of the old window into the new one (the
\* reset is two stores), but never add a count nobody asked for, as long as
\* no entry is reused; and without overlap, and with evaluations that end in
\* the second they began, the declined card really had more than Limit
\* requests within the last Window seconds.
DeclineJustified ==
  NoEntryReused =>
    \A w \in Workers : verdict[w] = "decline" =>
      /\ Total(asked[card[w]], Seconds) > Limit
      /\ ~overlapped /\ ~straddled =>
           Total(asked[card[w]], Recent(clock[w])) > Limit
=============================================================================
