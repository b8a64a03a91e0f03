------------------------- MODULE StatsPublisherProofs -------------------------
(***************************************************************************)
(* For any containers, counters and failures: no row has a rate above what *)
(* its container did since the reading it was compared with, and a         *)
(* container that ran all through the sweep and could be read has a row.   *)
(*                                                                         *)
(* No rate is too large because no counter is: what a container has on its *)
(* counter is at most what it had at the reading and what it did since     *)
(* (Real), a restart only lowering it.  The reading is the container's own *)
(* since the cache has one for each id (OneReading).                       *)
(***************************************************************************)
EXTENDS StatsPublisher, TLAPS

\* Counters and readings account for all work.
CountersBounded == \A c \in Ids, k \in Kinds : counter[c][k] <= work + 1

Real ==
    \A s \in previous \cup samples :
        /\ \A k \in Kinds : s.done[k] <= work
        /\ \A k \in DOMAIN s.total : counter[s.id][k] <= s.total[k] + s.done[k]

\* Each container is read once in a sweep, so there is one reading for each id.
OneReading ==
    /\ ppc # "read" => samples = {}
    /\ \A s \in samples : s.id \notin todo
    /\ \A r, s \in samples : r.id = s.id => r = s
    /\ \A r, s \in previous : r.id = s.id => r = s

\* A container that was steady so far is either read or still to be read.
SteadyInSweep ==
    /\ \A c \in steady : status[c] = "running" /\ counter[c][Cpu] > 0
    /\ ppc \in {"read", "publish"} =>
          steady \ unread \subseteq todo \cup {u.id : u \in entries}
    /\ ppc = "publish" => todo = {}

Inv ==
    /\ TypeOK
    /\ CountersBounded
    /\ Real
    /\ OneReading
    /\ NoSpike
    /\ SteadyInSweep

-----------------------------------------------------------------------------
(* Readings.                                                               *)

\* A reading of which the container has done more.
LEMMA ObservedReading ==
    ASSUME NEW s \in StatsSamples, NEW k \in Kinds
    PROVE  LET w == [s EXCEPT !.done[k] = @ + 1]
           IN  /\ s.done[k] + 1 \in Amount => w \in StatsSamples
               /\ w.id = s.id /\ w.total = s.total
               /\ w.done[k] = s.done[k] + 1
               /\ \A l \in Kinds \ {k} : w.done[l] = s.done[l]
<1> DEFINE w == [s EXCEPT !.done[k] = @ + 1]
           AllTotals == UNION {[K -> Amount] : K \in SUBSET Kinds}
<1>1. s.id \in Ids /\ s.total \in AllTotals /\ s.done \in [Kinds -> Amount]
  BY DEF StatsSamples
<1>2. s = [id |-> s.id, total |-> s.total, done |-> s.done]
  BY DEF StatsSamples
<1>3. w = [id |-> s.id, total |-> s.total, done |-> [s.done EXCEPT ![k] = @ + 1]]
  BY <1>2
<1>5. s.done[k] + 1 \in Amount => [s.done EXCEPT ![k] = @ + 1] \in [Kinds -> Amount]
  BY <1>1
<1> HIDE DEF AllTotals
<1>6. s.done[k] + 1 \in Amount => w \in StatsSamples
  BY <1>1, <1>3, <1>5 DEF StatsSamples, AllTotals
<1> QED BY <1>1, <1>3, <1>6

\* What one reading is worth.
LEMMA RateIsReal ==
    ASSUME TypeOK, CountersBounded, Real, OneReading, NEW c \in Ids, NEW k \in Kinds
    PROVE  /\ Rate(c, k) \in Rates
           /\ \A s \in Before(c) : /\ s.id = c
                                   /\ Rate(c, k).set => Rate(c, k).delta <= s.done[k]
<1> USE StatsAssumption
<1>1. Unset \in Rates /\ ~Unset.set
  BY DEF Unset, Rates
<1>2. CASE Before(c) = {}
  BY <1>1, <1>2 DEF Rate
<1>3. CASE Before(c) # {}
  <2> DEFINE s == CHOOSE s \in Before(c) : TRUE
             then == s.total
             now == Totals(c)
  <2>1. s \in previous /\ s.id = c /\ s \in Before(c)
    BY <1>3 DEF Before, SameKey
  <2>2. \A r \in Before(c) : r = s
    BY <2>1 DEF Before, SameKey, OneReading
  <2>3. s \in StatsSamples
    BY <2>1 DEF TypeOK
  <2> HIDE DEF s
  <2>4. CASE k \in DOMAIN now \cap DOMAIN then
    <3>1. now[k] = counter[c][k] /\ now[k] \in Amount
      BY <2>4 DEF Totals, TypeOK
    <3>2. then[k] \in Amount /\ s.done[k] \in Amount
      BY <2>3, <2>4 DEF StatsSamples
    <3>3. now[k] <= then[k] + s.done[k]
      BY <2>1, <2>4, <3>1 DEF Real
    <3>4. Rate(c, k) = RateSince(now[k], then[k])
      BY <1>3, <2>4 DEF Rate, s
    <3>5. CASE now[k] >= then[k]
      <4>1. Rate(c, k) = [set |-> TRUE, delta |-> now[k] - then[k]]
        BY <3>4, <3>5 DEF RateSince
      <4>2. now[k] - then[k] \in Amount /\ now[k] - then[k] <= s.done[k]
        BY <3>1, <3>2, <3>3, <3>5 DEF Amount
      <4>3. Rate(c, k) \in Rates /\ Rate(c, k).delta <= s.done[k]
        BY <4>1, <4>2 DEF Rates
      <4> QED BY <2>1, <2>2, <4>3
    <3>6. CASE ~(now[k] >= then[k])
      BY <1>1, <2>1, <2>2, <3>4, <3>6 DEF RateSince
    <3> QED BY <3>5, <3>6
  <2>5. CASE ~(k \in DOMAIN now \cap DOMAIN then)
    <3>1. Rate(c, k) = Unset
      BY <1>3, <2>5 DEF Rate, s
    <3> QED BY <1>1, <2>1, <2>2, <3>1
  <2> QED BY <2>4, <2>5
<1> QED BY <1>2, <1>3

\* A new reading.
LEMMA NewReading ==
    ASSUME TypeOK, NEW c \in Ids
    PROVE  /\ StatsSample(c) \in StatsSamples
           /\ StatsSample(c).id = c
           /\ StatsSample(c).done = Nothing
           /\ \A k \in DOMAIN StatsSample(c).total :
                 k \in Kinds /\ StatsSample(c).total[k] = counter[c][k]
<1>1. Counted[c] \in SUBSET Kinds
  BY StatsAssumption
<1>2. Totals(c) \in [Counted[c] -> Amount]
  BY <1>1 DEF Totals, TypeOK
<1>3. Nothing \in [Kinds -> Amount]
  BY StatsAssumption DEF Nothing, Amount
<1> HIDE DEF Totals, Nothing
<1>4. StatsSample(c) \in StatsSamples
  BY <1>1, <1>2, <1>3 DEF StatsSample, StatsSamples
<1> QED BY <1>1, <1>2, <1>4 DEF StatsSample, Totals

-----------------------------------------------------------------------------
(* The steps.                                                              *)

\* The initial states satisfy the invariant.
LEMMA InvInit == Init => Inv
<1> SUFFICES ASSUME Init PROVE Inv
  OBVIOUS
<1> USE StatsAssumption
<1>1. counter \in [Ids -> [Kinds -> Amount]] /\ CountersBounded
  BY DEF Init, Nothing, Amount, CountersBounded
<1>2. status \in [Ids -> {"none", "exited", "running", "removed"}]
  BY DEF Init
<1>3. previous = {} /\ samples = {} /\ entries = {} /\ published = {} /\ stop \in BOOLEAN
  BY DEF Init
<1>4. TypeOK
  BY <1>1, <1>2, <1>3 DEF Init, TypeOK
<1> QED BY <1>1, <1>4 DEF Init, Inv, Real, OneReading, NoSpike, SteadyInSweep

\* The end of a sweep, in whatever way.
LEMMA EndKeepsInv ==
    ASSUME Inv, EndSweep("wait"), UNCHANGED <<previous, work, changes>>,
           published' \in SUBSET Rows, failures' \in 0 .. MaxFailures
    PROVE  Inv'
<1>1. TypeOK'
  BY DEF Inv, TypeOK, EndSweep, host
<1> QED BY <1>1 DEF Inv, EndSweep, host, CountersBounded, Real, OneReading, NoSpike, SteadyInSweep

\* A step of the thread.
LEMMA LoopKeepsInv ==
    ASSUME Inv, Loop
    PROVE  Inv'
<1> USE StatsAssumption DEF host, sweep, history, counters
<1>1. TypeOK /\ CountersBounded /\ Real /\ OneReading /\ NoSpike /\ SteadyInSweep
  BY DEF Inv
<1>2. CASE Check \/ Wait
  BY <1>1, <1>2 DEF Check, Wait, Inv, TypeOK, CountersBounded, Real, OneReading, NoSpike,
                    SteadyInSweep
<1>3. CASE ListRunning
  <2>1. TypeOK'
    BY <1>1, <1>3 DEF ListRunning, TypeOK
  <2>2. OneReading'
    BY <1>1, <1>3 DEF ListRunning, OneReading
  <2> QED BY <1>1, <1>3, <2>1, <2>2 DEF ListRunning, Inv, CountersBounded, Real, NoSpike, SteadyInSweep
<1>4. CASE ListFails
  BY <1>1, <1>4, EndKeepsInv DEF ListFails, Failure, TypeOK
<1>5. ASSUME NEW c \in Ids, Read(c)
      PROVE  Inv'
  <2>1. \A k \in Kinds : /\ Rate(c, k) \in Rates
                         /\ \A s \in Before(c) : /\ s.id = c
                                                 /\ Rate(c, k).set => Rate(c, k).delta <= s.done[k]
    BY <1>1, RateIsReal
  <2> DEFINE u == Usage(c)
             n == StatsSample(c)
  <2>2. u.id = c /\ u.before = Before(c) /\ \A k \in Kinds : u.rate[k] = Rate(c, k)
    BY DEF Usage
  <2>3. u \in Usages
    <3>1. Before(c) \in SUBSET StatsSamples
      BY <1>1 DEF Before, TypeOK
    <3>2. [k \in Kinds |-> Rate(c, k)] \in [Kinds -> Rates]
      BY <2>1
    <3> QED BY <3>1, <3>2 DEF Usage, Usages
  <2>4. n \in StatsSamples /\ n.id = c /\ n.done = Nothing
        /\ \A k \in DOMAIN n.total : k \in Kinds /\ n.total[k] = counter[c][k]
    BY <1>1, NewReading
  <2> HIDE DEF u, n
  <2>5. /\ entries' = entries \cup {u} /\ samples' = samples \cup {n}
        /\ c \in todo /\ todo' = todo \ {c} /\ ppc = "read"
        /\ UNCHANGED <<host, stop, ppc, previous, published, history, counters>>
    BY <1>5 DEF Read, Turn, u, n
  <2>6. TypeOK'
    BY <1>1, <2>3, <2>4, <2>5 DEF TypeOK
  <2>7. Real'
    <3>1. \A k \in Kinds : n.done[k] = 0
      BY <2>4 DEF Nothing
    <3>2. \A k \in Kinds : counter[c][k] \in Nat /\ work \in Nat
      BY <1>1 DEF TypeOK, Amount
    <3>3. /\ \A k \in Kinds : n.done[k] <= work
          /\ \A k \in DOMAIN n.total : counter[n.id][k] <= n.total[k] + n.done[k]
      BY <2>4, <3>1, <3>2
    <3> QED BY <1>1, <2>5, <3>3 DEF Real
  <2>8. OneReading'
    BY <1>1, <2>4, <2>5 DEF OneReading
  <2>9. NoSpike'
    BY <1>1, <2>1, <2>2, <2>5 DEF NoSpike
  <2>10. SteadyInSweep'
    BY <1>1, <2>2, <2>5 DEF SteadyInSweep
  <2> QED BY <1>1, <2>5, <2>6, <2>7, <2>8, <2>9, <2>10 DEF Inv, CountersBounded
<1>6. ASSUME NEW c \in Ids, ReadsNothing(c)
      PROVE  Inv'
  <2>1. c \notin steady
    BY <1>1, <1>6 DEF ReadsNothing, SteadyInSweep
  <2> QED BY <1>1, <1>6, <2>1 DEF ReadsNothing, Turn, Inv, TypeOK, CountersBounded, Real, OneReading,
                                 NoSpike, SteadyInSweep
<1>7. ASSUME NEW c \in Ids, ReadFails(c)
      PROVE  Inv'
  <2>1. failures' \in 0 .. MaxFailures /\ UNCHANGED <<work, changes>>
    BY <1>1, <1>7 DEF ReadFails, Failure, TypeOK
  <2> QED BY <1>1, <1>7, <2>1 DEF ReadFails, Turn, Inv, TypeOK, CountersBounded, Real, OneReading,
                                 NoSpike, SteadyInSweep
<1>8. CASE Keep
  BY <1>1, <1>8 DEF Keep, Inv, TypeOK, CountersBounded, Real, OneReading, NoSpike, SteadyInSweep
<1>9. CASE Publish
  <2>1. \A u \in entries : [id |-> u.id, rate |-> u.rate] \in Rows
    BY <1>1 DEF TypeOK, Usages, Rows
  <2>2. published' \in SUBSET Rows /\ failures' \in 0 .. MaxFailures
        /\ UNCHANGED <<previous, work, changes>> /\ EndSweep("wait")
    BY <1>1, <1>9, <2>1 DEF Publish, Failure, TypeOK
  <2> QED BY <2>2, EndKeepsInv
<1> QED BY <1>2, <1>3, <1>4, <1>5, <1>6, <1>7, <1>8, <1>9 DEF Loop

\* Readings go through a change of the containers one by one.
LEMMA WorkKeepsInv ==
    ASSUME Inv, NEW c \in Ids, NEW k \in Kinds, Works(c, k)
    PROVE  Inv'
<1> USE StatsAssumption
<1>1. TypeOK /\ CountersBounded /\ Real /\ OneReading /\ NoSpike /\ SteadyInSweep
  BY DEF Inv
<1> DEFINE F(s) == IF s.id = c THEN [s EXCEPT !.done[k] = @ + 1] ELSE s
<1>2. /\ work \in Nat /\ work + 1 \in 0 .. MaxWork /\ work' = work + 1
      /\ counter' = [counter EXCEPT ![c][k] = @ + 1]
      /\ previous' = {F(s) : s \in previous} /\ samples' = {F(s) : s \in samples}
      /\ UNCHANGED <<status, stop, ppc, todo, entries, published, history, changes, failures>>
  BY <1>1 DEF Works, Worked, TypeOK
<1>3. \A d \in Ids, l \in Kinds :
         /\ counter[d][l] \in Nat /\ counter[d][l] <= work + 1
         /\ counter'[d][l] = IF d = c /\ l = k THEN counter[d][l] + 1 ELSE counter[d][l]
  BY <1>1, <1>2 DEF TypeOK, Amount, CountersBounded
<1>4. counter' \in [Ids -> [Kinds -> Amount]] /\ CountersBounded'
  <2>1. \A d \in Ids, l \in Kinds : counter'[d][l] \in Amount /\ counter'[d][l] <= work' + 1
    BY <1>2, <1>3 DEF Amount
  <2>2. counter' = [d \in Ids |-> [l \in Kinds |-> counter'[d][l]]]
    BY <1>1, <1>2 DEF TypeOK
  <2> QED BY <2>1, <2>2 DEF CountersBounded
<1>5. ASSUME NEW s \in previous \cup samples
      PROVE  /\ F(s) \in StatsSamples /\ F(s).id = s.id
             /\ \A l \in Kinds : F(s).done[l] <= work + 1
             /\ \A l \in DOMAIN F(s).total : counter'[s.id][l] <= F(s).total[l] + F(s).done[l]
  <2>1. s \in StatsSamples
    BY <1>1 DEF TypeOK
  <2>2. s.id \in Ids /\ s.done \in [Kinds -> Amount] /\ DOMAIN s.total \subseteq Kinds
        /\ (\A l \in DOMAIN s.total : s.total[l] \in Nat) /\ (\A l \in Kinds : s.done[l] \in Nat)
    BY <2>1 DEF StatsSamples, Amount
  <2>3. /\ \A l \in Kinds : s.done[l] <= work
        /\ \A l \in DOMAIN s.total : counter[s.id][l] <= s.total[l] + s.done[l]
    BY <1>1 DEF Real
  <2>4. CASE s.id = c
    <3> DEFINE w == [s EXCEPT !.done[k] = @ + 1]
    <3>1. s.done[k] + 1 \in Amount
      BY <1>2, <2>2, <2>3 DEF Amount
    <3>2. /\ w \in StatsSamples /\ w.id = s.id /\ w.total = s.total
          /\ w.done[k] = s.done[k] + 1 /\ \A l \in Kinds \ {k} : w.done[l] = s.done[l]
      BY <2>1, <3>1, ObservedReading
    <3>3. F(s) = w
      BY <2>4
    <3> HIDE DEF w, F
    <3>4. \A l \in Kinds : w.done[l] <= work + 1
      BY <1>2, <2>2, <2>3, <3>2
    <3>5. \A l \in DOMAIN w.total : counter'[s.id][l] <= w.total[l] + w.done[l]
      BY <1>3, <2>2, <2>3, <2>4, <3>2
    <3> QED BY <3>2, <3>3, <3>4, <3>5
  <2>5. CASE s.id # c
    <3>1. F(s) = s
      BY <2>5
    <3> HIDE DEF F
    <3>2. \A l \in Kinds : s.done[l] <= work + 1
      BY <1>2, <2>2, <2>3
    <3>3. \A l \in DOMAIN s.total : counter'[s.id][l] = counter[s.id][l]
      BY <1>3, <2>2, <2>5
    <3> QED BY <2>1, <2>3, <3>1, <3>2, <3>3
  <2> QED BY <2>4, <2>5
<1> HIDE DEF F
<1>6. TypeOK'
  <2>1. previous' \in SUBSET StatsSamples /\ samples' \in SUBSET StatsSamples
    BY <1>2, <1>5
  <2> QED BY <1>1, <1>2, <1>4, <2>1 DEF TypeOK, history
<1>7. Real'
  BY <1>2, <1>5 DEF Real
<1>8. OneReading'
  BY <1>1, <1>2, <1>5 DEF OneReading
<1>9. NoSpike'
  BY <1>1, <1>2 DEF NoSpike
<1>10. SteadyInSweep'
  <2>1. \A d \in steady : counter'[d][Cpu] > 0
    BY <1>1, <1>2, <1>3 DEF SteadyInSweep, TypeOK
  <2> QED BY <1>1, <1>2, <2>1 DEF SteadyInSweep, history
<1> QED BY <1>4, <1>6, <1>7, <1>8, <1>9, <1>10 DEF Inv

\* A start, an exit or a removal can only lower a counter.
LEMMA BecomeKeepsInv ==
    ASSUME Inv, NEW c \in Ids, NEW new \in {"exited", "running", "removed"}, Becomes(c, new)
    PROVE  Inv'
<1> USE StatsAssumption
<1>1. TypeOK /\ CountersBounded /\ Real /\ OneReading /\ NoSpike /\ SteadyInSweep
  BY DEF Inv
<1>2. /\ status' = [status EXCEPT ![c] = new] /\ counter' = [counter EXCEPT ![c] = Nothing]
      /\ steady' = steady \ {c} /\ changes' \in 0 .. MaxChanges
      /\ UNCHANGED <<stop, ppc, todo, samples, entries, previous, published, unread, work, failures>>
  BY <1>1 DEF Becomes, TypeOK, sweep
<1>3. Nothing \in [Kinds -> Amount] /\ \A l \in Kinds : Nothing[l] = 0
  BY DEF Nothing, Amount
<1>4. \A d \in Ids, l \in Kinds :
         counter[d][l] \in Nat /\ counter'[d][l] \in Nat /\ counter'[d][l] <= counter[d][l]
  BY <1>1, <1>2, <1>3 DEF TypeOK, Amount
<1>5. counter' \in [Ids -> [Kinds -> Amount]] /\ CountersBounded'
  <2>1. work \in Nat
    BY <1>1 DEF TypeOK
  <2> QED BY <1>1, <1>2, <1>3, <1>4, <2>1 DEF TypeOK, CountersBounded
<1>6. ASSUME NEW s \in previous \cup samples
      PROVE  \A l \in DOMAIN s.total : counter'[s.id][l] <= s.total[l] + s.done[l]
  <2>1. s \in StatsSamples
    BY <1>1 DEF TypeOK
  <2>2. s.id \in Ids /\ DOMAIN s.total \subseteq Kinds
        /\ \A l \in DOMAIN s.total : s.total[l] \in Nat /\ s.done[l] \in Nat
    BY <2>1 DEF StatsSamples, Amount
  <2>3. \A l \in DOMAIN s.total : counter[s.id][l] <= s.total[l] + s.done[l]
    BY <1>1 DEF Real
  <2> QED BY <1>4, <2>2, <2>3
<1>7. TypeOK'
  <2>1. status' \in [Ids -> {"none", "exited", "running", "removed"}]
    BY <1>1, <1>2 DEF TypeOK
  <2> QED BY <1>1, <1>2, <1>5, <2>1 DEF TypeOK
<1>8. Real'
  BY <1>1, <1>2, <1>6 DEF Real
<1>9. OneReading'
  BY <1>1, <1>2 DEF OneReading
<1>10. NoSpike'
  BY <1>1, <1>2 DEF NoSpike
<1>11. SteadyInSweep'
  BY <1>1, <1>2 DEF SteadyInSweep, TypeOK
<1> QED BY <1>5, <1>7, <1>8, <1>9, <1>10, <1>11 DEF Inv

\* Every step keeps the invariant.
LEMMA InvInductive == Inv /\ [Next]_vars => Inv'
<1> SUFFICES ASSUME Inv, [Next]_vars PROVE Inv'
  OBVIOUS
<1>1. CASE Stop
  BY <1>1 DEF Stop, host, sweep, history, counters, Inv, TypeOK, CountersBounded, Real, OneReading,
              NoSpike, SteadyInSweep
<1>2. CASE UNCHANGED vars
  BY <1>2 DEF vars, host, sweep, history, counters, Inv, TypeOK, CountersBounded, Real, OneReading,
              NoSpike, SteadyInSweep
<1>3. ASSUME NEW c \in Ids, Starts(c) \/ Exits(c) \/ Removed(c)
      PROVE  Inv'
  BY <1>3, BecomeKeepsInv DEF Starts, Exits, Removed
<1>4. ASSUME NEW c \in Ids, NEW k \in Kinds, Works(c, k)
      PROVE  Inv'
  BY <1>4, WorkKeepsInv
<1> QED BY <1>1, <1>2, <1>3, <1>4, LoopKeepsInv DEF Next

-----------------------------------------------------------------------------

\* The invariant holds in every reachable state.
THEOREM InvHolds == Spec => []Inv
BY InvInit, InvInductive, PTL DEF Spec

\* The variables have their types.
THEOREM TypeCorrect == Spec => []TypeOK
<1>1. Inv => TypeOK
  BY DEF Inv
<1> QED BY <1>1, InvHolds, PTL

\* No rate is above what its container did since the reading it is compared with.
THEOREM RatesAreReal == Spec => []NoSpike
<1>1. Inv => NoSpike
  BY DEF Inv
<1> QED BY <1>1, InvHolds, PTL

\* A container that ran all through a sweep and could be read has a row.
THEOREM SteadyContainersHaveRows == Spec => []RunningHasRow
<1>1. Inv => RunningHasRow
  BY DEF Inv, SteadyInSweep, RunningHasRow
<1> QED BY <1>1, InvHolds, PTL
=============================================================================
