---------------------- MODULE ShortLivedCountersProofs ----------------------
(***************************************************************************)
(* What the loops over a table return, and what record_short_lived_process *)
(* preserves, for tables of any length.                                    *)
(***************************************************************************)
EXTENDS ShortLivedCounters, WellFoundedInduction, TLAPS
-----------------------------------------------------------------------------
\* Every nonempty set of naturals has a least element.
LEMMA NatMinimum ==
  ASSUME NEW T, T \subseteq Nat, T # {}
  PROVE  \E m \in T : \A n \in T : m <= n
<1>1. ASSUME NEW n \in Nat, NEW k \in Nat, n < k
      PROVE  <<n, k>> \in OpToRel(<, Nat)
  BY <1>1 DEF OpToRel
<1>2. PICK m \in T : \A n \in T : <<n, m>> \notin OpToRel(<, Nat)
  BY WFMin, NatLessThanWellFounded, Zenon
<1>3. ASSUME NEW n \in T
      PROVE  m <= n
  <2>1. n \in Nat /\ m \in Nat
    OBVIOUS
  <2>2. ~(n < m)
    BY <1>1, <1>2, <2>1, Zenon
  <2>. QED  BY <2>1, <2>2
<1>. QED  BY <1>3

\* The first hit of a loop over a table is one of the hits.
LEMMA FirstIn ==
  ASSUME NEW S, S \subseteq Slots, S # {}
  PROVE  First(S) \in S
<1>1. S \subseteq Nat
  BY TableAssumption DEF Slots
<1>2. \E m \in S : \A n \in S : m <= n
  BY <1>1, NatMinimum
<1>. QED  BY <1>2 DEF First, Min

\* A table of naturals has a slot with a least value.
LEMMA LeastSlot ==
  ASSUME NEW f \in [Slots -> Nat]
  PROVE  \E i \in Slots : \A j \in Slots : f[i] <= f[j]
<1> DEFINE T == {f[i] : i \in Slots}
<1>1. T \subseteq Nat
  OBVIOUS
<1>2. 1 \in Slots
  BY TableAssumption DEF Slots
<1>3. f[1] \in T
  BY <1>2
<1>4. PICK m \in T : \A n \in T : m <= n
  <2> HIDE DEF T
  <2>. QED  BY <1>1, <1>3, NatMinimum
<1>. QED  BY <1>4

\* An active slot holds a counter with all its fields.
LEMMA ActiveCounter ==
  ASSUME NEW names, NEW c \in Counter(names), c.active
  PROVE  c \in [active : {TRUE}, comm : names, start : Nat, count : 0..CountCap]
<1>1. c # NoCounter
  <2>1. NoCounter.active = FALSE
    BY DEF NoCounter
  <2>. QED  BY <2>1
<1>. QED  BY <1>1 DEF Counter

\* alloc_short_lived_counter_slot returns a slot of the table: one that is not in
\* use or, if there is none, one whose window is the oldest.
LEMMA AllocCounterIs ==
  ASSUME NEW names, NEW counters \in [Slots -> Counter(names)]
  PROVE  \/ AllocCounter(counters) \in FreeCounters(counters)
         \/ /\ FreeCounters(counters) = {}
            /\ AllocCounter(counters) \in OldestCounters(counters)
<1>1. CASE FreeCounters(counters) # {}
  BY <1>1, FirstIn DEF AllocCounter, FreeCounters
<1>2. CASE FreeCounters(counters) = {}
  <2> DEFINE f == [i \in Slots |-> counters[i].start]
  <2>1. f \in [Slots -> Nat]
    <3>1. ASSUME NEW i \in Slots
          PROVE  counters[i].start \in Nat
      <4>1. counters[i].active
        BY <1>2 DEF FreeCounters
      <4>2. counters[i] \in Counter(names)
        OBVIOUS
      <4>3. counters[i] \in [active : {TRUE}, comm : names, start : Nat, count : 0..CountCap]
        BY <4>1, <4>2, ActiveCounter
      <4>. QED  BY <4>3
    <3>. QED  BY <3>1
  <2>2. PICK i \in Slots : \A j \in Slots : f[i] <= f[j]
    <3> HIDE DEF f
    <3>. QED  BY <2>1, LeastSlot
  <2>3. OldestCounters(counters) # {}
    BY <2>2 DEF OldestCounters
  <2>. QED  BY <1>2, <2>3, FirstIn DEF AllocCounter, OldestCounters
<1>. QED  BY <1>1, <1>2

LEMMA AllocCounterIn ==
  ASSUME NEW names, NEW counters \in [Slots -> Counter(names)]
  PROVE  AllocCounter(counters) \in Slots
BY AllocCounterIs DEF FreeCounters, OldestCounters

LEMMA CounterSlotIn ==
  ASSUME NEW names, NEW counters \in [Slots -> Counter(names)], NEW comm
  PROVE  CounterSlot(counters, comm) \in Slots
<1>1. CounterOf(counters, comm) # {} => First(CounterOf(counters, comm)) \in Slots
  BY FirstIn DEF CounterOf
<1>. QED  BY <1>1, AllocCounterIn DEF CounterSlot

\* record_short_lived_process keeps the table a table of counters.
LEMMA RecordType ==
  ASSUME NEW names, NEW counters \in [Slots -> Counter(names)],
         NEW comm \in names, NEW now \in Nat
  PROVE  Record(counters, comm, now) \in [Slots -> Counter(names)]
<1> DEFINE c == CounterAt(counters, comm, now)
           full == [active : {TRUE}, comm : names, start : Nat, count : 0..CountCap]
<1>1. c \in full
  <2>1. FreshCounter(comm, now) \in full
    BY TableAssumption DEF FreshCounter
  <2>2. CASE CounterOf(counters, comm) = {}
    BY <2>1, <2>2 DEF CounterAt
  <2>3. CASE CounterOf(counters, comm) # {}
    <3>1. First(CounterOf(counters, comm)) \in CounterOf(counters, comm)
      BY <2>3, FirstIn DEF CounterOf
    <3>2. counters[First(CounterOf(counters, comm))] \in full
      BY <3>1, ActiveCounter DEF CounterOf
    <3>. QED  BY <2>1, <3>2 DEF CounterAt
  <2>. QED  BY <2>2, <2>3
<1>2. [c EXCEPT !.count = IF @ < CountCap THEN @ + 1 ELSE @] \in Counter(names)
  <2> DEFINE n == IF c.count < CountCap THEN c.count + 1 ELSE c.count
  <2> HIDE DEF c
  <2>1. n \in 0..CountCap
    BY <1>1, TableAssumption
  <2>2. [c EXCEPT !.count = n] \in full
    <3> HIDE DEF n
    <3>. QED  BY <1>1, <2>1
  <2>. QED  BY <2>2 DEF Counter
<1>. QED  BY <1>2, CounterSlotIn DEF Record
=============================================================================
