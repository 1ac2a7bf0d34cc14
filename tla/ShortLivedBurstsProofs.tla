----------------------- MODULE ShortLivedBurstsProofs -----------------------
(***************************************************************************)
(* Proofs that a burst the proc worker reports has happened, and that one  *)
(* dense enough is reported, for any number of command names and counters, *)
(* any window and any threshold.                                           *)
(***************************************************************************)
EXTENDS ShortLivedBursts, ShortLivedCountersProofs, FiniteSetTheorems
-----------------------------------------------------------------------------
ActiveCounters == [active : {TRUE}, comm : Comms, start : Nat, count : 0..CountCap]

\* The counter an exit is counted in is one of its name whose window is not
\* over: the one in the table, or a new one with nothing counted.
LEMMA CounterAtFacts ==
  ASSUME NEW table \in [Slots -> Counter(Comms)], NEW comm \in Comms, NEW now \in Nat,
         \A i \in Slots : table[i].active => table[i].start <= now
  PROVE  LET c == CounterAt(table, comm, now)
         IN  /\ c \in ActiveCounters /\ c.comm = comm
             /\ c.start <= now /\ now <= c.start + BurstWindow
             /\ \/ c.count = 0
                \/ \E i \in Slots : table[i].active /\ c = table[i]
<1> DEFINE fresh == FreshCounter(comm, now)
           f == First(CounterOf(table, comm))
<1>1. /\ fresh \in ActiveCounters /\ fresh.comm = comm /\ fresh.start = now
      /\ fresh.count = 0
  BY TableAssumption DEF FreshCounter, ActiveCounters
<1>2. now <= now + BurstWindow
  BY TableAssumption
<1>3. CASE CounterAt(table, comm, now) = fresh
  <2> HIDE DEF fresh
  <2>. QED  BY <1>1, <1>2, <1>3
<1>4. CASE /\ CounterOf(table, comm) # {} /\ ~(now > table[f].start + BurstWindow)
           /\ CounterAt(table, comm, now) = table[f]
  <2>1. f \in Slots /\ table[f].active /\ table[f].comm = comm
    BY <1>4, FirstIn DEF CounterOf
  <2> HIDE DEF f
  <2>2. table[f] \in ActiveCounters
    BY <2>1, ActiveCounter DEF ActiveCounters
  <2>3. now <= table[f].start + BurstWindow
    <3>1. table[f].start \in Nat /\ BurstWindow \in Nat
      BY <2>2, TableAssumption DEF ActiveCounters
    <3>. QED  BY <1>4, <3>1
  <2>. QED  BY <1>4, <2>1, <2>2, <2>3
<1>. QED  BY <1>3, <1>4 DEF CounterAt

\* record_short_lived_process changes one counter, and it is the one the name
\* is found at afterwards.
LEMMA RecordFacts ==
  ASSUME NEW table \in [Slots -> Counter(Comms)], NEW comm \in Comms, NEW now \in Nat,
         \A i \in Slots : table[i].active => table[i].start <= now
  PROVE  LET c == CounterAt(table, comm, now)
             s == CounterSlot(table, comm)
             updated == Record(table, comm, now)
         IN  /\ s \in Slots
             /\ \A i \in Slots \ {s} : updated[i] = table[i]
             /\ updated[s].active /\ updated[s].comm = comm /\ updated[s].start = c.start
             /\ updated[s].count = IF c.count < CountCap THEN c.count + 1 ELSE c.count
             /\ First(CounterOf(updated, comm)) = s
<1> DEFINE c == CounterAt(table, comm, now)
           s == CounterSlot(table, comm)
           updated == Record(table, comm, now)
           n == IF c.count < CountCap THEN c.count + 1 ELSE c.count
<1>1. c \in ActiveCounters /\ c.comm = comm
  BY CounterAtFacts
<1>2. s \in Slots
  BY CounterSlotIn
<1>3. updated = [table EXCEPT ![s] = [c EXCEPT !.count = n]]
  BY DEF Record
<1>4. \A i \in Slots : updated[i] = IF i = s THEN [c EXCEPT !.count = n] ELSE table[i]
  <2> HIDE DEF updated, c, s, n
  <2>. QED  BY <1>2, <1>3
<1>5. /\ updated[s].active /\ updated[s].comm = comm /\ updated[s].start = c.start
      /\ updated[s].count = n
  <2> HIDE DEF updated, c, s, n
  <2>. QED  BY <1>1, <1>2, <1>4 DEF ActiveCounters
<1>6. First(CounterOf(updated, comm)) = s
  <2>1. CASE CounterOf(table, comm) = {}
    <3>1. CounterOf(updated, comm) = {s}
      <4> HIDE DEF updated, c, s, n
      <4>. QED  BY <1>2, <1>4, <1>5, <2>1 DEF CounterOf
    <3>. QED  BY <1>2, <3>1, FirstIn
  <2>2. CASE CounterOf(table, comm) # {}
    <3>1. s = First(CounterOf(table, comm)) /\ s \in CounterOf(table, comm)
      BY <2>2, FirstIn DEF CounterSlot, CounterOf
    <3>2. CounterOf(updated, comm) = CounterOf(table, comm)
      <4> HIDE DEF updated, c, s, n
      <4>. QED  BY <1>2, <1>4, <1>5, <3>1 DEF CounterOf
    <3>. QED  BY <3>1, <3>2
  <2>. QED  BY <2>1, <2>2
<1>. QED  BY <1>2, <1>4, <1>5, <1>6
-----------------------------------------------------------------------------
\* The types the argument rests on.
BurstTypes ==
  /\ counters \in [Slots -> Counter(Comms)]
  /\ clock \in Nat
  /\ exits \in [Comms -> Seq(Nat)]
  /\ reports \in [Comms -> SUBSET [nth : Nat, count : Nat]]

\* The exits a counter has counted are the latest ones of its name, and none
\* came before its window.
CountsAreReal ==
  \A i \in Slots : counters[i].active =>
    /\ counters[i].start <= clock
    /\ counters[i].count <= Len(exits[counters[i].comm])
    /\ \A k \in 1..Len(exits[counters[i].comm]) :
         k + counters[i].count > Len(exits[counters[i].comm])
           => counters[i].start <= exits[counters[i].comm][k]

ReportsAreOfExits ==
  \A c \in Comms : \A r \in reports[c] : r.nth \in 1..Len(exits[c])

BurstsInv == BurstTypes /\ CountsAreReal /\ ReportsAreOfExits /\ BurstsAreReal

LEMMA InitBursts == Init => BurstsInv
<1> SUFFICES ASSUME Init PROVE BurstsInv
  OBVIOUS
<1>1. \A i \in Slots : ~counters[i].active
  BY DEF Init, NoCounter
<1>2. BurstTypes
  BY DEF Init, BurstTypes, Counter
<1>. QED  BY <1>1, <1>2 DEF Init, BurstsInv, CountsAreReal, ReportsAreOfExits, BurstsAreReal

LEMMA ActiveTyped ==
  ASSUME BurstTypes, NEW i \in Slots, counters[i].active
  PROVE  /\ counters[i].comm \in Comms /\ counters[i].start \in Nat
         /\ counters[i].count \in Nat
<1>1. counters[i] \in Counter(Comms)
  BY DEF BurstTypes
<1>2. counters[i] \in ActiveCounters
  BY <1>1, ActiveCounter DEF ActiveCounters
<1>3. /\ counters[i].comm \in Comms /\ counters[i].start \in Nat
      /\ counters[i].count \in 0..CountCap
  BY <1>2, Zenon DEF ActiveCounters
<1>. QED  BY <1>3, TableAssumption

LEMMA TickBursts ==
  ASSUME BurstsInv, Tick
  PROVE  BurstsInv'
<1>1. clock \in Nat /\ clock' = clock + 1 /\ UNCHANGED <<counters, exits, reports>>
  BY DEF BurstsInv, BurstTypes, Tick
<1>2. ASSUME NEW i \in Slots, counters[i].active
      PROVE  counters[i].start <= clock'
  <2>1. counters[i].start \in Nat
    BY <1>2, ActiveTyped DEF BurstsInv
  <2>. QED  BY <1>1, <1>2, <2>1 DEF BurstsInv, CountsAreReal
<1>. QED  BY <1>1, <1>2
          DEF BurstsInv, BurstTypes, CountsAreReal, ReportsAreOfExits, BurstsAreReal

\* Appending a time to the exits of one name.
LEMMA ExitAppends ==
  ASSUME BurstTypes, NEW comm \in Comms, exits' = [exits EXCEPT ![comm] = Append(@, clock)]
  PROVE  /\ exits' \in [Comms -> Seq(Nat)]
         /\ \A c \in Comms \ {comm} : exits'[c] = exits[c]
         /\ Len(exits[comm]) \in Nat /\ Len(exits'[comm]) = Len(exits[comm]) + 1
         /\ \A k \in 1..Len(exits[comm]) : exits'[comm][k] = exits[comm][k]
         /\ exits'[comm][Len(exits[comm]) + 1] = clock
<1>1. exits[comm] \in Seq(Nat) /\ clock \in Nat
  BY DEF BurstTypes
<1>2. exits'[comm] = Append(exits[comm], clock)
  BY DEF BurstTypes
<1>3. Append(exits[comm], clock) \in Seq(Nat)
  BY <1>1
<1>. QED  BY <1>1, <1>2, <1>3 DEF BurstTypes

\* What a counter of the name has counted it has still counted with one more
\* exit, and if it counts that one its window holds it, too.
LEMMA CountGrows ==
  ASSUME BurstTypes, NEW comm \in Comms, exits' = [exits EXCEPT ![comm] = Append(@, clock)],
         NEW start \in Nat, NEW m \in Nat, NEW n \in Nat, n <= m + 1,
         start <= clock, m <= Len(exits[comm]),
         \A k \in 1..Len(exits[comm]) : k + m > Len(exits[comm]) => start <= exits[comm][k]
  PROVE  /\ n <= Len(exits'[comm])
         /\ \A k \in 1..Len(exits'[comm]) :
              k + n > Len(exits'[comm]) => start <= exits'[comm][k]
<1>1. /\ Len(exits[comm]) \in Nat /\ Len(exits'[comm]) = Len(exits[comm]) + 1
      /\ \A k \in 1..Len(exits[comm]) : exits'[comm][k] = exits[comm][k]
      /\ exits'[comm][Len(exits[comm]) + 1] = clock
  BY ExitAppends
<1>2. ASSUME NEW k \in 1..Len(exits'[comm]), k + n > Len(exits'[comm])
      PROVE  start <= exits'[comm][k]
  <2>1. CASE k = Len(exits[comm]) + 1
    BY <1>1, <2>1
  <2>2. CASE k # Len(exits[comm]) + 1
    <3>1. k \in 1..Len(exits[comm]) /\ k + m > Len(exits[comm])
      BY <1>1, <1>2, <2>2
    <3>. QED  BY <1>1, <3>1
  <2>. QED  BY <2>1, <2>2
<1>. QED  BY <1>1, <1>2

LEMMA ExitCounts ==
  ASSUME BurstsInv, NEW comm \in Comms, ShortLivedExit(comm)
  PROVE  /\ CountsAreReal'
         /\ LET s == CounterSlot(counters, comm)
            IN  /\ s \in Slots /\ First(CounterOf(counters', comm)) = s
                /\ counters'[s].active /\ counters'[s].comm = comm
                /\ counters'[s].start \in Nat /\ counters'[s].count \in Nat
                /\ clock <= counters'[s].start + BurstWindow
<1> DEFINE c == CounterAt(counters, comm, clock)
           s == CounterSlot(counters, comm)
           l == Len(exits[comm])
<1>1. /\ counters \in [Slots -> Counter(Comms)] /\ clock \in Nat
      /\ \A i \in Slots : counters[i].active => counters[i].start <= clock
  BY DEF BurstsInv, BurstTypes, CountsAreReal
<1>2. /\ counters' = Record(counters, comm, clock) /\ clock' = clock
      /\ exits' = [exits EXCEPT ![comm] = Append(@, clock)]
  BY DEF ShortLivedExit
<1>3. /\ c.start \in Nat /\ c.count \in Nat /\ c.comm = comm
      /\ c.start <= clock /\ clock <= c.start + BurstWindow
      /\ \/ c.count = 0
         \/ \E i \in Slots : counters[i].active /\ c = counters[i]
  <2>1. /\ c \in ActiveCounters /\ c.comm = comm
        /\ c.start <= clock /\ clock <= c.start + BurstWindow
        /\ \/ c.count = 0
           \/ \E i \in Slots : counters[i].active /\ c = counters[i]
    BY <1>1, CounterAtFacts
  <2> HIDE DEF c
  <2>. QED  BY <2>1, TableAssumption DEF ActiveCounters
<1>4. /\ s \in Slots
      /\ \A i \in Slots \ {s} : counters'[i] = counters[i]
      /\ counters'[s].active /\ counters'[s].comm = comm /\ counters'[s].start = c.start
      /\ counters'[s].count = IF c.count < CountCap THEN c.count + 1 ELSE c.count
      /\ First(CounterOf(counters', comm)) = s
  BY <1>1, <1>2, RecordFacts
<1>5. l \in Nat
  BY DEF BurstsInv, BurstTypes
<1>6. c.count <= l /\ \A k \in 1..l : k + c.count > l => c.start <= exits[comm][k]
  <2> HIDE DEF c, s
  <2>1. CASE c.count = 0
    BY <1>5, <2>1
  <2>2. CASE \E i \in Slots : counters[i].active /\ c = counters[i]
    BY <1>3, <2>2 DEF BurstsInv, CountsAreReal
  <2>. QED  BY <1>3, <2>1, <2>2
<1> HIDE DEF c, s
<1>7. counters'[s].count \in Nat /\ counters'[s].count <= c.count + 1
  BY <1>3, <1>4
<1>8. CountsAreReal'
  <2> SUFFICES ASSUME NEW i \in Slots, counters'[i].active
               PROVE  /\ counters'[i].start <= clock'
                      /\ counters'[i].count <= Len(exits'[counters'[i].comm])
                      /\ \A k \in 1..Len(exits'[counters'[i].comm]) :
                           k + counters'[i].count > Len(exits'[counters'[i].comm])
                             => counters'[i].start <= exits'[counters'[i].comm][k]
    BY DEF CountsAreReal
  <2>1. CASE i = s
    <3>1. /\ counters'[s].count <= Len(exits'[comm])
          /\ \A k \in 1..Len(exits'[comm]) :
               k + counters'[s].count > Len(exits'[comm]) => c.start <= exits'[comm][k]
      BY <1>2, <1>3, <1>6, <1>7, CountGrows DEF BurstsInv
    <3>. QED  BY <1>2, <1>3, <1>4, <2>1, <3>1
  <2>2. CASE i # s
    <3>1. counters'[i] = counters[i] /\ counters[i].active
      BY <1>4, <2>2
    <3>2. /\ counters[i].comm \in Comms /\ counters[i].start \in Nat
          /\ counters[i].count \in Nat
      BY <3>1, ActiveTyped DEF BurstsInv
    <3>3. /\ counters[i].start <= clock
          /\ counters[i].count <= Len(exits[counters[i].comm])
          /\ \A k \in 1..Len(exits[counters[i].comm]) :
               k + counters[i].count > Len(exits[counters[i].comm])
                 => counters[i].start <= exits[counters[i].comm][k]
      BY <3>1 DEF BurstsInv, CountsAreReal
    <3>4. CASE counters[i].comm = comm
      <4>1. counters[i].count <= counters[i].count + 1
        BY <3>2
      <4>2. /\ counters[i].count <= Len(exits'[comm])
            /\ \A k \in 1..Len(exits'[comm]) :
                 k + counters[i].count > Len(exits'[comm]) => counters[i].start <= exits'[comm][k]
        BY <1>2, <3>2, <3>3, <3>4, <4>1, CountGrows DEF BurstsInv
      <4>. QED  BY <1>2, <3>1, <3>3, <3>4, <4>2
    <3>5. CASE counters[i].comm # comm
      <4>1. exits'[counters[i].comm] = exits[counters[i].comm]
        BY <1>2, <3>2, <3>5 DEF BurstsInv, BurstTypes
      <4>. QED  BY <1>2, <3>1, <3>3, <4>1
    <3>. QED  BY <3>4, <3>5
  <2>. QED  BY <2>1, <2>2
<1>. QED  BY <1>3, <1>4, <1>7, <1>8 DEF s

LEMMA ExitReports ==
  ASSUME BurstsInv, NEW comm \in Comms, ShortLivedExit(comm)
  PROVE  BurstTypes' /\ ReportsAreOfExits' /\ BurstsAreReal'
<1> DEFINE s == CounterSlot(counters, comm)
           count == counters'[s].count
           nth == Len(exits[comm]) + 1
           new == IF IsBurst(count) THEN {[nth |-> nth, count |-> count]} ELSE {}
<1>1. /\ s \in Slots /\ First(CounterOf(counters', comm)) = s
      /\ counters'[s].active /\ counters'[s].comm = comm
      /\ counters'[s].start \in Nat /\ counters'[s].count \in Nat
      /\ clock <= counters'[s].start + BurstWindow
      /\ CountsAreReal'
  BY ExitCounts
<1>2. /\ counters' = Record(counters, comm, clock) /\ clock' = clock
      /\ exits' = [exits EXCEPT ![comm] = Append(@, clock)]
      /\ reports' = [reports EXCEPT ![comm] = @ \cup new]
  BY <1>1 DEF ShortLivedExit
<1>3. /\ counters \in [Slots -> Counter(Comms)] /\ clock \in Nat
      /\ reports \in [Comms -> SUBSET [nth : Nat, count : Nat]]
  BY DEF BurstsInv, BurstTypes
<1>4. /\ exits' \in [Comms -> Seq(Nat)]
      /\ \A d \in Comms \ {comm} : exits'[d] = exits[d]
      /\ Len(exits[comm]) \in Nat /\ Len(exits'[comm]) = nth
      /\ \A k \in 1..Len(exits[comm]) : exits'[comm][k] = exits[comm][k]
      /\ exits'[comm][nth] = clock
  BY <1>2, ExitAppends DEF BurstsInv
<1>5. counters' \in [Slots -> Counter(Comms)]
  BY <1>2, <1>3, RecordType
<1>6. /\ nth \in Nat /\ count <= nth
      /\ \A k \in 1..nth : k + count > nth => counters'[s].start <= exits'[comm][k]
  BY <1>1, <1>4 DEF CountsAreReal
<1> HIDE DEF s
<1>7. new \in SUBSET [nth : Nat, count : Nat]
  BY <1>1, <1>6
<1>8. BurstTypes'
  <2>1. reports' \in [Comms -> SUBSET [nth : Nat, count : Nat]]
    <3> HIDE DEF new
    <3>. QED  BY <1>2, <1>3, <1>7
  <2>. QED  BY <1>2, <1>3, <1>4, <1>5, <2>1 DEF BurstTypes
<1>9. ASSUME NEW d \in Comms, NEW r \in reports'[d]
      PROVE  /\ r.nth \in 1..Len(exits'[d])
             /\ BurstThreshold <= r.count /\ r.count <= r.nth
             /\ exits'[d][r.nth] <= exits'[d][r.nth + 1 - r.count] + BurstWindow
  <2>1. CASE r \in reports[d]
    <3>1. /\ r.nth \in 1..Len(exits[d]) /\ r.nth \in Nat /\ r.count \in Nat
          /\ BurstThreshold <= r.count /\ r.count <= r.nth
          /\ exits[d][r.nth] <= exits[d][r.nth + 1 - r.count] + BurstWindow
      <4>1. r \in [nth : Nat, count : Nat]
        BY <1>3, <2>1
      <4>. QED  BY <2>1, <4>1 DEF BurstsInv, ReportsAreOfExits, BurstsAreReal
    <3>2. r.nth + 1 - r.count \in 1..Len(exits[d])
      <4>1. Len(exits[d]) \in Nat
        BY DEF BurstsInv, BurstTypes
      <4>. QED  BY <3>1, <4>1, BurstsAssumption
    <3>3. CASE d = comm
      <4>1. /\ Len(exits'[d]) = nth /\ Len(exits[d]) \in Nat
            /\ nth = Len(exits[d]) + 1
        BY <1>4, <3>3 DEF BurstsInv, BurstTypes
      <4>2. \A k \in 1..Len(exits[d]) : exits'[d][k] = exits[d][k]
        BY <1>4, <3>3
      <4>3. /\ exits'[d][r.nth] = exits[d][r.nth]
            /\ exits'[d][r.nth + 1 - r.count] = exits[d][r.nth + 1 - r.count]
        BY <3>1, <3>2, <4>2
      <4>. QED  BY <3>1, <4>1, <4>3
    <3>4. CASE d # comm
      BY <1>4, <3>1, <3>4
    <3>. QED  BY <3>3, <3>4
  <2>2. CASE d = comm /\ r = [nth |-> nth, count |-> count] /\ IsBurst(count)
    <3>1. r.nth = nth /\ r.count = count
      BY <2>2
    <3> HIDE DEF nth, count
    <3>2. BurstThreshold <= count
      BY <1>1, <2>2, BurstsAssumption DEF IsBurst, count
    <3>3. count \in Nat
      BY <1>1 DEF count
    <3>4. nth + 1 - count \in 1..nth /\ (nth + 1 - count) + count > nth
      BY <1>6, <3>2, <3>3, BurstsAssumption
    <3>5. counters'[s].start <= exits'[comm][nth + 1 - count]
      BY <1>6, <3>4
    <3>6. exits'[comm][nth + 1 - count] \in Nat
      BY <1>4, <3>4
    <3>7. clock <= exits'[comm][nth + 1 - count] + BurstWindow
      BY <1>1, <1>3, <3>5, <3>6, TableAssumption
    <3>8. nth \in 1..nth
      BY <1>6, <3>2, <3>3, BurstsAssumption
    <3>. QED  BY <1>4, <1>6, <2>2, <3>1, <3>2, <3>7, <3>8
  <2>3. r \in reports[d] \/ (d = comm /\ r \in new)
    <3> HIDE DEF new
    <3>. QED  BY <1>2, <1>3
  <2>. QED  BY <2>1, <2>2, <2>3
<1>. QED  BY <1>8, <1>9 DEF ReportsAreOfExits, BurstsAreReal

\* A burst that is logged has happened: the counters that are given away, the
\* windows that restart and the names that come back never make one up.
THEOREM BurstsHappened == Spec => []BurstsAreReal
<1>1. BurstsInv /\ [Next]_vars => BurstsInv'
  <2> SUFFICES ASSUME BurstsInv, [Next]_vars PROVE BurstsInv'
    OBVIOUS
  <2>1. CASE Tick
    BY <2>1, TickBursts
  <2>2. ASSUME NEW comm \in Comms, ShortLivedExit(comm)
        PROVE  BurstsInv'
    BY <2>2, ExitCounts, ExitReports DEF BurstsInv
  <2>3. CASE UNCHANGED vars
    BY <2>3 DEF vars, BurstsInv, BurstTypes, CountsAreReal, ReportsAreOfExits, BurstsAreReal
  <2>. QED  BY <2>1, <2>2, <2>3 DEF Next
<1>2. BurstsInv => BurstsAreReal
  BY DEF BurstsInv
<1>. QED  BY InitBursts, <1>1, <1>2, PTL DEF Spec
-----------------------------------------------------------------------------
(* Types, and which exits the counters are about.                           *)

\* At most one counter is in use for a name.
NamesOnce ==
  \A i, j \in Slots :
    counters[i].active /\ counters[j].active /\ counters[i].comm = counters[j].comm => i = j

TableInv == TypeOK /\ NamesOnce /\ StartsAreExits /\ ExitsArePast

\* One exit: a counter whose window is not over counts it, else a fresh one
\* does, in the slot of the name, in a free one, or in that of a counter with
\* the oldest window of all.
LEMMA ExitEffect ==
  ASSUME BurstsInv, TableInv, NEW comm \in Comms, ShortLivedExit(comm)
  PROVE  LET s == CounterSlot(counters, comm)
             l == Len(exits[comm])
         IN  /\ s \in Slots /\ \A i \in Slots \ {s} : counters'[i] = counters[i]
             /\ counters'[s].active /\ counters'[s].comm = comm /\ counters'[s].count \in Nat
             /\ \/ /\ Open(s, comm) /\ counters'[s].start = counters[s].start
                   /\ counters'[s].count = IF counters[s].count < CountCap
                                           THEN counters[s].count + 1 ELSE counters[s].count
                \/ /\ \A i \in Slots : ~Open(i, comm)
                   /\ counters'[s].start = clock /\ counters'[s].count = 1
             /\ \/ ~counters[s].active
                \/ counters[s].comm = comm
                \/ /\ CounterOf(counters, comm) = {}
                   /\ \A i \in Slots : counters[i].active /\ counters[s].start <= counters[i].start
             /\ counters' \in [Slots -> Counter(Comms)] /\ clock' = clock
             /\ exits' = [exits EXCEPT ![comm] = Append(@, clock)]
             /\ reports' \in [Comms -> SUBSET [nth : Nat, count : Nat]]
             /\ \A c \in Comms : reports[c] \subseteq reports'[c]
             /\ IsBurst(counters'[s].count) => \E r \in reports'[comm] : r.nth = l + 1
<1> DEFINE s == CounterSlot(counters, comm)
           f == First(CounterOf(counters, comm))
           c == CounterAt(counters, comm, clock)
<1>1. /\ counters \in [Slots -> Counter(Comms)] /\ clock \in Nat
      /\ \A i \in Slots : counters[i].active => counters[i].start <= clock
      /\ reports \in [Comms -> SUBSET [nth : Nat, count : Nat]]
  BY DEF BurstsInv, BurstTypes, CountsAreReal
<1>2. /\ counters' = Record(counters, comm, clock) /\ clock' = clock
      /\ exits' = [exits EXCEPT ![comm] = Append(@, clock)]
  BY DEF ShortLivedExit
<1>3. /\ s \in Slots /\ \A i \in Slots \ {s} : counters'[i] = counters[i]
      /\ counters'[s].active /\ counters'[s].comm = comm /\ counters'[s].start = c.start
      /\ counters'[s].count = IF c.count < CountCap THEN c.count + 1 ELSE c.count
      /\ First(CounterOf(counters', comm)) = s
  BY <1>1, <1>2, RecordFacts
<1>4. counters' \in [Slots -> Counter(Comms)] /\ BurstTypes' /\ counters'[s].count \in Nat
  BY ExitReports, ExitCounts DEF BurstTypes
<1>5. reports' = [reports EXCEPT ![comm] = @ \cup
        IF IsBurst(counters'[s].count)
        THEN {[nth |-> Len(exits[comm]) + 1, count |-> counters'[s].count]} ELSE {}]
  BY <1>2, <1>3 DEF ShortLivedExit
<1>6. /\ \A d \in Comms : reports[d] \subseteq reports'[d]
      /\ IsBurst(counters'[s].count) => \E r \in reports'[comm] : r.nth = Len(exits[comm]) + 1
  <2> DEFINE logged == [nth |-> Len(exits[comm]) + 1, count |-> counters'[s].count]
             new == IF IsBurst(counters'[s].count) THEN {logged} ELSE {}
  <2>1. /\ IsBurst(counters'[s].count) => logged \in new
        /\ logged.nth = Len(exits[comm]) + 1
    OBVIOUS
  <2>2. reports' = [reports EXCEPT ![comm] = @ \cup new]
    BY <1>5
  <2> HIDE DEF logged, new
  <2>3. reports'[comm] = reports[comm] \cup new /\ \A d \in Comms \ {comm} : reports'[d] = reports[d]
    BY <1>1, <2>2
  <2>. QED  BY <2>1, <2>3
<1>7. CASE CounterOf(counters, comm) = {}
  <2>1. c.start = clock /\ c.count = 0
    BY <1>7 DEF CounterAt, FreshCounter
  <2>2. \A i \in Slots : ~Open(i, comm)
    BY <1>7 DEF Open, CounterOf
  <2>3. counters'[s].count = 1
    BY <1>3, <2>1, BurstsAssumption, TableAssumption
  <2>4. s = AllocCounter(counters)
    BY <1>7 DEF CounterSlot
  <2>5. ~counters[s].active \/ \A i \in Slots : counters[i].active /\ counters[s].start <= counters[i].start
    BY <1>1, <2>4, AllocCounterIs DEF FreeCounters, OldestCounters
  <2> HIDE DEF s, c
  <2>. QED  BY <1>2, <1>3, <1>4, <1>7, <1>6, <2>1, <2>2, <2>3, <2>5 DEF BurstTypes, s
<1>8. CASE CounterOf(counters, comm) # {}
  <2>1. s = f /\ f \in Slots /\ counters[s].active /\ counters[s].comm = comm
    BY <1>8, FirstIn DEF CounterSlot, CounterOf
  <2>2. \A i \in Slots : Open(i, comm) => i = s
    BY <2>1 DEF Open, TableInv, NamesOnce
  <2>3. counters[s].start \in Nat
    BY <2>1, ActiveTyped DEF BurstsInv
  <2>4. /\ Open(s, comm) => c = counters[s]
        /\ ~Open(s, comm) => c.start = clock /\ c.count = 0
    BY <1>1, <1>8, <2>1, <2>3, TableAssumption DEF Open, CounterAt, FreshCounter
  <2> HIDE DEF s, c, f
  <2>5. CASE Open(s, comm)
    BY <1>2, <1>3, <1>4, <1>6, <2>1, <2>4, <2>5 DEF BurstTypes, s
  <2>6. CASE ~Open(s, comm)
    <3>1. \A i \in Slots : ~Open(i, comm)
      BY <2>2, <2>6
    <3>2. counters'[s].count = 1
      BY <1>3, <2>4, <2>6, BurstsAssumption, TableAssumption
    <3>. QED  BY <1>2, <1>3, <1>4, <1>6, <2>1, <2>4, <2>6, <3>1, <3>2 DEF BurstTypes, s
  <2>. QED  BY <2>5, <2>6
<1>. QED  BY <1>7, <1>8

\* A name with one counter at most has a set of counters of one at most.
LEMMA OneCounter ==
  ASSUME NEW table, NEW c,
         \A i, j \in CounterOf(table, c) : i = j
  PROVE  Cardinality(CounterOf(table, c)) <= 1
<1>1. CASE CounterOf(table, c) = {}
  BY <1>1, FS_EmptySet
<1>2. CASE CounterOf(table, c) # {}
  <2>1. PICK i \in CounterOf(table, c) : TRUE
    BY <1>2
  <2>2. CounterOf(table, c) = {i}
    BY <2>1
  <2>3. Cardinality({i}) = 1
    BY FS_Singleton
  <2>. QED  BY <2>2, <2>3
<1>. QED  BY <1>1, <1>2

LEMMA InitTable == Init => TableInv
<1> SUFFICES ASSUME Init PROVE TableInv
  OBVIOUS
<1>1. \A i \in Slots : ~counters[i].active
  BY DEF Init, NoCounter
<1>2. NamesOnce /\ StartsAreExits /\ ExitsArePast
  BY <1>1 DEF Init, NamesOnce, StartsAreExits, ExitsArePast
<1>3. \A c \in Comms : Cardinality(CounterOf(counters, c)) <= 1
  BY <1>1, OneCounter DEF CounterOf
<1>4. TypeOK
  <2>1. counters \in [Slots -> Counter(Comms)]
    BY DEF Init, Counter
  <2>. QED  BY <1>1, <1>3, <2>1, BurstsAssumption DEF Init, TypeOK
<1>. QED  BY <1>2, <1>4 DEF TableInv

LEMMA TickTable ==
  ASSUME TableInv, Tick
  PROVE  TableInv'
<1> USE DEF TableInv
<1>1. /\ clock \in 0..MaxTime /\ clock' = clock + 1 /\ clock < MaxTime /\ MaxTime \in Nat
      /\ UNCHANGED <<counters, exits, reports>>
  BY BurstsAssumption DEF TypeOK, Tick
<1>2. ASSUME NEW i \in Slots, counters[i].active
      PROVE  counters[i].start <= clock'
  <2>1. counters[i].start \in Nat /\ counters[i].start <= clock
    <3>1. counters[i] \in Counter(Comms)
      BY DEF TypeOK
    <3>2. counters[i] \in ActiveCounters
      BY <1>2, <3>1, ActiveCounter DEF ActiveCounters
    <3>. QED  BY <1>2, <3>2 DEF TypeOK, ActiveCounters
  <2>. QED  BY <1>1, <2>1
<1>3. TypeOK'
  BY <1>1, <1>2 DEF TypeOK
<1>4. ASSUME NEW c \in Comms, NEW k \in 1..Len(exits[c])
      PROVE  exits[c][k] <= clock'
  <2>1. exits[c] \in Seq(0..MaxTime)
    BY DEF TypeOK
  <2>2. exits[c][k] \in 0..MaxTime
    <3>1. \A T : exits[c] \in Seq(T) => exits[c][k] \in T
      OBVIOUS
    <3>. QED  BY <2>1, <3>1
  <2>. QED  BY <1>1, <2>2 DEF ExitsArePast
<1>. QED  BY <1>1, <1>3, <1>4 DEF NamesOnce, StartsAreExits, ExitsArePast

LEMMA ExitTable ==
  ASSUME BurstsInv, TableInv, NEW comm \in Comms, ShortLivedExit(comm)
  PROVE  TableInv'
<1> USE DEF TableInv
<1> DEFINE s == CounterSlot(counters, comm)
           l == Len(exits[comm])
<1>1. /\ s \in Slots /\ \A i \in Slots \ {s} : counters'[i] = counters[i]
      /\ counters'[s].active /\ counters'[s].comm = comm /\ counters'[s].count \in Nat
      /\ \/ /\ Open(s, comm) /\ counters'[s].start = counters[s].start
            /\ counters'[s].count = IF counters[s].count < CountCap
                                    THEN counters[s].count + 1 ELSE counters[s].count
         \/ /\ \A i \in Slots : ~Open(i, comm)
            /\ counters'[s].start = clock /\ counters'[s].count = 1
      /\ \/ ~counters[s].active
         \/ counters[s].comm = comm
         \/ /\ CounterOf(counters, comm) = {}
            /\ \A i \in Slots : counters[i].active /\ counters[s].start <= counters[i].start
      /\ counters' \in [Slots -> Counter(Comms)] /\ clock' = clock
      /\ exits' = [exits EXCEPT ![comm] = Append(@, clock)]
      /\ reports' \in [Comms -> SUBSET [nth : Nat, count : Nat]]
  BY ExitEffect
<1>2. s \in CounterOf(counters, comm) \/ CounterOf(counters, comm) = {}
  BY FirstIn DEF CounterSlot, CounterOf
<1> HIDE DEF s
<1>3. /\ clock \in 0..MaxTime /\ exits \in [Comms -> Seq(0..MaxTime)]
      /\ \A i \in Slots : counters[i].active =>
           /\ counters[i].comm \in Comms /\ counters[i].start \in Nat
           /\ counters[i].count \in Nat
           /\ counters[i].start <= clock /\ counters[i].count > 0
  BY ActiveTyped DEF BurstsInv, TypeOK
<1>4. /\ l \in Nat /\ exits'[comm] = Append(exits[comm], clock)
      /\ exits' \in [Comms -> Seq(0..MaxTime)]
      /\ Len(exits'[comm]) = l + 1 /\ exits'[comm][l + 1] = clock
      /\ \A k \in 1..l : exits'[comm][k] = exits[comm][k]
      /\ \A c \in Comms \ {comm} : exits'[c] = exits[c]
  <2>1. exits[comm] \in Seq(0..MaxTime)
    BY <1>3
  <2>2. /\ Append(exits[comm], clock) \in Seq(0..MaxTime)
        /\ Len(Append(exits[comm], clock)) = l + 1 /\ l \in Nat
        /\ Append(exits[comm], clock)[l + 1] = clock
        /\ \A k \in 1..l : Append(exits[comm], clock)[k] = exits[comm][k]
    BY <1>3, <2>1
  <2>. QED  BY <1>1, <1>3, <2>2
<1>5. NamesOnce'
  <2> SUFFICES ASSUME NEW i \in Slots, NEW j \in Slots, counters'[i].active, counters'[j].active,
                      counters'[i].comm = counters'[j].comm, i # j
               PROVE  FALSE
    BY DEF NamesOnce
  <2>1. ASSUME NEW k \in Slots, k # s, counters'[k].active, counters'[k].comm = comm
        PROVE  FALSE
    <3>1. k \in CounterOf(counters, comm)
      BY <1>1, <2>1 DEF CounterOf
    <3>2. s \in CounterOf(counters, comm)
      BY <1>2, <3>1
    <3>. QED  BY <2>1, <3>1, <3>2 DEF NamesOnce, CounterOf
  <2>2. i # s /\ j # s
    BY <1>1, <2>1
  <2>. QED  BY <1>1, <2>2 DEF NamesOnce
<1>6. \A c \in Comms : Cardinality(CounterOf(counters', c)) <= 1
  <2> SUFFICES ASSUME NEW c \in Comms PROVE Cardinality(CounterOf(counters', c)) <= 1
    OBVIOUS
  <2>1. \A i, j \in CounterOf(counters', c) : i = j
    BY <1>5 DEF NamesOnce, CounterOf
  <2>. QED  BY <2>1, OneCounter
<1>7. counters'[s].count > 0 /\ counters'[s].start \in Nat /\ counters'[s].start <= clock
  BY <1>1, <1>3, TableAssumption DEF Open
<1>8. TypeOK'
  <2>1. ASSUME NEW i \in Slots, counters'[i].active
        PROVE  counters'[i].count > 0 /\ counters'[i].start <= clock'
    BY <1>1, <1>3, <1>7, <2>1
  <2>. QED  BY <1>1, <1>3, <1>4, <1>6, <2>1 DEF TypeOK
<1>9. StartsAreExits'
  <2> SUFFICES ASSUME NEW i \in Slots, counters'[i].active
               PROVE  \E k \in 1..Len(exits'[counters'[i].comm]) :
                        exits'[counters'[i].comm][k] = counters'[i].start
    BY DEF StartsAreExits
  <2>1. ASSUME NEW j \in Slots, counters[j].active
        PROVE  \E k \in 1..Len(exits'[counters[j].comm]) :
                 exits'[counters[j].comm][k] = counters[j].start
    <3>1. PICK k \in 1..Len(exits[counters[j].comm]) :
            exits[counters[j].comm][k] = counters[j].start
      BY <2>1 DEF StartsAreExits
    <3>2. counters[j].comm \in Comms
      BY <1>3, <2>1
    <3>3. CASE counters[j].comm = comm
      <4>1. k \in 1..l + 1 /\ exits'[comm][k] = exits[comm][k]
        BY <1>4, <3>1, <3>3
      <4>. QED  BY <1>4, <3>1, <3>3, <4>1
    <3>4. CASE counters[j].comm # comm
      BY <1>4, <3>1, <3>2, <3>4
    <3>. QED  BY <3>3, <3>4
  <2>2. CASE i # s
    BY <1>1, <2>1, <2>2
  <2>3. CASE i = s /\ Open(s, comm) /\ counters'[s].start = counters[s].start
    <3>1. counters[s].active /\ counters[s].comm = comm
      BY <2>3 DEF Open
    <3>. QED  BY <1>1, <2>1, <2>3, <3>1
  <2>4. CASE i = s /\ counters'[s].start = clock
    <3>1. l + 1 \in 1..Len(exits'[comm])
      BY <1>4
    <3>. QED  BY <1>1, <1>4, <2>4, <3>1
  <2>. QED  BY <1>1, <2>2, <2>3, <2>4
<1>10. ExitsArePast'
  <2> SUFFICES ASSUME NEW c \in Comms, NEW k \in 1..Len(exits'[c])
               PROVE  exits'[c][k] <= clock'
    BY DEF ExitsArePast
  <2>1. CASE c # comm
    BY <1>1, <1>4, <2>1 DEF ExitsArePast
  <2>2. CASE c = comm
    <3>1. k \in 1..l \/ k = l + 1
      BY <1>4, <2>2
    <3>. QED  BY <1>1, <1>3, <1>4, <2>2, <3>1 DEF ExitsArePast
  <2>. QED  BY <2>1, <2>2
<1>. QED  BY <1>5, <1>8, <1>9, <1>10
-----------------------------------------------------------------------------
(* Dense bursts.                                                            *)

\* The names that have an exit within a window that ends at t.
Around(t) ==
  {c \in Comms : \E i \in 1..Len(exits[c]) : exits[c][i] <= t /\ t <= exits[c][i] + BurstWindow}

LEMMA CrowdedIs ==
  ASSUME NEW t
  PROVE  /\ IsFiniteSet(Around(t)) /\ (Crowded(t) <=> Cardinality(Around(t)) > MaxTracked)
         /\ IsFiniteSet(Around(t)') /\ (Crowded(t)' <=> Cardinality(Around(t)') > MaxTracked)
         /\ Cardinality(Around(t)) \in Nat /\ Cardinality(Around(t)') \in Nat
<1>1. Around(t) \in SUBSET Comms /\ Around(t)' \in SUBSET Comms
  BY DEF Around
<1>2. IsFiniteSet(Around(t)) /\ IsFiniteSet(Around(t)')
  BY <1>1, FS_Subset, BurstsAssumption
<1>3. (Crowded(t) <=> Cardinality(Around(t)) > MaxTracked)
      /\ (Crowded(t)' <=> Cardinality(Around(t)') > MaxTracked)
  BY DEF Crowded, Around
<1>. QED  BY <1>2, <1>3, FS_CardinalityType

\* Exits do not take back what was crowded.
LEMMA CrowdedStays ==
  ASSUME BurstsInv, NEW comm \in Comms, exits' = [exits EXCEPT ![comm] = Append(@, clock)],
         NEW t, Crowded(t)
  PROVE  Crowded(t)'
<1>1. ASSUME NEW c \in Around(t) PROVE c \in Around(t)'
  <2>1. PICK i \in 1..Len(exits[c]) : exits[c][i] <= t /\ t <= exits[c][i] + BurstWindow
    BY DEF Around
  <2>2. i \in 1..Len(exits'[c]) /\ exits'[c][i] = exits[c][i] /\ c \in Comms
    <3>1. CASE c = comm
      BY <3>1, ExitAppends DEF BurstsInv
    <3>2. CASE c # comm
      BY <3>2, ExitAppends DEF BurstsInv, Around
    <3>. QED  BY <3>1, <3>2
  <2>. QED  BY <2>1, <2>2 DEF Around
<1>2. Around(t) \in SUBSET (Around(t)')
  BY <1>1
<1>3. Cardinality(Around(t)) <= Cardinality(Around(t)')
  BY <1>2, CrowdedIs, FS_Subset
<1>. QED  BY <1>3, CrowdedIs, TableAssumption

\* A counter whose window is not over is given away to another name only when
\* more names than there are counters have exits within a window.
LEMMA EvictionCrowds ==
  ASSUME BurstsInv, TableInv, NEW comm \in Comms, ShortLivedExit(comm),
         NEW c \in Comms, c # comm, Open(CounterSlot(counters, comm), c),
         NEW t, t = clock
  PROVE  Crowded(t)'
<1> DEFINE s == CounterSlot(counters, comm)
<1>1. /\ s \in Slots /\ counters[s].active /\ counters[s].comm = c
      /\ clock <= counters[s].start + BurstWindow
      /\ CounterOf(counters, comm) = {}
      /\ \A i \in Slots : counters[i].active /\ counters[s].start <= counters[i].start
      /\ exits' = [exits EXCEPT ![comm] = Append(@, clock)]
  BY ExitEffect DEF Open
<1> HIDE DEF s
<1>2. /\ clock \in Nat /\ BurstWindow \in Nat /\ MaxTracked \in Nat \ {0}
      /\ \A i \in Slots : /\ counters[i].comm \in Comms /\ counters[i].start \in Nat
                          /\ counters[i].start <= clock
      /\ counters[s].start \in Nat
  BY <1>1, ActiveTyped, TableAssumption DEF BurstsInv, BurstTypes, TableInv, TypeOK
<1>3. /\ Len(exits[comm]) \in Nat /\ Len(exits'[comm]) = Len(exits[comm]) + 1
      /\ \A k \in 1..Len(exits[comm]) : exits'[comm][k] = exits[comm][k]
      /\ exits'[comm][Len(exits[comm]) + 1] = clock
      /\ \A d \in Comms \ {comm} : exits'[d] = exits[d]
  BY <1>1, ExitAppends DEF BurstsInv
<1>4. comm \in Around(t)'
  <2>1. Len(exits[comm]) + 1 \in 1..Len(exits'[comm])
    BY <1>3
  <2>2. clock <= t /\ t <= clock + BurstWindow
    BY <1>2
  <2>. QED  BY <1>3, <2>1, <2>2 DEF Around
<1>5. ASSUME NEW i \in Slots
      PROVE  counters[i].comm \in Around(t)' \ {comm}
  <2>1. counters[i].active /\ counters[i].comm # comm
    BY <1>1 DEF CounterOf
  <2>2. PICK k \in 1..Len(exits[counters[i].comm]) :
          exits[counters[i].comm][k] = counters[i].start
    BY <2>1 DEF TableInv, StartsAreExits
  <2>3. counters[i].start <= t /\ t <= counters[i].start + BurstWindow
    <3>1. counters[s].start <= counters[i].start
      BY <1>1
    <3>. QED  BY <1>1, <1>2, <3>1
  <2>4. exits'[counters[i].comm] = exits[counters[i].comm]
    BY <1>2, <1>3, <2>1
  <2>. QED  BY <1>2, <2>1, <2>2, <2>3, <2>4 DEF Around
<1>6. MaxTracked <= Cardinality(Around(t)' \ {comm})
  <2> DEFINE f == [i \in Slots |-> counters[i].comm]
             others == Around(t)' \ {comm}
  <2>1. IsFiniteSet(others)
    BY CrowdedIs, FS_RemoveElement
  <2>2. f \in Injection(Slots, others)
    <3>1. f \in [Slots -> others]
      BY <1>5
    <3>2. \A i, j \in Slots : f[i] = f[j] => i = j
      BY <1>1 DEF TableInv, NamesOnce
    <3> HIDE DEF f, others
    <3>. QED  BY <3>1, <3>2 DEF Injection, IsInjective
  <2>3. Cardinality(Slots) = MaxTracked
    BY <1>2, FS_Interval DEF Slots
  <2> HIDE DEF f, others
  <2>4. MaxTracked <= Cardinality(others)
    BY <2>1, <2>2, <2>3, FS_Injection
  <2>. QED  BY <2>4 DEF others
<1>7. Cardinality(Around(t)' \ {comm}) = Cardinality(Around(t)') - 1
  BY <1>4, CrowdedIs, FS_RemoveElement
<1>. QED  BY <1>2, <1>6, <1>7, CrowdedIs

\* Numbers of the table and of the exits.
LEMMA Numbers ==
  ASSUME BurstsInv, TableInv
  PROVE  /\ clock \in Nat /\ BurstWindow \in Nat /\ CountCap \in Nat
         /\ BurstThreshold \in Nat /\ BurstThreshold >= 2 /\ BurstThreshold <= CountCap
         /\ \A i \in Slots : counters[i].active =>
              /\ counters[i].start \in Nat /\ counters[i].start <= clock
              /\ counters[i].count \in Nat /\ counters[i].count > 0
         /\ \A c \in Comms : Len(exits[c]) \in Nat
         /\ \A c \in Comms : \A k \in 1..Len(exits[c]) :
              exits[c][k] \in Nat /\ exits[c][k] <= clock
<1>1. \A i \in Slots : counters[i].active =>
        /\ counters[i].start \in Nat /\ counters[i].start <= clock
        /\ counters[i].count \in Nat /\ counters[i].count > 0
  BY ActiveTyped DEF BurstsInv, TableInv, TypeOK
<1>2. ASSUME NEW c \in Comms
      PROVE  /\ Len(exits[c]) \in Nat
             /\ \A k \in 1..Len(exits[c]) : exits[c][k] \in Nat /\ exits[c][k] <= clock
  <2>1. exits[c] \in Seq(Nat)
    BY DEF BurstsInv, BurstTypes
  <2>2. Len(exits[c]) \in Nat /\ \A k \in 1..Len(exits[c]) : exits[c][k] \in Nat
    BY <2>1
  <2>. QED  BY <2>2 DEF TableInv, ExitsArePast
<1>. QED  BY <1>1, <1>2, TableAssumption, BurstsAssumption DEF BurstsInv, BurstTypes

\* What is calm now has been calm.
LEMMA CalmBefore ==
  ASSUME BurstsInv, TableInv, NEW c \in Comms, NEW first \in 1..Len(exits[c]),
         exits'[c][first] = exits[c][first], clock' \in {clock, clock + 1},
         \A t \in Nat : Crowded(t) => Crowded(t)',
         Calm(c, first)'
  PROVE  Calm(c, first)
<1>1. /\ clock \in Nat /\ BurstWindow \in Nat /\ exits[c][first] \in Nat
  BY Numbers
<1>2. /\ clock' <= exits[c][first] + BurstWindow
      /\ \A t \in exits[c][first] .. clock' : ~Crowded(t)'
  BY DEF Calm
<1>3. ASSUME NEW t \in exits[c][first] .. clock PROVE ~Crowded(t)
  <2>1. t \in Nat /\ t \in exits[c][first] .. clock'
    BY <1>1
  <2>. QED  BY <1>2, <2>1
<1>4. clock <= exits[c][first] + BurstWindow
  BY <1>1, <1>2
<1>. QED  BY <1>3, <1>4 DEF Calm

LEMMA TickCounted ==
  ASSUME BurstsInv, TableInv, BurstsCounted, Tick
  PROVE  BurstsCounted'
<1>1. clock' = clock + 1 /\ UNCHANGED <<counters, exits, reports>>
  BY DEF Tick
<1> SUFFICES ASSUME NEW c \in Comms, NEW first \in 1..Len(exits[c]), Calm(c, first)'
             PROVE  Accounted(c, first)'
  BY <1>1 DEF BurstsCounted
<1> DEFINE l == Len(exits[c])
<1>2. Calm(c, first)
  <2>1. \A t \in Nat : Crowded(t) => Crowded(t)'
    BY <1>1 DEF Crowded
  <2>. QED  BY <1>1, <2>1, CalmBefore
<1>3. Accounted(c, first)
  BY <1>2 DEF BurstsCounted
<1>4. ASSUME NEW i \in Slots
      PROVE  Open(i, c)' <=> /\ counters[i].active /\ counters[i].comm = c
                             /\ clock + 1 <= counters[i].start + BurstWindow
  BY <1>1 DEF Open
<1>5. \A i \in Slots : Open(i, c)' => Open(i, c)
  BY <1>4, Numbers DEF Open
<1>6. l \in Nat /\ first \in Nat /\ exits[c][first] \in Nat
      /\ clock + 1 <= exits[c][first] + BurstWindow
  <2>1. clock' <= exits'[c][first] + BurstWindow
    BY DEF Calm
  <2>. QED  BY <1>1, <2>1, Numbers
<1>7. CASE Reported(c, first, l)
  BY <1>1, <1>7 DEF Accounted, Reported
<1>8. CASE (\A i \in Slots : ~Open(i, c)) /\ BurstThreshold + first >= l + 3
  BY <1>1, <1>5, <1>8 DEF Accounted
<1>9. ASSUME NEW i \in Slots, Open(i, c), counters[i].count < BurstThreshold,
             \/ counters[i].count + first >= l + 2
             \/ /\ counters[i].start >= exits[c][first]
                /\ counters[i].count + BurstThreshold + first >= l + 3
      PROVE  Accounted(c, first)'
  <2>1. CASE Open(i, c)'
    BY <1>1, <1>9, <2>1 DEF Accounted
  <2>2. CASE ~Open(i, c)'
    <3>1. /\ counters[i].active /\ counters[i].comm = c /\ counters[i].start \in Nat
          /\ counters[i].count \in Nat /\ ~(clock + 1 <= counters[i].start + BurstWindow)
      BY <1>4, <1>9, <2>2, Numbers DEF Open
    <3>2. BurstThreshold + first >= l + 3
      <4>1. BurstThreshold \in Nat /\ BurstWindow \in Nat /\ clock \in Nat
        BY Numbers
      <4>2. ~(counters[i].start >= exits[c][first])
        <5>1. \A a, b, w, t \in Nat : t + 1 <= b + w /\ ~(t + 1 <= a + w) => ~(a >= b)
          OBVIOUS
        <5>. QED  BY <1>6, <3>1, <4>1, <5>1
      <4>3. counters[i].count + first >= l + 2
        BY <1>9, <4>2
      <4>4. \A n, b, f, k \in Nat : n < b /\ n + f >= k + 2 => b + f >= k + 3
        OBVIOUS
      <4>. QED  BY <1>6, <1>9, <3>1, <4>1, <4>3, <4>4
    <3>3. \A j \in Slots : ~Open(j, c)'
      BY <1>4, <2>2, <3>1 DEF TableInv, NamesOnce
    <3>. QED  BY <1>1, <3>2, <3>3 DEF Accounted
  <2>. QED  BY <2>1, <2>2
<1>. QED  BY <1>3, <1>7, <1>8, <1>9 DEF Accounted

\* An exit of another name changes nothing for a name, unless it takes its
\* counter.
LEMMA OtherCounted ==
  ASSUME BurstsInv, TableInv, BurstsCounted, NEW comm \in Comms, ShortLivedExit(comm),
         NEW c \in Comms, c # comm, NEW first \in 1..Len(exits'[c]), Calm(c, first)'
  PROVE  Accounted(c, first)'
<1> DEFINE s == CounterSlot(counters, comm)
           l == Len(exits[c])
<1>1. /\ s \in Slots /\ \A i \in Slots \ {s} : counters'[i] = counters[i]
      /\ counters'[s].comm = comm /\ clock' = clock
      /\ exits' = [exits EXCEPT ![comm] = Append(@, clock)]
      /\ reports[c] \subseteq reports'[c]
  BY ExitEffect
<1>2. exits'[c] = exits[c]
  BY <1>1, ExitAppends DEF BurstsInv
<1>3. Calm(c, first)
  <2>1. \A t \in Nat : Crowded(t) => Crowded(t)'
    BY <1>1, CrowdedStays
  <2>. QED  BY <1>1, <1>2, <2>1, CalmBefore
<1>4. Accounted(c, first)
  BY <1>2, <1>3 DEF BurstsCounted
<1>5. ~Open(s, c)
  <2> SUFFICES ASSUME Open(s, c) PROVE FALSE
    OBVIOUS
  <2>1. PICK t \in Nat : t = clock
    BY Numbers
  <2>2. Crowded(t)'
    BY <2>1, EvictionCrowds
  <2>3. t \in exits'[c][first] .. clock'
    BY <1>1, <1>2, <2>1, Numbers
  <2>. QED  BY <2>2, <2>3 DEF Calm
<1> HIDE DEF s
<1>6. ASSUME NEW i \in Slots
      PROVE  Open(i, c)' <=> Open(i, c)
  <2>1. CASE i = s
    BY <1>1, <1>5, <2>1 DEF Open
  <2>2. CASE i # s
    BY <1>1, <2>2 DEF Open
  <2>. QED  BY <2>1, <2>2
<1>7. CASE Reported(c, first, l)
  <2>1. Reported(c, first, l)'
    BY <1>1, <1>2, <1>7 DEF Reported
  <2>. QED  BY <2>1 DEF Accounted
<1>8. CASE (\A i \in Slots : ~Open(i, c)) /\ BurstThreshold + first >= l + 3
  BY <1>2, <1>6, <1>8 DEF Accounted
<1>9. ASSUME NEW i \in Slots, Open(i, c), counters[i].count < BurstThreshold,
             \/ counters[i].count + first >= l + 2
             \/ /\ counters[i].start >= exits[c][first]
                /\ counters[i].count + BurstThreshold + first >= l + 3
      PROVE  Accounted(c, first)'
  <2>1. i # s /\ counters'[i] = counters[i]
    BY <1>1, <1>5, <1>9
  <2>. QED  BY <1>2, <1>6, <1>9, <2>1 DEF Accounted
<1>. QED  BY <1>4, <1>7, <1>8, <1>9 DEF Accounted

\* An exit of the name itself is counted in the open window, or opens one.
LEMMA OwnCounted ==
  ASSUME BurstsInv, TableInv, BurstsCounted, NEW comm \in Comms, ShortLivedExit(comm),
         NEW first \in 1..Len(exits'[comm]), Calm(comm, first)'
  PROVE  Accounted(comm, first)'
<1> DEFINE l == Len(exits[comm])
<1>0. PICK s \in Slots : s = CounterSlot(counters, comm)
  BY ExitEffect
<1> DEFINE n == counters'[s].count
<1>1. /\ counters'[s].active /\ counters'[s].comm = comm /\ n \in Nat
      /\ \/ /\ Open(s, comm) /\ counters'[s].start = counters[s].start
            /\ n = IF counters[s].count < CountCap
                   THEN counters[s].count + 1 ELSE counters[s].count
         \/ /\ \A i \in Slots : ~Open(i, comm)
            /\ counters'[s].start = clock /\ n = 1
      /\ clock' = clock /\ exits' = [exits EXCEPT ![comm] = Append(@, clock)]
      /\ reports' \in [Comms -> SUBSET [nth : Nat, count : Nat]]
      /\ reports[comm] \subseteq reports'[comm]
      /\ IsBurst(n) => \E r \in reports'[comm] : r.nth = l + 1
  BY <1>0, ExitEffect
<1> HIDE DEF n
<1>2. /\ l \in Nat /\ Len(exits'[comm]) = l + 1
      /\ \A k \in 1..l : exits'[comm][k] = exits[comm][k]
      /\ exits'[comm][l + 1] = clock
  BY <1>1, ExitAppends DEF BurstsInv
<1>3. first \in Nat /\ first <= l + 1
  BY <1>2
<1>4. CASE IsBurst(n)
  <2>1. Reported(comm, first, Len(exits[comm]))'
    BY <1>1, <1>2, <1>3, <1>4 DEF Reported
  <2>. QED  BY <2>1 DEF Accounted
<1>5. ASSUME n < BurstThreshold,
             \/ n + first >= l + 3
             \/ counters'[s].start >= exits'[comm][first] /\ n + BurstThreshold + first >= l + 4
      PROVE  Accounted(comm, first)'
  <2>1. Open(s, comm)'
    <3>1. clock \in Nat /\ BurstWindow \in Nat
      BY Numbers
    <3>2. clock <= clock + BurstWindow
      BY <3>1
    <3>3. clock' <= counters'[s].start + BurstWindow
      BY <1>1, <3>2 DEF Open
    <3>. QED  BY <1>1, <3>3 DEF Open
  <2>2. /\ counters'[s].count < BurstThreshold
        /\ \/ counters'[s].count + first >= Len(exits'[comm]) + 2
           \/ /\ counters'[s].start >= exits'[comm][first]
              /\ counters'[s].count + BurstThreshold + first >= Len(exits'[comm]) + 3
    <3>1. Len(exits'[comm]) + 2 = l + 3 /\ Len(exits'[comm]) + 3 = l + 4
      BY <1>2
    <3>. QED  BY <1>5, <3>1 DEF n
  <2>. QED  BY <1>1, <2>1, <2>2 DEF Accounted
<1>6. CASE ~IsBurst(n) /\ first = l + 1
  <2>1. n < BurstThreshold
    BY <1>1, <1>6, Numbers DEF IsBurst
  <2>2. CASE n = 1 /\ counters'[s].start = clock
    <3>1. counters'[s].start >= exits'[comm][first] /\ n + BurstThreshold + first >= l + 4
      BY <1>2, <1>6, <2>2, Numbers
    <3>. QED  BY <1>5, <2>1, <3>1
  <2>3. CASE Open(s, comm) /\ n # 1
    <3>1. n >= 2
      BY <1>1, <2>3, Numbers DEF Open
    <3>2. n + first >= l + 3
      BY <1>1, <1>2, <1>6, <3>1
    <3>. QED  BY <1>5, <2>1, <3>2
  <2>4. Open(s, comm) => n # 1
    BY <1>1, Numbers DEF Open
  <2>. QED  BY <1>1, <2>2, <2>3, <2>4
<1>7. CASE ~IsBurst(n) /\ first # l + 1
  <2>1. first \in 1..l /\ n < BurstThreshold /\ exits'[comm][first] = exits[comm][first]
    BY <1>1, <1>2, <1>3, <1>7, Numbers DEF IsBurst
  <2>2. Calm(comm, first)
    <3>1. \A t \in Nat : Crowded(t) => Crowded(t)'
      BY <1>1, CrowdedStays
    <3>. QED  BY <1>1, <2>1, <3>1, CalmBefore
  <2>3. Accounted(comm, first)
    BY <2>1, <2>2 DEF BurstsCounted
  <2>4. CASE Reported(comm, first, l)
    <3>1. PICK r \in reports[comm] : first <= r.nth /\ r.nth <= l
      BY <2>4 DEF Reported
    <3>2. r \in reports'[comm] /\ r.nth \in Nat /\ r.nth <= l + 1
      <4>1. r \in [nth : Nat, count : Nat]
        BY <3>1 DEF BurstsInv, BurstTypes
      <4>. QED  BY <1>1, <1>2, <3>1, <4>1
    <3>. QED  BY <1>2, <3>1, <3>2 DEF Accounted, Reported
  <2>5. CASE (\A i \in Slots : ~Open(i, comm)) /\ BurstThreshold + first >= l + 3
    <3>1. counters'[s].start = clock /\ n = 1
      BY <1>1, <2>5
    <3>2. exits[comm][first] <= clock /\ exits[comm][first] \in Nat /\ clock \in Nat
      BY <2>1, Numbers
    <3>3. counters'[s].start >= exits'[comm][first] /\ n + BurstThreshold + first >= l + 4
      BY <1>2, <1>3, <2>1, <2>5, <3>1, <3>2, Numbers
    <3>. QED  BY <1>5, <2>1, <3>3
  <2>6. ASSUME NEW i \in Slots, Open(i, comm), counters[i].count < BurstThreshold,
               \/ counters[i].count + first >= l + 2
               \/ /\ counters[i].start >= exits[comm][first]
                  /\ counters[i].count + BurstThreshold + first >= l + 3
        PROVE  Accounted(comm, first)'
    <3>1. Open(s, comm) /\ i = s
      BY <1>1, <2>6 DEF Open, TableInv, NamesOnce
    <3>2. counters'[s].start = counters[s].start /\ counters[s].count \in Nat
          /\ n = counters[s].count + 1
      <4>1. counters[s].count \in Nat
        BY <3>1, Numbers DEF Open
      <4>2. counters[s].count < CountCap
        <5>1. BurstThreshold \in Nat /\ CountCap \in Nat /\ BurstThreshold <= CountCap
          BY Numbers
        <5>. QED  BY <2>6, <3>1, <4>1, <5>1
      <4>. QED  BY <1>1, <3>1, <4>1, <4>2
    <3>3. \/ n + first >= l + 3
          \/ counters'[s].start >= exits'[comm][first] /\ n + BurstThreshold + first >= l + 4
      <4>1. BurstThreshold \in Nat
        BY Numbers
      <4>2. \A k, b, f, m \in Nat :
              /\ k + f >= m + 2 => k + 1 + f >= m + 3
              /\ k + b + f >= m + 3 => k + 1 + b + f >= m + 4
        OBVIOUS
      <4>3. CASE counters[i].count + first >= l + 2
        BY <1>2, <1>3, <3>1, <3>2, <4>1, <4>2, <4>3
      <4>4. CASE /\ counters[i].start >= exits[comm][first]
                 /\ counters[i].count + BurstThreshold + first >= l + 3
        <5>1. n + BurstThreshold + first >= l + 4
          BY <1>2, <1>3, <3>1, <3>2, <4>1, <4>2, <4>4
        <5>2. counters'[s].start >= exits'[comm][first]
          BY <2>1, <3>1, <3>2, <4>4
        <5>. QED  BY <5>1, <5>2
      <4>. QED  BY <2>6, <4>3, <4>4
    <3>. QED  BY <1>5, <2>1, <3>3
  <2>. QED  BY <2>3, <2>4, <2>5, <2>6 DEF Accounted
<1>. QED  BY <1>4, <1>6, <1>7

\* An accounted burst of twice the threshold less two exits is reported: they
\* are more than a window can hold without reaching the threshold, and more than
\* are lost before one.
LEMMA DenseIsReported ==
  ASSUME BurstsInv', TableInv', BurstsCounted', NEW c \in Comms,
         NEW i \in 1..Len(exits'[c]), NEW j, j = Len(exits'[c]),
         j + 1 = i + (2 * BurstThreshold - 2), Calm(c, i)'
  PROVE  \E r \in reports'[c] : i <= r.nth /\ r.nth <= j
<1>1. BurstThreshold \in Nat /\ i \in Nat /\ j \in Nat
  <2>1. exits'[c] \in Seq(Nat)
    BY DEF BurstsInv, BurstTypes
  <2>. QED  BY <2>1, BurstsAssumption
<1>2. Accounted(c, i)'
  BY DEF BurstsCounted
<1>3. CASE Reported(c, i, Len(exits[c]))'
  BY <1>3 DEF Reported
<1>4. \A b, f, m \in Nat : m + 1 = f + (2 * b - 2) =>
        /\ \A n \in Nat : n < b => ~(n + f >= m + 2) /\ ~(n + b + f >= m + 3)
        /\ ~(b + f >= m + 3) \/ b = 0
  OBVIOUS
<1>5. ASSUME NEW s \in Slots, counters'[s].active, counters'[s].count < BurstThreshold
      PROVE  /\ ~(counters'[s].count + i >= j + 2)
             /\ ~(counters'[s].count + BurstThreshold + i >= j + 3)
  <2>1. counters'[s].count \in Nat
    <3>1. counters'[s] \in Counter(Comms)
      BY DEF BurstsInv, BurstTypes
    <3>2. counters'[s] \in [active : {TRUE}, comm : Comms, start : Nat, count : 0..CountCap]
      BY <1>5, <3>1, ActiveCounter
    <3>3. counters'[s].count \in 0..CountCap
      <4>1. \A C : \A r \in [active : {TRUE}, comm : Comms, start : Nat, count : C] : r.count \in C
        OBVIOUS
      <4>. QED  BY <3>2, <4>1
    <3>. QED  BY <3>3, TableAssumption
  <2>. QED  BY <1>1, <1>4, <1>5, <2>1
<1>6. ~(BurstThreshold + i >= j + 3)
  BY <1>1, <1>4, BurstsAssumption
<1>7. \A s \in Slots : Open(s, c)' => counters'[s].active
  BY DEF Open
<1>. QED  BY <1>2, <1>3, <1>5, <1>6, <1>7 DEF Accounted

LEMMA ExitDense ==
  ASSUME BurstsInv, BurstsInv', TableInv, TableInv', BurstsCounted', DenseBurstsReported,
         NEW comm \in Comms, ShortLivedExit(comm)
  PROVE  DenseBurstsReported'
<1>1. /\ exits' = [exits EXCEPT ![comm] = Append(@, clock)] /\ clock' = clock
      /\ \A c \in Comms : reports[c] \subseteq reports'[c]
  BY ExitEffect
<1>2. /\ Len(exits[comm]) \in Nat /\ Len(exits'[comm]) = Len(exits[comm]) + 1
      /\ \A k \in 1..Len(exits[comm]) : exits'[comm][k] = exits[comm][k]
      /\ exits'[comm][Len(exits[comm]) + 1] = clock
      /\ \A c \in Comms \ {comm} : exits'[c] = exits[c]
  BY <1>1, ExitAppends DEF BurstsInv
<1>3. \A t : Crowded(t) => Crowded(t)'
  BY <1>1, CrowdedStays
<1> SUFFICES ASSUME NEW c \in Comms, NEW i \in 1..Len(exits'[c]), NEW j \in 1..Len(exits'[c]),
                    j + 1 = i + (2 * BurstThreshold - 2),
                    exits'[c][j] <= exits'[c][i] + BurstWindow,
                    \A t \in exits'[c][i] .. exits'[c][j] : ~Crowded(t)'
             PROVE  \E r \in reports'[c] : i <= r.nth /\ r.nth <= j
  BY DEF DenseBurstsReported
<1>4. i <= j
  <2>1. i \in Nat /\ j \in Nat /\ BurstThreshold \in Nat /\ BurstThreshold >= 2
    <3>1. exits'[c] \in Seq(Nat)
      BY DEF BurstsInv, BurstTypes
    <3>. QED  BY <3>1, Numbers
  <2>2. \A b, m, n \in Nat : b >= 2 /\ m + 1 = n + (2 * b - 2) => n <= m
    OBVIOUS
  <2>. QED  BY <2>1, <2>2
<1>5. CASE j \in 1..Len(exits[c])
  <2>1. i \in 1..Len(exits[c])
    BY <1>4, <1>5, Numbers
  <2>2. exits'[c][i] = exits[c][i] /\ exits'[c][j] = exits[c][j]
    BY <1>2, <1>5, <2>1
  <2>3. \A t \in exits[c][i] .. exits[c][j] : ~Crowded(t)
    BY <1>3, <2>2
  <2>4. \E r \in reports[c] : i <= r.nth /\ r.nth <= j
    BY <1>5, <2>1, <2>2, <2>3 DEF DenseBurstsReported
  <2>. QED  BY <1>1, <2>4
<1>6. CASE j \notin 1..Len(exits[c])
  <2>1. c = comm /\ j = Len(exits'[c]) /\ exits'[c][j] = clock
    BY <1>2, <1>6
  <2>2. Calm(c, i)'
    BY <1>1, <2>1 DEF Calm
  <2>. QED  BY <2>1, <2>2, DenseIsReported
<1>. QED  BY <1>5, <1>6

\* The inductive invariant of the table and the reports.
DenseInv == BurstsInv /\ TableInv /\ BurstsCounted /\ DenseBurstsReported

LEMMA DenseInvariant == Spec => []DenseInv
<1>1. Init => DenseInv
  <2> SUFFICES ASSUME Init PROVE DenseInv
    OBVIOUS
  <2>1. \A c \in Comms : 1..Len(exits[c]) = {}
    BY DEF Init
  <2>. QED  BY <2>1, InitBursts, InitTable DEF DenseInv, BurstsCounted, DenseBurstsReported
<1>2. DenseInv /\ [Next]_vars => DenseInv'
  <2> SUFFICES ASSUME DenseInv, [Next]_vars PROVE DenseInv'
    OBVIOUS
  <2>1. CASE Tick
    <3>1. BurstsInv' /\ TableInv' /\ BurstsCounted'
      BY <2>1, TickBursts, TickTable, TickCounted DEF DenseInv
    <3>2. UNCHANGED <<exits, reports>>
      BY <2>1 DEF Tick
    <3>3. \A t : Crowded(t)' <=> Crowded(t)
      BY <3>2 DEF Crowded
    <3>4. DenseBurstsReported'
      BY <3>2, <3>3 DEF DenseInv, DenseBurstsReported
    <3>. QED  BY <3>1, <3>4 DEF DenseInv
  <2>2. ASSUME NEW comm \in Comms, ShortLivedExit(comm)
        PROVE  DenseInv'
    <3>1. BurstsInv' /\ TableInv'
      BY <2>2, ExitCounts, ExitReports, ExitTable DEF DenseInv, BurstsInv
    <3>2. BurstsCounted'
      <4> SUFFICES ASSUME NEW c \in Comms, NEW first \in 1..Len(exits'[c]), Calm(c, first)'
                   PROVE  Accounted(c, first)'
        BY DEF BurstsCounted
      <4>. QED  BY <2>2, OwnCounted, OtherCounted DEF DenseInv
    <3>3. DenseBurstsReported'
      BY <2>2, <3>1, <3>2, ExitDense DEF DenseInv
    <3>. QED  BY <3>1, <3>2, <3>3 DEF DenseInv
  <2>3. CASE UNCHANGED vars
    <3>1. UNCHANGED <<counters, clock, exits, reports>>
      BY <2>3 DEF vars
    <3>2. \A t : Crowded(t)' <=> Crowded(t)
      BY <3>1 DEF Crowded
    <3>3. BurstsInv'
      BY <3>1 DEF DenseInv, BurstsInv, BurstTypes, CountsAreReal, ReportsAreOfExits, BurstsAreReal
    <3>4. TableInv'
      BY <3>1 DEF DenseInv, TableInv, TypeOK, CounterOf, NamesOnce, StartsAreExits, ExitsArePast
    <3>5. BurstsCounted'
      BY <3>1, <3>2 DEF DenseInv, BurstsCounted, Calm, Accounted, Reported, Open
    <3>6. DenseBurstsReported'
      BY <3>1, <3>2 DEF DenseInv, DenseBurstsReported
    <3>. QED  BY <3>3, <3>4, <3>5, <3>6 DEF DenseInv
  <2>. QED  BY <2>1, <2>2, <2>3 DEF Next
<1>. QED  BY <1>1, <1>2, PTL DEF Spec

\* Whatever record_short_lived_process and find_or_alloc_short_lived_counter do,
\* a name has one counter at most, and it has counted an exit.
THEOREM TypeCorrect == Spec => []TypeOK
<1>1. DenseInv => TypeOK
  BY DEF DenseInv, TableInv
<1>. QED  BY <1>1, DenseInvariant, PTL

\* Of twice the threshold less two short-lived exits of a name within a window's
\* length record_short_lived_process reports one, unless more names than there
\* are counters have exits at a time: for any number of names and counters, any
\* window and any threshold a counter can reach.
THEOREM DenseBurstsAreReported == Spec => []DenseBurstsReported
<1>1. DenseInv => DenseBurstsReported
  BY DEF DenseInv
<1>. QED  BY <1>1, DenseInvariant, PTL
=============================================================================
