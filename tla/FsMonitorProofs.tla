--------------------------- MODULE FsMonitorProofs ---------------------------
(***************************************************************************)
(* Proofs about the fs worker, for any number of configuration files and   *)
(* watched directories, any queue, any ring and any descriptors: types,    *)
(* which directories are watched, whose configuration an event is recorded *)
(* for, and that its cache is the ring of FsEvents.                        *)
(***************************************************************************)
EXTENDS FsMonitor, SequenceTheorems, FiniteSetTheorems, TLAPS
-----------------------------------------------------------------------------
(* The ring always holds the events it counts, and lists the most recent   *)
(* ones: EventsSpec implements RecentEvents.                               *)

USE EventsAssumption

Indices == 0..MaxEvents - 1

\* Stepping past the end of the array goes on at its start.
LEMMA Wrap ==
  ASSUME NEW a \in 0..2 * MaxEvents - 1
  PROVE  a % MaxEvents = IF a < MaxEvents THEN a ELSE a - MaxEvents
<1>1. CASE a < MaxEvents
  BY <1>1
<1>2. CASE a >= MaxEvents
  <2> DEFINE b == a - MaxEvents
  <2>1. b \in 0..MaxEvents - 1 /\ a = b + MaxEvents
    BY <1>2
  <2> HIDE DEF b
  <2>2. (b + MaxEvents) % MaxEvents = b
    BY <2>1
  <2>. QED  BY <1>2, <2>1, <2>2
<1>. QED  BY <1>1, <1>2

\* From one cursor, different places are different elements.
LEMMA WrapApart ==
  ASSUME NEW c \in Indices, NEW i \in Indices, NEW j \in Indices, i # j
  PROVE  (c + i) % MaxEvents # (c + j) % MaxEvents
<1>1. c + i \in 0..2 * MaxEvents - 1 /\ c + j \in 0..2 * MaxEvents - 1
  BY DEF Indices
<1>. QED  BY <1>1, Wrap DEF Indices

LEMMA WrapIndex ==
  ASSUME NEW c \in Indices, NEW i \in 0..MaxEvents
  PROVE  (c + i) % MaxEvents \in Indices
<1>1. c + i \in 0..2 * MaxEvents - 1
  BY DEF Indices
<1>. QED  BY <1>1, Wrap DEF Indices

\* Moving the cursor one on is the same as counting places from one further.
LEMMA WrapShift ==
  ASSUME NEW c \in Indices, NEW i \in Indices
  PROVE  (((c + 1) % MaxEvents) + i) % MaxEvents = (c + i + 1) % MaxEvents
<1>1. /\ c + 1 \in 0..2 * MaxEvents - 1
      /\ (c + 1) % MaxEvents = IF c + 1 < MaxEvents THEN c + 1 ELSE 0
  BY Wrap DEF Indices
<1>2. CASE c + 1 < MaxEvents
  BY <1>1, <1>2 DEF Indices
<1>3. CASE c + 1 = MaxEvents
  <2>1. i % MaxEvents = i /\ (i + MaxEvents) % MaxEvents = i
    BY Wrap DEF Indices
  <2>. QED  BY <1>1, <1>3, <2>1 DEF Indices
<1>. QED  BY <1>2, <1>3 DEF Indices
-----------------------------------------------------------------------------
\* A full ring holds a record everywhere: each element is some places on from
\* the cursor.
LEMMA EveryElement ==
  ASSUME RingOK, event_count = MaxEvents, NEW k \in Indices
  PROVE  events[k] \in Records
<1> DEFINE i == IF k >= event_cursor THEN k - event_cursor
                ELSE k + MaxEvents - event_cursor
<1>1. /\ i \in 0..MaxEvents - 1 /\ event_cursor \in Nat
      /\ event_cursor + i = IF k >= event_cursor THEN k ELSE k + MaxEvents
  BY DEF RingOK, Indices
<1> HIDE DEF i
<1>2. event_cursor + i \in 0..2 * MaxEvents - 1
  BY <1>1 DEF Indices
<1>3. (event_cursor + i) % MaxEvents = k
  <2>1. PICK n \in 0..2 * MaxEvents - 1 : n = event_cursor + i
    BY <1>2
  <2>2. n % MaxEvents = k
    BY <1>1, <2>1, Wrap DEF Indices
  <2>. QED  BY <2>1, <2>2
<1>. QED  BY <1>1, <1>3 DEF RingOK

LEMMA RingInitial == EventsInit => RingOK
BY DEF EventsInit, RingOK

\* The elements of the ring are records from the cursor on, as many as counted.
LEMMA RingStep ==
  ASSUME RingOK, [EventsNext]_eventVars
  PROVE  RingOK'
<1> USE DEF RingOK
<1>1. CASE ForgetEvents
  BY <1>1 DEF ForgetEvents
<1>2. ASSUME NEW e \in Records, RecordEvent(e)
      PROVE  RingOK'
  <2>1. CASE ~Full
    <3> DEFINE at == (event_cursor + event_count) % MaxEvents
    <3>1. event_count \in 0..MaxEvents - 1 /\ at \in 0..MaxEvents - 1
      BY <2>1, WrapIndex DEF Full, Indices
    <3>2. /\ events' = [events EXCEPT ![at] = e]
          /\ event_count' = event_count + 1 /\ event_cursor' = event_cursor
      BY <1>2, <2>1 DEF RecordEvent
    <3>3. ASSUME NEW i \in 0..MaxEvents - 1, i < event_count + 1
          PROVE  events'[(event_cursor + i) % MaxEvents] \in Records
      <4>1. CASE i = event_count
        BY <3>1, <3>2, <4>1
      <4>2. CASE i # event_count
        <5>1. i < event_count
          BY <3>1, <3>3, <4>2
        <5>2. (event_cursor + i) % MaxEvents # (event_cursor + event_count) % MaxEvents
          BY <3>1, <4>2, WrapApart DEF Indices
        <5>3. (event_cursor + i) % MaxEvents \in 0..MaxEvents - 1
          BY WrapIndex DEF Indices
        <5>. QED  BY <3>1, <3>2, <5>1, <5>2, <5>3
      <4>. QED  BY <4>1, <4>2
    <3> HIDE DEF at
    <3>. QED  BY <3>1, <3>2, <3>3
  <2>2. CASE Full
    <3>1. /\ events' = [events EXCEPT ![event_cursor] = e]
          /\ event_cursor' = (event_cursor + 1) % MaxEvents
          /\ event_count' = event_count /\ event_count = MaxEvents
      BY <1>2, <2>2 DEF RecordEvent, Full
    <3>2. (event_cursor + 1) % MaxEvents \in 0..MaxEvents - 1
      BY WrapIndex DEF Indices
    <3>3. \A k \in 0..MaxEvents - 1 : events[k] \in Records
      BY <3>1, EveryElement DEF Indices
    <3>4. ASSUME NEW i \in 0..MaxEvents - 1
          PROVE  events'[(((event_cursor + 1) % MaxEvents) + i) % MaxEvents] \in Records
      <4>1. (((event_cursor + 1) % MaxEvents) + i) % MaxEvents \in 0..MaxEvents - 1
        BY <3>2, WrapIndex DEF Indices
      <4>. QED  BY <1>2, <3>1, <3>3, <4>1
    <3>. QED  BY <3>1, <3>2, <3>4
  <2>. QED  BY <2>1, <2>2
<1>3. CASE UNCHANGED eventVars
  BY <1>3 DEF eventVars
<1>. QED  BY <1>1, <1>2, <1>3 DEF EventsNext
-----------------------------------------------------------------------------
\* A function on 1..n with values in S is a sequence of n elements of S.
LEMMA SeqOfLength ==
  ASSUME NEW S, NEW n \in Nat, NEW l \in [1..n -> S]
  PROVE  l \in Seq(S) /\ Len(l) = n
<1>1. l \in Seq(S)
  BY SeqDef, Zenon
<1>2. Len(l) \in Nat /\ DOMAIN l = 1..Len(l)
  BY <1>1, LenProperties
<1>. QED  BY <1>1, <1>2

\* The listing is a sequence of as many records as are counted.
LEMMA ListedSeq ==
  ASSUME RingOK
  PROVE  /\ Listed \in Seq(Records) /\ Len(Listed) = event_count
         /\ \A i \in 1..event_count :
              Listed[i] = events[(event_cursor + i - 1) % MaxEvents]
<1>1. Listed = [i \in 1..event_count |-> events[(event_cursor + i - 1) % MaxEvents]]
  BY DEF Listed
<1>2. event_count \in 0..MaxEvents /\ event_cursor \in Nat
  BY DEF RingOK
<1>3. ASSUME NEW i \in 1..event_count
      PROVE  events[(event_cursor + i - 1) % MaxEvents] \in Records
  <2>1. /\ i - 1 \in 0..MaxEvents - 1 /\ i - 1 < event_count
        /\ event_cursor + (i - 1) = event_cursor + i - 1
    BY <1>2
  <2>2. \A k \in 0..MaxEvents - 1 :
          k < event_count => events[(event_cursor + k) % MaxEvents] \in Records
    BY Zenon DEF RingOK
  <2>. QED  BY <2>1, <2>2
<1>4. Listed \in [1..event_count -> Records]
  BY <1>1, <1>3, Zenon
<1>5. event_count \in Nat
  BY <1>2
<1>6. Listed \in Seq(Records) /\ Len(Listed) = event_count
  BY <1>4, <1>5, SeqOfLength, Zenon
<1>7. \A i \in 1..event_count :
        Listed[i] = events[(event_cursor + i - 1) % MaxEvents]
  BY <1>1, Zenon
<1>. QED  BY <1>6, <1>7

\* So is the listing after a step.
LEMMA ListedSeqNext ==
  ASSUME RingOK'
  PROVE  /\ Listed' \in Seq(Records) /\ Len(Listed') = event_count'
         /\ \A i \in 1..event_count' :
              Listed'[i] = events'[(event_cursor' + i - 1) % MaxEvents]
<1>1. Listed' = [i \in 1..event_count' |-> events'[(event_cursor' + i - 1) % MaxEvents]]
  BY DEF Listed
<1>2. event_count' \in 0..MaxEvents /\ event_cursor' \in Nat
  BY DEF RingOK
<1>3. ASSUME NEW i \in 1..event_count'
      PROVE  events'[(event_cursor' + i - 1) % MaxEvents] \in Records
  <2>1. /\ i - 1 \in 0..MaxEvents - 1 /\ i - 1 < event_count'
        /\ event_cursor' + (i - 1) = event_cursor' + i - 1
    BY <1>2
  <2>2. \A k \in 0..MaxEvents - 1 :
          k < event_count' => events'[(event_cursor' + k) % MaxEvents] \in Records
    BY Zenon DEF RingOK
  <2>. QED  BY <2>1, <2>2
<1>4. Listed' \in [1..event_count' -> Records]
  BY <1>1, <1>3, Zenon
<1>5. event_count' \in Nat
  BY <1>2
<1>6. Listed' \in Seq(Records) /\ Len(Listed') = event_count'
  BY <1>4, <1>5, SeqOfLength, Zenon
<1>7. \A i \in 1..event_count' :
        Listed'[i] = events'[(event_cursor' + i - 1) % MaxEvents]
  BY <1>1, Zenon
<1>. QED  BY <1>6, <1>7

\* Before the ring is full, a record is added at the end of the listing.
LEMMA RecordAdds ==
  ASSUME RingOK, RingOK', NEW e \in Records, RecordEvent(e), ~Full
  PROVE  Listed' = Append(Listed, e)
<1> DEFINE at == (event_cursor + event_count) % MaxEvents
<1>1. /\ event_count \in 0..MaxEvents - 1 /\ event_cursor \in Indices
      /\ at \in 0..MaxEvents - 1
  BY WrapIndex DEF Full, Indices, RingOK
<1>2. /\ events' = [events EXCEPT ![at] = e] /\ events \in [0..MaxEvents - 1 -> Records \cup {NoRecord}]
      /\ event_count' = event_count + 1 /\ event_cursor' = event_cursor
  BY DEF RecordEvent, RingOK
<1>3. /\ Listed' \in Seq(Records) /\ Len(Listed') = event_count + 1
      /\ \A i \in 1..event_count + 1 :
           Listed'[i] = events'[(event_cursor + i - 1) % MaxEvents]
  BY <1>2, ListedSeqNext
<1>4. /\ Append(Listed, e) \in Seq(Records) /\ Len(Append(Listed, e)) = event_count + 1
      /\ \A i \in 1..event_count :
           Append(Listed, e)[i] = events[(event_cursor + i - 1) % MaxEvents]
      /\ Append(Listed, e)[event_count + 1] = e
  BY <1>1, ListedSeq
<1>5. ASSUME NEW i \in 1..event_count + 1
      PROVE  Listed'[i] = Append(Listed, e)[i]
  <2>1. i - 1 \in Indices /\ event_cursor + (i - 1) = event_cursor + i - 1
    BY <1>1 DEF Indices
  <2>2. CASE i = event_count + 1
    <3>1. event_cursor + i - 1 = event_cursor + event_count
      BY <1>1, <2>2 DEF Indices
    <3>. QED  BY <1>1, <1>2, <1>3, <1>4, <2>2, <3>1
  <2>3. CASE i # event_count + 1
    <3>1. i \in 1..event_count /\ i - 1 # event_count
      BY <1>1, <2>3
    <3>2. (event_cursor + (i - 1)) % MaxEvents # at
      BY <1>1, <2>1, <3>1, WrapApart DEF Indices
    <3>3. (event_cursor + (i - 1)) % MaxEvents \in Indices
      <4>1. i - 1 \in 0..MaxEvents
        BY <2>1 DEF Indices
      <4>. QED  BY <1>1, <4>1, WrapIndex
    <3> HIDE DEF at
    <3>. QED  BY <1>2, <1>3, <1>4, <2>1, <3>1, <3>2, <3>3 DEF Indices
  <2>. QED  BY <2>2, <2>3
<1>. QED  BY <1>3, <1>4, <1>5, SeqEqual, Zenon

\* Once it is full, the oldest record makes room for it.
LEMMA RecordReplaces ==
  ASSUME RingOK, RingOK', NEW e \in Records, RecordEvent(e), Full
  PROVE  Listed' = SubSeq(Append(Listed, e), 2, MaxEvents + 1)
<1> DEFINE s == Append(Listed, e)
           t == SubSeq(s, 2, MaxEvents + 1)
<1>1. /\ event_count = MaxEvents /\ event_cursor \in Indices
      /\ events \in [Indices -> Records \cup {NoRecord}]
      /\ events' = [events EXCEPT ![event_cursor] = e]
      /\ event_count' = MaxEvents /\ event_cursor' = (event_cursor + 1) % MaxEvents
  BY DEF RecordEvent, RingOK, Full, Indices
<1>2. /\ Listed' \in Seq(Records) /\ Len(Listed') = MaxEvents
      /\ \A i \in 1..MaxEvents :
           Listed'[i] = events'[(((event_cursor + 1) % MaxEvents) + i - 1) % MaxEvents]
  BY <1>1, ListedSeqNext
<1>3. /\ s \in Seq(Records) /\ Len(s) = MaxEvents + 1
      /\ \A i \in 1..MaxEvents : s[i] = events[(event_cursor + i - 1) % MaxEvents]
      /\ s[MaxEvents + 1] = e
  BY <1>1, ListedSeq
<1> HIDE DEF s
<1>4. /\ t \in Seq(Records) /\ Len(t) = MaxEvents
      /\ \A i \in 1..MaxEvents : t[i] = s[i + 1]
  <2>1. \A i \in 2..MaxEvents + 1 : s[i] \in Records
    BY <1>3, ElementOfSeq
  <2>. QED  BY <2>1, SubSeqProperties
<1>5. ASSUME NEW i \in 1..MaxEvents
      PROVE  Listed'[i] = t[i]
  <2>1. /\ i - 1 \in Indices /\ (event_cursor + 1) % MaxEvents \in Indices
        /\ ((event_cursor + 1) % MaxEvents) + (i - 1) = ((event_cursor + 1) % MaxEvents) + i - 1
        /\ event_cursor + (i - 1) + 1 = event_cursor + i
    BY <1>1, WrapIndex DEF Indices
  <2>2. Listed'[i] = events'[(event_cursor + i) % MaxEvents]
    <3>1. (((event_cursor + 1) % MaxEvents) + (i - 1)) % MaxEvents
            = (event_cursor + (i - 1) + 1) % MaxEvents
      BY <1>1, <2>1, WrapShift
    <3>2. Listed'[i] = events'[(((event_cursor + 1) % MaxEvents) + i - 1) % MaxEvents]
      BY <1>2
    <3>. QED  BY <2>1, <3>1, <3>2, Zenon
  <2>3. CASE i = MaxEvents
    <3>1. (event_cursor + i) % MaxEvents = event_cursor
      BY <1>1, <2>3 DEF Indices
    <3>. QED  BY <1>1, <1>3, <1>4, <2>2, <2>3, <3>1
  <2>4. CASE i # MaxEvents
    <3>1. i \in Indices /\ 0 \in Indices /\ i # 0 /\ i + 1 \in 1..MaxEvents
      BY <2>4 DEF Indices
    <3>2. (event_cursor + i) % MaxEvents # (event_cursor + 0) % MaxEvents
      BY <1>1, <3>1, WrapApart
    <3>3. (event_cursor + 0) % MaxEvents = event_cursor
      BY <1>1 DEF Indices
    <3>4. (event_cursor + i) % MaxEvents \in Indices
      BY <1>1, <3>1, WrapIndex DEF Indices
    <3>5. Listed'[i] = events[(event_cursor + i) % MaxEvents]
      BY <1>1, <2>2, <3>2, <3>3, <3>4
    <3>6. event_cursor + (i + 1) - 1 = event_cursor + i
      BY <1>1 DEF Indices
    <3>. QED  BY <1>3, <1>4, <3>1, <3>5, <3>6
  <2>. QED  BY <2>3, <2>4
<1>. QED  BY <1>2, <1>4, <1>5, SeqEqual, Zenon DEF s
-----------------------------------------------------------------------------
\* Every step of the ring is a step of what it promises.
LEMMA RingImplements ==
  ASSUME RingOK, RingOK', [EventsNext]_eventVars
  PROVE  [Recent!Next]_Listed
<1>1. CASE ForgetEvents
  <2>1. Listed' = <<>>
    BY <1>1 DEF ForgetEvents, Listed
  <2>. QED  BY <2>1 DEF Recent!Next, Recent!Forget
<1>2. ASSUME NEW e \in Records, RecordEvent(e)
      PROVE  Recent!Record(e)
  <2>1. /\ Len(Append(Listed, e)) = event_count + 1 /\ event_count \in 0..MaxEvents
    BY ListedSeq DEF RingOK
  <2>2. CASE ~Full
    <3>1. event_count + 1 <= MaxEvents
      BY <2>1, <2>2 DEF Full
    <3>. QED  BY <1>2, <2>1, <2>2, <3>1, RecordAdds DEF Recent!Record, Recent!Latest
  <2>3. CASE Full
    <3>1. /\ Len(Append(Listed, e)) = MaxEvents + 1
          /\ Len(Append(Listed, e)) - MaxEvents + 1 = 2
      BY <2>1, <2>3 DEF Full
    <3>. QED  BY <1>2, <2>3, <3>1, RecordReplaces DEF Recent!Record, Recent!Latest
  <2>. QED  BY <2>2, <2>3
<1>3. CASE UNCHANGED eventVars
  BY <1>3 DEF eventVars, Listed
<1>. QED  BY <1>1, <1>2, <1>3 DEF EventsNext, Recent!Next

\* The ring holds a record at each of its counted places, for ever.
LEMMA RingInvariant == EventsSpec => []RingOK
<1>1. RingOK /\ [EventsNext]_eventVars => RingOK'
  BY RingStep
<1>. QED  BY <1>1, RingInitial, PTL DEF EventsSpec

\* fs list events shows the latest events in the order they were recorded,
\* whatever the length of the ring (record_event, list_events).
THEOREM ListsLatest == EventsSpec => ListsRecentEvents
<1>1. EventsInit => Recent!Init
  BY DEF EventsInit, Recent!Init, Listed
<1>2. RingOK /\ RingOK' /\ [EventsNext]_eventVars => [Recent!Next]_Listed
  BY RingImplements
<1>. QED  BY <1>1, <1>2, RingInvariant, PTL DEF EventsSpec, ListsRecentEvents, Recent!Spec

HIDE EventsAssumption
-----------------------------------------------------------------------------
(* Numbers in a finite set.                                                 *)

\* A larger element has more elements up to it, and more before it.
LEMMA RankGrows ==
  ASSUME NEW S \in SUBSET Nat, IsFiniteSet(S), NEW x \in S, NEW y \in S, x < y
  PROVE  /\ Cardinality({z \in S : z <= x}) < Cardinality({z \in S : z <= y})
         /\ Cardinality({z \in S : z < x}) < Cardinality({z \in S : z < y})
<1> DEFINE upTo(n) == {z \in S : z <= n}
           below(n) == {z \in S : z < n}
<1>1. /\ upTo(x) \in SUBSET upTo(y) /\ upTo(x) # upTo(y) /\ upTo(y) \in SUBSET S
      /\ below(x) \in SUBSET below(y) /\ below(x) # below(y) /\ below(y) \in SUBSET S
  <2>1. y \in upTo(y) /\ y \notin upTo(x) /\ x \in below(y) /\ x \notin below(x)
    OBVIOUS
  <2>2. upTo(x) \in SUBSET upTo(y) /\ below(x) \in SUBSET below(y)
    <3>1. \A z \in Nat : (z <= x => z <= y) /\ (z < x => z < y)
      OBVIOUS
    <3>. QED  BY <3>1
  <2>3. upTo(y) \in SUBSET S /\ below(y) \in SUBSET S
    OBVIOUS
  <2> HIDE DEF upTo, below
  <2>. QED  BY <2>1, <2>2, <2>3
<1> HIDE DEF upTo, below
<1>2. IsFiniteSet(upTo(y)) /\ IsFiniteSet(below(y))
  BY <1>1, FS_Subset
<1>3. /\ IsFiniteSet(upTo(x)) /\ Cardinality(upTo(x)) <= Cardinality(upTo(y))
      /\ Cardinality(upTo(x)) # Cardinality(upTo(y))
      /\ IsFiniteSet(below(x)) /\ Cardinality(below(x)) <= Cardinality(below(y))
      /\ Cardinality(below(x)) # Cardinality(below(y))
  BY <1>1, <1>2, FS_Subset
<1>4. /\ Cardinality(upTo(x)) \in Nat /\ Cardinality(upTo(y)) \in Nat
      /\ Cardinality(below(x)) \in Nat /\ Cardinality(below(y)) \in Nat
  BY <1>2, <1>3, FS_CardinalityType
<1>. QED  BY <1>3, <1>4 DEF upTo, below

\* Every rank is that of an element.
LEMMA NthIn ==
  ASSUME NEW S \in SUBSET Nat, IsFiniteSet(S), NEW i \in 1..Cardinality(S)
  PROVE  Nth(S, i) \in S /\ Cardinality({y \in S : y <= Nth(S, i)}) = i
<1> DEFINE rank == [x \in S |-> Cardinality({y \in S : y <= x})]
           n == Cardinality(S)
<1>1. n \in Nat /\ IsFiniteSet(1..n) /\ Cardinality(1..n) = n
  BY FS_CardinalityType, FS_Interval
<1>2. rank \in [S -> 1..n]
  <2> SUFFICES ASSUME NEW x \in S PROVE Cardinality({y \in S : y <= x}) \in 1..n
    OBVIOUS
  <2>1. /\ IsFiniteSet({y \in S : y <= x}) /\ Cardinality({y \in S : y <= x}) <= n
        /\ {y \in S : y <= x} # {}
    BY FS_Subset
  <2>2. Cardinality({y \in S : y <= x}) \in Nat /\ Cardinality({y \in S : y <= x}) # 0
    BY <2>1, FS_CardinalityType, FS_EmptySet
  <2>. QED  BY <1>1, <2>1, <2>2
<1>3. ASSUME NEW x \in S, NEW y \in S, x # y
      PROVE  rank[x] # rank[y]
  <2>1. /\ rank[x] = Cardinality({z \in S : z <= x}) /\ rank[x] \in 1..n
        /\ rank[y] = Cardinality({z \in S : z <= y}) /\ rank[y] \in 1..n
    BY <1>2
  <2>2. x < y \/ y < x
    BY <1>3
  <2>3. (x < y => rank[x] < rank[y]) /\ (y < x => rank[y] < rank[x])
    <3> HIDE DEF rank
    <3>. QED  BY <2>1, RankGrows
  <2> HIDE DEF rank
  <2>. QED  BY <1>1, <2>1, <2>2, <2>3
<1> HIDE DEF rank, n
<1>4. rank \in Injection(S, 1..n)
  BY <1>2, <1>3 DEF Injection, IsInjective
<1>5. rank \in Surjection(S, 1..n)
  BY <1>1, <1>4, FS_Injection DEF n
<1>6. PICK x \in S : rank[x] = i
  BY <1>5 DEF Surjection, n
<1>7. Cardinality({y \in S : y <= x}) = i
  BY <1>6 DEF rank
<1>. QED  BY <1>7 DEF Nth

LEMMA LeastExists ==
  ASSUME NEW S \in SUBSET Nat, IsFiniteSet(S), S # {}
  PROVE  \E x \in S : \A y \in S : x <= y
<1> DEFINE x == Nth(S, 1)
           upTo == {y \in S : y <= x}
<1>1. Cardinality(S) \in Nat /\ Cardinality(S) # 0
  BY FS_CardinalityType, FS_EmptySet
<1>2. x \in S /\ Cardinality(upTo) = 1
  BY <1>1, NthIn
<1> HIDE DEF x
<1>3. IsFiniteSet(upTo) /\ x \in upTo
  BY <1>2, FS_Subset
<1>4. PICK z : upTo = {z}
  BY <1>2, <1>3, FS_Singleton
<1>5. ASSUME NEW y \in S PROVE x <= y
  <2>1. CASE y <= x
    BY <1>2, <1>3, <1>4, <2>1
  <2>2. CASE ~(y <= x)
    BY <1>2, <2>2
  <2>. QED  BY <2>1, <2>2
<1>. QED  BY <1>2, <1>5

\* Numbers from 1 to n are finitely many, no more than n.
LEMMA UpToFinite ==
  ASSUME NEW n \in Nat, NEW S \in SUBSET (1..n)
  PROVE  IsFiniteSet(S) /\ S \in SUBSET Nat /\ Cardinality(S) \in 0..n
<1>1. IsFiniteSet(1..n) /\ Cardinality(1..n) = n
  BY FS_Interval
<1>2. IsFiniteSet(S) /\ Cardinality(S) <= n
  BY <1>1, FS_Subset
<1>. QED  BY <1>2, FS_CardinalityType
-----------------------------------------------------------------------------
(* Descriptors packed into entries.                                         *)

\* A descriptor that packs without loss is read back as it is; of two that are
\* read back alike one is a whole range further.
LEMMA UnpackedIs ==
  ASSUME NEW x \in Nat
  PROVE  /\ Unpacked(x) \in Int /\ Unpacked(x) <= WdLimit
         /\ x <= WdLimit => Unpacked(x) = x
         /\ x > WdLimit /\ Unpacked(x) > 0 => x >= Unpacked(x) + 2 * (WdLimit + 1)
<1> DEFINE m == 2 * (WdLimit + 1)
           low == x % m
           q == x \div m
<1>1. WdLimit \in Nat /\ m \in Nat /\ m > 0 /\ m = WdLimit + WdLimit + 2
  BY FsAssumption
<1>2. Unpacked(x) = IF low <= WdLimit THEN low ELSE low - m
  BY DEF Unpacked
<1> HIDE DEF m
<1>3. low \in 0..m - 1 /\ q \in Nat /\ x = m * q + low
  BY <1>1
<1>4. x < m => low = x
  BY <1>1
<1> HIDE DEF low, q
<1>5. q >= 1 => m * q >= m
  BY <1>1, <1>3
<1>6. x >= m => q >= 1
  <2>1. q = 0 => m * q = 0
    BY <1>1
  <2>. QED  BY <1>1, <1>3, <2>1
<1>7. x >= m => x >= m + low
  <2> DEFINE p == m * q
  <2>1. p \in Int
    BY <1>1, <1>3
  <2>2. (x >= m => p >= m) /\ x = p + low
    BY <1>3, <1>5, <1>6
  <2> HIDE DEF p
  <2>. QED  BY <1>1, <1>3, <2>1, <2>2
<1>8. Unpacked(x) \in Int /\ Unpacked(x) <= WdLimit
  BY <1>1, <1>2, <1>3
<1>9. x <= WdLimit => Unpacked(x) = x
  BY <1>1, <1>2, <1>4
<1>10. x > WdLimit /\ Unpacked(x) > 0 => x >= Unpacked(x) + m
  BY <1>1, <1>2, <1>3, <1>4, <1>7
<1>. QED  BY <1>8, <1>9, <1>10 DEF m

\* What AddWatches does with the descriptors kept by the kernel, the first of
\* those it hands out being wd.
LEMMA HandedOut ==
  ASSUME NEW cfgs \in [Slots -> Config \cup {NoConfig}], NEW n \in 0..MaxConfigs,
         \A i \in 1..n : cfgs[i] \in Config,
         NEW refused, NEW kept \in [Dirs -> Nat], NEW wd \in Nat \ {0},
         \A d \in Dirs : kept[d] < wd,
         \A c, d \in Dirs : kept[c] # 0 /\ kept[c] = kept[d] => c = d,
         AddWatches(cfgs, n, refused, kept, wd)
  PROVE  /\ wdOf' \in [Dirs -> Nat]
         /\ nextWd' \in wd .. wd + MaxConfigs /\ nextWd' <= wd + Cardinality(Dirs)
         /\ \A d \in Dirs : \/ wdOf'[d] = kept[d]
                            \/ /\ wd <= wdOf'[d] /\ wdOf'[d] < nextWd'
                               /\ \E w \in watches' : w.wd = Unpacked(wdOf'[d])
         /\ \A c, d \in Dirs : wdOf'[c] # 0 /\ wdOf'[c] = wdOf'[d] => c = d
         /\ \A i \in Watchable(cfgs, n) \ refused :
              PathOf[cfgs[i].file] \in Dirs /\ wdOf'[PathOf[cfgs[i].file]] # 0
<1> DEFINE W == Watchable(cfgs, n) \ refused
           N == NeedsWd(cfgs, W, kept)
           path(i) == PathOf[cfgs[i].file]
           place(i) == Cardinality({j \in N : j < i})
<1>1. /\ W \in SUBSET (1..n) /\ N \in SUBSET W /\ MaxConfigs \in Nat /\ n \in Nat
      /\ n <= MaxConfigs
  BY FsAssumption DEF Watchable, NeedsWd
<1>2. ASSUME NEW i \in W PROVE path(i) \in Dirs
  <2>1. cfgs[i] \in Config
    BY <1>1
  <2>. QED  BY <2>1, FsAssumption DEF Config
<1>3. ASSUME NEW i \in N
      PROVE  kept[path(i)] = 0 /\ \A j \in W : path(j) = path(i) => i <= j
  BY DEF NeedsWd
<1>4. ASSUME NEW i \in N, NEW j \in N, path(i) = path(j) PROVE i = j
  <2>1. i \in W /\ j \in W /\ i \in Nat /\ j \in Nat
    BY <1>1
  <2>2. i <= j /\ j <= i
    BY <1>3, <1>4, <2>1
  <2>. QED  BY <2>1, <2>2
<1>5. /\ W \in SUBSET Nat /\ IsFiniteSet(W) /\ N \in SUBSET Nat /\ IsFiniteSet(N)
      /\ Cardinality(N) \in 0..MaxConfigs
  <2>1. N \in SUBSET (1..n)
    BY <1>1
  <2> HIDE DEF W, N
  <2>. QED  BY <1>1, <2>1, UpToFinite
<1>6. Cardinality(N) <= Cardinality(Dirs)
  <2> DEFINE f == [i \in N |-> path(i)]
  <2>1. f \in Injection(N, Dirs)
    <3>1. f \in [N -> Dirs]
      BY <1>1, <1>2
    <3>2. \A i, j \in N : f[i] = f[j] => i = j
      BY <1>4
    <3> HIDE DEF f, N
    <3>. QED  BY <3>1, <3>2 DEF Injection, IsInjective
  <2> HIDE DEF f, N
  <2>. QED  BY <2>1, FS_Injection, FsAssumption
<1>7. ASSUME NEW i \in N PROVE place(i) \in 0..Cardinality(N) - 1
  <2> DEFINE b == {j \in N : j < i}
  <2>1. b \in SUBSET N /\ b # N
    <3>1. i \notin b
      BY <1>5
    <3>. QED  BY <3>1
  <2> HIDE DEF b, N
  <2>2. IsFiniteSet(b) /\ Cardinality(b) <= Cardinality(N) /\ Cardinality(b) # Cardinality(N)
    BY <1>5, <2>1, FS_Subset
  <2>3. Cardinality(b) \in Nat
    BY <2>2, FS_CardinalityType
  <2>4. Cardinality(b) \in 0..Cardinality(N) - 1
    BY <1>5, <2>2, <2>3
  <2>. QED  BY <2>4 DEF b
<1>8. ASSUME NEW i \in N, NEW j \in N, place(i) = place(j) PROVE i = j
  <2>1. i \in Nat /\ j \in Nat /\ place(i) \in Nat /\ place(j) \in Nat
    <3>1. place(i) \in 0..Cardinality(N) - 1 /\ place(j) \in 0..Cardinality(N) - 1
      BY <1>7
    <3> HIDE DEF N, place
    <3>. QED  BY <1>1, <1>5, <3>1
  <2>2. (i < j => place(i) < place(j)) /\ (j < i => place(j) < place(i))
    <3> HIDE DEF N
    <3>. QED  BY <1>5, RankGrows
  <2> HIDE DEF place, N
  <2>. QED  BY <1>8, <2>1, <2>2
<1>9. nextWd' = wd + Cardinality(N)
  BY DEF AddWatches
<1>10. ASSUME NEW d \in Dirs
       PROVE  \/ wdOf'[d] = kept[d] /\ ~\E i \in N : path(i) = d
              \/ \E i \in N : path(i) = d /\ wdOf'[d] = wd + place(i)
  <2>1. wdOf' = [e \in Dirs |->
                   IF \E i \in N : path(i) = e
                   THEN LET i == CHOOSE i \in N : path(i) = e IN wd + place(i)
                   ELSE kept[e]]
    BY Zenon DEF AddWatches, Descriptors
  <2> HIDE DEF N, path, place
  <2>2. CASE \E i \in N : path(i) = d
    <3> DEFINE i == CHOOSE i \in N : path(i) = d
    <3>1. i \in N /\ path(i) = d
      BY <2>2
    <3>2. wdOf'[d] = wd + place(i)
      BY <2>1, <2>2
    <3>. QED  BY <3>1, <3>2
  <2>3. CASE ~\E i \in N : path(i) = d
    BY <2>1, <2>3
  <2>. QED  BY <2>2, <2>3
<1>11. watches' = {[wd |-> Unpacked(wdOf'[path(i)]), slot |-> i] : i \in W}
  BY DEF AddWatches
<1>12. DOMAIN wdOf' = Dirs /\ wdOf' = [d \in Dirs |-> wdOf'[d]]
  BY DEF AddWatches, Descriptors
<1>13. ASSUME NEW i \in W PROVE wdOf'[path(i)] # 0
  <2>1. path(i) \in Dirs
    BY <1>2
  <2>2. CASE kept[path(i)] # 0
    <3>1. ~\E j \in N : path(j) = path(i)
      BY <2>2, <1>3
    <3>. QED  BY <1>10, <2>1, <2>2, <3>1
  <2>3. CASE kept[path(i)] = 0
    <3> DEFINE same == {j \in W : path(j) = path(i)}
    <3>1. same \in SUBSET Nat /\ IsFiniteSet(same) /\ same # {}
      <4>1. same \in SUBSET W /\ i \in same
        OBVIOUS
      <4> HIDE DEF same, W
      <4>. QED  BY <1>5, <4>1, FS_Subset
    <3>2. PICK j \in same : \A h \in same : j <= h
      <4> HIDE DEF same
      <4>. QED  BY <3>1, LeastExists
    <3>3. j \in N /\ path(j) = path(i)
      BY <2>3, <3>2 DEF NeedsWd
    <3>4. PICK h \in N : path(h) = path(i) /\ wdOf'[path(i)] = wd + place(h)
      <4> HIDE DEF N, place, path
      <4>. QED  BY <1>10, <2>1, <3>3
    <3>5. place(h) \in Nat
      <4>1. place(h) \in 0..Cardinality(N) - 1
        BY <1>7
      <4> HIDE DEF N, place
      <4>. QED  BY <1>1, <1>5, <4>1
    <3> HIDE DEF place
    <3>. QED  BY <3>4, <3>5
  <2>. QED  BY <2>2, <2>3
<1> HIDE DEF N, W, place
<1>14. wdOf' \in [Dirs -> Nat]
  <2>1. ASSUME NEW d \in Dirs PROVE wdOf'[d] \in Nat
    <3> HIDE DEF path
    <3>. QED  BY <1>5, <1>7, <1>10
  <2>. QED  BY <1>12, <2>1
<1>15. nextWd' \in wd .. wd + MaxConfigs /\ nextWd' <= wd + Cardinality(Dirs)
  <2>1. Cardinality(Dirs) \in Nat
    BY FS_CardinalityType, FsAssumption
  <2>. QED  BY <1>1, <1>5, <1>6, <1>9, <2>1
<1>16. ASSUME NEW d \in Dirs
       PROVE  \/ wdOf'[d] = kept[d]
              \/ /\ wd <= wdOf'[d] /\ wdOf'[d] < nextWd'
                 /\ \E w \in watches' : w.wd = Unpacked(wdOf'[d])
  <2>1. CASE \E i \in N : path(i) = d /\ wdOf'[d] = wd + place(i)
    <3>1. PICK i \in N : path(i) = d /\ wdOf'[d] = wd + place(i)
      BY <2>1
    <3>2. place(i) \in 0..Cardinality(N) - 1 /\ i \in W
      BY <1>1, <1>7
    <3>3. wd <= wdOf'[d] /\ wdOf'[d] < nextWd'
      BY <1>5, <1>9, <3>1, <3>2
    <3>4. [wd |-> Unpacked(wdOf'[d]), slot |-> i] \in watches'
      BY <1>11, <3>1, <3>2, Zenon
    <3>. QED  BY <3>3, <3>4
  <2>. QED  BY <1>10, <2>1
<1>17. ASSUME NEW c \in Dirs, NEW d \in Dirs, wdOf'[c] # 0, wdOf'[c] = wdOf'[d]
       PROVE  c = d
  <2> HIDE DEF path
  <2>1. \A i \in N : place(i) \in Nat
    BY <1>5, <1>7
  <2>2. kept[c] \in Nat /\ kept[d] \in Nat /\ kept[c] < wd /\ kept[d] < wd
    OBVIOUS
  <2>3. CASE wdOf'[c] = kept[c] /\ wdOf'[d] = kept[d]
    BY <1>17, <2>3
  <2>4. CASE /\ \E i \in N : path(i) = c /\ wdOf'[c] = wd + place(i)
             /\ \E i \in N : path(i) = d /\ wdOf'[d] = wd + place(i)
    <3>1. PICK i \in N : path(i) = c /\ wdOf'[c] = wd + place(i)
      BY <2>4
    <3>2. PICK j \in N : path(j) = d /\ wdOf'[d] = wd + place(j)
      BY <2>4
    <3>3. place(i) = place(j)
      <4>1. \A a, b \in Nat : wd + a = wd + b => a = b
        OBVIOUS
      <4>2. place(i) \in Nat /\ place(j) \in Nat /\ wd + place(i) = wd + place(j)
        BY <1>17, <2>1, <3>1, <3>2, Zenon
      <4>. QED  BY <4>1, <4>2, Zenon
    <3>. QED  BY <1>8, <3>1, <3>2, <3>3
  <2>5. (\E i \in N : path(i) = c /\ wdOf'[c] = wd + place(i)) => wdOf'[c] >= wd
    BY <2>1
  <2>6. (\E i \in N : path(i) = d /\ wdOf'[d] = wd + place(i)) => wdOf'[d] >= wd
    BY <2>1
  <2>. QED  BY <1>10, <1>17, <2>2, <2>3, <2>4, <2>5, <2>6
<1>18. \A i \in W : path(i) \in Dirs /\ wdOf'[path(i)] # 0
  BY <1>2, <1>13
<1>. QED  BY <1>14, <1>15, <1>16, <1>17, <1>18 DEF W
-----------------------------------------------------------------------------
(* A rebuild establishes the invariant.                                     *)

\* The history of the configurations is a sequence of them.
LEMMA BuiltFrom ==
  ASSUME NEW cfgs \in [Slots -> Config \cup {NoConfig}], NEW n \in 0..MaxConfigs,
         \A i \in 1..n : cfgs[i] \in Config
  PROVE  /\ SubSeq(cfgs, 1, n) \in Seq(Config) /\ Len(SubSeq(cfgs, 1, n)) = n
         /\ DOMAIN SubSeq(cfgs, 1, n) = 1..n
         /\ \A i \in 1..n : SubSeq(cfgs, 1, n)[i] = cfgs[i]
<1>1. n \in Nat
  BY FsAssumption
<1>2. SubSeq(cfgs, 1, n) = [i \in 1..n |-> cfgs[i]]
  BY <1>1
<1>3. SubSeq(cfgs, 1, n) \in [1..n -> Config]
  BY <1>2
<1>. QED  BY <1>1, <1>2, <1>3, SeqOfLength, Zenon

\* Enough of what was queued before is of the last rebuild, and the kernel kept
\* no descriptor that packs without loss: no entry reads like an older one.
LEMMA Rebuilt ==
  ASSUME NEW cfgs \in [Slots -> Config \cup {NoConfig}], NEW n \in 0..MaxConfigs,
         \A i \in 1..n : cfgs[i] \in Config,
         NEW refused, NEW kept \in [Dirs -> Nat], NEW wd \in Nat \ {0},
         \A d \in Dirs : kept[d] < wd,
         \A d \in Dirs : kept[d] = 0 \/ WdLimit < kept[d],
         \A c, d \in Dirs : kept[c] # 0 /\ kept[c] = kept[d] => c = d,
         AddWatches(cfgs, n, refused, kept, wd), inotify_fd' = TRUE,
         \A ev \in Pending' : /\ ev.wd \in Nat \ {0} /\ ev.wd < wd
                              /\ ev.wd <= WdLimit => wd <= ev.wd + MaxConfigs,
         configs' = cfgs, config_count' = n, dirs' = dirs,
         phase' # "down", phase' = "recv" => Pending' = {}
  PROVE  WatchInv'
<1> DEFINE path(i) == PathOf[cfgs[i].file]
           W == Watchable(cfgs, n) \ refused
<1>1. /\ WdLimit \in Nat /\ MaxConfigs \in Nat /\ MaxConfigs <= WdLimit + 1
      /\ n \in Nat /\ n <= MaxConfigs
  BY FsAssumption
<1>2. /\ wdOf' \in [Dirs -> Nat]
      /\ nextWd' \in wd .. wd + MaxConfigs
      /\ \A d \in Dirs : \/ wdOf'[d] = kept[d]
                         \/ /\ wd <= wdOf'[d] /\ wdOf'[d] < nextWd'
                            /\ \E w \in watches' : w.wd = Unpacked(wdOf'[d])
      /\ \A c, d \in Dirs : wdOf'[c] # 0 /\ wdOf'[c] = wdOf'[d] => c = d
      /\ \A i \in W : path(i) \in Dirs /\ wdOf'[path(i)] # 0
  BY HandedOut
<1>3. /\ watches' = {[wd |-> Unpacked(wdOf'[path(i)]), slot |-> i] : i \in W}
      /\ built' = SubSeq(cfgs, 1, n)
      /\ steady' = dirs \ {path(i) : i \in refused}
  BY DEF AddWatches
<1>4. W = {i \in 1..n : cfgs[i].on /\ path(i) \in dirs /\ i \notin refused}
  BY DEF Watchable
<1>5. /\ built' \in Seq(Config) /\ Len(built') = n
      /\ DOMAIN built' = 1..n /\ \A i \in 1..n : built'[i] = cfgs[i]
  BY <1>3, BuiltFrom
<1> HIDE DEF path, W
<1>6. ReadFromFiles'
  BY <1>1, <1>3, <1>5 DEF ReadFromFiles
<1>7. ASSUME NEW d \in Dirs, wdOf'[d] # 0
      PROVE  /\ wdOf'[d] \in Nat /\ wdOf'[d] < nextWd'
             /\ wdOf'[d] > WdLimit \/ wd <= wdOf'[d]
  BY <1>1, <1>2, <1>7
<1>8. DescriptorsApart'
  <2>1. \A d \in Dirs : wdOf'[d] < nextWd'
    BY <1>1, <1>2, <1>7
  <2>2. \A ev \in Pending' : 0 < ev.wd /\ ev.wd < nextWd'
    BY <1>2
  <2>. QED  BY <1>2, <2>1, <2>2 DEF DescriptorsApart
<1>9. SmallAreRecent'
  <2>1. ASSUME NEW d \in Dirs, wdOf'[d] \in 1..WdLimit
        PROVE  nextWd' <= wdOf'[d] + MaxConfigs /\ \E w \in watches' : w.wd = wdOf'[d]
    <3>1. wdOf'[d] \in Nat /\ wdOf'[d] # 0 /\ wdOf'[d] <= WdLimit
      BY <1>1, <2>1
    <3>2. wdOf'[d] # kept[d] /\ wd <= wdOf'[d]
      BY <1>1, <3>1, <1>7
    <3>3. Unpacked(wdOf'[d]) = wdOf'[d]
      BY <3>1, UnpackedIs
    <3>4. \E w \in watches' : w.wd = wdOf'[d]
      BY <1>2, <3>2, <3>3
    <3>. QED  BY <1>1, <1>2, <3>1, <3>2, <3>4
  <2>. QED  BY <2>1 DEF SmallAreRecent
<1>10. EntriesMeanOneDir'
  <2> SUFFICES ASSUME NEW w \in watches'
      PROVE  /\ w.slot <= Len(built') /\ built'[w.slot].on
             /\ \A d \in Dirs :
                  wdOf'[d] # 0 /\ wdOf'[d] = w.wd => d = PathOf[built'[w.slot].file]
             /\ \A ev \in Pending' : ev.wd # w.wd
    BY DEF EntriesMeanOneDir
  <2>1. PICK i \in W : w = [wd |-> Unpacked(wdOf'[path(i)]), slot |-> i]
    BY <1>3
  <2>2. PICK x \in Nat : x = wdOf'[path(i)]
    BY <1>2
  <2>3. /\ w.slot = i /\ w.wd = Unpacked(x) /\ i \in 1..n /\ cfgs[i].on
        /\ PathOf[built'[w.slot].file] = path(i) /\ path(i) \in Dirs
    BY <1>2, <1>4, <1>5, <2>1, <2>2 DEF path
  <2>4. x # 0 /\ x < nextWd' /\ (x > WdLimit \/ wd <= x)
    BY <1>2, <1>7, <2>2
  <2>5. /\ w.wd \in Int /\ w.wd <= WdLimit /\ (x <= WdLimit => w.wd = x)
        /\ x > WdLimit /\ w.wd > 0 => x >= w.wd + 2 * (WdLimit + 1)
    BY <2>3, UnpackedIs
  <2>6. ASSUME NEW d \in Dirs, wdOf'[d] # 0, wdOf'[d] = w.wd
        PROVE  d = path(i)
    <3>1. PICK y \in Nat : y = wdOf'[d]
      BY <1>2
    <3>2. y # 0 /\ y = w.wd /\ y <= WdLimit /\ wd <= y
      BY <1>1, <1>7, <2>5, <2>6, <3>1
    <3>3. ~(x > WdLimit)
      BY <1>1, <1>2, <2>4, <2>5, <3>2
    <3>4. x = y
      BY <1>1, <2>5, <3>2, <3>3
    <3>5. wdOf'[path(i)] = wdOf'[d] /\ path(i) \in Dirs
      BY <2>2, <2>3, <3>1, <3>4
    <3>. QED  BY <1>2, <2>6, <3>5, Zenon
  <2>7. ASSUME NEW ev \in Pending', ev.wd = w.wd
        PROVE  FALSE
    <3>1. PICK y \in Nat \ {0} : y = ev.wd /\ y < wd /\ (y <= WdLimit => wd <= y + MaxConfigs)
      OBVIOUS
    <3>2. y = w.wd
      BY <2>7, <3>1
    <3>. QED  BY <1>1, <1>2, <2>4, <2>5, <3>1, <3>2
  <2>. QED  BY <1>1, <1>5, <2>3, <2>6, <2>7
<1>11. BuiltWatched'
  <2> SUFFICES ASSUME NEW i \in 1..n, built'[i].on, PathOf[built'[i].file] \in steady'
      PROVE  wdOf'[PathOf[built'[i].file]] # 0
    BY <1>5 DEF BuiltWatched
  <2>1. PathOf[built'[i].file] = path(i) /\ cfgs[i].on
    BY <1>5 DEF path
  <2>2. path(i) \in dirs /\ i \notin refused
    BY <1>3, <2>1
  <2>. QED  BY <1>2, <1>4, <2>1, <2>2
<1>. QED  BY <1>6, <1>8, <1>9, <1>10, <1>11 DEF WatchInv
-----------------------------------------------------------------------------
(* What the worker reads.                                                   *)

Disks == [Files -> {"absent", "torn", "on", "off"}]
Read == [Slots -> Config \cup {NoConfig}]

\* load_configs takes every configuration it counts from a file.
LEMMA LoadTyped ==
  ASSUME NEW d \in Disks, NEW old \in Read
  PROVE  /\ Load(d, old) \in Read
         /\ Count(d) \in 0..MaxConfigs
         /\ \A i \in 1..Count(d) : Load(d, old)[i] \in Config
<1>1. NumFiles \in Nat /\ MaxConfigs \in Nat
  BY FsAssumption
<1>2. /\ Whole(d) \in SUBSET (1..NumFiles) /\ Whole(d) \in SUBSET Nat
      /\ IsFiniteSet(Whole(d)) /\ Cardinality(Whole(d)) \in Nat
  <2>1. Whole(d) \in SUBSET (1..NumFiles)
    BY DEF Whole, Files
  <2>. QED  BY <1>1, <2>1, UpToFinite
<1>3. Count(d) \in 0..MaxConfigs /\ Count(d) <= Cardinality(Whole(d))
  BY <1>1, <1>2 DEF Count
<1>4. ASSUME NEW i \in 1..Count(d)
      PROVE  [file |-> Nth(Whole(d), i), on |-> d[Nth(Whole(d), i)] = "on"] \in Config
  <2>1. i \in 1..Cardinality(Whole(d))
    BY <1>2, <1>3
  <2>2. Nth(Whole(d), i) \in Whole(d)
    BY <1>2, <2>1, NthIn
  <2>. QED  BY <1>2, <2>2 DEF Config, Files
<1>5. ASSUME NEW i \in Slots, i <= Count(d)
      PROVE  Load(d, old)[i] = [file |-> Nth(Whole(d), i), on |-> d[Nth(Whole(d), i)] = "on"]
  BY <1>5 DEF Load
<1>6. ASSUME NEW i \in Slots, ~(i <= Count(d))
      PROVE  Load(d, old)[i] \in {NoConfig, old[i]}
  BY <1>6 DEF Load
<1>7. DOMAIN Load(d, old) = Slots /\ Load(d, old) = [i \in Slots |-> Load(d, old)[i]]
  BY DEF Load
<1>8. \A i \in Slots : i <= Count(d) => i \in 1..Count(d)
  BY <1>3 DEF Slots
<1>9. ASSUME NEW i \in Slots PROVE Load(d, old)[i] \in Config \cup {NoConfig}
  BY <1>4, <1>5, <1>6, <1>8 DEF Read
<1>10. Load(d, old) \in Read
  BY <1>7, <1>9, Zenon DEF Read
<1>11. ASSUME NEW i \in 1..Count(d) PROVE Load(d, old)[i] \in Config
  <2>1. i \in Slots /\ i <= Count(d)
    BY <1>1, <1>3 DEF Slots
  <2>. QED  BY <1>4, <1>5, <2>1
<1>. QED  BY <1>3, <1>10, <1>11

\* Of k events the first n fit: as many as there is room for.
LEMMA SomeFit ==
  ASSUME NEW q \in Nat, NEW k \in Nat, NEW cap \in Nat
  PROVE  \E n \in 0..k : (n = 0 \/ q + n <= cap) /\ (n = k \/ q + n >= cap)
<1>1. CASE q + k <= cap
  <2>1. k \in 0..k
    OBVIOUS
  <2>. QED  BY <1>1, <2>1
<1>2. CASE q >= cap
  <2>1. 0 \in 0..k
    OBVIOUS
  <2>. QED  BY <1>2, <2>1
<1>3. CASE q < cap /\ q + k > cap
  <2>1. PICK n \in Int : n = cap - q
    OBVIOUS
  <2>2. n \in 0..k /\ q + n <= cap /\ q + n >= cap
    BY <1>3, <2>1
  <2>. QED  BY <2>2
<1>. QED  BY <1>1, <1>2, <1>3

\* The elements of three sequences in a row.
InARow(r, s, t, T) ==
  /\ r \o s \o t \in Seq(T)
  /\ Len(r \o s \o t) = Len(r) + Len(s) + Len(t)
  /\ \A i \in 1..Len(r) + Len(s) + Len(t) :
       (r \o s \o t)[i] = IF i <= Len(r) THEN r[i]
                          ELSE IF i <= Len(r) + Len(s) THEN s[i - Len(r)]
                          ELSE t[i - (Len(r) + Len(s))]

LEMMA ThreeInARow ==
  ASSUME NEW T, NEW r \in Seq(T), NEW s \in Seq(T), NEW t \in Seq(T)
  PROVE  InARow(r, s, t, T)
<1>1. Len(r) \in Nat /\ Len(s) \in Nat /\ Len(t) \in Nat
  OBVIOUS
<1>2. /\ r \o s \in Seq(T) /\ Len(r \o s) = Len(r) + Len(s)
      /\ \A i \in 1..Len(r) + Len(s) : (r \o s)[i] = IF i <= Len(r) THEN r[i]
                                                     ELSE s[i - Len(r)]
  BY ConcatProperties
<1>3. /\ r \o s \o t \in Seq(T) /\ Len(r \o s \o t) = Len(r \o s) + Len(t)
      /\ \A i \in 1..Len(r \o s) + Len(t) :
           (r \o s \o t)[i] = IF i <= Len(r \o s) THEN (r \o s)[i] ELSE t[i - Len(r \o s)]
  BY <1>2, ConcatProperties
<1> DEFINE a == Len(r)
           b == Len(s)
           c == Len(t)
           rs == r \o s
           rst == rs \o t
<1>4. /\ a \in Nat /\ b \in Nat /\ c \in Nat
      /\ \A i \in 1..a + b : rs[i] = IF i <= a THEN r[i] ELSE s[i - a]
      /\ \A i \in 1..(a + b) + c : rst[i] = IF i <= a + b THEN rs[i] ELSE t[i - (a + b)]
  BY <1>1, <1>2, <1>3, Zenon
<1>5. rst \in Seq(T) /\ Len(rst) = a + b + c
  BY <1>2, <1>3
<1> HIDE DEF a, b, c, rs, rst
<1>6. ASSUME NEW i \in 1..a + b + c
      PROVE  rst[i] = IF i <= a THEN r[i] ELSE IF i <= a + b THEN s[i - a]
                      ELSE t[i - (a + b)]
  BY <1>4
<1>. QED  BY <1>5, <1>6, Zenon DEF a, b, c, rs, rst, InARow

\* What the kernel queues is what was queued before, or new.
LEMMA Enqueued ==
  ASSUME QueueOK, NEW es \in Seq(InotifyEvent), Enqueue(es)
  PROVE  /\ QueueOK'
         /\ \A ev \in Pending' : ev \in Pending \/ \E i \in DOMAIN es : ev = es[i]
<1> DEFINE q == Len(queue)
           k == Len(es)
           fits(n) == /\ n = 0 \/ q + n <= QueueCap
                      /\ n = k \/ q + n >= QueueCap
           n == CHOOSE n \in 0..k : fits(n)
           new == SubSeq(es, 1, n)
           note == IF n = k \/ Noted THEN <<>> ELSE <<Overflow>>
           last == Len(note)
           longer == queue \o new \o note
<1>1. /\ queue \in Seq(InotifyEvent) /\ q \in Nat /\ k \in Nat
      /\ DOMAIN queue = 1..q /\ DOMAIN es = 1..k
  BY DEF QueueOK
<1>2. QueueCap \in Nat /\ q <= QueueCap + 1 /\ (~Noted => q <= QueueCap)
  BY <1>1, FsAssumption DEF QueueOK
<1>3. queue' = longer
  BY DEF Enqueue
<1> HIDE DEF q, k
<1>4. \E m \in 0..k : fits(m)
  BY <1>1, <1>2, SomeFit
<1>5. n \in 0..k /\ fits(n)
  <2> HIDE DEF fits
  <2>. QED  BY <1>4
<1> HIDE DEF n
<1>6. n \in Nat /\ n <= k
  BY <1>1, <1>5
<1>7. /\ new \in Seq(InotifyEvent) /\ Len(new) = n
      /\ \A i \in 1..n : i \in DOMAIN es /\ new[i] = es[i]
  <2>1. ASSUME NEW i \in 1..n PROVE i \in DOMAIN es /\ es[i] \in InotifyEvent
    <3>1. i \in 1..k
      BY <1>1, <1>6
    <3>. QED  BY <1>1, <3>1, ElementOfSeq DEF k
  <2>. QED  BY <1>6, <2>1, SubSeqProperties
<1>8. /\ note \in Seq(InotifyEvent) /\ last \in {0, 1}
      /\ \A i \in 1..last : note[i] = Overflow
      /\ last = 1 => n # k /\ ~Noted
  <2>1. Overflow \in InotifyEvent
    BY DEF InotifyEvent
  <2>2. CASE n = k \/ Noted
    BY <2>2
  <2>3. CASE ~(n = k \/ Noted)
    BY <2>1, <2>3
  <2>. QED  BY <2>2, <2>3
<1> HIDE DEF new, note, last
<1>9. /\ longer \in Seq(InotifyEvent) /\ Len(longer) = q + n + last
      /\ \A i \in 1..q + n + last :
           longer[i] = IF i <= q THEN queue[i] ELSE IF i <= q + n THEN new[i - q]
                       ELSE note[i - (q + n)]
  <2>1. /\ queue \in Seq(InotifyEvent) /\ new \in Seq(InotifyEvent)
        /\ note \in Seq(InotifyEvent)
    BY <1>1, <1>7, <1>8
  <2>2. /\ longer \in Seq(InotifyEvent)
        /\ Len(longer) = Len(queue) + Len(new) + Len(note)
        /\ \A i \in 1..Len(queue) + Len(new) + Len(note) :
             longer[i] = IF i <= Len(queue) THEN queue[i]
                         ELSE IF i <= Len(queue) + Len(new) THEN new[i - Len(queue)]
                         ELSE note[i - (Len(queue) + Len(new))]
    <3> HIDE DEF longer
    <3>1. \A T : \A x, y, z \in Seq(T) : InARow(x, y, z, T)
      BY ThreeInARow
    <3>2. InARow(queue, new, note, InotifyEvent)
      BY <2>1, <3>1
    <3>. QED  BY <3>2 DEF InARow, longer
  <2>. QED  BY <1>7, <2>2, Zenon DEF q, last
<1> HIDE DEF longer
<1>10. DOMAIN longer = 1..q + n + last
  BY <1>9
<1>11. last \in Nat /\ q + n + last \in Nat
  BY <1>1, <1>6, <1>8
<1>12. Noted => Noted'
  <2> SUFFICES ASSUME NEW i \in 1..q, queue[i] = Overflow PROVE Noted'
    BY <1>1 DEF Noted
  <2>1. i \in 1..q + n + last /\ longer[i] = queue[i]
    BY <1>1, <1>6, <1>9, <1>11
  <2>. QED  BY <1>3, <1>10, <2>1 DEF Noted
<1>13. last = 1 => Noted'
  <2> SUFFICES ASSUME last = 1 PROVE Noted'
    OBVIOUS
  <2>1. q + n + 1 \in 1..q + n + last /\ longer[q + n + 1] = note[1]
    <3>1. q + n + 1 \in 1..q + n + last /\ (q + n + 1) - (q + n) = 1
          /\ ~(q + n + 1 <= q) /\ ~(q + n + 1 <= q + n)
      BY <1>1, <1>6
    <3>. QED  BY <1>9, <3>1
  <2>2. note[1] = Overflow
    BY <1>8
  <2>. QED  BY <1>3, <1>10, <2>1, <2>2 DEF Noted
<1>14. q + n + last <= QueueCap + (IF Noted' THEN 1 ELSE 0)
  BY <1>1, <1>2, <1>5, <1>6, <1>8, <1>12, <1>13
<1>15. QueueOK'
  <2>1. queue' \in Seq(InotifyEvent) /\ Len(queue') = q + n + last
    BY <1>3, <1>9
  <2>. QED  BY <1>14, <2>1 DEF QueueOK
<1>16. ASSUME NEW ev \in Pending'
       PROVE  ev \in Pending \/ \E i \in DOMAIN es : ev = es[i]
  <2>1. PICK i \in 1..q + n + last : ev = longer[i] /\ ev # Overflow
    BY <1>3, <1>10 DEF Pending
  <2>2. CASE i <= q
    <3>1. i \in DOMAIN queue /\ ev = queue[i]
      BY <1>1, <1>9, <2>1, <2>2
    <3>. QED  BY <2>1, <3>1 DEF Pending
  <2>3. CASE q < i /\ i <= q + n
    <3>1. i - q \in 1..n /\ ev = new[i - q]
      BY <1>1, <1>6, <1>9, <2>1, <2>3
    <3>. QED  BY <1>7, <3>1
  <2>4. CASE q + n < i
    <3>1. i - (q + n) \in 1..last /\ ~(i <= q)
      BY <1>1, <1>6, <1>11, <2>4
    <3>2. ev = note[i - (q + n)]
      BY <1>1, <1>6, <1>9, <2>1, <2>4, <3>1
    <3>. QED  BY <1>8, <2>1, <3>1, <3>2
  <2>. QED  BY <1>1, <1>6, <2>2, <2>3, <2>4
<1>. QED  BY <1>15, <1>16

\* Reading an event takes it from the queue and leaves the others.
LEMMA Dequeued ==
  ASSUME QueueOK, queue # <<>>, queue' = Tail(queue)
  PROVE  /\ QueueOK' /\ Pending' \subseteq Pending
         /\ Head(queue) \in InotifyEvent
         /\ Head(queue) # Overflow => Head(queue) \in Pending
<1>1. /\ queue \in Seq(InotifyEvent) /\ QueueCap \in Nat
      /\ Len(queue) \in Nat /\ Len(queue) # 0 /\ DOMAIN queue = 1..Len(queue)
      /\ Head(queue) = queue[1] /\ Tail(queue) \in Seq(InotifyEvent)
      /\ Len(Tail(queue)) = Len(queue) - 1 /\ DOMAIN Tail(queue) = 1..Len(queue) - 1
      /\ \A i \in 1..Len(queue) - 1 : Tail(queue)[i] = queue[i + 1]
      /\ Len(queue) <= QueueCap + 1
  BY FsAssumption DEF QueueOK
<1>2. ASSUME NEW ev \in Pending' PROVE ev \in Pending
  <2>1. PICK i \in 1..Len(queue) - 1 : ev = queue[i + 1] /\ ev # Overflow
    BY <1>1 DEF Pending
  <2>2. i + 1 \in DOMAIN queue
    BY <1>1
  <2>. QED  BY <2>1, <2>2 DEF Pending
<1>3. 1 \in DOMAIN queue
  BY <1>1
<1>4. Head(queue) \in InotifyEvent
  BY <1>1, <1>3, ElementOfSeq
<1>5. QueueOK'
  BY <1>1 DEF QueueOK
<1>. QED  BY <1>1, <1>2, <1>3, <1>4, <1>5 DEF Pending

\* A queue that is left alone.
LEMMA QueueLeftAlone ==
  ASSUME queue' = queue
  PROVE  Pending' = Pending /\ (QueueOK => QueueOK')
BY DEF Pending, QueueOK, Noted
-----------------------------------------------------------------------------
(* The entries and the events the kernel queues when they go.               *)

\* IN_IGNORED comes for watches that are removed.
LEMMA IgnoredAre ==
  ASSUME wdOf \in [Dirs -> 0..MaxWd]
  PROVE  /\ Ignored \in Seq(InotifyEvent)
         /\ \A i \in DOMAIN Ignored : \E d \in Removed : Ignored[i].wd = wdOf[d]
<1> DEFINE wds == {wdOf[d] : d \in Removed}
<1>1. Removed \in SUBSET Dirs /\ MaxWd \in Nat
  BY FsAssumption DEF Removed
<1>2. wds \in SUBSET Nat /\ IsFiniteSet(wds) /\ Cardinality(wds) \in Nat
  <2>1. wds \in SUBSET Nat /\ \A n \in wds : n <= MaxWd
    BY <1>1
  <2> HIDE DEF wds
  <2>2. IsFiniteSet(wds)
    BY <1>1, <2>1, FS_BoundedSetOfNaturals
  <2>. QED  BY <2>1, <2>2, FS_CardinalityType
<1>3. Ignored = [i \in 1..Cardinality(wds) |->
                   [wd |-> Nth(wds, i), dir |-> CHOOSE d \in Removed : wdOf[d] = Nth(wds, i),
                    op |-> "event"]]
  BY DEF Ignored
<1>4. ASSUME NEW i \in 1..Cardinality(wds)
      PROVE  /\ Ignored[i] \in InotifyEvent
             /\ \E d \in Removed : Ignored[i].wd = wdOf[d]
  <2>1. Nth(wds, i) \in wds
    <3> HIDE DEF wds
    <3>. QED  BY <1>2, NthIn
  <2>2. PICK d \in Removed : wdOf[d] = Nth(wds, i)
    BY <2>1
  <2>3. (CHOOSE e \in Removed : wdOf[e] = Nth(wds, i)) \in Removed
    BY <2>2
  <2> HIDE DEF wds
  <2>4. /\ Ignored[i].wd = Nth(wds, i)
        /\ Ignored[i] = [wd |-> Nth(wds, i),
                         dir |-> CHOOSE e \in Removed : wdOf[e] = Nth(wds, i),
                         op |-> "event"]
    BY <1>3
  <2>5. Ignored[i] \in InotifyEvent
    <3>1. \A n \in Nat, where \in Dirs : [wd |-> n, dir |-> where, op |-> "event"] \in InotifyEvent
      BY DEF InotifyEvent
    <3>2. Nth(wds, i) \in Nat /\ (CHOOSE e \in Removed : wdOf[e] = Nth(wds, i)) \in Dirs
      BY <1>1, <1>2, <2>1, <2>3
    <3>. QED  BY <2>4, <3>1, <3>2, Zenon
  <2>. QED  BY <2>2, <2>4, <2>5
<1> HIDE DEF wds
<1>5. DOMAIN Ignored = 1..Cardinality(wds) /\ Ignored \in [1..Cardinality(wds) -> InotifyEvent]
  <2>1. DOMAIN Ignored = 1..Cardinality(wds)
        /\ Ignored = [i \in 1..Cardinality(wds) |-> Ignored[i]]
    BY <1>3
  <2>. QED  BY <1>4, <2>1, Zenon
<1>. QED  BY <1>2, <1>4, <1>5, SeqOfLength, Zenon

\* The watches stay within the types if there are descriptors enough.
LEMMA AddedTyped ==
  ASSUME NEW cfgs \in Read, NEW n \in 0..MaxConfigs, \A i \in 1..n : cfgs[i] \in Config,
         NEW refused, NEW kept \in [Dirs -> 0..MaxWd], NEW wd \in Nat \ {0},
         wd + Cardinality(Dirs) <= MaxWd + 1,
         \A d \in Dirs : kept[d] < wd,
         \A c, d \in Dirs : kept[c] # 0 /\ kept[c] = kept[d] => c = d,
         AddWatches(cfgs, n, refused, kept, wd)
  PROVE  /\ watches' \subseteq [wd : Int, slot : Slots]
         /\ wdOf' \in [Dirs -> 0..MaxWd] /\ nextWd' \in 1..MaxWd + 1
<1>1. /\ MaxWd \in Nat /\ Cardinality(Dirs) \in Nat /\ MaxConfigs \in Nat
      /\ kept \in [Dirs -> Nat]
  BY FsAssumption, FS_CardinalityType
<1>2. /\ wdOf' \in [Dirs -> Nat]
      /\ nextWd' \in wd .. wd + MaxConfigs /\ nextWd' <= wd + Cardinality(Dirs)
      /\ \A d \in Dirs : wdOf'[d] = kept[d] \/ (wd <= wdOf'[d] /\ wdOf'[d] < nextWd')
      /\ \A i \in Watchable(cfgs, n) \ refused : PathOf[cfgs[i].file] \in Dirs
  BY <1>1, HandedOut DEF Read
<1>3. nextWd' \in 1..MaxWd + 1
  BY <1>1, <1>2
<1>4. ASSUME NEW d \in Dirs PROVE wdOf'[d] \in 0..MaxWd
  BY <1>1, <1>2, <1>3
<1>5. ASSUME NEW i \in Watchable(cfgs, n) \ refused
      PROVE  [wd |-> Unpacked(wdOf'[PathOf[cfgs[i].file]]), slot |-> i]
               \in [wd : Int, slot : Slots]
  <2>1. wdOf'[PathOf[cfgs[i].file]] \in Nat
    BY <1>2
  <2>2. Unpacked(wdOf'[PathOf[cfgs[i].file]]) \in Int
    BY <2>1, UnpackedIs
  <2>3. i \in Slots
    BY <1>1 DEF Watchable, Slots
  <2>. QED  BY <2>2, <2>3
<1>6. watches' = {[wd |-> Unpacked(wdOf'[PathOf[cfgs[i].file]]), slot |-> i] :
                    i \in Watchable(cfgs, n) \ refused}
  BY DEF AddWatches
<1>. QED  BY <1>2, <1>3, <1>4, <1>5, <1>6

\* The entry an event is recorded for is one that has its descriptor.
LEMMA FirstMatchIs ==
  ASSUME watches \subseteq [wd : Int, slot : Slots], NEW ev, Matching(ev) # {}
  PROVE  /\ FirstMatch(ev) \in watches /\ FirstMatch(ev).wd = ev.wd
         /\ FirstMatch(ev).slot \in Slots
<1> DEFINE slots == {w.slot : w \in Matching(ev)}
<1>1. Matching(ev) \subseteq watches /\ \A w \in Matching(ev) : w.wd = ev.wd
  BY DEF Matching
<1>2. slots \in SUBSET (1..MaxConfigs) /\ slots # {} /\ MaxConfigs \in Nat
  BY <1>1, FsAssumption DEF Slots
<1>3. PICK i \in slots : \A j \in slots : i <= j
  <2> HIDE DEF slots
  <2>. QED  BY <1>2, UpToFinite, LeastExists
<1>4. \E w \in Matching(ev) : \A v \in Matching(ev) : w.slot <= v.slot
  BY <1>3
<1>5. FirstMatch(ev) \in Matching(ev)
  BY <1>4 DEF FirstMatch
<1>. QED  BY <1>1, <1>5
-----------------------------------------------------------------------------
(* The invariant.                                                           *)

WorkerInv == TypeOK /\ WatchInv

LEMMA InitWorker == Init => WorkerInv
<1> SUFFICES ASSUME Init PROVE WorkerInv
  OBVIOUS
<1>1. Pending = {}
  BY DEF Init, Pending
<1>2. RingOK
  BY RingInitial DEF Init
<1>3. queue = <<>> /\ QueueOK
  <2>1. queue = <<>> /\ QueueCap \in Nat
    BY FsAssumption DEF Init
  <2>2. ~Noted
    BY <2>1 DEF Noted
  <2>. QED  BY <2>1, <2>2 DEF QueueOK
<1>4. nextWd \in 1..MaxWd + 1 /\ wdOf \in [Dirs -> 0..MaxWd]
  BY FsAssumption DEF Init
<1>5. TypeOK
  <2>1. /\ disk \in [Files -> {"absent", "torn", "on", "off"}] /\ dirs \subseteq Dirs
        /\ configs \in [Slots -> Config \cup {NoConfig}] /\ config_count \in 0..MaxConfigs
        /\ watches \subseteq [wd : Int, slot : Slots]
        /\ phase \in {"down", "recv", "poll"} /\ faults \in 0..MaxFaults
    BY FsAssumption DEF Init
  <2>2. inotify_fd \in BOOLEAN
    BY DEF Init
  <2>. QED  BY <1>2, <1>3, <1>4, <2>1, <2>2, Zenon DEF TypeOK
<1>6. WatchInv
  BY <1>1, FsAssumption DEF Init, WatchInv, ReadFromFiles, DescriptorsApart, SmallAreRecent,
     EntriesMeanOneDir, BuiltWatched
<1>. QED  BY <1>5, <1>6 DEF WorkerInv

\* A step that leaves the watches and what is known of them alone keeps the
\* invariant, if it queues nothing and does not return to the commands with
\* something in the queue.
LEMMA WatchesLeftAlone ==
  ASSUME WatchInv, UNCHANGED <<watches, inotify_fd, wdOf, nextWd, built, steady>>,
         Pending' \subseteq Pending, queue = <<>> => queue' = <<>>, dirs \subseteq dirs',
         \A i \in 1..config_count' : configs'[i] \in Config,
         phase' = "down" => phase = "down",
         phase' = "recv" => phase = "recv" \/ Pending' = {}
  PROVE  WatchInv'
<1> USE DEF WatchInv
<1>1. ReadFromFiles'
  BY DEF ReadFromFiles
<1>2. DescriptorsApart'
  BY DEF DescriptorsApart
<1>3. SmallAreRecent'
  BY DEF SmallAreRecent
<1>4. EntriesMeanOneDir'
  BY DEF EntriesMeanOneDir
<1>5. BuiltWatched'
  BY DEF BuiltWatched
<1>. QED  BY <1>1, <1>2, <1>3, <1>4, <1>5

\* rebuild_watches: the second loop hands out descriptors when every one that
\* packs without loss has been removed by the first; without an instance there
\* is nothing to remove and nothing queued.
LEMMA RebuildWorker ==
  ASSUME WorkerInv, NEW c \in Read, NEW m \in 0..MaxConfigs, \A i \in 1..m : c[i] \in Config,
         NEW mayFail, Rebuild(c, m, mayFail), configs' = c, config_count' = m,
         disk' \in Disks, faults' \in 0..MaxFaults, dirs' = dirs, UNCHANGED eventVars,
         \/ phase = "recv" /\ phase' = "poll"
         \/ phase = "down" /\ phase' = "recv"
  PROVE  WorkerInv'
<1> USE DEF WorkerInv
<1> DEFINE kept == [d \in Dirs |-> IF d \in Removed THEN 0 ELSE wdOf[d]]
<1>1. /\ wdOf \in [Dirs -> 0..MaxWd] /\ nextWd \in 1..MaxWd + 1 /\ QueueOK
      /\ dirs \subseteq Dirs /\ RingOK
  BY DEF TypeOK
<1>2. MaxWd \in Nat /\ Cardinality(Dirs) \in Nat /\ MaxConfigs \in Nat
  BY FsAssumption, FS_CardinalityType
<1>3. RingOK'
  BY <1>1 DEF RingOK, eventVars
<1>4. phase' # "down" /\ phase' \in {"recv", "poll"}
  OBVIOUS
<1>5. CASE NoInstance(c, m)
  <2>1. /\ ~inotify_fd /\ built' = SubSeq(c, 1, m) /\ steady' = dirs
        /\ UNCHANGED <<watches, inotify_fd, wdOf, nextWd, queue>>
    BY <1>5 DEF NoInstance
  <2>2. /\ nextWd = 1 /\ queue = <<>> /\ watches = {} /\ inotify_fd' = FALSE
        /\ \A d \in Dirs : wdOf[d] < 1
    BY <2>1 DEF WatchInv, DescriptorsApart, TypeOK
  <2>3. Pending' = {}
    BY <2>1, <2>2 DEF Pending
  <2>4. ReadFromFiles'
    <3>1. built' \in Seq(Config) /\ Len(built') <= MaxConfigs
      BY <1>2, <2>1, BuiltFrom DEF Read
    <3>. QED  BY <2>1, <3>1 DEF ReadFromFiles
  <2>5. DescriptorsApart'
    BY <1>4, <2>1, <2>2, <2>3 DEF WatchInv, DescriptorsApart
  <2>6. SmallAreRecent'
    <3>1. \A d \in Dirs : wdOf'[d] \notin 1..WdLimit
      BY <1>1, <2>1, <2>2, FsAssumption
    <3>. QED  BY <2>3, <3>1 DEF SmallAreRecent
  <2>7. EntriesMeanOneDir' /\ BuiltWatched'
    BY <2>1, <2>2 DEF EntriesMeanOneDir, BuiltWatched
  <2>8. TypeOK'
    BY <1>1, <1>3, <1>4, <2>1, QueueLeftAlone DEF TypeOK, Disks, Read
  <2>. QED  BY <2>4, <2>5, <2>6, <2>7, <2>8 DEF WatchInv
<1>6. ASSUME NEW refused, Rewatch(c, m, refused)
      PROVE  WorkerInv'
  <2>1. /\ nextWd + Cardinality(Dirs) <= MaxWd + 1 /\ inotify_fd' = TRUE
        /\ AddWatches(c, m, refused, kept, nextWd) /\ Enqueue(Ignored)
    BY <1>6 DEF Rewatch
  <2>2. kept \in [Dirs -> 0..MaxWd] /\ kept \in [Dirs -> Nat]
    BY <1>1, <1>2
  <2>3. \A d \in Dirs : /\ kept[d] < nextWd
                        /\ kept[d] = 0 \/ kept[d] = wdOf[d]
                        /\ d \in Removed => kept[d] = 0
    BY <1>1 DEF WatchInv, DescriptorsApart
  <2>4. \A d \in Dirs : wdOf[d] \in 1..WdLimit =>
          d \in Removed /\ nextWd <= wdOf[d] + MaxConfigs
    BY FsAssumption DEF WatchInv, SmallAreRecent, Removed
  <2>5. \A d \in Dirs : kept[d] = 0 \/ WdLimit < kept[d]
    <3> SUFFICES ASSUME NEW d \in Dirs, kept[d] # 0 PROVE WdLimit < kept[d]
      OBVIOUS
    <3>1. kept[d] = wdOf[d] /\ d \notin Removed /\ wdOf[d] \in 0..MaxWd
      BY <1>1, <2>3
    <3>. QED  BY <1>2, <2>4, <3>1, FsAssumption
  <2>6. \A a, b \in Dirs : kept[a] # 0 /\ kept[a] = kept[b] => a = b
    BY <2>3 DEF WatchInv, DescriptorsApart
  <2>7. /\ QueueOK'
        /\ \A ev \in Pending' : ev \in Pending \/ \E i \in DOMAIN Ignored : ev = Ignored[i]
        /\ \A i \in DOMAIN Ignored : \E d \in Removed : Ignored[i].wd = wdOf[d]
    BY <1>1, <2>1, IgnoredAre, Enqueued
  <2>8. phase = "down" => Pending = {} /\ Removed = {}
    BY DEF WatchInv, DescriptorsApart, Pending, Removed
  <2>9. ASSUME NEW ev \in Pending'
        PROVE  /\ ev.wd \in Nat \ {0} /\ ev.wd < nextWd
               /\ ev.wd <= WdLimit => nextWd <= ev.wd + MaxConfigs
    <3>1. CASE ev \in Pending
      <4>1. phase = "recv"
        BY <2>8, <3>1
      <4>2. ev \in InotifyEvent /\ ev # Overflow
        BY <1>1, <3>1, ElementOfSeq DEF Pending, QueueOK
      <4>3. ev.wd \in Nat
        BY <4>2 DEF InotifyEvent
      <4>. QED  BY <3>1, <4>1, <4>3 DEF WatchInv, DescriptorsApart, SmallAreRecent
    <3>2. CASE \E i \in DOMAIN Ignored : ev = Ignored[i]
      <4>1. PICK d \in Removed : ev.wd = wdOf[d]
        BY <2>7, <3>2
      <4>2. d \in Dirs /\ wdOf[d] # 0 /\ wdOf[d] \in 0..MaxWd
        BY <1>1 DEF Removed
      <4>3. wdOf[d] < nextWd
        BY <4>2 DEF WatchInv, DescriptorsApart
      <4>. QED  BY <1>2, <2>4, <4>1, <4>2, <4>3, FsAssumption
    <3>. QED  BY <2>7, <3>1, <3>2
  <2>10. phase' = "recv" => Pending' = {}
    BY <2>7, <2>8
  <2> HIDE DEF kept
  <2>11. nextWd \in Nat \ {0}
    BY <1>1, <1>2
  <2>12. WatchInv'
    BY <1>4, <2>1, <2>2, <2>3, <2>5, <2>6, <2>9, <2>10, <2>11, Rebuilt DEF Read
  <2>13. /\ watches' \subseteq [wd : Int, slot : Slots]
         /\ wdOf' \in [Dirs -> 0..MaxWd] /\ nextWd' \in 1..MaxWd + 1
    BY <2>1, <2>2, <2>3, <2>6, <2>11, AddedTyped
  <2>14. TypeOK'
    BY <1>1, <1>3, <1>4, <2>1, <2>7, <2>13 DEF TypeOK, Disks, Read
  <2>. QED  BY <2>12, <2>14
<1>. QED  BY <1>5, <1>6 DEF Rebuild

\* main: the kernel's instance is new, if there is one.
LEMMA StartWorker ==
  ASSUME WorkerInv, Start
  PROVE  WorkerInv'
<1>1. disk \in Disks /\ configs \in Read /\ faults \in 0..MaxFaults
  BY DEF WorkerInv, TypeOK, Disks, Read
<1>2. PICK c \in Read : c = Load(disk, configs)
  BY <1>1, LoadTyped
<1>3. PICK m \in 0..MaxConfigs : m = Count(disk)
  BY <1>1, LoadTyped
<1>4. \A i \in 1..m : c[i] \in Config
  BY <1>1, <1>2, <1>3, LoadTyped
<1>5. faults' \in 0..MaxFaults
  BY <1>1, FsAssumption DEF Start, Fault
<1>6. /\ configs' = c /\ config_count' = m /\ phase = "down" /\ phase' = "recv"
      /\ disk' = disk /\ dirs' = dirs /\ UNCHANGED eventVars
      /\ Rebuild(c, m, faults' # faults)
  BY <1>2, <1>3 DEF Start
<1>. QED  BY <1>1, <1>4, <1>5, <1>6, RebuildWorker

\* The process dies, idle or while it writes a file.
LEMMA DieWorker ==
  ASSUME WorkerInv, Down, disk' \in Disks
  PROVE  WorkerInv'
<1> USE DEF WorkerInv
<1>1. /\ phase' = "down" /\ configs' = [i \in Slots |-> NoConfig] /\ config_count' = 0
      /\ watches' = {} /\ inotify_fd' = FALSE /\ built' = <<>> /\ steady' = {}
      /\ wdOf' = [d \in Dirs |-> 0]
      /\ nextWd' = 1 /\ queue' = <<>> /\ ForgetEvents /\ Fault /\ dirs' = dirs
  BY DEF Down
<1>2. RingOK'
  BY <1>1, RingStep DEF TypeOK, EventsNext
<1>3. Pending' = {}
  BY <1>1 DEF Pending
<1>4. faults' \in 0..MaxFaults
  BY <1>1, FsAssumption DEF Fault, TypeOK
<1>5. QueueOK'
  <2>1. queue' = <<>> /\ QueueCap \in Nat
    BY <1>1, FsAssumption
  <2>2. ~Noted'
    BY <2>1 DEF Noted
  <2>. QED  BY <2>1, <2>2 DEF QueueOK
<1>6. nextWd' \in 1..MaxWd + 1 /\ wdOf' \in [Dirs -> 0..MaxWd]
  BY <1>1, FsAssumption
<1>7. TypeOK'
  <2>1. /\ disk' \in [Files -> {"absent", "torn", "on", "off"}]
        /\ configs' \in [Slots -> Config \cup {NoConfig}] /\ config_count' \in 0..MaxConfigs
        /\ watches' \subseteq [wd : Int, slot : Slots]
        /\ phase' \in {"down", "recv", "poll"}
    BY <1>1, FsAssumption DEF Disks
  <2>2. inotify_fd' \in BOOLEAN /\ dirs' \subseteq Dirs
    BY <1>1 DEF TypeOK
  <2>. QED  BY <1>2, <1>4, <1>5, <1>6, <2>1, <2>2, Zenon DEF TypeOK
<1>8. WatchInv'
  BY <1>1, <1>3, FsAssumption DEF WatchInv, ReadFromFiles, DescriptorsApart, SmallAreRecent,
     EntriesMeanOneDir, BuiltWatched
<1>. QED  BY <1>7, <1>8

\* fs start and fs stop.
LEMMA SwitchWorker ==
  ASSUME WorkerInv, NEW f \in Files, NEW status \in BOOLEAN, Switch(f, status)
  PROVE  WorkerInv'
<1> DEFINE read == Load(disk, configs)
           slot == CHOOSE i \in 1..Count(disk) : read[i].file = f
           cfgs == Load(disk', [read EXCEPT ![slot].on = status])
           n == Count(disk')
<1>1. disk \in Disks /\ configs \in Read /\ faults \in 0..MaxFaults /\ MaxConfigs \in Nat
  BY FsAssumption DEF WorkerInv, TypeOK, Disks, Read
<1>2. /\ phase = "recv" /\ phase' = "poll" /\ \E i \in 1..Count(disk) : read[i].file = f
      /\ configs' = cfgs /\ config_count' = n
      /\ Rebuild(configs', config_count', faults' # faults)
      /\ dirs' = dirs /\ UNCHANGED eventVars
  BY DEF Switch
<1>3. /\ disk' \in {disk, [disk EXCEPT ![f] = "on"], [disk EXCEPT ![f] = "off"],
                    [disk EXCEPT ![f] = "torn"]}
      /\ UNCHANGED faults \/ Fault
  BY DEF Switch
<1>4. disk' \in Disks
  BY <1>1, <1>3 DEF Disks
<1>5. faults' \in 0..MaxFaults
  BY <1>1, <1>3, FsAssumption DEF Fault
<1>6. [read EXCEPT ![slot].on = status] \in Read
  <2>1. read \in Read /\ Count(disk) \in 0..MaxConfigs /\ \A i \in 1..Count(disk) : read[i] \in Config
    BY <1>1, LoadTyped
  <2> HIDE DEF read
  <2>2. slot \in 1..Count(disk)
    BY <1>2
  <2>3. slot \in Slots /\ read[slot] \in Config
    BY <1>1, <2>1, <2>2 DEF Slots
  <2> HIDE DEF slot
  <2>4. [read[slot] EXCEPT !.on = status] \in Config
    BY <2>3 DEF Config
  <2>. QED  BY <2>1, <2>3, <2>4 DEF Read
<1>7. cfgs \in Read /\ n \in 0..MaxConfigs /\ \A i \in 1..n : cfgs[i] \in Config
  <2> HIDE DEF read, slot
  <2>. QED  BY <1>4, <1>6, LoadTyped
<1> HIDE DEF cfgs, n
<1>8. PICK c \in Read : c = configs'
  BY <1>2, <1>7
<1>9. PICK m \in 0..MaxConfigs : m = config_count'
  BY <1>2, <1>7
<1>10. \A i \in 1..m : c[i] \in Config
  BY <1>2, <1>7, <1>8, <1>9
<1>11. Rebuild(c, m, faults' # faults)
  BY <1>2, <1>8, <1>9, Zenon
<1>. QED  BY <1>2, <1>4, <1>5, <1>8, <1>9, <1>10, <1>11, RebuildWorker

\* The worker goes on to the poll, having read its configurations or not.
LEMMA ReloadWorker ==
  ASSUME WorkerInv, NoCommand \/ Reload \/ PollDone
  PROVE  WorkerInv'
<1> USE DEF WorkerInv
<1>1. disk \in Disks /\ configs \in Read /\ RingOK
  BY DEF TypeOK, Disks, Read
<1>2. /\ UNCHANGED <<watches, inotify_fd, wdOf, nextWd, built, steady, queue, dirs, disk, faults,
                     eventVars>>
      /\ phase' = "poll" \/ (phase' = "recv" /\ queue = <<>>)
  BY DEF NoCommand, Reload, PollDone, watchVars
<1>3. Pending' \subseteq Pending /\ (phase' = "recv" => Pending' = {})
  BY <1>2 DEF Pending
<1>4. /\ configs' \in Read /\ config_count' \in 0..MaxConfigs
      /\ \A i \in 1..config_count' : configs'[i] \in Config
  <2>1. CASE UNCHANGED configVars
    BY <1>1, <2>1 DEF configVars, TypeOK, WatchInv, ReadFromFiles
  <2>2. CASE Reload
    BY <1>1, <2>2, LoadTyped DEF Reload
  <2>. QED  BY <2>1, <2>2 DEF NoCommand, PollDone
<1>5. WatchInv'
  BY <1>2, <1>3, <1>4, WatchesLeftAlone
<1>6. RingOK'
  BY <1>1, <1>2 DEF RingOK, eventVars
<1>7. TypeOK'
  BY <1>2, <1>4, <1>6, QueueLeftAlone DEF TypeOK, Read
<1>. QED  BY <1>5, <1>7

\* What record_event stores for an event.
LEMMA RecordIs ==
  ASSUME TypeOK, NEW ev \in InotifyEvent, Matching(ev) # {}
  PROVE  RecordOf(ev) \in Records
<1>1. FirstMatch(ev).slot \in Slots
  BY FirstMatchIs DEF TypeOK
<1>2. configs[FirstMatch(ev).slot] \in Config \cup {NoConfig} /\ ev.op \in {"change", "event"}
  BY <1>1 DEF TypeOK, InotifyEvent, Overflow
<1>. QED  BY <1>2, FsAssumption DEF RecordOf, FsRecords

LEMMA HandleWorker ==
  ASSUME WorkerInv, HandleEvent
  PROVE  WorkerInv'
<1> USE DEF WorkerInv
<1>1. /\ UNCHANGED <<watches, inotify_fd, wdOf, nextWd, built, steady, configs, config_count,
                     dirs, disk, phase, faults>>
      /\ phase = "poll" /\ queue # <<>> /\ queue' = Tail(queue)
  BY DEF HandleEvent, watchVars, configVars
<1>2. QueueOK
  BY DEF TypeOK
<1>3. QueueOK' /\ Pending' \subseteq Pending /\ Head(queue) \in InotifyEvent
  BY <1>1, <1>2, Dequeued
<1>4. WatchInv'
  <2>1. \A i \in 1..config_count' : configs'[i] \in Config
    BY <1>1 DEF WatchInv, ReadFromFiles
  <2>. QED  BY <1>1, <1>3, <2>1, WatchesLeftAlone
<1>5. [EventsNext]_eventVars
  <2>1. CASE Matching(Head(queue)) # {}
    <3>1. RecordEvent(RecordOf(Head(queue))) /\ RecordOf(Head(queue)) \in Records
      BY <1>3, <2>1, RecordIs DEF HandleEvent
    <3>. QED  BY <3>1 DEF EventsNext
  <2>2. CASE Matching(Head(queue)) = {}
    BY <2>2 DEF HandleEvent
  <2>. QED  BY <2>1, <2>2
<1>6. RingOK'
  BY <1>5, RingStep DEF TypeOK
<1>7. TypeOK'
  BY <1>1, <1>3, <1>6 DEF TypeOK
<1>. QED  BY <1>4, <1>7

\* Something happens in a directory, or it comes or goes, with its watch or
\* without: events of that directory are queued while the descriptor is its own.
LEMMA DirectoryWorker ==
  ASSUME WorkerInv, NEW d \in Dirs, FileChange(d) \/ RemoveDir(d) \/ RenameDir(d) \/ MakeDir(d)
  PROVE  WorkerInv'
<1> USE DEF WorkerInv
<1>1. /\ UNCHANGED <<watches, inotify_fd, nextWd, built, configs, config_count, disk, phase,
                     eventVars>>
      /\ \/ dirs' = dirs /\ steady' = steady /\ wdOf' = wdOf
         \/ dirs' = dirs \cup {d} /\ steady' = steady /\ wdOf' = wdOf
         \/ dirs' = dirs \ {d} /\ steady' = steady \ {d} /\ wdOf' = wdOf
         \/ dirs' = dirs \ {d} /\ steady' = steady \ {d} /\ wdOf' = [wdOf EXCEPT ![d] = 0]
      /\ UNCHANGED faults \/ Fault
  BY DEF FileChange, RemoveDir, RenameDir, MakeDir, watchVars, configVars
<1>2. /\ wdOf \in [Dirs -> 0..MaxWd] /\ nextWd \in 1..MaxWd + 1 /\ QueueOK
      /\ faults \in 0..MaxFaults /\ MaxWd \in Nat
      /\ steady \subseteq dirs /\ dirs \subseteq Dirs /\ MaxConfigs \in Nat /\ WdLimit \in Nat
  BY FsAssumption DEF TypeOK, WatchInv, ReadFromFiles
<1>3. wdOf' \in [Dirs -> 0..MaxWd] /\ \A c \in Dirs : wdOf'[c] \in {0, wdOf[c]} /\ (c # d => wdOf'[c] = wdOf[c])
  BY <1>1, <1>2
<1>4. /\ QueueOK' /\ (wdOf[d] = 0 => queue' = queue)
      /\ \A ev \in Pending' : ev \in Pending \/ (ev.wd = wdOf[d] /\ ev.dir = d /\ wdOf[d] # 0)
  <2>1. CASE wdOf[d] = 0
    <3>1. queue' = queue
      BY <2>1 DEF FileChange, RemoveDir, RenameDir, MakeDir
    <3>. QED  BY <1>2, <3>1, QueueLeftAlone
  <2>2. CASE wdOf[d] # 0
    <3>1. PICK es \in {<<Change(d)>>, <<Change(d), [Change(d) EXCEPT !.op = "event"]>>} : Enqueue(es)
      BY <2>2 DEF FileChange, RemoveDir, RenameDir, MakeDir
    <3>2. /\ Change(d) \in InotifyEvent /\ [Change(d) EXCEPT !.op = "event"] \in InotifyEvent
          /\ Change(d).wd = wdOf[d] /\ Change(d).dir = d
          /\ [Change(d) EXCEPT !.op = "event"].wd = wdOf[d]
          /\ [Change(d) EXCEPT !.op = "event"].dir = d
      BY <1>2 DEF Change, InotifyEvent
    <3> DEFINE c == Change(d)
               g == [Change(d) EXCEPT !.op = "event"]
    <3> HIDE DEF c, g
    <3>3. es \in Seq(InotifyEvent) /\ \A i \in DOMAIN es : es[i] \in {c, g}
      <4>1. c \in InotifyEvent /\ g \in InotifyEvent /\ es \in {<<c>>, <<c, g>>}
        BY <3>1, <3>2 DEF c, g
      <4>2. CASE es = <<c>>
        BY <4>1, <4>2
      <4>3. CASE es = <<c, g>>
        BY <4>1, <4>3
      <4>. QED  BY <4>1, <4>2, <4>3
    <3>4. c.wd = wdOf[d] /\ c.dir = d /\ g.wd = wdOf[d] /\ g.dir = d
      BY <3>2 DEF c, g
    <3>. QED  BY <1>2, <2>2, <3>1, <3>3, <3>4, Enqueued
  <2>. QED  BY <2>1, <2>2
<1>5. wdOf[d] < nextWd /\ wdOf[d] \in 0..MaxWd
  BY <1>2 DEF WatchInv, DescriptorsApart
<1>6. ReadFromFiles'
  BY <1>1, <1>2 DEF WatchInv, ReadFromFiles
<1>7. DescriptorsApart'
  <2>1. \A c \in Dirs : wdOf'[c] < nextWd'
    BY <1>1, <1>2, <1>3 DEF WatchInv, DescriptorsApart
  <2>2. \A b, c \in Dirs : wdOf'[b] # 0 /\ wdOf'[b] = wdOf'[c] => b = c
    BY <1>3 DEF WatchInv, DescriptorsApart
  <2>3. \A ev \in Pending' : 0 < ev.wd /\ ev.wd < nextWd'
    BY <1>1, <1>4, <1>5 DEF WatchInv, DescriptorsApart
  <2>4. ~inotify_fd => nextWd = 1 /\ queue' = <<>> /\ watches = {}
    <3> SUFFICES ASSUME ~inotify_fd PROVE nextWd = 1 /\ queue' = <<>> /\ watches = {}
      OBVIOUS
    <3>1. nextWd = 1 /\ queue = <<>> /\ watches = {}
      BY DEF WatchInv, DescriptorsApart
    <3>2. wdOf[d] = 0
      BY <1>2, <1>5, <3>1
    <3>. QED  BY <1>4, <3>1, <3>2
  <2>5. phase = "down" => ~inotify_fd
    BY DEF WatchInv, DescriptorsApart
  <2>. QED  BY <1>1, <2>1, <2>2, <2>3, <2>4, <2>5 DEF DescriptorsApart
<1>8. SmallAreRecent'
  <2>1. ASSUME NEW c \in Dirs, wdOf'[c] \in 1..WdLimit
        PROVE  nextWd <= wdOf'[c] + MaxConfigs /\ \E w \in watches : w.wd = wdOf'[c]
    <3>1. wdOf'[c] = wdOf[c]
      BY <1>2, <1>3, <2>1
    <3>. QED  BY <2>1, <3>1 DEF WatchInv, SmallAreRecent
  <2>2. ASSUME phase = "recv", NEW ev \in Pending', ev.wd <= WdLimit
        PROVE  nextWd <= ev.wd + MaxConfigs
    <3>1. CASE ev \in Pending
      BY <2>2, <3>1 DEF WatchInv, SmallAreRecent
    <3>2. CASE ev.wd = wdOf[d] /\ wdOf[d] # 0
      <4>1. wdOf[d] \in 1..WdLimit
        BY <1>2, <1>5, <2>2, <3>2
      <4>. QED  BY <3>2, <4>1 DEF WatchInv, SmallAreRecent
    <3>. QED  BY <1>4, <3>1, <3>2
  <2>. QED  BY <1>1, <2>1, <2>2 DEF SmallAreRecent
<1>9. EntriesMeanOneDir'
  <2> SUFFICES ASSUME NEW w \in watches
      PROVE  /\ w.slot <= Len(built) /\ built[w.slot].on
             /\ \A c \in Dirs :
                  wdOf'[c] # 0 /\ wdOf'[c] = w.wd => c = PathOf[built[w.slot].file]
             /\ \A ev \in Pending' : ev.wd = w.wd => ev.dir = PathOf[built[w.slot].file]
    BY <1>1 DEF EntriesMeanOneDir
  <2>1. /\ w.slot <= Len(built) /\ built[w.slot].on
        /\ \A c \in Dirs : wdOf[c] # 0 /\ wdOf[c] = w.wd => c = PathOf[built[w.slot].file]
        /\ \A ev \in Pending : ev.wd = w.wd => ev.dir = PathOf[built[w.slot].file]
    BY DEF WatchInv, EntriesMeanOneDir
  <2>2. \A c \in Dirs : wdOf'[c] # 0 /\ wdOf'[c] = w.wd => c = PathOf[built[w.slot].file]
    BY <1>3, <2>1
  <2>3. \A ev \in Pending' : ev.wd = w.wd => ev.dir = PathOf[built[w.slot].file]
    BY <1>4, <2>1
  <2>. QED  BY <2>1, <2>2, <2>3
<1>10. BuiltWatched'
  <2> SUFFICES ASSUME inotify_fd, NEW i \in DOMAIN built, built[i].on,
                      PathOf[built[i].file] \in steady'
      PROVE  wdOf'[PathOf[built[i].file]] # 0
    BY <1>1 DEF BuiltWatched
  <2>1. PathOf[built[i].file] \in steady /\ steady \subseteq Dirs
    BY <1>1, <1>2 DEF TypeOK
  <2>2. wdOf[PathOf[built[i].file]] # 0
    BY <2>1 DEF WatchInv, BuiltWatched
  <2>3. wdOf'[PathOf[built[i].file]] = wdOf[PathOf[built[i].file]]
    BY <1>1, <1>3, <2>1
  <2>. QED  BY <2>2, <2>3
<1>11. RingOK'
  BY <1>1 DEF TypeOK, RingOK, eventVars
<1>12. faults' \in 0..MaxFaults
  BY <1>1, <1>2, FsAssumption DEF Fault
<1>13. TypeOK'
  BY <1>1, <1>3, <1>4, <1>11, <1>12 DEF TypeOK
<1>. QED  BY <1>6, <1>7, <1>8, <1>9, <1>10, <1>13 DEF WatchInv

\* Somebody changes a configuration file: the worker and its watches do not
\* notice.
LEMMA EditWorker ==
  ASSUME WorkerInv, NEW f \in Files, Edit(f)
  PROVE  WorkerInv'
<1> USE DEF WorkerInv
<1>1. /\ UNCHANGED <<watches, inotify_fd, wdOf, nextWd, built, steady, configs, config_count,
                     queue, dirs, phase, eventVars>>
      /\ Fault
  BY DEF Edit, watchVars, configVars
<1>2. disk' \in Disks
  <2>1. disk \in Disks
    BY DEF TypeOK, Disks
  <2>. QED  BY <2>1 DEF Edit, Disks
<1>3. Pending' \subseteq Pending
  BY <1>1 DEF Pending
<1>4. WatchInv'
  <2>1. \A i \in 1..config_count' : configs'[i] \in Config
    BY <1>1 DEF WatchInv, ReadFromFiles
  <2>. QED  BY <1>1, <1>3, <2>1, WatchesLeftAlone
<1>5. RingOK' /\ faults' \in 0..MaxFaults
  BY <1>1, FsAssumption DEF TypeOK, RingOK, eventVars, Fault
<1>6. TypeOK'
  BY <1>1, <1>2, <1>5, QueueLeftAlone DEF TypeOK, Disks
<1>. QED  BY <1>4, <1>6

LEMMA WorkerStep == WorkerInv /\ [Next]_vars => WorkerInv'
<1> SUFFICES ASSUME WorkerInv, [Next]_vars PROVE WorkerInv'
  OBVIOUS
<1>1. CASE Start
  BY <1>1, StartWorker
<1>2. CASE NoCommand \/ Reload \/ PollDone
  BY <1>2, ReloadWorker
<1>3. ASSUME NEW f \in Files, NEW status \in BOOLEAN, Switch(f, status)
      PROVE  WorkerInv'
  BY <1>3, SwitchWorker
<1>4. CASE HandleEvent
  BY <1>4, HandleWorker
<1>5. CASE Die
  BY <1>5, DieWorker DEF Die, WorkerInv, TypeOK, Disks
<1>6. ASSUME NEW f \in Files, DieWriting(f)
      PROVE  WorkerInv'
  <2>1. disk' \in Disks /\ Down
    BY <1>6 DEF DieWriting, WorkerInv, TypeOK, Disks
  <2>. QED  BY <2>1, DieWorker
<1>7. ASSUME NEW d \in Dirs, FileChange(d) \/ RemoveDir(d) \/ RenameDir(d) \/ MakeDir(d)
      PROVE  WorkerInv'
  BY <1>7, DirectoryWorker
<1>8. ASSUME NEW f \in Files, Edit(f)
      PROVE  WorkerInv'
  BY <1>8, EditWorker
<1>9. CASE UNCHANGED vars
  <2>1. /\ UNCHANGED <<disk, configs, config_count, watches, inotify_fd, wdOf, nextWd, queue,
                       dirs, phase, built, steady, faults>>
        /\ UNCHANGED <<events, event_count, event_cursor>>
    BY <1>9 DEF vars
  <2>. QED  BY <2>1 DEF WorkerInv, TypeOK, QueueOK, Noted, RingOK, WatchInv, ReadFromFiles, DescriptorsApart,
                 SmallAreRecent, EntriesMeanOneDir, BuiltWatched, Pending
<1>. QED  BY <1>1, <1>2, <1>3, <1>4, <1>5, <1>6, <1>7, <1>8, <1>9 DEF Next, Worker

LEMMA WorkerInvariant == Spec => []WorkerInv
BY InitWorker, WorkerStep, PTL DEF Spec
-----------------------------------------------------------------------------
(* The theorems.                                                            *)

\* The variables of the fs worker and of its kernel instance keep their types,
\* the queue its capacity and the event ring its shape (fs.c).
THEOREM TypeCorrect == Spec => []TypeOK
BY WorkerInvariant, PTL DEF WorkerInv

\* Whatever configurations are read, started, stopped and lost, a directory of
\* one that is on is watched, as long as the worker has an inotify instance and
\* knows the configurations it built its watches for, unless the kernel refused
\* that very directory; and its events match an entry of watch_config unless the
\* descriptor is too large to be packed (ensure_inotify, rebuild_watches).
THEOREM DirectoriesAreWatched == Spec => []OnIsWatched
<1>1. ASSUME WorkerInv PROVE OnIsWatched
  <2> SUFFICES ASSUME inotify_fd, Loaded = built, NEW i \in 1..config_count, configs[i].on,
                      PathOf[configs[i].file] \in steady
               PROVE  LET d == PathOf[configs[i].file]
                      IN  /\ wdOf[d] # 0
                          /\ wdOf[d] <= WdLimit => \E w \in watches : w.wd = wdOf[d]
    BY DEF OnIsWatched
  <2> DEFINE d == PathOf[configs[i].file]
  <2>1. config_count \in 0..MaxConfigs /\ MaxConfigs \in Nat
    BY <1>1, FsAssumption DEF WorkerInv, TypeOK
  <2>2. i \in DOMAIN built /\ built[i] = configs[i]
    BY <2>1 DEF Loaded
  <2>3. d \in Dirs /\ wdOf[d] \in 0..MaxWd
    BY <1>1 DEF WorkerInv, TypeOK, WatchInv, ReadFromFiles
  <2>4. wdOf[d] # 0
    BY <1>1, <2>2 DEF WorkerInv, WatchInv, BuiltWatched
  <2>5. wdOf[d] <= WdLimit => wdOf[d] \in 1..WdLimit
    BY <2>3, <2>4, FsAssumption
  <2>. QED  BY <1>1, <2>3, <2>4, <2>5 DEF WorkerInv, WatchInv, SmallAreRecent
<1>. QED  BY <1>1, WorkerInvariant, PTL

\* An event is recorded for a configuration that is on and of the directory it
\* happened in, as long as the worker knows the configurations it built its
\* watches for: no event of an older watch, and no descriptor too large to be
\* packed, is taken for one of another directory (monitor_once, rebuild_watches).
THEOREM EventsAreAttributed == Spec => RightlyAttributed
<1> DEFINE Right ==
             HandleEvent /\ Head(queue) # Overflow /\ Matching(Head(queue)) # {}
                         /\ Loaded = built =>
               LET c == RecordOf(Head(queue)).config
               IN  c.on /\ PathOf[c.file] = Head(queue).dir
<1>1. ASSUME WorkerInv, HandleEvent, Head(queue) # Overflow, Matching(Head(queue)) # {},
             Loaded = built
      PROVE  /\ RecordOf(Head(queue)).config.on
             /\ PathOf[RecordOf(Head(queue)).config.file] = Head(queue).dir
  <2> DEFINE ev == Head(queue)
             w == FirstMatch(ev)
  <2>1. w \in watches /\ w.wd = ev.wd /\ w.slot \in Slots
    BY <1>1, FirstMatchIs DEF WorkerInv, TypeOK
  <2>2. ev \in Pending
    BY <1>1, Dequeued DEF WorkerInv, TypeOK, HandleEvent
  <2> HIDE DEF ev, w
  <2>3. /\ w.slot <= Len(built) /\ built[w.slot].on
        /\ ev.dir = PathOf[built[w.slot].file]
    BY <1>1, <2>1, <2>2 DEF WorkerInv, WatchInv, EntriesMeanOneDir
  <2>4. config_count \in 0..MaxConfigs /\ MaxConfigs \in Nat
    BY <1>1, FsAssumption DEF WorkerInv, TypeOK
  <2>5. w.slot \in 1..config_count /\ built[w.slot] = configs[w.slot]
    BY <1>1, <2>1, <2>3, <2>4 DEF Loaded, Slots
  <2>6. RecordOf(ev).config = configs[w.slot]
    BY DEF RecordOf, w
  <2>. QED  BY <2>3, <2>5, <2>6 DEF ev
<1>2. WorkerInv /\ [Next]_vars => [Right]_vars
  BY <1>1
<1>. QED  BY <1>2, WorkerInvariant, PTL DEF Spec, RightlyAttributed

\* The cache of the worker is the ring of FsEvents, so fs list events shows the
\* latest events recorded, in their order (monitor_once, record_event,
\* list_events).
THEOREM ListsRecorded == Spec => ListsRecentEvents
<1>1. Init => EventsInit
  BY DEF Init
<1>2. ASSUME WorkerInv, [Next]_vars PROVE [EventsNext]_eventVars
  <2>1. CASE UNCHANGED vars
    BY <2>1 DEF vars, eventVars
  <2>2. CASE HandleEvent
    <3>1. CASE Matching(Head(queue)) # {}
      <4>1. Head(queue) \in InotifyEvent
        BY <1>2, <2>2, Dequeued DEF HandleEvent, WorkerInv, TypeOK
      <4>2. RecordEvent(RecordOf(Head(queue))) /\ RecordOf(Head(queue)) \in Records
        BY <1>2, <2>2, <3>1, <4>1, RecordIs DEF HandleEvent, WorkerInv
      <4>. QED  BY <4>2 DEF EventsNext
    <3>2. CASE Matching(Head(queue)) = {}
      BY <2>2, <3>2 DEF HandleEvent
    <3>. QED  BY <3>1, <3>2
  <2>3. CASE Die \/ \E f \in Files : DieWriting(f)
    BY <2>3 DEF Die, DieWriting, Down, EventsNext
  <2>4. CASE Start \/ NoCommand \/ Reload \/ PollDone
    BY <2>4 DEF Start, NoCommand, Reload, PollDone
  <2>5. CASE \E f \in Files, status \in BOOLEAN : Switch(f, status)
    BY <2>5 DEF Switch
  <2>6. CASE \E f \in Files : Edit(f)
    BY <2>6 DEF Edit
  <2>7. CASE \E d \in Dirs : FileChange(d) \/ RemoveDir(d) \/ RenameDir(d) \/ MakeDir(d)
    BY <2>7 DEF FileChange, RemoveDir, RenameDir, MakeDir
  <2>. QED  BY <1>2, <2>1, <2>2, <2>3, <2>4, <2>5, <2>6, <2>7 DEF Next, Worker
<1>3. Spec => EventsSpec
  BY <1>1, <1>2, WorkerInvariant, PTL DEF Spec, EventsSpec
<1>. QED  BY <1>3, ListsLatest
=============================================================================
