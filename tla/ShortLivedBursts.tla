------------------------- MODULE ShortLivedBursts -------------------------
(***************************************************************************)
(* What the burst reports of the proc worker mean.  Each short-lived exit  *)
(* of a tracked process goes to record_short_lived_process (proc.c), which *)
(* counts it in the window of its command name and logs a burst once the   *)
(* count reaches the threshold.  The windows do not slide: the exits are   *)
(* recorded here so that reports can be compared with what really happened.*)
(***************************************************************************)
EXTENDS ShortLivedCounters, Sequences

CONSTANTS
  Comms,           \* command names
  BurstThreshold,  \* SHORT_LIVED_BURST_THRESHOLD
  MaxTime,         \* bound on time
  MaxExits         \* bound on the short-lived exits

ASSUME BurstsAssumption ==
  /\ IsFiniteSet(Comms)
  /\ BurstThreshold \in Nat \ {0, 1} /\ BurstThreshold <= CountCap
  /\ MaxTime \in Nat
  /\ MaxExits \in Nat

VARIABLES
  counters,  \* short_lived_counters
  clock,     \* time(NULL)
  exits,     \* history: the times of the short-lived exits of each name
  reports    \* history: after which of them a burst was logged, and its count

vars == <<counters, clock, exits, reports>>

Init ==
  /\ counters = [i \in Slots |-> NoCounter]
  /\ clock = 0
  /\ exits = [c \in Comms |-> <<>>]
  /\ reports = [c \in Comms |-> {}]

\* Mutant: a burst needs one exit more.
IsBurstAbove(count) == count > BurstThreshold

IsBurst(count) == count >= BurstThreshold

\* A short-lived process of name comm exits; its burst is logged.
ShortLivedExit(comm) ==
  LET updated == Record(counters, comm, clock)
      count == updated[First(CounterOf(updated, comm))].count
  IN  /\ SumFunction([c \in Comms |-> Len(exits[c])]) < MaxExits
      /\ counters' = updated
      /\ exits' = [exits EXCEPT ![comm] = Append(@, clock)]
      /\ reports' = [reports EXCEPT ![comm] = @ \cup
           IF IsBurst(count) THEN {[nth |-> Len(exits[comm]) + 1, count |-> count]} ELSE {}]
      /\ UNCHANGED clock

Tick ==
  /\ clock < MaxTime
  /\ clock' = clock + 1
  /\ UNCHANGED <<counters, exits, reports>>

Next == Tick \/ \E c \in Comms : ShortLivedExit(c)

Spec == Init /\ [][Next]_vars
----------------------------------------------------------------------------
\* The table holds at most one counter for each name, which has counted at
\* least the exit it was made for.
TypeOK ==
  /\ counters \in [Slots -> Counter(Comms)]
  /\ \A i \in Slots : counters[i].active => counters[i].count > 0 /\ counters[i].start <= clock
  /\ \A c \in Comms : Cardinality(CounterOf(counters, c)) <= 1
  /\ clock \in 0..MaxTime
  /\ exits \in [Comms -> Seq(0..MaxTime)]
  /\ reports \in [Comms -> SUBSET [nth : Nat, count : Nat]]

\* A burst that is logged happened: as many exits of that name as the report
\* says lie within the last BurstWindow seconds, however windows restart and
\* counters are given away and come back.
BurstsAreReal ==
  \A c \in Comms : \A r \in reports[c] :
    /\ BurstThreshold <= r.count /\ r.count <= r.nth
    /\ exits[c][r.nth] <= exits[c][r.nth + 1 - r.count] + BurstWindow

\* More names than there are counters have short-lived exits within a window
\* that ends at t.
Crowded(t) ==
  Cardinality({c \in Comms : \E i \in 1..Len(exits[c]) :
                 exits[c][i] <= t /\ t <= exits[c][i] + BurstWindow}) > MaxTracked

\* Windows start at an exit and do not slide, so a burst across the border of
\* two of them is missed, but not one of nearly twice the threshold: among
\* 2 * BurstThreshold - 2 exits of a name within BurstWindow seconds there is
\* one that is reported, unless more names than counters have exits at a time.
DenseBurstsReported ==
  \A c \in Comms : \A i, j \in 1..Len(exits[c]) :
    /\ j + 1 = i + (2 * BurstThreshold - 2)
    /\ exits[c][j] <= exits[c][i] + BurstWindow
    /\ \A t \in exits[c][i] .. exits[c][j] : ~Crowded(t)
    => \E r \in reports[c] : i <= r.nth /\ r.nth <= j
----------------------------------------------------------------------------
(* Why DenseBurstsReported holds.                                          *)

Reported(c, first, last) == \E r \in reports[c] : first <= r.nth /\ r.nth <= last

\* A counter in whose window an exit of c would be counted now.
Open(i, c) ==
  counters[i].active /\ counters[i].comm = c /\ clock <= counters[i].start + BurstWindow

ExitsArePast == \A c \in Comms : \A k \in 1..Len(exits[c]) : exits[c][k] <= clock

\* A window starts at an exit of its name.
StartsAreExits ==
  \A i \in Slots : counters[i].active =>
    \E k \in 1..Len(exits[counters[i].comm]) : exits[counters[i].comm][k] = counters[i].start

\* The exits of c from the first one on lie within a window's length, and no
\* more names than counters had exits meanwhile.
Calm(c, first) ==
  /\ clock <= exits[c][first] + BurstWindow
  /\ \A t \in exits[c][first] .. clock : ~Crowded(t)

\* One of them was reported.  Or they are all counted in one window, with an
\* earlier one; or those before its start are too few for a burst even with that
\* earlier one; or there is no window now, and this is true of them all.
Accounted(c, first) ==
  \/ Reported(c, first, Len(exits[c]))
  \/ \E i \in Slots :
       /\ Open(i, c) /\ counters[i].count < BurstThreshold
       /\ \/ counters[i].count + first >= Len(exits[c]) + 2
          \/ /\ counters[i].start >= exits[c][first]
             /\ counters[i].count + BurstThreshold + first >= Len(exits[c]) + 3
  \/ /\ \A i \in Slots : ~Open(i, c)
     /\ BurstThreshold + first >= Len(exits[c]) + 3

BurstsCounted ==
  \A c \in Comms : \A first \in 1..Len(exits[c]) : Calm(c, first) => Accounted(c, first)
============================================================================
