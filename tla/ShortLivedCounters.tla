------------------------ MODULE ShortLivedCounters ------------------------
(***************************************************************************)
(* The table of short-lived process counters of the proc worker            *)
(* (proc.c: find_short_lived_counter, alloc_short_lived_counter_slot,      *)
(* record_short_lived_process) as operators on a counter table.  A counter *)
(* counts the short-lived exits of one command name in a window that       *)
(* starts at the first of them and restarts once it is too old.            *)
(***************************************************************************)
EXTENDS Naturals, FiniteSetsExt

CONSTANTS
  MaxTracked,       \* MAX_TRACKED_PROCS, the length of both tables
  BurstWindow,      \* SHORT_LIVED_BURST_WINDOW_SECONDS
  CountCap          \* bound on a counter (an int in the code)

ASSUME TableAssumption ==
  /\ MaxTracked \in Nat \ {0}
  /\ BurstWindow \in Nat
  /\ CountCap \in Nat

Slots == 1..MaxTracked

\* The lowest index of S: the first hit of a loop over the table.
First(S) == Min(S)

\* A zero-initialised counter; its fields are not read while it is inactive.
NoCounter == [active |-> FALSE]

\* The contents of a counter slot, for command names in names.
Counter(names) ==
  {NoCounter} \cup [active : {TRUE}, comm : names, start : Nat, count : 0..CountCap]

CounterOf(counters, comm) ==
  {i \in Slots : counters[i].active /\ counters[i].comm = comm}

FreeCounters(counters) == {i \in Slots : ~counters[i].active}

OldestCounters(counters) ==
  {i \in Slots : \A j \in Slots : counters[i].start <= counters[j].start}

\* The first inactive slot, else the first one with the oldest window.
AllocCounter(counters) ==
  IF FreeCounters(counters) # {}
  THEN First(FreeCounters(counters))
  ELSE First(OldestCounters(counters))

FreshCounter(comm, now) ==
  [active |-> TRUE, comm |-> comm, start |-> now, count |-> 0]

\* Mutant: every exit gets a slot of its own.
CounterSlotWithoutLookup(counters, comm) == AllocCounter(counters)

CounterSlot(counters, comm) ==
  IF CounterOf(counters, comm) # {}
  THEN First(CounterOf(counters, comm))
  ELSE AllocCounter(counters)

\* Mutant: a window that is over is restarted with the old count.
CounterAtKeepingCount(counters, comm, now) ==
  LET old == counters[First(CounterOf(counters, comm))]
  IN  IF CounterOf(counters, comm) = {}
      THEN FreshCounter(comm, now)
      ELSE [old EXCEPT !.start = IF now > @ + BurstWindow THEN now ELSE @]

\* The counter of comm, made fresh if it is new or if its window is over.
\* now - start > BurstWindow is written without subtraction on naturals.
CounterAt(counters, comm, now) ==
  LET old == counters[First(CounterOf(counters, comm))]
  IN  IF CounterOf(counters, comm) = {} \/ now > old.start + BurstWindow
      THEN FreshCounter(comm, now)
      ELSE old

\* record_short_lived_process: one more short-lived exit of comm.
Record(counters, comm, now) ==
  LET c == CounterAt(counters, comm, now)
  IN  [counters EXCEPT ![CounterSlot(counters, comm)] =
         [c EXCEPT !.count = IF @ < CountCap THEN @ + 1 ELSE @]]
===========================================================================
