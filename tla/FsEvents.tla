------------------------------ MODULE FsEvents ------------------------------
(***************************************************************************)
(* The event cache of the fs worker (fs.c: record_event, list_events): an   *)
(* array used as a ring, with a count of its elements and a cursor to the   *)
(* oldest one.                                                              *)
(***************************************************************************)
EXTENDS Naturals, Sequences

CONSTANTS
  MaxEvents,  \* MAX_EVENTS, the length of the array
  Records,    \* what an element of the array holds
  NoRecord    \* what it holds before it is first filled

ASSUME EventsAssumption == MaxEvents \in Nat \ {0} /\ NoRecord \notin Records

VARIABLES
  events,       \* events[MAX_EVENTS]
  event_count,
  event_cursor

eventVars == <<events, event_count, event_cursor>>

EventsInit ==
  /\ events = [i \in 0..MaxEvents - 1 |-> NoRecord]
  /\ event_count = 0
  /\ event_cursor = 0

Full == event_count = MaxEvents

\* Mutant: the cursor is not moved past the element that is overwritten.
RecordWithoutMoving(e) ==
  /\ events' = [events EXCEPT ![(event_cursor + event_count) % MaxEvents] = e]
  /\ event_count' = IF Full THEN event_count ELSE event_count + 1
  /\ UNCHANGED event_cursor

\* Mutant: the ring is taken to be full one element too late.
RecordOneMore(e) ==
  /\ events' = [events EXCEPT ![(event_cursor + event_count) % MaxEvents] = e]
  /\ event_count' = IF event_count > MaxEvents THEN event_count ELSE event_count + 1
  /\ event_cursor' = IF event_count > MaxEvents
                     THEN (event_cursor + 1) % MaxEvents ELSE event_cursor

\* record_event: into the next free element, or over the oldest one.
RecordEvent(e) ==
  \/ /\ ~Full
     /\ events' = [events EXCEPT ![(event_cursor + event_count) % MaxEvents] = e]
     /\ event_count' = event_count + 1
     /\ UNCHANGED event_cursor
  \/ /\ Full
     /\ events' = [events EXCEPT ![event_cursor] = e]
     /\ event_cursor' = (event_cursor + 1) % MaxEvents
     /\ UNCHANGED event_count

\* The service is restarted: the arrays are zero again.
ForgetEvents ==
  /\ events' = [i \in 0..MaxEvents - 1 |-> NoRecord]
  /\ event_count' = 0
  /\ event_cursor' = 0

EventsNext == ForgetEvents \/ \E e \in Records : RecordEvent(e)

EventsSpec == EventsInit /\ [][EventsNext]_eventVars
-----------------------------------------------------------------------------
\* The elements of the ring are records from the cursor on, as many as counted.
RingOK ==
  /\ events \in [0..MaxEvents - 1 -> Records \cup {NoRecord}]
  /\ event_count \in 0..MaxEvents
  /\ event_cursor \in 0..MaxEvents - 1
  /\ \A i \in 0..MaxEvents - 1 :
       i < event_count => events[(event_cursor + i) % MaxEvents] \in Records

\* list_events: the lines of the listing, in their order.
Listed == [i \in 1..event_count |-> events[(event_cursor + i - 1) % MaxEvents]]

Recent == INSTANCE RecentEvents WITH recent <- Listed

\* fs list events shows the latest events in the order they were recorded,
\* however often the ring has wrapped around (record_event, list_events).
ListsRecentEvents == Recent!Spec
=============================================================================
