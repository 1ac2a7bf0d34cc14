---------------------------- MODULE ProcTracker ----------------------------
(***************************************************************************)
(* Tracking of configured processes.  Kernel tasks fork, exec and exit; the *)
(* BPF programs (proc.bpf.c) put one event for each into a bounded ring     *)
(* buffer; the proc worker (proc.c) alternates between one command of its   *)
(* queue and draining the ring, and keeps a table of tracked processes and  *)
(* a table of short-lived counters.                                         *)
(***************************************************************************)
EXTENDS ShortLivedCounters, Sequences

CONSTANTS
  Pids,               \* the pid space (thread ids and process ids share it)
  NoPid,              \* a pid outside Pids: a parent that is not modelled
  Progs,              \* program names
  NoProg,             \* the program of a task that never executed one of Progs
  Configs,            \* process configurations
  NameOf,             \* the NAME of each configuration
  RingCap,            \* events the ring buffer holds
  ShortLivedSeconds,  \* SHORT_LIVED_PROC_SECONDS
  MaxClock,           \* bound on time
  MaxRestarts,        \* bound on the times the worker is started again
  MultiThreaded       \* the processes that create threads

ASSUME TrackerAssumption ==
  /\ NoPid \notin Pids
  /\ NoProg \notin Progs
  /\ NameOf \in [Configs -> Progs]
  /\ RingCap \in Nat \ {0}
  /\ ShortLivedSeconds \in Nat
  /\ MaxClock \in Nat
  /\ MaxRestarts \in Nat
  /\ MultiThreaded \subseteq Pids

VARIABLES
  tgid,      \* kernel: thread group of each live task, NoPid for a free id
  comm,      \* kernel: command name of each task
  ring,      \* events written by the BPF programs and not yet consumed
  tracked,   \* tracked_procs
  counters,  \* short_lived_counters
  sw,        \* configs[i].monitor_switch
  running,   \* ebpf_running
  phase,     \* the worker's position in its loop: "recv" or "poll"
  restarts,  \* how often the worker was started again
  clock,     \* time(NULL)
  lost,      \* history: pids no longer in use whose end the worker cannot learn
  reborn     \* history: pids reused while an exit of the earlier user is queued

kernelVars == <<tgid, comm>>
workerVars == <<tracked, counters>>
controlVars == <<sw, running, phase, restarts>>
vars == <<tgid, comm, ring, tracked, counters, sw, running, phase, restarts,
          clock, lost, reborn>>
----------------------------------------------------------------------------
Event == [type : {"EXEC", "EXIT", "FORK"}, pid : Pids,
          ppid : Pids \cup {NoPid}, name : Progs \cup {NoProg}]

\* get_exec_info, get_exit_info, get_fork_info: an exec and an exit carry the
\* thread group id, a fork carries the thread ids of child and parent.
ExecEvent(t, prog) == [type |-> "EXEC", pid |-> tgid[t], ppid |-> NoPid, name |-> prog]
ExitEvent(t) == [type |-> "EXIT", pid |-> tgid[t], ppid |-> NoPid, name |-> NoProg]
ForkEvent(p, parent, name) == [type |-> "FORK", pid |-> p, ppid |-> parent, name |-> name]

RingFull == Len(ring) = RingCap

\* Mutant: an event is written although the ring has no room.
EmitUnbounded(e) == ring' = Append(ring, e)

\* bpf_ringbuf_reserve fails when the ring is full and the event is dropped.
Emit(e) == ring' = IF RingFull THEN ring ELSE Append(ring, e)

\* An id is in use while a task has it or a thread of its group lives.
InUse(groups, p) == groups[p] # NoPid \/ \E t \in Pids : groups[t] = p

Live(p) == InUse(tgid, p)

QueuedExit(p) == \E i \in 1..Len(ring) : ring[i].type = "EXIT" /\ ring[i].pid = p
----------------------------------------------------------------------------
Slot == [active : BOOLEAN, pid : Pids \cup {NoPid}, comm : Progs \cup {NoProg},
         first : Nat, last : Nat]

\* No field of an inactive slot is read before the slot is filled again.
EmptySlot == [active |-> FALSE, pid |-> NoPid, comm |-> NoProg, first |-> 0, last |-> 0]

Holding(p) == {i \in Slots : tracked[i].active /\ tracked[i].pid = p}

Tracked(p) == Holding(p) # {}

FreeSlots == {i \in Slots : ~tracked[i].active}

LeastRecent == {i \in Slots : \A j \in Slots : tracked[i].last <= tracked[j].last}

\* Mutant: the search for the oldest entry compares the wrong way round.
AllocNewest ==
  IF FreeSlots # {}
  THEN First(FreeSlots)
  ELSE First({i \in Slots : \A j \in Slots : tracked[i].last >= tracked[j].last})

\* alloc_tracked_process_slot: the first inactive slot, else the first of the
\* least recently seen ones, whose entry is dropped.
AllocSlot == IF FreeSlots # {} THEN First(FreeSlots) ELSE First(LeastRecent)

\* Mutant: a process that is already in the table is not looked up first.
SlotWithoutLookup(p) == AllocSlot

\* find_tracked_process, or a slot for a process not in the table.
SlotFor(p) == IF Tracked(p) THEN First(Holding(p)) ELSE AllocSlot

EnabledConfigured(name) == \E c \in Configs : sw[c] /\ NameOf[c] = name
----------------------------------------------------------------------------
Init ==
  /\ tgid = [p \in Pids |-> NoPid]
  /\ comm = [p \in Pids |-> NoProg]
  /\ ring = <<>>
  /\ tracked = [i \in Slots |-> EmptySlot]
  /\ counters = [i \in Slots |-> NoCounter]
  /\ sw \in [Configs -> BOOLEAN]
  /\ running = FALSE
  /\ phase = "recv"
  /\ restarts = 0
  /\ clock = 0
  /\ lost = {}
  /\ reborn = {}

\* A new task p of group g, forked by the task parent (NoPid: one outside Pids).
StartTask(p, g, parent, name) ==
  /\ ~Live(p)
  /\ tgid' = [tgid EXCEPT ![p] = g]
  /\ comm' = [comm EXCEPT ![p] = name]
  /\ Emit(ForkEvent(p, parent, name))
  /\ lost' = lost \ {p}
  /\ reborn' = IF QueuedExit(p) THEN reborn \cup {p} ELSE reborn \ {p}
  /\ UNCHANGED <<workerVars, controlVars, clock>>

\* A process of the rest of the system starts a process.
Spawn(p) == StartTask(p, p, NoPid, NoProg)

\* A task forks a process.
Fork(t, p) == tgid[t] # NoPid /\ StartTask(p, p, t, comm[t])

\* A task creates a thread of its own group: clone reports it as a fork.
CreateThread(t, p) ==
  /\ tgid[t] \in MultiThreaded
  /\ StartTask(p, tgid[t], t, comm[t])

\* The last task of its group executes prog (the kernel first ends the others).
\* A thread other than the leader gets the leader's id, and its own is free
\* without an exit event.
Exec(t, prog) ==
  LET g == tgid[t]
  IN  /\ g # NoPid
      /\ \A u \in Pids \ {t} : tgid[u] # g
      /\ g = t \/ tgid[g] = NoPid
      /\ tgid' = [tgid EXCEPT ![t] = NoPid, ![g] = g]
      /\ comm' = [comm EXCEPT ![t] = NoProg, ![g] = prog]
      /\ Emit(ExecEvent(t, prog))
      /\ lost' = lost \cup ({t} \ {g})
      /\ UNCHANGED <<workerVars, controlVars, clock, reborn>>

\* A task exits.  The worker learns the end of an id only from an exit event
\* of that id, so an id is lost when it ends without one in the ring.
Exit(t) ==
  LET groups == [tgid EXCEPT ![t] = NoPid]
      ended == {p \in Pids : Live(p) /\ ~InUse(groups, p)}
      told == IF RingFull THEN {} ELSE {tgid[t]}
  IN  /\ tgid[t] # NoPid
      /\ tgid' = groups
      /\ comm' = [comm EXCEPT ![t] = NoProg]
      /\ Emit(ExitEvent(t))
      /\ lost' = lost \cup (ended \ told)
      /\ UNCHANGED <<workerVars, controlVars, clock, reborn>>

Tick ==
  /\ clock < MaxClock
  /\ clock' = clock + 1
  /\ UNCHANGED <<kernelVars, ring, workerVars, controlVars, lost, reborn>>
----------------------------------------------------------------------------
\* track_proc_exec: only a configuration that is switched on makes a program
\* tracked; any other exec leaves the table alone.
TrackExec(e) ==
  tracked' = IF EnabledConfigured(e.name)
             THEN [tracked EXCEPT ![SlotFor(e.pid)] =
                     [active |-> TRUE, pid |-> e.pid, comm |-> e.name,
                      first |-> clock, last |-> clock]]
             ELSE tracked

\* Mutant: the child takes over the entry of its parent.
TrackForkInPlace(e) ==
  tracked' = IF Tracked(e.ppid)
             THEN [tracked EXCEPT ![First(Holding(e.ppid))] =
                     [@ EXCEPT !.pid = e.pid, !.comm = e.name, !.last = clock]]
             ELSE tracked

\* track_proc_fork: the child of a tracked process inherits its entry, also
\* its first_seen.  The slot found for the child may be its own parent's.
TrackFork(e) ==
  tracked' = IF Tracked(e.ppid)
             THEN [tracked EXCEPT ![SlotFor(e.pid)] =
                     [tracked[First(Holding(e.ppid))] EXCEPT
                        !.pid = e.pid, !.comm = e.name, !.last = clock]]
             ELSE tracked

HandleExec ==
  /\ TrackExec(Head(ring))
  /\ UNCHANGED <<counters, lost>>

HandleFork ==
  /\ TrackFork(Head(ring))
  /\ UNCHANGED <<counters, lost>>

\* Mutant: the exit handler asks only whether a configuration is enabled, as the
\* exec handler does, and not whether the process is tracked.
HandleExitIfEnabled ==
  LET p == Head(ring).pid
      i == First(Holding(p))
  IN  /\ IF Tracked(p) /\ EnabledConfigured(tracked[i].comm)
         THEN /\ tracked' = [tracked EXCEPT ![i] = EmptySlot]
              /\ counters' = IF clock <= tracked[i].first + ShortLivedSeconds
                             THEN Record(counters, tracked[i].comm, clock)
                             ELSE counters
         ELSE UNCHANGED workerVars
      /\ UNCHANGED lost

\* track_proc_exit, with record_short_lived_process for a short runtime.
HandleExit ==
  LET p == Head(ring).pid
      i == First(Holding(p))
  IN  /\ IF Tracked(p)
         THEN /\ tracked' = [tracked EXCEPT ![i] = EmptySlot]
              /\ counters' = IF clock <= tracked[i].first + ShortLivedSeconds
                             THEN Record(counters, tracked[i].comm, clock)
                             ELSE counters
         ELSE UNCHANGED workerVars
      /\ UNCHANGED lost

\* handle_event while monitoring is stopped: the event is consumed unread.
IgnoreEvent ==
  LET e == Head(ring)
  IN  /\ lost' = IF e.type = "EXIT" /\ ~Live(e.pid) THEN lost \cup {e.pid} ELSE lost
      /\ UNCHANGED workerVars

\* ring_buffer__poll hands the events to handle_event one by one.
HandleEvent ==
  /\ phase = "poll"
  /\ ring # <<>>
  /\ ring' = Tail(ring)
  /\ \/ running /\ Head(ring).type = "EXEC" /\ HandleExec
     \/ running /\ Head(ring).type = "EXIT" /\ HandleExit
     \/ running /\ Head(ring).type = "FORK" /\ HandleFork
     \/ ~running /\ IgnoreEvent
  /\ UNCHANGED <<kernelVars, controlVars, clock, reborn>>

\* ring_buffer__poll returns once it finds the ring empty.
PollDone ==
  /\ phase = "poll"
  /\ ring = <<>>
  /\ phase' = "recv"
  /\ UNCHANGED <<kernelVars, ring, workerVars, sw, running, restarts, clock, lost, reborn>>
----------------------------------------------------------------------------
\* One turn of mq_receive, after which the events are polled.
Receive == phase = "recv" /\ phase' = "poll"

\* proc start <id>: accepted only while monitoring is stopped.
ReceiveStart(c) ==
  /\ Receive
  /\ ~running
  /\ running' = TRUE
  /\ sw' = [sw EXCEPT ![c] = TRUE]
  /\ UNCHANGED <<kernelVars, ring, workerVars, restarts, clock, lost, reborn>>

\* proc stop <id>: switches monitoring off for all of them.
ReceiveStop(c) ==
  /\ Receive
  /\ running
  /\ running' = FALSE
  /\ sw' = [sw EXCEPT ![c] = FALSE]
  /\ UNCHANGED <<kernelVars, ring, workerVars, restarts, clock, lost, reborn>>

\* An empty queue, a listing, an unknown id, a start or stop that is refused.
\* (An operation that is not valid skips the poll, and changes nothing.)
ReceiveOther ==
  /\ Receive
  /\ UNCHANGED <<kernelVars, ring, workerVars, sw, running, restarts, clock, lost, reborn>>

\* The monitor thread gives up on a program it could not restart.
GiveUp(c) ==
  /\ sw[c]
  /\ sw' = [sw EXCEPT ![c] = FALSE]
  /\ UNCHANGED <<kernelVars, ring, workerVars, running, phase, restarts, clock, lost, reborn>>

\* The worker ends, with whatever is queued, and systemd starts it again with
\* the switches of its files.  The processes go on; those that start before the
\* new worker has attached its programs send no event, as if they started before
\* the end.
Restart ==
  /\ restarts < MaxRestarts
  /\ restarts' = restarts + 1
  /\ ring' = <<>>
  /\ tracked' = [i \in Slots |-> EmptySlot]
  /\ counters' = [i \in Slots |-> NoCounter]
  /\ sw' \in [Configs -> BOOLEAN]
  /\ running' = FALSE
  /\ phase' = "recv"
  /\ lost' = {} /\ reborn' = {}
  /\ UNCHANGED <<kernelVars, clock>>
----------------------------------------------------------------------------
Kernel ==
  \/ \E p \in Pids : Spawn(p)
  \/ \E t, p \in Pids : Fork(t, p)
  \/ \E t, p \in Pids : CreateThread(t, p)
  \/ \E t \in Pids, prog \in Progs : Exec(t, prog)
  \/ \E t \in Pids : Exit(t)

Worker ==
  \/ HandleEvent
  \/ PollDone
  \/ \E c \in Configs : ReceiveStart(c)
  \/ \E c \in Configs : ReceiveStop(c)
  \/ ReceiveOther

Next == Kernel \/ Worker \/ Tick \/ Restart \/ \E c \in Configs : GiveUp(c)

Spec == Init /\ [][Next]_vars
----------------------------------------------------------------------------
\* Every variable has its type, the ring its capacity, and the entries of the
\* two tables (tracked_procs, short_lived_counters) their shape.
TypeOK ==
  /\ tgid \in [Pids -> Pids \cup {NoPid}]
  /\ comm \in [Pids -> Progs \cup {NoProg}]
  /\ ring \in Seq(Event) /\ Len(ring) <= RingCap
  /\ tracked \in [Slots -> Slot]
  /\ \A i \in Slots : tracked[i].active => tracked[i].pid \in Pids
  /\ counters \in [Slots -> Counter(Progs \cup {NoProg})]
  /\ sw \in [Configs -> BOOLEAN]
  /\ running \in BOOLEAN
  /\ phase \in {"recv", "poll"}
  /\ restarts \in 0..MaxRestarts
  /\ clock \in 0..MaxClock
  /\ lost \subseteq Pids
  /\ reborn \subseteq Pids

\* A process is in at most one slot, so the exit that clears the first slot
\* found (track_proc_exit) clears them all.
UniquePids ==
  \A i, j \in Slots :
    tracked[i].active /\ tracked[j].active /\ tracked[i].pid = tracked[j].pid => i = j

\* An entry of a process that ended is on its way out (its exit is queued), or
\* that exit never reached a running handle_event: nothing else, neither a late
\* fork or exec event nor an eviction, leaves a dead process in the table.
NoGhostEntries ==
  \A i \in Slots :
    tracked[i].active =>
      \/ Live(tracked[i].pid)
      \/ QueuedExit(tracked[i].pid)
      \/ tracked[i].pid \in lost

\* The step drops the entry of p to make room (alloc_tracked_process_slot):
\* the table is full and no other entry has been quiet for longer.
Evicts(p) ==
  /\ ring # <<>> /\ Head(ring).type \in {"EXEC", "FORK"}
  /\ FreeSlots = {}
  /\ \E i \in LeastRecent : tracked[i].pid = p

\* The step does not untrack p unless p has ended or p is evicted (or the exit
\* consumed is that of an earlier process with the id of p), or the worker ends.
StaysTracked(p) ==
  Live(p) /\ p \notin reborn /\ Tracked(p) /\ ~Tracked(p)' /\ restarts' = restarts
    => Evicts(p)

\* A live process without threads leaves the table only by eviction: whatever
\* is queued, dropped or reused, no exit event ends the tracking of a process
\* that still runs.
LiveStaysTracked == [][\A p \in Pids \ MultiThreaded : StaysTracked(p)]_vars

\* CHANGELOG.md:14: proc list tracked lists the active configured process
\* instances, those that create threads included.
ThreadedStaysTracked == [][\A p \in MultiThreaded : StaysTracked(p)]_vars

\* proc/README.md:38: proc list tracked shows only processes still alive.  The
\* listing is made between two polls; at best all events have been consumed.
ListedAreAlive ==
  phase = "recv" /\ ring = <<>> /\ running =>
    \A i \in Slots : tracked[i].active => Live(tracked[i].pid)
----------------------------------------------------------------------------
(* Why NoGhostEntries and LiveStaysTracked hold: what is true of each queued *)
(* event, at its place in the ring.                                        *)

\* The worker will still learn the end of p after k more events, or p lives,
\* or its end is lost.
Accounted(p, k) ==
  \/ Live(p)
  \/ \E j \in k + 1 .. Len(ring) : ring[j].type = "EXIT" /\ ring[j].pid = p
  \/ p \in lost

\* An entry an exec or fork event may create is accounted for after that event.
QueueAccounted ==
  \A i \in 1..Len(ring) :
    ring[i].type \in {"EXEC", "FORK"} => Accounted(ring[i].pid, i)

\* Without threads a task is its own group, so a queued exit names a process
\* that has ended, or an earlier one whose id is in use again.
ExitsAreFinal ==
  /\ \A t \in Pids : tgid[t] \in {t, NoPid} \cup MultiThreaded
  /\ \A p \in Pids \ MultiThreaded : QueuedExit(p) /\ Live(p) => p \in reborn
============================================================================
