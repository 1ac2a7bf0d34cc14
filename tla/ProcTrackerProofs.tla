------------------------- MODULE ProcTrackerProofs -------------------------
(***************************************************************************)
(* Proofs about ProcTracker for every pid space, table length, ring        *)
(* capacity, set of configurations and set of threaded processes.          *)
(***************************************************************************)
EXTENDS ProcTracker, ShortLivedCountersProofs
----------------------------------------------------------------------------
\* alloc_tracked_process_slot returns a slot of the table: a free one if there
\* is one, else one of the least recently seen.
LEMMA AllocSlotIn ==
  ASSUME TypeOK
  PROVE  /\ AllocSlot \in Slots
         /\ FreeSlots # {} => AllocSlot \in FreeSlots
         /\ FreeSlots = {} => AllocSlot \in LeastRecent
<1>1. CASE FreeSlots # {}
  BY <1>1, FirstIn DEF AllocSlot, FreeSlots
<1>2. CASE FreeSlots = {}
  <2> DEFINE f == [i \in Slots |-> tracked[i].last]
  <2>1. f \in [Slots -> Nat]
    BY DEF TypeOK, Slot
  <2>2. PICK i \in Slots : \A j \in Slots : f[i] <= f[j]
    <3> HIDE DEF f
    <3>. QED  BY <2>1, LeastSlot
  <2>3. LeastRecent # {}
    BY <2>2 DEF LeastRecent
  <2>. QED  BY <1>2, <2>3, FirstIn DEF AllocSlot, LeastRecent
<1>. QED  BY <1>1, <1>2

\* The slot chosen for p is the one p has, else the allocated one.
LEMMA SlotForIn ==
  ASSUME TypeOK, NEW p
  PROVE  /\ SlotFor(p) \in Slots
         /\ Tracked(p) => SlotFor(p) \in Holding(p)
         /\ ~Tracked(p) => SlotFor(p) = AllocSlot
<1>1. CASE Tracked(p)
  BY <1>1, FirstIn DEF SlotFor, Tracked, Holding
<1>2. CASE ~Tracked(p)
  BY <1>2, AllocSlotIn DEF SlotFor
<1>. QED  BY <1>1, <1>2

\* Writing a record of p into the slot chosen for p leaves every pid in at
\* most one slot.
LEMMA PutKeepsUnique ==
  ASSUME TypeOK, UniquePids, NEW p, NEW r, r.pid = p,
         tracked' = [tracked EXCEPT ![SlotFor(p)] = r]
  PROVE  UniquePids'
<1>1. ASSUME NEW i \in Slots, tracked[i].active, tracked[i].pid = p
      PROVE  SlotFor(p) = i
  <2>1. i \in Holding(p)
    BY <1>1 DEF Holding
  <2>2. SlotFor(p) \in Holding(p)
    BY <2>1, SlotForIn DEF Tracked
  <2>. QED  BY <1>1, <2>2 DEF UniquePids, Holding
<1>2. \A i \in Slots : tracked'[i] = IF i = SlotFor(p) THEN r ELSE tracked[i]
  BY DEF TypeOK
<1>. QED  BY <1>1, <1>2 DEF UniquePids, Slots

\* What reserve and submit do to the ring, full or not.
LEMMA EmitAppends ==
  ASSUME TypeOK, NEW e \in Event, Emit(e)
  PROVE  /\ ring' \in Seq(Event)
         /\ Len(ring') \in Nat /\ Len(ring') <= RingCap
         /\ Len(ring) <= Len(ring')
         /\ \A i \in 1..Len(ring) : ring'[i] = ring[i]
         /\ \A i \in 1..Len(ring') : i \in 1..Len(ring) \/ (i = Len(ring) + 1 /\ ring'[i] = e)
         /\ ~RingFull => Len(ring') = Len(ring) + 1 /\ ring'[Len(ring')] = e
<1>1. ring \in Seq(Event) /\ Len(ring) \in Nat /\ Len(ring) <= RingCap /\ RingCap \in Nat
  BY TrackerAssumption DEF TypeOK
<1>2. CASE RingFull
  <2>1. ring' = ring
    BY <1>2 DEF Emit
  <2>. QED  BY <1>1, <1>2, <2>1
<1>3. CASE ~RingFull
  <2>1. ring' = Append(ring, e)
    BY <1>3 DEF Emit
  <2>2. Len(ring) < RingCap
    BY <1>1, <1>3 DEF RingFull
  <2>3. ring' \in Seq(Event) /\ Len(ring') = Len(ring) + 1
    BY <1>1, <2>1
  <2>4. \A i \in 1..Len(ring) : ring'[i] = ring[i]
    BY <1>1, <2>1
  <2>5. ring'[Len(ring) + 1] = e
    BY <1>1, <2>1
  <2>. QED  BY <1>1, <2>2, <2>3, <2>4, <2>5
<1>. QED  BY <1>2, <1>3

\* Consuming an event shifts the others by one place.
LEMMA ConsumeShifts ==
  ASSUME TypeOK, ring # <<>>, ring' = Tail(ring)
  PROVE  /\ Head(ring) \in Event /\ Head(ring) = ring[1]
         /\ ring' \in Seq(Event)
         /\ Len(ring') = Len(ring) - 1
         /\ \A i \in 1..Len(ring') : ring'[i] = ring[i + 1]
BY DEF TypeOK
----------------------------------------------------------------------------
\* Event is closed under what the BPF programs write.
LEMMA EventTypes ==
  ASSUME TypeOK
  PROVE  /\ \A p \in Pids, parent \in Pids \cup {NoPid}, name \in Progs \cup {NoProg} :
              ForkEvent(p, parent, name) \in Event
         /\ \A t \in Pids : tgid[t] # NoPid => ExitEvent(t) \in Event
         /\ \A t \in Pids, prog \in Progs : tgid[t] # NoPid => ExecEvent(t, prog) \in Event
BY DEF TypeOK, Event, ForkEvent, ExitEvent, ExecEvent

LEMMA StartTaskType ==
  ASSUME TypeOK, NEW p \in Pids, NEW g \in Pids, NEW parent \in Pids \cup {NoPid},
         NEW name \in Progs \cup {NoProg}, StartTask(p, g, parent, name)
  PROVE  TypeOK'
<1>1. ring' \in Seq(Event) /\ Len(ring') <= RingCap
  BY EventTypes, EmitAppends DEF StartTask
<1>. QED  BY <1>1 DEF StartTask, TypeOK, workerVars, controlVars

LEMMA KernelType ==
  ASSUME TypeOK, Kernel
  PROVE  TypeOK'
<1>1. ASSUME NEW p \in Pids, Spawn(p)
      PROVE  TypeOK'
  BY <1>1, StartTaskType DEF Spawn
<1>2. ASSUME NEW t \in Pids, NEW p \in Pids, Fork(t, p)
      PROVE  TypeOK'
  <2>1. comm[t] \in Progs \cup {NoProg}
    BY DEF TypeOK
  <2>. QED  BY <1>2, <2>1, StartTaskType DEF Fork
<1>3. ASSUME NEW t \in Pids, NEW p \in Pids, CreateThread(t, p)
      PROVE  TypeOK'
  <2>1. comm[t] \in Progs \cup {NoProg} /\ tgid[t] \in Pids
    BY <1>3, TrackerAssumption DEF TypeOK, CreateThread
  <2>. QED  BY <1>3, <2>1, StartTaskType DEF CreateThread
<1>4. ASSUME NEW t \in Pids, NEW prog \in Progs, Exec(t, prog)
      PROVE  TypeOK'
  <2>1. ring' \in Seq(Event) /\ Len(ring') <= RingCap
    BY <1>4, TrackerAssumption, EventTypes, EmitAppends DEF Exec
  <2>2. /\ tgid' \in [Pids -> Pids \cup {NoPid}]
        /\ comm' \in [Pids -> Progs \cup {NoProg}]
        /\ lost' \subseteq Pids
    BY <1>4 DEF Exec, TypeOK
  <2>. QED  BY <1>4, <2>1, <2>2 DEF Exec, TypeOK, workerVars, controlVars
<1>5. ASSUME NEW t \in Pids, Exit(t)
      PROVE  TypeOK'
  <2>1. ring' \in Seq(Event) /\ Len(ring') <= RingCap
    BY <1>5, EventTypes, EmitAppends DEF Exit
  <2>. QED  BY <1>5, <2>1 DEF Exit, TypeOK, workerVars, controlVars
<1>. QED  BY <1>1, <1>2, <1>3, <1>4, <1>5 DEF Kernel

\* The elements of the empty tables.
LEMMA EmptySlotTyped == EmptySlot \in Slot /\ ~EmptySlot.active
BY DEF EmptySlot, Slot

LEMMA NoCounterTyped == NoCounter \in Counter(Progs \cup {NoProg})
BY DEF NoCounter, Counter

\* What a handler may do to the two tables.
TablesTyped ==
  /\ tracked' \in [Slots -> Slot]
  /\ \A i \in Slots : tracked'[i].active => tracked'[i].pid \in Pids
  /\ counters' \in [Slots -> Counter(Progs \cup {NoProg})]

\* Writing a well-formed active entry keeps the table well formed.
LEMMA PutTyped ==
  ASSUME TypeOK, NEW i \in Slots, NEW r \in Slot, r.active => r.pid \in Pids,
         tracked' = [tracked EXCEPT ![i] = r]
  PROVE  /\ tracked' \in [Slots -> Slot]
         /\ \A j \in Slots : tracked'[j].active => tracked'[j].pid \in Pids
BY DEF TypeOK

LEMMA HandleEventType ==
  ASSUME TypeOK, HandleEvent
  PROVE  TypeOK'
<1> DEFINE e == Head(ring)
<1>1. e \in Event /\ ring' \in Seq(Event) /\ Len(ring') <= RingCap
  <2>1. Len(ring) \in Nat /\ Len(ring) <= RingCap /\ RingCap \in Nat
    BY TrackerAssumption DEF TypeOK
  <2>2. e \in Event /\ ring' \in Seq(Event) /\ Len(ring') = Len(ring) - 1
    BY ConsumeShifts DEF HandleEvent
  <2>. QED  BY <2>1, <2>2
<1>2. clock \in Nat
  BY TrackerAssumption DEF TypeOK
<1>3. CASE HandleExec
  <2> DEFINE r == [active |-> TRUE, pid |-> e.pid, comm |-> e.name,
                   first |-> clock, last |-> clock]
  <2>1. r \in Slot /\ r.pid \in Pids
    BY <1>1, <1>2 DEF Slot, Event
  <2>2. CASE EnabledConfigured(e.name)
    <3>1. tracked' = [tracked EXCEPT ![SlotFor(e.pid)] = r]
      BY <1>3, <2>2 DEF HandleExec, TrackExec
    <3>2. SlotFor(e.pid) \in Slots
      BY SlotForIn
    <3> HIDE DEF r, e
    <3>3. TablesTyped
      BY <1>3, <2>1, <3>1, <3>2, PutTyped DEF TablesTyped, HandleExec, TypeOK
    <3>. QED  BY <1>1, <1>3, <3>3
              DEF TablesTyped, HandleExec, HandleEvent, TypeOK, kernelVars, controlVars
  <2>3. CASE ~EnabledConfigured(e.name)
    BY <1>1, <1>3, <2>3
       DEF HandleExec, TrackExec, HandleEvent, TypeOK, kernelVars, controlVars
  <2>. QED  BY <2>2, <2>3
<1>4. CASE HandleFork
  <2> DEFINE parent == tracked[First(Holding(e.ppid))]
             r == [parent EXCEPT !.pid = e.pid, !.comm = e.name, !.last = clock]
  <2>1. CASE Tracked(e.ppid)
    <3>1. First(Holding(e.ppid)) \in Holding(e.ppid)
      BY <2>1, FirstIn DEF Tracked, Holding
    <3>2. parent \in Slot
      BY <3>1 DEF Holding, TypeOK
    <3>3. r \in Slot /\ r.pid \in Pids
      <4> HIDE DEF parent
      <4>. QED  BY <1>1, <1>2, <3>2 DEF Slot, Event
    <3>4. tracked' = [tracked EXCEPT ![SlotFor(e.pid)] = r]
      BY <1>4, <2>1 DEF HandleFork, TrackFork
    <3>5. SlotFor(e.pid) \in Slots
      BY SlotForIn
    <3> HIDE DEF r, e
    <3>6. TablesTyped
      BY <1>4, <3>3, <3>4, <3>5, PutTyped DEF TablesTyped, HandleFork, TypeOK
    <3>. QED  BY <1>1, <1>4, <3>6
              DEF TablesTyped, HandleFork, HandleEvent, TypeOK, kernelVars, controlVars
  <2>2. CASE ~Tracked(e.ppid)
    BY <1>1, <1>4, <2>2
       DEF HandleFork, TrackFork, HandleEvent, TypeOK, kernelVars, controlVars
  <2>. QED  BY <2>1, <2>2
<1>5. CASE HandleExit
  <2> DEFINE i == First(Holding(e.pid))
  <2>1. CASE Tracked(e.pid)
    <3>1. i \in Slots
      BY <2>1, FirstIn DEF Tracked, Holding
    <3>2. EmptySlot \in Slot /\ ~EmptySlot.active
      BY EmptySlotTyped
    <3>3. tracked' = [tracked EXCEPT ![i] = EmptySlot]
      BY <1>5, <2>1 DEF HandleExit
    <3>4. counters' \in [Slots -> Counter(Progs \cup {NoProg})]
      <4>1. tracked[i].comm \in Progs \cup {NoProg}
        BY <3>1 DEF TypeOK, Slot
      <4>2. counters \in [Slots -> Counter(Progs \cup {NoProg})]
        BY DEF TypeOK
      <4>3. Record(counters, tracked[i].comm, clock) \in [Slots -> Counter(Progs \cup {NoProg})]
        BY <1>2, <4>1, <4>2, RecordType
      <4>. QED  BY <1>5, <2>1, <4>2, <4>3 DEF HandleExit
    <3> HIDE DEF i, e
    <3>5. TablesTyped
      BY <3>1, <3>2, <3>3, <3>4, PutTyped DEF TablesTyped
    <3>. QED  BY <1>1, <1>5, <3>5
              DEF TablesTyped, HandleExit, HandleEvent, TypeOK, kernelVars, controlVars
  <2>2. CASE ~Tracked(e.pid)
    BY <1>1, <1>5, <2>2
       DEF HandleExit, HandleEvent, TypeOK, kernelVars, controlVars, workerVars
  <2>. QED  BY <2>1, <2>2
<1>6. CASE IgnoreEvent
  <2>1. e.pid \in Pids
    BY <1>1 DEF Event
  <2>. QED  BY <1>1, <1>6, <2>1
            DEF IgnoreEvent, HandleEvent, TypeOK, kernelVars, controlVars, workerVars
<1>. QED  BY <1>3, <1>4, <1>5, <1>6 DEF HandleEvent

LEMMA OtherType ==
  ASSUME TypeOK
  PROVE  /\ PollDone => TypeOK'
         /\ \A c \in Configs : ReceiveStart(c) \/ ReceiveStop(c) \/ GiveUp(c) => TypeOK'
         /\ ReceiveOther => TypeOK'
         /\ Tick => TypeOK'
         /\ Restart => TypeOK'
         /\ UNCHANGED vars => TypeOK'
<1> USE DEF TypeOK, kernelVars, workerVars, controlVars, Receive
<1>1. PollDone => TypeOK'
  BY DEF PollDone
<1>2. ASSUME NEW c \in Configs
      PROVE  ReceiveStart(c) \/ ReceiveStop(c) \/ GiveUp(c) => TypeOK'
  BY DEF ReceiveStart, ReceiveStop, GiveUp
<1>3. ReceiveOther => TypeOK'
  BY DEF ReceiveOther
<1>4. Tick => TypeOK'
  <2>1. MaxClock \in Nat
    BY TrackerAssumption
  <2>2. clock < MaxClock /\ clock \in 0..MaxClock => clock + 1 \in 0..MaxClock
    BY <2>1
  <2>. QED  BY <2>2 DEF Tick
<1>5. Restart => TypeOK'
  <2> SUFFICES ASSUME Restart PROVE TypeOK'
    OBVIOUS
  <2>1. tracked' \in [Slots -> Slot] /\ \A i \in Slots : ~tracked'[i].active
    BY EmptySlotTyped DEF Restart
  <2>2. counters' \in [Slots -> Counter(Progs \cup {NoProg})]
    BY NoCounterTyped DEF Restart
  <2>3. ring' \in Seq(Event) /\ Len(ring') <= RingCap
    BY TrackerAssumption DEF Restart
  <2>4. restarts' \in 0..MaxRestarts
    BY TrackerAssumption DEF Restart
  <2>. QED  BY <2>1, <2>2, <2>3, <2>4 DEF Restart
<1>6. UNCHANGED vars => TypeOK'
  BY DEF vars
<1>. QED  BY <1>1, <1>2, <1>3, <1>4, <1>5, <1>6

LEMMA InitType == Init => TypeOK
<1> SUFFICES ASSUME Init PROVE TypeOK
  OBVIOUS
<1>1. tracked \in [Slots -> Slot] /\ \A i \in Slots : ~tracked[i].active
  BY EmptySlotTyped DEF Init
<1>2. counters \in [Slots -> Counter(Progs \cup {NoProg})]
  BY NoCounterTyped DEF Init
<1>3. ring \in Seq(Event) /\ Len(ring) <= RingCap
  BY TrackerAssumption DEF Init
<1>4. clock \in 0..MaxClock /\ restarts \in 0..MaxRestarts
  BY TrackerAssumption DEF Init
<1>. QED  BY <1>1, <1>2, <1>3, <1>4 DEF Init, TypeOK

\* Every variable keeps its type and the ring its capacity.
THEOREM TypeCorrect == Spec => []TypeOK
<1>1. TypeOK /\ [Next]_vars => TypeOK'
  BY KernelType, HandleEventType, OtherType DEF Next, Worker
<1>. QED  BY InitType, <1>1, PTL DEF Spec
----------------------------------------------------------------------------
\* What the queued events look like.
LEMMA RingFacts ==
  ASSUME TypeOK
  PROVE  /\ Len(ring) \in Nat
         /\ \A i \in 1..Len(ring) :
              /\ ring[i].pid \in Pids
              /\ ring[i].type \in {"EXEC", "EXIT", "FORK"}
<1>1. ring \in Seq(Event)
  BY DEF TypeOK
<1>2. \A i \in 1..Len(ring) : ring[i] \in Event
  BY <1>1
<1>. QED  BY <1>1, <1>2 DEF Event

\* A kernel step that emits e keeps every id accounted for, provided that an
\* id that ends is told by e or lost, one that is found again lives, and e does
\* not announce a dead id.
LEMMA EmitAccounts ==
  ASSUME TypeOK, NEW e \in Event, Emit(e), QueueAccounted,
         \A q \in Pids : Live(q) => \/ Live(q)'
                                    \/ q \in lost'
                                    \/ ~RingFull /\ e.type = "EXIT" /\ e.pid = q,
         \A q \in lost : q \in lost' \/ Live(q)',
         e.type \in {"EXEC", "FORK"} => Live(e.pid)'
  PROVE  /\ \A q \in Pids : \A k \in 0..Len(ring) : Accounted(q, k) => Accounted(q, k)'
         /\ QueueAccounted'
<1>1. /\ Len(ring) \in Nat /\ Len(ring') \in Nat /\ Len(ring) <= Len(ring')
      /\ \A i \in 1..Len(ring) : ring'[i] = ring[i]
      /\ \A i \in 1..Len(ring') : i \in 1..Len(ring) \/ (i = Len(ring) + 1 /\ ring'[i] = e)
      /\ ~RingFull => Len(ring') = Len(ring) + 1 /\ ring'[Len(ring')] = e
  BY EmitAppends, RingFacts
<1>2. ASSUME NEW q \in Pids, NEW k \in 0..Len(ring), Accounted(q, k)
      PROVE  Accounted(q, k)'
  <2>1. ASSUME NEW j \in k + 1 .. Len(ring'), ring'[j].type = "EXIT", ring'[j].pid = q
        PROVE  Accounted(q, k)'
    BY <2>1 DEF Accounted
  <2>2. CASE Live(q)' \/ q \in lost'
    BY <2>2 DEF Accounted
  <2>3. CASE ~RingFull /\ e.type = "EXIT" /\ e.pid = q
    <3>1. Len(ring') \in k + 1 .. Len(ring') /\ ring'[Len(ring')] = e
      BY <1>1, <2>3
    <3>. QED  BY <2>1, <2>3, <3>1
  <2>4. ASSUME NEW j \in k + 1 .. Len(ring), ring[j].type = "EXIT", ring[j].pid = q
        PROVE  Accounted(q, k)'
    <3>1. j \in k + 1 .. Len(ring') /\ ring'[j] = ring[j]
      BY <1>1
    <3>. QED  BY <2>1, <2>4, <3>1
  <2>. QED  BY <1>2, <2>2, <2>3, <2>4 DEF Accounted
<1>3. QueueAccounted'
  <2> SUFFICES ASSUME NEW i \in 1..Len(ring'), ring'[i].type \in {"EXEC", "FORK"}
               PROVE  Accounted(ring[i].pid, i)'
    BY DEF QueueAccounted
  <2>1. CASE i \in 1..Len(ring)
    <3>1. ring'[i] = ring[i] /\ ring[i].pid \in Pids
      BY <1>1, <2>1, RingFacts
    <3>2. Accounted(ring[i].pid, i)
      BY <2>1, <3>1 DEF QueueAccounted
    <3>3. \A q \in Pids : Accounted(q, i) => Accounted(q, i)'
      BY <1>1, <1>2, <2>1
    <3>. QED  BY <3>1, <3>2, <3>3 DEF Accounted
  <2>2. CASE i = Len(ring) + 1 /\ ring'[i] = e
    BY <2>2 DEF Accounted
  <2>. QED  BY <1>1, <2>1, <2>2
<1>. QED  BY <1>2, <1>3

\* The three kinds of kernel step.
LEMMA StartTaskAccounts ==
  ASSUME TypeOK, NEW p \in Pids, NEW g \in Pids, NEW parent \in Pids \cup {NoPid},
         NEW name \in Progs \cup {NoProg}, StartTask(p, g, parent, name),
         QueueAccounted
  PROVE  /\ \A q \in Pids : \A k \in 0..Len(ring) : Accounted(q, k) => Accounted(q, k)'
         /\ QueueAccounted'
<1> DEFINE e == ForkEvent(p, parent, name)
<1>1. e \in Event /\ Emit(e) /\ e.pid = p
  BY EventTypes DEF StartTask, ForkEvent
<1>2. Live(p)'
  BY TrackerAssumption DEF StartTask, Live, InUse, TypeOK
<1>3. ASSUME NEW q \in Pids, Live(q)
      PROVE  Live(q)'
  BY <1>2, <1>3 DEF StartTask, Live, InUse, TypeOK
<1>4. \A q \in lost : q \in lost' \/ Live(q)'
  BY <1>2 DEF StartTask
<1> HIDE DEF e
<1>. QED  BY <1>1, <1>2, <1>3, <1>4, EmitAccounts

LEMMA ExecAccounts ==
  ASSUME TypeOK, NEW t \in Pids, NEW prog \in Progs, Exec(t, prog), QueueAccounted
  PROVE  /\ \A q \in Pids : \A k \in 0..Len(ring) : Accounted(q, k) => Accounted(q, k)'
         /\ QueueAccounted'
<1>1. PICK g \in Pids : g = tgid[t]
  BY DEF Exec, TypeOK
<1>2. PICK e \in Event : e = ExecEvent(t, prog)
  BY EventTypes DEF Exec
<1>3. Emit(e) /\ e.type = "EXEC" /\ e.pid = g
  BY <1>1, <1>2 DEF Exec, ExecEvent
<1>4. /\ tgid'[g] = g
      /\ \A u \in Pids \ {t, g} : tgid'[u] = tgid[u]
      /\ lost' = lost \cup ({t} \ {g})
  BY <1>1 DEF Exec, TypeOK
<1>5. Live(g)'
  BY <1>4, TrackerAssumption DEF Live, InUse
<1>6. ASSUME NEW q \in Pids, Live(q), q # g, q # t
      PROVE  Live(q)'
  <2>1. ASSUME NEW u \in Pids, tgid[u] = q \/ (u = q /\ tgid[u] # NoPid)
        PROVE  u # t /\ u # g
    BY <1>1, <1>6, <2>1, TrackerAssumption DEF Exec
  <2>2. \A u \in Pids : tgid[u] = q \/ (u = q /\ tgid[u] # NoPid) => tgid'[u] = tgid[u]
    BY <1>4, <2>1
  <2>. QED  BY <1>6, <2>2 DEF Live, InUse
<1>7. \A q \in Pids : Live(q) => Live(q)' \/ q \in lost'
  BY <1>4, <1>5, <1>6
<1>8. \A q \in lost : q \in lost'
  BY <1>4
<1>. QED  BY <1>3, <1>5, <1>7, <1>8, EmitAccounts

LEMMA ExitAccounts ==
  ASSUME TypeOK, NEW t \in Pids, Exit(t), QueueAccounted
  PROVE  /\ \A q \in Pids : \A k \in 0..Len(ring) : Accounted(q, k) => Accounted(q, k)'
         /\ QueueAccounted'
<1> DEFINE e == ExitEvent(t)
<1>1. e \in Event /\ Emit(e) /\ e.type = "EXIT" /\ e.pid = tgid[t]
  BY EventTypes DEF Exit, ExitEvent
<1>2. ASSUME NEW q \in Pids, Live(q), ~Live(q)'
      PROVE  q \in lost' \/ (~RingFull /\ q = tgid[t])
  BY <1>2 DEF Exit, Live, InUse
<1>3. \A q \in lost : q \in lost'
  BY DEF Exit
<1> HIDE DEF e
<1>. QED  BY <1>1, <1>2, <1>3, EmitAccounts

LEMMA KernelAccounts ==
  ASSUME TypeOK, Kernel, QueueAccounted
  PROVE  /\ \A q \in Pids : \A k \in 0..Len(ring) : Accounted(q, k) => Accounted(q, k)'
         /\ QueueAccounted'
         /\ UNCHANGED tracked
<1>1. ASSUME NEW p \in Pids, NEW g \in Pids, NEW parent \in Pids \cup {NoPid},
             NEW name \in Progs \cup {NoProg}, StartTask(p, g, parent, name)
      PROVE  UNCHANGED tracked
  BY <1>1 DEF StartTask, workerVars
<1>2. ASSUME NEW p \in Pids, Spawn(p)
      PROVE  \E g \in Pids, parent \in Pids \cup {NoPid}, name \in Progs \cup {NoProg} :
               StartTask(p, g, parent, name)
  BY <1>2 DEF Spawn
<1>3. ASSUME NEW t \in Pids, NEW p \in Pids, Fork(t, p) \/ CreateThread(t, p)
      PROVE  \E g \in Pids, parent \in Pids \cup {NoPid}, name \in Progs \cup {NoProg} :
               StartTask(p, g, parent, name)
  <2>1. comm[t] \in Progs \cup {NoProg} /\ tgid[t] \in Pids
    BY <1>3, TrackerAssumption DEF TypeOK, Fork, CreateThread
  <2>. QED  BY <1>3, <2>1 DEF Fork, CreateThread
<1>4. ASSUME NEW t \in Pids, NEW prog \in Progs, Exec(t, prog) \/ Exit(t)
      PROVE  UNCHANGED tracked
  BY <1>4 DEF Exec, Exit, workerVars
<1>5. ASSUME NEW t \in Pids, Exit(t)
      PROVE  UNCHANGED tracked
  BY <1>5 DEF Exit, workerVars
<1>6. CASE \E p \in Pids : Spawn(p)
  BY <1>1, <1>2, <1>6, StartTaskAccounts
<1>7. CASE \E t, p \in Pids : Fork(t, p) \/ CreateThread(t, p)
  BY <1>1, <1>3, <1>7, StartTaskAccounts
<1>8. CASE \E t \in Pids, prog \in Progs : Exec(t, prog)
  BY <1>4, <1>8, ExecAccounts
<1>9. CASE \E t \in Pids : Exit(t)
  BY <1>5, <1>9, ExitAccounts
<1>. QED  BY <1>6, <1>7, <1>8, <1>9 DEF Kernel
----------------------------------------------------------------------------
\* Consuming the first event: what was accounted for behind it still is, one
\* place nearer; what was accounted for at the front still is, unless the event
\* was the exit of that very process.
LEMMA ConsumeAccounts ==
  ASSUME TypeOK, HandleEvent
  PROVE  /\ \A q \in Pids : \A k \in 1..Len(ring) : Accounted(q, k) => Accounted(q, k - 1)'
         /\ \A q \in Pids :
              Accounted(q, 0) /\ ~(Head(ring).type = "EXIT" /\ Head(ring).pid = q)
                => Accounted(q, 0)'
<1>1. /\ ring # <<>> /\ ring' = Tail(ring) /\ UNCHANGED tgid
  BY DEF HandleEvent, kernelVars
<1>2. lost \subseteq lost'
  BY DEF HandleEvent, HandleExec, HandleFork, HandleExit, IgnoreEvent
<1>3. /\ Head(ring) = ring[1] /\ Len(ring) \in Nat \ {0}
      /\ Len(ring') = Len(ring) - 1
      /\ \A i \in 1..Len(ring') : ring'[i] = ring[i + 1]
  BY <1>1, ConsumeShifts, RingFacts DEF TypeOK
<1>4. ASSUME NEW q \in Pids, NEW k \in 1..Len(ring), Accounted(q, k)
      PROVE  Accounted(q, k - 1)'
  <2>1. CASE Live(q) \/ q \in lost
    BY <1>1, <1>2, <2>1 DEF Accounted, Live
  <2>2. ASSUME NEW j \in k + 1 .. Len(ring), ring[j].type = "EXIT", ring[j].pid = q
        PROVE  Accounted(q, k - 1)'
    <3>1. j - 1 \in (k - 1) + 1 .. Len(ring') /\ ring'[j - 1] = ring[j]
      BY <1>3
    <3>. QED  BY <2>2, <3>1 DEF Accounted
  <2>. QED  BY <1>4, <2>1, <2>2 DEF Accounted
<1>5. ASSUME NEW q \in Pids, Accounted(q, 0), ~(ring[1].type = "EXIT" /\ ring[1].pid = q)
      PROVE  Accounted(q, 0)'
  <2>1. CASE Live(q) \/ q \in lost
    BY <1>1, <1>2, <2>1 DEF Accounted, Live
  <2>2. ASSUME NEW j \in 0 + 1 .. Len(ring), ring[j].type = "EXIT", ring[j].pid = q
        PROVE  Accounted(q, 0)'
    <3>1. j - 1 \in 0 + 1 .. Len(ring') /\ ring'[j - 1] = ring[j]
      BY <1>3, <1>5, <2>2
    <3>. QED  BY <2>2, <3>1 DEF Accounted
  <2>. QED  BY <1>5, <2>1, <2>2 DEF Accounted
<1>. QED  BY <1>3, <1>4, <1>5

\* Every entry of the table is accounted for.
EntriesAccounted ==
  \A i \in Slots : tracked[i].active => Accounted(tracked[i].pid, 0)

LEMMA EntriesAreNoGhosts ==
  ASSUME TypeOK
  PROVE  EntriesAccounted <=> NoGhostEntries
<1>1. Len(ring) \in Nat
  BY RingFacts
<1>. QED  BY <1>1 DEF EntriesAccounted, NoGhostEntries, Accounted, QueuedExit

TrackerInv == TypeOK /\ UniquePids /\ QueueAccounted /\ EntriesAccounted

LEMMA InitInv == Init => TrackerInv
<1> SUFFICES ASSUME Init PROVE TrackerInv
  OBVIOUS
<1>1. \A i \in Slots : ~tracked[i].active
  BY DEF Init, EmptySlot
<1>2. QueueAccounted
  BY DEF Init, QueueAccounted
<1>. QED  BY <1>1, <1>2, InitType DEF TrackerInv, UniquePids, EntriesAccounted

LEMMA KernelInv ==
  ASSUME TrackerInv, Kernel
  PROVE  TrackerInv'
<1> USE DEF TrackerInv
<1>1. TypeOK' /\ QueueAccounted'
  BY KernelType, KernelAccounts
<1>2. UniquePids'
  BY KernelAccounts DEF UniquePids
<1>3. EntriesAccounted'
  <2> SUFFICES ASSUME NEW i \in Slots, tracked'[i].active
               PROVE  Accounted(tracked[i].pid, 0)'
    BY DEF EntriesAccounted
  <2>1. tracked'[i] = tracked[i]
    BY KernelAccounts
  <2>2. tracked[i].pid \in Pids /\ Accounted(tracked[i].pid, 0)
    BY <2>1 DEF TypeOK, EntriesAccounted
  <2>3. \A q \in Pids : Accounted(q, 0) => Accounted(q, 0)'
    BY KernelAccounts, RingFacts
  <2>. QED  BY <2>1, <2>2, <2>3 DEF Accounted
<1>. QED  BY <1>1, <1>2, <1>3

LEMMA HandleEventInv ==
  ASSUME TrackerInv, HandleEvent
  PROVE  TrackerInv'
<1> USE DEF TrackerInv
<1> DEFINE e == Head(ring)
<1>1. TypeOK'
  BY HandleEventType
<1>2. /\ e = ring[1] /\ Len(ring) \in Nat \ {0} /\ e.pid \in Pids
      /\ Len(ring') = Len(ring) - 1
      /\ \A i \in 1..Len(ring') : ring'[i] = ring[i + 1]
  <2>1. e = ring[1] /\ e \in Event /\ Len(ring') = Len(ring) - 1
        /\ \A i \in 1..Len(ring') : ring'[i] = ring[i + 1]
    BY ConsumeShifts DEF HandleEvent
  <2>2. Len(ring) \in Nat \ {0}
    BY DEF HandleEvent, TypeOK
  <2>. QED  BY <2>1, <2>2 DEF Event
<1>3. QueueAccounted'
  <2> SUFFICES ASSUME NEW i \in 1..Len(ring'), ring'[i].type \in {"EXEC", "FORK"}
               PROVE  Accounted(ring[i].pid, i)'
    BY DEF QueueAccounted
  <2>1. i + 1 \in 1..Len(ring) /\ ring'[i] = ring[i + 1] /\ i = (i + 1) - 1
    BY <1>2
  <2>2. Accounted(ring[i + 1].pid, i + 1) /\ ring[i + 1].pid \in Pids
    BY <2>1, RingFacts DEF QueueAccounted
  <2>3. \A q \in Pids : Accounted(q, i + 1) => Accounted(q, i)'
    BY <2>1, ConsumeAccounts
  <2>. QED  BY <2>1, <2>2, <2>3 DEF Accounted
<1>4. ASSUME e.type \in {"EXEC", "FORK"}, NEW q \in Pids, q = e.pid
      PROVE  Accounted(q, 0)'
  <2>1. 1 \in 1..Len(ring) /\ 1 - 1 = 0
    BY <1>2
  <2>2. Accounted(ring[1].pid, 1)
    BY <1>2, <1>4, <2>1 DEF QueueAccounted
  <2>3. Accounted(q, 1)
    BY <1>2, <1>4, <2>2
  <2>. QED  BY <2>1, <2>3, ConsumeAccounts
<1>5. ASSUME NEW i \in Slots, tracked[i].active, ~(e.type = "EXIT" /\ e.pid = tracked[i].pid),
             NEW q \in Pids, q = tracked[i].pid
      PROVE  Accounted(q, 0)'
  <2>1. Accounted(q, 0)
    BY <1>5 DEF EntriesAccounted
  <2>. QED  BY <1>5, <2>1, ConsumeAccounts
<1>6. ASSUME e.type \in {"EXEC", "FORK"}, NEW r \in Slot, r.active, r.pid = e.pid,
             tracked' = [tracked EXCEPT ![SlotFor(e.pid)] = r]
      PROVE  UniquePids' /\ EntriesAccounted'
  <2>1. UniquePids'
    <3> HIDE DEF e
    <3>. QED  BY <1>6, PutKeepsUnique
  <2>2. ASSUME NEW i \in Slots, tracked'[i].active, NEW q \in Pids, q = tracked'[i].pid
        PROVE  Accounted(q, 0)'
    <3>1. CASE i = SlotFor(e.pid)
      <4>1. tracked'[i] = r
        BY <1>6, <3>1 DEF TypeOK
      <4>. QED  BY <1>4, <1>6, <2>2, <4>1
    <3>2. CASE i # SlotFor(e.pid)
      <4>1. tracked'[i] = tracked[i]
        BY <1>6, <3>2 DEF TypeOK
      <4>. QED  BY <1>5, <1>6, <2>2, <4>1
    <3>. QED  BY <3>1, <3>2
  <2>3. \A i \in Slots : tracked'[i].active => tracked'[i].pid \in Pids
    BY <1>1 DEF TypeOK
  <2>. QED  BY <2>1, <2>2, <2>3 DEF EntriesAccounted, Accounted
<1>7. ASSUME UNCHANGED tracked, e.type # "EXIT" \/ ~Tracked(e.pid) \/ ~running
      PROVE  UniquePids' /\ EntriesAccounted'
  <2>1. UniquePids'
    BY <1>7 DEF UniquePids
  <2>2. ASSUME NEW i \in Slots, tracked[i].active, NEW q \in Pids, q = tracked[i].pid
        PROVE  Accounted(q, 0)'
    <3>1. CASE ~(e.type = "EXIT" /\ e.pid = q)
      BY <1>5, <2>2, <3>1
    <3>2. CASE e.type = "EXIT" /\ e.pid = q
      <4>1. Tracked(e.pid)
        BY <2>2, <3>2 DEF Tracked, Holding
      <4>2. IgnoreEvent /\ UNCHANGED tgid
        BY <1>7, <3>2, <4>1 DEF HandleEvent, kernelVars
      <4>3. Live(q)' \/ q \in lost'
        BY <3>2, <4>2 DEF IgnoreEvent, Live
      <4>. QED  BY <4>3 DEF Accounted
    <3>. QED  BY <3>1, <3>2
  <2>3. \A i \in Slots : tracked[i].active => tracked[i].pid \in Pids
    BY DEF TypeOK
  <2>. QED  BY <1>7, <2>1, <2>2, <2>3 DEF EntriesAccounted, Accounted
<1>8. CASE HandleExec /\ e.type = "EXEC"
  <2>1. CASE EnabledConfigured(e.name)
    <3> DEFINE r == [active |-> TRUE, pid |-> e.pid, comm |-> e.name,
                     first |-> clock, last |-> clock]
    <3>1. tracked' = [tracked EXCEPT ![SlotFor(e.pid)] = r]
      BY <1>8, <2>1 DEF HandleExec, TrackExec
    <3>2. r \in Slot /\ r.active /\ r.pid = e.pid
      <4>1. e \in Event /\ clock \in Nat
        BY TrackerAssumption, ConsumeShifts DEF HandleEvent, TypeOK
      <4>. QED  BY <4>1 DEF Slot, Event
    <3> HIDE DEF r, e
    <3>. QED  BY <1>1, <1>3, <1>6, <1>8, <3>1, <3>2
  <2>2. CASE ~EnabledConfigured(e.name)
    <3>1. UNCHANGED tracked
      BY <1>8, <2>2 DEF HandleExec, TrackExec
    <3>. QED  BY <1>1, <1>3, <1>7, <1>8, <3>1
  <2>. QED  BY <2>1, <2>2
<1>9. CASE HandleFork /\ e.type = "FORK"
  <2>1. CASE Tracked(e.ppid)
    <3> DEFINE parent == tracked[First(Holding(e.ppid))]
               r == [parent EXCEPT !.pid = e.pid, !.comm = e.name, !.last = clock]
    <3>1. tracked' = [tracked EXCEPT ![SlotFor(e.pid)] = r]
      BY <1>9, <2>1 DEF HandleFork, TrackFork
    <3>2. r \in Slot /\ r.active /\ r.pid = e.pid
      <4>1. e \in Event /\ clock \in Nat
        BY TrackerAssumption, ConsumeShifts DEF HandleEvent, TypeOK
      <4>2. First(Holding(e.ppid)) \in Holding(e.ppid)
        BY <2>1, FirstIn DEF Tracked, Holding
      <4>3. parent \in Slot /\ parent.active
        BY <4>2 DEF Holding, TypeOK
      <4> HIDE DEF parent
      <4>. QED  BY <4>1, <4>3 DEF Slot, Event
    <3> HIDE DEF r, e
    <3>. QED  BY <1>1, <1>3, <1>6, <1>9, <3>1, <3>2
  <2>2. CASE ~Tracked(e.ppid)
    <3>1. UNCHANGED tracked
      BY <1>9, <2>2 DEF HandleFork, TrackFork
    <3>. QED  BY <1>1, <1>3, <1>7, <1>9, <3>1
  <2>. QED  BY <2>1, <2>2
<1>10. CASE HandleExit /\ e.type = "EXIT"
  <2>1. CASE Tracked(e.pid)
    <3> DEFINE i == First(Holding(e.pid))
    <3>1. i \in Holding(e.pid)
      BY <2>1, FirstIn DEF Tracked, Holding
    <3>2. tracked' = [tracked EXCEPT ![i] = EmptySlot]
      BY <1>10, <2>1 DEF HandleExit
    <3> HIDE DEF i, e
    <3>3. \A j \in Slots : tracked'[j].active => tracked'[j] = tracked[j] /\ tracked[j].pid # e.pid
      <4>1. \A j \in Slots : tracked'[j] = IF j = i THEN EmptySlot ELSE tracked[j]
        BY <3>2 DEF TypeOK
      <4>2. \A j \in Slots : tracked[j].active /\ tracked[j].pid = e.pid => j = i
        BY <3>1 DEF UniquePids, Holding
      <4>3. ~EmptySlot.active
        BY DEF EmptySlot
      <4>. QED  BY <4>1, <4>2, <4>3
    <3>4. UniquePids'
      BY <3>3 DEF UniquePids
    <3>5. ASSUME NEW j \in Slots, tracked'[j].active, NEW q \in Pids, q = tracked'[j].pid
          PROVE  Accounted(q, 0)'
      BY <1>5, <3>3, <3>5
    <3>6. \A j \in Slots : tracked'[j].active => tracked'[j].pid \in Pids
      BY <1>1 DEF TypeOK
    <3>7. EntriesAccounted'
      BY <3>5, <3>6 DEF EntriesAccounted, Accounted
    <3>. QED  BY <1>1, <1>3, <3>4, <3>7
  <2>2. CASE ~Tracked(e.pid)
    <3>1. UNCHANGED tracked
      BY <1>10, <2>2 DEF HandleExit, workerVars
    <3>. QED  BY <1>1, <1>3, <1>7, <2>2, <3>1
  <2>. QED  BY <2>1, <2>2
<1>11. CASE ~running /\ IgnoreEvent
  <2>1. UNCHANGED tracked
    BY <1>11 DEF IgnoreEvent, workerVars
  <2>. QED  BY <1>1, <1>3, <1>7, <1>11, <2>1
<1>. QED  BY <1>8, <1>9, <1>10, <1>11 DEF HandleEvent

\* The other steps touch neither the ring, nor the tasks, nor the table.
LEMMA OtherInv ==
  ASSUME TrackerInv, UNCHANGED <<ring, tgid, tracked, lost>>, TypeOK'
  PROVE  TrackerInv'
BY DEF TrackerInv, UniquePids, QueueAccounted, EntriesAccounted, Accounted, Live

\* A worker that is started again has nothing queued and an empty table.
LEMMA RestartInv ==
  ASSUME TrackerInv, Restart
  PROVE  TrackerInv'
<1>1. \A i \in Slots : ~tracked'[i].active
  BY EmptySlotTyped DEF Restart
<1>2. Len(ring') = 0
  BY DEF Restart
<1>3. QueueAccounted'
  BY <1>2 DEF QueueAccounted
<1>4. TypeOK'
  BY OtherType DEF TrackerInv
<1>. QED  BY <1>1, <1>3, <1>4 DEF TrackerInv, UniquePids, EntriesAccounted

LEMMA TrackerInvariant == Spec => []TrackerInv
<1>1. TrackerInv /\ [Next]_vars => TrackerInv'
  <2> SUFFICES ASSUME TrackerInv, [Next]_vars PROVE TrackerInv'
    OBVIOUS
  <2>1. CASE Kernel
    BY <2>1, KernelInv
  <2>2. CASE HandleEvent
    BY <2>2, HandleEventInv
  <2>3. CASE \/ PollDone \/ ReceiveOther \/ Tick \/ UNCHANGED vars
             \/ \E c \in Configs : ReceiveStart(c) \/ ReceiveStop(c) \/ GiveUp(c)
    <3>1. TypeOK'
      BY <2>3, OtherType DEF TrackerInv
    <3>2. UNCHANGED <<ring, tgid, tracked, lost>>
      BY <2>3 DEF PollDone, ReceiveOther, Tick, vars, ReceiveStart, ReceiveStop, GiveUp,
                  kernelVars, workerVars
    <3>. QED  BY <3>1, <3>2, OtherInv
  <2>4. CASE Restart
    BY <2>4, RestartInv
  <2>. QED  BY <2>1, <2>2, <2>3, <2>4 DEF Next, Worker
<1>. QED  BY InitInv, <1>1, PTL DEF Spec

\* However events of different processes interleave, are dropped or ignored,
\* and whatever is evicted, no process is ever in two slots.
THEOREM OneSlotPerProcess == Spec => []UniquePids
<1>1. TrackerInv => UniquePids
  BY DEF TrackerInv
<1>. QED  BY TrackerInvariant, <1>1, PTL

\* Every dead process in the table has its exit queued, or its exit was dropped
\* by a full ring, ignored while stopped, or reported under another id.
THEOREM GhostsAreLost == Spec => []NoGhostEntries
<1>1. TrackerInv => NoGhostEntries
  BY EntriesAreNoGhosts DEF TrackerInv
<1>. QED  BY TrackerInvariant, <1>1, PTL
----------------------------------------------------------------------------
\* Emitting e adds at most an exit of e's own process to the queued exits.
LEMMA EmitQueuedExits ==
  ASSUME TypeOK, NEW e \in Event, Emit(e), NEW q, QueuedExit(q)'
  PROVE  QueuedExit(q) \/ (e.type = "EXIT" /\ e.pid = q)
BY EmitAppends, RingFacts DEF QueuedExit

LEMMA ConsumeQueuedExits ==
  ASSUME TypeOK, ring # <<>>, ring' = Tail(ring), NEW q, QueuedExit(q)'
  PROVE  QueuedExit(q)
<1>1. Len(ring) \in Nat /\ Len(ring') = Len(ring) - 1
      /\ \A i \in 1..Len(ring') : ring'[i] = ring[i + 1]
  BY ConsumeShifts, RingFacts
<1>2. PICK i \in 1..Len(ring') : ring'[i].type = "EXIT" /\ ring'[i].pid = q
  BY DEF QueuedExit
<1>3. i + 1 \in 1..Len(ring) /\ ring[i + 1] = ring'[i]
  BY <1>1
<1>. QED  BY <1>2, <1>3 DEF QueuedExit

LEMMA StartTaskExits ==
  ASSUME TypeOK, ExitsAreFinal, NEW p \in Pids, NEW g \in Pids, g = p \/ g \in MultiThreaded,
         NEW parent \in Pids \cup {NoPid}, NEW name \in Progs \cup {NoProg},
         StartTask(p, g, parent, name)
  PROVE  ExitsAreFinal'
<1> DEFINE e == ForkEvent(p, parent, name)
<1>1. \A t \in Pids : tgid'[t] \in {t, NoPid} \cup MultiThreaded
  BY DEF StartTask, ExitsAreFinal, TypeOK
<1>2. e \in Event /\ Emit(e) /\ e.type = "FORK"
  BY EventTypes DEF StartTask, ForkEvent
<1> HIDE DEF e
<1>3. ASSUME NEW q \in Pids \ MultiThreaded, QueuedExit(q)', Live(q)'
      PROVE  q \in reborn'
  <2>1. QueuedExit(q)
    BY <1>2, <1>3, EmitQueuedExits
  <2>2. CASE q = p
    BY <2>1, <2>2 DEF StartTask
  <2>3. CASE q # p
    <3>1. Live(q)
      BY <1>3, <2>3 DEF StartTask, Live, InUse, TypeOK, ExitsAreFinal
    <3>2. q \in reborn
      BY <2>1, <3>1 DEF ExitsAreFinal
    <3>. QED  BY <2>3, <3>2 DEF StartTask
  <2>. QED  BY <2>2, <2>3
<1>. QED  BY <1>1, <1>3 DEF ExitsAreFinal

LEMMA KernelExits ==
  ASSUME TypeOK, ExitsAreFinal, Kernel
  PROVE  ExitsAreFinal'
<1>1. ASSUME NEW p \in Pids, Spawn(p)
      PROVE  ExitsAreFinal'
  BY <1>1, StartTaskExits DEF Spawn
<1>2. ASSUME NEW t \in Pids, NEW p \in Pids, Fork(t, p)
      PROVE  ExitsAreFinal'
  <2>1. comm[t] \in Progs \cup {NoProg}
    BY DEF TypeOK
  <2>. QED  BY <1>2, <2>1, StartTaskExits DEF Fork
<1>3. ASSUME NEW t \in Pids, NEW p \in Pids, CreateThread(t, p)
      PROVE  ExitsAreFinal'
  <2>1. comm[t] \in Progs \cup {NoProg} /\ tgid[t] \in Pids
    BY <1>3, TrackerAssumption DEF TypeOK, CreateThread
  <2>. QED  BY <1>3, <2>1, StartTaskExits DEF CreateThread
<1>4. ASSUME NEW t \in Pids, NEW prog \in Progs, Exec(t, prog)
      PROVE  ExitsAreFinal'
  <2> DEFINE e == ExecEvent(t, prog)
  <2>1. e \in Event /\ Emit(e) /\ e.type = "EXEC"
    BY <1>4, TrackerAssumption, EventTypes DEF Exec, ExecEvent
  <2> HIDE DEF e
  <2>2. \A q \in Pids : QueuedExit(q)' => QueuedExit(q)
    BY <2>1, EmitQueuedExits
  <2>3. tgid[t] \in Pids /\ tgid[t] \in {t} \cup MultiThreaded
    BY <1>4 DEF Exec, ExitsAreFinal, TypeOK
  <2>4. \A u \in Pids : tgid'[u] = tgid[u] \/ tgid'[u] = NoPid \/ tgid'[u] = u
    BY <1>4, <2>3 DEF Exec, TypeOK
  <2>5. \A u \in Pids : tgid'[u] \in {u, NoPid} \cup MultiThreaded
    BY <2>4 DEF ExitsAreFinal
  <2>6. ASSUME NEW q \in Pids \ MultiThreaded, Live(q)'
        PROVE  Live(q)
    <3>1. CASE tgid[t] = t
      <4>1. tgid' = tgid
        BY <1>4, <3>1 DEF Exec, TypeOK
      <4>. QED  BY <2>6, <4>1 DEF Live
    <3>2. CASE tgid[t] \in MultiThreaded
      <4>1. \A u \in Pids : u # tgid[t] => tgid'[u] = tgid[u] \/ tgid'[u] = NoPid
        BY <1>4, <2>3 DEF Exec, TypeOK
      <4>2. tgid'[tgid[t]] = tgid[t]
        BY <1>4, <2>3 DEF Exec, TypeOK
      <4>. QED  BY <2>6, <3>2, <4>1, <4>2, TrackerAssumption DEF Live, InUse
    <3>. QED  BY <2>3, <3>1, <3>2
  <2>7. UNCHANGED reborn
    BY <1>4 DEF Exec
  <2>. QED  BY <2>2, <2>5, <2>6, <2>7 DEF ExitsAreFinal
<1>5. ASSUME NEW t \in Pids, Exit(t)
      PROVE  ExitsAreFinal'
  <2> DEFINE e == ExitEvent(t)
  <2>1. e \in Event /\ Emit(e) /\ e.pid = tgid[t]
    BY <1>5, EventTypes DEF Exit, ExitEvent
  <2> HIDE DEF e
  <2>2. \A u \in Pids : tgid'[u] \in {u, NoPid} \cup MultiThreaded
    BY <1>5 DEF Exit, ExitsAreFinal, TypeOK
  <2>3. tgid[t] \in {t} \cup MultiThreaded
    BY <1>5 DEF Exit, ExitsAreFinal
  <2>4. ASSUME NEW q \in Pids \ MultiThreaded, Live(q)'
        PROVE  Live(q) /\ q # t
    BY <1>5, <2>4, TrackerAssumption DEF Exit, Live, InUse, ExitsAreFinal, TypeOK
  <2>6. \A q \in Pids \ MultiThreaded : QueuedExit(q)' => QueuedExit(q) \/ q = t
    BY <2>1, <2>3, EmitQueuedExits
  <2>5. UNCHANGED reborn
    BY <1>5 DEF Exit
  <2>. QED  BY <2>2, <2>4, <2>5, <2>6 DEF ExitsAreFinal
<1>. QED  BY <1>1, <1>2, <1>3, <1>4, <1>5 DEF Kernel

LEMMA ExitsInvariant == Spec => [](TrackerInv /\ ExitsAreFinal)
<1>1. Init => ExitsAreFinal
  BY DEF Init, ExitsAreFinal, QueuedExit
<1>2. TrackerInv /\ ExitsAreFinal /\ [Next]_vars => ExitsAreFinal'
  <2> SUFFICES ASSUME TypeOK, ExitsAreFinal, [Next]_vars PROVE ExitsAreFinal'
    BY DEF TrackerInv
  <2>1. CASE Kernel
    BY <2>1, KernelExits
  <2>2. CASE HandleEvent
    <3>1. \A q \in Pids : QueuedExit(q)' => QueuedExit(q)
      BY <2>2, ConsumeQueuedExits DEF HandleEvent
    <3>2. UNCHANGED <<tgid, reborn>>
      BY <2>2 DEF HandleEvent, kernelVars
    <3>. QED  BY <3>1, <3>2 DEF ExitsAreFinal, Live
  <2>3. CASE \/ PollDone \/ ReceiveOther \/ Tick \/ UNCHANGED vars
             \/ \E c \in Configs : ReceiveStart(c) \/ ReceiveStop(c) \/ GiveUp(c)
    <3>1. UNCHANGED <<ring, tgid, reborn>>
      BY <2>3 DEF PollDone, ReceiveOther, Tick, vars, ReceiveStart, ReceiveStop, GiveUp, kernelVars
    <3>. QED  BY <3>1 DEF ExitsAreFinal, QueuedExit, Live
  <2>4. CASE Restart
    <3>1. Len(ring') = 0 /\ UNCHANGED tgid
      BY <2>4 DEF Restart, kernelVars
    <3>. QED  BY <3>1 DEF ExitsAreFinal, QueuedExit
  <2>. QED  BY <2>1, <2>2, <2>3, <2>4 DEF Next, Worker
<1>. QED  BY TrackerInvariant, <1>1, <1>2, PTL DEF Spec
----------------------------------------------------------------------------
\* Putting an entry of another process in the table removes p only by eviction.
LEMMA PutEvicts ==
  ASSUME TrackerInv, NEW e, e \in Event, e.type \in {"EXEC", "FORK"},
         ring # <<>>, e = Head(ring), NEW r \in Slot, r.active, r.pid = e.pid,
         tracked' = [tracked EXCEPT ![SlotFor(e.pid)] = r],
         NEW p \in Pids, Tracked(p), ~Tracked(p)'
  PROVE  Evicts(p)
<1> USE DEF TrackerInv
<1> DEFINE s == SlotFor(e.pid)
<1>1. PICK i \in Slots : tracked[i].active /\ tracked[i].pid = p
  BY DEF Tracked, Holding
<1>2. s \in Slots
  BY SlotForIn
<1>3. \A j \in Slots : tracked'[j] = IF j = s THEN r ELSE tracked[j]
  BY DEF TypeOK
<1>4. \A j \in Slots : ~(tracked'[j].active /\ tracked'[j].pid = p)
  BY DEF Tracked, Holding
<1> HIDE DEF s
<1>5. i = s
  BY <1>1, <1>3, <1>4
<1>6. e.pid # p
  BY <1>2, <1>3, <1>4
<1>7. ~Tracked(e.pid)
  BY <1>1, <1>5, <1>6, SlotForIn DEF s, Holding
<1>8. s = AllocSlot
  BY <1>7, SlotForIn DEF s
<1>9. s \notin FreeSlots
  BY <1>1, <1>5 DEF FreeSlots
<1>10. FreeSlots = {} /\ s \in LeastRecent
  BY <1>8, <1>9, AllocSlotIn
<1>. QED  BY <1>1, <1>5, <1>10 DEF Evicts

LEMMA StayStep ==
  ASSUME TrackerInv, ExitsAreFinal, HandleEvent, NEW p \in Pids \ MultiThreaded,
         Live(p), p \notin reborn, Tracked(p), ~Tracked(p)'
  PROVE  Evicts(p)
<1> USE DEF TrackerInv
<1> DEFINE e == Head(ring)
<1>1. e \in Event /\ e = ring[1] /\ ring # <<>> /\ 1 \in 1..Len(ring) /\ clock \in Nat
  BY TrackerAssumption, ConsumeShifts DEF HandleEvent, TypeOK
<1>2. tracked' # tracked
  BY DEF Tracked, Holding
<1>3. CASE HandleExec /\ e.type = "EXEC"
  <2> DEFINE r == [active |-> TRUE, pid |-> e.pid, comm |-> e.name,
                   first |-> clock, last |-> clock]
  <2>1. tracked' = [tracked EXCEPT ![SlotFor(e.pid)] = r]
    BY <1>2, <1>3 DEF HandleExec, TrackExec
  <2>2. r \in Slot /\ r.active /\ r.pid = e.pid
    BY <1>1 DEF Slot, Event
  <2> HIDE DEF r
  <2>. QED  BY <1>1, <1>3, <2>1, <2>2, PutEvicts
<1>4. CASE HandleFork /\ e.type = "FORK"
  <2> DEFINE parent == tracked[First(Holding(e.ppid))]
             r == [parent EXCEPT !.pid = e.pid, !.comm = e.name, !.last = clock]
  <2>1. Tracked(e.ppid) /\ tracked' = [tracked EXCEPT ![SlotFor(e.pid)] = r]
    BY <1>2, <1>4 DEF HandleFork, TrackFork
  <2>2. r \in Slot /\ r.active /\ r.pid = e.pid
    <3>1. First(Holding(e.ppid)) \in Holding(e.ppid)
      BY <2>1, FirstIn DEF Tracked, Holding
    <3>2. parent \in Slot /\ parent.active
      BY <3>1 DEF Holding, TypeOK
    <3> HIDE DEF parent
    <3>. QED  BY <1>1, <3>2 DEF Slot, Event
  <2> HIDE DEF r
  <2>. QED  BY <1>1, <1>4, <2>1, <2>2, PutEvicts
<1>5. CASE HandleExit /\ e.type = "EXIT"
  <2> DEFINE i == First(Holding(e.pid))
  <2>1. Tracked(e.pid) /\ tracked' = [tracked EXCEPT ![i] = EmptySlot]
    BY <1>2, <1>5 DEF HandleExit, workerVars
  <2>2. i \in Slots /\ tracked[i].pid = e.pid
    BY <2>1, FirstIn DEF Tracked, Holding
  <2> HIDE DEF i
  <2>3. e.pid = p
    BY <2>1, <2>2 DEF Tracked, Holding, TypeOK
  <2>4. QueuedExit(p)
    BY <1>1, <1>5, <2>3 DEF QueuedExit
  <2>. QED  BY <2>4 DEF ExitsAreFinal
<1>6. CASE IgnoreEvent
  BY <1>2, <1>6 DEF IgnoreEvent, workerVars
<1>. QED  BY <1>3, <1>4, <1>5, <1>6 DEF HandleEvent

\* A live process without threads leaves the table only to make room for
\* another when the table is full, and then it is a least recent one.
THEOREM LiveProcessesStay == Spec => LiveStaysTracked
<1> DEFINE Stay == \A p \in Pids \ MultiThreaded : StaysTracked(p)
<1>1. TrackerInv /\ ExitsAreFinal /\ [Next]_vars => Stay
  <2> SUFFICES ASSUME TrackerInv, ExitsAreFinal, [Next]_vars, NEW p \in Pids \ MultiThreaded,
                      Live(p), p \notin reborn, Tracked(p), ~Tracked(p)', restarts' = restarts
               PROVE  Evicts(p)
    BY DEF StaysTracked
  <2>1. tracked' # tracked
    BY DEF Tracked, Holding
  <2>2. HandleEvent
    <3>1. ~Kernel
      BY <2>1, KernelAccounts DEF TrackerInv
    <3>2. ~(\/ PollDone \/ ReceiveOther \/ Tick \/ UNCHANGED vars
            \/ \E c \in Configs : ReceiveStart(c) \/ ReceiveStop(c) \/ GiveUp(c))
      BY <2>1 DEF PollDone, ReceiveOther, Tick, vars, ReceiveStart, ReceiveStop, GiveUp, workerVars
    <3>3. ~Restart
      <4>1. restarts \in Nat
        BY TrackerAssumption DEF TrackerInv, TypeOK
      <4>. QED  BY <4>1 DEF Restart
    <3>. QED  BY <3>1, <3>2, <3>3 DEF Next, Worker
  <2>. QED  BY <2>2, StayStep
<1>2. TrackerInv /\ ExitsAreFinal /\ [Next]_vars => [Stay]_vars
  BY <1>1
<1>. QED  BY ExitsInvariant, <1>2, PTL DEF Spec, LiveStaysTracked
============================================================================
