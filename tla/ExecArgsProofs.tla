--------------------------- MODULE ExecArgsProofs ---------------------------
(***************************************************************************)
(* Proofs about ExecArgs for any pid space, argument lists and rules, and   *)
(* any size of the cache and the ring.                                      *)
(***************************************************************************)
EXTENDS ExecArgs, FiniteSetTheorems, TLAPS
----------------------------------------------------------------------------
LEMMA NoCallIsNone == NoCall.fate = "none" /\ \A c \in Call : c.fate # "none" /\ c # NoCall
<1>1. NoCall.fate = "none"
  BY DEF NoCall
<1>2. \A c \in Call : c.fate # "none"
  BY DEF Call, Own
<1>. QED  BY <1>1, <1>2

\* The arguments of a process are an array, whether or not it has an entry.
LEMMA ArgsOfType ==
  ASSUME CacheTypes, NEW p
  PROVE  ArgsOf(p) \in ArgArray
BY DEF ArgsOf, CacheTypes, NoArgs, ArgArray

\* A task in a call belongs to a process.
LEMMA CallThread ==
  ASSUME TaskTypes, NEW t \in Pids, call[t] # NoCall
  PROVE  tgid[t] \in Pids /\ call[t] \in Call
BY DEF TaskTypes

LEMMA PutType ==
  ASSUME CacheTypes, NEW p \in Pids, NEW argv \in ArgArray, HasRoom(p), cache' = Put(p, argv)
  PROVE  CacheTypes'
<1>1. DOMAIN cache' = DOMAIN cache \cup {p} /\ cache' \in [DOMAIN cache' -> ArgArray]
  BY DEF Put, CacheTypes
<1>2. /\ IsFiniteSet(DOMAIN cache \cup {p})
      /\ Cardinality(DOMAIN cache \cup {p}) =
           IF p \in DOMAIN cache THEN Cardinality(DOMAIN cache) ELSE Cardinality(DOMAIN cache) + 1
  BY FS_AddElement DEF CacheTypes
<1>3. Cardinality(DOMAIN cache) \in Nat
  BY FS_CardinalityType DEF CacheTypes
<1>4. Cardinality(DOMAIN cache') <= CacheCap
  BY <1>1, <1>2, <1>3, ExecArgsAssumption DEF HasRoom, CacheTypes
<1>. QED  BY <1>1, <1>2, <1>4 DEF CacheTypes

LEMMA TakenType ==
  ASSUME CacheTypes, NEW p \in Pids, cache' = Taken(p)
  PROVE  CacheTypes'
<1>1. DOMAIN cache' = DOMAIN cache \ {p} /\ cache' \in [DOMAIN cache' -> ArgArray]
  BY DEF Taken, Restrict, CacheTypes
<1>2. IsFiniteSet(DOMAIN cache') /\ Cardinality(DOMAIN cache') <= Cardinality(DOMAIN cache)
  BY <1>1, FS_Subset DEF CacheTypes
<1>3. Cardinality(DOMAIN cache) \in Nat /\ Cardinality(DOMAIN cache') \in Nat
  BY <1>2, FS_CardinalityType DEF CacheTypes
<1>. QED  BY <1>1, <1>2, <1>3, ExecArgsAssumption DEF CacheTypes

\* The event an exec makes.
StaleExec(t) ==
  \/ call[t].overtaken
  \/ /\ call[t].fate = "untraced"
     /\ tgid[t] \in spoiled \/ \E u \in Threads(tgid[t]) \ {t} : call[u].fate = "cached"

EventOf(t) ==
  [argv |-> ArgsOf(tgid[t]), call |-> IF StaleExec(t) THEN NoCall ELSE call[t]]

LEMMA EventType ==
  ASSUME TaskTypes, CacheTypes, NEW t \in Pids, call[t] # NoCall
  PROVE  EventOf(t) \in Event
<1>1. tgid[t] \in Pids /\ call[t] \in Call /\ ArgsOf(tgid[t]) \in ArgArray
  BY CallThread, ArgsOfType
<1>. QED  BY <1>1 DEF EventOf, Event

\* What is kept of a call of execve.
CallOf(p, args, argv) ==
  IF HasRoom(p)
  THEN [fate |-> "cached", args |-> args, whole |-> AllRead(args, argv), overtaken |-> FALSE]
  ELSE [fate |-> "full", overtaken |-> FALSE]

LEMMA CallOfType ==
  ASSUME NEW p, NEW args \in ArgLists, NEW argv
  PROVE  CallOf(p, args, argv) \in Call
<1>1. AllRead(args, argv) \in BOOLEAN
  BY DEF AllRead
<1>2. CASE HasRoom(p)
  <2>1. CallOf(p, args, argv) \in Own
    BY <1>1, <1>2 DEF CallOf, Own
  <2>. QED  BY <2>1 DEF Call
<1>3. CASE ~HasRoom(p)
  BY <1>3 DEF CallOf, Call
<1>. QED  BY <1>2, <1>3

LEMMA ExecveType ==
  ASSUME TypeOK, NEW t \in Pids, NEW args \in ArgLists, NEW argv \in Captures(args),
         Execve(t, args, argv)
  PROVE  TypeOK'
<1> DEFINE p == tgid[t]
<1>1. p \in Pids
  BY DEF Execve, TypeOK, TaskTypes
<1>2. CacheTypes'
  <2>1. CASE HasRoom(p)
    <3>1. cache' = Put(p, argv)
      BY <2>1 DEF Execve
    <3>2. argv \in ArgArray
      BY DEF Captures
    <3> HIDE DEF p
    <3>. QED  BY <1>1, <2>1, <3>1, <3>2, PutType DEF TypeOK
  <2>2. CASE ~HasRoom(p)
    BY <2>2 DEF Execve, TypeOK, CacheTypes
  <2>. QED  BY <2>1, <2>2
<1>3. TaskTypes'
  <2> DEFINE mine == CallOf(p, args, argv)
  <2>1. mine \in Call
    BY CallOfType
  <2>2. \A u \in Pids : call[u] # NoCall => [fate |-> call[u].fate, overtaken |-> TRUE] \in Call
    BY DEF TypeOK, TaskTypes, Call, Own
  <2>3. call' = [u \in Pids |-> IF u = t THEN mine
                   ELSE IF HasRoom(p) /\ tgid[u] = p /\ call[u] # NoCall
                        THEN [fate |-> call[u].fate, overtaken |-> TRUE]
                        ELSE call[u]]
    BY DEF Execve, CallOf
  <2> HIDE DEF mine
  <2>4. call' \in [Pids -> Call \cup {NoCall}]
    BY <2>1, <2>2, <2>3 DEF TypeOK, TaskTypes
  <2>5. \A u \in Pids : tgid[u] = NoPid => call'[u] = NoCall
    BY <1>1, <2>3, ExecArgsAssumption DEF TypeOK, TaskTypes
  <2>. QED  BY <2>4, <2>5 DEF Execve, TypeOK, TaskTypes
<1>. QED  BY <1>2, <1>3 DEF Execve, TypeOK, RingTypes

LEMMA ExecType ==
  ASSUME TypeOK, NEW t \in Pids, Exec(t)
  PROVE  TypeOK'
<1> DEFINE p == tgid[t]
<1>1. p \in Pids /\ call[t] # NoCall /\ call[t] \in Call
  BY CallThread DEF Exec, TypeOK
<1>2. TaskTypes'
  <2>1. /\ tgid' = [u \in Pids |-> IF u = p THEN p ELSE IF u \in Threads(p) THEN NoPid ELSE tgid[u]]
        /\ call' = [u \in Pids |-> IF u \in Threads(p) THEN NoCall ELSE call[u]]
    BY DEF Exec
  <2> HIDE DEF p
  <2>. QED  BY <1>1, <2>1, ExecArgsAssumption DEF TypeOK, TaskTypes
<1>3. CASE Len(ring) = RingCap
  <2>1. UNCHANGED <<ring, cache, running, anomaly>>
    BY <1>3 DEF Exec
  <2>2. spoiled' = spoiled \cup UNION {Spoils(u) : u \in Threads(p)}
    BY <1>3 DEF Exec
  <2>3. \A u \in Threads(p) : Spoils(u) \subseteq {p}
    BY DEF Spoils, Threads
  <2> HIDE DEF p
  <2>4. spoiled' \subseteq Pids
    BY <1>1, <2>2, <2>3 DEF TypeOK
  <2>. QED  BY <1>2, <2>1, <2>4 DEF TypeOK, CacheTypes, RingTypes
<1>4. CASE Len(ring) # RingCap
  <2>1. /\ spoiled' = spoiled \ {p} /\ UNCHANGED <<running, anomaly>>
        /\ ring' = Append(ring, EventOf(t)) /\ cache' = Taken(p)
    BY <1>4 DEF Exec, EventOf, StaleExec
  <2>2. EventOf(t) \in Event
    BY <1>1, EventType DEF TypeOK
  <2>3. RingTypes'
    <3>1. ring \in Seq(Event) /\ Len(ring) \in Nat /\ Len(ring) <= RingCap /\ RingCap \in Nat
      BY ExecArgsAssumption DEF TypeOK, RingTypes
    <3>2. ring' \in Seq(Event) /\ Len(ring') = Len(ring) + 1
      BY <2>1, <2>2, <3>1
    <3>. QED  BY <1>4, <3>1, <3>2 DEF RingTypes
  <2>4. CacheTypes'
    BY <1>1, <2>1, TakenType DEF TypeOK
  <2>. QED  BY <1>2, <2>1, <2>3, <2>4 DEF TypeOK
<1>. QED  BY <1>3, <1>4

LEMMA TypeStep ==
  ASSUME TypeOK, [Next]_vars
  PROVE  TypeOK'
<1>1. ASSUME NEW p \in Pids, StartProcess(p)
      PROVE  TypeOK'
  BY <1>1, ExecArgsAssumption DEF StartProcess, InUse, TypeOK, TaskTypes, CacheTypes, RingTypes
<1>2. ASSUME NEW t \in Pids, NEW u \in Pids, CreateThread(t, u)
      PROVE  TypeOK'
  BY <1>2, ExecArgsAssumption DEF CreateThread, InUse, TypeOK, TaskTypes, CacheTypes, RingTypes
<1>3. ASSUME NEW t \in Pids, Execveat(t)
      PROVE  TypeOK'
  <2>1. [fate |-> "untraced", overtaken |-> FALSE] \in Call
    BY DEF Call
  <2>. QED  BY <1>3, <2>1 DEF Execveat, TypeOK, TaskTypes, CacheTypes, RingTypes
<1>4. ASSUME NEW t \in Pids, Fail(t) \/ Exit(t)
      PROVE  TypeOK'
  <2>1. spoiled' \subseteq Pids
    <3>1. call[t].fate = "cached" => tgid[t] \in Pids
      BY CallThread, NoCallIsNone DEF TypeOK
    <3>. QED  BY <1>4, <3>1 DEF Fail, Exit, Spoils, TypeOK
  <2>. QED  BY <1>4, <2>1 DEF Fail, Exit, TypeOK, TaskTypes, CacheTypes, RingTypes
<1>5. CASE HandleExec
  <2>1. anomaly' \in BOOLEAN
    BY <1>5 DEF HandleExec, Suspicious
  <2>2. RingTypes'
    <3>1. ring \in Seq(Event) /\ ring # << >> /\ RingCap \in Nat
      BY <1>5, ExecArgsAssumption DEF HandleExec, TypeOK, RingTypes
    <3>2. Tail(ring) \in Seq(Event) /\ Len(Tail(ring)) = Len(ring) - 1 /\ Len(ring) \in Nat
      BY <3>1
    <3>. QED  BY <1>5, <3>1, <3>2 DEF HandleExec, TypeOK, RingTypes
  <2>. QED  BY <1>5, <2>1, <2>2 DEF HandleExec, TypeOK, TaskTypes, CacheTypes
<1>6. CASE Switch \/ UNCHANGED vars
  BY <1>6 DEF Switch, vars, TypeOK, TaskTypes, CacheTypes, RingTypes
<1>. QED  BY <1>1, <1>2, <1>3, <1>4, <1>5, <1>6, ExecveType, ExecType DEF Next

LEMMA TypeInit == Init => TypeOK
<1> SUFFICES ASSUME Init PROVE TypeOK
  OBVIOUS
<1>1. DOMAIN cache = {}
  BY DEF Init
<1>2. CacheTypes
  BY <1>1, FS_EmptySet, ExecArgsAssumption DEF CacheTypes
<1>3. TaskTypes /\ RingTypes
  BY ExecArgsAssumption DEF Init, TaskTypes, RingTypes
<1>. QED  BY <1>2, <1>3 DEF Init, TypeOK

\* The variables keep their types; the cache and the ring never hold more than
\* they have room for.
THEOREM TypeCorrect == Spec => []TypeOK
<1>1. TypeOK /\ [Next]_vars => TypeOK'
  BY TypeStep
<1>. QED  BY <1>1, TypeInit, PTL DEF Spec
----------------------------------------------------------------------------
EntriesInv == LeadersOwn /\ EntriesAccounted /\ CallsKept

\* A task in a cached call is in a call, and so a thread of a process.
LEMMA CachedThread ==
  ASSUME TaskTypes, NEW t \in Pids, call[t].fate = "cached"
  PROVE  call[t] # NoCall /\ tgid[t] \in Pids
BY NoCallIsNone, CallThread

\* A task that was free joins a process, new or not.
LEMMA JoinKeeps ==
  ASSUME TaskTypes, EntriesInv, UNCHANGED <<call, cache, spoiled>>,
         NEW u \in Pids, NEW p \in Pids, ~InUse(u), u = p \/ Threads(p) # {},
         tgid' = [tgid EXCEPT ![u] = p]
  PROVE  EntriesInv'
<1>1. /\ tgid[u] = NoPid /\ Threads(u) = {}
      /\ \A t \in Pids : t # u => tgid'[t] = tgid[t]
      /\ tgid'[u] = p
  BY DEF InUse, TaskTypes
<1>2. LeadersOwn'
  <2> SUFFICES ASSUME NEW q \in Pids, NEW t \in Pids, tgid'[t] = q
               PROVE  tgid'[q] \in {q, NoPid}
    BY DEF LeadersOwn, Threads
  <2>1. CASE t = u
    BY <1>1, <2>1 DEF EntriesInv, LeadersOwn
  <2>2. CASE t # u
    <3>1. t \in Threads(q)
      BY <1>1, <2>2 DEF Threads
    <3>. QED  BY <1>1, <3>1 DEF EntriesInv, LeadersOwn
  <2>. QED  BY <2>1, <2>2
<1>3. \A t \in Pids : call[t] # NoCall => t # u /\ tgid'[t] = tgid[t]
  BY <1>1 DEF TaskTypes
<1>4. EntriesAccounted'
  BY <1>3, CachedThread DEF EntriesInv, EntriesAccounted, Threads
<1>5. CallsKept'
  BY <1>3 DEF EntriesInv, CallsKept, EntryOf
<1>. QED  BY <1>2, <1>4, <1>5 DEF EntriesInv

LEMMA LeaveKeeps ==
  ASSUME TaskTypes, CacheTypes, EntriesInv, NEW t \in Pids, Fail(t) \/ Exit(t)
  PROVE  EntriesInv'
<1>1. /\ UNCHANGED cache
      /\ call' = [call EXCEPT ![t] = NoCall]
      /\ tgid' = tgid \/ tgid' = [tgid EXCEPT ![t] = NoPid]
      /\ spoiled' = spoiled \cup Spoils(t)
  BY DEF Fail, Exit
<1>2. LeadersOwn'
  BY <1>1, ExecArgsAssumption DEF EntriesInv, LeadersOwn, Threads, TaskTypes
<1>3. EntriesAccounted'
  <2> SUFFICES ASSUME NEW p \in DOMAIN cache, p \notin spoiled'
               PROVE  \E u \in Threads(p)' : call'[u].fate = "cached"
    BY <1>1 DEF EntriesAccounted
  <2>1. PICK u \in Threads(p) : call[u].fate = "cached"
    BY <1>1 DEF EntriesInv, EntriesAccounted
  <2>2. u # t
    BY <1>1, <2>1 DEF Spoils, Threads
  <2>. QED  BY <1>1, <2>1, <2>2 DEF Threads, TaskTypes
<1>4. CallsKept'
  BY <1>1 DEF EntriesInv, CallsKept, EntryOf, TaskTypes
<1>. QED  BY <1>2, <1>3, <1>4 DEF EntriesInv

LEMMA ExecveatKeeps ==
  ASSUME TaskTypes, EntriesInv, NEW t \in Pids, Execveat(t)
  PROVE  EntriesInv'
<1>1. /\ UNCHANGED <<tgid, cache, spoiled>>
      /\ call' = [call EXCEPT ![t] = [fate |-> "untraced", overtaken |-> FALSE]]
      /\ call[t].fate = "none"
  BY NoCallIsNone DEF Execveat
<1>2. EntriesAccounted'
  BY <1>1 DEF EntriesInv, EntriesAccounted, Threads, TaskTypes
<1>3. CallsKept'
  BY <1>1 DEF EntriesInv, CallsKept, EntryOf, TaskTypes
<1>. QED  BY <1>1, <1>2, <1>3 DEF EntriesInv, LeadersOwn, Threads

LEMMA ExecveKeeps ==
  ASSUME TaskTypes, EntriesInv, NEW t \in Pids, NEW args \in ArgLists,
         NEW argv \in Captures(args), Execve(t, args, argv)
  PROVE  EntriesInv'
<1> DEFINE p == tgid[t]
           mine == CallOf(p, args, argv)
<1>1. /\ p \in Pids /\ UNCHANGED <<tgid, spoiled>> /\ call[t] = NoCall
      /\ call'[t] = mine
      /\ \A u \in Pids \ {t} :
           call'[u] = IF HasRoom(p) /\ tgid[u] = p /\ call[u] # NoCall
                      THEN [fate |-> call[u].fate, overtaken |-> TRUE] ELSE call[u]
      /\ cache' = IF HasRoom(p) THEN Put(p, argv) ELSE cache
  BY DEF Execve, TaskTypes, CallOf
<1>2. /\ mine.fate = IF HasRoom(p) THEN "cached" ELSE "full"
      /\ HasRoom(p) => mine.args = args /\ (mine.whole => AllRead(args, argv))
  BY DEF CallOf
<1>3. \A u \in Pids \ {t} :
        /\ call[u].fate = "cached" => call'[u].fate = "cached"
        /\ call'[u] # NoCall /\ ~call'[u].overtaken =>
             /\ call'[u] = call[u]
             /\ ~HasRoom(p) \/ tgid[u] # p
  <2> SUFFICES ASSUME NEW u \in Pids \ {t}, HasRoom(p), tgid[u] = p, call[u] # NoCall
               PROVE  /\ call'[u].fate = call[u].fate
                      /\ call'[u].overtaken
    BY <1>1
  <2>1. call'[u] = [fate |-> call[u].fate, overtaken |-> TRUE]
    BY <1>1
  <2>. QED  BY <2>1
<1> HIDE DEF mine
<1>4. EntriesAccounted'
  <2> SUFFICES ASSUME NEW q \in DOMAIN cache', q \notin spoiled
               PROVE  \E u \in Threads(q)' : call'[u].fate = "cached"
    BY <1>1 DEF EntriesAccounted
  <2>1. CASE HasRoom(p) /\ q = p
    BY <1>1, <1>2, <2>1 DEF Threads
  <2>2. CASE ~(HasRoom(p) /\ q = p)
    <3>1. q \in DOMAIN cache
      BY <1>1, <2>2 DEF Put
    <3>2. PICK u \in Threads(q) : call[u].fate = "cached"
      BY <3>1 DEF EntriesInv, EntriesAccounted
    <3>3. u # t
      BY <1>1, <3>2, NoCallIsNone
    <3>. QED  BY <1>1, <1>3, <3>2, <3>3 DEF Threads
  <2>. QED  BY <2>1, <2>2
<1>5. CallsKept'
  <2> SUFFICES ASSUME NEW u \in Pids, call'[u] # NoCall, ~call'[u].overtaken
               PROVE  EntryOf(u)'
    BY DEF CallsKept
  <2>1. CASE u = t
    <3>1. CASE HasRoom(p)
      BY <1>1, <1>2, <2>1, <3>1 DEF EntryOf, Put
    <3>2. CASE ~HasRoom(p)
      BY <1>1, <1>2, <2>1, <3>2 DEF EntryOf, HasRoom
    <3>. QED  BY <3>1, <3>2
  <2>2. CASE u # t
    <3>1. EntryOf(u) /\ call'[u] = call[u] /\ (~HasRoom(p) \/ tgid[u] # p)
      BY <1>3, <2>2 DEF EntriesInv, CallsKept
    <3>. QED  BY <1>1, <3>1 DEF EntryOf, Put
  <2>. QED  BY <2>1, <2>2
<1>. QED  BY <1>1, <1>4, <1>5 DEF EntriesInv, LeadersOwn, Threads

LEMMA ExecKeeps ==
  ASSUME TaskTypes, CacheTypes, EntriesInv, NEW t \in Pids, Exec(t)
  PROVE  EntriesInv'
<1> DEFINE p == tgid[t]
<1>1. /\ p \in Pids /\ t \in Threads(p) /\ tgid[p] \in {p, NoPid}
      /\ tgid' = [u \in Pids |-> IF u = p THEN p ELSE IF u \in Threads(p) THEN NoPid ELSE tgid[u]]
      /\ call' = [u \in Pids |-> IF u \in Threads(p) THEN NoCall ELSE call[u]]
      /\ NoPid \notin Pids
  <2>1. p \in Pids /\ t \in Threads(p)
    BY CallThread DEF Exec, Threads
  <2>. QED  BY <2>1, ExecArgsAssumption DEF Exec, EntriesInv, LeadersOwn
<1>2. \/ /\ spoiled' = spoiled \cup UNION {Spoils(u) : u \in Threads(p)}
         /\ UNCHANGED cache
      \/ spoiled' = spoiled \ {p} /\ cache' = Taken(p)
  BY DEF Exec
<1> HIDE DEF p
<1>3. LeadersOwn'
  BY <1>1 DEF EntriesInv, LeadersOwn, Threads
<1>4. \A u \in Pids : call[u] # NoCall /\ tgid[u] # p =>
        u # p /\ u \notin Threads(p) /\ tgid'[u] = tgid[u] /\ call'[u] = call[u]
  BY <1>1 DEF TaskTypes, Threads
<1>5. EntriesAccounted'
  <2> SUFFICES ASSUME NEW q \in DOMAIN cache', q \notin spoiled'
               PROVE  \E u \in Threads(q)' : call'[u].fate = "cached"
    BY DEF EntriesAccounted
  <2>1. q \in DOMAIN cache /\ q \in Pids
    BY <1>2 DEF Taken, Restrict, CacheTypes
  <2>2. q # p /\ q \notin spoiled
    <3>1. CASE UNCHANGED cache /\ spoiled' = spoiled \cup UNION {Spoils(u) : u \in Threads(p)}
      <4>1. ASSUME q = p PROVE FALSE
        <5>1. PICK u \in Threads(p) : call[u].fate = "cached"
          BY <2>1, <3>1, <4>1 DEF EntriesInv, EntriesAccounted
        <5>2. p \in Spoils(u)
          BY <5>1 DEF Spoils, Threads
        <5>. QED  BY <3>1, <4>1, <5>1, <5>2
      <4>. QED  BY <3>1, <4>1
    <3>2. CASE spoiled' = spoiled \ {p} /\ cache' = Taken(p)
      BY <3>2 DEF Taken, Restrict
    <3>. QED  BY <1>2, <3>1, <3>2
  <2>3. PICK u \in Threads(q) : call[u].fate = "cached"
    BY <2>1, <2>2 DEF EntriesInv, EntriesAccounted
  <2>. QED  BY <1>4, <2>2, <2>3, CachedThread DEF Threads
<1>6. CallsKept'
  <2> SUFFICES ASSUME NEW u \in Pids, call'[u] # NoCall, ~call'[u].overtaken
               PROVE  EntryOf(u)'
    BY DEF CallsKept
  <2>1. u \notin Threads(p) /\ call'[u] = call[u] /\ tgid[u] # p
    BY <1>1 DEF Threads
  <2>2. tgid'[u] = tgid[u] /\ EntryOf(u)
    BY <1>4, <2>1 DEF EntriesInv, CallsKept
  <2>3. /\ tgid[u] \in DOMAIN cache' <=> tgid[u] \in DOMAIN cache
        /\ tgid[u] \in DOMAIN cache => cache'[tgid[u]] = cache[tgid[u]]
    BY <1>2, <2>1 DEF Taken, Restrict
  <2>. QED  BY <2>1, <2>2, <2>3 DEF EntryOf
<1>. QED  BY <1>3, <1>5, <1>6 DEF EntriesInv

LEMMA EntriesStep ==
  ASSUME TypeOK, EntriesInv, [Next]_vars
  PROVE  EntriesInv'
<1>1. ASSUME NEW p \in Pids, StartProcess(p)
      PROVE  EntriesInv'
  BY <1>1, JoinKeeps DEF StartProcess, TypeOK
<1>2. ASSUME NEW t \in Pids, NEW u \in Pids, CreateThread(t, u)
      PROVE  EntriesInv'
  <2>1. tgid[t] \in Pids /\ Threads(tgid[t]) # {}
    BY <1>2 DEF CreateThread, TypeOK, TaskTypes, Threads
  <2>. QED  BY <1>2, <2>1, JoinKeeps DEF CreateThread, TypeOK
<1>3. CASE HandleExec \/ Switch \/ UNCHANGED vars
  BY <1>3 DEF HandleExec, Switch, vars, EntriesInv, LeadersOwn, EntriesAccounted, CallsKept, EntryOf, Threads
<1>. QED  BY <1>1, <1>2, <1>3, LeaveKeeps, ExecveatKeeps, ExecveKeeps, ExecKeeps DEF Next, TypeOK

LEMMA EntriesInvariant == Spec => []EntriesInv
<1>1. Init => EntriesInv
  BY NoCallIsNone, ExecArgsAssumption DEF Init, EntriesInv, LeadersOwn, EntriesAccounted, CallsKept, Threads
<1>2. TypeOK /\ EntriesInv /\ [Next]_vars => EntriesInv'
  BY EntriesStep
<1>. QED  BY TypeCorrect, <1>1, <1>2, PTL DEF Spec

\* Calls that succeed leave nothing in the cache, whatever threads race.
THEOREM CacheIsFreed == Spec => []OnlySpoiledEntriesStay
<1>1. TypeOK /\ EntriesInv => OnlySpoiledEntriesStay
  BY DEF TypeOK, CacheTypes, EntriesInv, EntriesAccounted, OnlySpoiledEntriesStay, Calling
<1>. QED  BY TypeCorrect, EntriesInvariant, <1>1, PTL
----------------------------------------------------------------------------
OwnEvent(e) ==
  /\ e.call \in Own => /\ e.argv \in Captures(e.call.args)
                       /\ e.call.whole => AllRead(e.call.args, e.argv)
  /\ e.call.fate \in {"full", "untraced"} => e.argv = NoArgs

LEMMA OwnEvents == OwnArguments <=> \A i \in 1..Len(ring) : OwnEvent(ring[i])
BY DEF OwnArguments, OwnEvent

\* An exec makes an event with the arguments of its call, if it names one.
LEMMA ExecOwn ==
  ASSUME TypeOK, EntriesInv, NEW t \in Pids, call[t] # NoCall
  PROVE  OwnEvent(EventOf(t))
<1> DEFINE p == tgid[t]
<1>1. CASE StaleExec(t)
  <2>1. EventOf(t).call = NoCall
    BY <1>1 DEF EventOf
  <2>2. NoCall \notin Own /\ NoCall.fate = "none"
    BY NoCallIsNone DEF Call
  <2>. QED  BY <2>1, <2>2 DEF OwnEvent
<1>2. CASE ~StaleExec(t)
  <2>1. EventOf(t).call = call[t] /\ EventOf(t).argv = ArgsOf(p)
    BY <1>2 DEF EventOf
  <2>2. EntryOf(t)
    BY <1>2 DEF StaleExec, EntriesInv, CallsKept
  <2>3. call[t] \in Own => call[t].fate = "cached"
    BY DEF Own
  <2>4. call[t].fate = "untraced" => p \notin DOMAIN cache
    <3>1. call[t].fate = "untraced" =>
            p \notin spoiled /\ \A u \in Threads(p) : call[u].fate # "cached"
      BY <1>2 DEF StaleExec
    <3>. QED  BY <3>1 DEF EntriesInv, EntriesAccounted
  <2>. QED  BY <2>1, <2>2, <2>3, <2>4 DEF EntryOf, OwnEvent, ArgsOf
<1>. QED  BY <1>1, <1>2

LEMMA OwnStep ==
  ASSUME TypeOK, EntriesInv, OwnArguments, [Next]_vars
  PROVE  OwnArguments'
<1>0. ring \in Seq(Event) /\ \A i \in 1..Len(ring) : OwnEvent(ring[i])
  BY OwnEvents DEF TypeOK, RingTypes
<1>1. ASSUME NEW t \in Pids, Exec(t), ~UNCHANGED ring
      PROVE  OwnArguments'
  <2>1. ring' = Append(ring, EventOf(t)) /\ call[t] # NoCall
    BY <1>1 DEF Exec, EventOf, StaleExec
  <2>2. OwnEvent(EventOf(t)) /\ EventOf(t) \in Event
    BY <2>1, ExecOwn, EventType DEF TypeOK
  <2>3. \A i \in 1..Len(ring') : OwnEvent(ring'[i])
    BY <1>0, <2>1, <2>2
  <2>. QED  BY <2>3 DEF OwnArguments, OwnEvent
<1>2. CASE HandleExec
  <2>1. ring # << >> /\ ring' = Tail(ring)
    BY <1>2 DEF HandleExec
  <2>2. \A i \in 1..Len(ring') : OwnEvent(ring'[i])
    BY <1>0, <2>1
  <2>. QED  BY <2>2 DEF OwnArguments, OwnEvent
<1>3. CASE UNCHANGED ring
  BY <1>3 DEF OwnArguments
<1>. QED  BY <1>1, <1>2, <1>3 DEF Next, StartProcess, CreateThread, Execve, Execveat, Fail, Exit, Switch, vars

\* An exec event carries the arguments of its own call, less the words that could
\* not be read, or none if they were not cached, unless another thread or an
\* earlier call of the process left its own in the cache.
THEOREM ArgumentsAreOwn == Spec => []OwnArguments
<1>1. Init => OwnArguments
  BY DEF Init, OwnArguments
<1>2. TypeOK /\ EntriesInv /\ OwnArguments /\ [Next]_vars => OwnArguments'
  BY OwnStep
<1>. QED  BY TypeCorrect, EntriesInvariant, <1>1, <1>2, PTL DEF Spec
============================================================================
