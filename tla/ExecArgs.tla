------------------------------ MODULE ExecArgs ------------------------------
(***************************************************************************)
(* The arguments an exec event carries.  sys_enter_execve (proc.bpf.c)     *)
(* keeps the arguments of a call in exec_args_cache under the process id;  *)
(* sched_process_exec, if the call succeeds, moves them from there into    *)
(* the event; the worker (proc.c) joins them to a text, keeps it in the    *)
(* table and looks for suspicious commands in it.  Between the two points  *)
(* calls fail, threads of one process race, processes die, ids are reused, *)
(* events are dropped, words cannot be read, and monitoring stops.  Every  *)
(* program executed here is one of an enabled configuration: the worker    *)
(* does not look at the events of others.                                  *)
(***************************************************************************)
EXTENDS Naturals, SequencesExt

CONSTANTS
  Pids,       \* the pid space (thread ids and process ids share it)
  NoPid,      \* marks a free id
  Words, Blank,  \* words of an argument list, and the empty one
  ArgLists,   \* the argument lists of the calls
  MaxArgs,    \* ARGV_MAX_ARGS
  MaxText,    \* words that fit into ARGV_MAX_LEN
  Rules,      \* the patterns of detect_suspicious_exec
  CacheCap,   \* entries exec_args_cache holds
  RingCap     \* events the ring buffer holds

\* A rule is a set of alternatives, of each of which one pattern must occur.
ASSUME ExecArgsAssumption ==
  /\ NoPid \notin Pids /\ Blank \notin Words
  /\ ArgLists \subseteq Seq(Words \cup {Blank})
  /\ \A rule \in Rules : \A alternatives \in rule : alternatives \subseteq Seq(Words)
  /\ MaxArgs \in Nat /\ MaxText \in Nat
  /\ CacheCap \in Nat \ {0} /\ RingCap \in Nat \ {0}

VARIABLES
  tgid,     \* kernel: thread group of each live task, NoPid for a free id
  call,     \* kernel: the exec call each task is in
  cache,    \* exec_args_cache
  ring,     \* exec events not yet consumed, each with the call it is of
  running,  \* ebpf_running
  anomaly,  \* whether the exec consumed last was logged as an anomaly
  spoiled   \* history: processes with a call that ended without an event

vars == <<tgid, call, cache, ring, running, anomaly, spoiled>>
----------------------------------------------------------------------------
\* struct exec_args: a fixed number of words, the unused ones empty.
ArgArray == [1..MaxArgs -> Words \cup {Blank}]
NoArgs == [i \in 1..MaxArgs |-> Blank]

\* What handle_execve may read of an argument list.  A word, or the pointer to it,
\* that cannot be read (it is not in memory then) is left empty.  The loop passes
\* over the pointer that ends the list and reads on: what memory holds there.
Captures(args) ==
  {argv \in ArgArray :
     \A i \in 1..MaxArgs : /\ i <= Len(args) => argv[i] \in {args[i], Blank}
                          /\ i = Len(args) + 1 => argv[i] = Blank}

\* Each word of the list was read, if it is not too long.
AllRead(args, argv) == \A i \in 1..MaxArgs : i <= Len(args) => argv[i] = args[i]

\* A call of execve whose arguments were cached (whole: each word was read), one
\* that found no room (full), or one of execveat, which is not traced; overtaken
\* once another thread of the process has cached its own arguments.
Own == [fate : {"cached"}, args : ArgLists, whole : BOOLEAN, overtaken : {FALSE}]
Call == Own \cup [fate : {"cached", "full", "untraced"}, overtaken : BOOLEAN]
NoCall == [fate |-> "none"]

\* call: the one that made the event, if the entry of the process can only be its.
Event == [argv : ArgArray, call : Call \cup {NoCall}]

Threads(p) == {t \in Pids : tgid[t] = p}
InUse(p) == tgid[p] # NoPid \/ Threads(p) # {}
Calling == {p \in Pids : \E t \in Threads(p) : call[t].fate \in {"cached", "full"}}

Init ==
  /\ tgid = [p \in Pids |-> NoPid]
  /\ call = [p \in Pids |-> NoCall]
  /\ cache = << >>
  /\ ring = << >>
  /\ running = FALSE
  /\ anomaly = FALSE
  /\ spoiled = {}
----------------------------------------------------------------------------
(* The kernel and the BPF programs.                                         *)

\* A process starts; a task creates a thread of its process.
StartProcess(p) ==
  /\ ~InUse(p)
  /\ tgid' = [tgid EXCEPT ![p] = p]
  /\ UNCHANGED <<call, cache, ring, running, anomaly, spoiled>>

CreateThread(t, u) ==
  /\ tgid[t] # NoPid /\ ~InUse(u)
  /\ tgid' = [tgid EXCEPT ![u] = tgid[t]]
  /\ UNCHANGED <<call, cache, ring, running, anomaly, spoiled>>

\* Mutant: a new entry is made also when the map is full.
HasRoomAlways(p) == TRUE

\* bpf_map_update_elem replaces an entry, or makes one while there is room.
HasRoom(p) == p \in DOMAIN cache \/ Cardinality(DOMAIN cache) < CacheCap

\* Mutant: an entry is made but not replaced (BPF_NOEXIST).
PutIfAbsent(p, argv) ==
  [q \in DOMAIN cache \cup {p} |-> IF q \in DOMAIN cache THEN cache[q] ELSE argv]

Put(p, argv) ==
  [q \in DOMAIN cache \cup {p} |-> IF q = p THEN argv ELSE cache[q]]

\* handle_execve, at the entry of the call.
Execve(t, args, argv) ==
  LET p == tgid[t]
      mine == IF HasRoom(p)
              THEN [fate |-> "cached", args |-> args, whole |-> AllRead(args, argv),
                    overtaken |-> FALSE]
              ELSE [fate |-> "full", overtaken |-> FALSE]
  IN  /\ tgid[t] # NoPid /\ call[t] = NoCall
      /\ cache' = IF HasRoom(p) THEN Put(p, argv) ELSE cache
      /\ call' = [u \in Pids |->
           IF u = t THEN mine
           ELSE IF HasRoom(p) /\ tgid[u] = p /\ call[u] # NoCall
                THEN [fate |-> call[u].fate, overtaken |-> TRUE]
                ELSE call[u]]
      /\ UNCHANGED <<tgid, ring, running, anomaly, spoiled>>

\* execveat has no handler.
Execveat(t) ==
  /\ tgid[t] # NoPid /\ call[t] = NoCall
  /\ call' = [call EXCEPT ![t] = [fate |-> "untraced", overtaken |-> FALSE]]
  /\ UNCHANGED <<tgid, cache, ring, running, anomaly, spoiled>>

\* The process of a task that leaves a traced call without an event.
Spoils(t) == IF call[t].fate = "cached" THEN {tgid[t]} ELSE {}

\* The call fails and returns; no handler runs.
Fail(t) ==
  /\ call[t] # NoCall
  /\ call' = [call EXCEPT ![t] = NoCall]
  /\ spoiled' = spoiled \cup Spoils(t)
  /\ UNCHANGED <<tgid, cache, ring, running, anomaly>>

\* A task exits, possibly killed during its call.
Exit(t) ==
  /\ tgid[t] # NoPid
  /\ tgid' = [tgid EXCEPT ![t] = NoPid]
  /\ call' = [call EXCEPT ![t] = NoCall]
  /\ spoiled' = spoiled \cup Spoils(t)
  /\ UNCHANGED <<cache, ring, running, anomaly>>

\* get_exec_info: the arguments of the process, which leave the cache.
ArgsOf(p) == IF p \in DOMAIN cache THEN cache[p] ELSE NoArgs

\* Mutant: the arguments stay in the cache.
TakenNothing(p) == cache

Taken(p) == Restrict(cache, DOMAIN cache \ {p})

\* The call succeeds: the other threads of the process are gone, the task goes
\* on as its leader, and handle_exec runs, which does nothing if the ring is full.
Exec(t) ==
  LET p == tgid[t]
      others == Threads(p) \ {t}
      stale == \/ call[t].overtaken
               \/ /\ call[t].fate = "untraced"
                  /\ p \in spoiled \/ \E u \in others : call[u].fate = "cached"
      event == [argv |-> ArgsOf(p), call |-> IF stale THEN NoCall ELSE call[t]]
      dropped == Len(ring) = RingCap
  IN  /\ call[t] # NoCall
      /\ tgid' = [u \in Pids |-> IF u = p THEN p ELSE IF u \in Threads(p) THEN NoPid ELSE tgid[u]]
      /\ call' = [u \in Pids |-> IF u \in Threads(p) THEN NoCall ELSE call[u]]
      /\ IF dropped
         THEN /\ spoiled' = spoiled \cup UNION {Spoils(u) : u \in Threads(p)}
              /\ UNCHANGED <<ring, cache>>
         ELSE /\ spoiled' = spoiled \ {p}
              /\ ring' = Append(ring, event)
              /\ cache' = Taken(p)
      /\ UNCHANGED <<running, anomaly>>
----------------------------------------------------------------------------
(* The worker.                                                              *)

\* Mutant: the words after an empty one are not looked at.
JoinedToFirstBlank(argv) ==
  LET firstBlank == {i \in 1..MaxArgs : argv[i] = Blank}
  IN  IF firstBlank = {} THEN argv ELSE SubSeq(argv, 1, Min(firstBlank) - 1)

\* join_event_argv: the words that are not empty, as many as fit.  (The next one
\* is cut off, which is left out.)
Joined(argv) ==
  LET words == SelectSeq(argv, LAMBDA w : w # Blank)
  IN  SubSeq(words, 1, IF Len(words) <= MaxText THEN Len(words) ELSE MaxText)

\* strstr: the pattern is somewhere in the text.
Occurs(pattern, text) ==
  \E i \in 1 .. Len(text) + 1 : IsPrefix(pattern, SubSeq(text, i, Len(text)))

\* contains_any, detect_suspicious_exec: one of the rules is met.
Suspicious(text) ==
  \E rule \in Rules : \A alternatives \in rule : \E p \in alternatives : Occurs(p, text)

\* handle_event and, if monitoring runs, proc_event_exec for a process of an
\* enabled configuration.
HandleExec ==
  /\ ring # << >>
  /\ ring' = Tail(ring)
  /\ anomaly' = (running /\ Suspicious(Joined(Head(ring).argv)))
  /\ UNCHANGED <<tgid, call, cache, running, spoiled>>

\* handle_command accepts a start, or a stop.
Switch ==
  /\ running' = ~running
  /\ UNCHANGED <<tgid, call, cache, ring, anomaly, spoiled>>

Next ==
  \/ \E p \in Pids : StartProcess(p)
  \/ \E t, u \in Pids : CreateThread(t, u)
  \/ \E t \in Pids, args \in ArgLists : \E argv \in Captures(args) : Execve(t, args, argv)
  \/ \E t \in Pids : Execveat(t) \/ Fail(t) \/ Exit(t) \/ Exec(t)
  \/ HandleExec \/ Switch

Spec == Init /\ [][Next]_vars
----------------------------------------------------------------------------
TaskTypes ==
  /\ tgid \in [Pids -> Pids \cup {NoPid}]
  /\ call \in [Pids -> Call \cup {NoCall}]
  /\ \A t \in Pids : tgid[t] = NoPid => call[t] = NoCall

CacheTypes ==
  /\ DOMAIN cache \subseteq Pids /\ cache \in [DOMAIN cache -> ArgArray]
  /\ IsFiniteSet(DOMAIN cache) /\ Cardinality(DOMAIN cache) <= CacheCap

RingTypes == ring \in Seq(Event) /\ Len(ring) <= RingCap

\* The variables have their types, the cache and the ring their capacities.
TypeOK ==
  /\ TaskTypes /\ CacheTypes /\ RingTypes
  /\ running \in BOOLEAN /\ anomaly \in BOOLEAN /\ spoiled \subseteq Pids

\* An exec event has the arguments of its own call: of each word the word or, if
\* not all were read, possibly nothing, and possibly more after them.  It has none
\* if there was no room or the call is not traced.  It has those of another call
\* only if a thread of the process replaced them, or, in an untraced call, if such
\* a thread or an earlier call of the process id left them.
OwnArguments ==
  \A i \in 1..Len(ring) :
    LET e == ring[i]
    IN  /\ e.call \in Own => /\ e.argv \in Captures(e.call.args)
                             /\ e.call.whole => AllRead(e.call.args, e.argv)
        /\ e.call.fate \in {"full", "untraced"} => e.argv = NoArgs

\* The cache is not used up by calls that succeed: what it holds is of processes
\* in a call, or of processes with a call that failed, was killed or had its
\* event dropped.  So arguments are lost for lack of room only if as many
\* processes as there are entries are in one of these two cases.
OnlySpoiledEntriesStay == DOMAIN cache \subseteq Calling \cup spoiled

\* While monitoring runs, an exec whose event has its own arguments, each word read,
\* is logged as an anomaly if the words of the call meet a rule; and only then,
\* unless the list is so short that handle_execve reads words beyond its end.
AnomaliesAreOfTheCall ==
  [][HandleExec /\ running /\ Head(ring).call \in Own /\ Head(ring).call.whole
       => LET args == Head(ring).call.args
              words == SelectSeq(args, LAMBDA w : w # Blank)
          IN  Len(words) <= MaxText /\ Len(args) <= MaxArgs
                => /\ Suspicious(words) => anomaly'
                   /\ anomaly' /\ Len(args) + 1 >= MaxArgs => Suspicious(words)]_vars
----------------------------------------------------------------------------
(* Why OwnArguments and OnlySpoiledEntriesStay hold.                        *)

\* The id of a process is not given to another task while it has threads.
LeadersOwn == \A p \in Pids : Threads(p) # {} => tgid[p] \in {p, NoPid}

\* An entry is of a process in a cached call, or was left by one.
EntriesAccounted ==
  \A p \in DOMAIN cache : p \in spoiled \/ \E t \in Threads(p) : call[t].fate = "cached"

\* Until another thread of the process overtakes it, a cached call has its own
\* entry, and a call that found no room has none.
EntryOf(t) ==
  LET p == tgid[t]
  IN  /\ call[t].fate = "cached" =>
           /\ p \in DOMAIN cache
           /\ cache[p] \in Captures(call[t].args)
           /\ call[t].whole => AllRead(call[t].args, cache[p])
      /\ call[t].fate = "full" => p \notin DOMAIN cache

CallsKept == \A t \in Pids : call[t] # NoCall /\ ~call[t].overtaken => EntryOf(t)
============================================================================
