----------------------------- MODULE FsMonitor -----------------------------
(***************************************************************************)
(* The fs worker (fs.c).  Its loop takes one command and then drains its    *)
(* inotify queue.  Every command reads the configuration directory again;   *)
(* start and stop also write a configuration file and rebuild the watches.  *)
(* A watch is an entry that packs a watch descriptor and an index into the  *)
(* array of configurations into one int.  The kernel may refuse to open an  *)
(* inotify instance or to watch a directory.  Files appear, change and      *)
(* vanish, and so do the watched directories.                               *)
(***************************************************************************)
EXTENDS FsEvents, Integers, FiniteSets

CONSTANTS
  NumFiles,    \* files of the configuration directory, in readdir order
  Dirs,        \* watched directories
  PathOf,      \* the PATH of each configuration file
  MaxConfigs,  \* MAX_CONFIGS
  WdLimit,     \* the largest descriptor that packs without loss: 2^15 - 1
  QueueCap,    \* events the kernel queues, before it notes that it drops some
  MaxWd,       \* bound on the descriptors handed out
  MaxFaults    \* bound on deaths, failed calls, and changes from outside

Files == 1..NumFiles
Slots == 1..MaxConfigs

VARIABLES
  disk,          \* each file: absent, torn (cut off by its writer), or its switch
  configs,       \* configs[]: what the worker knows of the files it read
  config_count,
  watches,       \* watch_config[]: descriptor and index of each watch
  inotify_fd,    \* whether inotify_fd is an open inotify instance
  wdOf,          \* kernel: the descriptor that watches a directory, 0 if none
  nextWd,        \* kernel: the descriptor it hands out next
  queue,         \* kernel: inotify events not yet read
  dirs,          \* the directories that exist, at their paths
  phase,         \* the worker's position in its loop: "recv" or "poll"
  built,         \* history: the configurations when the watches were built
  steady,        \* history: directories that have existed ever since, and that
                 \* the kernel did not refuse to watch then
  faults         \* history: deaths, failed calls, changes of files and directories

configVars == <<configs, config_count>>
watchVars == <<watches, inotify_fd, wdOf, nextWd, built, steady>>
vars == <<disk, configs, config_count, watches, inotify_fd, wdOf, nextWd, queue, dirs,
          phase, built, steady, faults, events, event_count, event_cursor>>
----------------------------------------------------------------------------
Config == [file : Files, on : BOOLEAN]
\* A zeroed element of configs[]: its path is empty.
NoConfig == [file |-> 0, on |-> FALSE]

\* IN_Q_OVERFLOW: it is of no directory, and its wd is -1.
Overflow == [wd |-> -1, op |-> "event"]

InotifyEvent == [wd : Nat, dir : Dirs, op : {"change", "event"}] \cup {Overflow}

\* What record_event stores: the configuration's fields, and the operation.
\* mask_to_op names a change; IN_IGNORED and IN_Q_OVERFLOW fall through to "event".
FsRecords == [config : Config \cup {NoConfig}, op : {"change", "event"}]

ASSUME FsAssumption ==
  /\ NumFiles \in Nat \ {0}
  /\ PathOf \in [Files -> Dirs]
  /\ MaxConfigs \in Nat \ {0}
  /\ WdLimit \in Nat /\ MaxConfigs <= WdLimit + 1
  /\ QueueCap \in Nat \ {0}
  /\ IsFiniteSet(Dirs) /\ MaxWd \in Nat /\ MaxWd >= Cardinality(Dirs)
  /\ MaxFaults \in Nat
  /\ Records = FsRecords

\* The i-th smallest of a finite set of numbers.
Nth(S, i) == CHOOSE x \in S : Cardinality({y \in S : y <= x}) = i

\* parse_config_file counts a file with a name and a path, in readdir order.
\* Once MAX_CONFIGS are counted no more files are read.
Whole(d) == {f \in Files : d[f] \in {"on", "off"}}
Count(d) == IF Cardinality(Whole(d)) < MaxConfigs THEN Cardinality(Whole(d)) ELSE MaxConfigs

\* load_configs: elements beyond the count keep what they held, except that a
\* torn file that is read last leaves a zeroed one.
Load(d, old) ==
  LET n == Count(d)
      blank == \E f \in Files : d[f] = "torn" /\ (n > 0 => f > Nth(Whole(d), n))
  IN  [i \in Slots |-> IF i <= n THEN [file |-> Nth(Whole(d), i),
                                      on |-> d[Nth(Whole(d), i)] = "on"]
                       ELSE IF i = n + 1 /\ blank THEN NoConfig
                       ELSE old[i]]

Loaded == SubSeq(configs, 1, config_count)

\* (wd << 16) | i, shifted back: the low half of the descriptor, with a sign.
Unpacked(wd) ==
  LET low == wd % (2 * (WdLimit + 1))
  IN  IF low <= WdLimit THEN low ELSE low - 2 * (WdLimit + 1)

\* The events of directories that wait to be read.
Pending == {queue[i] : i \in DOMAIN queue} \ {Overflow}

Noted == \E i \in DOMAIN queue : queue[i] = Overflow

\* The kernel drops what its queue has no room for, and notes that once.
Enqueue(es) ==
  LET n == CHOOSE n \in 0..Len(es) :
             /\ n = 0 \/ Len(queue) + n <= QueueCap
             /\ n = Len(es) \/ Len(queue) + n >= QueueCap
  IN  queue' = queue \o SubSeq(es, 1, n)
                     \o (IF n = Len(es) \/ Noted THEN <<>> ELSE <<Overflow>>)

\* The configurations, among the first n of cfgs, that are on, and whose
\* directory exists.
Watchable(cfgs, n) == {i \in 1..n : cfgs[i].on /\ PathOf[cfgs[i].file] \in dirs}

\* Those of the watched configurations for which the kernel needs a new
\* descriptor: two of one directory share it.
NeedsWd(cfgs, watched, kept) ==
  {i \in watched :
     /\ kept[PathOf[cfgs[i].file]] = 0
     /\ \A j \in watched : PathOf[cfgs[j].file] = PathOf[cfgs[i].file] => i <= j}

\* What the kernel hands out: kept are the descriptors still there, wd the next.
Descriptors(cfgs, watched, kept, wd) ==
  LET new == NeedsWd(cfgs, watched, kept)
  IN  [d \in Dirs |->
         IF \E i \in new : PathOf[cfgs[i].file] = d
         THEN LET i == CHOOSE i \in new : PathOf[cfgs[i].file] = d
              IN  wd + Cardinality({j \in new : j < i})
         ELSE kept[d]]

\* Mutant: the loop ends at the first directory that is refused.
AddWatchesUntilRefused(cfgs, n, refused, kept, wd) ==
  LET watched == {i \in Watchable(cfgs, n) : \A j \in refused : i < j}
  IN  /\ wdOf' = Descriptors(cfgs, watched, kept, wd)
      /\ nextWd' = wd + Cardinality(NeedsWd(cfgs, watched, kept))
      /\ watches' = {[wd |-> Unpacked(wdOf'[PathOf[cfgs[i].file]]), slot |-> i] :
                       i \in watched}
      /\ built' = SubSeq(cfgs, 1, n)
      /\ steady' = dirs \ {PathOf[cfgs[i].file] : i \in refused}

\* Mutant: the entry packs its own position, not that of the configuration.
AddWatchesByPosition(cfgs, n, refused, kept, wd) ==
  LET watched == Watchable(cfgs, n) \ refused
  IN  /\ wdOf' = Descriptors(cfgs, watched, kept, wd)
      /\ nextWd' = wd + Cardinality(NeedsWd(cfgs, watched, kept))
      /\ watches' = {[wd |-> Unpacked(wdOf'[PathOf[cfgs[i].file]]),
                        slot |-> Cardinality({j \in watched : j <= i})] : i \in watched}
      /\ built' = SubSeq(cfgs, 1, n)
      /\ steady' = dirs \ {PathOf[cfgs[i].file] : i \in refused}

\* The second loop of rebuild_watches.  inotify_add_watch may fail also for a
\* directory that exists (no memory or watch left, no permission): those of the
\* refused configurations are skipped.
AddWatches(cfgs, n, refused, kept, wd) ==
  LET watched == Watchable(cfgs, n) \ refused
  IN  /\ wdOf' = Descriptors(cfgs, watched, kept, wd)
      /\ nextWd' = wd + Cardinality(NeedsWd(cfgs, watched, kept))
      /\ watches' = {[wd |-> Unpacked(wdOf'[PathOf[cfgs[i].file]]), slot |-> i] :
                       i \in watched}
      /\ built' = SubSeq(cfgs, 1, n)
      /\ steady' = dirs \ {PathOf[cfgs[i].file] : i \in refused}

\* The first loop: the directories whose watch is found and removed.
Removed == {d \in Dirs : wdOf[d] # 0 /\ \E w \in watches : w.wd = wdOf[d]}

\* For each watch that is removed the kernel queues IN_IGNORED.
Ignored ==
  LET wds == {wdOf[d] : d \in Removed}
  IN  [i \in 1..Cardinality(wds) |->
         [wd |-> Nth(wds, i), dir |-> CHOOSE d \in Removed : wdOf[d] = Nth(wds, i),
          op |-> "event"]]

\* rebuild_watches with an instance, opened before or now.  What happens in a
\* directory between the two loops is lost like what was queued before them, so
\* the loops make one step.
Rewatch(cfgs, n, refused) ==
  /\ nextWd + Cardinality(Dirs) <= MaxWd + 1
  /\ inotify_fd' = TRUE
  /\ AddWatches(cfgs, n, refused, [d \in Dirs |-> IF d \in Removed THEN 0 ELSE wdOf[d]],
                nextWd)
  /\ Enqueue(Ignored)

\* ensure_inotify fails, and rebuild_watches returns at once.
NoInstance(cfgs, n) ==
  /\ ~inotify_fd
  /\ built' = SubSeq(cfgs, 1, n)
  /\ steady' = dirs
  /\ UNCHANGED <<watches, inotify_fd, wdOf, nextWd, queue>>

\* rebuild_watches, where the kernel may refuse what it asks for, or not.
Rebuild(cfgs, n, mayFail) ==
  \/ Rewatch(cfgs, n, {})
  \/ mayFail /\ NoInstance(cfgs, n)
  \/ mayFail /\ \E refused \in SUBSET (1..n) : Rewatch(cfgs, n, refused)
----------------------------------------------------------------------------
Init ==
  /\ disk \in [Files -> {"absent", "on", "off"}]
  /\ dirs \in SUBSET Dirs
  /\ configs = [i \in Slots |-> NoConfig] /\ config_count = 0
  /\ watches = {} /\ inotify_fd = FALSE /\ built = <<>> /\ steady = {}
  /\ wdOf = [d \in Dirs |-> 0] /\ nextWd = 1 /\ queue = <<>>
  /\ phase = "down"
  /\ faults = 0
  /\ EventsInit

Fault == faults < MaxFaults /\ faults' = faults + 1

\* main: the configurations are read and watched, if the kernel permits.
Start ==
  /\ phase = "down"
  /\ phase' = "recv"
  /\ configs' = Load(disk, configs)
  /\ config_count' = Count(disk)
  /\ UNCHANGED faults \/ Fault
  /\ Rebuild(configs', config_count', faults' # faults)
  /\ UNCHANGED <<disk, dirs, eventVars>>

\* The process is gone, and its memory and inotify instance with it.
Down ==
  /\ phase' = "down"
  /\ configs' = [i \in Slots |-> NoConfig] /\ config_count' = 0
  /\ watches' = {} /\ inotify_fd' = FALSE /\ built' = <<>> /\ steady' = {}
  /\ wdOf' = [d \in Dirs |-> 0] /\ nextWd' = 1 /\ queue' = <<>>
  /\ ForgetEvents
  /\ Fault
  /\ UNCHANGED dirs

Die == phase # "down" /\ Down /\ UNCHANGED disk

\* It dies while it writes a file, which fopen has truncated.
DieWriting(f) ==
  /\ phase = "recv"
  /\ disk[f] \in {"on", "off"}
  /\ Down
  /\ disk' = [disk EXCEPT ![f] = "torn"]
----------------------------------------------------------------------------
\* No command in the queue.
NoCommand ==
  /\ phase = "recv"
  /\ phase' = "poll"
  /\ UNCHANGED <<disk, configVars, watchVars, queue, dirs, faults, eventVars>>

\* A listing, and any command that is refused: the files are read, the watches
\* stay as they are.
Reload ==
  /\ phase = "recv"
  /\ phase' = "poll"
  /\ configs' = Load(disk, configs)
  /\ config_count' = Count(disk)
  /\ UNCHANGED <<disk, watchVars, queue, dirs, faults, eventVars>>

\* fs start <id>, fs stop <id> of a configuration that is found: its file is
\* written (or left alone, or cut off, if that fails), all files are read again,
\* and the watches are rebuilt, as far as the kernel permits.  It is answered
\* with success in each case.
Switch(f, status) ==
  LET read == Load(disk, configs)
      slot == CHOOSE i \in 1..Count(disk) : read[i].file = f
  IN  /\ phase = "recv"
      /\ phase' = "poll"
      /\ \E i \in 1..Count(disk) : read[i].file = f
      /\ \/ /\ disk' = [disk EXCEPT ![f] = IF status THEN "on" ELSE "off"]
            /\ UNCHANGED faults
         \/ /\ disk' \in {disk, [disk EXCEPT ![f] = IF status THEN "on" ELSE "off"],
                          [disk EXCEPT ![f] = "torn"]}
            /\ Fault
      /\ configs' = Load(disk', [read EXCEPT ![slot].on = status])
      /\ config_count' = Count(disk')
      /\ Rebuild(configs', config_count', faults' # faults)
      /\ UNCHANGED <<dirs, eventVars>>

\* The entries an event matches, and the one the loop finds first.
Matching(ev) == {w \in watches : w.wd = ev.wd}
FirstMatch(ev) == CHOOSE w \in Matching(ev) : \A v \in Matching(ev) : w.slot <= v.slot

\* The configuration is the one now at the index of the watch.
RecordOf(ev) == [config |-> configs[FirstMatch(ev).slot], op |-> ev.op]

\* monitor_once reads an event: it is recorded for the first watch that has its
\* descriptor, and dropped if none has.
HandleEvent ==
  /\ phase = "poll"
  /\ queue # <<>>
  /\ queue' = Tail(queue)
  /\ IF Matching(Head(queue)) # {}
     THEN RecordEvent(RecordOf(Head(queue)))
     ELSE UNCHANGED eventVars
  /\ UNCHANGED <<disk, configVars, watchVars, dirs, phase, faults>>

\* read returns EAGAIN, or there is no instance to read from.
PollDone ==
  /\ phase = "poll"
  /\ queue = <<>>
  /\ phase' = "recv"
  /\ UNCHANGED <<disk, configVars, watchVars, queue, dirs, faults, eventVars>>
----------------------------------------------------------------------------
(* The environment.                                                         *)

Change(d) == [wd |-> wdOf[d], dir |-> d, op |-> "change"]

\* Something happens in a directory, at its path or renamed.
FileChange(d) ==
  /\ wdOf[d] # 0
  /\ Enqueue(<<Change(d)>>)
  /\ UNCHANGED <<disk, configVars, watchVars, dirs, phase, faults, eventVars>>

\* A directory goes: if it is watched IN_DELETE_SELF comes, then IN_IGNORED.
RemoveDir(d) ==
  /\ d \in dirs \/ wdOf[d] # 0
  /\ Fault
  /\ dirs' = dirs \ {d}
  /\ steady' = steady \ {d}
  /\ IF wdOf[d] # 0
     THEN Enqueue(<<Change(d), [Change(d) EXCEPT !.op = "event"]>>)
     ELSE UNCHANGED queue
  /\ wdOf' = [wdOf EXCEPT ![d] = 0]
  /\ UNCHANGED <<disk, configVars, watches, inotify_fd, nextWd, built, phase, eventVars>>

\* A directory is renamed: its path is gone, and its watch goes with it.
RenameDir(d) ==
  /\ d \in dirs
  /\ Fault
  /\ dirs' = dirs \ {d}
  /\ steady' = steady \ {d}
  /\ IF wdOf[d] # 0 THEN Enqueue(<<Change(d)>>) ELSE UNCHANGED queue
  /\ UNCHANGED <<disk, configVars, watches, inotify_fd, wdOf, nextWd, built, phase, eventVars>>

\* A directory is made, or a watched one that was renamed gets its path back.
MakeDir(d) ==
  /\ d \notin dirs
  /\ Fault
  /\ dirs' = dirs \cup {d}
  /\ IF wdOf[d] # 0 THEN Enqueue(<<Change(d)>>) ELSE UNCHANGED queue
  /\ UNCHANGED <<disk, configVars, watchVars, phase, eventVars>>

\* Somebody writes, changes or removes a configuration file.
Edit(f) ==
  /\ Fault
  /\ \E content \in {"absent", "on", "off"} : disk' = [disk EXCEPT ![f] = content]
  /\ UNCHANGED <<configVars, watchVars, queue, dirs, phase, eventVars>>
----------------------------------------------------------------------------
Worker ==
  \/ Start \/ NoCommand \/ Reload
  \/ \E f \in Files, status \in BOOLEAN : Switch(f, status)
  \/ HandleEvent \/ PollDone

Next ==
  \/ Worker
  \/ Die \/ \E f \in Files : DieWriting(f) \/ Edit(f)
  \/ \E d \in Dirs : FileChange(d) \/ RemoveDir(d) \/ RenameDir(d) \/ MakeDir(d)

Spec == Init /\ [][Next]_vars
----------------------------------------------------------------------------
\* The queue keeps its capacity, but for the note that something was dropped.
QueueOK ==
  /\ queue \in Seq(InotifyEvent)
  /\ Len(queue) <= QueueCap + (IF Noted THEN 1 ELSE 0)

\* The variables have their types, the queue its capacity, and the event ring
\* its shape.
TypeOK ==
  /\ disk \in [Files -> {"absent", "torn", "on", "off"}]
  /\ configs \in [Slots -> Config \cup {NoConfig}]
  /\ config_count \in 0..MaxConfigs
  /\ watches \subseteq [wd : Int, slot : Slots] /\ inotify_fd \in BOOLEAN
  /\ wdOf \in [Dirs -> 0..MaxWd] /\ nextWd \in 1..MaxWd + 1
  /\ QueueOK
  /\ dirs \subseteq Dirs
  /\ phase \in {"down", "recv", "poll"}
  /\ faults \in 0..MaxFaults
  /\ RingOK

\* An event is recorded for a configuration of the directory it happened in,
\* and one that is on, as long as the worker knows the configurations it built
\* its watches for: the index packed into the watch still means the same.  (An
\* Overflow is of no directory; it matches a descriptor that unpacks as -1.)
RightlyAttributed ==
  [][HandleEvent /\ Head(queue) # Overflow /\ Matching(Head(queue)) # {} /\ Loaded = built =>
       LET c == RecordOf(Head(queue)).config
       IN  c.on /\ PathOf[c.file] = Head(queue).dir]_vars

\* A directory of a configuration that is on is watched and its events will
\* match, if the kernel gave the worker an instance and it was there and not
\* refused when the watches were built, until it goes or other configurations
\* are read, or its descriptor is too large to be packed.  What the kernel
\* refuses to one configuration, costs no other its watch.
OnIsWatched ==
  inotify_fd /\ Loaded = built =>
    \A i \in 1..config_count :
      LET d == PathOf[configs[i].file]
      IN  configs[i].on /\ d \in steady =>
            /\ wdOf[d] # 0
            /\ wdOf[d] <= WdLimit => \E w \in watches : w.wd = wdOf[d]
----------------------------------------------------------------------------
(* Why RightlyAttributed and OnIsWatched hold.                              *)

\* What the worker uses of its configurations was read from a file, now and
\* when the watches were built.
ReadFromFiles ==
  /\ \A i \in 1..config_count : configs[i] \in Config
  /\ built \in Seq(Config) /\ Len(built) <= MaxConfigs
  /\ steady \subseteq dirs

\* The kernel hands a descriptor out once.
DescriptorsApart ==
  /\ \A d \in Dirs : wdOf[d] < nextWd
  /\ \A c, d \in Dirs : wdOf[c] # 0 /\ wdOf[c] = wdOf[d] => c = d
  /\ \A ev \in Pending : 0 < ev.wd /\ ev.wd < nextWd
  /\ phase = "down" => ~inotify_fd
  /\ ~inotify_fd => nextWd = 1 /\ queue = <<>> /\ watches = {}

\* A descriptor that packs without loss is found and removed by the next rebuild,
\* so those in use, and those of the events that wait for the next poll, are of
\* the last one.
SmallAreRecent ==
  /\ \A d \in Dirs : wdOf[d] \in 1..WdLimit =>
       /\ nextWd <= wdOf[d] + MaxConfigs
       /\ \E w \in watches : w.wd = wdOf[d]
  /\ phase = "recv" =>
       \A ev \in Pending : ev.wd <= WdLimit => nextWd <= ev.wd + MaxConfigs

\* An entry matches nothing but what happens in its configuration's directory.
EntriesMeanOneDir ==
  \A w \in watches :
    /\ w.slot <= Len(built) /\ built[w.slot].on
    /\ \A d \in Dirs : wdOf[d] # 0 /\ wdOf[d] = w.wd => d = PathOf[built[w.slot].file]
    /\ \A ev \in Pending : ev.wd = w.wd => ev.dir = PathOf[built[w.slot].file]

\* Directories that were there and not refused, and of configurations that were
\* on, are watched.
BuiltWatched ==
  inotify_fd => \A i \in DOMAIN built :
    built[i].on /\ PathOf[built[i].file] \in steady => wdOf[PathOf[built[i].file]] # 0

WatchInv ==
  ReadFromFiles /\ DescriptorsApart /\ SmallAreRecent /\ EntriesMeanOneDir /\ BuiltWatched
============================================================================
