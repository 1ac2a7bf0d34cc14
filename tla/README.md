# A verification project for sysDetector

TLA+ models of sysDetector, the TLC runs that check them on small instances, and
TLAPS proofs of what matters most for instances of every size. Paths are relative
to the repository's `src/` directory unless they begin with a module name; `proc.c`,
`proc.bpf.c` and `fs.c` are under `sysDetector-ebpf/`, `rpc.rs` and `main.rs` under
`sysDetector-server/src/`.

- [The system](#the-system): components, their state, how they interact, what is hard
- [Modules](#modules): what models what
- [Runs](#runs): what is model-checked, with which bounds
- [Proofs](#proofs): what is proved, and along which argument
- [Where code and documents disagree](#where-code-and-documents-disagree)
- [Not modelled](#not-modelled) and [Plan](#plan)

## The system

sysDetector watches processes and directories. It is four programs.

| Component | State it keeps | Operations |
|---|---|---|
| Client (`sysDetector-cli`) | none | sends one command over a Unix socket, prints the answer |
| Server (`main.rs`, `rpc.rs`) | one mutex; two queue descriptors while a command is under way | accept, forward a command to a worker's queue, wait up to 5 s for the answer, read the output file for a listing |
| BPF programs (`proc.bpf.c`) | a ring of 256 events, a cache of exec arguments | one event for each exec, exit and fork in the kernel |
| proc worker (`proc.c`), main thread | configurations, `ebpf_running`, `tracked_procs`, `short_lived_counters` | start, stop, list; consume the events |
| proc worker, start-up | the configurations read | reads the files of `/etc/sysDetector/proc`, line by line |
| proc worker, monitor thread | `last_monitor_time` and `monitor_switch` of each configuration | check, restart up to three times, alarm and switch off |
| fs worker (`fs.c`) | configurations, packed watches, a ring of 128 recorded events | start, stop, list; read the inotify queue |
| Installer, units, self tests | - | systemd starts the three services and restarts them always, after 5 s |

How they interact:

```
client --socket--> server --command queue (10)--> proc | fs
                   server <--response queue (10)- proc | fs
                   server <------- out.log ------ proc, fs      (one file, no lock)
kernel --BPF ring buffer--> proc main thread
kernel --inotify queue--> fs
proc main thread <== configs[] without a lock ==> proc monitor thread
```

What is hard about it:

- **Requests and answers are not tied together.** A response is a number. The server
  takes the first one it finds, so a time-out, a crash or a surplus answer shifts
  every answer after it. Queues outlive processes; `proc` alone unlinks its own, both
  at start and at exit, also under a server that has them open.
- **Blocking sends.** Server and workers send with blocking `mq_send` on bounded
  queues, the server with its mutex held.
- **State kept between two probes.** The arguments of an exec are stored when the call
  begins and taken when it succeeds; in between it fails, is killed, or races with
  another thread of its process, whose entry is the same.
- **Events are delayed and dropped.** The worker learns of a fork, exec or exit after
  the fact, or not at all when the ring was full or monitoring was stopped. Ids are
  reused, and thread ids are mixed with process ids.
- **Bounded tables** that evict, while a process must be in them once at most.
- **Two threads without a lock** on `monitor_switch` and `last_monitor_time`, one of
  which works for many seconds with a time it read before.
- **Indices that outlive what they point to:** a watch holds an index into an array
  that every command reads anew from a directory anyone may edit.
- **Restarts.** systemd starts a dead worker again. Its tables and switches are gone,
  the files and the kernel's processes are not.
- **Windows that do not slide:** bursts are counted from the first exit on.
- **Partial failures:** configuration files cut off while they are written, an output
  file that cannot be opened, watches that cannot be added.

What makes each component correct:

- tracking: a process is in the table once; what is listed is alive, or its end is on
  its way; a live process is dropped only to make room (`UniquePids`,
  `NoGhostEntries`, `LiveStaysTracked`);
- bursts: what is reported happened, and what is dense enough is reported
  (`BurstsAreReal`, `DenseBurstsReported`);
- exec arguments: an event carries those of its own call, calls that succeed use up no
  memory, and an anomaly is one of the call it is logged for (`OwnArguments`,
  `OnlySpoiledEntriesStay`, `AnomaliesAreOfTheCall`);
- configurations: each file is taken as a whole or not at all, by itself, and the
  monitor thread gets periods it can count with (`ConfigsAreAsWritten`,
  `PeriodsArePositive`);
- monitoring: an outage ends in a restart or in giving up; no configuration waits for
  ever; a command resets the period; shutdown completes (`OutageEnds`,
  `NoConfigStarved`, `QuietToggleResetsPeriod`, `ShutdownCompletes`);
- both threads of the proc worker together: starts, stops, giving up and restarts look
  like single steps, although a command takes several (`ImplementsSwitches`);
- command channel: a client gets its own answer and its own listing; nobody waits for
  ever (`OwnAnswer`, `OwnListing`, `NoCircularWait`, `ClientsAnswered`);
- fs worker: what is on is watched, events go to the right configuration, the listing
  shows the latest events in order (`OnIsWatched`, `RightlyAttributed`,
  `ListsRecentEvents`).

## Modules

| Module | Models | Extends |
|---|---|---|
| `ShortLivedCounters` | counters of short-lived processes, as operators (`proc.c` 595-643) | |
| `ShortLivedBursts` | what bursts are reported, against the exits there were (`proc.c` 595-643) | `ShortLivedCounters` |
| `Switches` | abstract: switches of the proc worker, changed in single steps | |
| `ProcTracker` | kernel, BPF programs and event handling of the proc worker (`proc.bpf.c`, `proc.c` 442-782) | `ShortLivedCounters` |
| `ProcMonitor` | monitor thread against main thread (`proc.c` 108-122, 327-354, 757-777, 831-905, 982-1021) | refines `Switches` |
| `ExecArgs` | arguments of an exec from the call to the anomaly log (`proc.bpf.c` 24-38, 69-74, 110-139, `proc.c` 493-593, 693-746) | |
| `ProcConfig` | the configuration parser of the proc worker (`proc.c` 124-325) | |
| `Rpc` | server, queues, output file, command loops of both workers | |
| `RecentEvents` | abstract: the latest events | |
| `FsEvents` | the ring of recorded events (`fs.c` 190-221) | refines `RecentEvents` |
| `FsMonitor` | the fs worker (`fs.c`) with the kernel's inotify instance | `FsEvents` |
| `MC*` | constants, symmetry and constraints for TLC | |
| `*Proofs` | theorems | the module they are about |

**ProcTracker.** The kernel's side is a map from live tasks to their thread group.
`Spawn`, `Fork`, `CreateThread`, `Exec` and `Exit` change it and emit an event, which
is dropped when the ring is full. The worker alternates (`phase`) between one command
(`ReceiveStart`, `ReceiveStop`, `ReceiveOther`) and consuming events one by one
(`HandleEvent`) until it finds the ring empty (`PollDone`), as `main` does. `Restart`
is the end of the worker and its next start: ring, tables and counters are empty,
tracking is stopped, the switches are those of the files.
`Exec` is of the last task of its process; if that is not the leader, it takes over the
leader's id, and its own id is gone without an exit event.
`HandleEvent` is the whole of `handle_event` and what it calls. Kernel steps fall
between any two of them. The table is an array of slots: `AllocSlot` takes the first
inactive one, or the first of those seen longest ago. Two history variables make the
properties sayable: `lost`, the ids whose end the worker cannot learn any more (their
exit was dropped, or consumed while monitoring was stopped, or never had an event of
its own), and `reborn`, the ids reused while an exit of the earlier user is queued.

**ProcMonitor.** The monitor thread is a sequence of small steps: `LoopTest` reads
`ebpf_exiting`, `Wake` ends the `usleep` and begins a pass, `ScanEnd` ends it; each of
the steps between reads or writes the shared data as the code does at that place. A
signal during the `usleep` leaves one more pass to be made. The main thread's command is
three steps: `BeginCommand` (the switch), `ResetTime` (the time), `SendResponse` (the
answer, then `ebpf_running`). `mq_send` waits while the response queue is full, through
signals too; `clogged` says that it does, and `Drain` is a client that makes room, or the
end of the queue. The commands of other kinds (`Other`) answer in the same way; of a
`list` that answers twice the two waits are one. Time passes in whole seconds, since the
code uses `time(NULL)`, and is kept as ages: `age` is `time(NULL) - last_monitor_time`,
`passAge` is `time(NULL) - current_time`. Writing back `current_time` is `age' = passAge`.
Ages stop growing at `MaxAge`, beyond which every check is due.

A worker that is killed or has shut down is started again by `Restart`, which reads the
switches from the files and begins new ages.

**Switches.** What the two threads of the proc worker make of `monitor_switch` and
`ebpf_running`, as atomic steps: `Start`, `Stop`, `GiveUp`, `Restart`. `ProcMonitor`
implements it: it takes a command as three steps with the monitor thread, a wait and the
death of the worker between them. A command takes effect in `BeginCommand`:
`RunningAfterCommand` maps `ebpf_running` to what it will be after the answer.
`ProcTracker` has these atomic steps as actions of its own (a command is one step there,
the monitor thread is `GiveUp`), which the refinement justifies.

**ShortLivedBursts.** `ShortLivedExit` is `record_short_lived_process`. History:
`exits`, when the processes of a name exited, and `reports`, after which exits a burst
was logged.

**ExecArgs.** The kernel calls the two handlers around an exec: `Execve` is
`handle_execve`, `Exec` is a call that succeeds with `handle_exec`; `Fail` and `Exit`
end a call with no handler, `Execveat` begins one with no handler. `Captures` has all
that `handle_execve` may read: it does not look at the results of its reads, so a word, or
the pointer to it, that is not in memory then leaves an empty word; and it passes over
the pointer that ends the list and goes on, so a short list is followed by whatever
memory holds there. `HandleExec` is the worker: `running` is the gate of
`ebpf_running`, which `Switch` toggles, `Joined` the text, `Suspicious` the rules.
History: a cached call keeps its arguments and whether all were read (`whole`), and an
event the call it is of, or `NoCall` if the entry may be another's; `spoiled` has the
processes with a traced call that ended without an event.

**ProcConfig.** `OpenFile`, `ReadLine`, `CloseFile`, `PassOver` are the two loops. A line
is a record of what the parser tells apart: whether it has a `=`, blanks before key and
value, a newline. `Trimmed` keeps the code's peculiarities: leading blanks of a value
stay, and an empty value with its newline is one blank. `AsInt` stops at the
largest `long`, as `strtol` does, and cuts that to an `int`. Beside it stands `Meaning`, what a file says without an order of reading.

**Rpc.** One action for each step at which another process may intervene: opening
either queue, sending, receiving, reading the file, timing out; taking a command,
writing the listing (opened, then closed), each answer. The server's descriptors may
point to a queue that has lost its name (`sendFd`, `respFd`, `old`). The workers differ
where the code does: `proc` unlinks queues and removes the file, `fs` does not; when
the file cannot be opened `proc` answers twice, `fs` once. `Timeout` may happen
whenever the response queue is empty: five seconds are long or short compared with a
worker's turn, as it pleases.

**FsEvents, RecentEvents.** The ring and its promise. `Listed` is the refinement
mapping: the elements from the cursor on, as `list_events` prints them.

**FsMonitor.** `disk` is the configuration directory: a file is absent, torn, or has
its switch on or off. `Load` is `load_configs`, which stops at `MAX_CONFIGS` and leaves
stale or zeroed elements behind the count. `AddWatches` is the second loop of
`rebuild_watches` with the kernel's part: one descriptor for a directory, in increasing
order, packed into the upper 16 bits with a sign (`Unpacked`). The kernel may refuse
what `Rebuild` asks for: an instance (`NoInstance`: the code returns with nothing
watched), or any of the directories (`refused` in `Rewatch`: those configurations are
skipped). `Rewatch` removes first, which queues `IN_IGNORED`. `Enqueue` is the kernel's
queue: what has no room is dropped, and one `Overflow` (`IN_Q_OVERFLOW`, of descriptor
-1) is left in its place. `HandleEvent` is one event of `monitor_once`. `RenameDir` takes
the path from a directory whose watch goes on. History: `built`, the configurations as
they were when the watches were built, and `steady`, the directories that have existed
since then and were not refused.

### From code to model, where it is not obvious

- A record, name or text is a model value. `EnabledConfigured` compares names; `comm`
  and the base name of the file are one name.
- In `ProcTracker` a pid's `first_seen` and `last_seen` are kept; `filename`, `argv`
  and `ppid` of an entry are not, since nothing reads them but the listing.
- An operation that is not valid makes `main` skip the poll (`continue`); it changes
  nothing, so `ReceiveOther` covers it with a poll that consumes nothing.
- `rebuild_watches` is one step. Events of a directory between its two loops are lost
  in either case: before the first loop they carry a descriptor that is replaced.
- A command of the worker in `Rpc` answers success or failure freely; which of them is
  decided in the modules of the workers.

## Runs

Every property of a passing run has a mutant: a change of a mapped definition, of the
kind a bug would be, under which TLC finds that property violated.

| Run | Expect | Properties | Bounds |
|---|---|---|---|
| `tracker_eviction` | pass | `TypeOK` `UniquePids` `NoGhostEntries` `LiveStaysTracked` | 3 pids, 2 slots, ring of 1, clock 0..1, at most one irregular id |
| `tracker_threads` | pass | `UniquePids` `NoGhostEntries` `LiveStaysTracked` | 2 pids, one makes threads, ring of 2, 1 restart |
| `tracker_listed` | violation | `ListedAreAlive` | 2 pids, ring of 5 |
| `tracker_thread_exit` | violation | `ThreadedStaysTracked` | 2 pids, ring of 6 |
| `monitor_commands` | pass | `TypeOK` `QuietToggleResetsPeriod` `OutageEnds` `ShutdownCompletes` `ImplementsSwitches` | 1 configuration, 2 attempts, 3 commands, 1 restart |
| `monitor_fair` | pass | `OutageEnds` `NoConfigStarved` | 2 configurations of periods 1 and 2, 1 attempt, 1 command |
| `rpc_safety` | pass | `TypeOK` `OwnAnswer` `OwnListing` `NoCircularWait` | 3 requests, both workers, queues of 1, 1 missed file each, 1 crash or exit |
| `rpc_live` | pass | `ClientsAnswered` | 3 requests, proc, otherwise the same |
| `fs_cache` | pass | `TypeOK` `OnIsWatched` `RightlyAttributed` `ListsRecentEvents` | 3 files, 2 directories, 2 configurations, descriptors that overflow after 2 and end at 7, queue of 2, ring of 2, 1 fault |
| `bursts` | pass | `TypeOK` `BurstsAreReal` `DenseBurstsReported` | 3 names, 2 counters, window 2, threshold 3, times 0..6, 7 exits |
| `exec_args` | pass | `TypeOK` `OwnArguments` `OnlySpoiledEntriesStay` `AnomaliesAreOfTheCall` | 3 ids, cache of 1, ring of 1, 2 words read, 1 joined, 3 lists |
| `config` | pass | `TypeOK` `ConfigsAreAsWritten` `PeriodsArePositive` | 14 kinds of lines; every file of 4 lines, every two files with 3; `int` up to 3, `long` up to 15 |

Why these bounds are enough to meet the cases:

- `tracker_eviction`: with three processes and two slots every fork of a tracked
  process in a full table evicts, also its own parent. A ring of one event drops
  events at every second kernel step. Two clock values separate recently seen entries
  from older ones. `FewAnomalies` limits `lost` and `reborn` together to one id: with
  more, the number of states explodes, and the proofs do not need that limit.
- `tracker_threads` has no such constraint; its second pid is now a thread of the
  first, now a process of its own. One clock value is enough: `tracker_eviction`
  has the order of ages. A restart falls between any two steps: with an event queued,
  with the table full, while tracking is stopped.
- `monitor_commands`: three commands are a start, a stop and a start, with a pass
  between or under any of them; two attempts show both a restart that fails and is
  repeated and the last one. The worker is killed and started again at any step of these,
  also between the parts of a command or while its answer waits for room. `monitor_fair` has
  the smallest configuration that is always due (period 1) before one that is not.
- `rpc_safety`: three requests are one that times out, one that gets the late answer,
  and one that gets what is left over; a queue of one message is full at once, so both
  blocking sends occur. `NoCircularWait` counts against the capacity, so the shorter
  queue is the harder one.
- `fs_cache`: three files for two directories have two configurations that share one;
  one more file than `MaxConfigs` makes the limit bite; `WdLimit = 2` with up to seven
  descriptors crosses the packing limit (32767 in the code) and goes on to the descriptor
  5 that unpacks as -1, like that of `Overflow`, and to those that unpack as small ones.
  A queue of two overflows at once. One fault may be a death, a torn or failed write, an
  edit, an instance or directories that the kernel refuses, or a directory that goes,
  comes or is renamed.
  `EditsAtRest` delays edits of configuration files during a poll to its end: the
  worker reads them only in between.

- `bursts`: `DenseBurstsReported` is about 2 * 3 - 2 = 4 exits of a name, so seven exits
  are a dense burst and three more that take a counter away or shift its window. Two
  counters for three names are given away; six seconds are two windows and their border.
- `exec_args`: three ids are a process with two threads, or two processes that compete
  for a cache of one entry, or a process and an id in its second use. Two words are
  read: one list fills them, with a blank before the word that is looked for, so that what
  follows an empty word counts; one is harmless and leaves its end as the only word beyond
  it, so that an anomaly for it would be a wrong one; the empty list leaves one for what
  lies beyond. Any word may fail to be read. One rule with one pattern shows
  this; the rules are a parameter.
- `config`: the lines have each way to be skipped, accepted or refused. Four are enough
  for two assignments of one key with another line between them and a name.

`CHECK_DEADLOCK FALSE` is set everywhere: the clocks, command counts and failures are
bounded, the proc worker terminates after a signal, the parser reaches the end of the
directory, and the fs queue may run out of descriptors within the bound.

### Fairness

- `ProcMonitor`: weak fairness of the monitor thread, of the main thread and of time.
  The operating system schedules both threads, `sleep` and `usleep` return, and the
  configured commands are assumed to return (the code has no time-out for them; see
  the hazards). Commands, signals, restarts and processes that die have no fairness.
  Nor have clients: `send_response` is a blocking `mq_send`, and fairness of the main
  thread takes it past `SendResponse` only once there is room. `Rpc` shows that room
  may never come. So `ShutdownCompletes` has that as its hypothesis (`[]<>~clogged`);
  the outages end and every configuration is checked without it, since the monitor
  thread does not wait for the main thread.
- `Rpc`: weak fairness of the server and of each worker. A worker that is down is
  started again since its unit says `Restart=always`. No fairness for clients, crashes,
  exits. `Timeout` is one of the server's steps: fairness makes it happen only while
  there is nothing else for the server to do.
- `ProcTracker`, `ExecArgs`, `ShortLivedBursts`, `ProcConfig` and `FsMonitor` state
  safety only. That every event is consumed in the
  end would need a bound on how fast the kernel produces them.

## Proofs

Every invariant and action property of a passing run but one is a theorem, for every
value of the constants. TLAPS checks them without assumptions beyond the named ones on
the constants (`TrackerAssumption`, `TableAssumption`, `BurstsAssumption`,
`MonitorAssumption`, `RpcAssumption`, `ExecArgsAssumption`, `ConfigAssumption`,
`EventsAssumption`, `FsAssumption`), which are what the code's `#define`s and types
satisfy. A few conjuncts of them say more than a type: a counter can count to the
threshold (`BurstThreshold <= CountCap`; the threshold is 5 and a counter an `int`),
command names and watched directories are finitely many (`IsFiniteSet(Comms)`, names
have at most 15 characters; `IsFiniteSet(Dirs)`, of at most 128 configurations),
an `int` holds the default period of 3 (`IntMax >= 3`), a `long` holds an `int`
(`LongMax >= IntMax`), the bound on descriptors has one for each directory
(`MaxWd >= Cardinality(Dirs)`), and there are no more
configurations than descriptors that can be packed (`MaxConfigs <= WdLimit + 1`; 128 and
32767).

The parts of each inductive invariant that are not properties of a run are in the
section "Why ... holds" at the end of the module, or at the head of the proofs. TLC
checked each of them on the instance of its run before it was proved.

**ProcTracker** (`ProcTrackerProofs`, with lemmas on the tables from
`ShortLivedCountersProofs`):

- `TypeCorrect`: `Spec => []TypeOK`. Nothing else is needed; the work is in
  `AllocSlot` and `AllocCounter`, that the least recent of finitely many slots exists.
- `OneSlotPerProcess`: `Spec => []UniquePids`, inductive together with `TypeOK`.
- `GhostsAreLost`: `Spec => []NoGhostEntries`. It is not inductive: an entry appears
  when an old event is consumed, and whether it is alive then depends on what follows
  that event in the ring. `QueueAccounted` says it for each place of the ring: an exec
  or fork event is of a live process, or an exit of the same process is further back
  in the ring, or its end is lost. Consuming the head of the ring turns
  `QueueAccounted` at place 1 into `NoGhostEntries` for the entry it creates.
- `LiveProcessesStay`: `Spec => LiveStaysTracked`, from `ExitsAreFinal`: without threads
  a task is its own group, so an exit in the ring is of a process that has ended, or of
  the earlier user of a reused id. The theorem covers threads of *other* processes.

A restart keeps all of these: it empties ring and tables (`RestartInv`).

**ProcMonitor** (`ProcMonitorProofs`):

- `SwitchesImplemented`: `Spec => ImplementsSwitches`, for any number of configurations,
  attempts, commands and restarts. The invariant says that the monitor thread is at a
  configuration that exists wherever it may give up (`ThreadOK`) and that a half done
  command is a start or a stop (`CommandOK`). `BeginCommand` maps to `Start` or `Stop`,
  `ResetTime` and `SendResponse` to stutters (`AnswerRefines`), a restart between them to
  `Restart`.
- `TypeCorrect`: `Spec => []TypeOK`. The bound `MaxPass` on the length of a pass needs
  `PassInv`: a pass has lasted no longer than its sleeps so far (`Spent`) and `Slack`.
- `ToggleResets`: `Spec => QuietToggleResetsPeriod`. `ResetInv` says of each
  configuration whose last command hit no pass that its last check is no older than
  that command, and that the pass under way, if any, began after it. Whatever the
  thread writes back then is no older than the command.

**ShortLivedBursts** (`ShortLivedBurstsProofs`):

- `BurstsHappened`: `Spec => []BurstsAreReal`, for any window, threshold, number of
  names and counters. The invariant `CountsAreReal` ties each counter to the history:
  the latest `count` exits of its name are none earlier than its `start`. `RecordFacts`
  says what `Record` does to the counter of the name and to the others; `CountGrows` that
  one more exit keeps the tie; a report is within its window because `Record` renews one
  that is over.
- `TypeCorrect`: `Spec => []TypeOK`, with `NamesOnce` and `ExitsArePast`.
- `DenseBurstsAreReported`: `Spec => []DenseBurstsReported`. `BurstsCounted` keeps an
  account (`Accounted`) for each exit that may be the first of a burst, as long as no
  more names than counters have exits (`Calm`): one of the exits since was reported; or
  all are counted in the open window; or those before the start of the open window were
  too few; or no window is open, and all of them are too few. `2 * BurstThreshold - 2`
  exits fit into none of the last three. The account is kept by an exit of another name
  because a counter with an open window is given away only when each of the others has
  one too, of another name (`NamesOnce`): then with the new one there are more names
  than counters with exits within a window's length (`EvictionCrowds`, which counts
  them with an injection from the slots).

**Rpc** (`RpcProofs`):

- `TypeCorrect`: `Spec => []TypeOK`, for any number of requests and any capacity.
- `NoDeadlock`: `Spec => []NoCircularWait`. What is under way between the server and a
  worker (commands queued, the answers it still has to send, answers queued) is bounded
  by `InFlightBounded`: the capacity, plus one, plus the answer the server waits for,
  plus the double answers, plus the server's crashes. The bound is kept because the
  server sends the next command only after it received an answer or found the queue of
  answers empty, and then at most a queue of commands and one command in hand are left.
  A circular wait has two full queues and an answer in hand. `PendingBounded` bounds
  the answers of one command; `UnlinkedIsGone` says that the server reads an unlinked
  queue only while there is none of that name.
- `AnswersAreOwn`: `Spec => []OwnAnswer`. As long as no command to a worker was given up
  and it answered none twice, nothing is under way there but the one command the server
  waits for, and that is in one place: queued, in the worker's hands, or answered
  (`OneUnderWay`, `Tidy`). `GivenUp` says that a request that was given up stays without
  an answer, so that a disturbance, once it happened, is not forgotten.
- `ListingsAreOwn`: `Spec => []OwnListing`. `ListingKept`: from the moment a worker is to
  report success until the server reads the file, the file holds the listing of the
  request the server waits for, or `proc` has removed it. The other worker is not at
  work meanwhile, because nothing is under way there.

**ExecArgs** (`ExecArgsProofs`):

- `TypeCorrect`: `Spec => []TypeOK`, for any pid space and any size of cache and ring.
- `CacheIsFreed`: `Spec => []OnlySpoiledEntriesStay`. Inductive is `EntriesAccounted`: an
  entry belongs to a process with a thread in a *cached* call, or is one that was left
  behind. It needs `LeadersOwn`, that a process id is not given away while the process
  has threads.
- `ArgumentsAreOwn`: `Spec => []OwnArguments`. `CallsKept` says of each call that no
  other thread has overtaken that the entry of its process is its own, or that there is
  none if it found no room; the event takes what is there. The entry is one that
  `handle_execve` may have read of the call's list (`Captures`), each word of it if none
  failed.

**ProcConfig** (`ProcConfigProofs`), for any directory of any files:

- `TypeCorrect`: `Spec => []TypeOK`.
- `FilesAreTakenAsWritten`: `Spec => []ConfigsAreAsWritten`. `ReadSoFar` is the invariant
  of the loop over lines: the local `config` is what the lines so far say without an
  order of reading, or rejected if one of them is not sound (`LineSays` adds a line,
  `UnsoundStays` explains the early return). A configuration is added with its file, at
  the place that is the number of accepted files up to it.
- `PeriodsAreSeconds`: `Spec => []PeriodsArePositive`, from `IntIs`, that `strtol`
  and the conversion (`WrappedIs`) keep what fits.

**FsEvents, FsMonitor** (`FsMonitorProofs`):

- `ListsLatest`: `EventsSpec => ListsRecentEvents`, the refinement, for every length of
  the ring. `RingOK` is the inductive invariant: from the cursor on, as many records as
  are counted. `RecordAdds` and `RecordReplaces` are the two cases of `record_event`;
  the lemmas on `%` say that places from one cursor are different elements.
- `ListsRecorded`: `Spec => ListsRecentEvents`: every step of the worker is a step of
  `EventsSpec` or leaves the ring alone.
- `TypeCorrect`: `Spec => []TypeOK`.
- `DirectoriesAreWatched`: `Spec => []OnIsWatched`, and `EventsAreAttributed`:
  `Spec => RightlyAttributed`, from `WatchInv`. An entry of the packed table has to mean
  one directory (`EntriesMeanOneDir`) although `Unpacked` cuts the descriptor. The
  argument is that descriptors are handed out once and in increasing order
  (`DescriptorsApart`), and that those small enough to be packed without loss are
  removed by every rebuild, so that the ones in use are of the last `MaxConfigs`
  (`SmallAreRecent`). `HandedOut` is the loop over the configurations of
  `rebuild_watches`, `Rebuilt` the whole of it for any set of refused directories.
  `Enqueued` is the kernel's queue: it keeps what was queued, adds some of what is new in
  its order, and at most one `Overflow`. `OnIsWatched` is about a worker with an instance
  and directories that were not refused, since without them the code watches nothing; what
  the proof says beyond that is that a refusal costs no *other* configuration its watch.

Model-checked only:

- all liveness (`OutageEnds`, `NoConfigStarved`, `ShutdownCompletes`,
  `ClientsAnswered`), which is out of the prover's reach;
- `AnomaliesAreOfTheCall`: it compares what `SelectSeq` keeps of two lists of any
  length, and `SelectSeq` is defined by recursion over the list;
- the two properties that the code violates.

## Where code and documents disagree

Three sentences of the documents are findings. Two runs end in a counterexample to one:

- `tracker_listed`: `proc list tracked` is to show only processes still alive
  (`configs/proc/README.md`, line 38). A process that exits between `proc stop` and
  `proc start` is listed for ever: events are consumed unread in between and the table
  is kept.
- `tracker_thread_exit`: it is to list the active configured instances (`CHANGELOG.md`,
  line 14). The exit of any thread removes its process.

One holds in the form that contradicts the documents:

- `config`: a key that is repeated is to make the parser fail (`configs/proc/README.md`,
  line 23; `selftest/proc/tests/config.sh`, lines 24-28, calls it an error). No line is
  compared with an earlier one, so such a file is accepted. `ConfigsAreAsWritten` says
  that the last line counts, over every file of four lines, many of which repeat a key.

Other sentences are contradicted by the models without a run of their own, because the
properties of the passing runs state what holds instead:

- every switch is to reset the monitoring time (`configs/proc/README.md`, line 28): a
  pass under way writes back an older time, so `QuietToggleResetsPeriod` is about
  switches that hit no pass;
- `fs list` is to show the configurations and `fs list events` the events
  (`configs/fs/README.md`, line 39): after a time-out a listing shows another command's,
  so `OwnAnswer` and `OwnListing` name the ways in which they may be another's;
- the events of the configured paths are to be recorded (`configs/fs/README.md`, line
  5): starting or stopping one configuration drops the queued events of all, so
  `RightlyAttributed` is about those that are recorded;
- `MONITOR_PERIOD` is to be in units of 100 ms (`configs/proc/README.md`, line 27): the
  code compares it with a difference of `time(NULL)` (`proc.c`, line 867), so it is in
  seconds, which is what `ProcMonitor` counts and `PeriodsArePositive` is about.

## Not modelled

- The client, the options' types, the installer, the build: no state of the running
  system. Requests that `validate_command` refuses reach no queue.
- Log lines other than bursts and anomalies, alarm commands and what they do.
- In `ExecArgs` the word that is cut off at the end of the text; in `ProcConfig` letter
  case and the limits of lines and values.
- Running out of file descriptors in the server after failed sends; memory layout (a
  message of 1024 bytes is terminated one byte past the buffer); clocks set back;
  inode numbers cut to `int`; configured commands that never return.
- `ProcTracker` and `ProcMonitor` in one state space: the commands and the giving up of
  the one are the atomic steps that the other is shown to amount to.
- In `FsMonitor` another directory that takes the path of a renamed one that is still
  watched; in `ExecArgs` the restart of the worker, with which its cache and ring go.

## Plan

Done: every module of the table above, and the proofs.

Left, both of them proofs:

1. `AnomaliesAreOfTheCall` of `ExecArgs`, with the words that are kept said without
   recursion.
2. The safety lemmas under the liveness properties: that a step which could be taken
   stays possible, as far as it can be said without `ENABLED`.
