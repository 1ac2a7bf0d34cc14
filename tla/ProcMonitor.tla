---------------------------- MODULE ProcMonitor ----------------------------
(***************************************************************************)
(* The two threads of the proc worker that share the process               *)
(* configurations without a lock: the monitor thread (monitor_thread_func), *)
(* which checks, restarts and gives up on processes, and the main thread,   *)
(* whose start and stop commands write monitor_switch and then              *)
(* last_monitor_time, and which waits in send_response while the response   *)
(* queue has no room.  Time is counted in seconds, as time(NULL) does, and  *)
(* kept as ages, so that the behaviours that never end have finitely many   *)
(* states.  The worker may be killed at any step and started again.         *)
(***************************************************************************)
EXTENDS Naturals

CONSTANTS
  NumConfigs,   \* config_count
  Period,       \* monitor_period of each configuration
  Attempts,     \* restarts tried before giving up: 3 in the code
  RestartWait,  \* seconds slept after a restart: 2 in the code
  Slack,        \* bound on the seconds of a pass beyond the sleeps
  MaxCommands,  \* bound on the start and stop commands
  MaxRestarts   \* bound on the times the worker is started again

Configs == 1..NumConfigs

ASSUME MonitorAssumption ==
  /\ NumConfigs \in Nat \ {0}
  /\ Period \in [Configs -> Nat \ {0}]
  /\ Attempts \in Nat \ {0}
  /\ RestartWait \in Nat \ {0}
  /\ Slack \in Nat \ {0}
  /\ MaxCommands \in Nat
  /\ MaxRestarts \in Nat

VARIABLES
  on,         \* configs[i].monitor_switch
  age,        \* time(NULL) - configs[i].last_monitor_time
  passAge,    \* time(NULL) - current_time of the pass under way
  up,         \* whether the process of a configuration runs
  mpc,        \* where the monitor thread is
  idx,        \* the configuration it looks at
  retries,    \* retry_count
  nap,        \* seconds left of sleep(2)
  running,    \* ebpf_running
  cmd,        \* the start or stop command half done, NoCommand if there is none
  commands,   \* commands so far
  main,       \* the main thread: at its loop head, in the body, between
              \* the two writes of a command, answering, joining, cleaned up
  clogged,    \* the answer it sends finds no room in the response queue
  exiting,    \* ebpf_exiting
  restarts,   \* how often the worker was started again
  toggleAge,  \* history: seconds since the last start or stop took effect
  quiet       \* history: that command ran between two passes

monitorVars == <<mpc, idx, retries, nap>>
mainVars == <<running, cmd, commands, main, clogged>>
lifeVars == <<exiting, restarts>>
historyVars == <<toggleAge, quiet>>
vars == <<on, age, passAge, up, mpc, idx, retries, nap, running, cmd, commands,
          main, clogged, exiting, restarts, toggleAge, quiet>>

NoCommand == [config |-> 0, status |-> FALSE]

\* The longest pass: every configuration goes through all its restarts.
MaxPass == Slack + NumConfigs * Attempts * RestartWait

\* Ages beyond MaxAge are not told apart: any check is due by then.
MaxPeriod == CHOOSE p \in {Period[c] : c \in Configs} :
               \A c \in Configs : Period[c] <= p
MaxAge == MaxPass + MaxPeriod

Older(a) == IF a < MaxAge THEN a + 1 ELSE a

InPass == mpc \notin {"test", "sleep", "done"}

Init ==
  /\ on \in [Configs -> BOOLEAN]
  /\ age = [c \in Configs |-> MaxAge]
  /\ passAge = 0
  /\ up \in [Configs -> BOOLEAN]
  /\ mpc = "test" /\ idx = 1 /\ retries = 0 /\ nap = 0
  /\ running = FALSE
  /\ cmd = NoCommand /\ commands = 0
  /\ main = "top" /\ clogged = FALSE
  /\ exiting = FALSE /\ restarts = 0
  /\ toggleAge = [c \in Configs |-> MaxAge]
  /\ quiet = [c \in Configs |-> TRUE]
----------------------------------------------------------------------------
(* The monitor thread.                                                      *)

\* Mutant: the thread leaves its loop only if monitoring has been stopped.
LoopTestWhileRunning ==
  /\ mpc = "test"
  /\ mpc' = IF exiting /\ ~running THEN "done" ELSE "sleep"
  /\ UNCHANGED <<on, age, passAge, up, idx, retries, nap, mainVars, lifeVars, historyVars>>

\* while (!ebpf_exiting): the flag is only read here, so a signal during the
\* usleep that follows leaves one more pass to be made.
LoopTest ==
  /\ mpc = "test"
  /\ mpc' = IF exiting THEN "done" ELSE "sleep"
  /\ UNCHANGED <<on, age, passAge, up, idx, retries, nap, mainVars, lifeVars, historyVars>>

\* usleep is over: the pass begins, and current_time is taken.
Wake ==
  /\ mpc = "sleep"
  /\ mpc' = "scan"
  /\ idx' = 1
  /\ passAge' = 0
  /\ UNCHANGED <<on, age, up, retries, nap, mainVars, lifeVars, historyVars>>

\* current_time - last_monitor_time >= monitor_period, without subtraction.
Due(c) == on[c] /\ age[c] >= passAge + Period[c]

ScanEnd ==
  /\ mpc = "scan" /\ idx > NumConfigs
  /\ mpc' = "test"
  /\ passAge' = 0
  /\ UNCHANGED <<on, age, up, idx, retries, nap, mainVars, lifeVars, historyVars>>

\* Mutant: the time is written back for a configuration that is not due, too.
SkipAndStamp ==
  /\ mpc = "scan" /\ idx \in Configs
  /\ ~Due(idx)
  /\ age' = [age EXCEPT ![idx] = passAge]
  /\ idx' = idx + 1
  /\ UNCHANGED <<on, passAge, up, mpc, retries, nap, mainVars, lifeVars, historyVars>>

Skip ==
  /\ mpc = "scan" /\ idx \in Configs
  /\ ~Due(idx)
  /\ idx' = idx + 1
  /\ UNCHANGED <<on, age, passAge, up, mpc, retries, nap, mainVars, lifeVars, historyVars>>

StartCheck ==
  /\ mpc = "scan" /\ idx \in Configs
  /\ Due(idx)
  /\ mpc' = "check"
  /\ retries' = 0
  /\ UNCHANGED <<on, age, passAge, up, idx, nap, mainVars, lifeVars, historyVars>>

\* check_process_status: the monitor command tells whether the process runs.
Check ==
  /\ mpc = "check"
  /\ mpc' = IF up[idx] THEN "stamp" ELSE "recover"
  /\ UNCHANGED <<on, age, passAge, up, idx, retries, nap, mainVars, lifeVars, historyVars>>

\* The recover command starts the process, or fails to.
Recover ==
  /\ mpc = "recover"
  /\ \E started \in BOOLEAN : up' = [up EXCEPT ![idx] = @ \/ started]
  /\ mpc' = "nap"
  /\ nap' = RestartWait
  /\ UNCHANGED <<on, age, passAge, idx, retries, mainVars, lifeVars, historyVars>>

\* Mutant: one restart too many is counted.
RecheckOnceMore ==
  /\ mpc = "nap" /\ nap = 0
  /\ IF up[idx]
     THEN mpc' = "stamp" /\ UNCHANGED retries
     ELSE /\ retries' = retries + 1
          /\ mpc' = IF retries + 1 <= Attempts THEN "recover" ELSE "alarm"
  /\ UNCHANGED <<on, age, passAge, up, idx, nap, mainVars, lifeVars, historyVars>>

Recheck ==
  /\ mpc = "nap" /\ nap = 0
  /\ IF up[idx]
     THEN mpc' = "stamp" /\ UNCHANGED retries
     ELSE /\ retries' = retries + 1
          /\ mpc' = IF retries + 1 < Attempts THEN "recover" ELSE "alarm"
  /\ UNCHANGED <<on, age, passAge, up, idx, nap, mainVars, lifeVars, historyVars>>

\* Mutant: the alarm command has run, but the configuration stays on.
GiveUpStillOn ==
  /\ mpc = "alarm"
  /\ mpc' = "stamp"
  /\ UNCHANGED <<on, age, passAge, up, idx, retries, nap, mainVars, lifeVars, historyVars>>

\* The alarm command has run; the configuration is switched off.
GiveUp ==
  /\ mpc = "alarm"
  /\ on' = [on EXCEPT ![idx] = FALSE]
  /\ mpc' = "stamp"
  /\ UNCHANGED <<age, passAge, up, idx, retries, nap, mainVars, lifeVars, historyVars>>

\* last_monitor_time = current_time: the time the pass began, not the time now.
Stamp ==
  /\ mpc = "stamp"
  /\ age' = [age EXCEPT ![idx] = passAge]
  /\ idx' = idx + 1
  /\ mpc' = "scan"
  /\ UNCHANGED <<on, passAge, up, retries, nap, mainVars, lifeVars, historyVars>>

Monitor ==
  \/ LoopTest \/ Wake \/ ScanEnd \/ Skip \/ StartCheck \/ Check
  \/ Recover \/ Recheck \/ GiveUp \/ Stamp
----------------------------------------------------------------------------
(* The main thread.                                                         *)

\* What ebpf_running is once the command under way has been answered.
RunningAfterCommand == IF cmd # NoCommand THEN cmd.status ELSE running

\* while (!ebpf_exiting): the flag is read before each command.
LoopTop ==
  /\ main = "top"
  /\ main' = IF exiting THEN "join" ELSE "body"
  /\ UNCHANGED <<on, age, passAge, up, monitorVars, running, cmd, commands, clogged, lifeVars, historyVars>>

\* No command; then the poll.
Idle ==
  /\ main = "body"
  /\ main' = "top"
  /\ UNCHANGED <<on, age, passAge, up, monitorVars, running, cmd, commands, clogged, lifeVars, historyVars>>

\* A command that touches no configuration is answered.  (The two answers to a
\* list whose file cannot be opened are one here: it waits until both are sent.)
Other ==
  /\ main = "body"
  /\ main' = "answer" /\ clogged' \in BOOLEAN
  /\ UNCHANGED <<on, age, passAge, up, monitorVars, running, cmd, commands, lifeVars, historyVars>>

\* Mutant: a start is accepted while event tracking runs.
BeginCommandAlways(c, status) ==
  /\ main = "body"
  /\ commands < MaxCommands
  /\ on' = [on EXCEPT ![c] = status]
  /\ cmd' = [config |-> c, status |-> status]
  /\ commands' = commands + 1
  /\ main' = "half"
  /\ quiet' = [quiet EXCEPT ![c] = ~InPass]
  /\ UNCHANGED <<age, passAge, up, monitorVars, running, clogged, lifeVars, toggleAge>>

\* handle_proc_status_command writes the switch: start is accepted only while
\* ebpf_running is false, stop only while it is true.
BeginCommand(c, status) ==
  /\ main = "body"
  /\ commands < MaxCommands
  /\ running = ~status
  /\ on' = [on EXCEPT ![c] = status]
  /\ cmd' = [config |-> c, status |-> status]
  /\ commands' = commands + 1
  /\ main' = "half"
  /\ quiet' = [quiet EXCEPT ![c] = ~InPass]
  /\ UNCHANGED <<age, passAge, up, monitorVars, running, clogged, lifeVars, toggleAge>>

\* Mutant: the command does not reset the monitoring time.
SkipReset ==
  /\ main = "half"
  /\ toggleAge' = [toggleAge EXCEPT ![cmd.config] = 0]
  /\ quiet' = [quiet EXCEPT ![cmd.config] = @ /\ ~InPass]
  /\ main' = "answer" /\ clogged' \in BOOLEAN
  /\ UNCHANGED <<on, age, passAge, up, monitorVars, running, cmd, commands, lifeVars>>

\* Then it writes the time and answers.
ResetTime ==
  /\ main = "half"
  /\ age' = [age EXCEPT ![cmd.config] = 0]
  /\ toggleAge' = [toggleAge EXCEPT ![cmd.config] = 0]
  /\ quiet' = [quiet EXCEPT ![cmd.config] = @ /\ ~InPass]
  /\ main' = "answer" /\ clogged' \in BOOLEAN
  /\ UNCHANGED <<on, passAge, up, monitorVars, running, cmd, commands, lifeVars>>

\* send_response: mq_send waits for room, through signals too (SA_RESTART);
\* without a queue nothing is sent.  Then a start or stop sets ebpf_running.
SendResponse ==
  /\ main = "answer" /\ ~clogged
  /\ running' = RunningAfterCommand
  /\ cmd' = NoCommand
  /\ main' = "top"
  /\ UNCHANGED <<on, age, passAge, up, monitorVars, commands, clogged, lifeVars, historyVars>>

\* pthread_join returns; the queues are unlinked and the ring buffer is freed.
Cleanup ==
  /\ main = "join" /\ mpc = "done"
  /\ main' = "gone"
  /\ UNCHANGED <<on, age, passAge, up, monitorVars, running, cmd, commands, clogged, lifeVars, historyVars>>

MainThread == LoopTop \/ Idle \/ Other \/ ResetTime \/ SendResponse \/ Cleanup
----------------------------------------------------------------------------
(* The environment: signals, time, and processes that die.                  *)

Signal ==
  /\ ~exiting
  /\ exiting' = TRUE
  /\ UNCHANGED <<on, age, passAge, up, monitorVars, mainVars, restarts, historyVars>>

\* The worker is killed at any step, or has ended, and systemd starts it again:
\* nothing but the configuration files (as they are then) survives.
Restart ==
  /\ restarts < MaxRestarts
  /\ restarts' = restarts + 1
  /\ on' \in [Configs -> BOOLEAN] /\ up' \in [Configs -> BOOLEAN]
  /\ age' = [c \in Configs |-> MaxAge] /\ passAge' = 0
  /\ mpc' = "test" /\ idx' = 1 /\ retries' = 0 /\ nap' = 0
  /\ running' = FALSE /\ cmd' = NoCommand
  /\ main' = "top" /\ clogged' = FALSE /\ exiting' = FALSE
  /\ toggleAge' = [c \in Configs |-> MaxAge]
  /\ quiet' = [c \in Configs |-> TRUE]
  /\ UNCHANGED commands

\* A client receives, or the response queue goes: there is room again.
Drain ==
  /\ clogged
  /\ clogged' = FALSE
  /\ UNCHANGED <<on, age, passAge, up, monitorVars, running, cmd, commands, main, lifeVars, historyVars>>

\* A second passes, during a sleep or while the pass has used up no more than
\* Slack.
Tick ==
  /\ main # "gone"
  /\ InPass => nap > 0 \/ passAge < Slack
  /\ passAge' = IF InPass THEN passAge + 1 ELSE 0
  /\ age' = [c \in Configs |-> Older(age[c])]
  /\ toggleAge' = [c \in Configs |-> Older(toggleAge[c])]
  /\ nap' = IF nap > 0 THEN nap - 1 ELSE 0
  /\ UNCHANGED <<on, up, mpc, idx, retries, mainVars, lifeVars, quiet>>

Die(c) ==
  /\ main # "gone"
  /\ up[c]
  /\ up' = [up EXCEPT ![c] = FALSE]
  /\ UNCHANGED <<on, age, passAge, monitorVars, mainVars, lifeVars, historyVars>>

Next ==
  \/ Monitor
  \/ \E c \in Configs, status \in BOOLEAN : BeginCommand(c, status)
  \/ MainThread
  \/ Signal
  \/ Restart
  \/ Drain
  \/ Tick
  \/ \E c \in Configs : Die(c)

\* Both threads are scheduled, the monitor, recover and alarm commands return,
\* and time passes.  Nothing is assumed of the clients: the main thread gets
\* past send_response only once there is room.
Fairness == WF_vars(Monitor) /\ WF_vars(MainThread) /\ WF_vars(Tick)

Spec == Init /\ [][Next]_vars /\ Fairness
----------------------------------------------------------------------------
\* The variables have their types and the loop indices their ranges.
TypeOK ==
  /\ on \in [Configs -> BOOLEAN] /\ up \in [Configs -> BOOLEAN]
  /\ age \in [Configs -> 0..MaxAge] /\ toggleAge \in [Configs -> 0..MaxAge]
  /\ passAge \in 0..MaxPass
  /\ mpc \in {"test", "sleep", "scan", "check", "recover", "nap", "alarm", "stamp", "done"}
  /\ idx \in 1..NumConfigs + 1 /\ retries \in 0..Attempts /\ nap \in 0..RestartWait
  /\ running \in BOOLEAN /\ exiting \in BOOLEAN
  /\ cmd \in [config : 0..NumConfigs, status : BOOLEAN]
  /\ commands \in 0..MaxCommands
  /\ main \in {"top", "body", "half", "answer", "join", "gone"}
  /\ clogged \in BOOLEAN
  /\ quiet \in [Configs -> BOOLEAN]

\* The command that is between its two writes is for configuration c.
HalfDone(c) == main = "half" /\ cmd.config = c

\* A start or stop whose two writes fall between two passes of the monitor
\* thread does reset the monitoring time, whatever commands raced with passes
\* before it: no check until a full period after it, answered or not.
QuietToggleResetsPeriod ==
  [][StartCheck /\ quiet[idx] /\ ~HalfDone(idx)
       => toggleAge[idx] >= passAge + Period[idx]]_vars

\* A process that is down while its configuration stays switched on is
\* restarted, or the monitor gives up on it, or the worker shuts down; also an
\* outage that the worker finds when it is started again after it was killed.
OutageEnds ==
  \A c \in Configs : on[c] /\ ~up[c] ~> up[c] \/ ~on[c] \/ exiting

\* However long other configurations keep the thread busy, a configuration
\* that stays switched on is checked.
NoConfigStarved ==
  \A c \in Configs : on[c] ~> (mpc = "check" /\ idx = c) \/ ~on[c] \/ exiting

\* After a signal the worker joins the monitor thread and cleans up, whatever
\* restart is under way, unless it is killed before, or waits for ever for room
\* in a response queue that no client empties.
ShutdownCompletes == []<>~clogged => (exiting ~> main = "gone" \/ ~exiting)
----------------------------------------------------------------------------
(* Seen from outside, a command sets ebpf_running when it begins.           *)

Abstract == INSTANCE Switches WITH running <- RunningAfterCommand

\* The halves of a command, the passes that switch configurations off between
\* them and the deaths of the worker amount to atomic commands of which start
\* and stop take turns (handle_command).
ImplementsSwitches == Abstract!Spec
============================================================================
