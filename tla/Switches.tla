------------------------------ MODULE Switches ------------------------------
(***************************************************************************)
(* What the two threads of the proc worker make of monitor_switch and      *)
(* ebpf_running, seen from outside: each start, stop and giving up is one  *)
(* step that touches one configuration, and a new worker begins with the   *)
(* switches of its files and with event tracking stopped.  ProcMonitor,    *)
(* where a command takes several steps that mix with those of the monitor  *)
(* thread, implements it.                                                  *)
(***************************************************************************)
EXTENDS Naturals

CONSTANT Configs   \* process configurations

VARIABLES
  on,        \* configs[i].monitor_switch
  running,   \* ebpf_running
  restarts   \* how often the worker was started again

vars == <<on, running, restarts>>

Init ==
  /\ on \in [Configs -> BOOLEAN]
  /\ running = FALSE
  /\ restarts = 0

\* proc start is refused while event tracking runs, whatever configuration it
\* names, and switches one configuration on.
Start(c) ==
  /\ ~running
  /\ running' = TRUE
  /\ on' = [on EXCEPT ![c] = TRUE]
  /\ UNCHANGED restarts

\* proc stop ends event tracking for all and switches one configuration off.
Stop(c) ==
  /\ running
  /\ running' = FALSE
  /\ on' = [on EXCEPT ![c] = FALSE]
  /\ UNCHANGED restarts

\* The monitor thread gives up on a program: event tracking goes on.
GiveUp(c) ==
  /\ on' = [on EXCEPT ![c] = FALSE]
  /\ UNCHANGED <<running, restarts>>

\* systemd starts the worker again, which reads its files.
Restart ==
  /\ on' \in [Configs -> BOOLEAN]
  /\ running' = FALSE
  /\ restarts' = restarts + 1

Next ==
  \/ \E c \in Configs : Start(c) \/ Stop(c) \/ GiveUp(c)
  \/ Restart

Spec == Init /\ [][Next]_vars
============================================================================
