--------------------------- MODULE MCProcMonitor ---------------------------
(* Small instances of ProcMonitor for TLC.                                 *)
EXTENDS ProcMonitor

\* The configurations get the periods 1, 2, ... seconds.
MCPeriod == [c \in Configs |-> c]
============================================================================
