--------------------------- MODULE MCProcTracker ---------------------------
(* Small instances of ProcTracker for TLC.                                 *)
EXTENDS ProcTracker, TLC

CONSTANTS target, other

\* Every configuration names target: other programs are not configured.
MCNameOf == [c \in Configs |-> target]

\* Bound of the instance with three processes: one irregular pid at a time.
FewAnomalies == Cardinality(lost \cup reborn) <= 1

\* The processes without threads are interchangeable.
Symmetry == Permutations(Pids \ MultiThreaded)
============================================================================
