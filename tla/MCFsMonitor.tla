---------------------------- MODULE MCFsMonitor ----------------------------
(* Small instances of FsMonitor for TLC.                                   *)
EXTENDS FsMonitor

CONSTANTS d1, d2

\* The first and the last file have one directory.
MCPathOf == [f \in Files |-> IF f = 2 THEN d2 ELSE d1]

\* The files are read only between two polls: what somebody does to them during
\* a poll might as well be done after it.
EditsAtRest == phase = "poll" => disk' = disk
============================================================================
