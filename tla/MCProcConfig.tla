---------------------------- MODULE MCProcConfig ----------------------------
(* A small instance of ProcConfig for TLC.                                 *)
EXTENDS ProcConfig

\* A line that sets a key.
Set(key, value) == [assigns |-> TRUE, indent |-> FALSE, key |-> key,
                    lead |-> FALSE, value |-> value, ended |-> TRUE]

\* With an IntMax of 3 the number 5 is read as -3; with a LongMax of 15 the number
\* 20 is read as 15, which becomes -1.
MCNumberOf == [word \in {"0", "2", "5", "20"} |->
  CASE word = "0" -> 0 [] word = "2" -> 2 [] word = "5" -> 5 [] OTHER -> 20]

\* Values that are given, empty, at the end of the file, or after a blank, keys
\* that are not known or not at the start, a comment, and a line without "=".
MCLines ==
  {Set("NAME", "sshd"), [Set("NAME", "") EXCEPT !.ended = FALSE],
   Set("MONITOR_PERIOD", "2"), Set("MONITOR_PERIOD", "0"),
   [Set("MONITOR_PERIOD", "5") EXCEPT !.lead = TRUE], Set("MONITOR_PERIOD", "20"),
   Set("MONITOR_SWITCH", "on"), [Set("MONITOR_SWITCH", "on") EXCEPT !.lead = TRUE],
   Set("MONITOR_COMMAND", "true"), Set("MONITOR_COMMAND", ""),
   [Set("MONITOR_COMMAND", "") EXCEPT !.ended = FALSE],
   [Set("TEXT", "root") EXCEPT !.indent = TRUE],
   Set("#", "1"), [Set("", "") EXCEPT !.assigns = FALSE]}

Read(file) == [read |-> TRUE, file |-> file]
NotRead == [read |-> FALSE, file |-> << >>]

FilesOf(n) == {f \in [1..n -> MCLines] : \A i \in 1 .. n - 1 : f[i].ended}

\* One file of four lines, or two files with three lines and another entry.
MCDirectories ==
  {<<Read(f)>> : f \in FilesOf(4)}
  \cup UNION {{<<Read(f), NotRead, Read(g)>> : f \in FilesOf(n), g \in FilesOf(3 - n)} : n \in 0..3}
============================================================================
