----------------------------- MODULE ProcConfig -----------------------------
(***************************************************************************)
(* How the proc worker reads its configuration files at start-up           *)
(* (proc.c: proc_parse_config, parse_config_file, trim_whitespace): entry  *)
(* by entry of the directory and line by line, next to what a file means.  *)
(* Letter case and the length limits of lines and values are left out.     *)
(***************************************************************************)
EXTENDS Integers, Sequences, FiniteSetsExt

CONSTANTS
  NumberOf,   \* the decimal number some words spell
  IntMax,     \* the largest int
  LongMax,    \* the largest long
  Directories \* the contents of the directory /etc/sysDetector/proc

\* The keys of g_ps_opt_array; "TEXT" stands for the four that are only copied
\* (USER, RECOVER_COMMAND, STOP_COMMAND, ALARM_COMMAND).
Keys == {"NAME", "MONITOR_PERIOD", "MONITOR_SWITCH", "MONITOR_COMMAND", "TEXT"}

\* A line "key=value".  assigns: it has a "="; indent, lead: blanks stand before
\* the key and the value; ended: a newline follows.
Line == [assigns : BOOLEAN, indent : BOOLEAN, key : STRING,
         lead : BOOLEAN, value : STRING, ended : BOOLEAN]

\* Every line but the last one of a file ends in a newline.
File == {f \in Seq(Line) : \A i \in 1 .. Len(f) - 1 : f[i].ended}

ASSUME ConfigAssumption ==
  /\ \A word \in DOMAIN NumberOf : NumberOf[word] \in Nat
  /\ IntMax \in Nat /\ IntMax >= 3
  /\ LongMax \in Nat /\ LongMax >= IntMax
  /\ \A listed \in Directories : listed \in Seq([read : BOOLEAN, file : File])

VARIABLES
  directory,  \* its entries: read says whether an entry is a file to read
  entry,      \* the entry proc_parse_config is at
  position,   \* the line parse_config_file is at, 0 if it is between files
  config,     \* its local variable config, Rejected once it has returned -1
  configs     \* the configurations read so far

vars == <<directory, entry, position, config, configs>>
----------------------------------------------------------------------------
Empty == [lead |-> FALSE, word |-> ""]
DefaultCommand == [lead |-> FALSE, word |-> "pgrep"]
Defaults ==
  [k \in Keys |-> CASE k = "MONITOR_PERIOD" -> 3
                    [] k = "MONITOR_SWITCH" -> FALSE
                    [] OTHER -> Empty]
Rejected == << >>

\* trim_whitespace of a value: blanks are removed from its end, not from its
\* front, and a value of nothing but blanks, its newline included, is kept.
Trimmed(line) ==
  [lead |-> line.lead \/ (line.value = "" /\ line.ended), word |-> line.value]

\* Mutant: the period is kept as the long it was parsed as.
AsIntUncut(n) == n

\* The conversion from long to int.
Wrapped(n) == ((n + IntMax + 1) % (2 * (IntMax + 1))) - (IntMax + 1)

\* strtol stops at the largest long, and the long is stored as an int.
AsInt(n) == Wrapped(IF n <= LongMax THEN n ELSE LongMax)

\* Mutant: a period of zero is accepted.
IsPeriodOrZero(text) == text.word \in DOMAIN NumberOf

\* strtol skips blanks in front and must reach the end.
IsPeriod(text) == text.word \in DOMAIN NumberOf /\ NumberOf[text.word] >= 1

IsSwitch(text) == ~text.lead /\ text.word \in {"on", "off"}

\* The function of a key accepts the text.
Valid(key, text) ==
  /\ key = "MONITOR_PERIOD" => IsPeriod(text)
  /\ key = "MONITOR_SWITCH" => IsSwitch(text)

\* What it stores.
Stored(key, text) ==
  CASE key = "MONITOR_PERIOD" -> AsInt(NumberOf[text.word])
    [] key = "MONITOR_SWITCH" -> text.word = "on"
    [] OTHER -> text

\* Lines without "=", and by the first character comments and lines without a
\* key, are skipped.
Skipped(line) == ~line.assigns \/ (~line.indent /\ line.key \in {"#", ""})

\* A key with a blank in front of it is no key.
Known(line) == ~line.indent /\ line.key \in Keys
----------------------------------------------------------------------------
Init ==
  /\ directory \in Directories
  /\ entry = 1 /\ position = 0
  /\ config = Defaults
  /\ configs = << >>

\* What is no regular file, has no name that ends in .conf, or is gone, is
\* passed over.
PassOver ==
  /\ entry <= Len(directory) /\ position = 0
  /\ ~directory[entry].read
  /\ entry' = entry + 1
  /\ UNCHANGED <<directory, position, config, configs>>

\* Mutant: the configuration is not initialised for each file.
OpenFileWithoutDefaults ==
  /\ entry <= Len(directory) /\ position = 0
  /\ directory[entry].read
  /\ position' = 1
  /\ config' = IF config = Rejected THEN Defaults ELSE config
  /\ UNCHANGED <<directory, entry, configs>>

OpenFile ==
  /\ entry <= Len(directory) /\ position = 0
  /\ directory[entry].read
  /\ position' = 1
  /\ config' = Defaults
  /\ UNCHANGED <<directory, entry, configs>>

\* One turn of the loop of parse_config_file.
ReadLine ==
  /\ position > 0 /\ config # Rejected
  /\ position <= Len(directory[entry].file)
  /\ LET line == directory[entry].file[position]
         text == Trimmed(line)
     IN  config' = IF Skipped(line) THEN config
                   ELSE IF Known(line) /\ Valid(line.key, text)
                        THEN [config EXCEPT ![line.key] = Stored(line.key, text)]
                        ELSE Rejected
  /\ position' = position + 1
  /\ UNCHANGED <<directory, entry, configs>>

\* The end of the file, or the return from a line that is not valid.  A file
\* without a name is no configuration either.
CloseFile ==
  /\ position > 0
  /\ config = Rejected \/ position > Len(directory[entry].file)
  /\ configs' = IF config = Rejected \/ config["NAME"] = Empty
                THEN configs
                ELSE Append(configs, [config EXCEPT
                       !["MONITOR_COMMAND"] = IF @ = Empty THEN DefaultCommand ELSE @])
  /\ entry' = entry + 1 /\ position' = 0
  /\ UNCHANGED <<directory, config>>

Next == PassOver \/ OpenFile \/ ReadLine \/ CloseFile

Spec == Init /\ [][Next]_vars
----------------------------------------------------------------------------
(* What a file means, without reading it in order.                          *)

\* Of the first lines of a file, those that set a key, or are meant to.
Settings(file, last) == {i \in 1..last : ~Skipped(file[i])}

LinesFor(file, last, key) == {i \in Settings(file, last) : file[i].key = key}

\* Each of them sets a key, at the start of the line, to a valid value.
Sound(file, last) ==
  \A i \in Settings(file, last) : Known(file[i]) /\ Valid(file[i].key, Trimmed(file[i]))

\* The value they give to a key: that of the last line for it.
Given(file, last, key) ==
  IF LinesFor(file, last, key) = {}
  THEN Defaults[key]
  ELSE Stored(key, Trimmed(file[Max(LinesFor(file, last, key))]))

\* Every line that is no comment is sound, and one of them names the process.
Accepted(file) == Sound(file, Len(file)) /\ Given(file, Len(file), "NAME") # Empty

Meaning(file) ==
  [k \in Keys |-> IF k = "MONITOR_COMMAND" /\ Given(file, Len(file), k) = Empty
                  THEN DefaultCommand
                  ELSE Given(file, Len(file), k)]

\* The entries before an entry that are files and accepted.
AcceptedBefore(n) == {i \in 1 .. n - 1 : directory[i].read /\ Accepted(directory[i].file)}
----------------------------------------------------------------------------
\* The loops stay in their bounds, and a configuration has the values of its
\* keys: texts, a switch, and a period that is an int.
TypeOK ==
  /\ entry \in 1 .. Len(directory) + 1
  /\ position > 0 => entry <= Len(directory) /\ position <= Len(directory[entry].file) + 1
  /\ \A c \in {configs[i] : i \in 1..Len(configs)} \cup ({config} \ {Rejected}) :
       /\ DOMAIN c = Keys
       /\ c["MONITOR_SWITCH"] \in BOOLEAN
       /\ c["MONITOR_PERIOD"] \in -IntMax - 1 .. IntMax

\* What is read is what the files say, each by itself, in their order: a file is
\* taken as a whole or not at all, a later line overrides an earlier one for the
\* same key, nothing is taken over from another file, and a rejected one hides
\* no other.  (configs/proc/README.md refuses a key that is repeated;
\* parse_config_file compares no line with an earlier one.)
ConfigsAreAsWritten ==
  /\ Len(configs) = Cardinality(AcceptedBefore(entry))
  /\ \A i \in AcceptedBefore(entry) :
       configs[Cardinality(AcceptedBefore(i + 1))] = Meaning(directory[i].file)

\* The number of a line does not fit into an int.
Overflows(line) ==
  line.key = "MONITOR_PERIOD" /\ line.value \in DOMAIN NumberOf /\ NumberOf[line.value] > IntMax

\* The monitor thread gets periods of at least one, the least time between checks
\* that ProcMonitor assumes, unless a file gives one that does not fit into an int.
PeriodsArePositive ==
  \/ \A i \in 1..Len(configs) : configs[i]["MONITOR_PERIOD"] >= 1
  \/ \E i \in 1..Len(directory) : \E j \in 1..Len(directory[i].file) :
       Overflows(directory[i].file[j])
----------------------------------------------------------------------------
(* Why ConfigsAreAsWritten holds.                                          *)

\* While a file is read, config is what its lines so far say.
ReadSoFar ==
  position > 0 =>
    LET file == directory[entry].file
    IN  config = IF Sound(file, position - 1)
                 THEN [k \in Keys |-> Given(file, position - 1, k)]
                 ELSE Rejected

\* Each configuration is that of a file.
EachIsMeant ==
  \A n \in 1..Len(configs) : \E i \in AcceptedBefore(entry) : configs[n] = Meaning(directory[i].file)
============================================================================
