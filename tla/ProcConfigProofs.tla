-------------------------- MODULE ProcConfigProofs --------------------------
(***************************************************************************)
(* Proofs about the configuration parser of the proc worker, for any       *)
(* directory of any files: types, that what is read is what the files say, *)
(* and that periods are positive.                                          *)
(***************************************************************************)
EXTENDS ProcConfig, FiniteSetTheorems, TLAPS
-----------------------------------------------------------------------------
(* Files, by their first lines.                                             *)

LEMMA FileTyped ==
  ASSUME NEW file \in File
  PROVE  Len(file) \in Nat /\ \A i \in 1..Len(file) : file[i] \in Line
<1>1. file \in Seq(Line)
  BY DEF File
<1>2. \A T : \A s \in Seq(T) : Len(s) \in Nat /\ \A i \in 1..Len(s) : s[i] \in T
  OBVIOUS
<1>. QED  BY <1>1, <1>2

LEMMA MaxIs ==
  ASSUME NEW S \in SUBSET Int, NEW m \in S, \A y \in S : m >= y
  PROVE  Max(S) = m
<1> DEFINE IsMax(x) == \A y \in S : x >= y
<1>1. \A x \in S : IsMax(x) => x = m
  OBVIOUS
<1>2. (CHOOSE x \in S : IsMax(x)) = m
  <2> HIDE DEF IsMax
  <2>1. IsMax(m)
    BY DEF IsMax
  <2>. QED  BY <1>1, <2>1
<1>. QED  BY <1>2 DEF Max

\* No line says nothing.
LEMMA NothingSaid ==
  ASSUME NEW file
  PROVE  Sound(file, 0) /\ [k \in Keys |-> Given(file, 0, k)] = Defaults
<1>1. Settings(file, 0) = {}
  BY DEF Settings
<1>2. \A k \in Keys : Given(file, 0, k) = Defaults[k]
  BY <1>1 DEF Given, LinesFor
<1>3. Defaults = [k \in Keys |-> Defaults[k]]
  BY DEF Defaults
<1>. QED  BY <1>1, <1>2, <1>3 DEF Sound

\* What one more line says.
LEMMA LineSays ==
  ASSUME NEW file \in File, NEW n \in 1..Len(file)
  PROVE  /\ Sound(file, n) <=>
              /\ Sound(file, n - 1)
              /\ Skipped(file[n]) \/ (Known(file[n]) /\ Valid(file[n].key, Trimmed(file[n])))
         /\ \A k \in Keys : Given(file, n, k) =
              IF ~Skipped(file[n]) /\ file[n].key = k
              THEN Stored(k, Trimmed(file[n]))
              ELSE Given(file, n - 1, k)
<1>1. n \in Nat /\ n >= 1
  BY FileTyped
<1>2. 1..n = (1 .. n - 1) \cup {n}
  BY <1>1
<1>3. Settings(file, n) = Settings(file, n - 1) \cup IF Skipped(file[n]) THEN {} ELSE {n}
  BY <1>2 DEF Settings
<1>4. Sound(file, n) <=>
        /\ Sound(file, n - 1)
        /\ Skipped(file[n]) \/ (Known(file[n]) /\ Valid(file[n].key, Trimmed(file[n])))
  BY <1>3 DEF Sound
<1>5. ASSUME NEW k \in Keys
      PROVE  Given(file, n, k) = IF ~Skipped(file[n]) /\ file[n].key = k
                                 THEN Stored(k, Trimmed(file[n]))
                                 ELSE Given(file, n - 1, k)
  <2>1. CASE ~Skipped(file[n]) /\ file[n].key = k
    <3>1. n \in LinesFor(file, n, k)
      BY <1>3, <2>1 DEF LinesFor
    <3>2. \A i \in LinesFor(file, n, k) : i \in Int /\ n >= i
      BY <1>1 DEF LinesFor, Settings
    <3>3. Max(LinesFor(file, n, k)) = n
      <4>1. LinesFor(file, n, k) \in SUBSET Int
        BY <3>2
      <4>. QED  BY <3>1, <3>2, <4>1, MaxIs
    <3>. QED  BY <2>1, <3>1, <3>3 DEF Given
  <2>2. CASE ~(~Skipped(file[n]) /\ file[n].key = k)
    <3>1. LinesFor(file, n, k) = LinesFor(file, n - 1, k)
      BY <1>3, <2>2 DEF LinesFor
    <3>. QED  BY <2>2, <3>1 DEF Given
  <2>. QED  BY <2>1, <2>2
<1>. QED  BY <1>4, <1>5

\* A file is not sound if its first lines are not.
LEMMA UnsoundStays ==
  ASSUME NEW file \in File, NEW n \in 0..Len(file), ~Sound(file, n)
  PROVE  ~Sound(file, Len(file))
<1>1. Settings(file, n) \subseteq Settings(file, Len(file))
  BY FileTyped DEF Settings
<1>. QED  BY <1>1 DEF Sound

\* What the keys mean is no rejection.
LEMMA NotRejected == \A f : DOMAIN f = Keys => f # Rejected
<1>1. DOMAIN Rejected = {}
  BY DEF Rejected
<1>2. "NAME" \in Keys
  BY DEF Keys
<1>. QED  BY <1>1, <1>2
-----------------------------------------------------------------------------
(* Periods.                                                                 *)

\* The conversion to int yields one, and keeps the numbers that are one.
LEMMA WrappedIs ==
  ASSUME NEW n \in Nat
  PROVE  /\ Wrapped(n) \in -IntMax - 1 .. IntMax
         /\ n <= IntMax => Wrapped(n) = n
<1> DEFINE m == 2 * (IntMax + 1)
           a == n + IntMax + 1
<1>1. m \in Nat /\ m > 0 /\ a \in Nat /\ IntMax \in Nat
  BY ConfigAssumption
<1>2. \A x, y \in Nat : y > 0 => x % y \in 0 .. y - 1
  OBVIOUS
<1>3. a % m \in 0 .. m - 1
  <2> HIDE DEF a, m
  <2>. QED  BY <1>1, <1>2
<1>4. ASSUME n <= IntMax PROVE a % m = a
  <2>1. a < m
    BY <1>1, <1>4
  <2> HIDE DEF a, m
  <2>. QED  BY <1>1, <2>1
<1>5. Wrapped(n) = (a % m) - (IntMax + 1)
  BY DEF Wrapped
<1>6. m = IntMax + IntMax + 2 /\ a = n + IntMax + 1
  BY <1>1
<1> HIDE DEF a, m
<1>7. \A r \in Nat : r = a % m => Wrapped(n) = r - (IntMax + 1)
  BY <1>5
<1>8. PICK r \in 0 .. m - 1 : r = a % m
  BY <1>3
<1>9. Wrapped(n) = r - (IntMax + 1)
  BY <1>5, <1>8
<1>10. n <= IntMax => r = n + IntMax + 1
  BY <1>4, <1>6, <1>8
<1>. QED  BY <1>1, <1>6, <1>8, <1>9, <1>10

\* The int that is kept of a number: the number itself, if it is one.
LEMMA IntIs ==
  ASSUME NEW n \in Nat
  PROVE  /\ AsInt(n) \in -IntMax - 1 .. IntMax
         /\ n <= IntMax => AsInt(n) = n
<1>1. LongMax \in Nat /\ IntMax \in Nat /\ IntMax <= LongMax
  BY ConfigAssumption
<1>2. CASE n <= LongMax
  BY <1>2, WrappedIs DEF AsInt
<1>3. CASE ~(n <= LongMax)
  <2>1. AsInt(n) = Wrapped(LongMax) /\ ~(n <= IntMax)
    BY <1>1, <1>3 DEF AsInt
  <2>. QED  BY <1>1, <2>1, WrappedIs
<1>. QED  BY <1>2, <1>3

SomeOverflow ==
  \E i \in 1..Len(directory) : \E j \in 1..Len(directory[i].file) : Overflows(directory[i].file[j])

\* A configuration with the values of its keys.
Typed(c) ==
  /\ c = [k \in Keys |-> c[k]]
  /\ c["MONITOR_SWITCH"] \in BOOLEAN
  /\ c["MONITOR_PERIOD"] \in -IntMax - 1 .. IntMax
  /\ c["MONITOR_PERIOD"] >= 1 \/ SomeOverflow

LEMMA DefaultsTyped == Typed(Defaults)
<1>1. /\ Defaults = [k \in Keys |-> Defaults[k]]
      /\ Defaults["MONITOR_SWITCH"] = FALSE
      /\ Defaults["MONITOR_PERIOD"] = 3
  BY DEF Defaults, Keys
<1>2. 3 \in -IntMax - 1 .. IntMax
  BY ConfigAssumption
<1>3. Defaults["MONITOR_SWITCH"] \in BOOLEAN
  BY <1>1, Zenon
<1>4. Defaults["MONITOR_PERIOD"] \in -IntMax - 1 .. IntMax /\ Defaults["MONITOR_PERIOD"] >= 1
  BY <1>1, <1>2
<1>. QED  BY <1>1, <1>3, <1>4, Zenon DEF Typed

\* A valid line stores a value of its key.
LEMMA StoredTyped ==
  ASSUME NEW line \in Line, Valid(line.key, Trimmed(line))
  PROVE  LET v == Stored(line.key, Trimmed(line))
         IN  /\ line.key = "MONITOR_SWITCH" => v \in BOOLEAN
             /\ line.key = "MONITOR_PERIOD" =>
                  v \in -IntMax - 1 .. IntMax /\ (v >= 1 \/ Overflows(line))
<1>1. ASSUME line.key = "MONITOR_SWITCH"
      PROVE  Stored(line.key, Trimmed(line)) \in BOOLEAN
  BY <1>1 DEF Stored
<1>2. ASSUME line.key = "MONITOR_PERIOD"
      PROVE  LET v == Stored(line.key, Trimmed(line))
             IN  v \in -IntMax - 1 .. IntMax /\ (v >= 1 \/ Overflows(line))
  <2> DEFINE n == NumberOf[line.value]
  <2>1. line.value \in DOMAIN NumberOf /\ n >= 1
    BY <1>2 DEF Valid, IsPeriod, Trimmed
  <2>2. n \in Nat
    BY <2>1, ConfigAssumption
  <2>3. Stored(line.key, Trimmed(line)) = AsInt(n)
    BY <1>2 DEF Stored, Trimmed
  <2>4. n <= IntMax \/ Overflows(line)
    BY <1>2, <2>1, <2>2, ConfigAssumption DEF Overflows
  <2> HIDE DEF n
  <2>. QED  BY <2>1, <2>2, <2>3, <2>4, IntIs
<1>. QED  BY <1>1, <1>2
-----------------------------------------------------------------------------
(* The files accepted before an entry.                                      *)

LEMMA Before ==
  ASSUME NEW n \in Nat
  PROVE  /\ IsFiniteSet(AcceptedBefore(n)) /\ Cardinality(AcceptedBefore(n)) \in Nat
         /\ AcceptedBefore(n) \subseteq 1 .. n - 1
<1>1. AcceptedBefore(n) \in SUBSET (1 .. n - 1)
  BY DEF AcceptedBefore
<1>2. IsFiniteSet(1 .. n - 1)
  BY FS_Interval
<1>. QED  BY <1>1, <1>2, FS_Subset, FS_CardinalityType

LEMMA NextBefore ==
  ASSUME NEW n \in Nat \ {0}
  PROVE  IF directory[n].read /\ Accepted(directory[n].file)
         THEN /\ AcceptedBefore(n + 1) = AcceptedBefore(n) \cup {n}
              /\ Cardinality(AcceptedBefore(n + 1)) = Cardinality(AcceptedBefore(n)) + 1
         ELSE AcceptedBefore(n + 1) = AcceptedBefore(n)
<1>1. 1 .. (n + 1) - 1 = (1 .. n - 1) \cup {n} /\ n \notin 1 .. n - 1
  OBVIOUS
<1>2. CASE directory[n].read /\ Accepted(directory[n].file)
  <2>1. AcceptedBefore(n + 1) = AcceptedBefore(n) \cup {n} /\ n \notin AcceptedBefore(n)
    BY <1>1, <1>2 DEF AcceptedBefore
  <2>. QED  BY <1>2, <2>1, Before, FS_AddElement
<1>3. CASE ~(directory[n].read /\ Accepted(directory[n].file))
  BY <1>1, <1>3 DEF AcceptedBefore
<1>. QED  BY <1>2, <1>3

\* The place of a configuration is one of those there are.
LEMMA PlaceIn ==
  ASSUME NEW n \in Nat, NEW i \in AcceptedBefore(n)
  PROVE  Cardinality(AcceptedBefore(i + 1)) \in 1 .. Cardinality(AcceptedBefore(n))
<1>1. i \in Nat /\ i >= 1 /\ i <= n - 1
  BY Before
<1>2. AcceptedBefore(i + 1) \in SUBSET AcceptedBefore(n) /\ i \in AcceptedBefore(i + 1)
  BY <1>1 DEF AcceptedBefore
<1>3. Cardinality(AcceptedBefore(i + 1)) <= Cardinality(AcceptedBefore(n))
  BY <1>2, Before, FS_Subset
<1>4. i + 1 \in Nat
  BY <1>1
<1>5. Cardinality(AcceptedBefore(i + 1)) # 0
  BY <1>2, <1>4, Before, FS_EmptySet
<1>. QED  BY <1>3, <1>4, <1>5, Before
-----------------------------------------------------------------------------
(* The invariant of the parser.                                             *)

Meanings == {Meaning(directory[i].file) : i \in 1..Len(directory)}

PlacesOK ==
  /\ directory \in Directories
  /\ entry \in 1 .. Len(directory) + 1 /\ position \in Nat
  /\ position > 0 =>
       /\ entry <= Len(directory) /\ directory[entry].read
       /\ position <= Len(directory[entry].file) + 1

ConfigsOK ==
  /\ configs \in Seq(Meanings)
  /\ config = Rejected \/ Typed(config)
  /\ \A n \in 1..Len(configs) : Typed(configs[n])

ParserInv == PlacesOK /\ ConfigsOK /\ ReadSoFar /\ EachIsMeant /\ ConfigsAreAsWritten

LEMMA DirectoryTyped ==
  ASSUME PlacesOK
  PROVE  /\ Len(directory) \in Nat
         /\ \A i \in 1..Len(directory) : directory[i].read \in BOOLEAN /\ directory[i].file \in File
<1>1. directory \in Seq([read : BOOLEAN, file : File])
  BY ConfigAssumption DEF PlacesOK
<1>2. \A T : \A s \in Seq(T) : Len(s) \in Nat /\ \A i \in 1..Len(s) : s[i] \in T
  OBVIOUS
<1>3. Len(directory) \in Nat /\ \A i \in 1..Len(directory) : directory[i] \in [read : BOOLEAN, file : File]
  BY <1>1, <1>2
<1>. QED  BY <1>3

LEMMA InitParser == Init => ParserInv
<1> SUFFICES ASSUME Init PROVE ParserInv
  OBVIOUS
<1>1. directory \in Directories /\ entry = 1 /\ position = 0 /\ config = Defaults /\ configs = << >>
  BY DEF Init
<1>2. Len(directory) \in Nat
  <2>1. directory \in Seq([read : BOOLEAN, file : File])
    BY <1>1, ConfigAssumption
  <2>. QED  BY <2>1
<1>3. PlacesOK /\ ReadSoFar
  BY <1>1, <1>2 DEF PlacesOK, ReadSoFar
<1>4. configs \in Seq(Meanings) /\ Len(configs) = 0
  BY <1>1
<1>5. ConfigsOK /\ EachIsMeant
  BY <1>1, <1>4, DefaultsTyped DEF ConfigsOK, EachIsMeant
<1>6. AcceptedBefore(entry) = {}
  BY <1>1 DEF AcceptedBefore
<1>7. ConfigsAreAsWritten
  BY <1>4, <1>6, FS_EmptySet DEF ConfigsAreAsWritten
<1>. QED  BY <1>3, <1>5, <1>7 DEF ParserInv

\* Unless the parser goes on to the next entry, what is accepted before is.
LEMMA BeforeStays ==
  ASSUME UNCHANGED directory
  PROVE  /\ \A n : AcceptedBefore(n)' = AcceptedBefore(n)
         /\ Meanings' = Meanings /\ (SomeOverflow' <=> SomeOverflow)
         /\ \A c : Typed(c)' <=> Typed(c)
<1>1. \A n : AcceptedBefore(n)' = AcceptedBefore(n)
  BY DEF AcceptedBefore
<1>2. Meanings' = Meanings /\ (SomeOverflow' <=> SomeOverflow)
  BY DEF Meanings, SomeOverflow
<1>. QED  BY <1>1, <1>2 DEF Typed

LEMMA PassOverParser ==
  ASSUME ParserInv, PassOver
  PROVE  ParserInv'
<1> USE DEF ParserInv
<1>1. /\ entry <= Len(directory) /\ position = 0 /\ ~directory[entry].read /\ entry' = entry + 1
      /\ UNCHANGED <<directory, position, config, configs>>
  BY DEF PassOver
<1>2. entry \in Nat \ {0} /\ Len(directory) \in Nat
  BY DirectoryTyped DEF PlacesOK
<1>3. AcceptedBefore(entry + 1) = AcceptedBefore(entry)
  BY <1>1, <1>2, NextBefore
<1>4. AcceptedBefore(entry)' = AcceptedBefore(entry)
  BY <1>1, <1>3 DEF AcceptedBefore
<1>5. PlacesOK' /\ ReadSoFar'
  BY <1>1, <1>2 DEF PlacesOK, ReadSoFar
<1>6. ConfigsOK'
  BY <1>1, BeforeStays DEF ConfigsOK
<1>7. EachIsMeant'
  BY <1>1, <1>4 DEF EachIsMeant
<1>8. ConfigsAreAsWritten'
  BY <1>1, <1>4, BeforeStays DEF ConfigsAreAsWritten
<1>. QED  BY <1>5, <1>6, <1>7, <1>8

\* While the parser stays at an entry without a new configuration, there is
\* nothing to show about the configurations there are.
LEMMA SameConfigs ==
  ASSUME ParserInv, UNCHANGED <<directory, entry, configs>>
  PROVE  /\ configs' \in Seq(Meanings') /\ \A n \in 1..Len(configs') : Typed(configs[n])'
         /\ EachIsMeant' /\ ConfigsAreAsWritten'
<1>1. AcceptedBefore(entry)' = AcceptedBefore(entry)
  BY DEF AcceptedBefore
<1>2. EachIsMeant' /\ ConfigsAreAsWritten'
  BY <1>1, BeforeStays DEF ParserInv, EachIsMeant, ConfigsAreAsWritten
<1>3. configs' \in Seq(Meanings') /\ \A n \in 1..Len(configs') : Typed(configs[n])'
  BY BeforeStays DEF ParserInv, ConfigsOK
<1>. QED  BY <1>2, <1>3

LEMMA OpenFileParser ==
  ASSUME ParserInv, OpenFile
  PROVE  ParserInv'
<1> USE DEF ParserInv
<1>1. /\ entry <= Len(directory) /\ position = 0 /\ directory[entry].read
      /\ position' = 1 /\ config' = Defaults
      /\ UNCHANGED <<directory, entry, configs>>
  BY DEF OpenFile
<1>2. /\ entry \in 1..Len(directory) /\ Len(directory[entry].file) \in Nat
  BY <1>1, DirectoryTyped, FileTyped DEF PlacesOK
<1>3. PlacesOK'
  BY <1>1, <1>2 DEF PlacesOK
<1>4. ReadSoFar'
  BY <1>1, NothingSaid DEF ReadSoFar
<1>5. Typed(config)'
  BY <1>1, DefaultsTyped DEF Typed, SomeOverflow
<1>6. ConfigsOK'
  BY <1>1, <1>5, SameConfigs DEF ConfigsOK
<1>. QED  BY <1>1, <1>3, <1>4, <1>6, SameConfigs

LEMMA ReadLineParser ==
  ASSUME ParserInv, ReadLine
  PROVE  ParserInv'
<1> USE DEF ParserInv
<1> DEFINE file == directory[entry].file
           line == file[position]
           key == line.key
           value == Stored(key, Trimmed(line))
<1>1. /\ position > 0 /\ config # Rejected /\ position <= Len(file)
      /\ config' = IF Skipped(line) THEN config
                   ELSE IF Known(line) /\ Valid(key, Trimmed(line))
                        THEN [config EXCEPT ![key] = value]
                        ELSE Rejected
      /\ position' = position + 1
      /\ UNCHANGED <<directory, entry, configs>>
  BY DEF ReadLine
<1>2. /\ entry \in 1..Len(directory) /\ file \in File /\ position \in 1..Len(file)
      /\ Len(file) \in Nat /\ line \in Line
  <2>1. entry \in 1..Len(directory) /\ position \in Nat
    BY <1>1, DirectoryTyped DEF PlacesOK
  <2>2. file \in File
    BY <2>1, DirectoryTyped
  <2>. QED  BY <1>1, <2>1, <2>2, FileTyped
<1>3. PlacesOK'
  BY <1>1, <1>2 DEF PlacesOK
<1>4. Sound(file, position - 1) /\ config = [k \in Keys |-> Given(file, position - 1, k)]
  BY <1>1 DEF ReadSoFar
<1>5. /\ Sound(file, position) <=> Skipped(line) \/ (Known(line) /\ Valid(key, Trimmed(line)))
      /\ \A k \in Keys : Given(file, position, k) =
           IF ~Skipped(line) /\ key = k THEN Stored(k, Trimmed(line))
           ELSE Given(file, position - 1, k)
  BY <1>2, <1>4, LineSays
<1>6. Known(line) => key \in Keys
  BY DEF Known
<1> HIDE DEF file, line, key, value
<1>7. config' = IF Sound(file, position)
                THEN [k \in Keys |-> Given(file, position, k)]
                ELSE Rejected
  <2>1. CASE Skipped(line)
    BY <1>1, <1>4, <1>5, <2>1
  <2>2. CASE ~Skipped(line) /\ Known(line) /\ Valid(key, Trimmed(line))
    <3>1. [config EXCEPT ![key] = value] = [k \in Keys |-> Given(file, position, k)]
      BY <1>4, <1>5, <1>6, <2>2 DEF value
    <3>. QED  BY <1>1, <1>5, <2>2, <3>1
  <2>3. CASE ~Skipped(line) /\ ~(Known(line) /\ Valid(key, Trimmed(line)))
    BY <1>1, <1>5, <2>3
  <2>. QED  BY <2>1, <2>2, <2>3
<1>8. ReadSoFar'
  <2>1. file' = file
    BY <1>1 DEF file
  <2>2. position' - 1 = position
    BY <1>1, <1>2
  <2>. QED  BY <1>7, <2>1, <2>2 DEF ReadSoFar, file
<1>9. config' = Rejected \/ Typed(config)'
  <2>1. Typed(config)
    BY <1>1 DEF ConfigsOK
  <2>2. CASE Skipped(line)
    <3>1. config' = config
      BY <1>1, <2>2
    <3>. QED  BY <1>1, <2>1, <3>1 DEF Typed, SomeOverflow
  <2>3. CASE ~Skipped(line) /\ Known(line) /\ Valid(key, Trimmed(line))
    <3>1. /\ key \in Keys
          /\ key = "MONITOR_SWITCH" => value \in BOOLEAN
          /\ key = "MONITOR_PERIOD" =>
               value \in -IntMax - 1 .. IntMax /\ (value >= 1 \/ Overflows(line))
      BY <1>2, <1>6, <2>3, StoredTyped DEF key, value
    <3>2. Overflows(line) => SomeOverflow
      BY <1>2 DEF SomeOverflow, file, line
    <3>3. config' = [config EXCEPT ![key] = value]
      BY <1>1, <2>3
    <3>4. config = [k \in Keys |-> config[k]]
      BY <2>1 DEF Typed
    <3>5. config' = [k \in Keys |-> IF k = key THEN value ELSE config[k]]
      BY <3>3, <3>4
    <3>6. "MONITOR_SWITCH" \in Keys /\ "MONITOR_PERIOD" \in Keys
      BY DEF Keys
    <3>7. config'["MONITOR_SWITCH"] = IF "MONITOR_SWITCH" = key THEN value ELSE config["MONITOR_SWITCH"]
      BY <3>5, <3>6
    <3>8. config'["MONITOR_PERIOD"] = IF "MONITOR_PERIOD" = key THEN value ELSE config["MONITOR_PERIOD"]
      BY <3>5, <3>6
    <3>9. config' = [k \in Keys |-> config'[k]]
      BY <3>5
    <3>10. config'["MONITOR_SWITCH"] \in BOOLEAN
      BY <2>1, <3>1, <3>7, Zenon DEF Typed
    <3>11. /\ config'["MONITOR_PERIOD"] \in -IntMax - 1 .. IntMax
           /\ config'["MONITOR_PERIOD"] >= 1 \/ SomeOverflow
      BY <2>1, <3>1, <3>2, <3>8, Zenon DEF Typed
    <3>12. SomeOverflow => SomeOverflow'
      BY <1>1 DEF SomeOverflow
    <3>. QED  BY <3>9, <3>10, <3>11, <3>12, Zenon DEF Typed
  <2>4. CASE ~Skipped(line) /\ ~(Known(line) /\ Valid(key, Trimmed(line)))
    BY <1>1, <2>4
  <2>. QED  BY <2>2, <2>3, <2>4
<1>10. ConfigsOK'
  BY <1>1, <1>9, SameConfigs DEF ConfigsOK
<1>. QED  BY <1>1, <1>3, <1>8, <1>10, SameConfigs

\* What a file that is not rejected and has a name adds is what it means.
LEMMA ClosedIsMeant ==
  ASSUME ParserInv, CloseFile
  PROVE  LET file == directory[entry].file
         IN  /\ entry \in 1..Len(directory) /\ directory[entry].read
             /\ IF Accepted(file)
                THEN configs' = Append(configs, Meaning(file)) /\ Typed(Meaning(file))
                ELSE configs' = configs
<1> USE DEF ParserInv
<1> DEFINE file == directory[entry].file
           added == [config EXCEPT
                       !["MONITOR_COMMAND"] = IF @ = Empty THEN DefaultCommand ELSE @]
<1>1. /\ position > 0
      /\ config = Rejected \/ position > Len(file)
      /\ configs' = IF config = Rejected \/ config["NAME"] = Empty
                    THEN configs ELSE Append(configs, added)
  BY DEF CloseFile
<1>2. /\ entry \in 1..Len(directory) /\ directory[entry].read /\ file \in File
      /\ Len(file) \in Nat /\ position \in 1 .. Len(file) + 1
  <2>1. /\ entry \in 1..Len(directory) /\ directory[entry].read /\ position \in Nat
        /\ position <= Len(file) + 1
    BY <1>1, DirectoryTyped DEF PlacesOK
  <2>2. file \in File
    BY <2>1, DirectoryTyped
  <2>. QED  BY <1>1, <2>1, <2>2, FileTyped
<1>3. config = IF Sound(file, position - 1)
               THEN [k \in Keys |-> Given(file, position - 1, k)]
               ELSE Rejected
  BY <1>1 DEF ReadSoFar
<1>4. config = Rejected => ~Sound(file, position - 1)
  BY <1>3, NotRejected
<1> HIDE DEF file
<1>5. CASE config = Rejected
  <2>1. ~Accepted(file)
    BY <1>2, <1>4, <1>5, UnsoundStays DEF Accepted
  <2>. QED  BY <1>1, <1>2, <1>5, <2>1 DEF file
<1>6. CASE config # Rejected
  <2>1. position - 1 = Len(file)
    BY <1>1, <1>2, <1>6
  <2>2. Sound(file, Len(file)) /\ config = [k \in Keys |-> Given(file, Len(file), k)]
    BY <1>3, <1>6, <2>1
  <2>3. "NAME" \in Keys /\ "MONITOR_COMMAND" \in Keys
    BY DEF Keys
  <2>4. Accepted(file) <=> config["NAME"] # Empty
    BY <2>2, <2>3 DEF Accepted
  <2>5. added = Meaning(file)
    BY <2>2, <2>3 DEF Meaning
  <2>6. Typed(config)
    BY <1>6 DEF ConfigsOK
  <2>7. Typed(added)
    <3>1. config = [k \in Keys |-> config[k]]
      BY <2>6 DEF Typed
    <3>2. /\ added = [k \in Keys |-> added[k]]
          /\ added["MONITOR_SWITCH"] = config["MONITOR_SWITCH"]
          /\ added["MONITOR_PERIOD"] = config["MONITOR_PERIOD"]
      BY <3>1 DEF Keys
    <3> HIDE DEF added
    <3>. QED  BY <2>6, <3>2, Zenon DEF Typed
  <2> HIDE DEF added
  <2>. QED  BY <1>1, <1>2, <1>6, <2>4, <2>5, <2>7 DEF file
<1>. QED  BY <1>5, <1>6

LEMMA CloseFileParser ==
  ASSUME ParserInv, CloseFile
  PROVE  ParserInv'
<1> USE DEF ParserInv
<1> DEFINE file == directory[entry].file
           l == Len(configs)
<1>1. entry' = entry + 1 /\ position' = 0 /\ UNCHANGED <<directory, config>>
  BY DEF CloseFile
<1>2. /\ entry \in 1..Len(directory) /\ directory[entry].read /\ Len(directory) \in Nat
      /\ entry \in Nat \ {0} /\ configs \in Seq(Meanings) /\ l \in Nat
  <2>1. configs \in Seq(Meanings)
    BY DEF ConfigsOK
  <2>. QED  BY <2>1, ClosedIsMeant, DirectoryTyped
<1>3. PlacesOK' /\ ReadSoFar'
  BY <1>1, <1>2 DEF PlacesOK, ReadSoFar
<1>4. AcceptedBefore(entry)' = AcceptedBefore(entry + 1)
  BY <1>1 DEF AcceptedBefore
<1>5. \A n : AcceptedBefore(n)' = AcceptedBefore(n)
  BY <1>1, BeforeStays
<1>6. CASE ~Accepted(file)
  <2>1. UNCHANGED configs
    BY <1>6, ClosedIsMeant
  <2>2. AcceptedBefore(entry)' = AcceptedBefore(entry)
    BY <1>2, <1>4, <1>6, NextBefore
  <2>3. ConfigsOK'
    BY <1>1, <2>1, BeforeStays DEF ConfigsOK
  <2>4. EachIsMeant' /\ ConfigsAreAsWritten'
    BY <1>1, <1>5, <2>1, <2>2 DEF EachIsMeant, ConfigsAreAsWritten
  <2>. QED  BY <1>3, <2>3, <2>4
<1>7. CASE Accepted(file)
  <2> DEFINE c == Meaning(file)
  <2>1. configs' = Append(configs, c) /\ Typed(c)
    BY <1>7, ClosedIsMeant
  <2>2. /\ AcceptedBefore(entry)' = AcceptedBefore(entry) \cup {entry}
        /\ Cardinality(AcceptedBefore(entry)') = Cardinality(AcceptedBefore(entry)) + 1
    BY <1>2, <1>4, <1>7, NextBefore
  <2>3. c \in Meanings
    BY <1>2 DEF Meanings
  <2>4. c = Meaning(directory[entry].file)
    OBVIOUS
  <2> HIDE DEF c, file
  <2>5. /\ configs' \in Seq(Meanings) /\ Len(configs') = l + 1 /\ configs'[l + 1] = c
        /\ \A n \in 1..l : configs'[n] = configs[n]
    BY <1>2, <2>1, <2>3
  <2>6. ConfigsOK'
    <3>1. configs' \in Seq(Meanings')
      BY <1>1, <2>5, BeforeStays
    <3>2. config' = Rejected \/ Typed(config)'
      BY <1>1, BeforeStays DEF ConfigsOK
    <3>3. ASSUME NEW n \in 1..Len(configs') PROVE Typed(configs[n])'
      <4>1. CASE n \in 1..l
        <5>1. configs'[n] = configs[n] /\ Typed(configs[n])
          BY <2>5, <4>1 DEF ConfigsOK
        <5>. QED  BY <1>1, <5>1 DEF Typed, SomeOverflow
      <4>2. CASE n = l + 1
        <5>1. configs'[n] = c
          BY <2>5, <4>2
        <5>. QED  BY <1>1, <2>1, <5>1 DEF Typed, SomeOverflow
      <4>. QED  BY <1>2, <2>5, <4>1, <4>2
    <3>. QED  BY <3>1, <3>2, <3>3 DEF ConfigsOK
  <2>7. EachIsMeant'
    <3> SUFFICES ASSUME NEW n \in 1..Len(configs')
                 PROVE  \E i \in AcceptedBefore(entry)' : configs'[n] = Meaning(directory[i].file)
      BY <1>1 DEF EachIsMeant
    <3>1. CASE n \in 1..l
      <4>1. PICK i \in AcceptedBefore(entry) : configs[n] = Meaning(directory[i].file)
        BY <3>1 DEF EachIsMeant
      <4>. QED  BY <2>2, <2>5, <3>1, <4>1
    <3>2. CASE n = l + 1
      BY <2>2, <2>4, <2>5, <3>2
    <3>. QED  BY <1>2, <2>5, <3>1, <3>2
  <2>8. ConfigsAreAsWritten'
    <3>1. l = Cardinality(AcceptedBefore(entry))
      BY DEF ConfigsAreAsWritten
    <3>2. Len(configs') = Cardinality(AcceptedBefore(entry)')
      BY <2>2, <2>5, <3>1
    <3>3. ASSUME NEW i \in AcceptedBefore(entry)'
          PROVE  configs'[Cardinality(AcceptedBefore(i + 1))] = Meaning(directory[i].file)
      <4>1. CASE i \in AcceptedBefore(entry)
        <5>1. Cardinality(AcceptedBefore(i + 1)) \in 1..l
          BY <1>2, <3>1, <4>1, PlaceIn
        <5>2. configs[Cardinality(AcceptedBefore(i + 1))] = Meaning(directory[i].file)
          BY <4>1 DEF ConfigsAreAsWritten
        <5>. QED  BY <2>5, <5>1, <5>2
      <4>2. CASE i = entry
        <5>1. Cardinality(AcceptedBefore(i + 1)) = l + 1
          BY <1>4, <2>2, <3>1, <4>2
        <5>. QED  BY <2>4, <2>5, <4>2, <5>1
      <4>. QED  BY <2>2, <4>1, <4>2
    <3>. QED  BY <1>1, <1>5, <3>2, <3>3 DEF ConfigsAreAsWritten
  <2>. QED  BY <1>3, <2>6, <2>7, <2>8
<1>. QED  BY <1>6, <1>7

LEMMA ParserInvariant == Spec => []ParserInv
<1>1. ParserInv /\ [Next]_vars => ParserInv'
  <2> SUFFICES ASSUME ParserInv, [Next]_vars PROVE ParserInv'
    OBVIOUS
  <2>1. CASE PassOver
    BY <2>1, PassOverParser
  <2>2. CASE OpenFile
    BY <2>2, OpenFileParser
  <2>3. CASE ReadLine
    BY <2>3, ReadLineParser
  <2>4. CASE CloseFile
    BY <2>4, CloseFileParser
  <2>5. CASE UNCHANGED vars
    <3>1. UNCHANGED <<directory, entry, position, config, configs>>
      BY <2>5 DEF vars
    <3>2. PlacesOK' /\ ReadSoFar' /\ ConfigsOK'
      BY <3>1, BeforeStays DEF ParserInv, PlacesOK, ReadSoFar, ConfigsOK
    <3>. QED  BY <3>1, <3>2, SameConfigs DEF ParserInv
  <2>. QED  BY <2>1, <2>2, <2>3, <2>4, <2>5 DEF Next
<1>. QED  BY InitParser, <1>1, PTL DEF Spec

\* However many entries proc_parse_config finds and whatever their lines are, its
\* loops stay in their bounds, and what it stores are values of the keys.
THEOREM TypeCorrect == Spec => []TypeOK
<1>1. ParserInv => TypeOK
  <2> SUFFICES ASSUME ParserInv PROVE TypeOK
    OBVIOUS
  <2>1. \A c : Typed(c) => /\ DOMAIN c = Keys
                           /\ c["MONITOR_SWITCH"] \in BOOLEAN
                           /\ c["MONITOR_PERIOD"] \in -IntMax - 1 .. IntMax
    BY Zenon DEF Typed
  <2>2. \A c \in {configs[i] : i \in 1..Len(configs)} \cup ({config} \ {Rejected}) : Typed(c)
    BY DEF ParserInv, ConfigsOK
  <2>. QED  BY <2>1, <2>2 DEF ParserInv, PlacesOK, TypeOK
<1>. QED  BY <1>1, ParserInvariant, PTL

\* What proc_parse_config and parse_config_file keep of any directory is what
\* its files say, each by itself: the accepted ones in their order, with the last
\* value of each key.
THEOREM FilesAreTakenAsWritten == Spec => []ConfigsAreAsWritten
<1>1. ParserInv => ConfigsAreAsWritten
  BY DEF ParserInv
<1>. QED  BY <1>1, ParserInvariant, PTL

\* parse_monitor_period hands the monitor thread a period of a second or more,
\* unless some file has a number that does not fit into an int.
THEOREM PeriodsAreSeconds == Spec => []PeriodsArePositive
<1>1. ParserInv => PeriodsArePositive
  BY Zenon DEF ParserInv, ConfigsOK, Typed, SomeOverflow, PeriodsArePositive
<1>. QED  BY <1>1, ParserInvariant, PTL
=============================================================================
