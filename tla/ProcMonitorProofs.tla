------------------------- MODULE ProcMonitorProofs -------------------------
(***************************************************************************)
(* Proofs about ProcMonitor for any number of configurations and attempts,  *)
(* any periods, and any bounds on commands and restarts.                    *)
(***************************************************************************)
EXTENDS ProcMonitor, WellFoundedInduction, TLAPS
----------------------------------------------------------------------------
\* The monitor thread looks at configurations that exist, and gives up only on
\* the one it looks at.
ThreadOK ==
  /\ mpc \in {"test", "sleep", "scan", "check", "recover", "nap", "alarm", "stamp", "done"}
  /\ mpc \in {"check", "recover", "nap", "alarm", "stamp"} => idx \in Configs

\* There is a command only until it has been answered.
CommandOK == cmd # NoCommand => main \in {"half", "answer"}

MonitorInv == ThreadOK /\ CommandOK

LEMMA MonitorKeepsInv ==
  ASSUME ThreadOK, Monitor
  PROVE  ThreadOK'
BY DEF ThreadOK, Monitor, LoopTest, Wake, ScanEnd, Skip, StartCheck, Check, Recover, Recheck, GiveUp, Stamp

LEMMA NoCommandIsNone ==
  ASSUME NEW c \in Configs, NEW status
  PROVE  [config |-> c, status |-> status] # NoCommand
<1>1. [config |-> c, status |-> status].config # NoCommand.config
  BY MonitorAssumption DEF Configs, NoCommand
<1>. QED  BY <1>1

\* A step that leaves the thread where it is and the command as it is.
LEMMA SameInv ==
  ASSUME MonitorInv, UNCHANGED <<mpc, idx, cmd>>,
         main' = main \/ main \notin {"half", "answer"} \/ main' = "answer"
  PROVE  MonitorInv'
BY DEF MonitorInv, ThreadOK, CommandOK

LEMMA MonitorInvariant == Spec => []MonitorInv
<1>1. Init => MonitorInv
  BY DEF Init, MonitorInv, ThreadOK, CommandOK
<1>2. MonitorInv /\ [Next]_vars => MonitorInv'
  <2> SUFFICES ASSUME MonitorInv, [Next]_vars PROVE MonitorInv'
    OBVIOUS
  <2>1. CASE Monitor
    <3>1. UNCHANGED <<cmd, main>>
      BY <2>1 DEF Monitor, LoopTest, Wake, ScanEnd, Skip, StartCheck, Check, Recover, Recheck,
                  GiveUp, Stamp, mainVars
    <3>. QED  BY <2>1, <3>1, MonitorKeepsInv DEF MonitorInv, CommandOK
  <2>2. ASSUME NEW c \in Configs, NEW status \in BOOLEAN, BeginCommand(c, status)
        PROVE  MonitorInv'
    BY <2>2 DEF BeginCommand, MonitorInv, ThreadOK, CommandOK, monitorVars
  <2>3. CASE SendResponse
    BY <2>3 DEF SendResponse, MonitorInv, ThreadOK, CommandOK, monitorVars
  <2>4. CASE LoopTop \/ Idle \/ Other \/ ResetTime \/ Cleanup
             \/ Signal \/ Drain \/ Tick \/ UNCHANGED vars
             \/ \E c \in Configs : Die(c)
    <3>1. /\ UNCHANGED <<mpc, idx, cmd>>
          /\ main' = main \/ main \notin {"half", "answer"} \/ main' = "answer"
      BY <2>4 DEF LoopTop, Idle, Other, ResetTime, Cleanup, Signal, Drain, Tick, Die, vars,
                  mainVars, monitorVars
    <3>. QED  BY <3>1, SameInv
  <2>5. CASE Restart
    BY <2>5 DEF Restart, MonitorInv, ThreadOK, CommandOK
  <2>. QED  BY <2>1, <2>2, <2>3, <2>4, <2>5 DEF Next, MainThread
<1>. QED  BY <1>1, <1>2, PTL DEF Spec
----------------------------------------------------------------------------
\* The writes and the answer of a command, between which the monitor thread may
\* take any number of steps, implement one atomic command: its first write.
LEMMA CommandRefines ==
  ASSUME CommandOK, NEW c \in Configs, NEW status \in BOOLEAN, BeginCommand(c, status)
  PROVE  Abstract!Start(c) \/ Abstract!Stop(c)
<1>1. RunningAfterCommand = running /\ RunningAfterCommand' = status
  BY NoCommandIsNone DEF BeginCommand, RunningAfterCommand, CommandOK
<1>. QED  BY <1>1 DEF BeginCommand, Abstract!Start, Abstract!Stop, lifeVars

LEMMA AnswerRefines ==
  ASSUME SendResponse
  PROVE  UNCHANGED Abstract!vars
<1>1. RunningAfterCommand' = RunningAfterCommand
  BY DEF SendResponse, RunningAfterCommand
<1>. QED  BY <1>1 DEF SendResponse, Abstract!vars, lifeVars

\* The threads of the worker, commands half done and deaths included, change
\* the switches and ebpf_running as atomic commands would.
THEOREM SwitchesImplemented == Spec => ImplementsSwitches
<1>1. Init => Abstract!Init
  BY DEF Init, Abstract!Init, RunningAfterCommand
<1>2. MonitorInv /\ [Next]_vars => [Abstract!Next]_Abstract!vars
  <2> SUFFICES ASSUME MonitorInv, [Next]_vars PROVE [Abstract!Next]_Abstract!vars
    OBVIOUS
  <2>1. CASE Monitor /\ ~GiveUp
    <3>1. UNCHANGED <<on, running, cmd, restarts>>
      BY <2>1 DEF Monitor, LoopTest, Wake, ScanEnd, Skip, StartCheck, Check, Recover, Recheck,
                  Stamp, mainVars, lifeVars
    <3>. QED  BY <3>1 DEF Abstract!vars, RunningAfterCommand
  <2>2. CASE GiveUp
    <3>1. idx \in Configs
      BY <2>2 DEF GiveUp, MonitorInv, ThreadOK
    <3>2. Abstract!GiveUp(idx)
      BY <2>2 DEF GiveUp, Abstract!GiveUp, RunningAfterCommand, mainVars, lifeVars
    <3>. QED  BY <3>1, <3>2 DEF Abstract!Next
  <2>3. ASSUME NEW c \in Configs, NEW status \in BOOLEAN, BeginCommand(c, status)
        PROVE  Abstract!Next
    BY <2>3, CommandRefines DEF Abstract!Next, MonitorInv
  <2>4. CASE SendResponse
    BY <2>4, AnswerRefines
  <2>5. CASE LoopTop \/ Idle \/ Other \/ ResetTime \/ Cleanup
             \/ Signal \/ Drain \/ Tick \/ UNCHANGED vars
             \/ \E c \in Configs : Die(c)
    <3>1. UNCHANGED <<on, running, cmd, restarts>>
      BY <2>5 DEF LoopTop, Idle, Other, ResetTime, Cleanup, Signal, Drain, Tick, Die, vars,
                  mainVars, lifeVars
    <3>. QED  BY <3>1 DEF Abstract!vars, RunningAfterCommand
  <2>6. CASE Restart
    <3>1. Abstract!Restart
      BY <2>6 DEF Restart, Abstract!Restart, RunningAfterCommand
    <3>. QED  BY <3>1 DEF Abstract!Next
  <2>. QED  BY <2>1, <2>2, <2>3, <2>4, <2>5, <2>6 DEF Next, MainThread
<1>. QED  BY MonitorInvariant, <1>1, <1>2, PTL DEF Spec, ImplementsSwitches, Abstract!Spec
----------------------------------------------------------------------------
(* The bounds of the ages.                                                  *)

LEMMA LeastNumber ==
  ASSUME NEW S, S \subseteq Nat, S # {}
  PROVE  \E n \in S : \A m \in S : n <= m
<1>1. PICK n \in S : \A m \in S : <<m, n>> \notin OpToRel(<, Nat)
  BY NatLessThanWellFounded, WFMin
<1>2. ASSUME NEW m \in S
      PROVE  n <= m
  <2>1. m \in Nat /\ n \in Nat
    OBVIOUS
  <2>2. ~(m < n)
    <3>1. <<m, n>> \in Nat \X Nat
      BY <2>1
    <3>2. m < n => <<m, n>> \in OpToRel(<, Nat)
      BY <3>1, Zenon DEF OpToRel
    <3>. QED  BY <1>1, <3>2
  <2>. QED  BY <2>1, <2>2
<1>. QED  BY <1>2

BoundedUpTo(n) == \E b \in Nat : \A c \in 1..n : Period[c] <= b

\* The periods of the configurations have an upper bound.
LEMMA PeriodsBounded == \E b \in Nat : \A c \in Configs : Period[c] <= b
<1>0. NumConfigs \in Nat \ {0} /\ \A c \in 1..NumConfigs : Period[c] \in Nat
  BY MonitorAssumption DEF Configs
<1> DEFINE Unbounded == {n \in 1..NumConfigs : ~BoundedUpTo(n)}
<1>1. CASE Unbounded = {}
  <2>1. NumConfigs \in 1..NumConfigs
    BY <1>0
  <2>2. BoundedUpTo(NumConfigs)
    <3> HIDE DEF BoundedUpTo
    <3>. QED  BY <1>1, <2>1
  <2>. QED  BY <2>2 DEF Configs, BoundedUpTo
<1>2. CASE Unbounded # {}
  <2>1. PICK n \in Unbounded : \A m \in Unbounded : n <= m
    <3>1. Unbounded \subseteq Nat
      BY <1>0
    <3> HIDE DEF Unbounded
    <3>. QED  BY <1>2, <3>1, LeastNumber
  <2>2. n \in 1..NumConfigs /\ ~BoundedUpTo(n) /\ Period[n] \in Nat
    BY <1>0, <2>1
  <2>3. CASE n = 1
    BY <2>2, <2>3 DEF BoundedUpTo
  <2>4. CASE n # 1
    <3>1. n - 1 \in 1..NumConfigs /\ n - 1 < n
      BY <1>0, <2>2, <2>4
    <3>2. BoundedUpTo(n - 1)
      BY <2>1, <3>1
    <3>3. PICK b \in Nat : \A c \in 1..n - 1 : Period[c] <= b
      BY <3>2 DEF BoundedUpTo
    <3> DEFINE most == IF b <= Period[n] THEN Period[n] ELSE b
    <3>4. most \in Nat /\ b <= most /\ Period[n] <= most
      BY <2>2
    <3> HIDE DEF most
    <3>5. ASSUME NEW c \in 1..n
          PROVE  Period[c] <= most
      <4>1. c = n \/ c \in 1..n - 1
        BY <2>2
      <4>2. Period[c] \in Nat
        BY <1>0, <2>2
      <4>. QED  BY <3>3, <3>4, <4>1, <4>2
    <3>. QED  BY <2>2, <3>4, <3>5 DEF BoundedUpTo
  <2>. QED  BY <2>3, <2>4
<1>. QED  BY <1>1, <1>2

LEMMA MaxPeriodIs ==
  /\ MaxPeriod \in Nat \ {0}
  /\ \A c \in Configs : Period[c] <= MaxPeriod
<1> DEFINE Bounds == {b \in Nat : \A c \in Configs : Period[c] <= b}
<1>1. PICK b \in Bounds : \A d \in Bounds : b <= d
  <2>1. Bounds # {} /\ Bounds \subseteq Nat
    BY PeriodsBounded
  <2>. QED  BY <2>1, LeastNumber
<1>2. \E c \in Configs : Period[c] = b
  <2> SUFFICES ASSUME \A c \in Configs : Period[c] # b PROVE FALSE
    OBVIOUS
  <2>1. \A c \in Configs : Period[c] \in Nat \ {0} /\ Period[c] <= b - 1
    BY <1>1, MonitorAssumption
  <2>2. 1 \in Configs
    BY MonitorAssumption DEF Configs
  <2>3. b - 1 \in Bounds
    BY <2>1, <2>2
  <2>. QED  BY <1>1, <2>3
<1>3. \E p \in {Period[c] : c \in Configs} : \A c \in Configs : Period[c] <= p
  BY <1>1, <1>2
<1>4. /\ MaxPeriod \in {Period[c] : c \in Configs}
      /\ \A c \in Configs : Period[c] <= MaxPeriod
  BY <1>3 DEF MaxPeriod
<1>. QED  BY <1>4, MonitorAssumption

\* Products of the numbers of configurations, restarts and seconds.
LEMMA Distributes ==
  ASSUME NEW a \in Nat, NEW b \in Nat
  PROVE  a * b \in Nat /\ (a + 1) * b = a * b + b
OBVIOUS

LEMMA Monotone ==
  ASSUME NEW a \in Nat, NEW b \in Nat, NEW c \in Nat, a <= b
  PROVE  a * c <= b * c
<1>1. PICK d \in Nat : b = a + d
  <2>1. b - a \in Nat /\ b = a + (b - a)
    OBVIOUS
  <2>. QED  BY <2>1
<1>2. b * c = a * c + d * c /\ d * c \in Nat /\ a * c \in Nat
  BY <1>1
<1>. QED  BY <1>2

\* Seconds that the restarts of n configurations sleep at most.
Naps(n) == n * (Attempts * RestartWait)

LEMMA NapsOf ==
  /\ Attempts * RestartWait \in Nat /\ MaxPass = Slack + Naps(NumConfigs)
  /\ Naps(0) = 0
  /\ \A n \in Nat : Naps(n) \in Nat /\ Naps(n + 1) = Naps(n) + Attempts * RestartWait
  /\ \A n \in 0..NumConfigs : Naps(n) <= Naps(NumConfigs)
<1>1. Attempts \in Nat /\ RestartWait \in Nat /\ NumConfigs \in Nat /\ Slack \in Nat
  BY MonitorAssumption
<1>2. Attempts * RestartWait \in Nat
  BY <1>1, Distributes
<1>3. (NumConfigs * Attempts) * RestartWait = NumConfigs * (Attempts * RestartWait)
  BY <1>1
<1>4. \A n \in 0..NumConfigs : Naps(n) <= Naps(NumConfigs)
  BY <1>1, <1>2, Monotone DEF Naps
<1>5. \A n \in Nat : Naps(n) \in Nat /\ Naps(n + 1) = Naps(n) + Attempts * RestartWait
  BY <1>2, Distributes DEF Naps
<1>6. Naps(0) = 0
  BY <1>2 DEF Naps
<1>. QED  BY <1>2, <1>3, <1>4, <1>5, <1>6 DEF MaxPass, Naps

\* Seconds the pass under way has slept, or may have.
Spent ==
  IF mpc \in {"scan", "check"} THEN Naps(idx - 1)
  ELSE IF mpc = "recover" THEN Naps(idx - 1) + retries * RestartWait
  ELSE IF mpc = "nap" THEN Naps(idx - 1) + retries * RestartWait + (RestartWait - nap)
  ELSE Naps(idx)

\* A pass takes no longer than its sleeps and Slack.
PassInv ==
  /\ InPass => passAge <= Slack + Spent
  /\ ~InPass => passAge = 0
  /\ nap > 0 => mpc = "nap"
  /\ mpc = "check" => retries = 0
  /\ mpc \in {"recover", "nap"} => retries < Attempts

\* TypeOK without the bound of passAge, which follows from PassInv.
Types ==
  /\ on \in [Configs -> BOOLEAN] /\ up \in [Configs -> BOOLEAN]
  /\ age \in [Configs -> 0..MaxAge] /\ toggleAge \in [Configs -> 0..MaxAge]
  /\ passAge \in Nat
  /\ idx \in 1..NumConfigs + 1 /\ retries \in 0..Attempts /\ nap \in 0..RestartWait
  /\ running \in BOOLEAN /\ exiting \in BOOLEAN
  /\ cmd \in [config : 0..NumConfigs, status : BOOLEAN]
  /\ commands \in 0..MaxCommands
  /\ main \in {"top", "body", "half", "answer", "join", "gone"}
  /\ clogged \in BOOLEAN
  /\ quiet \in [Configs -> BOOLEAN]

\* What the restarts of one configuration add to a pass.
LEMMA SpentAt ==
  ASSUME NEW i \in Configs, NEW r \in Nat, r < Attempts
  PROVE  /\ Naps(i - 1) \in Nat /\ Naps(i) \in Nat
         /\ Naps(i) <= Naps(NumConfigs)
         /\ r * RestartWait \in Nat
         /\ (r + 1) * RestartWait = r * RestartWait + RestartWait
         /\ Naps(i - 1) + (r + 1) * RestartWait <= Naps(i)
<1>1. /\ i - 1 \in Nat /\ (i - 1) + 1 = i /\ i \in 0..NumConfigs /\ i \in Nat
      /\ Attempts \in Nat /\ RestartWait \in Nat /\ r + 1 \in Nat /\ r + 1 <= Attempts
  BY MonitorAssumption DEF Configs
<1>2. Naps(i - 1) \in Nat /\ Naps(i) = Naps(i - 1) + Attempts * RestartWait /\ Naps(i) \in Nat
  BY <1>1, NapsOf
<1>3. Naps(i) <= Naps(NumConfigs)
  BY <1>1, NapsOf
<1>4. (r + 1) * RestartWait <= Attempts * RestartWait /\ (r + 1) * RestartWait \in Nat
  BY <1>1, Monotone, Distributes
<1>5. r * RestartWait \in Nat /\ (r + 1) * RestartWait = r * RestartWait + RestartWait
  BY <1>1, Distributes
<1>6. Attempts * RestartWait \in Nat
  BY NapsOf
<1> HIDE DEF Naps
<1>. QED  BY <1>2, <1>3, <1>4, <1>5, <1>6

LEMMA PassIsBounded ==
  ASSUME Types, ThreadOK, PassInv
  PROVE  /\ Spent \in Nat /\ passAge \in 0..MaxPass
<1>1. Slack \in Nat /\ MaxPass = Slack + Naps(NumConfigs) /\ Naps(NumConfigs) \in Nat
  BY MonitorAssumption, NapsOf
<1>2. CASE ~InPass
  <2>1. Naps(idx) \in Nat /\ mpc \in {"test", "sleep", "done"}
    BY <1>2, NapsOf, MonitorAssumption DEF InPass, Types
  <2>. QED  BY <1>1, <1>2, <2>1 DEF PassInv, Spent
<1>3. CASE InPass
  <2>1. Spent \in Nat /\ Spent <= Naps(NumConfigs)
    <3>1. CASE mpc \in {"scan", "check"}
      <4>1. idx - 1 \in 0..NumConfigs /\ idx - 1 \in Nat
        BY MonitorAssumption DEF Types
      <4>. QED  BY <3>1, <4>1, NapsOf, MonitorAssumption DEF Spent
    <3>3. CASE mpc \in {"recover", "nap"}
      <4>1. idx \in Configs /\ retries \in Nat /\ retries < Attempts /\ nap \in 0..RestartWait
            /\ RestartWait \in Nat
        BY <3>3, MonitorAssumption DEF ThreadOK, Types, PassInv
      <4>2. /\ Naps(idx - 1) \in Nat /\ Naps(idx) <= Naps(NumConfigs) /\ retries * RestartWait \in Nat
            /\ Naps(idx - 1) + (retries * RestartWait + RestartWait) <= Naps(idx)
            /\ Naps(idx) \in Nat
        BY <4>1, SpentAt
      <4> DEFINE slept == retries * RestartWait
                 before == Naps(idx - 1)
                 after == Naps(idx)
                 all == Naps(NumConfigs)
      <4>3. Spent = before + slept \/ Spent = before + slept + (RestartWait - nap)
        BY <3>3 DEF Spent
      <4>4. /\ before \in Nat /\ slept \in Nat /\ after \in Nat /\ all \in Nat
            /\ before + (slept + RestartWait) <= after /\ after <= all
        BY <1>1, <4>2
      <4> HIDE DEF slept, before, after
      <4>. QED  BY <4>1, <4>3, <4>4
    <3>4. CASE mpc \in {"alarm", "stamp"}
      <4>1. Spent = Naps(idx) /\ idx \in 0..NumConfigs /\ idx \in Nat
        BY <3>4, MonitorAssumption DEF Spent, ThreadOK, Configs
      <4>. QED  BY <4>1, NapsOf
    <3>. QED  BY <1>3, <3>1, <3>3, <3>4 DEF ThreadOK, InPass
  <2>2. passAge \in Nat /\ passAge <= Slack + Spent
    BY <1>3 DEF PassInv, Types
  <2>. QED  BY <1>1, <2>1, <2>2
<1>. QED  BY <1>2, <1>3

LEMMA OlderType ==
  /\ MaxAge \in Nat /\ MaxPass \in Nat /\ MaxPass < MaxAge
  /\ \A a \in 0..MaxAge : Older(a) \in 0..MaxAge
  /\ \A a \in 0..MaxAge, b \in 0..MaxAge : a <= b => Older(a) <= Older(b)
<1>1. MaxPass \in Nat
  BY NapsOf, MonitorAssumption DEF Naps
<1>2. MaxAge = MaxPass + MaxPeriod /\ MaxPeriod \in Nat \ {0}
  BY MaxPeriodIs DEF MaxAge
<1> HIDE DEF MaxAge, MaxPass, MaxPeriod
<1>. QED  BY <1>1, <1>2 DEF Older

LEMMA TypesStep ==
  ASSUME Types, ThreadOK, PassInv, passAge <= MaxPass, [Next]_vars
  PROVE  Types'
<1> USE DEF Types
<1>1. CASE LoopTest \/ Wake \/ ScanEnd \/ Skip \/ StartCheck \/ Check
  <2>1. idx' \in {1, idx} \/ (idx \in Configs /\ idx' = idx + 1)
    BY <1>1 DEF LoopTest, Wake, ScanEnd, Skip, StartCheck, Check
  <2>2. idx' \in 1..NumConfigs + 1
    BY <2>1, MonitorAssumption DEF Configs
  <2>3. retries' \in {retries, 0} /\ 0 \in 0..Attempts /\ passAge' \in {passAge, 0}
    BY <1>1, MonitorAssumption DEF LoopTest, Wake, ScanEnd, Skip, StartCheck, Check
  <2>. QED  BY <1>1, <2>2, <2>3 DEF LoopTest, Wake, ScanEnd, Skip, StartCheck, Check, mainVars,
                                    lifeVars, historyVars
<1>2. CASE Recover \/ Recheck
  BY <1>2, MonitorAssumption DEF Recover, Recheck, PassInv, mainVars, lifeVars, historyVars
<1>3. CASE GiveUp
  BY <1>3 DEF GiveUp, mainVars, lifeVars, historyVars
<1>4. CASE Stamp
  <2>1. idx \in Configs /\ idx + 1 \in 1..NumConfigs + 1
    BY <1>4, MonitorAssumption DEF Stamp, ThreadOK, Configs
  <2>2. passAge \in 0..MaxAge
    BY OlderType
  <2>. QED  BY <1>4, <2>1, <2>2 DEF Stamp, mainVars, lifeVars, historyVars
<1>5. ASSUME NEW c \in Configs, NEW status \in BOOLEAN, BeginCommand(c, status)
      PROVE  Types'
  BY <1>5, MonitorAssumption DEF BeginCommand, Configs, monitorVars, lifeVars
<1>6. CASE ResetTime \/ SendResponse
  <2>1. /\ 0 \in 0..MaxAge /\ cmd.status \in BOOLEAN /\ RunningAfterCommand \in BOOLEAN
        /\ NoCommand \in [config : 0..NumConfigs, status : BOOLEAN]
    BY OlderType, MonitorAssumption DEF NoCommand, RunningAfterCommand
  <2>2. CASE ResetTime
    BY <2>1, <2>2 DEF ResetTime, monitorVars, lifeVars
  <2>3. CASE SendResponse
    BY <2>1, <2>3 DEF SendResponse, monitorVars, lifeVars, historyVars
  <2>. QED  BY <1>6, <2>2, <2>3
<1>7. CASE Tick
  <2>1. /\ age' \in [Configs -> 0..MaxAge] /\ toggleAge' \in [Configs -> 0..MaxAge]
        /\ passAge' \in Nat /\ nap' \in 0..RestartWait
    BY <1>7, OlderType, MonitorAssumption DEF Tick
  <2>. QED  BY <1>7, <2>1 DEF Tick, mainVars, lifeVars
<1>8. CASE Restart
  <2>1. /\ MaxAge \in 0..MaxAge /\ NoCommand \in [config : 0..NumConfigs, status : BOOLEAN]
        /\ 0 \in 0..Attempts /\ 0 \in 0..RestartWait /\ 1 \in 1..NumConfigs + 1
    BY OlderType, MonitorAssumption DEF NoCommand
  <2>. QED  BY <1>8, <2>1 DEF Restart
<1>9. CASE LoopTop \/ Idle \/ Other \/ Cleanup \/ Signal \/ Drain \/ UNCHANGED vars
           \/ \E c \in Configs : Die(c)
  BY <1>9 DEF LoopTop, Idle, Other, Cleanup, Signal, Drain, Die, vars, monitorVars, mainVars,
              lifeVars, historyVars
<1>. QED  BY <1>1, <1>2, <1>3, <1>4, <1>5, <1>6, <1>7, <1>8, <1>9 DEF Next, Monitor, MainThread

LEMMA MoreSlept ==
  ASSUME NEW a \in Nat, NEW b \in Nat, NEW c \in Nat, NEW d \in Nat, a <= c + b, b <= d
  PROVE  a <= c + d
OBVIOUS

LEMMA PassStep ==
  ASSUME Types, ThreadOK, PassInv, [Next]_vars
  PROVE  PassInv'
<1>0. Spent \in Nat /\ Slack \in Nat \ {0} /\ Attempts \in Nat \ {0} /\ RestartWait \in Nat \ {0}
      /\ passAge \in Nat
  BY PassIsBounded, MonitorAssumption DEF Types
<1>1. CASE LoopTest \/ Wake \/ ScanEnd
  <2>1. passAge' = 0 /\ nap' = nap /\ nap = 0 /\ mpc' \in {"test", "sleep", "done", "scan"}
    BY <1>1 DEF LoopTest, Wake, ScanEnd, PassInv, Types, InPass
  <2>2. mpc' = "scan" => Spent' = 0
    <3>1. mpc' = "scan" => idx' = 1
      BY <1>1 DEF LoopTest, Wake, ScanEnd
    <3>. QED  BY <3>1, NapsOf DEF Spent
  <2>. QED  BY <1>0, <2>1, <2>2 DEF PassInv, InPass
<1>2. CASE Skip
  <2>1. /\ mpc = "scan" /\ mpc' = "scan" /\ idx' = idx + 1 /\ idx \in Configs
        /\ UNCHANGED <<passAge, nap>>
    BY <1>2 DEF Skip
  <2>2. Spent = Naps(idx - 1) /\ Spent' = Naps(idx)
    BY <2>1, MonitorAssumption DEF Spent, Configs
  <2>3. Naps(idx - 1) \in Nat /\ Naps(idx) \in Nat /\ Naps(idx - 1) <= Naps(idx)
    <3>1. idx - 1 \in Nat /\ (idx - 1) + 1 = idx
      BY <2>1, MonitorAssumption DEF Configs
    <3>. QED  BY <3>1, NapsOf
  <2>. QED  BY <1>0, <2>1, <2>2, <2>3 DEF PassInv, InPass
<1>3. CASE StartCheck
  BY <1>3 DEF StartCheck, PassInv, InPass, Spent
<1>4. CASE Check
  <2>1. /\ mpc = "check" /\ mpc' \in {"stamp", "recover"} /\ retries = 0 /\ idx \in Configs
        /\ UNCHANGED <<passAge, idx, retries, nap>>
    BY <1>4 DEF Check, PassInv, ThreadOK
  <2>2. Spent = Naps(idx - 1)
    BY <2>1 DEF Spent
  <2>3. Spent' = Naps(idx - 1) + 0 * RestartWait \/ Spent' = Naps(idx)
    BY <2>1 DEF Spent
  <2>4. Naps(idx - 1) \in Nat /\ Naps(idx) \in Nat /\ Naps(idx - 1) <= Naps(idx)
        /\ 0 * RestartWait = 0
    <3>1. idx - 1 \in Nat /\ (idx - 1) + 1 = idx
      BY <2>1, MonitorAssumption DEF Configs
    <3>. QED  BY <1>0, <3>1, NapsOf
  <2>5. Spent <= Spent' /\ Spent' \in Nat
    BY <2>2, <2>3, <2>4
  <2>6. passAge' <= Slack + Spent'
    <3>1. passAge <= Slack + Spent /\ passAge' = passAge
      BY <2>1 DEF PassInv, InPass
    <3>. QED  BY <1>0, <2>5, <3>1, MoreSlept
  <2>. QED  BY <1>0, <2>1, <2>6 DEF PassInv, InPass
<1>5. CASE Recover
  <2>1. /\ mpc = "recover" /\ mpc' = "nap" /\ nap' = RestartWait /\ retries < Attempts
        /\ idx \in Configs /\ retries \in Nat /\ UNCHANGED <<passAge, idx, retries>>
    BY <1>0, <1>5 DEF Recover, PassInv, ThreadOK, Types
  <2>2. /\ Spent = Naps(idx - 1) + retries * RestartWait
        /\ Spent' = Naps(idx - 1) + retries * RestartWait + (RestartWait - RestartWait)
    BY <2>1 DEF Spent
  <2>3. Spent' = Spent
    BY <1>0, <2>2
  <2>. QED  BY <1>0, <2>1, <2>3 DEF PassInv, InPass
<1>6. CASE Recheck
  <2>1. /\ mpc = "nap" /\ nap = 0 /\ retries < Attempts /\ idx \in Configs /\ retries \in Nat
        /\ UNCHANGED <<passAge, idx, nap>>
        /\ \/ mpc' \in {"stamp", "alarm"}
           \/ mpc' = "recover" /\ retries' = retries + 1 /\ retries' < Attempts
    BY <1>0, <1>6 DEF Recheck, PassInv, ThreadOK, Types
  <2> DEFINE slept == retries * RestartWait
             more == (retries + 1) * RestartWait
             before == Naps(idx - 1)
             after == Naps(idx)
  <2>2. /\ before \in Nat /\ after \in Nat /\ slept \in Nat /\ more = slept + RestartWait
        /\ before + more <= after
    BY <1>0, <2>1, SpentAt
  <2>3. Spent = before + slept + (RestartWait - 0)
    BY <2>1 DEF Spent
  <2>4. Spent' = after \/ Spent' = before + more
    BY <2>1 DEF Spent
  <2> HIDE DEF slept, more, before, after
  <2>5. Spent <= Spent' /\ Spent' \in Nat
    BY <1>0, <2>2, <2>3, <2>4
  <2>6. passAge' <= Slack + Spent'
    <3>1. passAge <= Slack + Spent /\ passAge' = passAge
      BY <2>1 DEF PassInv, InPass
    <3>. QED  BY <1>0, <2>5, <3>1, MoreSlept
  <2>. QED  BY <1>0, <2>1, <2>6 DEF PassInv, InPass
<1>7. CASE GiveUp
  BY <1>7 DEF GiveUp, PassInv, InPass, Spent
<1>8. CASE Stamp
  <2>1. /\ mpc = "stamp" /\ mpc' = "scan" /\ idx' = idx + 1 /\ idx \in Configs
        /\ UNCHANGED <<passAge, nap>>
    BY <1>8 DEF Stamp, ThreadOK
  <2>2. Spent' = Spent
    BY <2>1, MonitorAssumption DEF Spent, Configs
  <2>. QED  BY <2>1, <2>2 DEF PassInv, InPass
<1>9. CASE Tick
  <2>1. UNCHANGED <<mpc, idx, retries>>
    BY <1>9 DEF Tick
  <2>2. CASE ~InPass
    BY <1>9, <2>1, <2>2 DEF Tick, PassInv, InPass, Types
  <2>3. CASE InPass /\ nap > 0
    <3>1. mpc = "nap" /\ nap' = nap - 1 /\ passAge' = passAge + 1
      BY <1>9, <2>3 DEF Tick, PassInv
    <3> DEFINE base == Naps(idx - 1) + retries * RestartWait
    <3>2. Spent = base + (RestartWait - nap) /\ Spent' = base + (RestartWait - (nap - 1))
      BY <2>1, <3>1 DEF Spent
    <3>3. base \in Nat /\ nap \in Nat
      <4>1. idx \in Configs /\ retries \in Nat /\ retries < Attempts
        BY <1>0, <3>1 DEF PassInv, ThreadOK, Types
      <4>. QED  BY <1>0, <4>1, SpentAt DEF Types
    <3> HIDE DEF base
    <3>4. Spent' = Spent + 1
      BY <1>0, <3>2, <3>3
    <3>. QED  BY <1>0, <2>1, <2>3, <3>1, <3>3, <3>4 DEF PassInv, InPass
  <2>4. CASE InPass /\ ~(nap > 0)
    <3>1. passAge < Slack /\ passAge' = passAge + 1 /\ nap' = 0 /\ nap = 0
      BY <1>0, <1>9, <2>4 DEF Tick, Types
    <3>2. Spent' = Spent
      BY <2>1, <3>1 DEF Spent
    <3>. QED  BY <1>0, <2>1, <2>4, <3>1, <3>2 DEF PassInv, InPass
  <2>. QED  BY <2>2, <2>3, <2>4
<1>10. CASE Restart
  BY <1>10 DEF Restart, PassInv, InPass
<1>11. CASE \/ \E c \in Configs, status \in BOOLEAN : BeginCommand(c, status)
            \/ MainThread
            \/ Signal
            \/ Drain
            \/ \E c \in Configs : Die(c)
            \/ UNCHANGED vars
  <2>1. UNCHANGED <<mpc, idx, retries, nap, passAge>>
    BY <1>11 DEF BeginCommand, MainThread, LoopTop, Idle, Other, ResetTime, SendResponse, Cleanup,
                 Signal, Drain, Die, vars, monitorVars
  <2>. QED  BY <2>1 DEF PassInv, InPass, Spent
<1>. QED  BY <1>1, <1>2, <1>3, <1>4, <1>5, <1>6, <1>7, <1>8, <1>9, <1>10, <1>11 DEF Next, Monitor

PassTypes == Types /\ PassInv

LEMMA PassInvariant == Spec => []PassTypes
<1>1. Init => PassTypes
  <2> SUFFICES ASSUME Init PROVE PassTypes
    OBVIOUS
  <2>1. /\ MaxAge \in 0..MaxAge /\ NoCommand \in [config : 0..NumConfigs, status : BOOLEAN]
        /\ 0 \in 0..Attempts /\ 0 \in 0..RestartWait /\ 1 \in 1..NumConfigs + 1 /\ 0 \in 0..MaxCommands
    BY OlderType, MonitorAssumption DEF NoCommand
  <2>2. Types
    BY <2>1 DEF Init, Types
  <2>. QED  BY <2>2 DEF Init, PassTypes, PassInv, InPass
<1>2. MonitorInv /\ PassTypes /\ [Next]_vars => PassTypes'
  <2> SUFFICES ASSUME MonitorInv, PassTypes, [Next]_vars PROVE PassTypes'
    OBVIOUS
  <2>1. passAge <= MaxPass
    BY PassIsBounded, OlderType DEF MonitorInv, PassTypes
  <2>. QED  BY <2>1, TypesStep, PassStep DEF MonitorInv, PassTypes
<1>. QED  BY MonitorInvariant, <1>1, <1>2, PTL DEF Spec

\* The variables keep their types: in particular no pass lasts longer than
\* Slack and the sleeps of all restarts, however processes die meanwhile.
THEOREM TypeCorrect == Spec => []TypeOK
<1>1. MonitorInv /\ PassTypes => TypeOK
  BY PassIsBounded DEF MonitorInv, ThreadOK, PassTypes, Types, TypeOK
<1>. QED  BY MonitorInvariant, PassInvariant, <1>1, PTL
----------------------------------------------------------------------------
(* Why a start or stop between two passes resets the period.                *)

\* After such a command the last check is no older than it, and the pass under
\* way began after it.
Reset(c) == age[c] <= toggleAge[c] /\ (InPass => passAge <= toggleAge[c])

ResetInv == \A c \in Configs : quiet[c] /\ ~HalfDone(c) => Reset(c)

LEMMA ResetTick ==
  ASSUME TypeOK, TypeOK', ResetInv, Tick
  PROVE  ResetInv'
<1> SUFFICES ASSUME NEW c \in Configs, quiet'[c], ~HalfDone(c)'
             PROVE  Reset(c)'
  BY DEF ResetInv
<1>1. /\ UNCHANGED <<quiet, cmd, main, mpc>>
      /\ age'[c] = Older(age[c]) /\ toggleAge'[c] = Older(toggleAge[c])
      /\ passAge' = IF InPass THEN passAge + 1 ELSE 0
  BY DEF Tick, mainVars, TypeOK
<1>2. Reset(c)
  BY <1>1 DEF ResetInv, HalfDone
<1>3. age[c] \in 0..MaxAge /\ toggleAge[c] \in 0..MaxAge
  BY DEF TypeOK
<1>4. age'[c] <= toggleAge'[c]
  BY <1>1, <1>2, <1>3, OlderType DEF Reset
<1>5. InPass' => passAge' <= toggleAge'[c]
  <2> SUFFICES ASSUME InPass PROVE passAge + 1 <= Older(toggleAge[c])
    BY <1>1 DEF InPass
  <2>1. passAge + 1 <= MaxPass /\ passAge \in Nat
    BY <1>1, OlderType DEF TypeOK
  <2>2. passAge <= toggleAge[c]
    BY <1>2 DEF Reset
  <2>. QED  BY <1>3, <2>1, <2>2, OlderType DEF Older
<1>. QED  BY <1>4, <1>5 DEF Reset

LEMMA ResetStep ==
  ASSUME TypeOK, TypeOK', ThreadOK, CommandOK, ResetInv, [Next]_vars
  PROVE  ResetInv'
<1>1. CASE Wake \/ ScanEnd
  <2>1. passAge' = 0 /\ UNCHANGED <<age, toggleAge, quiet, cmd, main>>
    BY <1>1 DEF Wake, ScanEnd, mainVars, historyVars
  <2>. QED  BY <2>1, OlderType DEF ResetInv, Reset, TypeOK, HalfDone
<1>2. CASE Skip \/ StartCheck \/ Check \/ Recover \/ Recheck \/ GiveUp
  <2>1. UNCHANGED <<passAge, age, toggleAge, quiet, cmd, main>> /\ InPass
    BY <1>2 DEF Skip, StartCheck, Check, Recover, Recheck, GiveUp, mainVars, historyVars, InPass
  <2>. QED  BY <2>1 DEF ResetInv, Reset, HalfDone
<1>3. CASE Stamp
  <2>1. /\ age' = [age EXCEPT ![idx] = passAge] /\ UNCHANGED <<passAge, toggleAge, quiet, cmd, main>>
        /\ InPass
    BY <1>3 DEF Stamp, mainVars, historyVars, InPass
  <2>. QED  BY <2>1 DEF ResetInv, Reset, TypeOK, HalfDone
<1>4. ASSUME NEW c \in Configs, NEW status \in BOOLEAN, BeginCommand(c, status)
      PROVE  ResetInv'
  <2>1. /\ cmd' = [config |-> c, status |-> status] /\ quiet' = [quiet EXCEPT ![c] = ~InPass]
        /\ main = "body" /\ main' = "half" /\ UNCHANGED <<age, toggleAge, passAge, mpc>>
    BY <1>4 DEF BeginCommand, monitorVars
  <2>. QED  BY <2>1 DEF ResetInv, Reset, InPass, TypeOK, HalfDone
<1>5. CASE ResetTime
  <2> SUFFICES ASSUME NEW c \in Configs, quiet'[c]
               PROVE  Reset(c)'
    BY DEF ResetInv
  <2>1. /\ age' = [age EXCEPT ![cmd.config] = 0] /\ toggleAge' = [toggleAge EXCEPT ![cmd.config] = 0]
        /\ quiet' = [quiet EXCEPT ![cmd.config] = @ /\ ~InPass]
        /\ UNCHANGED <<passAge, mpc>>
    BY <1>5 DEF ResetTime, monitorVars
  <2>2. CASE c = cmd.config
    <3>1. age'[c] = 0 /\ toggleAge'[c] = 0
      BY <2>1, <2>2 DEF TypeOK
    <3>2. ~InPass
      <4>1. quiet \in [Configs -> BOOLEAN]
        BY DEF TypeOK
      <4>2. quiet'[c] = (quiet[c] /\ ~InPass)
        BY <2>1, <2>2, <4>1, Zenon
      <4>. QED  BY <4>2, Zenon
    <3>. QED  BY <2>1, <3>1, <3>2 DEF Reset, InPass
  <2>3. CASE c # cmd.config
    <3>1. quiet[c]
      BY <2>1, <2>3 DEF TypeOK
    <3>. QED  BY <2>1, <2>3, <3>1 DEF ResetInv, Reset, InPass, TypeOK, HalfDone
  <2>. QED  BY <2>2, <2>3
<1>6. CASE Tick
  BY <1>6, ResetTick
<1>7. CASE Restart
  BY <1>7, OlderType DEF Restart, ResetInv, Reset, InPass
<1>8. CASE LoopTest \/ LoopTop \/ Idle \/ Other \/ SendResponse \/ Cleanup
           \/ Signal \/ Drain \/ UNCHANGED vars \/ \E c \in Configs : Die(c)
  <2>1. UNCHANGED <<passAge, age, toggleAge, quiet>> /\ InPass' = InPass
    BY <1>8 DEF LoopTest, LoopTop, Idle, Other, SendResponse, Cleanup, Signal, Drain, Die, vars,
                monitorVars, mainVars, historyVars, InPass
  <2>2. \A c \in Configs : HalfDone(c) => HalfDone(c)'
    BY <1>8 DEF LoopTest, LoopTop, Idle, Other, SendResponse, Cleanup, Signal, Drain, Die, vars,
                monitorVars, mainVars, HalfDone
  <2>. QED  BY <2>1, <2>2 DEF ResetInv, Reset
<1>. QED  BY <1>1, <1>2, <1>3, <1>4, <1>5, <1>6, <1>7, <1>8 DEF Next, Monitor, MainThread

LEMMA ResetInvariant == Spec => []ResetInv
<1>1. Init => ResetInv
  BY OlderType DEF Init, ResetInv, Reset, InPass
<1>2. TypeOK /\ TypeOK' /\ MonitorInv /\ ResetInv /\ [Next]_vars => ResetInv'
  BY ResetStep DEF MonitorInv
<1>. QED  BY TypeCorrect, MonitorInvariant, <1>1, <1>2, PTL DEF Spec

\* After a start or stop between two passes, whatever commands raced with
\* passes before, no check is due until a full period is over.
THEOREM ToggleResets == Spec => QuietToggleResetsPeriod
<1>1. TypeOK /\ ResetInv /\ [Next]_vars =>
        [StartCheck /\ quiet[idx] /\ ~HalfDone(idx)
           => toggleAge[idx] >= passAge + Period[idx]]_vars
  <2> SUFFICES ASSUME TypeOK, ResetInv, StartCheck, quiet[idx], ~HalfDone(idx)
               PROVE  toggleAge[idx] >= passAge + Period[idx]
    OBVIOUS
  <2>1. idx \in Configs /\ age[idx] >= passAge + Period[idx]
    BY DEF StartCheck, Due
  <2>2. age[idx] <= toggleAge[idx]
    BY <2>1 DEF ResetInv, Reset
  <2>3. age[idx] \in Nat /\ toggleAge[idx] \in Nat /\ passAge \in Nat /\ Period[idx] \in Nat
    BY <2>1, OlderType, MonitorAssumption DEF TypeOK
  <2>. QED  BY <2>1, <2>2, <2>3
<1>. QED  BY TypeCorrect, ResetInvariant, <1>1, PTL DEF Spec, QuietToggleResetsPeriod
============================================================================
