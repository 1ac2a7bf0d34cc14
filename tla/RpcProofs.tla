----------------------------- MODULE RpcProofs -----------------------------
(***************************************************************************)
(* Proofs about Rpc for every number of requests, queue length, and bound  *)
(* on misses and crashes.                                                  *)
(***************************************************************************)
EXTENDS Rpc, TLAPS
----------------------------------------------------------------------------
LEMMA InitType == Init => TypeOK
<1> SUFFICES ASSUME Init PROVE TypeOK
  OBVIOUS
<1>1. ClientTypes
  BY DEF Init, ClientTypes, Result, NoResult, Listing, Codes
<1>2. ServerTypes
  BY DEF Init, ServerTypes
<1>3. QueueTypes
  BY RpcAssumption DEF Init, QueueTypes
<1>4. WorkerTypes
  BY DEF Init, WorkerTypes, Listing
<1>5. HistoryTypes
  BY RpcAssumption DEF Init, HistoryTypes
<1>. QED  BY <1>1, <1>2, <1>3, <1>4, <1>5 DEF TypeOK

\* The request that holds the mutex names one of the workers.
LEMMA TargetIn ==
  ASSUME ClientTypes, ServerTypes, step # "free"
  PROVE  holder \in Requests /\ Target \in Workers
BY DEF ClientTypes, ServerTypes, Target

LEMMA AnswersType ==
  ASSUME TypeOK, step # "free"
  PROVE  Answers \in Seq(Answer)
BY TargetIn DEF TypeOK, ServerTypes, QueueTypes, Answers

\* What Finish does to the variables it changes.
LEMMA FinishType ==
  ASSUME TypeOK, NEW res \in Result, Finish(res)
  PROVE  /\ ClientTypes'
         /\ ServerTypes'
<1>1. client' \in [Requests -> {"new", "waiting", "done"}] /\ result' \in [Requests -> Result]
  BY DEF Finish, TypeOK, ClientTypes
<1>2. ClientTypes'
  BY <1>1 DEF Finish, TypeOK, ClientTypes
<1>. QED  BY <1>2 DEF Finish, ServerTypes

LEMMA ResultTypes ==
  ASSUME TypeOK
  PROVE  /\ NoResult \in Result
         /\ \A a \in Answer : [from |-> a.from, code |-> a.code, body |-> NoListing] \in Result
         /\ [from |-> got.from, code |-> got.code, body |-> out] \in Result
BY DEF TypeOK, ServerTypes, WorkerTypes, NoResult, Result, Listing, Answer, NoAnswer, Codes

\* Parts of the state that a step leaves alone keep their types.
LEMMA Unchanged ==
  ASSUME TypeOK
  PROVE  /\ UNCHANGED clientVars => ClientTypes'
         /\ UNCHANGED serverVars => ServerTypes'
         /\ UNCHANGED queueVars => QueueTypes'
         /\ UNCHANGED <<workerVars, out>> => WorkerTypes'
         /\ UNCHANGED historyVars => HistoryTypes'
BY DEF TypeOK, ClientTypes, ServerTypes, QueueTypes, WorkerTypes, HistoryTypes,
       clientVars, serverVars, queueVars, workerVars, historyVars

LEMMA PutType ==
  ASSUME TypeOK, Put
  PROVE  TypeOK'
<1>1. Target \in Workers /\ holder \in Requests
  BY TargetIn DEF Put, TypeOK
<1>2. QueueTypes'
  <2>1. /\ cmdq' \in [Workers -> Seq(Requests)]
        /\ \A w \in Workers : Len(cmdq'[w]) <= Cap
    <3>1. cmdq[Target] \in Seq(Requests) /\ Len(cmdq[Target]) \in Nat /\ Cap \in Nat
      BY <1>1, RpcAssumption DEF TypeOK, QueueTypes
    <3>2. /\ Append(cmdq[Target], holder) \in Seq(Requests)
          /\ Len(Append(cmdq[Target], holder)) = Len(cmdq[Target]) + 1
      BY <1>1, <3>1
    <3>3. CASE cmdq' = [cmdq EXCEPT ![Target] = Append(cmdq[Target], holder)] /\ Len(cmdq[Target]) < Cap
      BY <1>1, <3>1, <3>2, <3>3 DEF TypeOK, QueueTypes
    <3>4. CASE UNCHANGED cmdq
      BY <3>4 DEF TypeOK, QueueTypes
    <3>. QED  BY <3>3, <3>4 DEF Put
  <2>. QED  BY <2>1 DEF Put, TypeOK, QueueTypes
<1>3. ServerTypes'
  BY DEF Put, TypeOK, ServerTypes
<1>. QED  BY <1>2, <1>3, Unchanged DEF Put, TypeOK

LEMMA ReceiveType ==
  ASSUME TypeOK, Receive
  PROVE  TypeOK'
<1>1. /\ Target \in Workers /\ holder \in Requests
      /\ Answers \in Seq(Answer) /\ Answers # <<>> /\ step = "recv"
  BY TargetIn, AnswersType DEF Receive, TypeOK
<1>2. Head(Answers) \in Answer
  BY <1>1
<1>3. QueueTypes'
  <2>1. CASE respFd = "linked"
    <3>1. respq[Target] \in Seq(Answer) /\ respq[Target] # <<>>
      BY <1>1, <2>1 DEF Answers, TypeOK, QueueTypes
    <3>2. /\ Tail(respq[Target]) \in Seq(Answer)
          /\ Len(Tail(respq[Target])) = Len(respq[Target]) - 1
          /\ Len(respq[Target]) \in Nat /\ Cap \in Nat
      BY <3>1, RpcAssumption
    <3>3. respq' = [respq EXCEPT ![Target] = Tail(respq[Target])]
      BY <2>1 DEF Receive
    <3>4. /\ respq' \in [Workers -> Seq(Answer)]
          /\ \A w \in Workers : Len(respq'[w]) <= Cap
      <4>1. Len(Tail(respq[Target])) <= Cap
        BY <1>1, <3>2 DEF TypeOK, QueueTypes
      <4> HIDE DEF Target
      <4>. QED  BY <1>1, <3>2, <3>3, <4>1 DEF TypeOK, QueueTypes
    <3>. QED  BY <3>4 DEF Receive, TypeOK, QueueTypes
  <2>2. CASE respFd # "linked"
    BY <2>2 DEF Receive, TypeOK, QueueTypes
  <2>. QED  BY <2>1, <2>2
<1>4. ClientTypes' /\ ServerTypes'
  <2> DEFINE res == [from |-> Head(Answers).from, code |-> Head(Answers).code, body |-> NoListing]
  <2>1. CASE want[holder].list
    <3>1. ServerTypes'
      BY <1>1, <1>2, <2>1 DEF Receive, TypeOK, ServerTypes
    <3>. QED  BY <2>1, <3>1, Unchanged DEF Receive
  <2>2. CASE ~want[holder].list
    <3>1. res \in Result
      BY <1>2, ResultTypes
    <3>2. Finish(res)
      BY <2>2 DEF Receive
    <3> HIDE DEF res
    <3>. QED  BY <3>1, <3>2, FinishType
  <2>. QED  BY <2>1, <2>2
<1>. QED  BY <1>3, <1>4, Unchanged DEF Receive, TypeOK

LEMMA ServerType ==
  ASSUME TypeOK, Server
  PROVE  TypeOK'
<1>1. ASSUME NEW r \in Requests, Acquire(r)
      PROVE  TypeOK'
  <2>1. ServerTypes'
    BY <1>1, RpcAssumption DEF Acquire, TypeOK, ServerTypes
  <2>. QED  BY <1>1, <2>1, Unchanged DEF Acquire, TypeOK
<1>2. CASE OpenResponses
  <2>1. ServerTypes'
    BY <1>2 DEF OpenResponses, TypeOK, ServerTypes
  <2>2. QueueTypes'
    BY <1>2 DEF OpenResponses, TypeOK, QueueTypes
  <2>. QED  BY <1>2, <2>1, <2>2, Unchanged DEF OpenResponses, TypeOK
<1>3. CASE OpenCommands
  <2>1. ClientTypes' /\ ServerTypes'
    <3>1. CASE Finish(NoResult)
      BY <3>1, ResultTypes, FinishType
    <3>2. CASE step' = "put" /\ sendFd' = "linked" /\ UNCHANGED <<clientVars, holder, respFd, old, got>>
      <4>1. ServerTypes'
        BY <1>3, <3>2 DEF OpenCommands, TypeOK, ServerTypes
      <4>. QED  BY <3>2, <4>1, Unchanged
    <3>. QED  BY <1>3, <3>1, <3>2 DEF OpenCommands
  <2>. QED  BY <1>3, <2>1, Unchanged DEF OpenCommands, TypeOK
<1>4. CASE ReadFile
  BY <1>4, ResultTypes, FinishType, Unchanged DEF ReadFile, TypeOK
<1>5. CASE Timeout
  <2>1. holder \in Requests
    BY <1>5, TargetIn DEF Timeout, TypeOK
  <2>2. HistoryTypes'
    BY <1>5, <2>1 DEF Timeout, TypeOK, HistoryTypes
  <2>. QED  BY <1>5, <2>2, ResultTypes, FinishType, Unchanged DEF Timeout, TypeOK
<1>. QED  BY <1>1, <1>2, <1>3, <1>4, <1>5, PutType, ReceiveType DEF Server
----------------------------------------------------------------------------
LEMMA UnlinkType ==
  ASSUME TypeOK, NEW w \in Workers, NEW both \in BOOLEAN, Unlink(w, both),
         UNCHANGED <<holder, step, got>>
  PROVE  ServerTypes'
BY DEF Unlink, TypeOK, ServerTypes, QueueTypes

LEMMA StartType ==
  ASSUME TypeOK, NEW w \in Workers, Start(w)
  PROVE  TypeOK'
<1>1. ServerTypes'
  BY UnlinkType, Unchanged DEF Start, serverVars
<1>2. QueueTypes'
  <2>1. /\ cmdq' \in [Workers -> Seq(Requests)]
        /\ \A v \in Workers : Len(cmdq'[v]) <= Cap
    <3>1. <<>> \in Seq(Requests) /\ Len(<<>>) <= Cap
      BY RpcAssumption
    <3>2. cmdq' = [cmdq EXCEPT ![w] = <<>>] \/ UNCHANGED cmdq
      BY DEF Start
    <3>. QED  BY <3>1, <3>2 DEF TypeOK, QueueTypes
  <2>. QED  BY <2>1 DEF Start, TypeOK, QueueTypes
<1>3. WorkerTypes'
  BY DEF Start, TypeOK, WorkerTypes
<1>. QED  BY <1>1, <1>2, <1>3, Unchanged DEF Start, TypeOK

LEMMA TakeType ==
  ASSUME TypeOK, NEW w \in Workers, Take(w)
  PROVE  TypeOK'
<1>1. /\ cmdq[w] \in Seq(Requests) /\ Len(cmdq[w]) \in Nat /\ Len(cmdq[w]) <= Cap
      /\ cmdq[w] # <<>> /\ Cap \in Nat
  BY RpcAssumption DEF Take, TypeOK, QueueTypes
<1>2. /\ Head(cmdq[w]) \in Requests /\ Tail(cmdq[w]) \in Seq(Requests)
      /\ Len(Tail(cmdq[w])) <= Cap
  BY <1>1
<1>3. QueueTypes'
  <2>1. cmdq' = [cmdq EXCEPT ![w] = Tail(cmdq[w])] /\ UNCHANGED <<respq, cmdNamed, respNamed>>
    BY DEF Take
  <2>. QED  BY <1>2, <2>1 DEF TypeOK, QueueTypes
<1>4. WorkerTypes'
  <2>1. job' = [job EXCEPT ![w] = Head(cmdq[w])] /\ Head(cmdq[w]) # NoRequest
    BY <1>2, RpcAssumption DEF Take
  <2>2. ASSUME NEW answers \in Seq(Codes), answers # <<>>,
               left' = [left EXCEPT ![w] = answers],
               wpc' = [wpc EXCEPT ![w] = "reply"], UNCHANGED out
        PROVE  WorkerTypes'
    BY <1>2, <2>1, <2>2 DEF TypeOK, WorkerTypes
  <2>3. CASE \E code \in Codes : /\ left' = [left EXCEPT ![w] = <<code>>]
                                 /\ wpc' = [wpc EXCEPT ![w] = "reply"] /\ UNCHANGED out
    <3>1. PICK code \in Codes : left' = [left EXCEPT ![w] = <<code>>]
      BY <2>3
    <3>2. <<code>> \in Seq(Codes) /\ <<code>> # <<>>
      OBVIOUS
    <3>. QED  BY <2>2, <2>3, <3>1, <3>2
  <2>4. CASE /\ left' = [left EXCEPT ![w] = AnswersOnMiss(w)]
             /\ wpc' = [wpc EXCEPT ![w] = "reply"] /\ UNCHANGED out
    <3>1. /\ <<"failure", "success">> \in Seq(Codes) /\ <<"failure", "success">> # <<>>
          /\ <<"success">> \in Seq(Codes) /\ <<"success">> # <<>>
      BY DEF Codes
    <3>2. AnswersOnMiss(w) \in {<<"failure", "success">>, <<"success">>}
      BY DEF AnswersOnMiss
    <3>. QED  BY <2>2, <2>4, <3>1, <3>2
  <2>5. CASE /\ wpc' = [wpc EXCEPT ![w] = "write"]
             /\ out' = [of |-> Head(cmdq[w]), whole |-> FALSE] /\ UNCHANGED left
    <3>1. out' \in Listing
      BY <1>2, <2>5 DEF Listing
    <3>2. wpc[w] = "idle"
      BY DEF Take
    <3>. QED  BY <1>2, <2>1, <2>5, <3>1, <3>2 DEF TypeOK, WorkerTypes
  <2>. QED  BY <2>3, <2>4, <2>5 DEF Take
<1>5. HistoryTypes'
  BY RpcAssumption DEF Take, TypeOK, HistoryTypes
<1>. QED  BY <1>3, <1>4, <1>5, Unchanged DEF Take, TypeOK

LEMMA ReplyType ==
  ASSUME TypeOK, NEW w \in Workers, Reply(w)
  PROVE  TypeOK'
<1>1. /\ job[w] \in Requests /\ left[w] \in Seq(Codes) /\ left[w] # <<>>
      /\ respq[w] \in Seq(Answer) /\ Len(respq[w]) \in Nat /\ Cap \in Nat
  BY RpcAssumption DEF Reply, TypeOK, WorkerTypes, QueueTypes
<1>2. QueueTypes'
  <2> DEFINE a == [from |-> job[w], code |-> Head(left[w])]
  <2>1. a \in Answer
    BY <1>1 DEF Answer
  <2>2. CASE Len(respq[w]) < Cap /\ respq' = [respq EXCEPT ![w] = Append(respq[w], a)]
    <3> HIDE DEF a
    <3>1. Append(respq[w], a) \in Seq(Answer) /\ Len(Append(respq[w], a)) <= Cap
      BY <1>1, <2>1, <2>2
    <3>. QED  BY <2>2, <3>1 DEF Reply, TypeOK, QueueTypes
  <2>3. CASE UNCHANGED respq
    BY <2>3 DEF Reply, TypeOK, QueueTypes
  <2>. QED  BY <2>2, <2>3 DEF Reply
<1>3. WorkerTypes'
  <2>1. Tail(left[w]) \in Seq(Codes) /\ left' = [left EXCEPT ![w] = Tail(left[w])]
    BY <1>1 DEF Reply
  <2>2. CASE Len(left[w]) > 1
    <3>1. Tail(left[w]) # <<>>
      BY <1>1, <2>2
    <3>. QED  BY <2>1, <2>2, <3>1 DEF Reply, TypeOK, WorkerTypes
  <2>3. CASE ~(Len(left[w]) > 1)
    <3>1. Tail(left[w]) = <<>>
      BY <1>1, <2>3
    <3>2. wpc' = [wpc EXCEPT ![w] = "idle"] /\ job' = [job EXCEPT ![w] = NoRequest]
      BY <2>3 DEF Reply
    <3>. QED  BY <2>1, <3>1, <3>2 DEF Reply, TypeOK, WorkerTypes
  <2>. QED  BY <2>2, <2>3
<1>. QED  BY <1>2, <1>3, Unchanged DEF Reply, TypeOK

LEMMA WorkerType ==
  ASSUME TypeOK, NEW w \in Workers, Worker(w) \/ Exit(w) \/ Crash(w)
  PROVE  TypeOK'
<1>1. CASE Write(w)
  <2>1. WorkerTypes'
    <3>1. job[w] \in Requests
      BY <1>1 DEF Write, TypeOK, WorkerTypes
    <3>2. out' \in Listing
      BY <1>1, <3>1 DEF Write, Listing
    <3>3. <<"success">> \in Seq(Codes) /\ <<"success">> # <<>>
      BY DEF Codes
    <3>. QED  BY <1>1, <3>1, <3>2, <3>3 DEF Write, TypeOK, WorkerTypes
  <2>. QED  BY <1>1, <2>1, Unchanged DEF Write, TypeOK
<1>2. CASE Exit(w)
  <2>1. ServerTypes'
    BY <1>2, UnlinkType DEF Exit
  <2>2. QueueTypes'
    BY <1>2, RpcAssumption DEF Exit, TypeOK, QueueTypes
  <2>3. WorkerTypes'
    BY <1>2 DEF Exit, TypeOK, WorkerTypes, Listing
  <2>4. HistoryTypes'
    BY <1>2, RpcAssumption DEF Exit, TypeOK, HistoryTypes
  <2>. QED  BY <1>2, <2>1, <2>2, <2>3, <2>4, Unchanged DEF Exit, TypeOK
<1>3. CASE Crash(w)
  <2>1. WorkerTypes'
    BY <1>3 DEF Crash, TypeOK, WorkerTypes
  <2>2. HistoryTypes'
    BY <1>3, RpcAssumption DEF Crash, TypeOK, HistoryTypes
  <2>. QED  BY <1>3, <2>1, <2>2, Unchanged DEF Crash, TypeOK
<1>. QED  BY <1>1, <1>2, <1>3, StartType, TakeType, ReplyType DEF Worker

LEMMA OtherType ==
  ASSUME TypeOK, (\E r \in Requests : Connect(r)) \/ ServerCrash \/ UNCHANGED vars
  PROVE  TypeOK'
<1>1. ASSUME NEW r \in Requests, Connect(r)
      PROVE  TypeOK'
  <2>1. ClientTypes'
    BY <1>1 DEF Connect, TypeOK, ClientTypes
  <2>. QED  BY <1>1, <2>1, Unchanged DEF Connect, TypeOK
<1>2. CASE ServerCrash
  <2>1. ClientTypes'
    BY <1>2 DEF ServerCrash, TypeOK, ClientTypes
  <2>2. ServerTypes'
    BY <1>2 DEF ServerCrash, ServerTypes
  <2>3. HistoryTypes'
    <3>1. holder \in Requests
      BY <1>2 DEF ServerCrash, TypeOK, ServerTypes
    <3>. QED  BY <1>2, <3>1, RpcAssumption DEF ServerCrash, TypeOK, HistoryTypes
  <2>. QED  BY <1>2, <2>1, <2>2, <2>3, Unchanged DEF ServerCrash, TypeOK
<1>3. CASE UNCHANGED vars
  BY <1>3, Unchanged DEF vars, TypeOK, clientVars, serverVars, queueVars, workerVars, historyVars
<1>. QED  BY <1>1, <1>2, <1>3

\* Every variable keeps its type and every queue its capacity.
THEOREM TypeCorrect == Spec => []TypeOK
<1>1. TypeOK /\ [Next]_vars => TypeOK'
  BY ServerType, WorkerType, OtherType DEF Next
<1>. QED  BY InitType, <1>1, PTL DEF Spec
----------------------------------------------------------------------------
\* A server step in which the server keeps its response queue, or has closed it.
LEMMA UnlinkedServer ==
  ASSUME TypeOK, UnlinkedIsGone, Server
  PROVE  UnlinkedIsGone'
<1> USE DEF clientVars, serverVars, queueVars, workerVars, historyVars, Target
<1>1. ASSUME NEW r \in Requests, Acquire(r)
      PROVE  UnlinkedIsGone'
  <2>1. step = "free"
    BY <1>1 DEF Acquire, TypeOK, ServerTypes
  <2>. QED  BY <1>1, <2>1 DEF Acquire, UnlinkedIsGone
<1>2. CASE OpenResponses
  BY <1>2 DEF OpenResponses, UnlinkedIsGone, TypeOK, QueueTypes
<1>3. CASE OpenCommands
  BY <1>3 DEF OpenCommands, UnlinkedIsGone, Finish
<1>4. CASE Put
  BY <1>4 DEF Put, UnlinkedIsGone
<1>5. CASE Receive
  <2>1. (respFd' = "linked" \/ UNCHANGED <<respFd, step, holder, want>>) /\ UNCHANGED respNamed
    BY <1>5 DEF Receive, Finish
  <2>2. ASSUME NEW w \in Workers, ~respNamed'[w]
        PROVE  respq'[w] = <<>>
    <3>1. respq[w] = <<>>
      BY <2>1, <2>2 DEF UnlinkedIsGone
    <3>2. respFd = "linked" => respq[Target] # <<>>
      BY <1>5 DEF Receive, Answers
    <3>. QED  BY <1>5, <3>1, <3>2 DEF Receive, TypeOK, QueueTypes
  <2>3. respFd' = "linked"
    BY <1>5 DEF Receive, Finish
  <2>. QED  BY <2>2, <2>3 DEF UnlinkedIsGone
<1>6. CASE ReadFile
  BY <1>6 DEF ReadFile, UnlinkedIsGone, Finish
<1>7. CASE Timeout
  BY <1>7 DEF Timeout, UnlinkedIsGone, Finish
<1>. QED  BY <1>1, <1>2, <1>3, <1>4, <1>5, <1>6, <1>7 DEF Server

LEMMA UnlinkedWorker ==
  ASSUME TypeOK, UnlinkedIsGone, NEW w \in Workers, Worker(w) \/ Exit(w) \/ Crash(w)
  PROVE  UnlinkedIsGone'
<1> USE DEF clientVars, serverVars, queueVars, workerVars, historyVars, Target
<1>1. CASE Start(w)
  BY <1>1 DEF Start, Unlink, UnlinkedIsGone
<1>2. CASE Take(w) \/ Write(w) \/ Crash(w)
  BY <1>2 DEF Take, Write, Crash, UnlinkedIsGone
<1>3. CASE Reply(w)
  <2>1. UNCHANGED <<respNamed, respFd, step, holder, want>>
    BY <1>3 DEF Reply
  <2>2. \A v \in Workers : ~respNamed[v] => respq'[v] = respq[v]
    BY <1>3 DEF Reply, TypeOK, QueueTypes
  <2>. QED  BY <2>1, <2>2 DEF UnlinkedIsGone
<1>4. CASE Exit(w)
  <2>1. /\ respNamed' = [respNamed EXCEPT ![w] = FALSE] /\ respq' = [respq EXCEPT ![w] = <<>>]
        /\ UNCHANGED <<step, holder, want>> /\ Unlink(w, TRUE)
    BY <1>4 DEF Exit
  <2>2. \A v \in Workers : ~respNamed'[v] => respq'[v] = <<>>
    BY <2>1 DEF UnlinkedIsGone, TypeOK, QueueTypes
  <2>3. respFd' = "unlinked" => step' \in {"lookup", "put", "recv"} /\ ~respNamed'[Target]
    <3>1. Target \in Workers \/ step = "free"
      BY TargetIn DEF TypeOK
    <3>. QED  BY <2>1, <3>1 DEF Unlink, UnlinkedIsGone, TypeOK, QueueTypes
  <2>. QED  BY <2>1, <2>2, <2>3 DEF UnlinkedIsGone
<1>. QED  BY <1>1, <1>2, <1>3, <1>4 DEF Worker

LEMMA UnlinkedOther ==
  ASSUME TypeOK, UnlinkedIsGone,
         (\E r \in Requests : Connect(r)) \/ ServerCrash \/ UNCHANGED vars
  PROVE  UnlinkedIsGone'
BY DEF Connect, ServerCrash, vars, UnlinkedIsGone, Target,
       clientVars, serverVars, queueVars, workerVars, historyVars
----------------------------------------------------------------------------
\* The quantities compared by InFlightBounded are natural numbers.
LEMMA Numbers ==
  ASSUME TypeOK, NEW w \in Workers
  PROVE  /\ Cap \in Nat /\ Cap > 0 /\ cuts \in Nat /\ Doubles(w) \in Nat
         /\ Len(cmdq[w]) \in Nat /\ Len(cmdq[w]) <= Cap
         /\ Len(respq[w]) \in Nat /\ Len(respq[w]) <= Cap
         /\ Len(left[w]) \in Nat /\ Pending(w) \in Nat
         /\ (wpc[w] # "reply" => Len(left[w]) = 0)
         /\ Awaited(w) \in {0, 1}
BY RpcAssumption
   DEF TypeOK, QueueTypes, WorkerTypes, HistoryTypes, Doubles, Pending, Awaited

\* Until the other side of InFlightBounded moves, nothing is under way more.
LEMMA InFlightQuiet ==
  ASSUME TypeOK, InFlightBounded, UNCHANGED <<cmdq, respq, wpc, left, misses>>,
         TypeOK', \A w \in Workers : Awaited(w)' + cuts' >= Awaited(w) + cuts
  PROVE  InFlightBounded'
<1> SUFFICES ASSUME NEW w \in Workers
             PROVE  (InFlight(w) <= Cap + 1 + Awaited(w) + Doubles(w) + cuts)'
  BY DEF InFlightBounded
<1>1. InFlight(w) <= Cap + 1 + Awaited(w) + Doubles(w) + cuts
  BY DEF InFlightBounded
<1>2. InFlight(w)' = InFlight(w) /\ Doubles(w)' = Doubles(w) /\ Pending(w)' = Pending(w)
  BY DEF InFlight, Pending, Doubles
<1>3. InFlight(w) \in Nat
  BY Numbers DEF InFlight
<1>4. Awaited(w)' \in {0, 1} /\ cuts' \in Nat
  BY RpcAssumption DEF Awaited, TypeOK, HistoryTypes
<1>5. Awaited(w)' + cuts' >= Awaited(w) + cuts
  OBVIOUS
<1> HIDE DEF InFlight, Awaited, Doubles
<1>. QED  BY <1>1, <1>2, <1>3, <1>4, <1>5, Numbers

LEMMA InFlightPut ==
  ASSUME TypeOK, InFlightBounded, Put
  PROVE  InFlightBounded'
<1>1. /\ Target \in Workers /\ holder \in Requests /\ step = "put" /\ step' = "recv"
      /\ UNCHANGED <<want, holder, respq, wpc, left, misses, cuts>>
  BY TargetIn DEF Put, TypeOK, clientVars, workerVars, historyVars
<1> SUFFICES ASSUME NEW w \in Workers
             PROVE  (InFlight(w) <= Cap + 1 + Awaited(w) + Doubles(w) + cuts)'
  BY DEF InFlightBounded
<1>2. InFlight(w) <= Cap + 1 + Awaited(w) + Doubles(w) + cuts
  BY DEF InFlightBounded
<1>3. Doubles(w)' = Doubles(w) /\ Pending(w)' = Pending(w) /\ cuts' = cuts
  BY <1>1 DEF Pending, Doubles
<1>4. Awaited(w) = 0 /\ Awaited(w)' = IF Target = w THEN 1 ELSE 0
  BY <1>1 DEF Awaited, Target
<1>5. CASE Target = w
  <2>1. Len(cmdq'[w]) \in {Len(cmdq[w]), Len(cmdq[w]) + 1}
    <3>1. cmdq[w] \in Seq(Requests) /\ cmdq \in [Workers -> Seq(Requests)]
      BY DEF TypeOK, QueueTypes
    <3>2. UNCHANGED cmdq \/ cmdq' = [cmdq EXCEPT ![w] = Append(cmdq[w], holder)]
      BY <1>5 DEF Put
    <3>. QED  BY <1>1, <3>1, <3>2
  <2> DEFINE cmds == Len(cmdq[w])
             resps == Len(respq[w])
  <2>2. cmds' \in {cmds, cmds + 1} /\ resps' = resps
    BY <1>1, <2>1
  <2>3. /\ InFlight(w) = cmds + Pending(w) + resps
        /\ InFlight(w)' = cmds' + Pending(w) + resps'
    BY <1>3 DEF InFlight
  <2>4. /\ Cap \in Nat /\ cuts \in Nat /\ Doubles(w) \in Nat
        /\ cmds \in Nat /\ resps \in Nat /\ Pending(w) \in Nat
    BY Numbers
  <2> HIDE DEF cmds, resps
  <2>5. Awaited(w) = 0 /\ Awaited(w)' = 1
    BY <1>4, <1>5
  <2>6. InFlight(w)' <= InFlight(w) + 1 /\ InFlight(w) \in Nat /\ InFlight(w)' \in Nat
    BY <2>2, <2>3, <2>4
  <2>. QED  BY <1>2, <1>3, <2>4, <2>5, <2>6
<1>6. CASE Target # w
  <2>1. cmdq'[w] = cmdq[w]
    BY <1>6 DEF Put, TypeOK, QueueTypes
  <2>. QED  BY <1>1, <1>2, <1>3, <1>4, <1>6, <2>1, Numbers DEF InFlight
<1>. QED  BY <1>5, <1>6

\* Receiving an answer, or finding none: what the server awaits is no longer.
LEMMA InFlightAnswered ==
  ASSUME TypeOK, InFlightBounded, PendingBounded, UnlinkedIsGone, Receive \/ Timeout
  PROVE  InFlightBounded'
<1>1. /\ Target \in Workers /\ step = "recv" /\ step' # "recv"
      /\ UNCHANGED <<want, cmdq, wpc, left, misses, cuts>>
  BY TargetIn DEF Receive, Timeout, Finish, TypeOK, clientVars, workerVars, historyVars, queueVars
<1> SUFFICES ASSUME NEW w \in Workers
             PROVE  (InFlight(w) <= Cap + 1 + Awaited(w) + Doubles(w) + cuts)'
  BY DEF InFlightBounded
<1>2. InFlight(w) <= Cap + 1 + Awaited(w) + Doubles(w) + cuts /\ Pending(w) <= 1 + Doubles(w)
  BY DEF InFlightBounded, PendingBounded
<1>3. Doubles(w)' = Doubles(w) /\ Pending(w)' = Pending(w) /\ cuts' = cuts
  BY <1>1 DEF Pending, Doubles
<1>4. Awaited(w)' = 0 /\ Awaited(w) = IF Target = w THEN 1 ELSE 0
  BY <1>1 DEF Awaited
<1>5. CASE Target = w
  <2>1. CASE respFd = "linked" /\ Receive
    <3>1. respq[w] \in Seq(Answer) /\ respq[w] # <<>> /\ respq \in [Workers -> Seq(Answer)]
      BY <1>5, <2>1 DEF Receive, Answers, TypeOK, QueueTypes
    <3>2. respq' = [respq EXCEPT ![w] = Tail(respq[w])]
      BY <1>5, <2>1 DEF Receive
    <3>3. Len(respq'[w]) = Len(respq[w]) - 1
      BY <3>1, <3>2
    <3> DEFINE cmds == Len(cmdq[w])
               resps == Len(respq[w])
    <3>4. /\ InFlight(w) = cmds + Pending(w) + resps
          /\ InFlight(w)' = cmds + Pending(w) + (resps - 1)
      BY <1>1, <1>3, <3>3 DEF InFlight
    <3>5. resps > 0
      BY <3>1
    <3>6. /\ Cap \in Nat /\ cuts \in Nat /\ Doubles(w) \in Nat
          /\ cmds \in Nat /\ resps \in Nat /\ Pending(w) \in Nat
      BY Numbers
    <3> HIDE DEF cmds, resps
    <3>7. InFlight(w) \in Nat /\ InFlight(w)' = InFlight(w) - 1
      BY <3>4, <3>5, <3>6
    <3>8. Awaited(w) = 1 /\ Awaited(w)' = 0
      BY <1>4, <1>5
    <3>. QED  BY <1>2, <1>3, <3>6, <3>7, <3>8
  <2>2. CASE respFd # "linked" \/ Timeout
    <3>1. respq[w] = <<>> /\ respq' = respq
      <4>1. CASE respFd # "linked"
        <5>1. respFd = "unlinked"
          BY <4>1 DEF TypeOK, ServerTypes
        <5>. QED  BY <1>5, <4>1, <5>1 DEF UnlinkedIsGone, Receive, Timeout, queueVars
      <4>2. CASE respFd = "linked" /\ Timeout
        BY <1>5, <4>2 DEF Timeout, Answers, queueVars
      <4>. QED  BY <2>2, <4>1, <4>2
    <3>2. Len(respq'[w]) = 0
      BY <3>1
    <3>. QED  BY <1>1, <1>2, <1>3, <1>4, <3>2, Numbers DEF InFlight
  <2>. QED  BY <2>1, <2>2
<1>6. CASE Target # w
  <2>1. respq'[w] = respq[w]
    BY <1>6 DEF Receive, Timeout, TypeOK, QueueTypes, queueVars
  <2>. QED  BY <1>1, <1>2, <1>3, <1>4, <1>6, <2>1, Numbers DEF InFlight
<1>. QED  BY <1>5, <1>6

LEMMA InFlightServer ==
  ASSUME TypeOK, TypeOK', InFlightBounded, PendingBounded, UnlinkedIsGone,
         Server \/ ServerCrash \/ (\E r \in Requests : Connect(r)) \/ UNCHANGED vars
  PROVE  InFlightBounded'
<1>1. CASE \/ \E r \in Requests : Acquire(r) \/ Connect(r)
           \/ OpenResponses \/ OpenCommands \/ ReadFile \/ UNCHANGED vars
  <2>1. UNCHANGED <<cmdq, respq, wpc, left, misses, cuts>>
    BY <1>1 DEF Acquire, Connect, OpenResponses, OpenCommands, ReadFile, vars,
                queueVars, workerVars, historyVars
  <2>2. ASSUME NEW w \in Workers
        PROVE  Awaited(w)' >= Awaited(w)
    <3>1. CASE step = "recv"
      <4>1. UNCHANGED <<step, holder, want>>
        BY <1>1, <3>1 DEF Acquire, Connect, OpenResponses, OpenCommands, ReadFile, vars,
                          clientVars, serverVars, TypeOK, ServerTypes
      <4>. QED  BY <4>1 DEF Awaited, Target
    <3>2. CASE step # "recv"
      BY <3>2 DEF Awaited
    <3>. QED  BY <3>1, <3>2
  <2>3. \A w \in Workers : Awaited(w)' + cuts' >= Awaited(w) + cuts
    BY <2>1, <2>2, Numbers DEF Awaited
  <2>. QED  BY <2>1, <2>3, InFlightQuiet
<1>2. CASE ServerCrash
  <2>1. UNCHANGED <<cmdq, respq, wpc, left, misses>> /\ cuts' = cuts + 1
    BY <1>2 DEF ServerCrash, queueVars, workerVars
  <2>2. \A w \in Workers : Awaited(w)' + cuts' >= Awaited(w) + cuts
    BY <2>1, Numbers DEF Awaited
  <2>. QED  BY <2>1, <2>2, InFlightQuiet
<1>. QED  BY <1>1, <1>2, InFlightPut, InFlightAnswered DEF Server
----------------------------------------------------------------------------
\* A step of w leaves the queues of the other worker alone.
LEMMA InFlightWorker ==
  ASSUME TypeOK, TypeOK', InFlightBounded, PendingBounded, NEW w \in Workers,
         Worker(w) \/ Exit(w) \/ Crash(w)
  PROVE  InFlightBounded' /\ PendingBounded'
<1> USE DEF clientVars, serverVars, queueVars, workerVars, historyVars
<1> DEFINE cmds == Len(cmdq[w])
           resps == Len(respq[w])
<1>0. /\ Cap \in Nat /\ Cap > 0 /\ cuts \in Nat /\ Doubles(w) \in Nat
      /\ cmds \in Nat /\ resps \in Nat /\ Pending(w) \in Nat
      /\ InFlight(w) = cmds + Pending(w) + resps
      /\ InFlight(w)' = cmds' + Pending(w)' + resps'
  BY Numbers DEF InFlight
<1> HIDE DEF cmds, resps
<1>1. UNCHANGED <<want, holder, step, cuts>>
  BY DEF Worker, Start, Take, Write, Reply, Exit, Crash
<1>2. \A v \in Workers : Awaited(v)' = Awaited(v)
  BY <1>1 DEF Awaited, Target
<1>3. \A v \in Workers \ {w} : /\ cmdq'[v] = cmdq[v] /\ respq'[v] = respq[v]
                              /\ wpc'[v] = wpc[v] /\ left'[v] = left[v]
                              /\ misses'[v] = misses[v]
  <2> SUFFICES ASSUME NEW v \in Workers \ {w}
               PROVE  /\ cmdq'[v] = cmdq[v] /\ respq'[v] = respq[v]
                      /\ wpc'[v] = wpc[v] /\ left'[v] = left[v]
                      /\ misses'[v] = misses[v]
    OBVIOUS
  <2> USE DEF TypeOK, QueueTypes, WorkerTypes, HistoryTypes
  <2>1. CASE Start(w) \/ Exit(w) \/ Crash(w)
    BY <2>1 DEF Start, Exit, Crash
  <2>2. CASE Take(w)
    BY <2>2 DEF Take
  <2>3. CASE Write(w) \/ Reply(w)
    BY <2>3 DEF Write, Reply
  <2>. QED  BY <2>1, <2>2, <2>3 DEF Worker
<1>4. ASSUME NEW d \in Nat,
             Doubles(w)' = Doubles(w) + d,
             InFlight(w)' <= InFlight(w) + d,
             Pending(w)' <= 1 + Doubles(w)'
      PROVE  InFlightBounded' /\ PendingBounded'
  <2>1. ASSUME NEW v \in Workers
        PROVE  /\ (InFlight(v) <= Cap + 1 + Awaited(v) + Doubles(v) + cuts)'
               /\ (Pending(v) <= 1 + Doubles(v))'
    <3>0. /\ InFlight(v) <= Cap + 1 + Awaited(v) + Doubles(v) + cuts
          /\ Pending(v) <= 1 + Doubles(v)
      BY DEF InFlightBounded, PendingBounded
    <3>1. CASE v = w
      <4>1. InFlight(w) \in Nat
        BY Numbers DEF InFlight
      <4>2. InFlight(w)' \in Nat
        BY RpcAssumption
           DEF TypeOK, QueueTypes, WorkerTypes, InFlight, Pending
      <4>3. Awaited(w) \in {0, 1} /\ Awaited(w)' = Awaited(w) /\ cuts' = cuts
        BY <1>1, <1>2 DEF Awaited
      <4>4. /\ InFlight(w) <= Cap + 1 + Awaited(w) + Doubles(w) + cuts
            /\ Doubles(w)' = Doubles(w) + d /\ InFlight(w)' <= InFlight(w) + d
        BY <1>4, <3>0, <3>1
      <4>5. InFlight(w)' <= Cap + 1 + Awaited(w)' + Doubles(w)' + cuts'
        BY <1>0, <4>1, <4>2, <4>3, <4>4
      <4>. QED  BY <1>4, <3>1, <4>5
    <3>2. CASE v # w
      <4>1. InFlight(v)' = InFlight(v) /\ Pending(v)' = Pending(v) /\ Doubles(v)' = Doubles(v)
        BY <1>3, <3>2 DEF InFlight, Pending, Doubles
      <4>. QED  BY <1>1, <1>2, <3>0, <4>1
    <3>. QED  BY <3>1, <3>2
  <2>. QED  BY <2>1 DEF InFlightBounded, PendingBounded
<1>5. Pending(w) <= 1 + Doubles(w)
  BY DEF PendingBounded
<1>6. UNCHANGED misses => Doubles(w)' = Doubles(w) + 0
  BY Numbers DEF Doubles
<1>7. CASE Start(w) \/ Exit(w)
  <2>1. UNCHANGED misses /\ UNCHANGED left
    BY <1>7 DEF Start, Exit
  <2>2. wpc[w] # "write" /\ wpc'[w] # "write"
    BY <1>7 DEF Start, Exit, TypeOK, WorkerTypes
  <2>3. Pending(w)' = Pending(w)
    BY <2>1, <2>2 DEF Pending
  <2>4. /\ cmdq'[w] = cmdq[w] \/ cmdq'[w] = <<>>
        /\ respq'[w] = respq[w] \/ respq'[w] = <<>>
    BY <1>7 DEF Start, Exit, TypeOK, QueueTypes
  <2>5. /\ cmds' = cmds \/ cmds' = 0
        /\ resps' = resps \/ resps' = 0
    BY <2>4 DEF cmds, resps
  <2>7. InFlight(w)' <= InFlight(w) + 0
    BY <2>3, <2>5, <1>0
  <2>8. Doubles(w)' = Doubles(w) + 0 /\ Pending(w)' <= 1 + Doubles(w)'
    BY <1>0, <1>5, <1>6, <2>1, <2>3
  <2>. QED  BY <1>4, <2>7, <2>8
<1>8. CASE Crash(w)
  <2>1. UNCHANGED <<misses, cmdq, respq>>
    BY <1>8 DEF Crash
  <2>2. left'[w] = <<>> /\ wpc'[w] = "down"
    BY <1>8 DEF Crash, TypeOK, WorkerTypes
  <2>3. Pending(w)' = 0
    BY <2>2 DEF Pending
  <2>4. cmds' = cmds /\ resps' = resps
    BY <2>1 DEF cmds, resps
  <2>5. InFlight(w)' <= InFlight(w) + 0
    BY <2>3, <2>4, <1>0
  <2>6. Doubles(w)' = Doubles(w) + 0 /\ Pending(w)' <= 1 + Doubles(w)'
    BY <1>0, <1>6, <2>1, <2>3
  <2>. QED  BY <1>4, <2>5, <2>6
<1>9. CASE Write(w)
  <2>1. UNCHANGED <<misses, cmdq, respq>>
    BY <1>9 DEF Write
  <2>2. left'[w] = <<"success">> /\ wpc'[w] = "reply" /\ wpc[w] = "write"
    BY <1>9 DEF Write, TypeOK, WorkerTypes
  <2>3. Pending(w)' = 1 /\ Pending(w) = 1
    BY <2>2 DEF Pending
  <2>4. cmds' = cmds /\ resps' = resps
    BY <2>1 DEF cmds, resps
  <2>5. InFlight(w)' <= InFlight(w) + 0
    BY <2>3, <2>4, <1>0
  <2>6. Doubles(w)' = Doubles(w) + 0 /\ Pending(w)' <= 1 + Doubles(w)'
    BY <1>0, <1>6, <2>1, <2>3
  <2>. QED  BY <1>4, <2>5, <2>6
<1>10. CASE Take(w)
  <2>1. wpc[w] = "idle" /\ Pending(w) = 0
    BY <1>10, Numbers DEF Take, Pending
  <2>2. cmds' = cmds - 1
    <3>1. cmdq[w] \in Seq(Requests) /\ cmdq[w] # <<>> /\ cmdq'[w] = Tail(cmdq[w])
      BY <1>10 DEF Take, TypeOK, QueueTypes
    <3>. QED  BY <3>1 DEF cmds
  <2>3. resps' = resps
    BY <1>10 DEF Take, resps
  <2>4. CASE UNCHANGED misses /\ Pending(w)' = 1
    <3>1. InFlight(w)' <= InFlight(w) + 0
      BY <2>1, <2>2, <2>3, <2>4, <1>0
    <3>2. Doubles(w)' = Doubles(w) + 0 /\ Pending(w)' <= 1 + Doubles(w)'
      BY <1>0, <1>6, <2>4
    <3>. QED  BY <1>4, <3>1, <3>2
  <2>5. CASE /\ misses' = [misses EXCEPT ![w] = misses[w] + 1]
             /\ left'[w] = AnswersOnMiss(w) /\ wpc'[w] = "reply"
    <3>1. CASE w = "proc"
      <4>1. Doubles(w)' = Doubles(w) + 1
        BY <2>5, <3>1 DEF Doubles, TypeOK, HistoryTypes
      <4>2. Pending(w)' = 2
        BY <2>5, <3>1 DEF Pending, AnswersOnMiss
      <4>3. InFlight(w)' <= InFlight(w) + 1
        BY <2>1, <2>2, <2>3, <4>2, <1>0
      <4>4. Pending(w)' <= 1 + Doubles(w)'
        BY <1>0, <4>1, <4>2
      <4>. QED  BY <1>4, <4>1, <4>3, <4>4
    <3>2. CASE w # "proc"
      <4>1. Doubles(w)' = Doubles(w) + 0
        BY <3>2 DEF Doubles
      <4>2. Pending(w)' = 1
        BY <2>5, <3>2 DEF Pending, AnswersOnMiss
      <4>3. InFlight(w)' <= InFlight(w) + 0
        BY <2>1, <2>2, <2>3, <4>2, <1>0
      <4>4. Pending(w)' <= 1 + Doubles(w)'
        BY <1>0, <4>1, <4>2
      <4>. QED  BY <1>4, <4>1, <4>3, <4>4
    <3>. QED  BY <3>1, <3>2
  <2>6. \/ UNCHANGED misses /\ Pending(w)' = 1
        \/ /\ misses' = [misses EXCEPT ![w] = misses[w] + 1]
           /\ left'[w] = AnswersOnMiss(w) /\ wpc'[w] = "reply"
    <3>1. CASE \E code \in Codes : /\ left' = [left EXCEPT ![w] = <<code>>]
                                   /\ wpc' = [wpc EXCEPT ![w] = "reply"] /\ UNCHANGED misses
      <4>1. PICK code \in Codes : left'[w] = <<code>> /\ wpc'[w] = "reply"
        BY <3>1 DEF TypeOK, WorkerTypes
      <4>. QED  BY <3>1, <4>1 DEF Pending
    <3>2. CASE wpc' = [wpc EXCEPT ![w] = "write"] /\ UNCHANGED misses
      BY <3>2 DEF Pending, TypeOK, WorkerTypes
    <3>3. CASE /\ misses' = [misses EXCEPT ![w] = misses[w] + 1]
               /\ left' = [left EXCEPT ![w] = AnswersOnMiss(w)]
               /\ wpc' = [wpc EXCEPT ![w] = "reply"]
      BY <3>3 DEF TypeOK, WorkerTypes
    <3>. QED  BY <1>10, <3>1, <3>2, <3>3 DEF Take
  <2>. QED  BY <2>4, <2>5, <2>6
<1>11. CASE Reply(w)
  <2>1. UNCHANGED <<misses, cmdq>> /\ wpc[w] = "reply"
    BY <1>11 DEF Reply
  <2>2. left[w] \in Seq(Codes) /\ left[w] # <<>> /\ left'[w] = Tail(left[w])
    BY <1>11, <2>1 DEF Reply, TypeOK, WorkerTypes
  <2>3. Len(left'[w]) = Len(left[w]) - 1
    BY <2>2
  <2>4. wpc'[w] # "write"
    BY <1>11, <2>1 DEF Reply, TypeOK, WorkerTypes
  <2>5. Pending(w)' = Pending(w) - 1
    BY <2>1, <2>3, <2>4 DEF Pending
  <2>6. resps' \in {resps, resps + 1} /\ cmds' = cmds
    <3>1. respq[w] \in Seq(Answer) /\ respq \in [Workers -> Seq(Answer)]
      BY DEF TypeOK, QueueTypes
    <3>2. \/ UNCHANGED respq
          \/ \E a : respq' = [respq EXCEPT ![w] = Append(respq[w], a)]
      BY <1>11 DEF Reply
    <3>. QED  BY <2>1, <3>1, <3>2 DEF cmds, resps
  <2>7. InFlight(w)' <= InFlight(w) + 0
    BY <2>5, <2>6, <1>0
  <2>8. Doubles(w)' = Doubles(w) + 0 /\ Pending(w)' <= 1 + Doubles(w)'
    BY <1>0, <1>5, <1>6, <2>1, <2>5
  <2>. QED  BY <1>4, <2>7, <2>8
<1>. QED  BY <1>7, <1>8, <1>9, <1>10, <1>11 DEF Worker

RpcInv == TypeOK /\ UnlinkedIsGone /\ PendingBounded /\ InFlightBounded

LEMMA RpcInvariant == Spec => []RpcInv
<1>1. Init => RpcInv
  <2> SUFFICES ASSUME Init PROVE RpcInv
    OBVIOUS
  <2>1. UnlinkedIsGone
    BY DEF Init, UnlinkedIsGone
  <2>2. \A w \in Workers : Pending(w) = 0 /\ Len(cmdq[w]) = 0 /\ Len(respq[w]) = 0
    BY DEF Init, Pending
  <2>3. PendingBounded /\ InFlightBounded
    BY <2>2, InitType, Numbers DEF PendingBounded, InFlightBounded, InFlight
  <2>. QED  BY <2>1, <2>3, InitType DEF RpcInv
<1>2. RpcInv /\ [Next]_vars => RpcInv'
  <2> SUFFICES ASSUME RpcInv, [Next]_vars PROVE RpcInv'
    OBVIOUS
  <2> USE DEF RpcInv
  <2>1. TypeOK'
    BY ServerType, WorkerType, OtherType DEF Next
  <2>2. CASE Server \/ ServerCrash \/ (\E r \in Requests : Connect(r)) \/ UNCHANGED vars
    <3>1. UnlinkedIsGone'
      BY <2>2, UnlinkedServer, UnlinkedOther
    <3>2. UNCHANGED <<wpc, left, misses>>
      BY <2>2 DEF Server, ServerCrash, Connect, Acquire, OpenResponses, OpenCommands, Put,
                  Receive, ReadFile, Timeout, vars, workerVars, historyVars
    <3>3. PendingBounded'
      BY <3>2 DEF PendingBounded, Pending, Doubles
    <3>. QED  BY <2>1, <2>2, <3>1, <3>3, InFlightServer
  <2>3. ASSUME NEW w \in Workers, Worker(w) \/ Exit(w) \/ Crash(w)
        PROVE  RpcInv'
    BY <2>1, <2>3, UnlinkedWorker, InFlightWorker
  <2>. QED  BY <2>2, <2>3 DEF Next
<1>. QED  BY <1>1, <1>2, PTL DEF Spec

\* Whatever times out, is lost or restarted, the server and a worker wait for
\* each other only after Cap double answers and server crashes.
THEOREM NoDeadlock == Spec => []NoCircularWait
<1>1. RpcInv => NoCircularWait
  <2> SUFFICES ASSUME RpcInv, NEW w \in Workers, CircularWait(w)
               PROVE  Doubles(w) + cuts >= Cap
    BY DEF NoCircularWait
  <2>1. Len(cmdq[w]) = Cap /\ Len(respq[w]) = Cap /\ wpc[w] = "reply" /\ step = "put"
    BY DEF CircularWait
  <2>2. left[w] \in Seq(Codes) /\ left[w] # <<>>
    BY <2>1 DEF RpcInv, TypeOK, WorkerTypes
  <2>3. Pending(w) >= 1
    BY <2>1, <2>2 DEF Pending
  <2>4. Awaited(w) = 0
    BY <2>1 DEF Awaited
  <2>5. Len(cmdq[w]) + Pending(w) + Len(respq[w]) <= Cap + 1 + Awaited(w) + Doubles(w) + cuts
    BY DEF RpcInv, InFlightBounded, InFlight
  <2>. QED  BY <2>1, <2>3, <2>4, <2>5, Numbers DEF RpcInv
<1>. QED  BY RpcInvariant, <1>1, PTL
----------------------------------------------------------------------------
\* Commands given up and double answers are not forgotten.
LEMMA DisturbedGrows ==
  ASSUME TypeOK, [Next]_vars
  PROVE  /\ want' = want /\ abandoned \subseteq abandoned'
         /\ \A w \in Workers : misses[w] <= misses'[w]
         /\ \A w \in Workers : Disturbed(w) => Disturbed(w)'
<1>1. want' = want
  BY DEF Next, Server, ServerCrash, Connect, Acquire, OpenResponses, OpenCommands, Put, Receive,
         ReadFile, Timeout, Finish, Worker, Start, Take, Write, Reply, Exit, Crash, vars, clientVars
<1>2. abandoned \subseteq abandoned'
  BY DEF Next, Server, ServerCrash, Connect, Acquire, OpenResponses, OpenCommands, Put, Receive,
         ReadFile, Timeout, Worker, Start, Take, Write, Reply, Exit, Crash, vars, historyVars
<1>3. ASSUME NEW w \in Workers
      PROVE  misses'[w] \in Nat /\ misses[w] \in Nat /\ misses[w] <= misses'[w]
  <2>1. misses \in [Workers -> Nat]
    BY RpcAssumption DEF TypeOK, HistoryTypes
  <2>2. UNCHANGED misses \/ \E v \in Workers : misses' = [misses EXCEPT ![v] = @ + 1]
    BY DEF Next, Server, ServerCrash, Connect, Acquire, OpenResponses, OpenCommands, Put, Receive,
           ReadFile, Timeout, Worker, Start, Take, Write, Reply, Exit, Crash, vars, historyVars
  <2>. QED  BY <2>1, <2>2
<1>. QED  BY <1>1, <1>2, <1>3 DEF Disturbed, Doubles

\* A server that can read nothing from w has left nothing in its queue.
LEMMA NothingReadable ==
  ASSUME TypeOK, UnlinkedIsGone, NEW w \in Workers, Readable(w) = <<>>
  PROVE  respq[w] = <<>>
BY DEF Readable, Answers, UnlinkedIsGone, TypeOK, ServerTypes

LEMMA KeepsOne ==
  ASSUME NEW w \in Workers, OneUnderWay(w),
         cmdq'[w] = cmdq[w], job'[w] = job[w], Readable(w)' = Readable(w),
         step = "recv" /\ Target = w => step' = "recv" /\ Target' = w /\ holder' = holder
  PROVE  OneUnderWay(w)'
BY DEF OneUnderWay

\* Nothing is under way at w unless the server waits for its answer.
LEMMA OnlyAwaited ==
  ASSUME NEW w \in Workers, OneUnderWay(w), ~(step = "recv" /\ Target = w)
  PROVE  cmdq[w] = <<>> /\ job[w] = NoRequest /\ Readable(w) = <<>>
BY DEF OneUnderWay

LEMMA TidyPut ==
  ASSUME RpcInv, Put, NEW w \in Workers, OneUnderWay(w)
  PROVE  OneUnderWay(w)'
<1>1. /\ step = "put" /\ step' = "recv" /\ Target \in Workers
      /\ UNCHANGED <<want, holder, respFd, old, respq, job>>
  BY TargetIn DEF Put, RpcInv, TypeOK, clientVars, workerVars
<1>2. cmdq[w] = <<>> /\ job[w] = NoRequest /\ Readable(w) = <<>>
  BY <1>1, OnlyAwaited
<1>3. Readable(w)' = <<>> /\ job'[w] = NoRequest /\ Target' = Target
  BY <1>1, <1>2 DEF Readable, Answers, Target
<1>4. cmdq'[w] = <<>> \/ (Target = w /\ cmdq'[w] = <<holder>>)
  <2>1. Append(<<>>, holder) = <<holder>>
    OBVIOUS
  <2>2. cmdq \in [Workers -> Seq(Requests)]
    BY DEF RpcInv, TypeOK, QueueTypes
  <2>. QED  BY <1>1, <1>2, <2>1, <2>2 DEF Put
<1>. QED  BY <1>1, <1>3, <1>4 DEF OneUnderWay

\* A server that has read the only answer leaves nothing behind.
LEMMA TidyReceive ==
  ASSUME RpcInv, GivenUp, Receive, NEW w \in Workers, OneUnderWay(w)
  PROVE  OneUnderWay(w)'
<1>1. /\ step = "recv" /\ step' \in {"read", "free"} /\ Target \in Workers
      /\ respFd' = "linked" /\ Answers # <<>>
      /\ UNCHANGED <<want, cmdq, job>>
  BY TargetIn DEF Receive, Finish, RpcInv, TypeOK, clientVars, workerVars
<1>2. Readable(w)' = respq'[w]
  BY <1>1 DEF Readable, Answers
<1>3. CASE Target = w
  <2>1. /\ cmdq[w] = <<>> /\ job[w] = NoRequest
        /\ \E code \in Codes : Answers = <<[from |-> holder, code |-> code]>>
    BY <1>1, <1>3 DEF OneUnderWay, Readable
  <2>2. Tail(Answers) = <<>>
    BY <2>1
  <2>3. CASE respFd = "linked"
    BY <1>1, <1>2, <1>3, <2>1, <2>2, <2>3 DEF Receive, Answers, OneUnderWay, RpcInv, TypeOK, QueueTypes
  <2>4. CASE respFd # "linked"
    <3>1. respq[w] = <<>> /\ UNCHANGED respq
      BY <1>3, <2>4 DEF Receive, RpcInv, UnlinkedIsGone, TypeOK, ServerTypes
    <3>. QED  BY <1>1, <1>2, <2>1, <3>1 DEF OneUnderWay
  <2>. QED  BY <2>3, <2>4
<1>4. CASE Target # w
  <2>1. cmdq[w] = <<>> /\ job[w] = NoRequest /\ respq[w] = <<>>
    BY <1>4, OnlyAwaited, NothingReadable DEF RpcInv
  <2>2. respq'[w] = respq[w]
    BY <1>1, <1>4 DEF Receive, RpcInv, TypeOK, QueueTypes
  <2>. QED  BY <1>1, <1>2, <2>1, <2>2 DEF OneUnderWay
<1>. QED  BY <1>3, <1>4

\* The server has let go of its request, or a request comes to it.
LEMMA TidyReleased ==
  ASSUME RpcInv, NEW w \in Workers, OneUnderWay(w), ~(step = "recv" /\ Target = w),
         UNCHANGED <<cmdq, job, respq>>, step' # "recv", respFd' = "linked"
  PROVE  OneUnderWay(w)'
<1>1. cmdq[w] = <<>> /\ job[w] = NoRequest /\ respq[w] = <<>>
  BY OnlyAwaited, NothingReadable DEF RpcInv
<1>2. Readable(w)' = respq'[w]
  BY DEF Readable, Answers
<1>. QED  BY <1>1, <1>2 DEF OneUnderWay

LEMMA TidyServer ==
  ASSUME RpcInv, Tidy, GivenUp,
         Server \/ ServerCrash \/ (\E r \in Requests : Connect(r)) \/ UNCHANGED vars
  PROVE  Tidy'
<1> SUFFICES ASSUME NEW w \in Workers, ~Disturbed(w)'
             PROVE  OneUnderWay(w)'
  BY DEF Tidy
<1> USE DEF queueVars, workerVars, serverVars, clientVars, historyVars
<1>0. TypeOK /\ UnlinkedIsGone /\ want' = want /\ OneUnderWay(w)
  BY DisturbedGrows DEF RpcInv, Tidy, Next
<1>1. CASE Put
  BY <1>0, <1>1, TidyPut
<1>2. CASE Receive
  BY <1>0, <1>2, TidyReceive
<1>3. CASE \/ \E r \in Requests : Connect(r)
           \/ UNCHANGED vars
           \/ OpenCommands /\ step' = "put"
  <2>1. /\ UNCHANGED <<cmdq, job, respq, respFd, old, holder>>
        /\ UNCHANGED step \/ (step = "lookup" /\ step' = "put")
    BY <1>3 DEF Connect, vars, OpenCommands, Finish
  <2>2. Readable(w)' = Readable(w) /\ Target' = Target
    BY <1>0, <2>1 DEF Readable, Answers, Target
  <2>. QED  BY <1>0, <2>1, <2>2, KeepsOne
<1>4. CASE \/ \E r \in Requests : Acquire(r)
           \/ OpenResponses
           \/ ReadFile
           \/ OpenCommands /\ step' # "put"
  <2>1. /\ step # "recv" /\ step' # "recv"
        /\ UNCHANGED <<cmdq, job, respq>>
    BY <1>4 DEF Acquire, OpenResponses, ReadFile, OpenCommands, Finish, RpcInv, TypeOK, ServerTypes
  <2>2. respFd' = "linked"
    BY <1>0, <1>4 DEF Acquire, OpenResponses, ReadFile, OpenCommands, Finish, UnlinkedIsGone,
                      TypeOK, ServerTypes
  <2>. QED  BY <1>0, <2>1, <2>2, TidyReleased
<1>5. CASE Timeout \/ ServerCrash
  <2>1. /\ step' = "free" /\ respFd' = "linked" /\ UNCHANGED <<cmdq, job, respq>>
        /\ step = "recv" => holder \in abandoned'
    BY <1>5 DEF Timeout, ServerCrash, Finish
  <2>2. ~(step = "recv" /\ Target = w)
    BY <1>0, <2>1 DEF Disturbed, Target
  <2>. QED  BY <1>0, <2>1, <2>2, TidyReleased
<1>6. CASE OpenCommands
  BY <1>3, <1>4, <1>6
<1>7. CASE Server
  <2>1. (\E r \in Requests : Acquire(r)) \/ OpenResponses \/ OpenCommands \/ Put \/ Receive
          \/ ReadFile \/ Timeout
    BY <1>7 DEF Server
  <2>. QED  BY ONLY <1>1, <1>2, <1>4, <1>5, <1>6, <2>1
<1>8. CASE ServerCrash \/ (\E r \in Requests : Connect(r)) \/ UNCHANGED vars
  BY <1>3, <1>5, <1>8
<1>9. Server \/ ServerCrash \/ (\E r \in Requests : Connect(r)) \/ UNCHANGED vars
  OBVIOUS
<1>. QED  BY ONLY <1>7, <1>8, <1>9

\* A step of one worker touches nothing of the other.
LEMMA OtherUntouched ==
  ASSUME TypeOK, NEW v \in Workers, Worker(v) \/ Exit(v) \/ Crash(v),
         NEW w \in Workers, w # v
  PROVE  /\ UNCHANGED <<want, holder, step>>
         /\ cmdq'[w] = cmdq[w] /\ job'[w] = job[w] /\ Readable(w)' = Readable(w)
<1>1. UNCHANGED <<want, holder, step>>
  BY DEF Worker, Start, Take, Write, Reply, Exit, Crash, clientVars, serverVars
<1>2. cmdq'[w] = cmdq[w] /\ job'[w] = job[w] /\ respq'[w] = respq[w]
  BY DEF Worker, Start, Take, Write, Reply, Exit, Crash, queueVars, workerVars, TypeOK,
         QueueTypes, WorkerTypes
<1>3. Target = w => UNCHANGED <<respFd, old>>
  BY DEF Worker, Start, Take, Write, Reply, Exit, Crash, Unlink, serverVars
<1>. QED  BY <1>1, <1>2, <1>3 DEF Readable, Answers, Target

LEMMA TidyStart ==
  ASSUME RpcInv, NEW w \in Workers, Start(w), OneUnderWay(w)
  PROVE  OneUnderWay(w)'
<1>1. /\ UNCHANGED <<want, holder, step, respFd, old, respq, job>>
      /\ job[w] = NoRequest
      /\ cmdq'[w] = <<>> \/ cmdq'[w] = cmdq[w]
  BY DEF Start, Unlink, clientVars, RpcInv, TypeOK, QueueTypes, WorkerTypes
<1>2. Readable(w)' = Readable(w) /\ Target' = Target
  BY <1>1 DEF Readable, Answers, Target
<1>. QED  BY <1>1, <1>2 DEF OneUnderWay

LEMMA TidyTake ==
  ASSUME RpcInv, NEW w \in Workers, Take(w), OneUnderWay(w)
  PROVE  OneUnderWay(w)'
<1>1. /\ UNCHANGED <<want, holder, step, respFd, old, respq>>
      /\ cmdq[w] # <<>>
      /\ cmdq'[w] = Tail(cmdq[w]) /\ job'[w] = Head(cmdq[w])
  BY DEF Take, clientVars, serverVars, RpcInv, TypeOK, QueueTypes, WorkerTypes
<1>2. Readable(w)' = Readable(w) /\ Target' = Target
  BY <1>1 DEF Readable, Answers, Target
<1>3. Head(<<holder>>) = holder /\ Tail(<<holder>>) = <<>>
  OBVIOUS
<1>. QED  BY <1>1, <1>2, <1>3 DEF OneUnderWay

LEMMA TidyWriteCrash ==
  ASSUME RpcInv, NEW w \in Workers, Write(w) \/ Crash(w), OneUnderWay(w)
  PROVE  OneUnderWay(w)'
<1>1. /\ UNCHANGED <<want, holder, step, respFd, old, respq, cmdq>>
      /\ job'[w] = NoRequest \/ job'[w] = job[w]
  BY DEF Write, Crash, clientVars, serverVars, queueVars, RpcInv, TypeOK, WorkerTypes
<1>2. Readable(w)' = Readable(w) /\ Target' = Target
  BY <1>1 DEF Readable, Answers, Target
<1>. QED  BY <1>1, <1>2 DEF OneUnderWay

\* An undisturbed worker sends one answer, to a queue the server can read.
LEMMA OneReply ==
  ASSUME RpcInv, NEW w \in Workers, ~Disturbed(w), Reply(w), OneUnderWay(w)
  PROVE  /\ UNCHANGED <<want, holder, step, cmdq>> /\ Target' = Target
         /\ step = "recv" /\ Target = w /\ wpc[w] = "reply"
         /\ cmdq[w] = <<>> /\ job[w] = holder /\ job'[w] = NoRequest
         /\ left[w] \in Seq(Codes) /\ left[w] # <<>>
         /\ Readable(w)' \in {<<>>, <<[from |-> holder, code |-> Head(left[w])]>>}
<1>1. /\ UNCHANGED <<want, holder, step, respFd, old, cmdq>>
      /\ wpc[w] = "reply" /\ job[w] # NoRequest
      /\ left[w] \in Seq(Codes) /\ left[w] # <<>>
  BY DEF Reply, clientVars, serverVars, RpcInv, TypeOK, WorkerTypes
<1>2. /\ step = "recv" /\ Target = w
      /\ cmdq[w] = <<>> /\ job[w] = holder /\ Readable(w) = <<>>
  BY <1>1 DEF OneUnderWay
<1>3. job'[w] = NoRequest
  <2>1. Len(left[w]) <= 1 + Doubles(w) /\ Doubles(w) \in Nat
    BY <1>1, Numbers DEF RpcInv, PendingBounded, Pending
  <2>2. ~(Doubles(w) > 0)
    BY DEF Disturbed
  <2>3. ~(Len(left[w]) > 1)
    BY <1>1, <2>1, <2>2
  <2>. QED  BY <2>3 DEF Reply, RpcInv, TypeOK, WorkerTypes
<1>4. Target' = Target /\ Readable(w)' = IF respFd = "linked" THEN respq'[w] ELSE old
  BY <1>1, <1>2 DEF Readable, Answers, Target
<1>5. CASE ~respNamed[w]
  <2>1. UNCHANGED respq
    BY <1>5 DEF Reply
  <2>2. Readable(w)' = <<>>
    BY <1>1, <1>2, <1>4, <2>1 DEF Readable, Answers
  <2>. QED  BY <1>1, <1>2, <1>3, <1>4, <2>2
<1>6. CASE respNamed[w]
  <2>1. respFd = "linked"
    BY <1>2, <1>6 DEF RpcInv, UnlinkedIsGone, TypeOK, ServerTypes
  <2>2. respq[w] = <<>>
    BY <1>2, <2>1 DEF Readable, Answers
  <2>3. Readable(w)' = <<[from |-> holder, code |-> Head(left[w])]>>
    <3>1. Append(<<>>, [from |-> holder, code |-> Head(left[w])])
            = <<[from |-> holder, code |-> Head(left[w])]>>
      OBVIOUS
    <3>2. respq'[w] = Append(respq[w], [from |-> holder, code |-> Head(left[w])])
      BY <1>2, <1>6 DEF Reply, RpcInv, TypeOK, QueueTypes
    <3>. QED  BY <1>4, <2>1, <2>2, <3>1, <3>2
  <2>. QED  BY <1>1, <1>2, <1>3, <1>4, <2>3
<1>. QED  BY <1>5, <1>6

LEMMA TidyReply ==
  ASSUME RpcInv, NEW w \in Workers, ~Disturbed(w), Reply(w), OneUnderWay(w)
  PROVE  OneUnderWay(w)'
<1>1. /\ UNCHANGED <<want, holder, step, cmdq>> /\ Target' = Target
      /\ step = "recv" /\ Target = w /\ cmdq[w] = <<>> /\ job'[w] = NoRequest
      /\ Readable(w)' \in {<<>>, <<[from |-> holder, code |-> Head(left[w])]>>}
      /\ Head(left[w]) \in Codes
  BY OneReply
<1>. QED  BY <1>1 DEF OneUnderWay

LEMMA TidyExit ==
  ASSUME RpcInv, NEW w \in Workers, Exit(w), OneUnderWay(w)
  PROVE  OneUnderWay(w)'
<1>1. /\ UNCHANGED <<want, holder, step, job>>
      /\ job[w] = NoRequest
      /\ cmdq'[w] = <<>> /\ respq'[w] = <<>>
  BY DEF Exit, clientVars, RpcInv, TypeOK, WorkerTypes, QueueTypes
<1>2. Target' = Target
  BY <1>1 DEF Target
<1>3. Readable(w)' = <<>> \/ Readable(w)' = Readable(w)
  <2>1. CASE step = "free" \/ Target # w
    BY <1>1, <1>2, <2>1 DEF Readable
  <2>2. CASE step # "free" /\ Target = w
    BY <1>1, <1>2, <2>2 DEF Readable, Answers, Exit, Unlink, RpcInv, UnlinkedIsGone, TypeOK,
                            ServerTypes
  <2>. QED  BY <2>1, <2>2
<1>. QED  BY <1>1, <1>2, <1>3 DEF OneUnderWay

LEMMA TidyWorker ==
  ASSUME RpcInv, Tidy, NEW v \in Workers, Worker(v) \/ Exit(v) \/ Crash(v)
  PROVE  Tidy'
<1> SUFFICES ASSUME NEW w \in Workers, ~Disturbed(w)'
             PROVE  OneUnderWay(w)'
  BY DEF Tidy
<1>1. ~Disturbed(w) /\ OneUnderWay(w)
  BY DisturbedGrows DEF RpcInv, Tidy, Next
<1>2. CASE w # v
  <2>1. /\ UNCHANGED <<want, holder, step>>
        /\ cmdq'[w] = cmdq[w] /\ job'[w] = job[w] /\ Readable(w)' = Readable(w)
    BY <1>2, OtherUntouched DEF RpcInv
  <2>2. Target' = Target
    BY <2>1 DEF Target
  <2>. QED  BY <1>1, <2>1, <2>2, KeepsOne
<1>3. CASE w = v
  BY <1>1, <1>3, TidyStart, TidyTake, TidyWriteCrash, TidyReply, TidyExit DEF Worker
<1>. QED  BY <1>2, <1>3

\* A request is given up only while its client waits, and is answered then.
LEMMA GivenUpFinish ==
  ASSUME TypeOK, GivenUp, step # "free", NEW res \in Result, Finish(res),
         \/ UNCHANGED abandoned
         \/ abandoned' = abandoned \cup {holder} /\ res = NoResult
  PROVE  GivenUp'
<1>1. holder \in Requests /\ client[holder] = "waiting" /\ holder \notin abandoned
  BY TargetIn DEF TypeOK, GivenUp
<1>2. /\ client' = [client EXCEPT ![holder] = "done"]
      /\ result' = [result EXCEPT ![holder] = res]
      /\ step' = "free" /\ old' = <<>>
  BY DEF Finish
<1>3. ASSUME NEW r \in abandoned'
      PROVE  client'[r] = "done" /\ result'[r].from = NoRequest
  <2>1. r \in Requests
    BY <1>1 DEF TypeOK, HistoryTypes
  <2>. QED  BY <1>1, <1>2, <2>1 DEF GivenUp, TypeOK, ClientTypes, NoResult
<1>4. ASSUME NEW r \in Requests, client'[r] # "done"
      PROVE  result'[r] = NoResult
  BY <1>1, <1>2, <1>4 DEF GivenUp, TypeOK, ClientTypes
<1>. QED  BY <1>2, <1>3, <1>4 DEF GivenUp

LEMMA GivenUpReceive ==
  ASSUME TypeOK, GivenUp, Receive
  PROVE  GivenUp'
<1>1. step = "recv" /\ UNCHANGED abandoned /\ Answers # <<>>
  BY DEF Receive, historyVars
<1>2. CASE want[holder].list
  BY <1>1, <1>2 DEF Receive, GivenUp, clientVars
<1>3. CASE ~want[holder].list
  <2> DEFINE res == [from |-> Head(Answers).from, code |-> Head(Answers).code, body |-> NoListing]
  <2>1. Head(Answers) \in Answer
    BY <1>1, AnswersType
  <2>2. res \in Result
    BY <2>1, ResultTypes
  <2>3. Finish(res)
    BY <1>3 DEF Receive
  <2> HIDE DEF res
  <2>. QED  BY <1>1, <2>2, <2>3, GivenUpFinish
<1>. QED  BY <1>2, <1>3

LEMMA GivenUpStep ==
  ASSUME TypeOK, UnlinkedIsGone, GivenUp, [Next]_vars
  PROVE  GivenUp'
<1>1. ASSUME NEW r \in Requests, Connect(r) \/ Acquire(r)
      PROVE  GivenUp'
  BY <1>1 DEF Connect, Acquire, GivenUp, TypeOK, ClientTypes, ServerTypes, HistoryTypes, clientVars,
              serverVars, historyVars
<1>2. CASE OpenResponses \/ Put
  BY <1>2 DEF OpenResponses, Put, GivenUp, UnlinkedIsGone, TypeOK, ServerTypes, clientVars, historyVars
<1>3. CASE OpenCommands
  <2>1. CASE Finish(NoResult)
    BY <1>3, <2>1, ResultTypes, GivenUpFinish DEF OpenCommands, historyVars
  <2>2. CASE ~Finish(NoResult)
    BY <1>3, <2>2 DEF OpenCommands, GivenUp, clientVars, historyVars
  <2>. QED  BY <2>1, <2>2
<1>4. CASE Receive
  BY <1>4, GivenUpReceive
<1>5. CASE ReadFile
  BY <1>5, ResultTypes, GivenUpFinish DEF ReadFile, historyVars
<1>6. CASE Timeout
  BY <1>6, ResultTypes, GivenUpFinish DEF Timeout
<1>7. CASE ServerCrash
  BY <1>7 DEF ServerCrash, GivenUp, TypeOK, ClientTypes, ServerTypes, HistoryTypes, NoResult
<1>8. ASSUME NEW w \in Workers, Worker(w) \/ Exit(w) \/ Crash(w)
      PROVE  GivenUp'
  BY <1>8 DEF Worker, Start, Take, Write, Reply, Exit, Crash, Unlink, GivenUp, clientVars, serverVars,
              historyVars
<1>9. CASE UNCHANGED vars
  BY <1>9 DEF vars, GivenUp
<1>. QED  BY <1>1, <1>2, <1>3, <1>4, <1>5, <1>6, <1>7, <1>8, <1>9 DEF Next, Server

\* An answer that is received at an undisturbed worker is the holder's own.
LEMMA ReceivedIsOwn ==
  ASSUME TypeOK, Tidy, Receive
  PROVE  Head(Answers).from = holder \/ Disturbed(Target)
<1> SUFFICES ASSUME ~Disturbed(Target)
             PROVE  Head(Answers).from = holder
  OBVIOUS
<1>1. Target \in Workers /\ step = "recv" /\ Answers # <<>>
  BY TargetIn DEF Receive, TypeOK
<1>2. OneUnderWay(Target)
  BY <1>1 DEF Tidy
<1>3. PICK code \in Codes : Answers = <<[from |-> holder, code |-> code]>>
  BY <1>1, <1>2 DEF OneUnderWay, Readable
<1>. QED  BY <1>3

LEMMA OwnStep ==
  ASSUME TypeOK, Tidy, OwnOrDisturbed, [Next]_vars
  PROVE  OwnOrDisturbed'
<1>0. want' = want /\ \A w \in Workers : Disturbed(w) => Disturbed(w)'
  BY DisturbedGrows
<1>1. CASE UNCHANGED <<result, holder, step, got>>
  <2>1. Target' = Target /\ (step # "free" => Target \in Workers)
    BY <1>0, <1>1, TargetIn DEF Target, TypeOK
  <2>2. \A r \in Requests : want[r].to \in Workers
    BY DEF TypeOK, ClientTypes
  <2>. QED  BY <1>0, <1>1, <2>1, <2>2 DEF OwnOrDisturbed
<1>2. CASE step' # "read" /\ UNCHANGED result
  <2>1. \A r \in Requests : want[r].to \in Workers
    BY DEF TypeOK, ClientTypes
  <2>. QED  BY <1>0, <1>2, <2>1 DEF OwnOrDisturbed
<1>3. ASSUME NEW res \in Result, Finish(res), step # "free",
             res.from \in {holder, NoRequest} \/ Disturbed(Target)
      PROVE  OwnOrDisturbed'
  <2>1. holder \in Requests /\ Target \in Workers
    BY <1>3, TargetIn DEF TypeOK
  <2>2. ASSUME NEW r \in Requests, result'[r].from \notin {r, NoRequest}
        PROVE  Disturbed(want[r].to)
    BY <1>3, <2>1, <2>2 DEF Finish, TypeOK, ClientTypes, OwnOrDisturbed, Target
  <2>3. \A r \in Requests : want[r].to \in Workers
    BY DEF TypeOK, ClientTypes
  <2>. QED  BY <1>0, <1>3, <2>2, <2>3 DEF OwnOrDisturbed, Finish
<1>4. CASE Receive
  <2>1. Head(Answers) \in Answer /\ step = "recv" /\ Target \in Workers
    BY <1>4, AnswersType, TargetIn DEF Receive, TypeOK
  <2>2. Head(Answers).from = holder \/ Disturbed(Target)
    BY <1>4, ReceivedIsOwn
  <2>3. CASE want[holder].list
    <3>1. UNCHANGED <<result, holder>> /\ got' = Head(Answers) /\ Target' = Target
      BY <1>0, <1>4, <2>3 DEF Receive, clientVars, Target
    <3>2. \A r \in Requests : want[r].to \in Workers
      BY DEF TypeOK, ClientTypes
    <3>. QED  BY <1>0, <2>1, <2>2, <3>1, <3>2 DEF OwnOrDisturbed
  <2>4. CASE ~want[holder].list
    <3> DEFINE res == [from |-> Head(Answers).from, code |-> Head(Answers).code, body |-> NoListing]
    <3>1. Finish(res)
      BY <1>4, <2>4 DEF Receive
    <3>2. res \in Result /\ (res.from = holder \/ Disturbed(Target))
      BY <2>1, <2>2, ResultTypes
    <3> HIDE DEF res
    <3>. QED  BY <1>3, <2>1, <3>1, <3>2
  <2>. QED  BY <2>3, <2>4
<1>5. CASE ReadFile
  <2> DEFINE res == [from |-> got.from, code |-> got.code, body |-> out]
  <2>1. Finish(res) /\ res \in Result /\ step = "read"
    BY <1>5, ResultTypes DEF ReadFile
  <2>2. res.from = holder \/ Disturbed(Target)
    BY <2>1 DEF OwnOrDisturbed
  <2> HIDE DEF res
  <2>. QED  BY <1>3, <2>1, <2>2
<1>6. CASE OpenCommands \/ Timeout
  <2>1. step # "free" /\ (Finish(NoResult) \/ (step' = "put" /\ UNCHANGED result))
    BY <1>6 DEF OpenCommands, Timeout, clientVars
  <2>2. NoResult \in Result /\ NoResult.from = NoRequest
    BY ResultTypes DEF NoResult
  <2>. QED  BY <1>2, <1>3, <2>1, <2>2
<1>7. CASE (\E r \in Requests : Acquire(r)) \/ OpenResponses \/ Put \/ ServerCrash
  BY <1>2, <1>7 DEF Acquire, OpenResponses, Put, ServerCrash, clientVars
<1>8. CASE \/ \E r \in Requests : Connect(r)
           \/ \E w \in Workers : Worker(w) \/ Exit(w) \/ Crash(w)
           \/ UNCHANGED vars
  BY <1>1, <1>8 DEF Connect, Worker, Start, Take, Write, Reply, Exit, Crash, clientVars, serverVars, vars
<1>. QED  BY <1>4, <1>5, <1>6, <1>7, <1>8 DEF Next, Server

OwnInv == Tidy /\ GivenUp /\ OwnOrDisturbed

LEMMA OwnInvariant == Spec => []OwnInv
<1>1. Init => OwnInv
  <2> SUFFICES ASSUME Init PROVE OwnInv
    OBVIOUS
  <2>1. Tidy
    BY DEF Init, Tidy, OneUnderWay, Readable
  <2>. QED  BY <2>1 DEF Init, OwnInv, GivenUp, OwnOrDisturbed, NoResult
<1>2. RpcInv /\ OwnInv /\ [Next]_vars => OwnInv'
  <2> SUFFICES ASSUME RpcInv, OwnInv, [Next]_vars PROVE OwnInv'
    OBVIOUS
  <2>1. Tidy'
    BY TidyServer, TidyWorker DEF OwnInv, Next
  <2>2. GivenUp' /\ OwnOrDisturbed'
    BY GivenUpStep, OwnStep DEF OwnInv, RpcInv
  <2>. QED  BY <2>1, <2>2 DEF OwnInv
<1>. QED  BY RpcInvariant, <1>1, <1>2, PTL DEF Spec

\* A client gets an answer to another command only after one to the same
\* worker was given up or answered twice.
THEOREM AnswersAreOwn == Spec => []OwnAnswer
<1>1. OwnInv => OwnAnswer
  <2> SUFFICES ASSUME OwnInv, NEW r \in Requests, result[r].from \notin {r, NoRequest},
                      ~(Doubles(want[r].to) > 0)
               PROVE  \E q \in abandoned \ {r} : want[q].to = want[r].to
    BY DEF OwnAnswer
  <2>1. PICK q \in abandoned : want[q].to = want[r].to
    BY DEF OwnInv, OwnOrDisturbed, Disturbed
  <2>2. q # r
    BY DEF OwnInv, GivenUp
  <2>. QED  BY <2>1, <2>2
<1>. QED  BY OwnInvariant, <1>1, PTL
----------------------------------------------------------------------------
LEMMA QuietBefore ==
  ASSUME TypeOK, [Next]_vars, Quiet'
  PROVE  Quiet
<1>1. misses \in [Workers -> Nat] /\ misses' \in [Workers -> Nat]
  <2>1. misses \in [Workers -> Nat]
    BY RpcAssumption DEF TypeOK, HistoryTypes
  <2>2. UNCHANGED misses \/ \E v \in Workers : misses' = [misses EXCEPT ![v] = @ + 1]
    BY DEF Next, Server, ServerCrash, Connect, Acquire, OpenResponses, OpenCommands, Put, Receive,
           ReadFile, Timeout, Worker, Start, Take, Write, Reply, Exit, Crash, vars, historyVars
  <2>. QED  BY <2>1, <2>2
<1>. QED  BY <1>1, DisturbedGrows DEF Quiet

\* In the quiet, everything under way is of the request the server waits for.
LEMMA QuietIsTidy ==
  ASSUME TypeOK, Tidy, Quiet, NEW w \in Workers
  PROVE  ~Disturbed(w) /\ OneUnderWay(w)
BY DEF Tidy, Disturbed, Doubles, Quiet

\* So the worker that works works for it, and no other worker does.
LEMMA OneWorks ==
  ASSUME TypeOK, Tidy, Quiet, NEW w \in Workers, cmdq[w] # <<>> \/ job[w] # NoRequest
  PROVE  /\ step = "recv" /\ Target = w /\ Answers = <<>>
         /\ \A v \in Workers : v # w => wpc[v] # "reply"
<1>1. step = "recv" /\ Target = w /\ Readable(w) = <<>>
  BY QuietIsTidy DEF OneUnderWay
<1>2. ASSUME NEW v \in Workers, v # w
      PROVE  wpc[v] # "reply"
  BY <1>1, <1>2, QuietIsTidy DEF OneUnderWay, TypeOK, WorkerTypes
<1>. QED  BY <1>1, <1>2 DEF Readable

\* Only the end of proc takes a listing away, and is remembered.
LEMMA KeptServer ==
  ASSUME RpcInv, Tidy, ListingKept, Quiet,
         Server \/ ServerCrash \/ (\E r \in Requests : Connect(r)) \/ UNCHANGED vars
  PROVE  ListingKept'
<1>1. UNCHANGED <<want, wpc, job, left, out, downs>>
  BY DEF Server, ServerCrash, Connect, Acquire, OpenResponses, OpenCommands, Put, Receive,
         ReadFile, Timeout, Finish, vars, clientVars, workerVars, historyVars
<1>2. \A w \in Workers :
        wpc'[w] = "reply" /\ want'[job'[w]].list => left'[w] = <<"failure">> \/ Listed(job[w])'
  BY <1>1 DEF ListingKept, Listed
<1>3. CASE step' \notin {"recv", "read"}
  BY <1>2, <1>3 DEF ListingKept
<1>4. CASE UNCHANGED <<holder, step, respFd, old, got, respq>>
  <2>1. UNCHANGED <<Answers, holder, step, got>> /\ (Listed(holder) => Listed(holder)')
    BY <1>1, <1>4 DEF Answers, Target, Listed
  <2>. QED  BY <1>1, <1>2, <2>1 DEF ListingKept
<1>5. CASE Put
  <2>1. Target \in Workers /\ step = "put" /\ step' = "recv"
    BY <1>5, TargetIn DEF Put, RpcInv, TypeOK
  <2>2. Answers = <<>>
    BY <2>1, QuietIsTidy DEF RpcInv, OneUnderWay, Readable
  <2>3. Answers' = Answers
    BY <1>5 DEF Put, clientVars, Answers, Target
  <2>. QED  BY <1>2, <2>1, <2>2, <2>3 DEF ListingKept
<1>6. CASE Receive
  <2>1. CASE want[holder].list
    <3>1. step = "recv" /\ step' = "read" /\ Answers # <<>> /\ UNCHANGED holder /\ got' = Head(Answers)
      BY <1>6, <2>1 DEF Receive
    <3>2. Listed(holder) => Listed(holder)'
      BY <1>1, <3>1 DEF Listed
    <3>. QED  BY <1>1, <1>2, <2>1, <3>1, <3>2 DEF ListingKept
  <2>2. CASE ~want[holder].list
    BY <1>3, <1>6, <2>2 DEF Receive, Finish
  <2>. QED  BY <2>1, <2>2
<1>7. CASE OpenCommands \/ ReadFile \/ Timeout \/ ServerCrash \/ OpenResponses
           \/ \E r \in Requests : Acquire(r)
  BY <1>3, <1>7 DEF OpenCommands, ReadFile, Timeout, ServerCrash, OpenResponses, Acquire, Finish
<1>8. CASE (\E r \in Requests : Connect(r)) \/ UNCHANGED vars
  BY <1>4, <1>8 DEF Connect, vars, serverVars, queueVars
<1>. QED  BY <1>5, <1>6, <1>7, <1>8 DEF Server

LEMMA KeptWorker ==
  ASSUME RpcInv, Tidy, ListingKept, Quiet, Quiet',
         NEW w \in Workers, Worker(w) \/ Exit(w) \/ Crash(w)
  PROVE  ListingKept'
<1> USE DEF RpcInv
<1>0. /\ UNCHANGED <<want, holder, step, got>> /\ Target' = Target
      /\ \A v \in Workers : v # w => wpc'[v] = wpc[v] /\ job'[v] = job[v] /\ left'[v] = left[v]
  BY DEF Worker, Start, Take, Write, Reply, Exit, Crash, clientVars, serverVars, Target, workerVars,
         TypeOK, WorkerTypes
<1>1. CASE Take(w)
  <2>1. /\ step = "recv" /\ Target = w /\ Answers = <<>>
        /\ \A v \in Workers : v # w => wpc[v] # "reply"
    BY <1>1, OneWorks DEF Take
  <2>2. Answers' = Answers
    BY <1>0, <1>1 DEF Take, Answers, serverVars
  <2>3. wpc'[w] = "reply" /\ want[job'[w]].list => left'[w] = <<"failure">>
    <3>1. misses'[w] = 0 /\ misses[w] = 0
      BY DEF Quiet
    <3>2. UNCHANGED misses
      BY <1>1, <3>1 DEF Take, TypeOK, HistoryTypes
    <3>. QED  BY <1>1, <3>1, <3>2 DEF Take, TypeOK, WorkerTypes, HistoryTypes
  <2>. QED  BY <1>0, <2>1, <2>2, <2>3 DEF ListingKept
<1>2. CASE Write(w)
  <2>1. job[w] # NoRequest
    BY <1>2 DEF Write, TypeOK, WorkerTypes
  <2>2. /\ step = "recv" /\ Target = w /\ Answers = <<>>
        /\ \A v \in Workers : v # w => wpc[v] # "reply"
    BY <2>1, OneWorks
  <2>3. Answers' = Answers
    BY <1>0, <1>2 DEF Write, Answers, serverVars, queueVars
  <2>4. out' = [of |-> job'[w], whole |-> TRUE]
    BY <1>2 DEF Write
  <2>. QED  BY <1>0, <2>2, <2>3, <2>4 DEF ListingKept, Listed
<1>3. CASE Reply(w)
  <2>1. ~Disturbed(w) /\ OneUnderWay(w)
    BY QuietIsTidy
  <2>2. /\ step = "recv" /\ Target = w /\ wpc[w] = "reply" /\ job[w] = holder /\ job'[w] = NoRequest
        /\ left[w] \in Seq(Codes) /\ left[w] # <<>>
        /\ Readable(w)' \in {<<>>, <<[from |-> holder, code |-> Head(left[w])]>>}
    BY <1>3, <2>1, OneReply
  <2>3. /\ UNCHANGED <<out, downs>>
        /\ wpc'[w] # "reply" /\ \A v \in Workers : v # w => wpc[v] # "reply"
    <3>1. job[w] # NoRequest
      BY <2>2 DEF TypeOK, WorkerTypes
    <3>2. ~(Len(left[w]) > 1)
      BY <1>3, <2>2, <3>1 DEF Reply
    <3>. QED  BY <1>3, <3>1, <3>2, OneWorks DEF Reply, historyVars, TypeOK, WorkerTypes
  <2>4. Answers' = Readable(w)'
    BY <1>0, <2>2 DEF Readable
  <2>5. want[holder].list => Head(left[w]) = "failure" \/ Listed(holder)
    BY <2>2 DEF ListingKept
  <2>. QED  BY <1>0, <2>2, <2>3, <2>4, <2>5 DEF ListingKept, Listed
<1>4. CASE Exit(w)
  <2>1. out' = NoListing /\ downs' > 0
    BY <1>4, RpcAssumption DEF Exit, TypeOK, HistoryTypes
  <2>2. step = "read" => want[holder].list
    BY DEF ListingKept
  <2>. QED  BY <1>0, <2>1, <2>2 DEF ListingKept, Listed
<1>5. CASE Start(w) \/ Crash(w)
  <2>1. UNCHANGED <<out, respq, respFd, old>> /\ (downs > 0 => downs' > 0) /\ wpc'[w] # "reply"
    BY <1>5, RpcAssumption DEF Start, Crash, Unlink, TypeOK, WorkerTypes, HistoryTypes, serverVars, queueVars,
                               historyVars
  <2>2. Answers' = Answers /\ \A r \in Requests \cup {NoRequest} : Listed(r) => Listed(r)'
    BY <1>0, <2>1 DEF Answers, Listed
  <2>3. holder \in Requests \cup {NoRequest} /\ \A v \in Workers : job[v] \in Requests \cup {NoRequest}
    BY DEF TypeOK, ServerTypes, WorkerTypes
  <2>4. \A v \in Workers :
          wpc'[v] = "reply" /\ want'[job'[v]].list => left'[v] = <<"failure">> \/ Listed(job[v])'
    BY <1>0, <2>1 DEF ListingKept, Listed
  <2>. QED  BY <1>0, <2>1, <2>2, <2>3, <2>4 DEF ListingKept
<1>. QED  BY <1>1, <1>2, <1>3, <1>4, <1>5 DEF Worker

\* The body of a listing that succeeds is what the file holds at that time.
LEMMA ListingFinish ==
  ASSUME TypeOK, Quiet, OwnListing, step # "free", NEW res \in Result, Finish(res),
         UNCHANGED <<out, downs>>,
         want[holder].list => res.code = "failure" \/ (res.body = out /\ Listed(holder))
  PROVE  OwnListing'
<1> SUFFICES ASSUME NEW r \in Requests, result'[r].code = "success", want[r].list
             PROVE  \/ result'[r].body = [of |-> r, whole |-> TRUE]
                    \/ result'[r].body = NoListing /\ downs' > 0
  BY DEF OwnListing, Finish
<1>1. holder \in Requests
  BY TargetIn DEF TypeOK
<1>2. CASE r = holder
  BY <1>1, <1>2 DEF Finish, Listed, TypeOK, ClientTypes
<1>3. CASE r # holder
  BY <1>1, <1>3 DEF Finish, OwnListing, Quiet, TypeOK, ClientTypes
<1>. QED  BY <1>2, <1>3

LEMMA ListingStep ==
  ASSUME TypeOK, ListingKept, Quiet, OwnListing, [Next]_vars
  PROVE  OwnListing'
<1>0. want' = want /\ (downs > 0 => downs' > 0)
  <2>1. downs \in Nat
    BY RpcAssumption DEF TypeOK, HistoryTypes
  <2>2. UNCHANGED downs \/ downs' = downs + 1
    BY DEF Next, Server, ServerCrash, Connect, Acquire, OpenResponses, OpenCommands, Put, Receive,
           ReadFile, Timeout, Worker, Start, Take, Write, Reply, Exit, Crash, vars, historyVars
  <2>. QED  BY <2>1, <2>2, DisturbedGrows
<1>1. CASE UNCHANGED result
  BY <1>0, <1>1 DEF OwnListing, Quiet
<1>2. CASE OpenCommands \/ Timeout
  <2>1. Finish(NoResult) \/ UNCHANGED result
    BY <1>2 DEF OpenCommands, Timeout, clientVars
  <2>2. NoResult \in Result /\ NoResult.code = "failure"
    BY ResultTypes DEF NoResult
  <2>3. step # "free" /\ UNCHANGED <<out, downs>>
    BY <1>2 DEF OpenCommands, Timeout, historyVars
  <2>. QED  BY <1>1, <2>1, <2>2, <2>3, ListingFinish
<1>3. CASE Receive
  <2>1. CASE want[holder].list
    BY <1>1, <1>3, <2>1 DEF Receive, clientVars
  <2>2. CASE ~want[holder].list
    <3> DEFINE res == [from |-> Head(Answers).from, code |-> Head(Answers).code, body |-> NoListing]
    <3>1. Head(Answers) \in Answer /\ step # "free" /\ UNCHANGED <<out, downs>>
      BY <1>3, AnswersType DEF Receive, historyVars
    <3>2. res \in Result /\ Finish(res)
      BY <1>3, <2>2, <3>1, ResultTypes DEF Receive
    <3> HIDE DEF res
    <3>. QED  BY <2>2, <3>1, <3>2, ListingFinish
  <2>. QED  BY <2>1, <2>2
<1>4. CASE ReadFile
  <2> DEFINE res == [from |-> got.from, code |-> got.code, body |-> out]
  <2>1. res \in Result /\ Finish(res) /\ step # "free" /\ UNCHANGED <<out, downs>>
    BY <1>4, ResultTypes DEF ReadFile, historyVars
  <2>2. res.body = out /\ (res.code = "failure" \/ Listed(holder))
    BY <1>4 DEF ReadFile, ListingKept
  <2> HIDE DEF res
  <2>. QED  BY <2>1, <2>2, ListingFinish
<1>5. CASE \/ \E r \in Requests : Connect(r) \/ Acquire(r)
           \/ OpenResponses
           \/ Put
           \/ ServerCrash
           \/ \E w \in Workers : Worker(w) \/ Exit(w) \/ Crash(w)
           \/ UNCHANGED vars
  BY <1>1, <1>5 DEF Connect, Acquire, OpenResponses, Put, ServerCrash, Worker, Start, Take, Write,
                    Reply, Exit, Crash, clientVars, vars
<1>. QED  BY <1>2, <1>3, <1>4, <1>5 DEF Next, Server

\* As long as nothing was given up and no listing missed its file, a listing
\* answered with success is the client's own and whole, or proc has removed it.
THEOREM ListingsAreOwn == Spec => []OwnListing
<1>1. Init => ListingKept /\ OwnListing
  BY DEF Init, ListingKept, OwnListing, NoResult
<1>2. RpcInv /\ OwnInv /\ ListingKept /\ OwnListing /\ [Next]_vars => ListingKept' /\ OwnListing'
  <2> SUFFICES ASSUME RpcInv, OwnInv, ListingKept, OwnListing, [Next]_vars
               PROVE  ListingKept' /\ OwnListing'
    OBVIOUS
  <2>1. CASE ~Quiet'
    BY <2>1 DEF ListingKept, OwnListing, Quiet
  <2>2. CASE Quiet'
    <3>1. Quiet
      BY <2>2, QuietBefore DEF RpcInv
    <3>2. ListingKept'
      BY <2>2, <3>1, KeptServer, KeptWorker DEF OwnInv, Next
    <3>. QED  BY <3>1, <3>2, ListingStep DEF RpcInv
  <2>. QED  BY <2>1, <2>2
<1>. QED  BY RpcInvariant, OwnInvariant, <1>1, <1>2, PTL DEF Spec
============================================================================
