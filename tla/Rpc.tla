-------------------------------- MODULE Rpc --------------------------------
(***************************************************************************)
(* Commands from clients to the two workers.  The server (main.rs, rpc.rs) *)
(* handles one request at a time, under a mutex: it opens the response     *)
(* queue of the worker, sends the command, waits for an answer of which it *)
(* only learns the code, and for a listing reads the output file that both *)
(* workers write.  The workers (proc.c, fs.c) take commands from their     *)
(* queue, write the listing, and send their answer.  Queues outlive the    *)
(* processes that use them; only proc unlinks its own.                     *)
(***************************************************************************)
EXTENDS Naturals, Sequences

CONSTANTS
  Requests,   \* the commands clients send
  NoRequest,
  Workers,    \* the workers of the instance, among "proc" and "fs"
  Cap,        \* messages a queue holds: 10 in the code
  MaxMisses,  \* bound on the listings whose file cannot be opened
  MaxDowns    \* bound on the crashes and exits

ASSUME RpcAssumption ==
  /\ NoRequest \notin Requests
  /\ Workers \subseteq {"proc", "fs"}
  /\ Cap \in Nat \ {0}
  /\ MaxMisses \in Nat
  /\ MaxDowns \in Nat

VARIABLES
  want,       \* what each request asks: its worker, and whether it is a listing
  client,     \* how far each client is
  result,     \* what each client got
  holder,     \* the request that holds the mutex
  step,       \* where the server is with it
  sendFd,     \* the command queue the server has open: linked, unlinked, full
  respFd,     \* the response queue it has open: linked, or unlinked
  old,        \* the messages of an unlinked response queue it has open
  got,        \* the answer to a listing, before the file is read
  cmdq,       \* the command queue of each worker, by name
  respq,      \* the response queue of each worker, by name
  cmdNamed,   \* whether there is a command queue of that name
  respNamed,  \* whether there is a response queue of that name
  wpc,        \* where each worker is
  job,        \* the command it handles
  left,       \* the answers it has still to send for it
  out,        \* the output file
  abandoned,  \* history: requests given up after their command was sent
  misses,     \* history: listings of a worker whose file could not be opened
  cuts,       \* history: crashes of the server
  downs       \* history: crashes and exits of workers

serverVars == <<holder, step, sendFd, respFd, old, got>>
clientVars == <<want, client, result>>
queueVars == <<cmdq, respq, cmdNamed, respNamed>>
workerVars == <<wpc, job, left>>
historyVars == <<abandoned, misses, cuts, downs>>
vars == <<want, client, result, holder, step, sendFd, respFd, old, got, cmdq, respq,
          cmdNamed, respNamed, wpc, job, left, out, abandoned, misses, cuts, downs>>

\* CMD_SUCCESS, and the codes of failures, which the server does not tell apart.
Codes == {"success", "failure"}

Answer == [from : Requests, code : Codes]
NoAnswer == [from |-> NoRequest, code |-> "failure"]

\* The output file holds the listing of a request, whole or just opened.
NoListing == [of |-> NoRequest, whole |-> FALSE]
Listing == [of : Requests, whole : BOOLEAN] \cup {NoListing}

Result == [from : Requests \cup {NoRequest}, code : Codes, body : Listing]
NoResult == [from |-> NoRequest, code |-> "failure", body |-> NoListing]

Target == want[holder].to

\* The answers the server can read from the queue it has open.
Answers == IF respFd = "linked" THEN respq[Target] ELSE old

Init ==
  /\ want \in [Requests -> [to : Workers, list : BOOLEAN]]
  /\ client = [r \in Requests |-> "new"]
  /\ result = [r \in Requests |-> NoResult]
  /\ holder = NoRequest /\ step = "free"
  /\ sendFd = "linked" /\ respFd = "linked" /\ old = <<>> /\ got = NoAnswer
  /\ cmdq = [w \in Workers |-> <<>>] /\ respq = [w \in Workers |-> <<>>]
  /\ cmdNamed = [w \in Workers |-> FALSE] /\ respNamed = [w \in Workers |-> FALSE]
  /\ wpc = [w \in Workers |-> "down"]
  /\ job = [w \in Workers |-> NoRequest]
  /\ left = [w \in Workers |-> <<>>]
  /\ out = NoListing
  /\ abandoned = {} /\ misses = [w \in Workers |-> 0] /\ cuts = 0 /\ downs = 0
----------------------------------------------------------------------------
(* The server.                                                              *)

Connect(r) ==
  /\ client[r] = "new"
  /\ client' = [client EXCEPT ![r] = "waiting"]
  /\ UNCHANGED <<want, result, serverVars, queueVars, workerVars, out, historyVars>>

\* rpc.lock().
Acquire(r) ==
  /\ client[r] = "waiting" /\ holder = NoRequest
  /\ holder' = r /\ step' = "open"
  /\ UNCHANGED <<clientVars, sendFd, respFd, old, got, queueVars, workerVars, out, historyVars>>

\* open_response_queue creates the queue if there is none of that name.
OpenResponses ==
  /\ step = "open"
  /\ respNamed' = [respNamed EXCEPT ![Target] = TRUE]
  /\ respFd' = "linked"
  /\ step' = "lookup"
  /\ UNCHANGED <<clientVars, holder, sendFd, old, got, cmdq, respq, cmdNamed, workerVars,
                 out, historyVars>>

\* The answer goes to the client and the mutex is released.
Finish(res) ==
  /\ client' = [client EXCEPT ![holder] = "done"]
  /\ result' = [result EXCEPT ![holder] = res]
  /\ holder' = NoRequest /\ step' = "free"
  /\ sendFd' = "linked" /\ respFd' = "linked" /\ old' = <<>> /\ got' = NoAnswer
  /\ UNCHANGED want

\* send_command_to opens the command queue, which the worker must have created.
OpenCommands ==
  /\ step = "lookup"
  /\ \/ /\ ~cmdNamed[Target]
        /\ Finish(NoResult)
     \/ /\ cmdNamed[Target]
        /\ step' = "put" /\ sendFd' = "linked"
        /\ UNCHANGED <<clientVars, holder, respFd, old, got>>
  /\ UNCHANGED <<queueVars, workerVars, out, historyVars>>

\* Mutant: the command is appended to a full queue.
PutUnbounded ==
  /\ step = "put" /\ sendFd # "full"
  /\ cmdq' = IF sendFd = "linked" THEN [cmdq EXCEPT ![Target] = Append(@, holder)] ELSE cmdq
  /\ step' = "recv" /\ sendFd' = "linked"
  /\ UNCHANGED <<clientVars, holder, respFd, old, got, respq, cmdNamed, respNamed,
                 workerVars, out, historyVars>>

\* mq_send waits for room.  What goes to an unlinked queue is lost.
Put ==
  /\ step = "put"
  /\ \/ /\ sendFd = "linked" /\ Len(cmdq[Target]) < Cap
        /\ cmdq' = [cmdq EXCEPT ![Target] = Append(@, holder)]
     \/ /\ sendFd = "unlinked"
        /\ UNCHANGED cmdq
  /\ step' = "recv" /\ sendFd' = "linked"
  /\ UNCHANGED <<clientVars, holder, respFd, old, got, respq, cmdNamed, respNamed,
                 workerVars, out, historyVars>>

\* Mutant: the answer is read but stays in the queue.
ReceiveWithoutRemoving ==
  /\ step = "recv" /\ Answers # <<>>
  /\ IF want[holder].list
     THEN /\ got' = Head(Answers) /\ step' = "read"
          /\ respFd' = "linked" /\ old' = <<>>
          /\ UNCHANGED <<clientVars, holder, sendFd>>
     ELSE Finish([from |-> Head(Answers).from, code |-> Head(Answers).code, body |-> NoListing])
  /\ UNCHANGED <<queueVars, workerVars, out, historyVars>>

\* receive_response_from_fd takes the first answer there is, whosever it is.
Receive ==
  /\ step = "recv" /\ Answers # <<>>
  /\ IF respFd = "linked"
     THEN respq' = [respq EXCEPT ![Target] = Tail(@)]
     ELSE UNCHANGED respq
  /\ LET a == Head(Answers)
     IN  IF want[holder].list
         THEN /\ got' = a /\ step' = "read"
              /\ respFd' = "linked" /\ old' = <<>>
              /\ UNCHANGED <<clientVars, holder, sendFd>>
         ELSE Finish([from |-> a.from, code |-> a.code, body |-> NoListing])
  /\ UNCHANGED <<cmdq, cmdNamed, respNamed, workerVars, out, historyVars>>

\* The listing is whatever the output file holds, nothing if it is missing.
ReadFile ==
  /\ step = "read"
  /\ Finish([from |-> got.from, code |-> got.code, body |-> out])
  /\ UNCHANGED <<queueVars, workerVars, out, historyVars>>

\* Mutant: an empty queue is polled again, whatever the deadline.
PollForever == step = "recv" /\ Answers = <<>> /\ UNCHANGED vars

\* RESPONSE_TIMEOUT is over and the queue is still empty.
Timeout ==
  /\ step = "recv" /\ Answers = <<>>
  /\ abandoned' = abandoned \cup {holder}
  /\ Finish(NoResult)
  /\ UNCHANGED <<queueVars, workerVars, out, misses, cuts, downs>>

\* The server dies and its service starts it again: the clients that wait get
\* an error, the queues stay as they are.
ServerCrash ==
  /\ holder # NoRequest /\ cuts + downs < MaxDowns
  /\ cuts' = cuts + 1
  /\ abandoned' = IF step = "recv" THEN abandoned \cup {holder} ELSE abandoned
  /\ client' = [r \in Requests |-> IF client[r] = "waiting" THEN "done" ELSE client[r]]
  /\ holder' = NoRequest /\ step' = "free"
  /\ sendFd' = "linked" /\ respFd' = "linked" /\ old' = <<>> /\ got' = NoAnswer
  /\ UNCHANGED <<want, result, queueVars, workerVars, out, misses, downs>>
----------------------------------------------------------------------------
(* The workers.                                                             *)

\* What the server has open when the queues of w lose their names.
Unlink(w, both) ==
  LET sends == step = "put" /\ Target = w /\ sendFd = "linked"
      reads == both /\ step \in {"lookup", "put", "recv"} /\ Target = w
                    /\ respFd = "linked"
  IN  /\ sendFd' = IF sends THEN IF Len(cmdq[w]) < Cap THEN "unlinked" ELSE "full" ELSE sendFd
      /\ respFd' = IF reads THEN "unlinked" ELSE respFd
      /\ old' = IF reads THEN respq[w] ELSE old

\* proc unlinks the command queue of its predecessor; fs opens the one there is.
Start(w) ==
  /\ wpc[w] = "down"
  /\ wpc' = [wpc EXCEPT ![w] = "idle"]
  /\ cmdNamed' = [cmdNamed EXCEPT ![w] = TRUE]
  /\ IF w = "proc"
     THEN Unlink(w, FALSE) /\ cmdq' = [cmdq EXCEPT ![w] = <<>>]
     ELSE UNCHANGED <<sendFd, respFd, old, cmdq>>
  /\ UNCHANGED <<clientVars, holder, step, got, respq, respNamed, job, left, out, historyVars>>

\* Mutant: fs, like proc, answers an error and then success.
TwoAnswers(w) == <<"failure", "success">>

\* If the output file cannot be opened, proc answers the error and then
\* success; fs answers success.
AnswersOnMiss(w) == IF w = "proc" THEN <<"failure", "success">> ELSE <<"success">>

\* One turn of the loop: a command is taken and answered at once (start, stop,
\* anything invalid), or its listing is begun.
Take(w) ==
  /\ wpc[w] = "idle" /\ cmdq[w] # <<>>
  /\ cmdq' = [cmdq EXCEPT ![w] = Tail(@)]
  /\ job' = [job EXCEPT ![w] = Head(cmdq[w])]
  /\ \/ /\ \E code \in Codes :
             /\ want[Head(cmdq[w])].list => code = "failure"
             /\ left' = [left EXCEPT ![w] = <<code>>]
        /\ wpc' = [wpc EXCEPT ![w] = "reply"]
        /\ UNCHANGED <<out, misses>>
     \/ /\ want[Head(cmdq[w])].list
        /\ wpc' = [wpc EXCEPT ![w] = "write"]
        /\ out' = [of |-> Head(cmdq[w]), whole |-> FALSE]
        /\ UNCHANGED <<left, misses>>
     \/ /\ want[Head(cmdq[w])].list /\ misses[w] < MaxMisses
        /\ misses' = [misses EXCEPT ![w] = @ + 1]
        /\ left' = [left EXCEPT ![w] = AnswersOnMiss(w)]
        /\ wpc' = [wpc EXCEPT ![w] = "reply"]
        /\ UNCHANGED out
  /\ UNCHANGED <<clientVars, serverVars, respq, cmdNamed, respNamed, abandoned, cuts, downs>>

\* Mutant: the answer is sent while the lines are still in the stream's buffer.
WriteUnflushed(w) ==
  /\ wpc[w] = "write"
  /\ left' = [left EXCEPT ![w] = <<"success">>]
  /\ wpc' = [wpc EXCEPT ![w] = "reply"]
  /\ UNCHANGED <<clientVars, serverVars, queueVars, job, out, historyVars>>

\* fclose: the lines of the listing reach the file.
Write(w) ==
  /\ wpc[w] = "write"
  /\ out' = [of |-> job[w], whole |-> TRUE]
  /\ left' = [left EXCEPT ![w] = <<"success">>]
  /\ wpc' = [wpc EXCEPT ![w] = "reply"]
  /\ UNCHANGED <<clientVars, serverVars, queueVars, job, historyVars>>

\* send_response: mq_send waits for room; without a queue nothing is sent.
Reply(w) ==
  /\ wpc[w] = "reply"
  /\ \/ /\ respNamed[w] /\ Len(respq[w]) < Cap
        /\ respq' = [respq EXCEPT ![w] = Append(@, [from |-> job[w], code |-> Head(left[w])])]
     \/ /\ ~respNamed[w]
        /\ UNCHANGED respq
  /\ left' = [left EXCEPT ![w] = Tail(@)]
  /\ IF Len(left[w]) > 1
     THEN UNCHANGED <<wpc, job>>
     ELSE /\ wpc' = [wpc EXCEPT ![w] = "idle"]
          /\ job' = [job EXCEPT ![w] = NoRequest]
  /\ UNCHANGED <<clientVars, serverVars, cmdq, cmdNamed, respNamed, out, historyVars>>

\* A signal: proc leaves its loop, unlinks its queues and removes the file.
Exit(w) ==
  /\ w = "proc" /\ wpc[w] = "idle" /\ cuts + downs < MaxDowns
  /\ downs' = downs + 1
  /\ wpc' = [wpc EXCEPT ![w] = "down"]
  /\ Unlink(w, TRUE)
  /\ cmdq' = [cmdq EXCEPT ![w] = <<>>] /\ cmdNamed' = [cmdNamed EXCEPT ![w] = FALSE]
  /\ respq' = [respq EXCEPT ![w] = <<>>] /\ respNamed' = [respNamed EXCEPT ![w] = FALSE]
  /\ out' = NoListing
  /\ UNCHANGED <<clientVars, holder, step, got, job, left, abandoned, misses, cuts>>

\* A worker dies, fs also of a signal: the queues stay as they are.
Crash(w) ==
  /\ wpc[w] # "down" /\ cuts + downs < MaxDowns
  /\ downs' = downs + 1
  /\ wpc' = [wpc EXCEPT ![w] = "down"]
  /\ job' = [job EXCEPT ![w] = NoRequest]
  /\ left' = [left EXCEPT ![w] = <<>>]
  /\ UNCHANGED <<clientVars, serverVars, queueVars, out, abandoned, misses, cuts>>
----------------------------------------------------------------------------
Server ==
  \/ \E r \in Requests : Acquire(r)
  \/ OpenResponses \/ OpenCommands \/ Put \/ Receive \/ ReadFile \/ Timeout

Worker(w) == Start(w) \/ Take(w) \/ Write(w) \/ Reply(w)

Next ==
  \/ \E r \in Requests : Connect(r)
  \/ Server
  \/ ServerCrash
  \/ \E w \in Workers : Worker(w) \/ Exit(w) \/ Crash(w)

\* The server and each worker are scheduled and do what they can; services are
\* restarted always.
Spec == Init /\ [][Next]_vars /\ WF_vars(Server) /\ \A w \in Workers : WF_vars(Worker(w))
----------------------------------------------------------------------------
ClientTypes ==
  /\ want \in [Requests -> [to : Workers, list : BOOLEAN]]
  /\ client \in [Requests -> {"new", "waiting", "done"}]
  /\ result \in [Requests -> Result]

ServerTypes ==
  /\ holder \in Requests \cup {NoRequest}
  /\ step \in {"free", "open", "lookup", "put", "recv", "read"}
  /\ holder = NoRequest <=> step = "free"
  /\ sendFd \in {"linked", "unlinked", "full"} /\ respFd \in {"linked", "unlinked"}
  /\ old \in Seq(Answer)
  /\ got \in Answer \cup {NoAnswer}

QueueTypes ==
  /\ cmdq \in [Workers -> Seq(Requests)] /\ \A w \in Workers : Len(cmdq[w]) <= Cap
  /\ respq \in [Workers -> Seq(Answer)] /\ \A w \in Workers : Len(respq[w]) <= Cap
  /\ cmdNamed \in [Workers -> BOOLEAN] /\ respNamed \in [Workers -> BOOLEAN]

WorkerTypes ==
  /\ wpc \in [Workers -> {"down", "idle", "write", "reply"}]
  /\ job \in [Workers -> Requests \cup {NoRequest}]
  /\ left \in [Workers -> Seq(Codes)]
  /\ \A w \in Workers : /\ job[w] = NoRequest <=> wpc[w] \in {"down", "idle"}
                        /\ left[w] = <<>> <=> wpc[w] # "reply"
  /\ out \in Listing

HistoryTypes ==
  /\ abandoned \subseteq Requests
  /\ misses \in [Workers -> 0..MaxMisses]
  /\ cuts \in 0..MaxDowns /\ downs \in 0..MaxDowns

\* Every variable has its type, no queue is longer than its capacity, and a
\* worker has answers to send exactly while it replies to a command.
TypeOK == ClientTypes /\ ServerTypes /\ QueueTypes /\ WorkerTypes /\ HistoryTypes

\* Answers sent in excess of one for each command.
Doubles(w) == IF w = "proc" THEN misses[w] ELSE 0

\* A client gets the answer to its own command (handle_command takes the first
\* message it finds) unless another command to that worker was given up before
\* it was answered, or the worker answered one twice.
OwnAnswer ==
  \A r \in Requests :
    result[r].from \notin {r, NoRequest} =>
      \/ \E q \in abandoned \ {r} : want[q].to = want[r].to
      \/ Doubles(want[r].to) > 0

\* As long as no command was given up and every listing found its file, a
\* listing answered with success is the client's own and whole, although both
\* workers write one file; it is empty only if proc removed the file meanwhile.
OwnListing ==
  abandoned = {} /\ (\A w \in Workers : misses[w] = 0) =>
    \A r \in Requests :
      result[r].code = "success" /\ want[r].list =>
        \/ result[r].body = [of |-> r, whole |-> TRUE]
        \/ result[r].body = NoListing /\ downs > 0

\* The server waits for room for a command, and w for room for an answer.
CircularWait(w) ==
  /\ step = "put" /\ Target = w /\ sendFd = "linked" /\ Len(cmdq[w]) = Cap
  /\ wpc[w] = "reply" /\ respNamed[w] /\ Len(respq[w]) = Cap

\* However many commands time out or are lost, the server and a worker never
\* wait for each other: the server gives up only when it finds the response
\* queue empty.  It takes as many double answers and server crashes as a queue
\* is long.
NoCircularWait == \A w \in Workers : CircularWait(w) => Doubles(w) + cuts >= Cap

\* Every client is answered, unless the server waits for ever: for room in a
\* queue that proc has unlinked, or in a circular wait.
ServerStuck ==
  step = "put" /\ (sendFd = "full" \/ \E w \in Workers : CircularWait(w))
ClientsAnswered ==
  \A r \in Requests : client[r] = "waiting" ~> client[r] = "done" \/ ServerStuck
----------------------------------------------------------------------------
(* Why NoCircularWait holds: what is under way between the server and w.    *)

\* Answers w has still to send for the command it handles.
Pending(w) == IF wpc[w] = "write" THEN 1 ELSE Len(left[w])

\* Commands not yet handled and answers not yet received.
InFlight(w) == Len(cmdq[w]) + Pending(w) + Len(respq[w])

Awaited(w) == IF step = "recv" /\ Target = w THEN 1 ELSE 0

PendingBounded == \A w \in Workers : Pending(w) <= 1 + Doubles(w)

InFlightBounded ==
  \A w \in Workers : InFlight(w) <= Cap + 1 + Awaited(w) + Doubles(w) + cuts

\* The server has an unlinked response queue open only while there is none of
\* that name, and no answers are sent by then.
UnlinkedIsGone ==
  /\ \A w \in Workers : ~respNamed[w] => respq[w] = <<>>
  /\ respFd = "unlinked" => step \in {"lookup", "put", "recv"} /\ ~respNamed[Target]
----------------------------------------------------------------------------
(* Why OwnAnswer and OwnListing hold: unless something disturbs w, nothing  *)
(* is under way there but the one command the server waits for.             *)

\* A command to w was given up, or w answered one twice.
Disturbed(w) == (\E q \in abandoned : want[q].to = w) \/ Doubles(w) > 0

\* The answers of w that the server can still read.
Readable(w) == IF step # "free" /\ Target = w THEN Answers ELSE respq[w]

\* The command the server waits for is in one place at most: queued, in the
\* hands of the worker, or answered.
OneUnderWay(w) ==
  \/ cmdq[w] = <<>> /\ job[w] = NoRequest /\ Readable(w) = <<>>
  \/ /\ step = "recv" /\ Target = w
     /\ \/ cmdq[w] = <<holder>> /\ job[w] = NoRequest /\ Readable(w) = <<>>
        \/ cmdq[w] = <<>> /\ job[w] = holder /\ Readable(w) = <<>>
        \/ /\ cmdq[w] = <<>> /\ job[w] = NoRequest
           /\ \E code \in Codes : Readable(w) = <<[from |-> holder, code |-> code]>>

Tidy == \A w \in Workers : ~Disturbed(w) => OneUnderWay(w)

\* A request that was given up has no answer and gets none later, and the
\* queue the server has open has messages of its own only if it is unlinked.
GivenUp ==
  /\ \A r \in abandoned : client[r] = "done" /\ result[r].from = NoRequest
  /\ \A r \in Requests : client[r] # "done" => result[r] = NoResult
  /\ step # "free" => client[holder] = "waiting"
  /\ respFd = "linked" => old = <<>>

\* What the server holds or gave to clients is their own, unless disturbed.
OwnOrDisturbed ==
  /\ step = "read" => got.from = holder \/ Disturbed(Target)
  /\ \A r \in Requests : result[r].from \notin {r, NoRequest} => Disturbed(want[r].to)

\* The listing of r is in the file, or proc has removed the file since.
Listed(r) == out = [of |-> r, whole |-> TRUE] \/ (out = NoListing /\ downs > 0)

Quiet == abandoned = {} /\ \A w \in Workers : misses[w] = 0

\* The listing whose success is to be sent, was sent, or was received is there.
ListingKept ==
  Quiet =>
    /\ \A w \in Workers :
         wpc[w] = "reply" /\ want[job[w]].list => left[w] = <<"failure">> \/ Listed(job[w])
    /\ step = "recv" /\ want[holder].list /\ Answers # <<>> =>
         Head(Answers).code = "failure" \/ Listed(holder)
    /\ step = "read" => want[holder].list /\ (got.code = "failure" \/ Listed(holder))
============================================================================
