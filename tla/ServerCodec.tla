---------------------------- MODULE ServerCodec -----------------------------
(***************************************************************************)
(* One miner's JSON-RPC connection (server/stratum/codec.go, server.go):   *)
(* the loop of net/rpc that reads requests, a goroutine per request, and   *)
(* the proxy's Run, which writes jobs on the same encoder.                 *)
(*                                                                         *)
(* net/rpc is external: it holds its mutex `sending` around WriteResponse  *)
(* and, when reading fails, waits for the requests in flight before it     *)
(* closes the codec.  Notify and the loop's own error replies do not take  *)
(* `sending`.  Each Encode is one Write of the socket, which the socket    *)
(* does not mix with another, and an Encode after a failed one fails too.  *)
(***************************************************************************)
EXTENDS Naturals, Sequences

CONSTANTS
  Ids,      \* the ids the miner gives its requests; it may use one twice
  MaxSeq,   \* bound: requests of one connection
  MaxJobs   \* bound: jobs of one connection

NoId == "noId"     \* the message has no id
Null == "null"     \* the JSON value null
Nobody == 0

ASSUME CodecAssumption ==
  /\ MaxSeq \in Nat /\ MaxJobs \in Nat
  /\ NoId \notin Ids /\ Null \notin Ids

VARIABLES
  seq,       \* DefaultServerCodec.seq
  pending,   \* DefaultServerCodec.pending
  loop,      \* control state of ServeCodec
  call,      \* control state of the request with each sequence number
  respId,    \* the id WriteResponse has looked up
  sending,   \* holder of the mutex of net/rpc
  run,       \* Run: none (before the login), idle, notify (writing), stopped
  jobs,      \* the jobs it has begun to write
  miner,     \* external: reading, stalled (does not read), gone, closed (by us)
  encErr,    \* the encoder has failed
  out,       \* what was written to the socket
  sentId     \* history: the id each request came with

codecVars == <<seq, pending>>
callVars == <<call, respId, sending>>
runVars == <<run, jobs>>
outVars == <<out, encErr>>
vars == <<codecVars, loop, callVars, runVars, miner, outVars, sentId>>

Seqs == 1 .. MaxSeq
RequestIds == Ids \cup {NoId, Null}

Pending == INSTANCE KeyMap WITH Keys <- Seqs, Values <- RequestIds, content <- pending

\* How a saved id is written: the nil pointer of a request without an id is kept
\* in an interface value, which is not nil, and is written as null.
WrittenId(id) == IF id = NoId THEN Null ELSE id

\* What goes to the miner: answers, error replies of the loop, and jobs.
Answer(k, id) == [kind |-> "answer", seq |-> k, id |-> id]
ErrorReply == [kind |-> "error", seq |-> Nobody, id |-> Null]
JobMessage == [kind |-> "job", seq |-> Nobody, id |-> NoId]

Messages ==
  [kind : {"answer"}, seq : Seqs, id : Ids \cup {Null}] \cup {ErrorReply, JobMessage}

LoopStates == {"read", "reply", "badMessage", "wait", "closed"}
CallStates == {"none", "running", "reply", "encode", "done"}

\* The variables have the types of the code's.
CodecTypeOK ==
  /\ seq \in 0 .. MaxSeq
  /\ DOMAIN pending \subseteq 1 .. seq
  /\ \A k \in DOMAIN pending : pending[k] \in RequestIds
  /\ loop \in LoopStates
  /\ call \in [Seqs -> CallStates] /\ respId \in RequestIds
  /\ sending \in 0 .. MaxSeq
  /\ run \in {"none", "idle", "notify", "stopped"} /\ jobs \in 0 .. MaxJobs
  /\ miner \in {"reading", "stalled", "gone", "closed"} /\ encErr \in BOOLEAN
  /\ out \in Seq(Messages)
  /\ sentId \in [Seqs -> RequestIds]

\* NewDefaultServerCodec, then ServeCodec.
CodecInit ==
  /\ seq = 0 /\ Pending!MapInit
  /\ loop = "read"
  /\ call = [k \in Seqs |-> "none"] /\ respId = NoId /\ sending = Nobody
  /\ run = "none" /\ jobs = 0
  /\ miner = "reading" /\ encErr = FALSE /\ out = <<>>
  /\ sentId = [k \in Seqs |-> NoId]

\* json.Encoder.Encode: the message reaches the socket, or the write fails and
\* every later one with it.  A miner that does not read blocks the write.
Encode(m) ==
  \/ encErr /\ UNCHANGED outVars
  \/ ~encErr /\ miner \in {"reading", "gone"} /\ out' = Append(out, m) /\ UNCHANGED encErr
  \/ ~encErr /\ miner \in {"gone", "closed"} /\ encErr' = TRUE /\ UNCHANGED out

-----------------------------------------------------------------------------
(* The loop that reads requests.                                           *)

\* Mutant of ReadRequest: the id is saved before seq is counted up.
ReadRequestEarly ==
  /\ loop = "read" /\ miner \in {"reading", "stalled"} /\ seq < MaxSeq
  /\ seq' = seq + 1
  /\ \E id \in RequestIds : /\ pending' = Pending!With(seq, id)
                            /\ sentId' = [sentId EXCEPT ![seq'] = id]
  /\ call' = [call EXCEPT ![seq'] = "running"]
  /\ UNCHANGED <<loop, respId, sending, runVars, miner, outVars>>

\* ReadRequestHeader of a request: it gets the next sequence number and its id is
\* kept in pending.  A known method with params that fit starts a goroutine
\* (ReadRequestBody); for any other the loop sends an error answer itself.
ReadRequest ==
  /\ loop = "read" /\ miner \in {"reading", "stalled"} /\ seq < MaxSeq
  /\ seq' = seq + 1
  /\ \E id \in RequestIds : /\ pending' = Pending!With(seq', id)
                            /\ sentId' = [sentId EXCEPT ![seq'] = id]
  /\ \/ call' = [call EXCEPT ![seq'] = "running"] /\ UNCHANGED loop
     \/ call' = [call EXCEPT ![seq'] = "reply"] /\ loop' = "reply"
  /\ UNCHANGED <<respId, sending, runVars, miner, outVars>>

\* The read fails: malformed JSON, a value that is no request, end of file, the
\* read deadline.  Every one of them is answered with an error reply.
ReadFails ==
  /\ loop = "read" /\ loop' = "badMessage"
  /\ UNCHANGED <<codecVars, callVars, runVars, miner, outVars, sentId>>

ErrorReplied ==
  /\ loop = "badMessage" /\ loop' = "wait"
  /\ Encode(ErrorReply)
  /\ UNCHANGED <<codecVars, callVars, runVars, miner, sentId>>

\* Mutant of Close: the requests in flight are not waited for.
CloseAtOnce ==
  /\ loop = "wait"
  /\ loop' = "closed" /\ miner' = "closed"
  /\ UNCHANGED <<codecVars, callVars, runVars, outVars, sentId>>

\* After the loop ServeCodec waits for its goroutines and closes the codec.
Close ==
  /\ loop = "wait" /\ \A k \in Seqs : call[k] \in {"none", "done"}
  /\ loop' = "closed" /\ miner' = "closed"
  /\ UNCHANGED <<codecVars, callVars, runVars, outVars, sentId>>

-----------------------------------------------------------------------------
(* The requests.                                                           *)

\* Mining.Login starts Run before it returns.
LoginStartsRun(k) ==
  /\ call[k] = "running" /\ run = "none" /\ run' = "idle"
  /\ UNCHANGED <<codecVars, loop, callVars, jobs, miner, outVars, sentId>>

\* A service method returns, with a result or an error.
MethodReturns(k) ==
  /\ call[k] = "running"
  /\ call' = [call EXCEPT ![k] = "reply"]
  /\ UNCHANGED <<codecVars, loop, respId, sending, runVars, miner, outVars, sentId>>

\* Mutant of WriteResponse: the entry of pending is not deleted.
WriteResponseKeeps(k) ==
  /\ call[k] = "reply" /\ sending = Nobody /\ sending' = k
  /\ respId' = pending[k]
  /\ call' = [call EXCEPT ![k] = "encode"]
  /\ UNCHANGED <<codecVars, loop, runVars, miner, outVars, sentId>>

\* Mutant of WriteResponse: it answers under the id of the request read last.
WriteResponseLatest(k) ==
  /\ call[k] = "reply" /\ sending = Nobody /\ sending' = k
  /\ respId' = sentId[seq] /\ pending' = Pending!Without(k)
  /\ call' = [call EXCEPT ![k] = "encode"]
  /\ UNCHANGED <<seq, loop, runVars, miner, outVars, sentId>>

\* sendResponse takes `sending`; WriteResponse takes the id out of pending.  (A
\* number that is not in pending is an error and nothing is written.)
WriteResponse(k) ==
  /\ call[k] = "reply" /\ sending = Nobody
  /\ IF k \in DOMAIN pending
       THEN /\ sending' = k
            /\ respId' = pending[k] /\ pending' = Pending!Without(k)
            /\ call' = [call EXCEPT ![k] = "encode"]
       ELSE /\ call' = [call EXCEPT ![k] = "done"]
            /\ UNCHANGED <<pending, respId, sending>>
  /\ UNCHANGED <<seq, loop, runVars, miner, outVars, sentId>>

\* Mutant of ResponseWritten: a failed Encode returns with `sending` held.
ResponseWrittenHolds(k) ==
  /\ call[k] = "encode"
  /\ Encode(Answer(k, WrittenId(respId)))
  /\ call' = [call EXCEPT ![k] = "done"]
  /\ sending' = IF encErr' THEN sending ELSE Nobody
  /\ loop' = IF loop = "reply" /\ k = seq THEN "read" ELSE loop
  /\ UNCHANGED <<codecVars, respId, runVars, miner, sentId>>

\* WriteResponse encodes; its error is only logged.  The loop goes on reading
\* when it was the loop that answered.
ResponseWritten(k) ==
  /\ call[k] = "encode"
  /\ Encode(Answer(k, WrittenId(respId)))
  /\ call' = [call EXCEPT ![k] = "done"] /\ sending' = Nobody
  /\ loop' = IF loop = "reply" /\ k = seq THEN "read" ELSE loop
  /\ UNCHANGED <<codecVars, respId, runVars, miner, sentId>>

-----------------------------------------------------------------------------
(* The jobs, and the miner.                                                *)

NewJob ==
  /\ run = "idle" /\ jobs < MaxJobs
  /\ run' = "notify" /\ jobs' = jobs + 1
  /\ UNCHANGED <<codecVars, loop, callVars, miner, outVars, sentId>>

\* Notify encodes the job; when that fails NewJob disconnects the miner.
Notified ==
  /\ run = "notify"
  /\ Encode(JobMessage)
  /\ IF encErr' THEN run' = "stopped" /\ miner' = "closed"
                ELSE run' = "idle" /\ UNCHANGED miner
  /\ UNCHANGED <<codecVars, loop, callVars, jobs, sentId>>

\* Run ends, and may close the miner's socket (Worker.Close).
RunEnds ==
  /\ run = "idle" /\ run' = "stopped"
  /\ miner' \in {miner, "closed"}
  /\ UNCHANGED <<codecVars, loop, callVars, jobs, outVars, sentId>>

\* External: the miner stops reading, reads again, or leaves.
MinerChanges ==
  /\ miner \in {"reading", "stalled"}
  /\ miner' \in {"reading", "stalled", "gone"} \ {miner}
  /\ UNCHANGED <<codecVars, loop, callVars, runVars, outVars, sentId>>

CodecNext ==
  \/ ReadRequest \/ ReadFails \/ ErrorReplied \/ Close
  \/ \E k \in Seqs : \/ LoginStartsRun(k) \/ MethodReturns(k)
                     \/ WriteResponse(k) \/ ResponseWritten(k)
  \/ NewJob \/ Notified \/ RunEnds \/ MinerChanges

\* A goroutine that can run does; a mutex is handed to its waiters, and a write
\* that was blocked goes on whenever the miner reads.  A method need not return
\* and the miner need not read, send or leave.
CodecSpec ==
  /\ CodecInit /\ [][CodecNext]_vars
  /\ SF_vars(ErrorReplied) /\ WF_vars(Close) /\ SF_vars(Notified)
  /\ \A k \in Seqs : SF_vars(WriteResponse(k)) /\ SF_vars(ResponseWritten(k))

-----------------------------------------------------------------------------
(* Properties.                                                             *)

Answered(k) == \E i \in DOMAIN out : out[i].seq = k

\* The answers of concurrent requests are not mixed up: each request gets at most
\* one, and one that came with an id gets it under this id, whatever was read or
\* written in between.
AnswersMatch ==
  \A i \in DOMAIN out : out[i].kind = "answer" =>
    /\ sentId[out[i].seq] # NoId => out[i].id = sentId[out[i].seq]
    /\ \A j \in DOMAIN out : out[j].seq = out[i].seq => j = i

\* "Notification. Do not respond." (WriteResponse): a request that came without an
\* id gets no answer.
NotificationsUnanswered ==
  \A i \in DOMAIN out : out[i].kind = "answer" => sentId[out[i].seq] # NoId

\* No request is lost or kept: pending has exactly the requests that are not yet
\* answered, and one that came with an id and is gone from it was written, is being
\* written, or found the connection broken.  So a connection closes with all of
\* them settled, also when a malformed message or a deadline ended it.
PendingInFlight ==
  /\ DOMAIN pending = {k \in Seqs : call[k] \in {"running", "reply"}}
  /\ \A k \in 1 .. seq : sentId[k] # NoId =>
       k \in DOMAIN pending \/ sending = k \/ Answered(k) \/ encErr
  /\ loop = "closed" => pending = [k \in {} |-> NoId]

\* Once reading has failed the connection is closed and SpawnWorker goes on to
\* disconnect, provided that the methods in flight return and the miner does not
\* stop reading for good: a write has no deadline.
ServeEnds ==
  /\ []<>(miner # "stalled")
  /\ \A k \in Seqs : []<>(call[k] # "running")
  => (loop = "badMessage" ~> loop = "closed")
=============================================================================
