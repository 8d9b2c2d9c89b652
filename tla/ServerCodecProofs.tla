-------------------------- MODULE ServerCodecProofs -------------------------
(***************************************************************************)
(* Proofs about a miner's JSON-RPC connection, for any number of requests  *)
(* and jobs and any ids: answers go out once and under their own id, and   *)
(* no request is lost from the table of pending ones or kept in it.        *)
(***************************************************************************)
EXTENDS ServerCodec, TLAPS

\* The table of pending requests and the goroutines of the requests agree.  The
\* loop gives out sequence numbers in order, and whoever holds `sending` has the id
\* of its own request in hand.
TableInv ==
  /\ pending \in [DOMAIN pending -> RequestIds]
  /\ DOMAIN pending = {k \in Seqs : call[k] \in {"running", "reply"}}
  /\ \A k \in DOMAIN pending : pending[k] = sentId[k]
  /\ \A k \in Seqs : call[k] = "none" <=> k > seq
  /\ \A k \in Seqs : call[k] = "encode" <=> sending = k
  /\ sending # Nobody => respId = sentId[sending]
  /\ loop = "closed" => \A k \in Seqs : call[k] \in {"none", "done"}

\* What was written: an answer belongs to a request that is done, has the id of
\* that request and is its only one; a request that is done has an answer, unless
\* the encoder has failed.
OutInv ==
  /\ \A i \in DOMAIN out : out[i].kind = "answer" =>
       out[i].id = WrittenId(sentId[out[i].seq]) /\ call[out[i].seq] = "done"
  /\ \A i, j \in DOMAIN out : out[i].kind = "answer" /\ out[j].seq = out[i].seq => i = j
  /\ \A k \in Seqs : call[k] = "done" => encErr \/ Answered(k)

CodecInv == CodecTypeOK /\ TableInv /\ OutInv

USE CodecAssumption DEF Nobody

-----------------------------------------------------------------------------
(* What the steps are made of.                                             *)

\* A message that is written comes after all others and changes none of them.
LEMMA Appended ==
  ASSUME NEW s \in Seq(Messages), NEW m \in Messages
  PROVE  /\ Append(s, m) \in Seq(Messages)
         /\ DOMAIN Append(s, m) = DOMAIN s \cup {Len(s) + 1}
         /\ Len(s) + 1 \notin DOMAIN s
         /\ \A i \in DOMAIN s : Append(s, m)[i] = s[i]
         /\ Append(s, m)[Len(s) + 1] = m
  OBVIOUS

\* Encode writes the message or finds the encoder failed.
LEMMA EncodeCases ==
  ASSUME CodecTypeOK, NEW m, Encode(m)
  PROVE  /\ \/ out' = out /\ encErr' = TRUE
            \/ out' = Append(out, m) /\ encErr' = encErr
         /\ encErr => encErr'
         /\ encErr' \in BOOLEAN
  BY DEF Encode, outVars, CodecTypeOK

\* Everything that is written is a message, and only an answer has the number of a
\* request.
LEMMA MessageTypes ==
  /\ ErrorReply \in Messages /\ JobMessage \in Messages
  /\ \A k \in Seqs, id \in RequestIds : Answer(k, WrittenId(id)) \in Messages
  /\ \A m \in Messages : m.kind = "answer" <=> m.seq \in Seqs
<1>1. ErrorReply \in Messages /\ JobMessage \in Messages
  BY DEF Messages
<1>2. \A k \in Seqs, id \in RequestIds : Answer(k, WrittenId(id)) \in Messages
  BY DEF Answer, WrittenId, Messages, RequestIds
<1>3. \A m \in Messages : m.kind = "answer" <=> m.seq \in Seqs
  BY DEF Messages, ErrorReply, JobMessage, Seqs
<1> QED
  BY <1>1, <1>2, <1>3

\* A step that touches neither requests nor ids keeps OutInv when it writes nothing
\* or a message that is no answer.
LEMMA OtherWrites ==
  ASSUME CodecTypeOK, OutInv, UNCHANGED <<call, sentId>>,
         NEW m \in {ErrorReply, JobMessage}, Encode(m)
  PROVE  OutInv' /\ out' \in Seq(Messages) /\ encErr' \in BOOLEAN
<1>1. m \in Messages /\ m.kind # "answer" /\ m.seq = 0
  BY MessageTypes DEF ErrorReply, JobMessage
<1>2. out \in Seq(Messages)
  BY DEF CodecTypeOK
<1>3. encErr' \in BOOLEAN /\ (encErr => encErr')
  BY EncodeCases
<1>4. CASE out' = out /\ encErr' = TRUE
  BY <1>2, <1>3, <1>4 DEF OutInv
<1>5. CASE out' = Append(out, m) /\ encErr' = encErr
  <2> DEFINE n == Len(out) + 1
  <2>1. /\ out' \in Seq(Messages) /\ DOMAIN out' = DOMAIN out \cup {n} /\ n \notin DOMAIN out
        /\ \A i \in DOMAIN out : out'[i] = out[i]
        /\ out'[n] = m
    BY <1>1, <1>2, <1>5, Appended
  <2> HIDE DEF n
  <2>2. \A i \in DOMAIN out' : out'[i].kind = "answer" => i \in DOMAIN out
    BY <1>1, <2>1
  <2>3. \A i \in DOMAIN out' : out'[i].kind = "answer" =>
          out'[i].id = WrittenId(sentId'[out'[i].seq]) /\ call'[out'[i].seq] = "done"
    BY <2>1, <2>2 DEF OutInv
  <2>4. \A i, j \in DOMAIN out' :
          out'[i].kind = "answer" /\ out'[j].seq = out'[i].seq => i = j
    <3> SUFFICES ASSUME NEW i \in DOMAIN out', NEW j \in DOMAIN out',
                        out'[i].kind = "answer", out'[j].seq = out'[i].seq
                 PROVE  i = j
      OBVIOUS
    <3>1. i \in DOMAIN out /\ out[i].kind = "answer" /\ out[i] \in Messages
      BY <1>2, <2>1, <2>2
    <3>2. out[i].seq \in Seqs
      BY <3>1, MessageTypes
    <3>3. j # n
      BY <1>1, <2>1, <3>1, <3>2 DEF Seqs
    <3> QED
      BY <2>1, <3>1, <3>3 DEF OutInv
  <2>5. \A k \in Seqs : Answered(k) => Answered(k)'
    BY <2>1 DEF Answered
  <2>6. \A k \in Seqs : call'[k] = "done" => encErr' \/ Answered(k)'
    BY <1>5, <2>5 DEF OutInv
  <2>7. OutInv'
    BY <2>3, <2>4, <2>6 DEF OutInv
  <2> QED
    BY <1>3, <2>1, <2>7
<1> QED
  BY <1>4, <1>5, EncodeCases

-----------------------------------------------------------------------------
(* The steps.                                                              *)

\* A connection starts with an empty table and nothing written.
LEMMA CodecInitially == CodecInit => CodecInv
<1> SUFFICES ASSUME CodecInit PROVE CodecInv
  OBVIOUS
<1>1. DOMAIN pending = {} /\ pending = [k \in {} |-> {}]
  BY DEF CodecInit, Pending!MapInit
<1>2. CodecTypeOK
  <2>1. /\ seq \in 0 .. MaxSeq /\ DOMAIN pending \subseteq 1 .. seq
        /\ \A k \in DOMAIN pending : pending[k] \in RequestIds
        /\ sending \in 0 .. MaxSeq /\ jobs \in 0 .. MaxJobs
    BY <1>1 DEF CodecInit
  <2>2. /\ call \in [Seqs -> CallStates] /\ sentId \in [Seqs -> RequestIds]
        /\ respId \in RequestIds /\ loop \in LoopStates
    BY DEF CodecInit, CallStates, RequestIds, LoopStates
  <2>3. out \in Seq(Messages)
    <3>1. out = <<>>
      BY DEF CodecInit
    <3> QED
      BY <3>1
  <2>4. encErr \in BOOLEAN
    BY DEF CodecInit
  <2>5. /\ run \in {"none", "idle", "notify", "stopped"}
        /\ miner \in {"reading", "stalled", "gone", "closed"}
    BY DEF CodecInit
  <2> QED
    BY <2>1, <2>2, <2>3, <2>4, <2>5 DEF CodecTypeOK
<1>3. TableInv
  BY <1>1 DEF CodecInit, TableInv, Seqs, RequestIds
<1>4. OutInv
  BY DEF CodecInit, OutInv
<1> QED
  BY <1>2, <1>3, <1>4 DEF CodecInv

\* A new request gets a number that no request and no answer has.
LEMMA ReadRequestStep == CodecInv /\ ReadRequest => CodecInv'
<1> SUFFICES ASSUME CodecInv, ReadRequest PROVE CodecInv'
  OBVIOUS
<1>0. CodecTypeOK /\ TableInv /\ OutInv
  BY DEF CodecInv
<1> DEFINE n == seq + 1
<1>1. n \in Seqs /\ seq' = n /\ seq \in Nat /\ n > seq /\ call[n] = "none"
  <2>1. seq \in 0 .. MaxSeq /\ seq < MaxSeq /\ seq' = n
    BY <1>0 DEF ReadRequest, CodecTypeOK
  <2>2. n \in Seqs /\ n > seq /\ seq \in Nat
    BY <2>1 DEF Seqs
  <2> QED
    BY <1>0, <2>1, <2>2 DEF TableInv
<1>2. PICK id \in RequestIds : /\ pending' = Pending!With(n, id)
                               /\ sentId' = [sentId EXCEPT ![n] = id]
  BY <1>1 DEF ReadRequest
<1>3. PICK c \in {"running", "reply"} : call' = [call EXCEPT ![n] = c]
  BY <1>1 DEF ReadRequest
<1>4. /\ loop = "read" /\ loop' \in {"read", "reply"}
      /\ UNCHANGED <<respId, sending, run, jobs, miner, out, encErr>>
  BY DEF ReadRequest, runVars, outVars
<1>5. /\ DOMAIN pending' = DOMAIN pending \cup {n} /\ pending'[n] = id
      /\ \A j \in DOMAIN pending : j # n => pending'[j] = pending[j]
  BY <1>2 DEF Pending!With
<1>6. /\ call \in [Seqs -> CallStates] /\ sentId \in [Seqs -> RequestIds]
      /\ call' \in [Seqs -> CallStates] /\ sentId' \in [Seqs -> RequestIds]
  BY <1>0, <1>1, <1>2, <1>3 DEF CodecTypeOK, CallStates
<1>7. pending' \in [DOMAIN pending' -> RequestIds]
  BY <1>0, <1>2 DEF Pending!With, TableInv
<1> HIDE DEF n
<1>8. CodecTypeOK'
  <2>1. DOMAIN pending' \subseteq 1 .. seq'
    BY <1>0, <1>1, <1>5 DEF CodecTypeOK, n
  <2>2. \A k \in DOMAIN pending' : pending'[k] \in RequestIds
    BY <1>7
  <2>3. seq' \in 0 .. MaxSeq
    BY <1>1 DEF Seqs
  <2> QED
    BY <1>0, <1>4, <1>6, <2>1, <2>2, <2>3 DEF CodecTypeOK, LoopStates
<1>9. TableInv'
  <2>1. DOMAIN pending' = {k \in Seqs : call'[k] \in {"running", "reply"}}
    BY <1>0, <1>1, <1>3, <1>5, <1>6 DEF TableInv
  <2>2. \A k \in DOMAIN pending' : pending'[k] = sentId'[k]
    BY <1>0, <1>1, <1>2, <1>5, <1>6 DEF TableInv
  <2>3. \A k \in Seqs : call'[k] = "none" <=> k > seq'
    BY <1>0, <1>1, <1>3, <1>6 DEF TableInv, n, Seqs
  <2>4. \A k \in Seqs : call'[k] = "encode" <=> sending' = k
    BY <1>0, <1>1, <1>3, <1>4, <1>6 DEF TableInv
  <2>5. sending' # Nobody => respId' = sentId'[sending']
    <3>1. sending # Nobody => sending \in Seqs /\ sending # n
      BY <1>0, <1>1 DEF CodecTypeOK, TableInv, Seqs
    <3> QED
      BY <1>0, <1>2, <1>4, <1>6, <3>1 DEF TableInv
  <2>6. loop' # "closed"
    BY <1>4
  <2> QED
    BY <1>7, <2>1, <2>2, <2>3, <2>4, <2>5, <2>6 DEF TableInv
<1>10. OutInv'
  <2>1. \A i \in DOMAIN out : out[i].kind = "answer" => out[i].seq \in Seqs /\ out[i].seq # n
    <3>1. \A i \in DOMAIN out : out[i] \in Messages
      BY <1>0 DEF CodecTypeOK
    <3> QED
      BY <1>0, <1>1, <3>1, MessageTypes DEF OutInv
  <2>2. \A k \in Seqs : Answered(k)' <=> Answered(k)
    BY <1>4 DEF Answered
  <2> QED
    BY <1>0, <1>1, <1>2, <1>3, <1>4, <1>6, <2>1, <2>2 DEF OutInv
<1> QED
  BY <1>8, <1>9, <1>10 DEF CodecInv

\* WriteResponse finds its own request in the table, takes it out and keeps its id.
LEMMA WriteResponseStep ==
  ASSUME CodecInv, NEW k \in Seqs, WriteResponse(k)
  PROVE  CodecInv'
<1>0. CodecTypeOK /\ TableInv /\ OutInv
  BY DEF CodecInv
<1>1. k \in DOMAIN pending /\ sending = Nobody /\ call[k] = "reply"
  BY <1>0 DEF WriteResponse, TableInv
<1>2. /\ sending' = k /\ respId' = sentId[k] /\ pending' = Pending!Without(k)
      /\ call' = [call EXCEPT ![k] = "encode"]
      /\ UNCHANGED <<seq, loop, run, jobs, miner, out, encErr, sentId>>
  BY <1>0, <1>1 DEF WriteResponse, runVars, outVars, TableInv
<1>3. /\ DOMAIN pending' = DOMAIN pending \ {k}
      /\ \A j \in DOMAIN pending : j # k => pending'[j] = pending[j]
  BY <1>2 DEF Pending!Without
<1>4. pending' \in [DOMAIN pending' -> RequestIds]
  BY <1>0, <1>2 DEF Pending!Without, TableInv
<1>5. /\ call \in [Seqs -> CallStates] /\ call' \in [Seqs -> CallStates]
      /\ sentId \in [Seqs -> RequestIds]
  BY <1>0, <1>2 DEF CodecTypeOK, CallStates
<1>6. CodecTypeOK'
  <2>1. sending' \in 0 .. MaxSeq /\ respId' \in RequestIds
    BY <1>2, <1>5 DEF Seqs
  <2>2. DOMAIN pending' \subseteq 1 .. seq' /\ \A j \in DOMAIN pending' : pending'[j] \in RequestIds
    BY <1>0, <1>2, <1>3, <1>4 DEF CodecTypeOK
  <2> QED
    BY <1>0, <1>2, <1>5, <2>1, <2>2 DEF CodecTypeOK
<1>7. TableInv'
  <2>1. DOMAIN pending' = {j \in Seqs : call'[j] \in {"running", "reply"}}
    BY <1>0, <1>2, <1>3, <1>5 DEF TableInv
  <2>2. \A j \in DOMAIN pending' : pending'[j] = sentId'[j]
    BY <1>0, <1>2, <1>3 DEF TableInv
  <2>3. \A j \in Seqs : call'[j] = "none" <=> j > seq'
    BY <1>0, <1>1, <1>2, <1>5 DEF TableInv
  <2>4. \A j \in Seqs : call'[j] = "encode" <=> sending' = j
    BY <1>0, <1>1, <1>2, <1>5 DEF TableInv, Seqs
  <2>5. loop' # "closed"
    BY <1>0, <1>1, <1>2 DEF TableInv
  <2> QED
    BY <1>2, <1>4, <2>1, <2>2, <2>3, <2>4, <2>5 DEF TableInv
<1>8. OutInv'
  <2>1. \A i \in DOMAIN out : out[i].kind = "answer" => out[i].seq \in Seqs /\ out[i].seq # k
    <3>1. \A i \in DOMAIN out : out[i] \in Messages
      BY <1>0 DEF CodecTypeOK
    <3> QED
      BY <1>0, <1>1, <3>1, MessageTypes DEF OutInv
  <2>2. \A j \in Seqs : Answered(j)' <=> Answered(j)
    BY <1>2 DEF Answered
  <2> QED
    BY <1>0, <1>1, <1>2, <1>5, <2>1, <2>2 DEF OutInv
<1> QED
  BY <1>6, <1>7, <1>8 DEF CodecInv

\* The answer is written once, under the id that WriteResponse took out.
LEMMA ResponseWrittenStep ==
  ASSUME CodecInv, NEW k \in Seqs, ResponseWritten(k)
  PROVE  CodecInv'
<1>0. CodecTypeOK /\ TableInv /\ OutInv
  BY DEF CodecInv
<1> DEFINE m == Answer(k, WrittenId(respId))
<1>1. /\ call[k] = "encode" /\ sending = k /\ respId = sentId[k] /\ k # 0
      /\ k \notin DOMAIN pending
  BY <1>0 DEF ResponseWritten, TableInv, Seqs
<1>2. /\ Encode(m) /\ sending' = Nobody /\ call' = [call EXCEPT ![k] = "done"]
      /\ loop' = (IF loop = "reply" /\ k = seq THEN "read" ELSE loop)
      /\ UNCHANGED <<seq, pending, respId, run, jobs, miner, sentId>>
  BY DEF ResponseWritten, codecVars, runVars
<1>3. /\ call \in [Seqs -> CallStates] /\ call' \in [Seqs -> CallStates]
      /\ sentId \in [Seqs -> RequestIds] /\ out \in Seq(Messages)
  BY <1>0, <1>2 DEF CodecTypeOK, CallStates
<1>4. m \in Messages /\ m.kind = "answer" /\ m.seq = k /\ m.id = WrittenId(sentId[k])
  <2>1. m.kind = "answer" /\ m.seq = k /\ m.id = WrittenId(sentId[k])
    BY <1>1 DEF Answer
  <2> QED
    BY <1>1, <1>3, <2>1, MessageTypes
<1> HIDE DEF m
<1>5. encErr' \in BOOLEAN /\ (encErr => encErr')
  BY <1>0, <1>2, EncodeCases
<1>6. \/ out' = out /\ encErr' = TRUE
      \/ out' = Append(out, m) /\ encErr' = encErr
  BY <1>0, <1>2, EncodeCases
<1>7. out' \in Seq(Messages)
  BY <1>3, <1>4, <1>6, Appended
<1>8. CodecTypeOK'
  BY <1>0, <1>2, <1>3, <1>5, <1>7 DEF CodecTypeOK, LoopStates
<1>9. TableInv'
  <2>1. DOMAIN pending' = {j \in Seqs : call'[j] \in {"running", "reply"}}
    BY <1>0, <1>1, <1>2, <1>3 DEF TableInv
  <2>2. \A j \in Seqs : call'[j] = "none" <=> j > seq'
    BY <1>0, <1>1, <1>2, <1>3 DEF TableInv
  <2>3. \A j \in Seqs : call'[j] = "encode" <=> sending' = j
    BY <1>0, <1>1, <1>2, <1>3 DEF TableInv, Seqs
  <2>4. loop' # "closed"
    BY <1>0, <1>1, <1>2 DEF TableInv
  <2> QED
    BY <1>0, <1>2, <2>1, <2>2, <2>3, <2>4 DEF TableInv
<1>10. \A i \in DOMAIN out : out[i].kind = "answer" <=> out[i].seq \in Seqs
  BY <1>3, MessageTypes
<1>11. \A i \in DOMAIN out : out[i].seq # k
  BY <1>0, <1>1, <1>10 DEF OutInv
<1>12. CASE out' = out /\ encErr' = TRUE
  BY <1>0, <1>1, <1>2, <1>3, <1>8, <1>9, <1>10, <1>11, <1>12 DEF OutInv, CodecInv
<1>13. CASE out' = Append(out, m) /\ encErr' = encErr
  <2> DEFINE n == Len(out) + 1
  <2>1. /\ DOMAIN out' = DOMAIN out \cup {n} /\ n \notin DOMAIN out
        /\ \A i \in DOMAIN out : out'[i] = out[i]
        /\ out'[n] = m
    BY <1>3, <1>4, <1>13, Appended
  <2> HIDE DEF n
  <2>2. \A i \in DOMAIN out' : out'[i].kind = "answer" =>
          out'[i].id = WrittenId(sentId'[out'[i].seq]) /\ call'[out'[i].seq] = "done"
    BY <1>0, <1>2, <1>3, <1>4, <1>10, <1>11, <2>1 DEF OutInv
  <2>3. \A i, j \in DOMAIN out' :
          out'[i].kind = "answer" /\ out'[j].seq = out'[i].seq => i = j
    BY <1>0, <1>4, <1>11, <2>1 DEF OutInv
  <2>4. \A j \in Seqs : call'[j] = "done" => encErr' \/ Answered(j)'
    <3>1. Answered(k)'
      BY <1>4, <2>1 DEF Answered
    <3>2. \A j \in Seqs : Answered(j) => Answered(j)'
      BY <2>1 DEF Answered
    <3> QED
      BY <1>0, <1>2, <1>3, <1>13, <3>1, <3>2 DEF OutInv
  <2> QED
    BY <1>8, <1>9, <2>2, <2>3, <2>4 DEF OutInv, CodecInv
<1> QED
  BY <1>6, <1>12, <1>13

\* The loop's error replies and the jobs of Run write no answers.
LEMMA OtherStep ==
  ASSUME CodecInv, ErrorReplied \/ Notified
  PROVE  CodecInv'
<1>0. CodecTypeOK /\ TableInv /\ OutInv
  BY DEF CodecInv
<1>1. /\ UNCHANGED <<seq, pending, call, respId, sending, jobs, sentId>>
      /\ loop' \in LoopStates /\ (loop' = "closed" => loop = "closed")
      /\ run' \in {"none", "idle", "notify", "stopped"}
      /\ miner' \in {"reading", "stalled", "gone", "closed"}
  BY <1>0 DEF ErrorReplied, Notified, codecVars, callVars, runVars, CodecTypeOK, LoopStates
<1>2. PICK m \in {ErrorReply, JobMessage} : Encode(m)
  BY DEF ErrorReplied, Notified
<1>3. OutInv' /\ out' \in Seq(Messages) /\ encErr' \in BOOLEAN
  BY <1>0, <1>1, <1>2, OtherWrites
<1>4. TableInv'
  BY <1>0, <1>1 DEF TableInv
<1>5. CodecTypeOK'
  BY <1>0, <1>1, <1>3 DEF CodecTypeOK
<1> QED
  BY <1>3, <1>4, <1>5 DEF CodecInv

\* The steps that write nothing and answer no request.
LEMMA SilentStep ==
  ASSUME CodecInv,
         \/ ReadFails \/ Close \/ NewJob \/ RunEnds \/ MinerChanges \/ UNCHANGED vars
         \/ \E k \in Seqs : LoginStartsRun(k)
  PROVE  CodecInv'
<1>0. CodecTypeOK /\ TableInv /\ OutInv
  BY DEF CodecInv
<1>1. UNCHANGED <<seq, pending, call, respId, sending, sentId, out, encErr>>
  BY DEF ReadFails, Close, NewJob, RunEnds, MinerChanges, LoginStartsRun, vars,
         codecVars, callVars, outVars
<1>2. /\ loop' \in LoopStates
      /\ loop' = "closed" => loop = "closed" \/ \A k \in Seqs : call[k] \in {"none", "done"}
  BY <1>0 DEF ReadFails, Close, NewJob, RunEnds, MinerChanges, LoginStartsRun, vars,
              CodecTypeOK, LoopStates
<1>3. /\ run' \in {"none", "idle", "notify", "stopped"}
      /\ jobs' \in 0 .. MaxJobs
      /\ miner' \in {"reading", "stalled", "gone", "closed"}
  BY <1>0 DEF ReadFails, Close, NewJob, RunEnds, MinerChanges, LoginStartsRun, vars,
              runVars, CodecTypeOK
<1>4. CodecTypeOK'
  BY <1>0, <1>1, <1>2, <1>3 DEF CodecTypeOK
<1>5. TableInv'
  BY <1>0, <1>1, <1>2 DEF TableInv
<1>6. OutInv'
  BY <1>0, <1>1 DEF OutInv, Answered
<1> QED
  BY <1>4, <1>5, <1>6 DEF CodecInv

\* A method that returns leaves its request in the table.
LEMMA MethodReturnsStep ==
  ASSUME CodecInv, NEW k \in Seqs, MethodReturns(k)
  PROVE  CodecInv'
<1>0. CodecTypeOK /\ TableInv /\ OutInv
  BY DEF CodecInv
<1>1. /\ call[k] = "running" /\ call' = [call EXCEPT ![k] = "reply"]
      /\ UNCHANGED <<seq, pending, loop, respId, sending, run, jobs, miner, out, encErr, sentId>>
  BY DEF MethodReturns, codecVars, runVars, outVars
<1>2. call \in [Seqs -> CallStates] /\ call' \in [Seqs -> CallStates]
  BY <1>0, <1>1 DEF CodecTypeOK, CallStates
<1>3. CodecTypeOK'
  BY <1>0, <1>1, <1>2 DEF CodecTypeOK
<1>4. TableInv'
  <2>1. {j \in Seqs : call'[j] \in {"running", "reply"}} = {j \in Seqs : call[j] \in {"running", "reply"}}
    BY <1>1, <1>2
  <2>2. \A j \in Seqs : /\ call'[j] = "none" <=> call[j] = "none"
                        /\ call'[j] = "encode" <=> call[j] = "encode"
    BY <1>1, <1>2
  <2>3. loop # "closed"
    BY <1>0, <1>1 DEF TableInv
  <2> QED
    BY <1>0, <1>1, <2>1, <2>2, <2>3 DEF TableInv
<1>5. OutInv'
  <2>1. \A i \in DOMAIN out : out[i].kind = "answer" => out[i].seq \in Seqs /\ out[i].seq # k
    <3>1. \A i \in DOMAIN out : out[i] \in Messages
      BY <1>0 DEF CodecTypeOK
    <3> QED
      BY <1>0, <1>1, <3>1, MessageTypes DEF OutInv
  <2>2. \A j \in Seqs : Answered(j)' <=> Answered(j)
    BY <1>1 DEF Answered
  <2> QED
    BY <1>0, <1>1, <1>2, <2>1, <2>2 DEF OutInv
<1> QED
  BY <1>3, <1>4, <1>5 DEF CodecInv

-----------------------------------------------------------------------------
(* The theorems.                                                           *)

\* The table of pending requests, the goroutines that serve them and what was
\* written agree in every reachable state of a connection.
THEOREM CodecInvariant == CodecSpec => []CodecInv
<1>1. CodecInit => CodecInv
  BY CodecInitially
<1>2. CodecInv /\ [CodecNext]_vars => CodecInv'
  <2> SUFFICES ASSUME CodecInv, [CodecNext]_vars PROVE CodecInv'
    OBVIOUS
  <2>1. CASE ReadRequest
    BY <2>1, ReadRequestStep
  <2>2. CASE ErrorReplied \/ Notified
    BY <2>2, OtherStep
  <2>3. CASE \/ ReadFails \/ Close \/ NewJob \/ RunEnds \/ MinerChanges \/ UNCHANGED vars
             \/ \E k \in Seqs : LoginStartsRun(k)
    BY <2>3, SilentStep
  <2>4. ASSUME NEW k \in Seqs, MethodReturns(k) \/ WriteResponse(k) \/ ResponseWritten(k)
        PROVE  CodecInv'
    BY <2>4, MethodReturnsStep, WriteResponseStep, ResponseWrittenStep
  <2> QED
    BY <2>1, <2>2, <2>3, <2>4 DEF CodecNext
<1> QED
  BY <1>1, <1>2, PTL DEF CodecSpec

\* Types of the codec's fields.
THEOREM CodecTypes == CodecSpec => []CodecTypeOK
<1>1. CodecInv => CodecTypeOK
  BY DEF CodecInv
<1> QED
  BY <1>1, CodecInvariant, PTL

\* Concurrent requests get at most one answer each, under their own id if they came
\* with one, although the encoder's mutex is commented out and Run writes in between.
THEOREM CodecAnswersMatch == CodecSpec => []AnswersMatch
<1>1. CodecInv => AnswersMatch
  BY DEF CodecInv, OutInv, AnswersMatch, WrittenId
<1> QED
  BY <1>1, CodecInvariant, PTL

\* No request is lost and none is kept, whatever ends the connection.
THEOREM CodecPendingInFlight == CodecSpec => []PendingInFlight
<1>1. ASSUME CodecInv PROVE PendingInFlight
  <2>0. CodecTypeOK /\ TableInv /\ OutInv
    BY <1>1 DEF CodecInv
  <2>1. \A k \in 1 .. seq : sentId[k] # NoId =>
          k \in DOMAIN pending \/ sending = k \/ Answered(k) \/ encErr
    <3> SUFFICES ASSUME NEW k \in 1 .. seq, k \notin DOMAIN pending, sending # k, ~encErr
                 PROVE  Answered(k)
      OBVIOUS
    <3>1. k \in Seqs /\ ~(k > seq)
      BY <2>0 DEF CodecTypeOK, Seqs
    <3>2. call[k] \in CallStates /\ call[k] \notin {"running", "reply"} /\ call[k] # "encode" /\ call[k] # "none"
      BY <2>0, <3>1 DEF TableInv, CodecTypeOK
    <3>3. call[k] = "done"
      BY <3>2 DEF CallStates
    <3> QED
      BY <2>0, <3>1, <3>3 DEF OutInv
  <2>2. loop = "closed" => pending = [k \in {} |-> NoId]
    <3> SUFFICES ASSUME loop = "closed" PROVE pending = [k \in {} |-> NoId]
      OBVIOUS
    <3>1. DOMAIN pending = {}
      BY <2>0 DEF TableInv
    <3> QED
      BY <2>0, <3>1 DEF TableInv
  <2> QED
    BY <2>0, <2>1, <2>2 DEF PendingInFlight, TableInv
<1> QED
  BY <1>1, CodecInvariant, PTL
=============================================================================
