------------------------- MODULE StratumClientProofs ------------------------
(***************************************************************************)
(* Proofs about the stratum client, for any number of callers, any size of *)
(* the buffer of notifications and any number of messages: a call is       *)
(* completed only by its own answer, a waiting call is in both tables, and *)
(* the reader never waits for room in the buffer.                          *)
(***************************************************************************)
EXTENDS StratumClient, TLAPS

AnyMessage == [kind : Kinds, id : Nat]

\* What comes from the server are messages, and it knows only numbers.
WireOK == wire \in Seq(AnyMessage) /\ resp \in AnyMessage /\ served \subseteq Nat

\* Numbers are given out once: each call in net/rpc's table is there under its own,
\* and only the call of NewClient can be there under 0.
NumberInv ==
  /\ \A c \in AllCallers : number[c] <= seq
  /\ \A k \in DOMAIN calls :
       /\ k < seq /\ number[calls[k]] = k
       /\ caller[calls[k]] \notin {"idle", "lock"}
       /\ calls[k] # Hack => k # 0
  /\ \A c \in AllCallers : caller[c] \in Writing /\ number[c] \in DOMAIN calls => calls[number[c]] = c

\* reqMutex is held for the write only; NewClient's call is sent before any other.
MutexInv ==
  /\ \A c \in AllCallers : caller[c] \in Writing <=> reqMutex = c
  /\ \A c \in AllCallers : caller[c] \in {"idle", "lock"} => done[c] = "no"
  /\ caller[Hack] \in {"lock", "wait"} \cup Writing
  /\ caller[Hack] # "lock" => seq > 0 \/ shutdown
  /\ \A c \in Callers : caller[c] # "idle" => caller[Hack] = "wait"

\* A call that is not done is in net/rpc's table, and after the write also in the
\* codec's or in the reader's hands; none is left when the goroutine input is gone.
WaitInv ==
  /\ \A c \in AllCallers : caller[c] \in {"wait"} \cup Writing /\ done[c] = "no" =>
       number[c] \in DOMAIN calls /\ calls[number[c]] = c
  /\ \A c \in AllCallers : caller[c] = "wait" /\ done[c] = "no" =>
       number[c] \in pending \/ (reader = "dispatch" /\ resp.id = number[c])
  /\ reader = "ended" => /\ shutdown
                         /\ \A c \in AllCallers : /\ caller[c] \notin Writing
                                                  /\ caller[c] = "wait" => done[c] # "no"

ClientInv ==
  ClientTypeOK /\ WireOK /\ NumberInv /\ MutexInv /\ WaitInv /\ OwnAnswer /\ ReaderNeverBlocks

USE ClientAssumption DEF Writing

-----------------------------------------------------------------------------
(* What the steps are made of.                                             *)

\* No caller has the name of the free mutex or of NewClient's call.
LEMMA Names ==
  Free \notin AllCallers /\ Hack \in AllCallers /\ Callers \subseteq AllCallers /\ Hack \notin Callers
  BY DEF AllCallers, Free, Hack

\* Whatever a decoder leaves of the messages that have arrived are messages.
LEMMA LeftoversType ==
  ASSUME NEW w \in Seq(AnyMessage), w # <<>>
  PROVE  Head(w) \in AnyMessage /\ Leftovers(w) \subseteq Seq(AnyMessage)
<1>1. Message("torn", 0) \in AnyMessage
  BY DEF Message, AnyMessage, Kinds, Results
<1>2. \A n \in Nat \ {0} : SubSeq(w, n, Len(w)) \in Seq(AnyMessage)
  OBVIOUS
<1>3. \A n \in Nat \ {0} : <<Message("torn", 0)>> \o SubSeq(w, n, Len(w)) \in Seq(AnyMessage)
  BY <1>1, <1>2
<1>4. ASSUME NEW l \in Leftovers(w) PROVE l \in Seq(AnyMessage)
  <2>1. \/ \E n \in 2 .. Len(w) + 1 : l = SubSeq(w, n, Len(w))
        \/ \E n \in 2 .. Len(w) : l = <<Message("torn", 0)>> \o SubSeq(w, n + 1, Len(w))
    BY <1>4 DEF Leftovers
  <2>2. CASE \E n \in 2 .. Len(w) + 1 : l = SubSeq(w, n, Len(w))
    BY <1>2, <2>2
  <2>3. ASSUME NEW n \in 2 .. Len(w), l = <<Message("torn", 0)>> \o SubSeq(w, n + 1, Len(w))
        PROVE  l \in Seq(AnyMessage)
    <3>1. n + 1 \in Nat \ {0}
      OBVIOUS
    <3> QED
      BY <1>3, <2>3, <3>1
  <2> QED
    BY <2>1, <2>2, <2>3
<1> QED
  BY <1>4

\* The client starts with empty tables and the call of NewClient to be sent.
LEMMA ClientInitially == ClientInit => ClientInv
<1> SUFFICES ASSUME ClientInit PROVE ClientInv
  OBVIOUS
<1>1. DOMAIN calls = {}
  BY DEF ClientInit
<1>2. WireOK
  BY DEF ClientInit, WireOK, AnyMessage, Kinds, Results, Empty, Message
<1>3. ClientTypeOK
  <2>1. shutdown \in BOOLEAN /\ encErr \in BOOLEAN
    BY DEF ClientInit
  <2> QED
    BY <1>1, <2>1 DEF ClientInit, ClientTypeOK, AllCallers
<1>4. NumberInv
  BY <1>1 DEF ClientInit, NumberInv
<1>5. MutexInv
  BY Names DEF ClientInit, MutexInv
<1>6. WaitInv /\ OwnAnswer /\ ReaderNeverBlocks
  BY Names DEF ClientInit, WaitInv, OwnAnswer, ReaderNeverBlocks
<1> QED
  BY <1>2, <1>3, <1>4, <1>5, <1>6 DEF ClientInv

-----------------------------------------------------------------------------
(* The callers.                                                            *)

\* A call begins, returns or times out: only its own control state changes.
LEMMA CallerStep ==
  ASSUME ClientInv, NEW c \in Callers, Call(c) \/ Return(c) \/ Timeout(c)
  PROVE  ClientInv'
<1>0. ClientTypeOK /\ WireOK /\ NumberInv /\ MutexInv /\ WaitInv /\ OwnAnswer /\ ReaderNeverBlocks
  BY DEF ClientInv
<1>1. UNCHANGED <<seq, calls, shutdown, reqMutex, pending, number, done, reply, reader, resp,
                  notifications, conn, encErr, wire, served, sentByServer, proc>>
  BY DEF Call, Return, Timeout, rpcVars, readVars, connVars, serverVars
<1>2. PICK s : /\ caller' = [caller EXCEPT ![c] = s]
               /\ \/ caller[c] = "idle" /\ s = "lock" /\ caller[Hack] = "wait"
                  \/ caller[c] = "wait" /\ s \in {"ok", "error", "timeout"}
  BY DEF Call, Return, Timeout
<1>3. c # Hack /\ c \in AllCallers /\ Hack \in AllCallers
  BY Names
<1>4. ClientTypeOK'
  BY <1>0, <1>1, <1>2 DEF ClientTypeOK
<1>5. \A d \in AllCallers : caller'[d] = IF d = c THEN s ELSE caller[d]
  BY <1>0, <1>2 DEF ClientTypeOK
<1>6. \A k \in DOMAIN calls : calls[k] \in AllCallers
  BY <1>0 DEF ClientTypeOK
<1>7. NumberInv'
  BY <1>0, <1>1, <1>2, <1>5, <1>6 DEF NumberInv
<1>8. MutexInv'
  <2>1. caller'[Hack] = caller[Hack]
    BY <1>3, <1>5
  <2>2. \A d \in Callers : d \in AllCallers
    BY DEF AllCallers
  <2> QED
    BY <1>0, <1>1, <1>2, <1>3, <1>5, <2>1, <2>2 DEF MutexInv
<1>9. WaitInv'
  BY <1>0, <1>1, <1>2, <1>3, <1>5 DEF WaitInv
<1> QED
  BY <1>0, <1>1, <1>4, <1>7, <1>8, <1>9 DEF ClientInv, WireOK, OwnAnswer, ReaderNeverBlocks

\* send registers a call under a number that was never used, or refuses it.
LEMMA SendStep ==
  ASSUME ClientInv, NEW c \in AllCallers, Send(c)
  PROVE  ClientInv'
<1>0. ClientTypeOK /\ WireOK /\ NumberInv /\ MutexInv /\ WaitInv /\ OwnAnswer /\ ReaderNeverBlocks
  BY DEF ClientInv
<1>1. /\ caller[c] = "lock" /\ reqMutex = Free
      /\ UNCHANGED <<shutdown, pending, reply, reader, resp, notifications, conn, encErr, wire,
                     served, sentByServer, proc>>
  BY DEF Send, rpcVars, readVars, connVars, serverVars
<1>2. /\ \A d \in AllCallers : d # Free /\ caller[d] \notin Writing
      /\ done[c] = "no" /\ Hack \in AllCallers /\ Callers \subseteq AllCallers
  BY <1>0, <1>1 DEF MutexInv, AllCallers
<1>3. \A k \in DOMAIN calls : calls[k] \in AllCallers /\ calls[k] # c
  BY <1>0, <1>1 DEF ClientTypeOK, NumberInv
<1>4. CASE shutdown
  <2>1. /\ caller' = [caller EXCEPT ![c] = "wait"] /\ done' = [done EXCEPT ![c] = "error"]
        /\ UNCHANGED <<seq, calls, reqMutex, number>>
    BY <1>4 DEF Send, rpcVars
  <2>2. /\ \A d \in AllCallers : caller'[d] = IF d = c THEN "wait" ELSE caller[d]
        /\ \A d \in AllCallers : done'[d] = IF d = c THEN "error" ELSE done[d]
    BY <1>0, <2>1 DEF ClientTypeOK
  <2>3. ClientTypeOK'
    BY <1>0, <1>1, <2>1 DEF ClientTypeOK
  <2>4. NumberInv'
    BY <1>0, <1>1, <1>3, <2>1, <2>2 DEF NumberInv
  <2>5. MutexInv'
    BY <1>0, <1>1, <1>2, <1>4, <2>1, <2>2 DEF MutexInv
  <2>6. WaitInv'
    BY <1>0, <1>1, <2>1, <2>2 DEF WaitInv
  <2>7. OwnAnswer'
    BY <1>0, <1>1, <1>2, <2>1, <2>2 DEF OwnAnswer
  <2> QED
    BY <1>0, <1>1, <2>3, <2>4, <2>5, <2>6, <2>7 DEF ClientInv, WireOK, ReaderNeverBlocks
<1>5. CASE ~shutdown
  <2>0. PICK w \in Writing : caller' = [caller EXCEPT ![c] = w]
    BY <1>5 DEF Send
  <2>1. /\ caller' = [caller EXCEPT ![c] = w]
        /\ number' = [number EXCEPT ![c] = seq] /\ seq' = seq + 1
        /\ calls' = [k \in DOMAIN calls \cup {seq} |-> IF k = seq THEN c ELSE calls[k]]
        /\ reqMutex' = c /\ UNCHANGED done
    BY <1>5, <2>0 DEF Send
  <2>2. /\ \A d \in AllCallers : caller'[d] = IF d = c THEN w ELSE caller[d]
        /\ \A d \in AllCallers : number'[d] = IF d = c THEN seq ELSE number[d]
        /\ seq \in Nat /\ number \in [AllCallers -> Nat]
    BY <1>0, <2>1 DEF ClientTypeOK
  <2>3. /\ DOMAIN calls' = DOMAIN calls \cup {seq} /\ calls'[seq] = c
        /\ \A k \in DOMAIN calls : k # seq => calls'[k] = calls[k]
    BY <2>1
  <2>4. DOMAIN calls \subseteq 0 .. seq /\ \A k \in DOMAIN calls : k < seq /\ k # seq
    BY <1>0 DEF ClientTypeOK, NumberInv
  <2>5. ClientTypeOK'
    <3>1. DOMAIN calls' \subseteq 0 .. seq' /\ \A k \in DOMAIN calls' : calls'[k] \in AllCallers
      BY <1>3, <2>1, <2>2, <2>3, <2>4
    <3>2. seq' \in Nat /\ pending' \subseteq 1 .. seq'
      BY <1>0, <1>1, <2>1 DEF ClientTypeOK
    <3>3. number' \in [AllCallers -> Nat]
      BY <2>1, <2>2
    <3> QED
      BY <1>0, <1>1, <2>1, <3>1, <3>2, <3>3 DEF ClientTypeOK
  <2>6. c # Hack => seq # 0
    <3>1. ASSUME c # Hack PROVE caller[Hack] # "lock"
      BY <1>0, <1>1, <3>1 DEF MutexInv, AllCallers
    <3> QED
      BY <1>0, <1>5, <3>1 DEF MutexInv
  <2>7. NumberInv'
    <3>1. \A d \in AllCallers : number'[d] <= seq'
      BY <1>0, <2>1, <2>2 DEF NumberInv
    <3>2. \A k \in DOMAIN calls' :
            /\ k < seq' /\ number'[calls'[k]] = k
            /\ caller'[calls'[k]] \notin {"idle", "lock"}
            /\ calls'[k] # Hack => k # 0
      <4> SUFFICES ASSUME NEW k \in DOMAIN calls'
                   PROVE  /\ k < seq' /\ number'[calls'[k]] = k
                          /\ caller'[calls'[k]] \notin {"idle", "lock"}
                          /\ calls'[k] # Hack => k # 0
        OBVIOUS
      <4>1. CASE k = seq
        BY <2>1, <2>2, <2>3, <2>6, <4>1
      <4>2. CASE k \in DOMAIN calls
        <5>1. calls'[k] = calls[k] /\ calls[k] \in AllCallers /\ calls[k] # c /\ k \in Nat /\ k < seq
          BY <1>3, <2>3, <2>4, <4>2
        <5> QED
          BY <1>0, <2>1, <2>2, <4>2, <5>1 DEF NumberInv
      <4> QED
        BY <2>3, <4>1, <4>2
    <3>3. \A d \in AllCallers : caller'[d] \in Writing /\ number'[d] \in DOMAIN calls'
            => calls'[number'[d]] = d
      BY <1>2, <2>2, <2>3
    <3> QED
      BY <3>1, <3>2, <3>3 DEF NumberInv
  <2>8. MutexInv'
    <3>1. seq' > 0
      BY <2>1, <2>2
    <3> QED
      BY <1>0, <1>1, <1>2, <2>1, <2>2, <3>1 DEF MutexInv
  <2>9. WaitInv'
    <3>1. \A d \in AllCallers : caller'[d] \in {"wait"} \cup Writing /\ done'[d] = "no" =>
            number'[d] \in DOMAIN calls' /\ calls'[number'[d]] = d
      BY <1>0, <2>1, <2>2, <2>3, <2>4 DEF WaitInv
    <3>2. \A d \in AllCallers : caller'[d] = "wait" /\ done'[d] = "no" =>
            number'[d] \in pending' \/ (reader' = "dispatch" /\ resp'.id = number'[d])
      BY <1>0, <1>1, <2>1, <2>2 DEF WaitInv
    <3>3. reader' # "ended"
      BY <1>0, <1>1, <1>5 DEF WaitInv
    <3> QED
      BY <3>1, <3>2, <3>3 DEF WaitInv
  <2>10. OwnAnswer'
    BY <1>0, <1>1, <1>2, <2>1, <2>2 DEF OwnAnswer
  <2> QED
    BY <1>0, <1>1, <2>5, <2>7, <2>8, <2>9, <2>10 DEF ClientInv, WireOK, ReaderNeverBlocks
<1> QED
  BY <1>4, <1>5

\* A request is written and remembered, or its call gets the error.
LEMMA WriteRequestStep ==
  ASSUME ClientInv, NEW c \in AllCallers, WriteRequest(c)
  PROVE  ClientInv'
<1>0. ClientTypeOK /\ WireOK /\ NumberInv /\ MutexInv /\ WaitInv /\ OwnAnswer /\ ReaderNeverBlocks
  BY DEF ClientInv
<1>1. /\ caller[c] \in Writing /\ caller' = [caller EXCEPT ![c] = "wait"] /\ reqMutex' = Free
      /\ UNCHANGED <<seq, shutdown, number, reply, reader, resp, notifications, conn, wire,
                     sentByServer, proc>>
  BY DEF WriteRequest, readVars, connVars
<1>2. /\ \A d \in AllCallers : caller'[d] = IF d = c THEN "wait" ELSE caller[d]
      /\ \A d \in AllCallers : d # Free /\ (d # c => caller[d] \notin Writing)
      /\ Hack \in AllCallers /\ Callers \subseteq AllCallers
      /\ number \in [AllCallers -> Nat] /\ done \in [AllCallers -> {"no", "answer", "error"}]
      /\ number[c] <= seq /\ seq \in Nat
  <2>1. \A d \in AllCallers : caller'[d] = IF d = c THEN "wait" ELSE caller[d]
    BY <1>0, <1>1 DEF ClientTypeOK
  <2>2. \A d \in AllCallers : d # Free /\ (d # c => caller[d] \notin Writing)
    BY <1>0, <1>1, Names DEF MutexInv
  <2> QED
    BY <1>0, <2>1, <2>2, Names DEF ClientTypeOK, NumberInv
<1>3. /\ encErr' \in BOOLEAN /\ served' \subseteq Nat
      /\ pending' \in {pending, pending \cup {number[c]}} /\ pending' \subseteq 1 .. seq
  <2>1. /\ encErr' \in BOOLEAN
        /\ served' \in {served, served \cup {number[c]}}
        /\ \/ pending' = pending
           \/ pending' = pending \cup {number[c]} /\ number[c] # 0
    BY <1>0 DEF WriteRequest, WriteError, connVars, ClientTypeOK
  <2>2. number[c] \in Nat /\ (number[c] # 0 => number[c] \in 1 .. seq)
    BY <1>2
  <2>3. pending \subseteq 1 .. seq /\ served \subseteq Nat
    BY <1>0 DEF ClientTypeOK, WireOK
  <2> QED
    BY <2>1, <2>2, <2>3
<1>4. number[c] \in DOMAIN calls => calls[number[c]] = c
  BY <1>0, <1>1 DEF NumberInv
<1>5. CASE WriteError(c)
  <2>1. /\ DOMAIN calls' = DOMAIN calls \ {number[c]}
        /\ \A k \in DOMAIN calls : k # number[c] => calls'[k] = calls[k]
    BY <1>5 DEF WriteError, Remove
  <2>2. /\ \A d \in AllCallers : d # c => done'[d] = done[d]
        /\ done'[c] # "no" /\ (done'[c] = "answer" => done[c] = "answer")
        /\ done' \in [AllCallers -> {"no", "answer", "error"}]
    BY <1>0, <1>1, <1>2, <1>5 DEF WriteError, WaitInv
  <2>3. ClientTypeOK'
    <3>1. DOMAIN calls' \subseteq 0 .. seq /\ \A k \in DOMAIN calls' : calls'[k] \in AllCallers
      BY <1>0, <2>1 DEF ClientTypeOK
    <3> QED
      BY <1>0, <1>1, <1>3, <2>2, <3>1 DEF ClientTypeOK
  <2>4. NumberInv'
    BY <1>0, <1>1, <1>2, <2>1 DEF NumberInv, ClientTypeOK
  <2>5. MutexInv'
    BY <1>0, <1>1, <1>2, <2>2 DEF MutexInv
  <2>6. WaitInv'
    <3>1. \A d \in AllCallers : d # c /\ caller[d] = "wait" /\ done[d] = "no"
            => number[d] # number[c]
      BY <1>0, <1>4 DEF WaitInv
    <3>2. \A d \in AllCallers : caller'[d] \in {"wait"} \cup Writing /\ done'[d] = "no" =>
            number'[d] \in DOMAIN calls' /\ calls'[number'[d]] = d
      BY <1>0, <1>1, <1>2, <2>1, <2>2, <3>1 DEF WaitInv
    <3>3. \A d \in AllCallers : caller'[d] = "wait" /\ done'[d] = "no" =>
            number'[d] \in pending' \/ (reader' = "dispatch" /\ resp'.id = number'[d])
      BY <1>0, <1>1, <1>2, <1>3, <2>2 DEF WaitInv
    <3>4. reader # "ended"
      BY <1>0, <1>1 DEF WaitInv
    <3> QED
      BY <1>1, <3>2, <3>3, <3>4 DEF WaitInv
  <2>7. OwnAnswer'
    BY <1>0, <1>1, <1>2, <2>2 DEF OwnAnswer
  <2> QED
    BY <1>0, <1>1, <1>3, <2>3, <2>4, <2>5, <2>6, <2>7 DEF ClientInv, WireOK, ReaderNeverBlocks
<1>6. CASE pending' = pending \cup {number[c]} /\ UNCHANGED <<calls, done>>
  <2>1. ClientTypeOK'
    BY <1>0, <1>1, <1>3, <1>6 DEF ClientTypeOK
  <2>2. NumberInv'
    BY <1>0, <1>1, <1>2, <1>6 DEF NumberInv, ClientTypeOK
  <2>3. MutexInv'
    BY <1>0, <1>1, <1>2, <1>6 DEF MutexInv
  <2>4. WaitInv'
    <3>1. reader # "ended"
      BY <1>0, <1>1 DEF WaitInv
    <3> QED
      BY <1>0, <1>1, <1>2, <1>6, <3>1 DEF WaitInv
  <2> QED
    BY <1>0, <1>1, <1>3, <1>6, <2>1, <2>2, <2>3, <2>4
    DEF ClientInv, WireOK, ReaderNeverBlocks, OwnAnswer
<1> QED
  BY <1>5, <1>6 DEF WriteRequest

-----------------------------------------------------------------------------
(* The goroutine input.                                                    *)

\* The header of an answer moves its number from the codec's table to the reader;
\* a notification is announced only when there is room for it.
LEMMA ReadResponseHeaderStep ==
  ASSUME ClientInv, ReadResponseHeader
  PROVE  ClientInv'
<1>0. ClientTypeOK /\ WireOK /\ NumberInv /\ MutexInv /\ WaitInv /\ OwnAnswer /\ ReaderNeverBlocks
  BY DEF ClientInv
<1>1. /\ reader = "read" /\ wire' \in Leftovers(wire) /\ resp' = Head(wire) /\ wire # <<>>
      /\ UNCHANGED <<seq, calls, shutdown, reqMutex, caller, number, done, reply, notifications,
                     conn, encErr, served, sentByServer>>
  BY DEF ReadResponseHeader, rpcVars, callVars, connVars
<1>2. \/ /\ reader' \in {"read", "push", "end"} /\ pending' = pending
         /\ reader' = "push" => notifications < NotifCap
      \/ reader' = "dispatch" /\ pending' = pending \ {resp'.id}
  BY <1>0, <1>1 DEF ReadResponseHeader, ClientTypeOK
<1>3. proc' \in {"up", "fatal"}
  BY <1>0 DEF ReadResponseHeader, ClientTypeOK
<1>4. WireOK'
  BY <1>0, <1>1, LeftoversType DEF WireOK
<1>5. ClientTypeOK'
  BY <1>0, <1>1, <1>2, <1>3 DEF ClientTypeOK
<1>6. NumberInv' /\ MutexInv' /\ OwnAnswer'
  BY <1>0, <1>1 DEF NumberInv, MutexInv, OwnAnswer
<1>7. WaitInv'
  BY <1>0, <1>1, <1>2 DEF WaitInv
<1>8. ReaderNeverBlocks'
  BY <1>1, <1>2 DEF ReaderNeverBlocks
<1> QED
  BY <1>4, <1>5, <1>6, <1>7, <1>8 DEF ClientInv

\* The answer in the reader's hands completes the call with its number.
LEMMA DispatchStep ==
  ASSUME ClientInv, Dispatch
  PROVE  ClientInv'
<1>0. ClientTypeOK /\ WireOK /\ NumberInv /\ MutexInv /\ WaitInv /\ OwnAnswer /\ ReaderNeverBlocks
  BY DEF ClientInv
<1>1. /\ reader = "dispatch" /\ resp' = Empty
      /\ UNCHANGED <<seq, shutdown, reqMutex, pending, caller, number, notifications, conn, encErr,
                     wire, served, sentByServer, proc>>
  BY DEF Dispatch, connVars, serverVars
<1>2. WireOK'
  BY <1>0, <1>1 DEF WireOK, Empty, Message, AnyMessage, Kinds, Results
<1>3. resp.id \in Nat /\ Callers \subseteq AllCallers /\ Hack \in AllCallers
  BY <1>0 DEF WireOK, AnyMessage, AllCallers
<1>4. CASE resp.id \in DOMAIN calls
  <2> DEFINE c == calls[resp.id]
             s == IF resp.kind # "unfit" THEN "answer" ELSE "error"
  <2>1. /\ calls' = Remove(calls, resp.id) /\ done' = [done EXCEPT ![c] = s]
        /\ reply' \in {reply, [reply EXCEPT ![c] = resp.id]}
        /\ s = "answer" => reply' = [reply EXCEPT ![c] = resp.id]
        /\ reader' \in {"read", "end"}
    BY <1>4 DEF Dispatch
  <2>2. /\ c \in AllCallers /\ number[c] = resp.id /\ caller[c] \notin {"idle", "lock"}
        /\ c # Hack => resp.id # 0
    BY <1>0, <1>4 DEF ClientTypeOK, NumberInv
  <2>3. s \in {"answer", "error"}
    OBVIOUS
  <2> HIDE DEF c, s
  <2>4. /\ DOMAIN calls' = DOMAIN calls \ {resp.id}
        /\ \A k \in DOMAIN calls : k # resp.id => calls'[k] = calls[k]
    BY <2>1 DEF Remove
  <2>5. /\ \A d \in AllCallers : done'[d] = IF d = c THEN s ELSE done[d]
        /\ \A d \in AllCallers : d # c => reply'[d] = reply[d]
        /\ s = "answer" => reply'[c] = resp.id
    BY <1>0, <2>1, <2>2 DEF ClientTypeOK
  <2>6. ClientTypeOK'
    <3>1. done' \in [AllCallers -> {"no", "answer", "error"}] /\ reply' \in [AllCallers -> Nat]
      BY <1>0, <1>3, <2>1, <2>3 DEF ClientTypeOK
    <3>2. DOMAIN calls' \subseteq 0 .. seq /\ \A k \in DOMAIN calls' : calls'[k] \in AllCallers
      BY <1>0, <2>4 DEF ClientTypeOK
    <3> QED
      BY <1>0, <1>1, <2>1, <3>1, <3>2 DEF ClientTypeOK
  <2>7. NumberInv'
    BY <1>0, <1>1, <2>4 DEF NumberInv
  <2>8. MutexInv'
    BY <1>0, <1>1, <2>2, <2>5 DEF MutexInv
  <2>9. WaitInv'
    <3>1. \A d \in AllCallers : caller[d] \in {"wait"} \cup Writing /\ done[d] = "no" /\ d # c
            => number[d] # resp.id
      BY <1>0 DEF WaitInv, c
    <3>2. \A d \in AllCallers : done'[d] = "no" => d # c /\ done[d] = "no"
      BY <2>3, <2>5
    <3> QED
      BY <1>0, <1>1, <2>1, <2>4, <3>1, <3>2 DEF WaitInv
  <2>10. OwnAnswer'
    BY <1>0, <1>1, <1>3, <2>2, <2>3, <2>5 DEF OwnAnswer
  <2>11. ReaderNeverBlocks'
    BY <2>1 DEF ReaderNeverBlocks
  <2> QED
    BY <1>2, <2>6, <2>7, <2>8, <2>9, <2>10, <2>11 DEF ClientInv
<1>5. CASE resp.id \notin DOMAIN calls
  <2>1. reader' = "read" /\ UNCHANGED <<calls, done, reply>>
    BY <1>5 DEF Dispatch
  <2>2. ClientTypeOK' /\ NumberInv' /\ MutexInv' /\ OwnAnswer' /\ ReaderNeverBlocks'
    BY <1>0, <1>1, <2>1 DEF ClientTypeOK, NumberInv, MutexInv, OwnAnswer, ReaderNeverBlocks
  <2>3. WaitInv'
    BY <1>0, <1>1, <1>5, <2>1 DEF WaitInv
  <2> QED
    BY <1>2, <2>2, <2>3 DEF ClientInv
<1> QED
  BY <1>4, <1>5

\* When input ends nobody is writing, and every call in the table gets the error.
LEMMA InputEndsStep ==
  ASSUME ClientInv, InputEnds
  PROVE  ClientInv'
<1>0. ClientTypeOK /\ WireOK /\ NumberInv /\ MutexInv /\ WaitInv /\ OwnAnswer /\ ReaderNeverBlocks
  BY DEF ClientInv
<1>1. /\ reader = "end" /\ reqMutex = Free /\ reader' = "ended" /\ shutdown' = TRUE
      /\ done' = [c \in AllCallers |->
                    IF \E k \in DOMAIN calls : calls[k] = c THEN "error" ELSE done[c]]
      /\ UNCHANGED <<seq, calls, reqMutex, pending, caller, number, reply, resp, notifications,
                     conn, encErr, wire, served, sentByServer, proc>>
  BY DEF InputEnds, connVars, serverVars
<1>2. /\ \A c \in AllCallers : done'[c] \in {"error", done[c]}
      /\ \A c \in AllCallers : (\E k \in DOMAIN calls : calls[k] = c) => done'[c] = "error"
      /\ \A c \in AllCallers : done'[c] # done[c] => \E k \in DOMAIN calls : calls[k] = c
      /\ Callers \subseteq AllCallers /\ Hack \in AllCallers
  BY <1>1 DEF AllCallers
<1>3. ClientTypeOK'
  <2>1. done' \in [AllCallers -> {"no", "answer", "error"}]
    BY <1>0, <1>1 DEF ClientTypeOK
  <2>2. shutdown' \in BOOLEAN
    BY <1>1
  <2> QED
    BY <1>0, <1>1, <2>1, <2>2 DEF ClientTypeOK
<1>4. WireOK' /\ NumberInv' /\ ReaderNeverBlocks'
  BY <1>0, <1>1 DEF WireOK, NumberInv, ReaderNeverBlocks
<1>5. MutexInv'
  <2>1. \A c \in AllCallers : caller[c] \in {"idle", "lock"} => done'[c] = done[c]
    BY <1>0, <1>2 DEF NumberInv
  <2> QED
    BY <1>0, <1>1, <1>2, <2>1 DEF MutexInv
<1>6. WaitInv'
  <2>1. \A c \in AllCallers : caller[c] \notin Writing
    BY <1>0, <1>1, Names DEF MutexInv
  <2>2. \A c \in AllCallers : caller[c] = "wait" => done'[c] # "no"
    BY <1>0, <1>2 DEF WaitInv
  <2> QED
    BY <1>1, <2>1, <2>2 DEF WaitInv
<1>7. OwnAnswer'
  BY <1>0, <1>1, <1>2 DEF OwnAnswer
<1> QED
  BY <1>3, <1>4, <1>5, <1>6, <1>7 DEF ClientInv

-----------------------------------------------------------------------------
(* The other steps.                                                        *)

\* A server's message is one of the messages, with a number it was sent.
LEMMA ServerSendsType ==
  ASSUME WireOK, ServerSends
  PROVE  wire' \in Seq(AnyMessage)
<1>1. PICK m \in {Message(kind, id) : kind \in Results, id \in served \cup {0}}
                   \cup {Message(kind, 0) : kind \in Kinds \ Results} : wire' = Append(wire, m)
  BY DEF ServerSends
<1>2. m \in AnyMessage
  BY DEF WireOK, AnyMessage, Message, Kinds
<1> QED
  BY <1>1, <1>2 DEF WireOK

\* None of these touches a table or a call.
LEMMA QuietStep ==
  ASSUME ClientInv,
         \/ Notify \/ ReadEOF \/ ReceiveNotification \/ TakeNotification
         \/ ServerSends \/ ConnChanges \/ UNCHANGED vars
  PROVE  ClientInv'
<1>0. ClientTypeOK /\ WireOK /\ NumberInv /\ MutexInv /\ WaitInv /\ OwnAnswer /\ ReaderNeverBlocks
  BY DEF ClientInv
<1>1. UNCHANGED <<seq, calls, shutdown, reqMutex, pending, caller, number, done, reply, served, proc>>
  BY DEF Notify, ReadEOF, ReceiveNotification, TakeNotification, ServerSends, ConnChanges, vars,
         rpcVars, callVars, serverVars
<1>2. /\ conn' \in {"up", "stalled", "closed"} /\ encErr' \in BOOLEAN
      /\ sentByServer' \in 0 .. MaxMessages
  <2>1. encErr' \in BOOLEAN
    <3>1. CASE Notify
      BY <3>1 DEF Notify
    <3>2. CASE encErr' = encErr
      BY <1>0, <3>2 DEF ClientTypeOK
    <3> QED
      BY <3>1, <3>2
      DEF ReadEOF, ReceiveNotification, TakeNotification, ServerSends, ConnChanges, vars, connVars
  <2>2. conn' \in {"up", "stalled", "closed"} /\ sentByServer' \in 0 .. MaxMessages
    BY <1>0 DEF Notify, ReadEOF, ReceiveNotification, TakeNotification, ServerSends, ConnChanges,
                vars, connVars, serverVars, ClientTypeOK
  <2> QED
    BY <2>1, <2>2
<1>3. wire' \in Seq(AnyMessage)
  BY <1>0, ServerSendsType
  DEF Notify, ReadEOF, ReceiveNotification, TakeNotification, ConnChanges, vars, serverVars, WireOK
<1>4. /\ \/ reader' = reader /\ resp' = resp
         \/ reader = "read" /\ reader' = "end" /\ resp' = resp
         \/ reader = "push" /\ reader' = "dispatch" /\ resp' = Empty
      /\ notifications' \in 0 .. NotifCap
      /\ reader' = "push" => notifications' < NotifCap
  BY <1>0 DEF Notify, ReadEOF, ReceiveNotification, TakeNotification, ServerSends, ConnChanges,
              vars, readVars, ClientTypeOK, ReaderNeverBlocks
<1>5. WireOK'
  BY <1>0, <1>1, <1>3, <1>4 DEF WireOK, Empty, Message, AnyMessage, Kinds, Results
<1>6. ClientTypeOK'
  BY <1>0, <1>1, <1>2, <1>4 DEF ClientTypeOK
<1>7. NumberInv' /\ MutexInv' /\ OwnAnswer'
  BY <1>0, <1>1 DEF NumberInv, MutexInv, OwnAnswer
<1>8. WaitInv'
  BY <1>0, <1>1, <1>4 DEF WaitInv
<1>9. ReaderNeverBlocks'
  BY <1>4 DEF ReaderNeverBlocks
<1> QED
  BY <1>5, <1>6, <1>7, <1>8, <1>9 DEF ClientInv

-----------------------------------------------------------------------------
(* The theorems.                                                           *)

\* Both tables of calls, the callers and the reader agree in every reachable state.
THEOREM ClientInvariant == ClientSpec => []ClientInv
<1>1. ClientInit => ClientInv
  BY ClientInitially
<1>2. ClientInv /\ [ClientNext]_vars => ClientInv'
  <2> SUFFICES ASSUME ClientInv, [ClientNext]_vars PROVE ClientInv'
    OBVIOUS
  <2>1. ASSUME NEW c \in Callers, Call(c) PROVE ClientInv'
    BY <2>1, CallerStep
  <2>2. ASSUME NEW c \in AllCallers, Send(c) PROVE ClientInv'
    BY <2>2, SendStep
  <2>3. ASSUME NEW c \in AllCallers, WriteRequest(c) PROVE ClientInv'
    BY <2>3, WriteRequestStep
  <2>4. ASSUME NEW c \in AllCallers, Return(c) \/ Timeout(c) PROVE ClientInv'
    <3>1. c \in Callers
      BY <2>4 DEF Return, Timeout, AllCallers
    <3> QED
      BY <2>4, <3>1, CallerStep
  <2>5. CASE \/ Notify \/ ReadEOF \/ ReceiveNotification \/ TakeNotification
             \/ ServerSends \/ ConnChanges \/ UNCHANGED vars
    BY <2>5, QuietStep
  <2>6. CASE ReadResponseHeader
    BY <2>6, ReadResponseHeaderStep
  <2>7. CASE Dispatch
    BY <2>7, DispatchStep
  <2>8. CASE InputEnds
    BY <2>8, InputEndsStep
  <2> QED
    BY <2>1, <2>2, <2>3, <2>4, <2>5, <2>6, <2>7, <2>8 DEF ClientNext, Reader
<1> QED
  BY <1>1, <1>2, PTL DEF ClientSpec

\* Types of the client's fields; the number 0 never enters the codec's table.
THEOREM ClientTypes == ClientSpec => []ClientTypeOK
<1>1. ClientInv => ClientTypeOK
  BY DEF ClientInv
<1> QED
  BY <1>1, ClientInvariant, PTL

\* A call is completed only by the answer to its own request, whatever the server
\* repeats, delays or makes up.
THEOREM ClientOwnAnswer == ClientSpec => []OwnAnswer
<1>1. ClientInv => OwnAnswer
  BY DEF ClientInv
<1> QED
  BY <1>1, ClientInvariant, PTL

\* A call that waits is in both tables or in the reader's hands, and none waits for
\* a reader that is gone.
THEOREM ClientWaitingIsKnown == ClientSpec => []WaitingIsKnown
<1>1. ClientInv => WaitingIsKnown
  BY DEF ClientInv, WaitInv, WaitingIsKnown, AllCallers
<1> QED
  BY <1>1, ClientInvariant, PTL

\* The reader never waits on the channel of notifications, for any buffer.
THEOREM ClientReaderNeverBlocks == ClientSpec => []ReaderNeverBlocks
<1>1. ClientInv => ReaderNeverBlocks
  BY DEF ClientInv
<1> QED
  BY <1>1, ClientInvariant, PTL
=============================================================================
