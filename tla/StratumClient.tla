--------------------------- MODULE StratumClient ----------------------------
(***************************************************************************)
(* The stratum client (server/stratum/client.go): Client.Call with its     *)
(* timeout, the codec's WriteRequest and ReadResponseHeader, and the       *)
(* channel of notifications from the server.                               *)
(*                                                                         *)
(* net/rpc's Client is external: send takes reqMutex, gives the call the   *)
(* next sequence number, enters it in its own table of calls and writes    *)
(* the request; one goroutine, input, reads headers and hands each answer  *)
(* to its call; an error of a read ends that goroutine, after which every  *)
(* call still in the table gets the error.                                 *)
(***************************************************************************)
EXTENDS Naturals, Sequences

CONSTANTS
  Callers,      \* goroutines that use Client.Call, once each
  NotifCap,     \* notificationBufferLength
  MaxMessages   \* bound: messages the server sends

Hack == "incrementMySequence"  \* the call NewClient makes to use up number 0
Free == "free"

ASSUME ClientAssumption ==
  /\ Hack \notin Callers /\ Free \notin Callers
  /\ NotifCap \in Nat \ {0} /\ MaxMessages \in Nat

VARIABLES
  seq,           \* rpc.Client.seq
  calls,         \* rpc.Client.pending: sequence number to caller
  shutdown,      \* rpc.Client.shutdown
  reqMutex,      \* its holder
  pending,       \* clientCodec.pending (its keys)
  caller,        \* control state of each Call
  number,        \* the sequence number each was given
  done,          \* what is in the channel call.Done
  reply,         \* the answer each call's reply was unmarshalled from
  reader,        \* control state of the goroutine input
  resp,          \* what it has read
  notifications, \* length of clientCodec.notifications
  conn,          \* the connection: up, stalled (server does not read), closed
  encErr,        \* the encoder has failed
  wire,          \* external: messages that have arrived from the server
  served,        \* external: the requests the server has received
  sentByServer,  \* external: how many messages the server has sent
  proc           \* the process: up, fatal (log.Fatal)

rpcVars == <<seq, calls, shutdown, reqMutex>>
callVars == <<caller, number, done, reply>>
readVars == <<reader, resp, notifications>>
connVars == <<conn, encErr>>
serverVars == <<wire, served, sentByServer>>
vars == <<rpcVars, pending, callVars, readVars, connVars, serverVars, proc>>

AllCallers == Callers \cup {Hack}

\* The messages of the server, by what ReadResponseHeader makes of them: a result
\* that fits the reply or not, an error answer, an answer without the jsonrpc
\* member (it is taken for a notification), one with the id null, a
\* notification, or bytes that are no JSON (the rest of a message whose head was
\* read with an earlier one).
Message(kind, id) == [kind |-> kind, id |-> id]
Empty == Message("notification", 0)
Results == {"result", "unfit"}
Kinds == Results \cup {"error", "lax", "nullId", "notification", "torn"}

\* A call in WriteRequest, by its params: of a supported type and written, of a type
\* it refuses, or of a supported type with a value that cannot be encoded as JSON.
Writing == {"write", "unsupported", "unencodable"}

Remove(f, k) == [j \in DOMAIN f \ {k} |-> f[j]]

\* The variables have the types of the code's.
ClientTypeOK ==
  /\ seq \in Nat /\ shutdown \in BOOLEAN /\ pending \subseteq 1 .. seq
  /\ DOMAIN calls \subseteq 0 .. seq /\ \A k \in DOMAIN calls : calls[k] \in AllCallers
  /\ reqMutex \in AllCallers \cup {Free}
  /\ caller \in [AllCallers -> {"idle", "lock", "wait", "ok", "error", "timeout"} \cup Writing]
  /\ number \in [AllCallers -> Nat]
  /\ done \in [AllCallers -> {"no", "answer", "error"}]
  /\ reply \in [AllCallers -> Nat]
  /\ reader \in {"read", "push", "dispatch", "end", "ended"}
  /\ notifications \in 0 .. NotifCap
  /\ conn \in {"up", "stalled", "closed"} /\ encErr \in BOOLEAN
  /\ sentByServer \in 0 .. MaxMessages /\ proc \in {"up", "fatal"}

\* Mutant of ClientInit: NewClient makes no call of its own.
ClientInitNoCall ==
  /\ seq = 0 /\ calls = [k \in {} |-> Hack] /\ shutdown = FALSE /\ reqMutex = Free
  /\ pending = {}
  /\ caller = [c \in AllCallers |-> IF c = Hack THEN "wait" ELSE "idle"]
  /\ number = [c \in AllCallers |-> 0] /\ done = [c \in AllCallers |-> "no"]
  /\ reply = [c \in AllCallers |-> 0]
  /\ reader = "read" /\ resp = Empty /\ notifications = 0
  /\ conn = "up" /\ encErr = FALSE
  /\ wire = <<>> /\ served = {} /\ sentByServer = 0
  /\ proc = "up"

\* NewClient: the input goroutine runs, the call "incrementMySequence" is made.
ClientInit ==
  /\ seq = 0 /\ calls = [k \in {} |-> Hack] /\ shutdown = FALSE /\ reqMutex = Free
  /\ pending = {}
  /\ caller = [c \in AllCallers |-> IF c = Hack THEN "lock" ELSE "idle"]
  /\ number = [c \in AllCallers |-> 0] /\ done = [c \in AllCallers |-> "no"]
  /\ reply = [c \in AllCallers |-> 0]
  /\ reader = "read" /\ resp = Empty /\ notifications = 0
  /\ conn = "up" /\ encErr = FALSE
  /\ wire = <<>> /\ served = {} /\ sentByServer = 0
  /\ proc = "up"

-----------------------------------------------------------------------------
(* Client.Call, and net/rpc's send.                                        *)

\* Client.Call, on the client NewClient has returned.
Call(c) ==
  /\ caller[c] = "idle" /\ caller[Hack] = "wait"
  /\ caller' = [caller EXCEPT ![c] = "lock"]
  /\ UNCHANGED <<rpcVars, pending, number, done, reply, readVars, connVars, serverVars, proc>>

\* send: a client that is down refuses, otherwise the call is registered and
\* reqMutex is kept for the write.  The params the call came with are chosen here.
Send(c) ==
  /\ caller[c] = "lock" /\ reqMutex = Free
  /\ IF shutdown
       THEN /\ caller' = [caller EXCEPT ![c] = "wait"] /\ done' = [done EXCEPT ![c] = "error"]
            /\ UNCHANGED <<rpcVars, number>>
       ELSE /\ \E w \in Writing : caller' = [caller EXCEPT ![c] = w]
            /\ number' = [number EXCEPT ![c] = seq] /\ seq' = seq + 1
            /\ calls' = [k \in DOMAIN calls \cup {seq} |-> IF k = seq THEN c ELSE calls[k]]
            /\ reqMutex' = c /\ UNCHANGED <<shutdown, done>>
  /\ UNCHANGED <<pending, reply, readVars, connVars, serverVars, proc>>

\* WriteRequest failed: send takes the call out of its table again, unless it has
\* been completed meanwhile.
WriteError(c) ==
  /\ calls' = Remove(calls, number[c])
  /\ done' = IF number[c] \in DOMAIN calls THEN [done EXCEPT ![c] = "error"] ELSE done
  /\ UNCHANGED served

\* Mutant of WriteRequest: the number 0 is sent like any other.
WriteRequestZero(c) ==
  /\ caller[c] \in Writing /\ conn = "up"
  /\ pending' = pending \cup {number[c]} /\ served' = served \cup {number[c]}
  /\ caller' = [caller EXCEPT ![c] = "wait"] /\ reqMutex' = Free
  /\ UNCHANGED <<seq, calls, shutdown, number, done, reply, readVars, connVars, wire,
                 sentByServer, proc>>

\* Mutant of WriteRequest: the request is not remembered in pending.
WriteRequestForgets(c) ==
  /\ caller[c] \in Writing
  /\ \/ /\ number[c] = 0 \/ caller[c] # "write"
        /\ WriteError(c) /\ UNCHANGED connVars
     \/ /\ number[c] # 0 /\ caller[c] = "write" /\ (conn # "stalled" \/ encErr)
        /\ encErr' = (encErr \/ conn = "closed")
        /\ IF encErr' THEN WriteError(c)
                      ELSE served' = served \cup {number[c]} /\ UNCHANGED <<calls, done>>
        /\ UNCHANGED conn
  /\ caller' = [caller EXCEPT ![c] = "wait"] /\ reqMutex' = Free
  /\ UNCHANGED <<seq, shutdown, pending, number, reply, readVars, wire, sentByServer, proc>>

\* WriteRequest: the number 0 and params that are no array, slice, map or struct
\* are refused; any other request is remembered in pending.  Encode may then fail
\* to encode it, which does not touch the connection, or to write it.
WriteRequest(c) ==
  /\ caller[c] \in Writing
  /\ \/ /\ number[c] = 0 \/ caller[c] = "unsupported"
        /\ WriteError(c) /\ UNCHANGED <<pending, connVars>>
     \/ /\ number[c] # 0 /\ caller[c] = "unencodable"
        /\ pending' = pending \cup {number[c]}
        /\ WriteError(c) /\ UNCHANGED connVars
     \/ /\ number[c] # 0 /\ caller[c] = "write" /\ (conn # "stalled" \/ encErr)
        /\ pending' = pending \cup {number[c]}
        /\ encErr' = (encErr \/ conn = "closed")
        /\ IF encErr' THEN WriteError(c)
                      ELSE served' = served \cup {number[c]} /\ UNCHANGED <<calls, done>>
        /\ UNCHANGED conn
  /\ caller' = [caller EXCEPT ![c] = "wait"] /\ reqMutex' = Free
  /\ UNCHANGED <<seq, shutdown, number, reply, readVars, wire, sentByServer, proc>>

\* The two cases of Call's select.  Nobody waits for the call of NewClient.
Return(c) ==
  /\ c # Hack /\ caller[c] = "wait" /\ done[c] # "no"
  /\ caller' = [caller EXCEPT ![c] = IF done[c] = "answer" THEN "ok" ELSE "error"]
  /\ UNCHANGED <<rpcVars, pending, number, done, reply, readVars, connVars, serverVars, proc>>

\* Mutant of Timeout: Call waits for call.Done only.
TimeoutNever(c) ==
  /\ FALSE
  /\ UNCHANGED vars

Timeout(c) ==
  /\ c # Hack /\ caller[c] = "wait"
  /\ caller' = [caller EXCEPT ![c] = "timeout"]
  /\ UNCHANGED <<rpcVars, pending, number, done, reply, readVars, connVars, serverVars, proc>>

\* Client.Notify writes a request that no table knows, without reqMutex.
Notify ==
  /\ caller[Hack] = "wait"
  /\ encErr' = (encErr \/ conn = "closed")
  /\ UNCHANGED <<rpcVars, pending, callVars, readVars, conn, serverVars, proc>>

-----------------------------------------------------------------------------
(* The input goroutine.                                                    *)

\* What a read leaves of the messages that have arrived: each call of
\* ReadResponseHeader has a decoder of its own, and what that decoder read past
\* the first message is lost, perhaps only the head of the next one.
Leftovers(w) ==
  {SubSeq(w, n, Len(w)) : n \in 2 .. Len(w) + 1}
    \cup {<<Message("torn", 0)>> \o SubSeq(w, n + 1, Len(w)) : n \in 2 .. Len(w)}

\* Mutant of ReadResponseHeader: the buffer is thought full one too late.
ReadResponseHeaderFull ==
  /\ reader = "read" /\ wire # <<>>
  /\ wire' \in Leftovers(wire)
  /\ resp' = Head(wire)
  /\ \/ resp'.kind \in {"notification", "lax"} /\ UNCHANGED pending
        /\ IF notifications > NotifCap
             THEN proc' = "fatal" /\ UNCHANGED reader
             ELSE reader' = "push" /\ UNCHANGED proc
     \/ resp'.kind \in Results /\ reader' = "dispatch"
        /\ pending' = pending \ {resp'.id} /\ UNCHANGED proc
  /\ UNCHANGED <<rpcVars, callVars, notifications, connVars, served, sentByServer>>

\* ReadResponseHeader: an answer is looked up; a notification is announced, and
\* kills the program when the buffer is full; an error answer, the id null and
\* what cannot be decoded end the goroutine.
ReadResponseHeader ==
  /\ reader = "read" /\ wire # <<>>
  /\ wire' \in Leftovers(wire)
  /\ resp' = Head(wire)
  /\ \/ resp'.kind \in {"notification", "lax"} /\ UNCHANGED pending
        /\ IF notifications >= NotifCap
             THEN proc' = "fatal" /\ UNCHANGED reader
             ELSE reader' = "push" /\ UNCHANGED proc
     \/ resp'.kind \in Results /\ reader' = "dispatch"
        /\ pending' = pending \ {resp'.id} /\ UNCHANGED proc
     \/ resp'.kind \in {"error", "nullId", "torn"} /\ reader' = "end"
        /\ UNCHANGED <<pending, proc>>
  /\ UNCHANGED <<rpcVars, callVars, notifications, connVars, served, sentByServer>>

\* End of file, or a broken connection.
ReadEOF ==
  /\ reader = "read" /\ conn = "closed" /\ reader' = "end"
  /\ UNCHANGED <<rpcVars, pending, callVars, resp, notifications, connVars, serverVars, proc>>

\* receiveNotification: the send into the channel.  The header keeps the sequence
\* number 0 of an empty Response.
ReceiveNotification ==
  /\ reader = "push" /\ notifications < NotifCap
  /\ notifications' = notifications + 1
  /\ reader' = "dispatch" /\ resp' = Empty
  /\ UNCHANGED <<rpcVars, pending, callVars, connVars, serverVars, proc>>

\* input: the call with this number, if there is one, is taken out of the table,
\* ReadResponseBody fills its reply and it is done.  A result that does not fit is
\* an error of this call and ends the goroutine.
Dispatch ==
  /\ reader = "dispatch"
  /\ IF resp.id \in DOMAIN calls
       THEN LET c == calls[resp.id]
                fits == resp.kind # "unfit"
            IN  /\ calls' = Remove(calls, resp.id)
                /\ done' = [done EXCEPT ![c] = IF fits THEN "answer" ELSE "error"]
                /\ reply' = IF fits THEN [reply EXCEPT ![c] = resp.id] ELSE reply
                /\ reader' = IF fits THEN "read" ELSE "end"
       ELSE reader' = "read" /\ UNCHANGED <<calls, done, reply>>
  /\ resp' = Empty
  /\ UNCHANGED <<seq, shutdown, reqMutex, pending, caller, number, notifications, connVars,
                 serverVars, proc>>

\* The end of input: with reqMutex, so that no call is being written, every call
\* in the table gets the error.
InputEnds ==
  /\ reader = "end" /\ reqMutex = Free
  /\ reader' = "ended" /\ shutdown' = TRUE
  /\ done' = [c \in AllCallers |->
                IF \E k \in DOMAIN calls : calls[k] = c THEN "error" ELSE done[c]]
  /\ UNCHANGED <<seq, calls, reqMutex, pending, caller, number, reply, resp, notifications,
                 connVars, serverVars, proc>>

-----------------------------------------------------------------------------
(* The user of Notifications, and the server.                              *)

TakeNotification ==
  /\ notifications > 0 /\ notifications' = notifications - 1
  /\ UNCHANGED <<rpcVars, pending, callVars, reader, resp, connVars, serverVars, proc>>

\* External: an answer to a request it has received, perhaps not the first one to
\* it, an answer to a number it was never sent, or a notification.  (What other answers
\* name is not looked at.)
ServerSends ==
  /\ conn # "closed" /\ sentByServer < MaxMessages
  /\ \E m \in {Message(kind, id) : kind \in Results, id \in served \cup {0}}
             \cup {Message(kind, 0) : kind \in Kinds \ Results} :
       wire' = Append(wire, m)
  /\ sentByServer' = sentByServer + 1
  /\ UNCHANGED <<rpcVars, pending, callVars, readVars, connVars, served, proc>>

ConnChanges ==
  /\ conn # "closed" /\ conn' \in {"up", "stalled", "closed"} \ {conn}
  /\ UNCHANGED <<rpcVars, pending, callVars, readVars, encErr, serverVars, proc>>

Reader ==
  ReadResponseHeader \/ ReadEOF \/ ReceiveNotification \/ Dispatch \/ InputEnds

ClientNext ==
  /\ proc = "up"
  /\ \/ \E c \in Callers : Call(c)
     \/ \E c \in AllCallers : Send(c) \/ WriteRequest(c) \/ Return(c) \/ Timeout(c)
     \/ Notify \/ Reader \/ TakeNotification \/ ServerSends \/ ConnChanges

\* Goroutines run, mutexes are handed on, timers fire, and a blocked write goes on
\* whenever the server reads.
ClientSpec ==
  /\ ClientInit /\ [][ClientNext]_vars
  /\ WF_vars(proc = "up" /\ (ReceiveNotification \/ Dispatch \/ InputEnds))
  /\ \A c \in AllCallers :
       SF_vars(proc = "up" /\ (Send(c) \/ WriteRequest(c) \/ Return(c) \/ Timeout(c)))

-----------------------------------------------------------------------------
(* Properties.                                                             *)

\* A call is completed only by the answer to its own request: not by a
\* notification, which net/rpc sees as an answer to the number 0, not by a late
\* answer to a call that has timed out, and not by a second answer.
OwnAnswer ==
  \A c \in Callers : done[c] = "answer" => reply[c] = number[c] /\ number[c] # 0

\* A call that waits is known to whoever must end it: until it is done it is in
\* both tables, or the reader holds its answer, or send is just writing it.  Once
\* the goroutine input has ended no call is left to its timeout.
WaitingIsKnown ==
  \A c \in Callers : caller[c] = "wait" /\ done[c] = "no" =>
    /\ number[c] \in DOMAIN calls /\ calls[number[c]] = c
    /\ number[c] \in pending \/ (reader = "dispatch" /\ resp.id = number[c])
    /\ reader # "ended"

\* The reader, whose blocking would hold up every answer, never waits on the
\* channel of notifications: nobody else fills it after the check.
ReaderNeverBlocks == reader = "push" => notifications < NotifCap

\* Every Call returns, by an answer, an error or its timeout, whatever the server
\* does except to stop reading for good: the timeout starts after the write.
CallReturns ==
  []<>(conn # "stalled") =>
    \A c \in Callers :
      (caller[c] = "lock") ~> (caller[c] \in {"ok", "error", "timeout"} \/ proc = "fatal")
=============================================================================
