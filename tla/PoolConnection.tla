--------------------------- MODULE PoolConnection ---------------------------
(***************************************************************************)
(* One xdag.Connection (server/xdag/connect.go): the TCP connection of a   *)
(* proxy to the XDAG pool, its reader and writer goroutines, and what its  *)
(* owner does with it: Start, SendBuffMsg, receiving from jobNotify, Close.*)
(*                                                                         *)
(* The RWMutex of the connection is not a variable.  Lock() is only held   *)
(* over code that cannot block (Stop, Close), so a step that takes it is   *)
(* one action.  RLock() is held across a channel send by the reader        *)
(* (control state "send") and by SendBuffMsg (pend # NoPacket); RLocked    *)
(* says that one of them holds it, and Lock() waits while it is true.      *)
(***************************************************************************)
EXTENDS Naturals, Sequences

CONSTANTS
  Frames,     \* the 32-byte fields a pool sends
  NotifyCap,  \* capacity of the channel jobNotify (Proxy.notify)
  MsgCap      \* capacity of the channel msgBuffChan

ASSUME CapacityAssumption ==
  /\ NotifyCap \in Nat \ {0}
  /\ MsgCap \in Nat \ {0}

VARIABLES
  rd,          \* control state of the StartReader goroutine
  wr,          \* control state of the StartWriter goroutine
  pend,        \* the packet SendBuffMsg is sending, under RLock
  msgs,        \* contents of msgBuffChan
  msgsOpen,    \* msgBuffChan is not closed
  sockOpen,    \* the TCP socket is open on this side
  cancelled,   \* cancel() was called: ctx.Done() is ready
  connClosed,  \* Connection.isClosed
  notify,      \* contents of jobNotify
  notifyOpen,  \* jobNotify is not closed
  poolDown,    \* xdag.PoolDown > 0 (one counter for all connections)
  chanPanic    \* a send on a closed channel, or a second close, happened

tornVars == <<msgsOpen, sockOpen, cancelled, connClosed>>
connVars == <<rd, wr, pend, msgs, tornVars, notify, notifyOpen, poolDown, chanPanic>>

Packets == {"address", "name", "share"}
NoPacket == "none"

ReaderStates == {"none", "top", "read", "deliver", "send", "stop", "exit"}
WriterStates == {"none", "top", "select", "write", "stop", "exit"}

\* The variables of a connection have the types of connect.go's fields, and
\* neither channel holds more than its capacity.
ConnTypeOK ==
  /\ rd \in ReaderStates /\ wr \in WriterStates
  /\ pend \in Packets \cup {NoPacket}
  /\ msgs \in Seq(Packets) /\ Len(msgs) <= MsgCap
  /\ notify \in Seq(Frames) /\ Len(notify) <= NotifyCap
  /\ msgsOpen \in BOOLEAN /\ sockOpen \in BOOLEAN
  /\ cancelled \in BOOLEAN /\ connClosed \in BOOLEAN
  /\ notifyOpen \in BOOLEAN /\ poolDown \in BOOLEAN /\ chanPanic \in BOOLEAN

\* NewProxy has made the notify channel and there is no connection yet.  What
\* NewConnection makes is in its first state here: nobody reaches it before
\* ConnStart.
ConnInit ==
  /\ rd = "none" /\ wr = "none"
  /\ pend = NoPacket
  /\ msgs = <<>> /\ msgsOpen = TRUE
  /\ sockOpen = TRUE /\ cancelled = FALSE /\ connClosed = FALSE
  /\ notify = <<>> /\ notifyOpen = TRUE
  /\ poolDown \in BOOLEAN
  /\ chanPanic = FALSE

RLocked == rd = "send" \/ pend # NoPacket

\* A goroutine of the connection waits in the Lock() of Stop.  A new RLock() may
\* still slip in before it, or may have to wait behind it.
LockWaiting == RLocked /\ (rd = "stop" \/ wr = "stop")

-----------------------------------------------------------------------------
(* Tearing the connection down.                                            *)

\* Mutant of TearDown: the context is not cancelled.
TearDownNoCancel ==
  /\ msgsOpen' = FALSE /\ sockOpen' = FALSE /\ connClosed' = TRUE
  /\ UNCHANGED cancelled

\* The common body of Stop and Close with the Lock held: the socket and the
\* channel are closed and the context cancelled.  On a closed connection this
\* changes nothing, which is the early return of the code.
TearDown ==
  /\ msgsOpen' = FALSE /\ sockOpen' = FALSE
  /\ cancelled' = TRUE /\ connClosed' = TRUE

\* Mutant of ClosesTwice: the isClosed test is missing.
ClosesTwiceUnguarded == ~msgsOpen

\* close(msgBuffChan) would be reached with the channel already closed.
ClosesTwice == ~connClosed /\ ~msgsOpen

-----------------------------------------------------------------------------
(* The reader goroutine.                                                   *)

\* The head of the loop: PoolDown, ctx.Done(), SetReadDeadline.
ReaderTop ==
  /\ rd = "top"
  /\ rd' = IF poolDown \/ cancelled \/ ~sockOpen THEN "stop" ELSE "read"
  /\ UNCHANGED <<wr, pend, msgs, tornVars, notify, notifyOpen, poolDown, chanPanic>>

\* io.ReadFull returns a whole field.
ReaderGotFrame ==
  /\ rd = "read" /\ sockOpen
  /\ rd' = "deliver"
  /\ UNCHANGED <<wr, pend, msgs, tornVars, notify, notifyOpen, poolDown, chanPanic>>

\* io.ReadFull fails: EOF, a broken or a locally closed socket.
ReaderBroken ==
  /\ rd = "read"
  /\ rd' = "stop"
  /\ UNCHANGED <<wr, pend, msgs, tornVars, notify, notifyOpen, poolDown, chanPanic>>

\* io.ReadFull meets its 128 second deadline: PoolDown.Add(1).
ReaderTimeout ==
  /\ rd = "read" /\ sockOpen
  /\ rd' = "stop"
  /\ poolDown' = TRUE
  /\ UNCHANGED <<wr, pend, msgs, tornVars, notify, notifyOpen, chanPanic>>

\* Mutant of ReaderLock: the closed flag is not tested under the RLock.
ReaderLockUnchecked ==
  /\ rd = "deliver"
  /\ rd' = "send"
  /\ UNCHANGED <<wr, pend, msgs, tornVars, notify, notifyOpen, poolDown, chanPanic>>

\* RLock; a closed connection drops the field and releases at once.
ReaderLock ==
  /\ rd = "deliver"
  /\ rd' = IF connClosed THEN "top" ELSE "send"
  /\ UNCHANGED <<wr, pend, msgs, tornVars, notify, notifyOpen, poolDown, chanPanic>>

\* Mutant of ReaderSend: the RLock is kept after the send.
ReaderSendKeepsLock ==
  /\ rd = "send" /\ Len(notify) < NotifyCap
  /\ \E f \in Frames : notify' = Append(notify, f)
  /\ UNCHANGED <<rd, wr, pend, msgs, tornVars, notifyOpen, poolDown, chanPanic>>

\* Mutant of ReaderSend: the field is queued whether there is room or not.
ReaderSendUnbounded ==
  /\ rd = "send"
  /\ rd' = "top"
  /\ \E f \in Frames : notify' = Append(notify, f)
  /\ UNCHANGED <<wr, pend, msgs, tornVars, notifyOpen, poolDown, chanPanic>>

\* jobNotify <- data, then RUnlock.  It waits while the channel is full, and
\* panics on a closed channel.
ReaderSend ==
  /\ rd = "send"
  /\ notifyOpen => Len(notify) < NotifyCap
  /\ rd' = "top"
  /\ chanPanic' = (chanPanic \/ ~notifyOpen)
  /\ \E f \in Frames : notify' = IF notifyOpen THEN Append(notify, f) ELSE notify
  /\ UNCHANGED <<wr, pend, msgs, tornVars, notifyOpen, poolDown>>

\* The deferred Stop: it waits for every RLock to be released.
ReaderStop ==
  /\ rd = "stop" /\ ~RLocked
  /\ rd' = "exit"
  /\ TearDown
  /\ chanPanic' = (chanPanic \/ ClosesTwice)
  /\ UNCHANGED <<wr, pend, msgs, notify, notifyOpen, poolDown>>

Reader == \/ ReaderTop \/ ReaderGotFrame \/ ReaderBroken \/ ReaderTimeout
          \/ ReaderLock \/ ReaderSend \/ ReaderStop

-----------------------------------------------------------------------------
(* The writer goroutine.                                                   *)

WriterTop ==
  /\ wr = "top"
  /\ wr' = IF poolDown THEN "stop" ELSE "select"
  /\ UNCHANGED <<rd, pend, msgs, tornVars, notify, notifyOpen, poolDown, chanPanic>>

\* select takes a packet from msgBuffChan.
WriterTake ==
  /\ wr = "select" /\ msgs # <<>>
  /\ wr' = "write"
  /\ msgs' = Tail(msgs)
  /\ UNCHANGED <<rd, pend, tornVars, notify, notifyOpen, poolDown, chanPanic>>

\* The packet is written.  There is no write deadline: while the socket is open
\* the write may succeed, fail, or wait; on a closed socket it fails.
WriterWrite ==
  /\ wr = "write"
  /\ wr' \in IF sockOpen THEN {"top", "stop"} ELSE {"stop"}
  /\ UNCHANGED <<rd, pend, msgs, tornVars, notify, notifyOpen, poolDown, chanPanic>>

\* select receives from the closed, drained msgBuffChan: logged, and again.
WriterSpin ==
  /\ wr = "select" /\ msgs = <<>> /\ ~msgsOpen
  /\ wr' = "top"
  /\ UNCHANGED <<rd, pend, msgs, tornVars, notify, notifyOpen, poolDown, chanPanic>>

\* select takes ctx.Done().
WriterCancelled ==
  /\ wr = "select" /\ cancelled
  /\ wr' = "stop"
  /\ UNCHANGED <<rd, pend, msgs, tornVars, notify, notifyOpen, poolDown, chanPanic>>

WriterStop ==
  /\ wr = "stop" /\ ~RLocked
  /\ wr' = "exit"
  /\ TearDown
  /\ chanPanic' = (chanPanic \/ ClosesTwice)
  /\ UNCHANGED <<rd, pend, msgs, notify, notifyOpen, poolDown>>

Writer == \/ WriterTop \/ WriterTake \/ WriterWrite
          \/ WriterSpin \/ WriterCancelled \/ WriterStop

-----------------------------------------------------------------------------
(* What the owner of the connection, a Proxy, does with it.                *)

\* NewConnection and Start: both goroutines begin.
ConnStart ==
  /\ rd = "none"
  /\ rd' = "top" /\ wr' = "top"
  /\ UNCHANGED <<pend, msgs, tornVars, notify, notifyOpen, poolDown, chanPanic>>

\* SendBuffMsg(m): an error on a closed connection; on an open one the RLock
\* is kept until the channel takes the packet.
SendBuffMsg(m) ==
  /\ rd # "none" /\ pend = NoPacket
  /\ pend' = IF connClosed THEN NoPacket ELSE m
  /\ UNCHANGED <<rd, wr, msgs, tornVars, notify, notifyOpen, poolDown, chanPanic>>

SendBuffDone ==
  /\ pend # NoPacket
  /\ msgsOpen => Len(msgs) < MsgCap
  /\ pend' = NoPacket
  /\ chanPanic' = (chanPanic \/ ~msgsOpen)
  /\ msgs' = IF msgsOpen THEN Append(msgs, pend) ELSE msgs
  /\ UNCHANGED <<rd, wr, tornVars, notify, notifyOpen, poolDown>>

\* What Proxy.shutdown does for cl = 1 and cl = 2: the channel is closed, a
\* connection is not.
ReleaseOnly ==
  /\ notifyOpen' = FALSE
  /\ chanPanic' = (chanPanic \/ ~notifyOpen)
  /\ UNCHANGED <<rd, wr, pend, msgs, tornVars, notify, poolDown>>

\* The owner gives the connection up: Close() on it, if there is one, and then
\* close(notify).  This is the order in Proxy.shutdown(0), Close and Remove.
CloseAndRelease ==
  /\ rd # "none" => ~RLocked
  /\ IF rd = "none" THEN UNCHANGED tornVars ELSE TearDown
  /\ notifyOpen' = FALSE
  /\ chanPanic' = (chanPanic \/ ~notifyOpen \/ (rd # "none" /\ ClosesTwice))
  /\ UNCHANGED <<rd, wr, pend, msgs, notify, poolDown>>

\* The Run loop takes a field from the channel.
TakeNotify ==
  /\ notify # <<>>
  /\ notify' = Tail(notify)
  /\ UNCHANGED <<rd, wr, pend, msgs, tornVars, notifyOpen, poolDown, chanPanic>>

\* Other connections raise the shared PoolDown, PoolDetect clears it.
PoolDownElsewhere ==
  /\ poolDown' \in BOOLEAN
  /\ UNCHANGED <<rd, wr, pend, msgs, tornVars, notify, notifyOpen, chanPanic>>

\* A proxy starts a connection, and gives it up, only while its notify channel
\* is open (Proxy.isClosed is false), and gives it up once.
ConnNext ==
  \/ Reader \/ Writer
  \/ notifyOpen /\ ConnStart
  \/ \E m \in Packets : SendBuffMsg(m)
  \/ SendBuffDone
  \/ notifyOpen /\ CloseAndRelease
  \/ TakeNotify
  \/ PoolDownElsewhere

ConnSafeSpec == ConnInit /\ [][ConnNext]_connVars

\* Goroutines that can run do run.  Lock() is not starved by RLock() (a Go
\* RWMutex lets no new reader past a waiting writer, so an RLock() is only sure
\* to be granted while no Lock() waits) and a select that finds
\* ctx.Done() ready takes it sooner or later (the choice is random): both are
\* strong fairness.  A read ends because it has a deadline; a write has none and
\* is only sure to end on a closed socket.  Nothing is assumed of the owner, who
\* may leave notify full, or of the pool, which may stop reading.
ConnFairness ==
  /\ WF_connVars(ReaderTop) /\ WF_connVars(ReaderBroken)
  /\ WF_connVars(~LockWaiting /\ ReaderLock) /\ WF_connVars(ReaderSend)
  /\ SF_connVars(ReaderStop)
  /\ WF_connVars(WriterTop) /\ WF_connVars(WriterTake)
  /\ WF_connVars(~sockOpen /\ WriterWrite)
  /\ SF_connVars(WriterCancelled) /\ SF_connVars(WriterStop)
  /\ WF_connVars(SendBuffDone)

ConnSpec == ConnSafeSpec /\ ConnFairness

-----------------------------------------------------------------------------
(* Properties.                                                             *)

\* connect.go never sends on a closed channel and never closes one twice: the
\* reader against close(notify), SendBuffMsg against close(msgBuffChan), and
\* Stop of the two goroutines against each other and against Close.
NoChanPanic == ~chanPanic

\* While a send holds the RLock the connection and the channel it sends on
\* stay open: what the isClosed test under the RLock is for.
SendersSeeOpen ==
  /\ rd = "send" => ~connClosed /\ notifyOpen
  /\ pend # NoPacket => msgsOpen /\ sockOpen

\* A connection that was torn down by either goroutine or by its owner takes
\* both goroutines with it.
TornDownGoroutinesExit == connClosed ~> (rd = "exit" /\ wr = "exit")

\* SendBuffMsg waits, under RLock, for room in a channel whose only reader has
\* left its loop and waits for the Lock.
SenderWedged == pend # NoPacket /\ Len(msgs) = MsgCap /\ wr = "stop"

\* A SendBuffMsg that is wedged stays so: its RLock keeps everybody out who could close
\* the connection under it, the reader's Stop and the owner's Close included.
WedgeIsForGood == [][SenderWedged => SenderWedged']_connVars

\* A send waits, under RLock, for room in its channel: SendBuffMsg for the writer,
\* or the reader for the owner's Run loop.
NoRoom ==
  \/ pend # NoPacket /\ Len(msgs) = MsgCap
  \/ rd = "send" /\ Len(notify) = NotifyCap

\* A goroutine that leaves its loop gets through its deferred Stop, unless from
\* some moment on a send under RLock never finds room again: because Run takes no
\* field any more, because the pool reads no packet any more, or because the
\* writer that would make room is itself the one in Stop (SenderWedged).
StopCompletes ==
  /\ (rd = "stop") ~> (rd = "exit" \/ []NoRoom)
  /\ (wr = "stop") ~> (wr = "exit" \/ []NoRoom)
=============================================================================
