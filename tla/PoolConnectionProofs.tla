------------------------ MODULE PoolConnectionProofs ------------------------
(***************************************************************************)
(* Safety of one pool connection, for every capacity of its two channels   *)
(* and every set of fields.                                                *)
(***************************************************************************)
EXTENDS PoolConnection, TLAPS

\* The four things Stop and Close change, change together.
TornTogether ==
  /\ connClosed <=> ~msgsOpen
  /\ connClosed <=> ~sockOpen
  /\ connClosed <=> cancelled

\* A goroutine that holds the RLock has seen the connection open, and nobody
\* closes it before the RLock is released.
HoldersKeepOpen == RLocked => ~connClosed

\* The owner's side: there is nothing to close, to send on or to hold before
\* the connection was started, and it is closed before the channel is.
OwnerOrder ==
  /\ rd = "none" <=> wr = "none"
  /\ rd = "none" => pend = NoPacket /\ ~connClosed
  /\ ~notifyOpen => rd = "none" \/ connClosed

ConnInv ==
  ConnTypeOK /\ TornTogether /\ HoldersKeepOpen /\ OwnerOrder /\ NoChanPanic

\* A receive takes one element off a channel's sequence.
LEMMA TailOfBounded ==
  ASSUME NEW S, NEW q \in Seq(S), q # <<>>
  PROVE  Tail(q) \in Seq(S) /\ Len(Tail(q)) = Len(q) - 1
OBVIOUS

\* A send adds one element to a channel's sequence.
LEMMA AppendToBounded ==
  ASSUME NEW S, NEW q \in Seq(S), NEW e \in S
  PROVE  Append(q, e) \in Seq(S) /\ Len(Append(q, e)) = Len(q) + 1
OBVIOUS

\* The invariant holds when NewProxy has made the channel.
LEMMA ConnInitInv == ConnInit => ConnInv
<1> SUFFICES ASSUME ConnInit PROVE ConnInv
  OBVIOUS
<1> USE DEF ConnInit
<1>1. msgs \in Seq(Packets) /\ Len(msgs) <= MsgCap
  BY CapacityAssumption
<1>2. notify \in Seq(Frames) /\ Len(notify) <= NotifyCap
  BY CapacityAssumption
<1>3. ConnTypeOK
  BY <1>1, <1>2, Zenon DEF ConnTypeOK, ReaderStates, WriterStates
<1>4. TornTogether /\ HoldersKeepOpen /\ OwnerOrder /\ NoChanPanic
  BY Zenon DEF TornTogether, HoldersKeepOpen, OwnerOrder, NoChanPanic, RLocked, NoPacket
<1> QED BY <1>3, <1>4 DEF ConnInv

\* Every step of the reader preserves the invariant.
LEMMA ReaderStepInv == ConnInv /\ Reader => ConnInv'
<1> SUFFICES ASSUME ConnInv, Reader PROVE ConnInv'
  OBVIOUS
<1> USE DEF ConnInv, TornTogether, HoldersKeepOpen, OwnerOrder, NoChanPanic,
            RLocked, tornVars
<1>1. CASE ReaderTop
  BY <1>1 DEF ReaderTop, ConnTypeOK, ReaderStates
<1>2. CASE ReaderGotFrame
  BY <1>2 DEF ReaderGotFrame, ConnTypeOK, ReaderStates
<1>3. CASE ReaderBroken
  BY <1>3 DEF ReaderBroken, ConnTypeOK, ReaderStates
<1>4. CASE ReaderTimeout
  BY <1>4 DEF ReaderTimeout, ConnTypeOK, ReaderStates
<1>5. CASE ReaderLock
  BY <1>5 DEF ReaderLock, ConnTypeOK, ReaderStates
<1>6. CASE ReaderSend
  <2>1. ~connClosed /\ notifyOpen
    BY <1>6 DEF ReaderSend
  <2>2. PICK f \in Frames : notify' = Append(notify, f)
    BY <1>6, <2>1 DEF ReaderSend
  <2>3. notify' \in Seq(Frames) /\ Len(notify') <= NotifyCap
    <3>1. Len(notify) \in Nat /\ Len(notify) < NotifyCap
      BY <1>6, <2>1 DEF ReaderSend, ConnTypeOK
    <3>2. Len(notify') = Len(notify) + 1 /\ notify' \in Seq(Frames)
      BY <2>2, AppendToBounded DEF ConnTypeOK
    <3> QED BY <3>1, <3>2, CapacityAssumption
  <2> QED BY <1>6, <2>1, <2>3 DEF ReaderSend, ConnTypeOK, ReaderStates
<1>7. CASE ReaderStop
  <2>1. ~ClosesTwice
    BY DEF ClosesTwice
  <2> QED BY <1>7, <2>1 DEF ReaderStop, TearDown, ConnTypeOK, ReaderStates
<1> QED BY <1>1, <1>2, <1>3, <1>4, <1>5, <1>6, <1>7 DEF Reader

\* Every step of the writer preserves the invariant.
LEMMA WriterStepInv == ConnInv /\ Writer => ConnInv'
<1> SUFFICES ASSUME ConnInv, Writer PROVE ConnInv'
  OBVIOUS
<1> USE DEF ConnInv, TornTogether, HoldersKeepOpen, OwnerOrder, NoChanPanic,
            RLocked, tornVars
<1>1. CASE WriterTop
  BY <1>1 DEF WriterTop, ConnTypeOK, WriterStates
<1>2. CASE WriterTake
  <2>1. msgs' \in Seq(Packets) /\ Len(msgs') <= MsgCap
    <3>1. Len(msgs) \in Nat /\ Len(msgs) <= MsgCap
      BY DEF ConnTypeOK
    <3>2. Len(msgs') = Len(msgs) - 1 /\ msgs' \in Seq(Packets)
      BY <1>2, TailOfBounded DEF WriterTake, ConnTypeOK
    <3> QED BY <3>1, <3>2, CapacityAssumption
  <2> QED BY <1>2, <2>1 DEF WriterTake, ConnTypeOK, WriterStates
<1>6. CASE WriterWrite
  <2>1. wr' \in {"top", "stop"}
    BY <1>6 DEF WriterWrite
  <2> QED BY <1>6, <2>1 DEF WriterWrite, ConnTypeOK, WriterStates
<1>3. CASE WriterSpin
  BY <1>3 DEF WriterSpin, ConnTypeOK, WriterStates
<1>4. CASE WriterCancelled
  BY <1>4 DEF WriterCancelled, ConnTypeOK, WriterStates
<1>5. CASE WriterStop
  <2>1. ~ClosesTwice
    BY DEF ClosesTwice
  <2> QED BY <1>5, <2>1 DEF WriterStop, TearDown, ConnTypeOK, WriterStates
<1> QED BY <1>1, <1>2, <1>3, <1>4, <1>5, <1>6 DEF Writer

\* What the owner does preserves the invariant: it starts a connection, and
\* gives it up, only while the notify channel is open.
LEMMA OwnerStepInv ==
  ConnInv /\ ConnNext => ConnInv' \/ Reader \/ Writer
<1> SUFFICES ASSUME ConnInv, ConnNext, ~Reader, ~Writer PROVE ConnInv'
  OBVIOUS
<1> USE DEF ConnInv, TornTogether, HoldersKeepOpen, OwnerOrder, NoChanPanic,
            RLocked, tornVars
<1>1. CASE notifyOpen /\ ConnStart
  BY <1>1 DEF ConnStart, ConnTypeOK, ReaderStates, WriterStates
<1>2. ASSUME NEW m \in Packets, SendBuffMsg(m) PROVE ConnInv'
  BY <1>2 DEF SendBuffMsg, ConnTypeOK
<1>3. CASE SendBuffDone
  <2>1. ~connClosed /\ msgsOpen
    BY <1>3 DEF SendBuffDone
  <2>2. msgs' \in Seq(Packets) /\ Len(msgs') <= MsgCap
    <3>1. Len(msgs) \in Nat /\ Len(msgs) < MsgCap /\ pend \in Packets
      BY <1>3, <2>1 DEF SendBuffDone, ConnTypeOK
    <3>2. Len(msgs') = Len(msgs) + 1 /\ msgs' \in Seq(Packets)
      BY <1>3, <2>1, <3>1, AppendToBounded DEF SendBuffDone, ConnTypeOK
    <3> QED BY <3>1, <3>2, CapacityAssumption
  <2> QED BY <1>3, <2>1, <2>2 DEF SendBuffDone, ConnTypeOK
<1>4. CASE notifyOpen /\ CloseAndRelease
  <2>1. ~ClosesTwice
    BY DEF ClosesTwice
  <2>2. CASE rd = "none"
    BY <1>4, <2>2 DEF CloseAndRelease, ConnTypeOK
  <2>3. CASE rd # "none"
    BY <1>4, <2>1, <2>3 DEF CloseAndRelease, TearDown, ConnTypeOK
  <2> QED BY <2>2, <2>3
<1>5. CASE TakeNotify
  <2>1. notify' \in Seq(Frames) /\ Len(notify') <= NotifyCap
    <3>1. Len(notify) \in Nat /\ Len(notify) <= NotifyCap
      BY DEF ConnTypeOK
    <3>2. Len(notify') = Len(notify) - 1 /\ notify' \in Seq(Frames)
      BY <1>5, TailOfBounded DEF TakeNotify, ConnTypeOK
    <3> QED BY <3>1, <3>2, CapacityAssumption
  <2> QED BY <1>5, <2>1 DEF TakeNotify, ConnTypeOK
<1>6. CASE PoolDownElsewhere
  BY <1>6 DEF PoolDownElsewhere, ConnTypeOK
<1> QED BY <1>1, <1>2, <1>3, <1>4, <1>5, <1>6 DEF ConnNext

\* The invariant is inductive.
LEMMA ConnStepInv == ConnInv /\ [ConnNext]_connVars => ConnInv'
<1> SUFFICES ASSUME ConnInv, [ConnNext]_connVars PROVE ConnInv'
  OBVIOUS
<1>1. CASE ConnNext
  BY <1>1, OwnerStepInv, ReaderStepInv, WriterStepInv
<1>2. CASE UNCHANGED connVars
  BY <1>2 DEF connVars, tornVars, ConnInv, ConnTypeOK, TornTogether,
              HoldersKeepOpen, OwnerOrder, NoChanPanic, RLocked
<1> QED BY <1>1, <1>2

\* A connection satisfies its inductive invariant in every state.
THEOREM ConnInvariant == ConnSafeSpec => []ConnInv
<1> QED BY ConnInitInv, ConnStepInv, PTL DEF ConnSafeSpec

\* Types and capacities: StartReader never overfills jobNotify and SendBuffMsg
\* never overfills msgBuffChan.
THEOREM ConnTypes == ConnSafeSpec => []ConnTypeOK
<1>1. ConnInv => ConnTypeOK
  BY DEF ConnInv
<1> QED BY <1>1, ConnInvariant, PTL

\* Neither goroutine, nor SendBuffMsg, nor Close panics on a channel, in any
\* interleaving of them.
THEOREM ConnNeverPanics == ConnSafeSpec => []NoChanPanic
<1>1. ConnInv => NoChanPanic
  BY DEF ConnInv
<1> QED BY <1>1, ConnInvariant, PTL

\* What a sender has seen under the RLock stays true until it releases it.
THEOREM ConnSendersSeeOpen == ConnSafeSpec => []SendersSeeOpen
<1>1. ConnInv => SendersSeeOpen
  BY DEF ConnInv, ConnTypeOK, TornTogether, HoldersKeepOpen, OwnerOrder, RLocked,
         SendersSeeOpen
<1> QED BY <1>1, ConnInvariant, PTL

\* A SendBuffMsg that waits behind a writer that waits for it waits forever.
THEOREM ConnWedgeIsForGood == ConnSafeSpec => WedgeIsForGood
<1>1. ConnInv /\ [ConnNext]_connVars => [SenderWedged => SenderWedged']_connVars
  <2> SUFFICES ASSUME ConnInv, [ConnNext]_connVars, SenderWedged PROVE SenderWedged'
    OBVIOUS
  <2> USE DEF SenderWedged
  <2>1. RLocked /\ rd # "none" /\ msgsOpen /\ ~(Len(msgs) < MsgCap)
    BY CapacityAssumption DEF ConnInv, OwnerOrder, HoldersKeepOpen, TornTogether, RLocked
  <2>2. CASE Reader
    BY <2>2 DEF Reader, ReaderTop, ReaderGotFrame, ReaderBroken, ReaderTimeout, ReaderLock,
                ReaderSend, ReaderStop
  <2>3. ~Writer
    BY <2>1 DEF Writer, WriterTop, WriterTake, WriterWrite, WriterSpin, WriterCancelled, WriterStop
  <2>4. ~ConnStart /\ ~SendBuffDone /\ ~CloseAndRelease /\ \A m \in Packets : ~SendBuffMsg(m)
    BY <2>1 DEF ConnStart, SendBuffDone, CloseAndRelease, SendBuffMsg
  <2>5. CASE TakeNotify \/ PoolDownElsewhere \/ UNCHANGED connVars
    BY <2>5 DEF TakeNotify, PoolDownElsewhere, connVars
  <2> QED BY <2>2, <2>3, <2>4, <2>5 DEF ConnNext
<1> QED BY <1>1, ConnInvariant, PTL DEF ConnSafeSpec, WedgeIsForGood
=============================================================================
