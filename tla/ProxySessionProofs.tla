------------------------- MODULE ProxySessionProofs -------------------------
(***************************************************************************)
(* Safety of a miner's session, for any number of requests in flight, any  *)
(* number of retries and any channel capacities.  The session implements   *)
(* the specification of its pool connection, so what is proved of the      *)
(* connection alone holds inside the session.                              *)
(***************************************************************************)
EXTENDS ProxySession, PoolConnectionProofs

\* The types of the session's own variables.
SessionVarsOK ==
  /\ connMu \in Calls \cup {"free", "run", "serve"}
  /\ run \in RunStates /\ cl \in {0, 2}
  /\ retryCount \in Nat /\ dialFails \in Nat
  /\ share \in Calls \cup {NoCall}
  /\ call \in [Calls -> CallStates]
  /\ refused \in BOOLEAN /\ serve \in ServeStates
  /\ miner \in {"up", "gone", "closed"}
  /\ wp \in BOOLEAN /\ isClosed \in BOOLEAN /\ poolIsDown \in BOOLEAN
  /\ notifyOpen \in BOOLEAN
  /\ proc \in {"up", "exit", "nilDeref"}

\* Run has not connected yet.
Unconnected ==
  \/ run \in {"none", "top", "connect", "dial", "retry"}
  \/ run \in {"shutdown", "shutBody"} /\ cl = 2

\* There is no connection before Run has dialled one: the reason why
\* shutdown(2), which closes none, leaks none.
NoConnYet == Unconnected => rd = "none"

\* Run's count of failures, and how many of them were dials.
RetryInv ==
  /\ run \in {"none", "top", "connect", "dial", "retry"} => retryCount <= RetryTimes
  /\ retryCount <= RetryTimes + 1
  /\ dialFails <= retryCount + (IF run = "retry" THEN 1 ELSE 0)

\* As long as the proxy is open every failure was a failed dial, and shutdown(2)
\* has a reason.
AlarmInv ==
  ~isClosed /\ Unconnected =>
    /\ dialFails = retryCount + (IF run = "retry" THEN 1 ELSE 0)
    /\ run \in {"shutdown", "shutBody"} => poolIsDown \/ retryCount = RetryTimes + 1

\* While Worker.p is there, the login that starts Run is the only one that can.
LoginInv ==
  wp => \A k \in Calls : call[k] \in {"login", "loginRun"} =>
          /\ run = "none"
          /\ \A j \in Calls : call[j] \in {"login", "loginRun"} => j = k

\* A share in Run's hands belongs to a Submit that waits for its answer, and so has
\* connMu: Run never comes to send it.
ShareInv ==
  /\ run = "handleSubmit" => IF share = NoCall THEN isClosed ELSE call[share] = "subWait"
  /\ run # "shareSent"

SessionInv ==
  SessionVarsOK /\ LockInv /\ NoConnYet /\ RetryInv /\ AlarmInv /\ LoginInv /\ ShareInv

\* The invariant holds when SpawnWorker begins to serve a miner.
LEMMA SessionInitInv == SessionInit => SessionInv
<1> SUFFICES ASSUME SessionInit PROVE SessionInv
  OBVIOUS
<1> USE SessionAssumption DEF SessionInit, ConnInit
<1>1. SessionVarsOK
  BY DEF SessionVarsOK, RunStates, CallStates, ServeStates
<1>2. LockInv
  BY DEF LockInv, RunHolds, CallHolds
<1>3. NoConnYet /\ RetryInv /\ AlarmInv
  BY DEF NoConnYet, RetryInv, AlarmInv, Unconnected
<1>4. LoginInv /\ ShareInv
  BY DEF LoginInv, ShareInv
<1> QED BY <1>1, <1>2, <1>3, <1>4 DEF SessionInv

\* The steps of Run up to the select loop.
LEMMA ConnectStepInv ==
  ASSUME SessionInv,
         \/ RunTop \/ RunConnect \/ RunDialFails \/ RunDialled \/ RunSend
         \/ RunSent \/ RunRetry
  PROVE  SessionInv'
<1> USE SessionAssumption
    DEF SessionInv, SessionVarsOK, LockInv, NoConnYet, RetryInv, AlarmInv,
        LoginInv, ShareInv, Unconnected, RunHolds, CallHolds, RunStates, connVars, tornVars,
        runVars, minerVars, sharedVars
<1>1. CASE RunTop
  BY <1>1 DEF RunTop
<1>2. CASE RunConnect
  BY <1>2 DEF RunConnect
<1>3. CASE RunDialFails
  BY <1>3 DEF RunDialFails
<1>4. CASE RunDialled
  BY <1>4 DEF RunDialled, ConnStart
<1>5. CASE RunSend
  BY <1>5 DEF RunSend, SendBuffMsg
<1>6. CASE RunSent
  BY <1>6 DEF RunSent, SendBuffDone
<1>7. CASE RunRetry
  BY <1>7 DEF RunRetry
<1> QED BY <1>1, <1>2, <1>3, <1>4, <1>5, <1>6, <1>7

\* The steps of Run in the select loop and its shutdown.
LEMMA LoopStepInv ==
  ASSUME SessionInv,
         \/ RunTakeShare \/ RunHandleSubmit \/ RunTakeNotify \/ RunDone
         \/ RunBroadcast \/ RunNotified \/ RunNotifyFails \/ RunShutdown
         \/ RunShutBody
  PROVE  SessionInv'
<1> USE SessionAssumption
    DEF SessionInv, SessionVarsOK, LockInv, NoConnYet, RetryInv, AlarmInv,
        LoginInv, ShareInv, Unconnected, RunHolds, CallHolds, RunStates, CallStates, NoCall,
        connVars, tornVars, runVars, minerVars, sharedVars
<1>1. CASE RunTakeShare
  BY <1>1 DEF RunTakeShare
<1>2. CASE RunHandleSubmit
  \* The share's Submit holds connMu, so on an open proxy there is no such step.
  <2>1. isClosed
    BY <1>2 DEF RunHandleSubmit
  <2>2. /\ run = "handleSubmit" /\ run' = "select" /\ share' = NoCall /\ call' = call
        /\ UNCHANGED <<connVars, connMu, cl, retryCount, dialFails, minerVars, sharedVars>>
    BY <1>2, <2>1 DEF RunHandleSubmit
  <2> QED BY <2>2
<1>3. CASE RunTakeNotify
  BY <1>3 DEF RunTakeNotify, TakeNotify
<1>4. CASE RunDone
  BY <1>4 DEF RunDone
<1>5. CASE RunBroadcast
  BY <1>5 DEF RunBroadcast
<1>6. CASE RunNotified
  BY <1>6 DEF RunNotified
<1>7. CASE RunNotifyFails
  BY <1>7 DEF RunNotifyFails
<1>8. CASE RunShutdown
  BY <1>8 DEF RunShutdown
<1>9. CASE RunShutBody
  BY <1>9 DEF RunShutBody, ReleaseOnly, CloseAndRelease
<1> QED BY <1>1, <1>2, <1>3, <1>4, <1>5, <1>6, <1>7, <1>8, <1>9

\* The steps of SpawnWorker.
LEMMA ServeStepInv == ASSUME SessionInv, Serve PROVE SessionInv'
<1> USE SessionAssumption
    DEF SessionInv, SessionVarsOK, LockInv, NoConnYet, RetryInv, AlarmInv,
        LoginInv, ShareInv, Unconnected, RunHolds, CallHolds, ServeStates,
        connVars, tornVars, runVars, minerVars, sharedVars
<1>1. CASE ServeReadFails
  BY <1>1 DEF ServeReadFails
<1>2. CASE ServeReturns
  BY <1>2 DEF ServeReturns
<1>3. CASE ServeDisconnect
  BY <1>3 DEF ServeDisconnect
<1>4. CASE ServeRemove
  <2>1. CASE isClosed
    BY <1>4, <2>1 DEF ServeRemove
  <2>2. CASE ~isClosed
    BY <1>4, <2>2 DEF ServeRemove
  <2> QED BY <2>1, <2>2
<1>5. CASE ServeRemoveBody
  BY <1>5 DEF ServeRemoveBody, CloseAndRelease
<1> QED BY <1>1, <1>2, <1>3, <1>4, <1>5 DEF Serve

\* The steps of one request.
LEMMA CallStepInv == ASSUME SessionInv, NEW k \in Calls, Call(k) PROVE SessionInv'
<1> USE SessionAssumption DEF connVars, tornVars, runVars, minerVars, sharedVars
<1> DEFINE Counts == NoConnYet /\ RetryInv /\ AlarmInv
           Logins == {"login", "loginRun"}
<1>0. /\ SessionVarsOK /\ LockInv /\ Counts /\ LoginInv /\ ShareInv
      /\ call \in [Calls -> CallStates]
  BY DEF SessionInv, SessionVarsOK
<1> USE <1>0
<1>1. CASE ServeRequest(k)
  <2>1. PICK m \in {"login", "badLogin", "submit", "getjob"} :
          /\ call' = [call EXCEPT ![k] = m]
          /\ m = "login" /\ wp => run = "none" /\ \A j \in Calls : call[j] \notin Logins
    BY <1>1 DEF ServeRequest
  <2>2. call[k] = "idle" /\ UNCHANGED <<connVars, connMu, runVars, minerVars, sharedVars>>
    BY <1>1 DEF ServeRequest
  <2>3. SessionVarsOK'
    BY <2>1, <2>2 DEF SessionVarsOK, CallStates
  <2>4. LockInv'
    BY <2>1, <2>2 DEF LockInv, CallHolds
  <2>5. Counts'
    BY <2>2 DEF NoConnYet, RetryInv, AlarmInv, Unconnected
  <2>6. LoginInv'
    BY <2>1, <2>2 DEF LoginInv
  <2>7. ShareInv'
    BY <2>1, <2>2 DEF ShareInv, SessionVarsOK
  <2> QED BY <2>3, <2>4, <2>5, <2>6, <2>7 DEF SessionInv
<1>2. CASE Login(k) \/ LoginClose(k)
  <2>1. PICK s \in {"idle", "loginClose", "closeLock", "loginRun"} :
          /\ call' = [call EXCEPT ![k] = s]
          /\ s = "loginRun" => call[k] = "login"
    BY <1>2 DEF Login, LoginClose
  <2>2. /\ call[k] \in {"login", "badLogin", "loginClose"}
        /\ UNCHANGED <<connVars, connMu, runVars, minerVars, wp, isClosed, poolIsDown>>
        /\ proc' \in {proc, "nilDeref"}
    BY <1>2 DEF Login, LoginClose
  <2>3. SessionVarsOK'
    BY <2>1, <2>2 DEF SessionVarsOK, CallStates
  <2>4. LockInv'
    BY <2>1, <2>2 DEF LockInv, CallHolds
  <2>5. Counts'
    BY <2>2 DEF NoConnYet, RetryInv, AlarmInv, Unconnected
  <2>6. LoginInv'
    BY <2>1, <2>2 DEF LoginInv
  <2>7. ShareInv'
    BY <2>1, <2>2 DEF ShareInv, SessionVarsOK
  <2> QED BY <2>3, <2>4, <2>5, <2>6, <2>7 DEF SessionInv
<1>3. CASE LoginRun(k)
  <2>1. /\ call[k] = "loginRun" /\ call' = [call EXCEPT ![k] = "idle"]
        /\ UNCHANGED <<connVars, connMu, cl, retryCount, dialFails, share, minerVars, wp, isClosed,
                       poolIsDown>>
        /\ proc' \in {proc, "nilDeref"}
    BY <1>3 DEF LoginRun
  <2>2. run' = run \/ (wp /\ run = "none" /\ run' = "top")
    BY <1>3 DEF LoginRun, LoginInv
  <2>3. SessionVarsOK'
    BY <2>1, <2>2 DEF SessionVarsOK, CallStates, RunStates
  <2>4. LockInv'
    BY <2>1, <2>2 DEF LockInv, CallHolds, RunHolds
  <2>5. Counts'
    BY <2>1, <2>2 DEF NoConnYet, RetryInv, AlarmInv, Unconnected
  <2>6. LoginInv'
    BY <2>1, <2>2 DEF LoginInv
  <2>7. ShareInv'
    BY <2>1, <2>2 DEF ShareInv, SessionVarsOK
  <2> QED BY <2>3, <2>4, <2>5, <2>6, <2>7 DEF SessionInv
<1>4. CASE LoginCloseLock(k)
  <2>1. /\ call' = [call EXCEPT ![k] = IF isClosed THEN "loginNil" ELSE "closeBody"]
        /\ call[k] = "closeLock"
        /\ connMu = "free" /\ connMu' = IF isClosed THEN "free" ELSE k
        /\ UNCHANGED <<connVars, runVars, minerVars, sharedVars>>
    BY <1>4 DEF LoginCloseLock
  <2>2. SessionVarsOK'
    BY <2>1 DEF SessionVarsOK, CallStates
  <2>3. LockInv'
    BY <2>1 DEF LockInv, CallHolds
  <2>4. Counts'
    BY <2>1 DEF NoConnYet, RetryInv, AlarmInv, Unconnected
  <2>5. LoginInv'
    BY <2>1 DEF LoginInv
  <2>6. ShareInv'
    BY <2>1 DEF ShareInv, SessionVarsOK
  <2> QED BY <2>2, <2>3, <2>4, <2>5, <2>6 DEF SessionInv
<1>5. CASE LoginCloseBody(k)
  <2>1. /\ call' = [call EXCEPT ![k] = "loginNil"] /\ call[k] = "closeBody"
        /\ connMu = k /\ connMu' = "free" /\ isClosed' = TRUE /\ notifyOpen' = FALSE
        /\ rd' = rd /\ UNCHANGED <<runVars, minerVars, wp, poolIsDown, proc>>
    BY <1>5 DEF LoginCloseBody, CloseAndRelease, LockInv, CallHolds
  <2>2. SessionVarsOK'
    BY <2>1 DEF SessionVarsOK, CallStates
  <2>3. LockInv'
    BY <2>1 DEF LockInv, CallHolds, SessionVarsOK
  <2>4. Counts'
    BY <2>1 DEF NoConnYet, RetryInv, AlarmInv, Unconnected
  <2>5. LoginInv'
    BY <2>1 DEF LoginInv
  <2>6. ShareInv'
    BY <2>1 DEF ShareInv, SessionVarsOK
  <2> QED BY <2>2, <2>3, <2>4, <2>5, <2>6 DEF SessionInv
<1>6. CASE LoginNil(k)
  <2>1. /\ call' = [call EXCEPT ![k] = "idle"] /\ call[k] = "loginNil"
        /\ wp' = FALSE /\ refused' = TRUE
        /\ UNCHANGED <<connVars, connMu, runVars, serve, miner, isClosed, poolIsDown, proc>>
    BY <1>6 DEF LoginNil
  <2>2. SessionVarsOK'
    BY <2>1 DEF SessionVarsOK, CallStates
  <2>3. LockInv'
    BY <2>1 DEF LockInv, CallHolds
  <2>4. Counts'
    BY <2>1 DEF NoConnYet, RetryInv, AlarmInv, Unconnected
  <2>5. LoginInv'
    BY <2>1 DEF LoginInv
  <2>6. ShareInv'
    BY <2>1 DEF ShareInv, SessionVarsOK
  <2> QED BY <2>2, <2>3, <2>4, <2>5, <2>6 DEF SessionInv
<1>7. CASE Getjob(k) \/ MiningSubmit(k)
  <2>1. PICK s \in {"idle", "subLock"} : call' = [call EXCEPT ![k] = s]
    BY <1>7 DEF Getjob, MiningSubmit
  <2>2. /\ call[k] \in {"getjob", "submit"}
        /\ UNCHANGED <<connVars, connMu, runVars, minerVars, wp, isClosed, poolIsDown>>
        /\ proc' \in {proc, "nilDeref"}
    BY <1>7 DEF Getjob, MiningSubmit
  <2>3. SessionVarsOK'
    BY <2>1, <2>2 DEF SessionVarsOK, CallStates
  <2>4. LockInv'
    BY <2>1, <2>2 DEF LockInv, CallHolds
  <2>5. Counts'
    BY <2>2 DEF NoConnYet, RetryInv, AlarmInv, Unconnected
  <2>6. LoginInv'
    BY <2>1, <2>2 DEF LoginInv
  <2>7. ShareInv'
    BY <2>1, <2>2 DEF ShareInv, SessionVarsOK
  <2> QED BY <2>3, <2>4, <2>5, <2>6, <2>7 DEF SessionInv
<1>8. CASE Submit(k)
  <2>1. PICK s \in {"idle", "subSend"} :
          /\ call' = [call EXCEPT ![k] = s] /\ call[k] = "subLock"
          /\ connMu = "free" /\ connMu' = IF s = "idle" THEN "free" ELSE k
          /\ s = "subSend" => ~isClosed
    BY <1>8 DEF Submit
  <2>2. SessionVarsOK'
    BY <1>8, <2>1 DEF Submit, SessionVarsOK, CallStates
  <2>3. LockInv'
    BY <1>8, <2>1 DEF Submit, LockInv, CallHolds
  <2>4. Counts'
    BY <1>8 DEF Submit, NoConnYet, RetryInv, AlarmInv, Unconnected
  <2>5. LoginInv'
    BY <1>8, <2>1 DEF Submit, LoginInv
  <2>6. ShareInv'
    BY <1>8, <2>1 DEF Submit, ShareInv, SessionVarsOK
  <2> QED BY <2>2, <2>3, <2>4, <2>5, <2>6 DEF SessionInv
<1> QED BY <1>1, <1>2, <1>3, <1>4, <1>5, <1>6, <1>7, <1>8 DEF Call

\* The invariant is inductive.
LEMMA SessionStepInv == SessionInv /\ [SessionNext]_vars => SessionInv'
<1> SUFFICES ASSUME SessionInv, [SessionNext]_vars PROVE SessionInv'
  OBVIOUS
<1> USE DEF connVars, tornVars, runVars, minerVars, sharedVars
<1>1. CASE Run
  BY <1>1, ConnectStepInv, LoopStepInv DEF Run
<1>2. CASE Serve
  BY <1>2, ServeStepInv
<1>3. ASSUME NEW k \in Calls, Call(k) PROVE SessionInv'
  BY <1>3, CallStepInv
<1>4. CASE ConnGoroutines
  <2>1. (rd' = "none" <=> rd = "none") /\ notifyOpen' = notifyOpen
    BY <1>4 DEF ConnGoroutines, Reader, Writer, ReaderTop, ReaderGotFrame,
                ReaderBroken, ReaderTimeout, ReaderLock, ReaderSend, ReaderStop,
                WriterTop, WriterTake, WriterWrite, WriterSpin, WriterCancelled, WriterStop
  <2> QED BY <1>4, <2>1
          DEF ConnGoroutines, SessionInv, SessionVarsOK, LockInv, NoConnYet,
              RetryInv, AlarmInv, LoginInv, ShareInv, Unconnected
<1>5. CASE MinerLeaves
  BY <1>5 DEF MinerLeaves, SessionInv, SessionVarsOK, LockInv, NoConnYet, RetryInv,
              AlarmInv, LoginInv, ShareInv, Unconnected
<1>6. CASE OtherProxies
  <2>1. /\ UNCHANGED <<rd, notifyOpen, connMu, runVars, call, minerVars, wp, isClosed, proc>>
        /\ poolIsDown => poolIsDown'
    BY <1>6 DEF OtherProxies, PoolDownElsewhere
  <2>2. poolIsDown' \in BOOLEAN
    BY <1>6 DEF OtherProxies, SessionInv, SessionVarsOK
  <2> QED BY <2>1, <2>2
          DEF SessionInv, SessionVarsOK, LockInv, NoConnYet, RetryInv, AlarmInv,
              LoginInv, ShareInv, Unconnected
<1>7. CASE UNCHANGED vars
  BY <1>7 DEF vars, SessionInv, SessionVarsOK, LockInv, NoConnYet, RetryInv,
              AlarmInv, LoginInv, ShareInv, Unconnected
<1> QED BY <1>1, <1>2, <1>3, <1>4, <1>5, <1>6, <1>7 DEF SessionNext

\* Every step of a session is, for its pool connection, a step of
\* PoolConnection or no step: the discipline ConnNext asks of an owner is the
\* one connMu and isClosed enforce.
LEMMA SessionStepIsConnStep ==
  SessionInv /\ [SessionNext]_vars => [ConnNext]_connVars
<1> SUFFICES ASSUME SessionInv, [SessionNext]_vars, ~UNCHANGED connVars
             PROVE  ConnNext
  OBVIOUS
<1> USE DEF SessionInv
<1>1. CASE Run
  <2>1. CASE RunDialled
    <3>1. notifyOpen
      BY <2>1, SessionAssumption DEF RunDialled, LockInv, RunHolds
    <3> QED BY <2>1, <3>1 DEF RunDialled, ConnNext
  <2>2. CASE RunSend \/ RunHandleSubmit
    BY <2>2 DEF RunSend, RunHandleSubmit, ConnNext, Packets
  <2>3. CASE RunSent
    BY <2>3 DEF RunSent, ConnNext
  <2>4. CASE RunTakeNotify
    BY <2>4 DEF RunTakeNotify, ConnNext
  <2>5. CASE RunShutBody
    <3>1. notifyOpen
      BY <2>5, SessionAssumption DEF RunShutBody, LockInv, RunHolds
    <3>2. CASE cl = 2
      \* There is no connection, and closing none is all CloseAndRelease does.
      <4>1. rd = "none"
        BY <2>5, <3>2 DEF RunShutBody, NoConnYet, Unconnected
      <4>2. CloseAndRelease
        BY <2>5, <3>2, <4>1 DEF RunShutBody, ReleaseOnly, CloseAndRelease, tornVars
      <4> QED BY <3>1, <4>2 DEF ConnNext
    <3>3. CASE cl # 2
      BY <2>5, <3>1, <3>3 DEF RunShutBody, ConnNext
    <3> QED BY <3>2, <3>3
  <2> QED BY <1>1, <2>1, <2>2, <2>3, <2>4, <2>5
          DEF Run, RunTop, RunConnect, RunDialFails, RunRetry, RunTakeShare,
              RunDone, RunBroadcast, RunNotified, RunNotifyFails, RunShutdown
<1>2. CASE Serve
  <2>1. CASE ServeRemoveBody
    <3>1. notifyOpen
      BY <2>1, SessionAssumption DEF ServeRemoveBody, LockInv
    <3> QED BY <2>1, <3>1 DEF ServeRemoveBody, ConnNext
  <2> QED BY <1>2, <2>1
          DEF Serve, ServeReadFails, ServeReturns, ServeDisconnect, ServeRemove
<1>3. ASSUME NEW k \in Calls, Call(k) PROVE ConnNext
  <2>1. CASE LoginCloseBody(k)
    <3>1. notifyOpen
      BY <2>1, SessionAssumption DEF LoginCloseBody, LockInv, CallHolds
    <3> QED BY <2>1, <3>1 DEF LoginCloseBody, ConnNext
  <2> QED BY <1>3, <2>1
          DEF Call, ServeRequest, Login, LoginRun, LoginClose, LoginCloseLock, LoginNil, Getjob,
              MiningSubmit, Submit
<1>4. CASE ConnGoroutines
  BY <1>4 DEF ConnGoroutines, ConnNext
<1>5. CASE MinerLeaves \/ OtherProxies
  BY <1>5 DEF MinerLeaves, OtherProxies, ConnNext
<1>6. CASE UNCHANGED vars
  BY <1>6 DEF vars
<1> QED BY <1>1, <1>2, <1>3, <1>4, <1>5, <1>6 DEF SessionNext

-----------------------------------------------------------------------------

\* A session satisfies its inductive invariant in every state.
THEOREM SessionInvariant == SessionSafeSpec => []SessionInv
<1> QED BY SessionInitInv, SessionStepInv, PTL DEF SessionSafeSpec

\* A session implements the specification of its pool connection.
THEOREM SessionImplementsConn == SessionSafeSpec => ConnSafeSpec
<1>1. SessionInit => ConnInit
  BY DEF SessionInit
<1> QED BY <1>1, SessionInvariant, SessionStepIsConnStep, PTL
        DEF SessionSafeSpec, ConnSafeSpec

\* No goroutine of a session panics on a channel: not the reader against Remove,
\* Close or shutdown, and none of these against another.
THEOREM SessionNeverPanics == SessionSafeSpec => []NoChanPanic
<1> QED BY SessionImplementsConn, ConnNeverPanics, PTL

\* The holder of connMu is the goroutine whose control state says so, and a
\* proxy is closed under connMu only.
THEOREM SessionLocks == SessionSafeSpec => []LockInv
<1>1. SessionInv => LockInv
  BY DEF SessionInv
<1> QED BY <1>1, SessionInvariant, PTL

\* The types and bounds of every variable of a session.
THEOREM SessionTypes == SessionSafeSpec => []SessionTypeOK
<1>1. SessionInv /\ ConnTypeOK => SessionTypeOK
  BY SessionAssumption DEF SessionInv, SessionVarsOK, RetryInv, SessionTypeOK
<1> QED BY <1>1, SessionInvariant, SessionImplementsConn, ConnTypes, PTL

\* A closed proxy leaves no pool connection open.
THEOREM SessionLeaksNothing == SessionSafeSpec => []NoOrphanConnection
<1>1. SessionInv /\ ConnInv => NoOrphanConnection
  BY DEF SessionInv, LockInv, ConnInv, OwnerOrder, NoOrphanConnection
<1> QED BY <1>1, SessionInvariant, SessionImplementsConn, ConnInvariant, PTL

\* Only RetryTimes + 1 failed dials make a proxy declare the pool down.
THEOREM SessionAlarms == SessionSafeSpec => NoFalseAlarm
<1>1. SessionInv /\ [SessionNext]_vars =>
        [run = "shutBody" /\ run' = "exit" /\ ~poolIsDown /\ poolIsDown'
           => dialFails = RetryTimes + 1]_vars
  <2> SUFFICES ASSUME SessionInv, [SessionNext]_vars, run = "shutBody",
                      run' = "exit", ~poolIsDown, poolIsDown'
               PROVE  dialFails = RetryTimes + 1
    OBVIOUS
  <2>1. RunShutBody
    BY DEF SessionNext, vars, runVars, sharedVars, Run, RunTop, RunConnect,
           RunDialFails, RunDialled, RunSend, RunSent, RunRetry, RunTakeShare,
           RunHandleSubmit, RunTakeNotify, RunDone, RunBroadcast, RunNotified,
           RunNotifyFails, RunShutdown, Serve, ServeReadFails, ServeReturns,
           ServeDisconnect, ServeRemove, ServeRemoveBody, Call, ServeRequest,
           Login, LoginRun, LoginClose, LoginCloseLock, LoginCloseBody, LoginNil, Getjob,
           MiningSubmit, Submit,
           ConnGoroutines, MinerLeaves, OtherProxies
  <2>2. cl = 2 /\ ~isClosed
    BY <2>1, SessionAssumption DEF RunShutBody, SessionInv, LockInv, RunHolds
  <2> QED BY <2>2 DEF SessionInv, AlarmInv, Unconnected, SessionVarsOK
<1> QED BY <1>1, SessionInvariant, PTL DEF SessionSafeSpec, NoFalseAlarm

-----------------------------------------------------------------------------
(* Worker.p.                                                               *)

\* Who has set Worker.p to nil and who may still use it.  SpawnWorker disconnects
\* only when no request is left, so what a refused login leaves behind is met by
\* requests alone, and what Disconnect leaves behind by nobody.
WorkerInv ==
  /\ serve \in {"disconnect", "remove", "removeBody", "exit"} =>
       \A k \in Calls : call[k] = "idle"
  /\ refused => ~wp
  /\ serve \in {"disconnect", "remove", "removeBody"} => ~refused
  /\ ~wp => (run = "exit" /\ cl = 2) \/ serve = "exit" \/ refused
  /\ NilAfterRelease

\* No step of Run breaks it.
LEMMA RunStepWorker == ASSUME SessionInv, WorkerInv, Run, proc = "up" PROVE WorkerInv'
<1> USE SessionAssumption
    DEF SessionInv, SessionVarsOK, WorkerInv, NilAfterRelease, runVars, minerVars, sharedVars
<1>1. CASE RunTop \/ RunConnect \/ RunDialFails \/ RunDialled \/ RunSend \/ RunSent \/ RunRetry
  BY <1>1 DEF RunTop, RunConnect, RunDialFails, RunDialled, RunSend, RunSent, RunRetry, ShareInv
<1>2. CASE RunTakeShare
  <2>1. /\ run = "select" /\ run' = "handleSubmit"
        /\ \A k \in Calls : call'[k] = call[k] \/ (call[k] = "subSend" /\ call'[k] = "subWait")
        /\ UNCHANGED <<cl, minerVars, sharedVars>>
    BY <1>2 DEF RunTakeShare
  <2> QED BY <2>1
<1>3. CASE RunHandleSubmit
  <2>1. /\ run = "handleSubmit" /\ run' \in {"select", "shareSent"}
        /\ \A k \in Calls : call'[k] = call[k] \/ call'[k] = "idle"
        /\ UNCHANGED <<cl, minerVars, sharedVars>>
    BY <1>3 DEF RunHandleSubmit
  <2> QED BY <2>1
<1>4. CASE RunTakeNotify \/ RunDone \/ RunBroadcast \/ RunNotified \/ RunNotifyFails \/ RunShutdown
  BY <1>4 DEF RunTakeNotify, RunDone, RunBroadcast, RunNotified, RunNotifyFails, RunShutdown
<1>5. CASE RunShutBody
  BY <1>5 DEF RunShutBody
<1> QED BY <1>1, <1>2, <1>3, <1>4, <1>5 DEF Run

\* Nor a step of SpawnWorker.
LEMMA ServeStepWorker == ASSUME SessionInv, WorkerInv, Serve, proc = "up" PROVE WorkerInv'
<1> USE DEF SessionInv, SessionVarsOK, WorkerInv, NilAfterRelease, ServeStates, runVars,
            minerVars, sharedVars
<1>1. CASE ServeReadFails
  BY <1>1 DEF ServeReadFails
<1>2. CASE ServeReturns
  BY <1>2 DEF ServeReturns
<1>3. CASE ServeDisconnect
  BY <1>3 DEF ServeDisconnect
<1>4. CASE ServeRemove
  BY <1>4 DEF ServeRemove
<1>5. CASE ServeRemoveBody
  BY <1>5 DEF ServeRemoveBody
<1> QED BY <1>1, <1>2, <1>3, <1>4, <1>5 DEF Serve

\* Nor a step of a request.
LEMMA CallStepWorker ==
  ASSUME SessionInv, WorkerInv, NEW k \in Calls, Call(k), proc = "up" PROVE WorkerInv'
<1> USE DEF SessionInv, SessionVarsOK, LoginInv, WorkerInv, NilAfterRelease, ServeStates,
            runVars, minerVars, sharedVars
<1>0. call[k] # "idle" => serve \in {"serving", "wait"}
  OBVIOUS
<1>1. CASE ServeRequest(k)
  BY <1>1 DEF ServeRequest
<1>2. CASE Login(k)
  BY <1>0, <1>2 DEF Login
<1>3. CASE LoginRun(k)
  BY <1>0, <1>3 DEF LoginRun
<1>4. CASE LoginClose(k)
  BY <1>0, <1>4 DEF LoginClose
<1>5. CASE LoginCloseLock(k) \/ LoginCloseBody(k)
  BY <1>0, <1>5 DEF LoginCloseLock, LoginCloseBody
<1>6. CASE LoginNil(k)
  BY <1>0, <1>6 DEF LoginNil
<1>7. CASE Getjob(k) \/ MiningSubmit(k)
  BY <1>0, <1>7 DEF Getjob, MiningSubmit
<1>8. CASE Submit(k)
  BY <1>0, <1>8 DEF Submit
<1> QED BY <1>1, <1>2, <1>3, <1>4, <1>5, <1>6, <1>7, <1>8 DEF Call

\* Who uses Worker.p, in every state of a session.
THEOREM SessionWorkerInvariant == SessionSafeSpec => []WorkerInv
<1>1. SessionInit => WorkerInv
  BY DEF SessionInit, WorkerInv, NilAfterRelease
<1>2. SessionInv /\ WorkerInv /\ [SessionNext]_vars => WorkerInv'
  <2> SUFFICES ASSUME SessionInv, WorkerInv, [SessionNext]_vars PROVE WorkerInv'
    OBVIOUS
  <2>1. CASE UNCHANGED <<connMu, runVars, call, refused, serve, wp, isClosed, proc>>
    BY <2>1 DEF WorkerInv, NilAfterRelease, runVars
  <2>2. CASE UNCHANGED vars
    BY <2>1, <2>2 DEF vars, minerVars, sharedVars
  <2>3. CASE ConnGoroutines \/ MinerLeaves \/ OtherProxies
    BY <2>1, <2>3 DEF ConnGoroutines, MinerLeaves, OtherProxies, minerVars, sharedVars
  <2> QED BY <2>2, <2>3, RunStepWorker, ServeStepWorker, CallStepWorker DEF SessionNext
<1> QED BY <1>1, <1>2, SessionInvariant, PTL DEF SessionSafeSpec

\* A nil Worker.p is met only after this proxy's own shutdown(2) or, by a request,
\* after a refused login on the same connection.
THEOREM SessionNilAfterRelease == SessionSafeSpec => []NilAfterRelease
<1>1. WorkerInv => NilAfterRelease
  BY DEF WorkerInv
<1> QED BY <1>1, SessionWorkerInvariant, PTL

-----------------------------------------------------------------------------
(* Deadlocks.                                                              *)

\* What a goroutine that waits has before it.  A Submit that waits for its answer has
\* its share with Run; Run reaches shutdown(0) and its end only on a closed proxy; and
\* while Run connects, its own packets are the only ones in msgBuffChan.
WaitInv ==
  /\ \A k \in Calls : call[k] = "subWait" => run = "handleSubmit" /\ share = k
  /\ run \in {"shutdown", "shutBody"} /\ cl # 2 => isClosed
  /\ run = "exit" => isClosed
  /\ pend # NoPacket => run \in {"addressSent", "nameSent"}
  /\ run \in {"none", "top", "connect", "dial", "retry", "sendAddress", "addressSent"} =>
       msgs = <<>>
  /\ run \in {"sendName", "nameSent"} => Len(msgs) <= 1

\* No step of Run up to the select loop breaks it.
LEMMA ConnectStepWait ==
  ASSUME SessionInv, ConnTypeOK, WaitInv,
         \/ RunTop \/ RunConnect \/ RunDialFails \/ RunDialled \/ RunSend
         \/ RunSent \/ RunRetry
  PROVE  WaitInv'
<1> USE DEF SessionInv, SessionVarsOK, LockInv, ShareInv, WaitInv, connVars, tornVars, runVars,
            minerVars, sharedVars
<1>1. CASE RunTop
  BY <1>1 DEF RunTop
<1>2. CASE RunConnect
  BY <1>2 DEF RunConnect
<1>3. CASE RunDialFails
  BY <1>3 DEF RunDialFails
<1>4. CASE RunDialled
  BY <1>4 DEF RunDialled, ConnStart
<1>5. CASE RunSend
  BY <1>5 DEF RunSend, SendBuffMsg
<1>6. CASE RunSent
  <2>1. CASE pend = NoPacket
    BY <1>6, <2>1 DEF RunSent
  <2>2. CASE pend # NoPacket
    <3>1. /\ run \in {"addressSent", "nameSent"} /\ pend' = NoPacket
          /\ run' \in {"sendName", "select"}
          /\ run' = "sendName" => run = "addressSent"
          /\ UNCHANGED <<cl, share, call, isClosed>>
      BY <1>6, <2>2 DEF RunSent, SendBuffDone
    <3>2. run = "addressSent" => Len(msgs') <= 1
      <4> SUFFICES ASSUME run = "addressSent" PROVE Len(msgs') <= 1
        OBVIOUS
      <4>1. msgs \in Seq(Packets) /\ msgs = <<>> /\ pend \in Packets
        BY <2>2 DEF ConnTypeOK
      <4>2. msgs' = Append(msgs, pend) \/ msgs' = msgs
        BY <1>6, <2>2 DEF RunSent, SendBuffDone
      <4>3. Len(msgs) = 0
        BY <4>1
      <4>4. Len(Append(msgs, pend)) = Len(msgs) + 1
        BY <4>1, AppendToBounded
      <4>5. CASE msgs' = msgs
        BY <4>3, <4>5
      <4>6. CASE msgs' = Append(msgs, pend)
        <5>1. Len(msgs') = 1
          BY <4>3, <4>4, <4>6
        <5> QED BY <5>1
      <4> QED BY <4>2, <4>5, <4>6
    <3> QED BY <3>1, <3>2
  <2> QED BY <2>1, <2>2
<1>7. CASE RunRetry
  BY <1>7 DEF RunRetry
<1> QED BY <1>1, <1>2, <1>3, <1>4, <1>5, <1>6, <1>7

\* Nor one of its select loop and its shutdown.  A share is never answered: its
\* Submit holds the connMu that handleSubmit waits for.
LEMMA LoopStepWait ==
  ASSUME SessionInv, WaitInv,
         \/ RunTakeShare \/ RunHandleSubmit \/ RunTakeNotify \/ RunDone
         \/ RunBroadcast \/ RunNotified \/ RunNotifyFails \/ RunShutdown
         \/ RunShutBody
  PROVE  WaitInv'
<1> USE SessionAssumption
    DEF SessionInv, SessionVarsOK, LockInv, ShareInv, WaitInv, NoCall, connVars, tornVars,
        runVars, minerVars, sharedVars
<1>1. CASE RunTakeShare
  BY <1>1 DEF RunTakeShare
<1>2. CASE RunHandleSubmit
  <2>1. isClosed /\ share = NoCall
    BY <1>2 DEF RunHandleSubmit, CallHolds
  <2> QED BY <1>2, <2>1 DEF RunHandleSubmit
<1>3. CASE RunTakeNotify
  BY <1>3 DEF RunTakeNotify, TakeNotify
<1>4. CASE RunDone
  BY <1>4 DEF RunDone
<1>5. CASE RunBroadcast
  BY <1>5 DEF RunBroadcast
<1>6. CASE RunNotified
  BY <1>6 DEF RunNotified
<1>7. CASE RunNotifyFails
  BY <1>7 DEF RunNotifyFails
<1>8. CASE RunShutdown
  BY <1>8 DEF RunShutdown
<1>9. CASE RunShutBody
  BY <1>9 DEF RunShutBody, ReleaseOnly, CloseAndRelease
<1> QED BY <1>1, <1>2, <1>3, <1>4, <1>5, <1>6, <1>7, <1>8, <1>9

\* Nor a step of a request.
LEMMA CallStepWait ==
  ASSUME SessionInv, WaitInv, NEW k \in Calls, Call(k) PROVE WaitInv'
<1> USE SessionAssumption DEF SessionInv, SessionVarsOK, LoginInv, WaitInv, connVars, tornVars,
        runVars, minerVars, sharedVars
<1>1. CASE ServeRequest(k)
  BY <1>1 DEF ServeRequest
<1>2. CASE Login(k) \/ LoginClose(k)
  BY <1>2 DEF Login, LoginClose
<1>3. CASE LoginRun(k)
  BY <1>3 DEF LoginRun
<1>4. CASE LoginCloseLock(k)
  BY <1>4 DEF LoginCloseLock
<1>5. CASE LoginCloseBody(k)
  BY <1>5 DEF LoginCloseBody, CloseAndRelease
<1>6. CASE LoginNil(k)
  BY <1>6 DEF LoginNil
<1>7. CASE Getjob(k) \/ MiningSubmit(k)
  BY <1>7 DEF Getjob, MiningSubmit
<1>8. CASE Submit(k)
  BY <1>8 DEF Submit
<1> QED BY <1>1, <1>2, <1>3, <1>4, <1>5, <1>6, <1>7, <1>8 DEF Call

\* Nor one of the goroutines of the connection.
LEMMA ConnStepWait ==
  ASSUME ConnTypeOK, WaitInv, ConnGoroutines PROVE WaitInv'
<1>1. pend' = pend /\ (msgs' = msgs \/ (msgs # <<>> /\ msgs' = Tail(msgs)))
  BY DEF ConnGoroutines, Reader, Writer, ReaderTop, ReaderGotFrame,
         ReaderBroken, ReaderTimeout, ReaderLock, ReaderSend, ReaderStop,
         WriterTop, WriterTake, WriterWrite, WriterSpin, WriterCancelled, WriterStop
<1>2. UNCHANGED <<run, cl, share, call, isClosed>>
  BY DEF ConnGoroutines, runVars, sharedVars
<1>3. Len(msgs) <= 1 => Len(msgs') <= 1
  BY <1>1, TailOfBounded DEF ConnTypeOK
<1> QED BY <1>1, <1>2, <1>3 DEF WaitInv

\* What waits for what, in every state of a session.
THEOREM SessionWaitInvariant == SessionSafeSpec => []WaitInv
<1>1. SessionInit => WaitInv
  BY DEF SessionInit, ConnInit, WaitInv
<1>2. SessionInv /\ ConnTypeOK /\ WaitInv /\ [SessionNext]_vars => WaitInv'
  <2> SUFFICES ASSUME SessionInv, ConnTypeOK, WaitInv, [SessionNext]_vars PROVE WaitInv'
    OBVIOUS
  <2>1. CASE UNCHANGED <<pend, msgs, run, cl, share, call>> /\ (isClosed => isClosed')
    BY <2>1 DEF WaitInv
  <2>2. CASE UNCHANGED vars \/ MinerLeaves \/ OtherProxies
    BY <2>1, <2>2 DEF vars, MinerLeaves, OtherProxies, PoolDownElsewhere, connVars, runVars,
                      sharedVars
  <2>3. CASE Serve
    BY <2>1, <2>3 DEF Serve, ServeReadFails, ServeReturns, ServeDisconnect, ServeRemove,
                      ServeRemoveBody, CloseAndRelease, connVars, runVars, sharedVars
  <2>4. CASE Run
    BY <2>4, ConnectStepWait, LoopStepWait DEF Run
  <2> QED BY <2>2, <2>3, <2>4, CallStepWait, ConnStepWait DEF SessionNext
<1> QED BY <1>1, <1>2, SessionInvariant, SessionTypes, PTL DEF SessionSafeSpec, SessionTypeOK

\* A request changes no other request's state.
LEMMA CallChangesItself ==
  ASSUME call \in [Calls -> CallStates], NEW j \in Calls, Call(j)
  PROVE  \A k \in Calls : k # j => call'[k] = call[k]
<1>1. CASE ServeRequest(j)
  BY <1>1 DEF ServeRequest
<1>2. CASE Login(j) \/ LoginRun(j)
  BY <1>2 DEF Login, LoginRun
<1>3. CASE LoginClose(j) \/ LoginCloseLock(j) \/ LoginCloseBody(j) \/ LoginNil(j)
  BY <1>3 DEF LoginClose, LoginCloseLock, LoginCloseBody, LoginNil
<1>4. CASE Getjob(j) \/ MiningSubmit(j) \/ Submit(j)
  BY <1>4 DEF Getjob, MiningSubmit, Submit
<1> QED BY <1>1, <1>2, <1>3, <1>4 DEF Call

\* A Submit whose share Run has, or cannot come to take, keeps connMu, and Run never
\* reaches its select.
LEMMA SubmitCycleStays ==
  ASSUME SessionInv, [SessionNext]_vars, NEW k \in Calls, connMu = k,
         call[k] \in {"subSend", "subWait"}, run # "select"
  PROVE  connMu' = connMu /\ run' # "select" /\ call'[k] = call[k]
<1> USE SessionAssumption
<1>1. /\ connMu # "free" /\ connMu # "serve" /\ \A j \in Calls : connMu = j <=> j = k
      /\ run \notin RunHolds
  BY DEF SessionInv, LockInv
<1>2. CASE Run
  BY <1>1, <1>2
     DEF Run, RunTop, RunConnect, RunDialFails, RunDialled, RunSend, RunSent, RunRetry,
         RunTakeShare, RunHandleSubmit, RunTakeNotify, RunDone, RunBroadcast, RunNotified,
         RunNotifyFails, RunShutdown, RunShutBody, RunHolds
<1>3. CASE Serve
  BY <1>1, <1>3 DEF Serve, ServeReadFails, ServeReturns, ServeDisconnect, ServeRemove,
                    ServeRemoveBody, runVars, SessionInv, LockInv
<1>4. ASSUME NEW j \in Calls, Call(j)
      PROVE  connMu' = connMu /\ run' # "select" /\ call'[k] = call[k]
  <2>1. call[j] # "closeBody"
    BY <1>1 DEF SessionInv, LockInv, CallHolds
  <2>2. j # k /\ connMu' = connMu /\ run' \in {run, "top"}
    BY <1>1, <1>4, <2>1
       DEF Call, ServeRequest, Login, LoginRun, LoginClose, LoginCloseLock, LoginCloseBody,
           LoginNil, Getjob, MiningSubmit, Submit, runVars
  <2> QED BY <1>4, <2>2, CallChangesItself DEF SessionInv, SessionVarsOK
<1>5. CASE ConnGoroutines \/ MinerLeaves \/ OtherProxies \/ UNCHANGED vars
  BY <1>5 DEF ConnGoroutines, MinerLeaves, OtherProxies, vars, runVars
<1> QED BY <1>2, <1>3, <1>4, <1>5 DEF SessionNext

\* A Run that waits for its own connMu waits forever.
LEMMA SelfCycleStays ==
  ASSUME SessionInv, [SessionNext]_vars, SelfCycle PROVE SelfCycle'
<1> USE DEF SelfCycle
<1>1. ~Run
  BY DEF Run, RunTop, RunConnect, RunDialFails, RunDialled, RunSend, RunSent, RunRetry,
         RunTakeShare, RunHandleSubmit, RunTakeNotify, RunDone, RunBroadcast, RunNotified,
         RunNotifyFails, RunShutdown, RunShutBody
<1>2. ASSUME NEW j \in Calls, Call(j) PROVE run' = run
  BY <1>2 DEF Call, ServeRequest, Login, LoginRun, LoginClose, LoginCloseLock, LoginCloseBody,
              LoginNil, Getjob, MiningSubmit, Submit, runVars, SessionInv, LoginInv
<1>3. CASE Serve
  BY <1>3 DEF Serve, ServeReadFails, ServeReturns, ServeDisconnect, ServeRemove,
              ServeRemoveBody, runVars
<1>4. CASE ConnGoroutines \/ MinerLeaves \/ OtherProxies \/ UNCHANGED vars
  BY <1>4 DEF ConnGoroutines, MinerLeaves, OtherProxies, vars, runVars
<1> QED BY <1>1, <1>2, <1>3, <1>4 DEF SessionNext

\* A Remove or a Close, a reader and a Run that wait for each other wait forever.
LEMMA ConnCycleStays ==
  ASSUME SessionInv, [SessionNext]_vars, ConnCycle PROVE ConnCycle'
<1> USE SessionAssumption
<1>1. /\ connMu # "free" /\ notifyOpen /\ RLocked /\ rd # "none"
      /\ run = "broadcast" /\ rd = "send" /\ Len(notify) = NotifyCap
  BY DEF ConnCycle, SessionInv, LockInv, CallHolds, RLocked
<1>2. ~CloseAndRelease
  BY <1>1 DEF CloseAndRelease
<1>3. ~Run
  BY <1>1
     DEF Run, RunTop, RunConnect, RunDialFails, RunDialled, RunSend, RunSent, RunRetry,
         RunTakeShare, RunHandleSubmit, RunTakeNotify, RunDone, RunBroadcast, RunNotified,
         RunNotifyFails, RunShutdown, RunShutBody
<1>4. CASE Serve
  <2>1. (serve = "removeBody" => serve' = "removeBody") /\ UNCHANGED <<run, rd, notify, call>>
    BY <1>1, <1>2, <1>4
       DEF Serve, ServeReadFails, ServeReturns, ServeDisconnect, ServeRemove, ServeRemoveBody,
           connVars, runVars
  <2> QED BY <1>1, <2>1 DEF ConnCycle
<1>5. ASSUME NEW j \in Calls, Call(j) PROVE ConnCycle'
  <2>1. UNCHANGED <<serve, run, rd, notify>> /\ call[j] # "closeBody"
    BY <1>1, <1>2, <1>5
       DEF Call, ServeRequest, Login, LoginRun, LoginClose, LoginCloseLock, LoginCloseBody,
           LoginNil, Getjob, MiningSubmit, Submit, SessionInv, LoginInv, connVars, runVars,
           minerVars
  <2>2. \A k \in Calls : call[k] = "closeBody" => call'[k] = "closeBody"
    BY <1>5, <2>1, CallChangesItself DEF SessionInv, SessionVarsOK
  <2> QED BY <1>1, <2>1, <2>2 DEF ConnCycle
<1>6. CASE ConnGoroutines
  <2>1. UNCHANGED <<serve, run, call>>
    BY <1>6 DEF ConnGoroutines, runVars, minerVars
  <2>2. ~(Len(notify) < NotifyCap)
    BY <1>1, CapacityAssumption
  <2>3. ~Reader
    BY <1>1, <2>2 DEF Reader, ReaderTop, ReaderGotFrame, ReaderBroken, ReaderTimeout,
                      ReaderLock, ReaderSend, ReaderStop
  <2>4. UNCHANGED <<rd, notify>>
    BY <1>6, <2>3 DEF ConnGoroutines, Writer, WriterTop, WriterTake, WriterWrite, WriterSpin,
                      WriterCancelled, WriterStop
  <2> QED BY <2>1, <2>4 DEF ConnCycle
<1>7. CASE MinerLeaves \/ OtherProxies \/ UNCHANGED vars
  BY <1>7 DEF MinerLeaves, OtherProxies, PoolDownElsewhere, vars, connVars, runVars, minerVars,
              ConnCycle
<1> QED BY <1>3, <1>4, <1>5, <1>6, <1>7 DEF SessionNext

\* The deadlocks of Submit, of NewJob and of Remove are for good.
THEOREM SessionDeadlocksStay == SessionSafeSpec => DeadlocksStay
<1>1. SessionInv /\ [SessionNext]_vars =>
        [/\ SubmitCycle => SubmitCycle'
         /\ SelfCycle => SelfCycle'
         /\ ConnCycle => ConnCycle']_vars
  <2> SUFFICES ASSUME SessionInv, [SessionNext]_vars
               PROVE  /\ SubmitCycle => SubmitCycle'
                      /\ SelfCycle => SelfCycle'
                      /\ ConnCycle => ConnCycle'
    OBVIOUS
  <2>1. ASSUME SubmitCycle PROVE SubmitCycle'
    BY <2>1, SubmitCycleStays DEF SubmitCycle
  <2> QED BY <2>1, SelfCycleStays, ConnCycleStays
<1> QED BY <1>1, SessionInvariant, PTL DEF SessionSafeSpec, DeadlocksStay

\* No share that Run has received is ever answered.
THEOREM SessionTakenShares == SessionSafeSpec => TakenShareNeverAnswered
<1>1. SessionInv /\ WaitInv /\ [SessionNext]_vars =>
        [\A k \in Calls : call[k] = "subWait" => call'[k] = "subWait"]_vars
  <2> SUFFICES ASSUME SessionInv, WaitInv, [SessionNext]_vars, NEW k \in Calls,
                      call[k] = "subWait"
               PROVE  call'[k] = "subWait"
    OBVIOUS
  <2>1. connMu = k /\ run = "handleSubmit"
    BY DEF SessionInv, LockInv, CallHolds, WaitInv
  <2> QED BY <2>1, SubmitCycleStays
<1> QED BY <1>1, SessionInvariant, SessionWaitInvariant, PTL
        DEF SessionSafeSpec, TakenShareNeverAnswered

\* The four deadlocks of Wedged are the only ways in which the holder of connMu waits
\* for something that does not come.
THEOREM SessionHolderGoesOn == SessionSafeSpec => []HolderGoesOn
<1>1. SessionInv /\ ConnTypeOK /\ WaitInv => HolderGoesOn
  <2> SUFFICES ASSUME SessionInv, ConnTypeOK, WaitInv, connMu # "free", ~Wedged
               PROVE  HolderGoesOn
    BY DEF HolderGoesOn
  <2> USE SessionAssumption, CapacityAssumption
  <2>0. /\ ~isClosed /\ run \in RunStates /\ connMu \in Calls \cup {"run", "serve"}
        /\ Len(msgs) \in Nat /\ Len(notify) \in Nat /\ Len(notify) <= NotifyCap
    BY DEF SessionInv, SessionVarsOK, LockInv, ConnTypeOK
  <2>1. CASE connMu = "run"
    <3>1. run \in RunHolds \ {"selfRemove", "shareSent"}
      BY <2>1 DEF SessionInv, LockInv, ShareInv, Wedged, SelfCycle
    <3>2. CASE run \in {"sendAddress", "sendName"}
      <4>1. pend = NoPacket
        BY <3>2 DEF WaitInv
      <4>2. LockWaiting => ReaderGoesOn
        BY <2>0, <3>2, <4>1 DEF LockWaiting, RLocked, ReaderGoesOn, Wedged, SendCycle
      <4> QED BY <3>2, <4>1, <4>2 DEF HolderGoesOn
    <3>3. CASE run = "addressSent"
      <4>1. msgs = <<>>
        BY <3>3 DEF WaitInv
      <4>2. Len(msgs) < MsgCap
        BY <4>1
      <4> QED BY <3>3, <4>2 DEF HolderGoesOn
    <3>4. CASE run = "nameSent"
      <4>1. Len(msgs) < MsgCap
        BY <2>0, <3>4 DEF WaitInv
      <4> QED BY <3>4, <4>1 DEF HolderGoesOn
    <3>5. CASE run = "shutBody"
      BY <2>0, <3>5 DEF WaitInv, HolderGoesOn
    <3> QED BY <3>1, <3>2, <3>3, <3>4, <3>5 DEF RunHolds, HolderGoesOn
  <2>2. ASSUME serve = "removeBody" \/ \E k \in Calls : call[k] = "closeBody"
        PROVE  pend = NoPacket /\ ReaderGoesOn
    <3>1. run \notin RunHolds /\ \A k \in Calls : call[k] # "subWait"
      BY <2>0, <2>2 DEF SessionInv, LockInv, CallHolds
    <3>2. pend = NoPacket
      BY <3>1 DEF WaitInv, RunHolds
    <3>3. run # "handleSubmit" /\ run # "exit"
      BY <2>0, <3>1 DEF WaitInv, SessionInv, SessionVarsOK, ShareInv
    <3>4. ReaderGoesOn
      <4> SUFFICES ASSUME rd = "send", Len(notify) >= NotifyCap PROVE run = "select"
        BY <2>0 DEF ReaderGoesOn
      <4>1. ~Unconnected
        BY DEF SessionInv, NoConnYet
      <4>2. run \in {"select", "broadcast"}
        BY <2>0, <3>1, <3>3, <4>1 DEF Unconnected, WaitInv, RunStates, RunHolds
      <4>3. Len(notify) = NotifyCap
        BY <2>0
      <4> QED BY <2>2, <4>2, <4>3 DEF Wedged, ConnCycle
    <3> QED BY <3>2, <3>4
  <2>3. CASE connMu = "serve"
    BY <2>2, <2>3 DEF SessionInv, LockInv, HolderGoesOn
  <2>4. ASSUME NEW k \in Calls, connMu = k PROVE HolderGoesOn
    <3>1. call[k] \in CallHolds
      BY <2>4 DEF SessionInv, LockInv
    <3>2. CASE call[k] = "closeBody"
      BY <2>2, <2>4, <3>2 DEF HolderGoesOn
    <3>3. CASE call[k] \in {"subSend", "subWait"}
      <4>1. run = "select"
        BY <2>4, <3>3 DEF Wedged, SubmitCycle
      <4>2. call[k] = "subSend"
        BY <3>3, <4>1 DEF WaitInv
      <4> QED BY <2>4, <4>1, <4>2 DEF HolderGoesOn
    <3> QED BY <3>1, <3>2, <3>3 DEF CallHolds
  <2> QED BY <2>0, <2>1, <2>3, <2>4
<1> QED BY <1>1, SessionInvariant, SessionTypes, SessionWaitInvariant, PTL DEF SessionTypeOK
=============================================================================
