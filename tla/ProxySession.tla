---------------------------- MODULE ProxySession ----------------------------
(***************************************************************************)
(* The life of one miner's session (server/proxy/proxy.go, mining.go,      *)
(* server/tcp/worker.go): the goroutine that serves the miner's JSON-RPC   *)
(* connection (SpawnWorker), one goroutine per request in flight, the Run  *)
(* goroutine of the proxy, and the proxy's connection to the pool with its *)
(* two goroutines (PoolConnection).  They meet in the lock connMu, in the  *)
(* unbuffered channel submissions and in the channel notify.               *)
(*                                                                         *)
(* connMu names its holder.  A step that takes and gives back connMu       *)
(* without waiting in between is one action with the guard "free".  done   *)
(* and submissions are open exactly as long as notify is (all three are    *)
(* closed together under connMu), so notifyOpen stands for the three.      *)
(***************************************************************************)
EXTENDS PoolConnection

CONSTANTS
  Calls,           \* the requests of one miner that can be in flight
  Requests,        \* what the miner sends: "badLogin" is a login the proxy refuses
  RetryTimes,      \* failed connects Run tolerates (config TryPoolTimes)
  ExitOnPoolDown,  \* config ExitOnPoolDown
  OthersRunning    \* other proxies change the shared counters meanwhile

NoCall == "none"

ASSUME SessionAssumption ==
  /\ Calls \cap {"free", "run", "serve", NoCall} = {}
  /\ Requests \subseteq {"login", "badLogin", "submit", "getjob"}
  /\ MsgCap >= 2   \* the two packets of a login: make(chan []byte, 8)
  /\ RetryTimes \in Nat
  /\ ExitOnPoolDown \in BOOLEAN /\ OthersRunning \in BOOLEAN

VARIABLES
  connMu,      \* holder of Proxy.connMu
  run,         \* control state of the goroutine Proxy.Run
  cl,          \* the argument Run passes to shutdown
  retryCount,  \* Run's count of failed connects
  dialFails,   \* history: how many of them were failed dials
  share,       \* the call whose share Run has received
  call,        \* control state of each request
  refused,     \* history: a refused login has set Worker.p to nil
  serve,       \* control state of the goroutine SpawnWorker
  miner,       \* the miner's TCP connection: up, gone (left), closed (by us)
  wp,          \* Worker.p is not nil
  isClosed,    \* Proxy.isClosed
  poolIsDown,  \* proxy.poolIsDown > 0 (one counter for all proxies)
  proc         \* the process: up, exit (os.Exit), nilDeref (crashed)

runVars == <<run, cl, retryCount, dialFails, share>>
minerVars == <<refused, serve, miner>>
sharedVars == <<wp, isClosed, poolIsDown, proc>>
vars == <<connVars, connMu, runVars, call, minerVars, sharedVars>>

RunStates ==
  {"none", "top", "connect", "dial", "sendAddress", "addressSent", "sendName",
   "nameSent", "retry", "select", "handleSubmit", "shareSent", "broadcast",
   "notifyMiner", "selfRemove", "shutdown", "shutBody", "exit"}
CallStates ==
  {"idle", "login", "badLogin", "loginRun", "loginClose", "closeLock", "closeBody",
   "loginNil", "submit", "subLock", "subSend", "subWait", "getjob"}
ServeStates == {"serving", "wait", "disconnect", "remove", "removeBody", "exit"}

\* The session's variables have the types of the code's, and Run never counts
\* past the failure that makes it give up.
SessionTypeOK ==
  /\ ConnTypeOK
  /\ connMu \in Calls \cup {"free", "run", "serve"}
  /\ run \in RunStates /\ cl \in {0, 2}
  /\ retryCount \in 0 .. RetryTimes + 1
  /\ dialFails \in 0 .. RetryTimes + 1
  /\ share \in Calls \cup {NoCall}
  /\ call \in [Calls -> CallStates]
  /\ refused \in BOOLEAN /\ serve \in ServeStates
  /\ miner \in {"up", "gone", "closed"}
  /\ wp \in BOOLEAN /\ isClosed \in BOOLEAN /\ poolIsDown \in BOOLEAN
  /\ proc \in {"up", "exit", "nilDeref"}

\* A miner was accepted: Director.NextProxy, Proxy.Add, ServeCodec.
SessionInit ==
  /\ ConnInit
  /\ connMu = "free"
  /\ run = "none" /\ cl = 0 /\ retryCount = 0 /\ dialFails = 0 /\ share = NoCall
  /\ call = [k \in Calls |-> "idle"]
  /\ refused = FALSE /\ serve = "serving" /\ miner = "up"
  /\ wp = TRUE /\ isClosed = FALSE
  /\ poolIsDown \in BOOLEAN
  /\ proc = "up"

-----------------------------------------------------------------------------
(* Proxy.Run: connecting.                                                  *)

\* The head of the connect loop.
RunTop ==
  /\ run = "top"
  /\ IF poolIsDown THEN run' = "shutdown" /\ cl' = 2
                   ELSE run' = "connect" /\ UNCHANGED cl
  /\ UNCHANGED <<connVars, connMu, retryCount, dialFails, share, call, minerVars, sharedVars>>

\* Mutant of RunConnect: connect does not test isClosed.
RunConnectUnchecked ==
  /\ run = "connect" /\ connMu = "free"
  /\ run' = "dial" /\ connMu' = "run"
  /\ UNCHANGED <<connVars, cl, retryCount, dialFails, share, call, minerVars, sharedVars>>

\* connect: a closed proxy is an error, otherwise the lock is kept while
\* dialling.
RunConnect ==
  /\ run = "connect" /\ connMu = "free"
  /\ IF isClosed THEN run' = "retry" /\ UNCHANGED connMu
                 ELSE run' = "dial" /\ connMu' = "run"
  /\ UNCHANGED <<connVars, cl, retryCount, dialFails, share, call, minerVars, sharedVars>>

\* Mutant of RunDialFails: connect returns its error without unlocking.
RunDialFailsKeepsLock ==
  /\ run = "dial"
  /\ run' = "retry"
  /\ dialFails' = dialFails + 1
  /\ UNCHANGED <<connVars, connMu, cl, retryCount, share, call, minerVars, sharedVars>>

RunDialFails ==
  /\ run = "dial"
  /\ run' = "retry" /\ connMu' = "free"
  /\ dialFails' = dialFails + 1
  /\ UNCHANGED <<connVars, cl, retryCount, share, call, minerVars, sharedVars>>

RunDialled ==
  /\ run = "dial"
  /\ ConnStart
  /\ run' = "sendAddress"
  /\ UNCHANGED <<connMu, cl, retryCount, dialFails, share, call, minerVars, sharedVars>>

\* The 24-byte address goes out first, then, two seconds later, the name.
RunSend ==
  /\ \/ run = "sendAddress" /\ SendBuffMsg("address") /\ run' = "addressSent"
     \/ run = "sendName" /\ SendBuffMsg("name") /\ run' = "nameSent"
  /\ UNCHANGED <<connMu, cl, retryCount, dialFails, share, call, minerVars, sharedVars>>

\* SendBuffMsg returns; an error of it is ignored.  A miner without a name
\* (password "x") skips the second packet; a share is now answered.
RunSent ==
  /\ IF pend # NoPacket THEN SendBuffDone ELSE UNCHANGED connVars
  /\ \/ run = "addressSent" /\ run' = "sendName" /\ UNCHANGED <<connMu, share, call>>
     \/ /\ run \in {"addressSent", "nameSent"} /\ run' = "select" /\ connMu' = "free"
        /\ UNCHANGED <<share, call>>
     \/ /\ run = "shareSent" /\ run' = "select" /\ connMu' = "free"
        /\ share' = NoCall /\ call' = [call EXCEPT ![share] = "idle"]
  /\ UNCHANGED <<cl, retryCount, dialFails, minerVars, sharedVars>>

\* Mutant of RunRetry: one failure too few.
RunRetryEarly ==
  /\ run = "retry"
  /\ retryCount' = retryCount + 1
  /\ IF retryCount' >= RetryTimes THEN run' = "shutdown" /\ cl' = 2
                                  ELSE run' = "top" /\ UNCHANGED cl
  /\ UNCHANGED <<connVars, connMu, dialFails, share, call, minerVars, sharedVars>>

\* Mutant of RunRetry: Run never gives up.
RunRetryForever ==
  /\ run = "retry"
  /\ retryCount' = retryCount + 1
  /\ run' = "top"
  /\ UNCHANGED <<connVars, connMu, cl, dialFails, share, call, minerVars, sharedVars>>

\* A failed connect is counted; the delay before the next is only time.
RunRetry ==
  /\ run = "retry"
  /\ retryCount' = retryCount + 1
  /\ IF retryCount' > RetryTimes THEN run' = "shutdown" /\ cl' = 2
                                 ELSE run' = "top" /\ UNCHANGED cl
  /\ UNCHANGED <<connVars, connMu, dialFails, share, call, minerVars, sharedVars>>

-----------------------------------------------------------------------------
(* Proxy.Run: the select loop.                                             *)

\* case s := <-p.submissions: a rendezvous with a Submit that waits in its
\* send, or the nil of the closed channel.
RunTakeShare ==
  /\ run = "select"
  /\ run' = "handleSubmit"
  /\ \/ /\ notifyOpen
        /\ \E k \in Calls : /\ call[k] = "subSend"
                            /\ share' = k
                            /\ call' = [call EXCEPT ![k] = "subWait"]
     \/ ~notifyOpen /\ share' = NoCall /\ UNCHANGED call
  /\ UNCHANGED <<connVars, connMu, cl, retryCount, dialFails, minerVars, sharedVars>>

\* handleSubmit: it needs connMu.  A closed proxy returns.  An open one answers the
\* waiting Submit: at once, for want of a connection, with an invalid share or with
\* one it keeps or ignores, or after a SendBuffMsg, over which it keeps connMu.
RunHandleSubmit ==
  /\ run = "handleSubmit" /\ connMu = "free"
  /\ \/ /\ run' = "select" /\ share' = NoCall
        /\ call' = IF isClosed THEN call ELSE [call EXCEPT ![share] = "idle"]
        /\ UNCHANGED <<connVars, connMu>>
     \/ /\ ~isClosed
        /\ SendBuffMsg("share")
        /\ run' = "shareSent" /\ connMu' = "run"
        /\ UNCHANGED <<share, call>>
  /\ UNCHANGED <<cl, retryCount, dialFails, minerVars, sharedVars>>

\* case notif := <-p.notify: handleNotification pairs two fields into a job.
\* A new job goes to broadcastJob, any other field ends here.  The closed
\* channel gives fields of zeroes.
RunTakeNotify ==
  /\ run = "select"
  /\ IF notify # <<>> THEN TakeNotify ELSE ~notifyOpen /\ UNCHANGED connVars
  /\ run' \in {"select", "broadcast"}
  /\ UNCHANGED <<connMu, cl, retryCount, dialFails, share, call, minerVars, sharedVars>>

\* Mutant of RunDone: the closed channel does not end the loop.
RunDoneIgnored ==
  /\ run = "select" /\ ~notifyOpen
  /\ UNCHANGED vars

\* case cl := <-p.done: nobody sends on it, so it is the 0 of the closed
\* channel.
RunDone ==
  /\ run = "select" /\ ~notifyOpen
  /\ run' = "shutdown" /\ cl' = 0
  /\ UNCHANGED <<connVars, connMu, retryCount, dialFails, share, call, minerVars, sharedVars>>

\* broadcastJob takes the lock for the whole notification.
RunBroadcast ==
  /\ run = "broadcast" /\ connMu = "free"
  /\ IF isClosed THEN run' = "select" /\ UNCHANGED connMu
                 ELSE run' = "notifyMiner" /\ connMu' = "run"
  /\ UNCHANGED <<connVars, cl, retryCount, dialFails, share, call, minerVars, sharedVars>>

\* Worker.NewJob writes the job; a miner that left may not be noticed yet.
RunNotified ==
  /\ run = "notifyMiner" /\ miner # "closed"
  /\ run' = "select" /\ connMu' = "free"
  /\ UNCHANGED <<connVars, cl, retryCount, dialFails, share, call, minerVars, sharedVars>>

\* Mutant of RunNotifyFails: NewJob calls Worker.Close, which takes no lock.
RunNotifyFailsClose ==
  /\ run = "notifyMiner" /\ miner # "up"
  /\ miner' = "closed" /\ wp' = FALSE
  /\ run' = "select" /\ connMu' = "free"
  /\ UNCHANGED <<connVars, cl, retryCount, dialFails, share, call, refused, serve, isClosed,
                 poolIsDown, proc>>

\* The write fails: Worker.Disconnect closes the socket and, with Worker.p
\* set, calls Remove, which locks connMu again in the same goroutine.  There is
\* no step out of "selfRemove".
RunNotifyFails ==
  /\ run = "notifyMiner" /\ miner # "up"
  /\ miner' = "closed"
  /\ IF wp THEN run' = "selfRemove" /\ UNCHANGED connMu
           ELSE run' = "select" /\ connMu' = "free"
  /\ UNCHANGED <<connVars, cl, retryCount, dialFails, share, call, refused, serve, sharedVars>>

-----------------------------------------------------------------------------
(* Giving the proxy up: shutdown by Run, Close by a refused login, Remove  *)
(* by SpawnWorker.  Each takes connMu, returns on a closed proxy, waits    *)
(* for the Lock of the connection with connMu held, and closes everything. *)

\* Mutant of RunShutdown: the isClosed test of shutdown is missing.
RunShutdownUnchecked ==
  /\ run = "shutdown" /\ connMu = "free"
  /\ run' = "shutBody" /\ connMu' = "run"
  /\ UNCHANGED <<connVars, cl, retryCount, dialFails, share, call, minerVars, sharedVars>>

RunShutdown ==
  /\ run = "shutdown" /\ connMu = "free"
  /\ IF isClosed THEN run' = "exit" /\ UNCHANGED connMu
                 ELSE run' = "shutBody" /\ connMu' = "run"
  /\ UNCHANGED <<connVars, cl, retryCount, dialFails, share, call, minerVars, sharedVars>>

\* shutdown(0) closes the connection; shutdown(2) raises poolIsDown, releases
\* the worker and may end the process, but leaves the connection alone.
RunShutBody ==
  /\ run = "shutBody"
  /\ run' = "exit" /\ connMu' = "free" /\ isClosed' = TRUE
  /\ IF cl = 2
       THEN /\ ReleaseOnly
            /\ poolIsDown' = TRUE /\ wp' = FALSE /\ miner' = "closed"
            /\ proc' = IF ExitOnPoolDown THEN "exit" ELSE proc
       ELSE CloseAndRelease /\ UNCHANGED <<wp, poolIsDown, proc, miner>>
  /\ UNCHANGED <<cl, retryCount, dialFails, share, call, refused, serve>>

\* RemoveProxy of a refused login, after its test of Worker.p: w.p is read again
\* for the call of Close, and nil is fatal.
LoginClose(k) ==
  /\ call[k] = "loginClose"
  /\ IF wp THEN call' = [call EXCEPT ![k] = "closeLock"] /\ UNCHANGED proc
           ELSE proc' = "nilDeref" /\ UNCHANGED call
  /\ UNCHANGED <<connVars, connMu, runVars, minerVars, wp, isClosed, poolIsDown>>

\* Proxy.Close.
LoginCloseLock(k) ==
  /\ call[k] = "closeLock" /\ connMu = "free"
  /\ IF isClosed
       THEN call' = [call EXCEPT ![k] = "loginNil"] /\ UNCHANGED connMu
       ELSE call' = [call EXCEPT ![k] = "closeBody"] /\ connMu' = k
  /\ UNCHANGED <<connVars, runVars, minerVars, sharedVars>>

LoginCloseBody(k) ==
  /\ call[k] = "closeBody"
  /\ CloseAndRelease
  /\ call' = [call EXCEPT ![k] = "loginNil"]
  /\ connMu' = "free" /\ isClosed' = TRUE
  /\ UNCHANGED <<runVars, minerVars, wp, poolIsDown, proc>>

\* Back in RemoveProxy: w.p = nil.  The miner's connection stays as it is.
LoginNil(k) ==
  /\ call[k] = "loginNil"
  /\ call' = [call EXCEPT ![k] = "idle"]
  /\ wp' = FALSE /\ refused' = TRUE
  /\ UNCHANGED <<connVars, connMu, runVars, serve, miner, isClosed, poolIsDown, proc>>

\* Disconnect reads Worker.p for its test and again for the call: a shutdown in
\* between leaves nil for the second.
ServeDisconnect ==
  /\ serve = "disconnect"
  /\ IF wp THEN serve' = "remove" /\ UNCHANGED proc
           ELSE proc' = "nilDeref" /\ UNCHANGED serve
  /\ UNCHANGED <<connVars, connMu, runVars, call, refused, miner, wp, isClosed, poolIsDown>>

\* Proxy.Remove; afterwards Worker.p = nil.
ServeRemove ==
  /\ serve = "remove" /\ connMu = "free"
  /\ IF isClosed THEN serve' = "exit" /\ wp' = FALSE /\ UNCHANGED connMu
                 ELSE serve' = "removeBody" /\ connMu' = "serve" /\ UNCHANGED wp
  /\ UNCHANGED <<connVars, runVars, call, refused, miner, isClosed, poolIsDown, proc>>

\* Mutant of ServeRemoveBody: Remove forgets the pool connection.
ServeRemoveLeaks ==
  /\ serve = "removeBody"
  /\ ReleaseOnly
  /\ serve' = "exit" /\ connMu' = "free" /\ isClosed' = TRUE /\ wp' = FALSE
  /\ UNCHANGED <<runVars, call, refused, miner, poolIsDown, proc>>

ServeRemoveBody ==
  /\ serve = "removeBody"
  /\ CloseAndRelease
  /\ serve' = "exit" /\ connMu' = "free" /\ isClosed' = TRUE /\ wp' = FALSE
  /\ UNCHANGED <<runVars, call, refused, miner, poolIsDown, proc>>

-----------------------------------------------------------------------------
(* The miner's side: the RPC server and its requests.                      *)

\* ServeCodec reads a request and starts a goroutine for it: any request, before
\* or after a login, and also one that was sent before the connection ended.  The
\* one exception: two logins that are both accepted would run two Runs on this
\* proxy, so a login that can be accepted is sent only while there is none.
ServeRequest(k) ==
  /\ serve = "serving" /\ call[k] = "idle"
  /\ \E m \in Requests :
       /\ m = "login" /\ wp =>
            run = "none" /\ \A j \in Calls : call[j] \notin {"login", "loginRun"}
       /\ call' = [call EXCEPT ![k] = m]
  /\ UNCHANGED <<connVars, connMu, runVars, minerVars, sharedVars>>

\* Mining.Login: refused while the pool is down and for a bad address, when
\* RemoveProxy looks at Worker.p; otherwise SetAddress uses it, and nil is fatal.
Login(k) ==
  /\ call[k] \in {"login", "badLogin"}
  /\ IF poolIsDown \/ call[k] = "badLogin"
       THEN /\ call' = [call EXCEPT ![k] = IF wp THEN "loginClose" ELSE "idle"]
            /\ UNCHANGED proc
       ELSE /\ call' = [call EXCEPT ![k] = "loginRun"]
            /\ proc' = IF wp THEN proc ELSE "nilDeref"
  /\ UNCHANGED <<connVars, connMu, runVars, minerVars, wp, isClosed, poolIsDown>>

\* go worker.Proxy().Run(minerName), with Worker.p read once more.
LoginRun(k) ==
  /\ call[k] = "loginRun"
  /\ call' = [call EXCEPT ![k] = "idle"]
  /\ IF wp THEN run' = "top" /\ UNCHANGED proc
           ELSE proc' = "nilDeref" /\ UNCHANGED run
  /\ UNCHANGED <<connVars, connMu, cl, retryCount, dialFails, share, minerVars, wp, isClosed,
                 poolIsDown>>

\* Mining.Getjob: worker.Proxy().NextJob() on a nil proxy is fatal.
Getjob(k) ==
  /\ call[k] = "getjob"
  /\ call' = [call EXCEPT ![k] = "idle"]
  /\ proc' = IF wp THEN proc ELSE "nilDeref"
  /\ UNCHANGED <<connVars, connMu, runVars, minerVars, wp, isClosed, poolIsDown>>

\* Mining.Submit: worker.Proxy() is read, Submit is entered with it.
MiningSubmit(k) ==
  /\ call[k] = "submit"
  /\ call' = [call EXCEPT ![k] = "subLock"]
  /\ proc' = IF wp THEN proc ELSE "nilDeref"
  /\ UNCHANGED <<connVars, connMu, runVars, minerVars, wp, isClosed, poolIsDown>>

\* Proxy.Submit under connMu: a closed proxy or an unknown job id is an error,
\* any other share is sent to Run, with connMu held until Run has answered.
Submit(k) ==
  /\ call[k] = "subLock" /\ connMu = "free"
  /\ \/ call' = [call EXCEPT ![k] = "idle"] /\ UNCHANGED connMu
     \/ ~isClosed /\ call' = [call EXCEPT ![k] = "subSend"] /\ connMu' = k
  /\ UNCHANGED <<connVars, runVars, minerVars, sharedVars>>

\* The miner closes its connection.
MinerLeaves ==
  /\ miner = "up"
  /\ miner' = "gone"
  /\ UNCHANGED <<connVars, connMu, runVars, call, refused, serve, sharedVars>>

\* Reading a request fails: EOF, a closed socket, the read deadline of 90 or 45
\* seconds, or malformed JSON.
ServeReadFails ==
  /\ serve = "serving"
  /\ serve' = "wait"
  /\ UNCHANGED <<connVars, connMu, runVars, call, refused, miner, sharedVars>>

\* Mutant of ServeReturns: SpawnWorker returns without Disconnect.
ServeReturnsOnly ==
  /\ serve = "wait" /\ \A k \in Calls : call[k] = "idle"
  /\ miner' = "closed" /\ serve' = "exit"
  /\ UNCHANGED <<connVars, connMu, runVars, call, refused, sharedVars>>

\* ServeCodec waits for the requests in flight and closes the codec;
\* Disconnect closes the socket and looks at Worker.p.
ServeReturns ==
  /\ serve = "wait" /\ \A k \in Calls : call[k] = "idle"
  /\ miner' = "closed"
  /\ serve' = IF wp THEN "disconnect" ELSE "exit"
  /\ UNCHANGED <<connVars, connMu, runVars, call, refused, sharedVars>>

-----------------------------------------------------------------------------
\* Steps of the connection's goroutines, which touch only their own state.
ConnGoroutines ==
  /\ Reader \/ Writer
  /\ UNCHANGED <<connMu, runVars, call, minerVars, sharedVars>>

\* Another proxy finds the pool down, or another connection times out, or
\* PoolDetect clears PoolDown.
OtherProxies ==
  /\ OthersRunning
  /\ \/ PoolDownElsewhere /\ UNCHANGED poolIsDown
     \/ poolIsDown' = TRUE /\ UNCHANGED connVars
  /\ UNCHANGED <<connMu, runVars, call, minerVars, wp, isClosed, proc>>

Run ==
  \/ RunTop \/ RunConnect \/ RunDialFails \/ RunDialled \/ RunSend \/ RunSent
  \/ RunRetry \/ RunTakeShare \/ RunHandleSubmit \/ RunTakeNotify \/ RunDone
  \/ RunBroadcast \/ RunNotified \/ RunNotifyFails \/ RunShutdown \/ RunShutBody

Call(k) ==
  \/ ServeRequest(k) \/ Login(k) \/ LoginRun(k) \/ LoginClose(k) \/ LoginCloseLock(k)
  \/ LoginCloseBody(k) \/ LoginNil(k) \/ Getjob(k) \/ MiningSubmit(k) \/ Submit(k)

Serve ==
  ServeReadFails \/ ServeReturns \/ ServeDisconnect \/ ServeRemove \/ ServeRemoveBody

SessionNext ==
  /\ proc = "up"
  /\ \/ Run \/ Serve \/ ConnGoroutines
     \/ \E k \in Calls : Call(k)
     \/ MinerLeaves \/ OtherProxies

SessionSafeSpec == SessionInit /\ [][SessionNext]_vars

-----------------------------------------------------------------------------
(* Fairness.  A goroutine that can run does.  A Go mutex hands itself to a *)
(* waiter that has waited too long, an RWMutex lets no new reader past a   *)
(* waiting Lock, and a select with several ready cases picks one at        *)
(* random: the steps that take connMu or the connection's Lock, and the    *)
(* cases of the select, are strongly fair.  A dial and a read have         *)
(* deadlines; a write to the pool is only sure to end on a closed socket,  *)
(* a write to the miner is assumed to succeed or fail.  Nothing else is    *)
(* assumed of the miner, of the pool or of other proxies, and a session    *)
(* whose miner stays connected may be served forever.                      *)

Up(A) == proc = "up" /\ A

ConnStep(A) == Up(A) /\ UNCHANGED <<connMu, runVars, call, minerVars, sharedVars>>

ConnGoroutineFairness ==
  /\ SF_vars(ConnStep(\/ ReaderTop \/ ReaderBroken \/ (~LockWaiting /\ ReaderLock)
                      \/ ReaderSend \/ ReaderStop))
  /\ WF_vars(ConnStep(WriterTop \/ WriterTake \/ (~sockOpen /\ WriterWrite)))
  /\ SF_vars(ConnStep(WriterCancelled \/ WriterStop))

RunFairness ==
  /\ WF_vars(Up(Run /\ (run \in {"sendAddress", "sendName"} => ~LockWaiting)))
  /\ SF_vars(Up(RunConnect \/ RunBroadcast \/ RunHandleSubmit \/ RunShutdown \/ RunTakeShare))
  /\ SF_vars(Up(RunDone))

ServeFairness ==
  /\ WF_vars(Up(miner # "up" /\ ServeReadFails))
  /\ SF_vars(Up(ServeReturns \/ ServeDisconnect \/ ServeRemove \/ ServeRemoveBody))

CallFairness ==
  \A k \in Calls :
    SF_vars(Up(\/ Login(k) \/ LoginRun(k) \/ LoginClose(k) \/ LoginCloseLock(k)
               \/ LoginCloseBody(k) \/ LoginNil(k) \/ Getjob(k) \/ MiningSubmit(k)
               \/ Submit(k)))

SessionSpec ==
  /\ SessionSafeSpec
  /\ ConnGoroutineFairness /\ RunFairness /\ ServeFairness /\ CallFairness

-----------------------------------------------------------------------------
(* Safety.                                                                 *)

\* A closed proxy has no connection to the pool left open: shutdown(2) never
\* meets one, and connect never opens one on a closed proxy.
NoOrphanConnection == isClosed => rd = "none" \/ connClosed

\* This proxy declares the pool down for everybody only after RetryTimes + 1
\* dials of its own failed: the errors connect reports once the miner is gone
\* are counted by Run as well, but raise no alarm.
NoFalseAlarm ==
  [][run = "shutBody" /\ run' = "exit" /\ ~poolIsDown /\ poolIsDown'
       => dialFails = RetryTimes + 1]_vars

\* Worker.p is read without a lock by requests and by Disconnect, which tests and
\* uses it in two reads; a nil found at the second ends the program.  Two things
\* bring it about, and Remove is not one of them.  One is the shutdown(2) of this
\* proxy's Run.  The other is a refused login, which leaves the miner's connection
\* open: whatever the miner sends with it or after it meets the nil.
\* Disconnect meets only the first.
NilAfterRelease ==
  proc = "nilDeref" =>
    \/ run = "exit" /\ cl = 2
    \/ refused /\ serve \in {"serving", "wait"}

\* Who holds connMu follows from the control states, and a proxy is closed only
\* by the holder: the argument the other safety properties rest on.
RunHolds == {"dial", "sendAddress", "addressSent", "sendName", "nameSent",
             "shareSent", "notifyMiner", "selfRemove", "shutBody"}
CallHolds == {"closeBody", "subSend", "subWait"}

LockInv ==
  /\ connMu = "run" <=> run \in RunHolds
  /\ connMu = "serve" <=> serve = "removeBody"
  /\ \A k \in Calls : connMu = k <=> call[k] \in CallHolds
  /\ connMu # "free" => ~isClosed
  /\ isClosed <=> ~notifyOpen

-----------------------------------------------------------------------------
(* Deadlocks: the four ways in which the holder of connMu waits forever.   *)

\* Submit holds connMu and waits for Run, which was not started yet or needs connMu
\* before it comes (back) to its select.
SubmitCycle ==
  /\ run # "select"
  /\ \E k \in Calls : connMu = k /\ call[k] \in {"subSend", "subWait"}

\* Run holds connMu and waits for it in Remove.
SelfCycle == run = "selfRemove"

\* Remove by SpawnWorker, or Close by a refused login, holds connMu and waits for
\* the connection's Lock, the reader holds its RLock and waits for room in notify,
\* Run waits for connMu.
ConnCycle ==
  /\ serve = "removeBody" \/ \E k \in Calls : call[k] = "closeBody"
  /\ run = "broadcast"
  /\ rd = "send" /\ Len(notify) = NotifyCap

\* Run is connecting, with connMu, and its SendBuffMsg waits behind the writer,
\* which waits for the connection's Lock; the reader holds its RLock and waits
\* for room in notify, which Run does not read before it has connected.
SendCycle ==
  /\ run \in {"sendAddress", "sendName"} /\ wr = "stop"
  /\ rd = "send" /\ Len(notify) = NotifyCap

Wedged == SubmitCycle \/ SelfCycle \/ ConnCycle \/ SendCycle

\* A deadlock is for good: no goroutine of the session, no departure of the miner
\* and no other proxy resolves one.  (A send can leave SendCycle, if its RLock slips
\* in before the waiting Lock.)
DeadlocksStay ==
  [][/\ SubmitCycle => SubmitCycle'
     /\ SelfCycle => SelfCycle'
     /\ ConnCycle => ConnCycle']_vars

\* Run answers no share: a Submit whose share Run has received waits for its answer
\* with connMu, which handleSubmit needs before it gives one.
TakenShareNeverAnswered ==
  [][\A k \in Calls : call[k] = "subWait" => call'[k] = "subWait"]_vars

\* The reader of the connection gets out of its RLock: there is room in notify, or
\* Run is about to take from it.
ReaderGoesOn == rd = "send" => Len(notify) < NotifyCap \/ run = "select"

\* The four deadlocks are all there are: in any other state the goroutine that holds
\* connMu can go on, or waits for one that can.
HolderGoesOn ==
  connMu # "free" =>
    \/ Wedged
    \/ run \in {"dial", "notifyMiner"}
    \/ run = "shutBody" /\ cl = 2
    \/ run \in {"sendAddress", "sendName"} /\ pend = NoPacket /\ (LockWaiting => ReaderGoesOn)
    \/ run \in {"addressSent", "nameSent"} /\ (pend # NoPacket => Len(msgs) < MsgCap)
    \/ serve = "removeBody" /\ pend = NoPacket /\ ReaderGoesOn
    \/ \E k \in Calls :
         /\ connMu = k
         /\ \/ call[k] = "closeBody" /\ pend = NoPacket /\ ReaderGoesOn
            \/ call[k] = "subSend" /\ run = "select"

-----------------------------------------------------------------------------
(* Liveness.                                                               *)

Ended ==
  /\ serve = "exit" /\ run \in {"none", "exit"}
  /\ rd \in {"none", "exit"} /\ wr \in {"none", "exit"}

\* Once a proxy is closed its Run goroutine and both goroutines of its
\* connection end, whatever they were waiting for.
ClosedSessionEnds ==
  isClosed ~> \/ proc # "up"
              \/ /\ run \in {"none", "exit"}
                 /\ rd \in {"none", "exit"} /\ wr \in {"none", "exit"}

\* When the miner is gone every goroutine of its session ends, except in the
\* four ways to wait forever that Wedged names.
DepartedSessionEnds == (miner # "up") ~> (Ended \/ Wedged \/ proc # "up")

\* Every request is answered, with the same exceptions.
RequestsReturn ==
  \A k \in Calls : (call[k] # "idle") ~> (call[k] = "idle" \/ Wedged \/ proc # "up")

-----------------------------------------------------------------------------
(* What the comments of the code claim.                                    *)

\* "Submit sends worker shares to the pool.  Safe for concurrent use.": a share
\* that Submit accepts is answered.
ShareAnswered == \A k \in Calls : (call[k] = "subSend") ~> (call[k] = "idle")
=============================================================================
