----------------------------- MODULE PoolDetect -----------------------------
(***************************************************************************)
(* How the program notices that the pool is back (server/proxy/detect.go   *)
(* and the detectProxy branches of proxy.go).  While poolIsDown is set,    *)
(* PoolDetect starts, every ten minutes, one more Run on a proxy that has  *)
(* no miner (ID 0); a job from the pool is the sign that it has recovered. *)
(*                                                                         *)
(* The Runs share the one proxy.  A Run that has connected waits in its    *)
(* select for as long as poolIsDown is set; these are all alike and        *)
(* `waiting` says that there are some.  ExitOnPoolDown is off: with it the *)
(* program exits where poolIsDown is set.                                  *)
(***************************************************************************)
EXTENDS Naturals

CONSTANTS
  Runs,        \* bound: Runs that are connecting at the same time
  RetryTimes   \* failed connects a Run tolerates

ASSUME DetectAssumption == RetryTimes \in Nat

VARIABLES
  poolUp,      \* external: the pool accepts connections and sends jobs
  poolIsDown,  \* proxy.poolIsDown > 0
  poolDown,    \* xdag.PoolDown > 0
  run,         \* control state of each connecting Run
  retryCount,  \* and its count of failures
  waiting,     \* some Run is in its select
  isClosed,    \* Proxy.isClosed of the detect proxy
  live,        \* Proxy.Conn is a working connection
  leaked,      \* so is one that a later connect has replaced in Proxy.Conn
  recvCount

detectVars == <<poolUp, poolIsDown, poolDown, run, retryCount, waiting, isClosed, live,
                leaked, recvCount>>

\* The detector's variables have the types of the code's.
DetectTypeOK ==
  /\ poolUp \in BOOLEAN /\ poolIsDown \in BOOLEAN /\ poolDown \in BOOLEAN
  /\ run \in [Runs -> {"idle", "connect", "retry", "shutdown"}]
  /\ retryCount \in [Runs -> 0 .. RetryTimes + 1]
  /\ waiting \in BOOLEAN /\ isClosed \in BOOLEAN /\ live \in BOOLEAN
  /\ leaked \in BOOLEAN
  /\ recvCount \in 0 .. 1

DetectInit ==
  /\ poolUp \in BOOLEAN /\ poolIsDown = FALSE /\ poolDown \in BOOLEAN
  /\ run = [r \in Runs |-> "idle"] /\ retryCount = [r \in Runs |-> 0]
  /\ waiting = FALSE /\ isClosed = FALSE /\ live = FALSE /\ leaked = FALSE
  /\ recvCount = 0

-----------------------------------------------------------------------------
(* The rest of the program and the pool.                                   *)

\* A miner's Run exhausts its retries: shutdown(2).
SessionGivesUp ==
  /\ ~poolUp /\ poolIsDown' = TRUE
  /\ UNCHANGED <<poolUp, poolDown, run, retryCount, waiting, isClosed, live, leaked, recvCount>>

\* External: the pool stops, with or without a word to its peers, or starts
\* again, knowing nothing of its former connections.
PoolStops ==
  /\ poolUp /\ poolUp' = FALSE
  /\ UNCHANGED <<poolIsDown, poolDown, run, retryCount, waiting, isClosed, live, leaked, recvCount>>

PoolStarts ==
  /\ ~poolUp /\ poolUp' = TRUE /\ live' = FALSE /\ leaked' = FALSE
  /\ UNCHANGED <<poolIsDown, poolDown, run, retryCount, waiting, isClosed, recvCount>>

\* A read of some connection times out: only a pool that sends nothing lets it.
ReadTimesOut ==
  /\ ~poolUp /\ ~poolDown /\ poolDown' = TRUE
  /\ UNCHANGED <<poolUp, poolIsDown, run, retryCount, waiting, isClosed, live, leaked, recvCount>>

\* The goroutines of a connection see an error, or PoolDown set, and Stop it.
\* Nobody tells the Run that waits for its jobs.
ConnStops ==
  /\ poolDown \/ ~poolUp
  /\ \/ live /\ live' = FALSE /\ UNCHANGED leaked
     \/ leaked /\ leaked' = FALSE /\ UNCHANGED live
  /\ UNCHANGED <<poolUp, poolIsDown, poolDown, run, retryCount, waiting, isClosed, recvCount>>

-----------------------------------------------------------------------------
(* The detector.                                                           *)

\* Mutant of Tick: the proxy a former Run has closed is not opened again.
TickKeepsClosed ==
  /\ poolIsDown
  /\ \E r \in Runs : run[r] = "idle" /\ run' = [run EXCEPT ![r] = "connect"]
                     /\ retryCount' = [retryCount EXCEPT ![r] = 0]
  /\ poolDown' = FALSE /\ recvCount' = 0
  /\ UNCHANGED <<poolUp, poolIsDown, waiting, isClosed, live, leaked>>

\* The ticker of PoolDetect: the proxy is reset, without its lock, and one more
\* Run is started on it, whatever the Runs of former ticks are doing.  (Runs bounds
\* how many are connecting at once.)
Tick ==
  /\ poolIsDown
  /\ \E r \in Runs : run[r] = "idle" /\ run' = [run EXCEPT ![r] = "connect"]
                     /\ retryCount' = [retryCount EXCEPT ![r] = 0]
  /\ isClosed' = FALSE /\ poolDown' = FALSE /\ recvCount' = 0
  /\ UNCHANGED <<poolUp, poolIsDown, waiting, live, leaked>>

\* connect: it fails on a closed proxy or without the pool.  The new connection
\* replaces p.Conn without closing it.
Connect(r) ==
  /\ run[r] = "connect"
  /\ IF isClosed \/ ~poolUp
       THEN run' = [run EXCEPT ![r] = "retry"] /\ UNCHANGED <<live, leaked, waiting>>
       ELSE run' = [run EXCEPT ![r] = "idle"] /\ live' = TRUE /\ waiting' = TRUE
            /\ leaked' = (leaked \/ live)
  /\ UNCHANGED <<poolUp, poolIsDown, poolDown, retryCount, isClosed, recvCount>>

\* Mutant of Retry: a Run never gives up.
RetryForever(r) ==
  /\ run[r] = "retry"
  /\ retryCount' = [retryCount EXCEPT ![r] = @ + 1]
  /\ run' = [run EXCEPT ![r] = "connect"]
  /\ UNCHANGED <<poolUp, poolIsDown, poolDown, waiting, isClosed, live, leaked, recvCount>>

Retry(r) ==
  /\ run[r] = "retry"
  /\ retryCount' = [retryCount EXCEPT ![r] = @ + 1]
  /\ run' = [run EXCEPT ![r] = IF retryCount'[r] > RetryTimes THEN "shutdown" ELSE "connect"]
  /\ UNCHANGED <<poolUp, poolIsDown, poolDown, waiting, isClosed, live, leaked, recvCount>>

\* What shutdown(-1) does to the detect proxy: unless it is closed already,
\* whatever p.Conn is now is closed; with ID 0 the channels stay open.
CloseDetectProxy == isClosed' = TRUE /\ live' = (live /\ isClosed)

Shutdown(r) ==
  /\ run[r] = "shutdown"
  /\ run' = [run EXCEPT ![r] = "idle"]
  /\ CloseDetectProxy
  /\ UNCHANGED <<poolUp, poolIsDown, poolDown, retryCount, waiting, leaked, recvCount>>

\* The two names the code has for the detector, and the one PoolDetect gives to
\* its proxy as p.address.
detectProxy == "XDAG_POOL_RESTART_DETECT_PROXY"
detectAddr == "NO_ADDRESS_PROXY_0"
address == detectAddr

\* handleNotification in a waiting Run: the second field of a task is meant to be
\* the sign that the pool is back.
Notification ==
  /\ waiting /\ poolUp /\ (live \/ leaked)
  /\ recvCount' = 1 - recvCount
  /\ IF recvCount = 1 /\ address = detectProxy
       THEN poolIsDown' = FALSE /\ CloseDetectProxy
       ELSE UNCHANGED <<poolIsDown, isClosed, live>>
  /\ UNCHANGED <<poolUp, poolDown, run, retryCount, waiting, leaked>>

DetectNext ==
  \/ SessionGivesUp \/ PoolStops \/ PoolStarts \/ ReadTimesOut \/ ConnStops
  \/ Tick \/ Notification
  \/ \E r \in Runs : Connect(r) \/ Retry(r) \/ Shutdown(r)

\* The ticker ticks, Runs run, and a pool that is connected to sends jobs, many of
\* them between two ticks (a job a minute against ten minutes): the second field
\* of a task is not forever overtaken by the next tick.  A Run dials as soon as it is
\* started, or its delay is over: although an older Run that gives up may close the
\* proxy just before that, it does not do so at every tick for ever.
DetectFairness ==
  /\ WF_detectVars(Tick) /\ WF_detectVars(Notification)
  /\ SF_detectVars(Notification /\ recvCount = 1)
  /\ \A r \in Runs : /\ WF_detectVars(Connect(r) \/ Retry(r) \/ Shutdown(r))
                     /\ SF_detectVars(Connect(r) /\ ~isClosed)

DetectSpec == DetectInit /\ [][DetectNext]_detectVars /\ DetectFairness

-----------------------------------------------------------------------------
(* Properties.                                                             *)

\* Once the pool is up for good, the detector gets a connection to it, although
\* Runs of earlier ticks close the proxy, and whatever connection it has, under the
\* newer ones, and nobody tells a waiting Run that its connection ended.
DetectorReconnects == <>[]poolUp => [](poolIsDown => <>live)

\* "pool restart, close detect proxy, restore miners connection" (proxy.go):
\* once the pool is up for good the program stops refusing miners.
MinersRestored == <>[]poolUp => [](poolIsDown => <>~poolIsDown)
=============================================================================
