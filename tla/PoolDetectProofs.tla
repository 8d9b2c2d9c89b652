-------------------------- MODULE PoolDetectProofs --------------------------
(***************************************************************************)
(* Proofs about the detector, for any number of Runs that connect at the   *)
(* same time on the one proxy and any limit of retries.                    *)
(***************************************************************************)
EXTENDS PoolDetect, TLAPS

\* A Run that will dial again has not used up its retries: the count in its control
\* state bounds the one that Retry is about to increment.
RetryInv == \A r \in Runs : run[r] \in {"connect", "retry"} => retryCount[r] <= RetryTimes

DetectInv == DetectTypeOK /\ RetryInv

USE DetectAssumption

\* The flags of the detector are Boolean and stay so.
LEMMA DetectFlags ==
  ASSUME DetectInv, [DetectNext]_detectVars
  PROVE  /\ poolUp' \in BOOLEAN /\ poolIsDown' \in BOOLEAN /\ poolDown' \in BOOLEAN
         /\ waiting' \in BOOLEAN /\ isClosed' \in BOOLEAN /\ live' \in BOOLEAN
         /\ leaked' \in BOOLEAN /\ recvCount' \in 0 .. 1
<1>1. /\ poolUp \in BOOLEAN /\ poolIsDown \in BOOLEAN /\ poolDown \in BOOLEAN
      /\ waiting \in BOOLEAN /\ isClosed \in BOOLEAN /\ live \in BOOLEAN
      /\ leaked \in BOOLEAN /\ recvCount \in 0 .. 1
  BY DEF DetectInv, DetectTypeOK
<1>2. CASE SessionGivesUp
  BY <1>1, <1>2 DEF SessionGivesUp
<1>3. CASE PoolStops
  BY <1>1, <1>3 DEF PoolStops
<1>4. CASE PoolStarts
  BY <1>1, <1>4 DEF PoolStarts
<1>5. CASE ReadTimesOut
  BY <1>1, <1>5 DEF ReadTimesOut
<1>6. CASE ConnStops
  BY <1>1, <1>6 DEF ConnStops
<1>7. CASE Tick
  <2>1. recvCount' \in 0 .. 1
    BY <1>7 DEF Tick
  <2> QED
    BY <1>1, <1>7, <2>1, Zenon DEF Tick
<1>8. CASE Notification
  <2>1. recvCount' \in 0 .. 1
    BY <1>1, <1>8 DEF Notification
  <2>2. /\ poolUp' = poolUp /\ poolDown' = poolDown /\ waiting' = waiting /\ leaked' = leaked
        /\ \/ poolIsDown' = FALSE /\ isClosed' = TRUE /\ live' = (live /\ isClosed)
           \/ poolIsDown' = poolIsDown /\ isClosed' = isClosed /\ live' = live
    BY <1>8 DEF Notification, CloseDetectProxy
  <2> QED
    BY <1>1, <2>1, <2>2, Zenon
<1>9. ASSUME NEW r \in Runs, Connect(r)
      PROVE  /\ poolUp' \in BOOLEAN /\ poolIsDown' \in BOOLEAN /\ poolDown' \in BOOLEAN
             /\ waiting' \in BOOLEAN /\ isClosed' \in BOOLEAN /\ live' \in BOOLEAN
             /\ leaked' \in BOOLEAN /\ recvCount' \in 0 .. 1
  BY <1>1, <1>9 DEF Connect
<1>10. ASSUME NEW r \in Runs, Retry(r) \/ Shutdown(r)
      PROVE  /\ poolUp' \in BOOLEAN /\ poolIsDown' \in BOOLEAN /\ poolDown' \in BOOLEAN
             /\ waiting' \in BOOLEAN /\ isClosed' \in BOOLEAN /\ live' \in BOOLEAN
             /\ leaked' \in BOOLEAN /\ recvCount' \in 0 .. 1
  BY <1>1, <1>10 DEF Retry, Shutdown, CloseDetectProxy
<1>11. CASE UNCHANGED detectVars
  BY <1>1, <1>11 DEF detectVars
<1> QED
  BY <1>2, <1>3, <1>4, <1>5, <1>6, <1>7, <1>8, <1>9, <1>10, <1>11 DEF DetectNext

\* The Runs and their counts.
LEMMA DetectRuns ==
  ASSUME DetectInv, [DetectNext]_detectVars
  PROVE  /\ run' \in [Runs -> {"idle", "connect", "retry", "shutdown"}]
         /\ retryCount' \in [Runs -> 0 .. RetryTimes + 1]
         /\ RetryInv'
<1>1. /\ run \in [Runs -> {"idle", "connect", "retry", "shutdown"}]
      /\ retryCount \in [Runs -> 0 .. RetryTimes + 1]
      /\ RetryInv
  BY DEF DetectInv, DetectTypeOK
<1>2. CASE UNCHANGED <<run, retryCount>>
  BY <1>1, <1>2 DEF RetryInv
<1>3. CASE Tick
  BY <1>1, <1>3 DEF Tick, RetryInv
<1>4. ASSUME NEW r \in Runs, Connect(r)
      PROVE  /\ run' \in [Runs -> {"idle", "connect", "retry", "shutdown"}]
             /\ retryCount' \in [Runs -> 0 .. RetryTimes + 1]
             /\ RetryInv'
  BY <1>1, <1>4 DEF Connect, RetryInv
<1>5. ASSUME NEW r \in Runs, Retry(r)
      PROVE  /\ run' \in [Runs -> {"idle", "connect", "retry", "shutdown"}]
             /\ retryCount' \in [Runs -> 0 .. RetryTimes + 1]
             /\ RetryInv'
  <2>1. retryCount[r] \in 0 .. RetryTimes
    BY <1>1, <1>5 DEF Retry, RetryInv
  <2> QED
    BY <1>1, <1>5, <2>1 DEF Retry, RetryInv
<1>6. ASSUME NEW r \in Runs, Shutdown(r)
      PROVE  /\ run' \in [Runs -> {"idle", "connect", "retry", "shutdown"}]
             /\ retryCount' \in [Runs -> 0 .. RetryTimes + 1]
             /\ RetryInv'
  BY <1>1, <1>6 DEF Shutdown, RetryInv
<1>7. [DetectNext]_detectVars => \/ UNCHANGED <<run, retryCount>> \/ Tick
                           \/ \E r \in Runs : Connect(r) \/ Retry(r) \/ Shutdown(r)
  BY DEF DetectNext, SessionGivesUp, PoolStops, PoolStarts, ReadTimesOut, ConnStops,
         Notification, detectVars
<1> QED
  BY <1>2, <1>3, <1>4, <1>5, <1>6, <1>7

\* The inductive invariant of the detector, whatever its Runs do to each other on the
\* proxy they share.
THEOREM DetectInvariant == DetectSpec => []DetectInv
<1>1. DetectInit => DetectInv
  <2> SUFFICES ASSUME DetectInit PROVE DetectInv
    OBVIOUS
  <2>1. /\ run \in [Runs -> {"idle", "connect", "retry", "shutdown"}]
        /\ retryCount \in [Runs -> 0 .. RetryTimes + 1] /\ recvCount \in 0 .. 1
        /\ RetryInv
    BY DEF DetectInit, RetryInv
  <2>2. DetectTypeOK
    BY <2>1, Zenon DEF DetectInit, DetectTypeOK
  <2> QED
    BY <2>1, <2>2 DEF DetectInv
<1>2. DetectInv /\ [DetectNext]_detectVars => DetectInv'
  BY DetectFlags, DetectRuns DEF DetectInv, DetectTypeOK
<1> QED
  BY <1>1, <1>2, PTL DEF DetectSpec

\* The types of the detector's variables; no Run counts past RetryTimes + 1 failures.
THEOREM DetectTypes == DetectSpec => []DetectTypeOK
<1>1. DetectInv => DetectTypeOK
  BY DEF DetectInv
<1> QED
  BY <1>1, DetectInvariant, PTL

\* Nothing in the program lowers poolIsDown once it is raised: the name handleNotification
\* looks for is not the one PoolDetect gives to its proxy.  No fairness could make
\* MinersRestored true.
THEOREM DetectNeverRestores == DetectSpec => [][poolIsDown => poolIsDown']_detectVars
<1>1. address # detectProxy
  BY DEF address, detectAddr, detectProxy
<1>2. [DetectNext]_detectVars => [poolIsDown => poolIsDown']_detectVars
  BY <1>1 DEF DetectNext, SessionGivesUp, PoolStops, PoolStarts, ReadTimesOut, ConnStops, Tick,
              Notification, Connect, Retry, Shutdown, detectVars
<1> QED BY <1>2, PTL DEF DetectSpec
=============================================================================
