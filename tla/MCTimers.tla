------------------------------ MODULE MCTimers ------------------------------
(***************************************************************************)
(* The parts of the program that a timer drives: the detector, and the     *)
(* jobs of a proxy with their refreshed targets.  They share no state, so  *)
(* that every behaviour here is one of the detector or one of the jobs,    *)
(* with the other part at rest.  Two Runs of the detector connect at the   *)
(* same time, so that a tick, a connect and a shutdown of different Runs   *)
(* meet in every order.                                                    *)
(***************************************************************************)
EXTENDS PoolDetect, JobIssue

VARIABLE part    \* the part that runs

timersVars == <<detectVars, vars, part>>

\* The part at rest is in one of its initial states.
TimersInit ==
  /\ DetectInit /\ IssueInit
  /\ \/ part = "detect" /\ nonce = 0
     \/ part = "jobs" /\ poolUp /\ ~poolIsDown /\ ~poolDown

TimersNext ==
  \/ part = "detect" /\ DetectNext /\ UNCHANGED <<vars, part>>
  \/ part = "jobs" /\ IssueNext /\ UNCHANGED <<detectVars, part>>

\* Each part runs under its own fairness.
TimersSpec ==
  /\ TimersInit /\ [][TimersNext]_timersVars
  /\ part = "detect" => DetectFairness
  /\ part = "jobs" => IssueFairness
=============================================================================
