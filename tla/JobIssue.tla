------------------------------ MODULE JobIssue ------------------------------
(***************************************************************************)
(* The numbers in a job: the nonce it starts at (server/proxy/job.go) and  *)
(* the target, which is adapted to the rate at which the miner submits     *)
(* shares (getTarget and setTarget of server/proxy/proxy.go).              *)
(*                                                                         *)
(* All of it runs in the goroutine Run or under jobMu.  Time is counted in *)
(* seconds.  Only the upper 32 bits of a target are kept, and float64 has  *)
(* digits enough for them to be those of the exact quotient.  The words    *)
(* have two digits here instead of four bytes.                             *)
(***************************************************************************)
EXTENDS Integers

CONSTANTS
  Base,                 \* the digits of a word, bytes in the code: 256
  nonceIncrement,
  InitTarget,           \* the target b88d0600 of difficulty 10000
  initDiffCount,
  submitInterval,
  refreshDiffInterval,
  OverflowTarget,       \* the build's uint64 of a float64 that is too large
  NaNTarget,            \* the build's uint64 of NaN
  MaxShares,            \* bound: shares of one proxy
  MaxTime               \* bound: longer times are taken for this one

Modulus == Base * Base    \* nonces and targets are uint32: 2^32

\* What converting a float64 that does not fit to uint64 gives is left to the
\* implementation.  By the upper half of the result: 2^63 (amd64) or the largest
\* number (arm64) after an overflow or a division by zero, 2^63 (amd64) or zero
\* (arm64) for the NaN of 0 / 0.
Half == Modulus \div 2

ASSUME JobAssumption ==
  /\ Base \in Nat \ {0} /\ nonceIncrement \in Nat \ {0}
  /\ 2 * nonceIncrement < Modulus /\ Modulus % nonceIncrement = 0
  /\ Modulus % 2 = 0
  /\ InitTarget \in 1 .. Modulus - 1
  /\ initDiffCount \in Nat \ {0} /\ submitInterval \in Nat \ {0}
  /\ refreshDiffInterval \in Nat \ {0}
  /\ OverflowTarget \in {Half, Modulus - 1} /\ NaNTarget \in {Half, 0}
  /\ MaxShares \in Nat /\ MaxTime \in Nat /\ refreshDiffInterval <= MaxTime

VARIABLES
  nonce,        \* Job.currentNonce of Proxy.currentJob
  blob,         \* the nonce in its currentBlob, from nonceOffset
  issued,       \* history: the nonces in the blobs of the task since the last restart
  target,       \* Proxy.target, as getTarget reads it
  shares,       \* Proxy.shares
  targetShare,  \* Proxy.targetShare
  since,        \* the time since Proxy.targetSince
  inWindow      \* history: the shares that came in that time

nonceVars == <<nonce, blob, issued>>
targetVars == <<target, targetShare, since>>
vars == <<nonceVars, targetVars, shares, inWindow>>

Uint32 == 0 .. Modulus - 1
Word == (0 .. Base - 1) \X (0 .. Base - 1)
maxNonceValue == Modulus - 1 - nonceIncrement

\* The variables have the types of the code's.
IssueTypeOK ==
  /\ nonce \in Uint32 /\ blob \in Word /\ issued \subseteq Word
  /\ target \in Uint32 /\ since \in 0 .. MaxTime
  /\ shares \in 0 .. MaxShares /\ targetShare \in 0 .. shares
  /\ inWindow \in 0 .. shares

\* Mutant of PutUint32: the least significant digit first.
PutUint32LittleEndian(n) == <<n % Base, n \div Base>>

\* binary.BigEndian.PutUint32: the most significant digit first.
PutUint32(n) == <<n \div Base, n % Base>>

\* The first job of a proxy, from CreateJob.
IssueInit ==
  /\ nonce \in Uint32 /\ blob = PutUint32(nonce) /\ issued = {blob}
  /\ target = InitTarget /\ targetShare = 0 /\ since = 0
  /\ shares = 0 /\ inWindow = 0

-----------------------------------------------------------------------------
(* Nonces.                                                                 *)

\* Mutant of NextNonce: only the sum that has not wrapped is compared.
NextNonceUnwrapped(n) ==
  IF n + nonceIncrement >= Modulus THEN 1 ELSE n + nonceIncrement

\* The currentNonce Next computes: the addition wraps, then it is compared.
NextNonce(n) ==
  LET sum == (n + nonceIncrement) % Modulus
  IN  IF sum >= maxNonceValue THEN 1 ELSE sum

\* Proxy.NextJob: the next range of nonces for the same task.
NextJob ==
  /\ nonce' = NextNonce(nonce) /\ blob' = PutUint32(nonce')
  /\ issued' = IF nonce' = 1 THEN {blob'} ELSE issued \cup {blob'}
  /\ UNCHANGED <<targetVars, shares, inWindow>>

-----------------------------------------------------------------------------
(* Targets.                                                                *)

\* Mutant of NewTarget: the quotient is taken to fit.
NewTargetUnbounded(t, d, c) ==
  IF c = 0 THEN OverflowTarget ELSE (t * d) \div (c * submitInterval)

\* The newTarget of setTarget for t, after d seconds with c shares.
NewTarget(t, d, c) ==
  IF c = 0 THEN IF t * d = 0 THEN NaNTarget ELSE OverflowTarget
  ELSE LET q == (t * d) \div (c * submitInterval)
       IN  IF q < Modulus THEN q ELSE OverflowTarget

\* Mutant of setTarget: targetShare is not moved on.
setTargetKeepsShare(diffCount) ==
  /\ target' = NewTarget(target, since, diffCount)
  /\ since' = 0 /\ inWindow' = 0
  /\ UNCHANGED targetShare

setTarget(diffCount) ==
  /\ target' = NewTarget(target, since, diffCount)
  /\ since' = 0 /\ inWindow' = 0
  /\ targetShare' = shares'

\* Mutant of CountShare: the target is first set one share too early.
CountShareEarly ==
  /\ shares < MaxShares /\ shares' = shares + 1
  /\ \/ shares' = 1 /\ since' = 0 /\ inWindow' = 0 /\ UNCHANGED <<target, targetShare>>
     \/ shares' = initDiffCount /\ shares' # 1 /\ setTarget(initDiffCount)
     \/ shares' \notin {1, initDiffCount} /\ inWindow' = inWindow + 1 /\ UNCHANGED targetVars
  /\ UNCHANGED nonceVars

\* The end of handleSubmit: the first share starts the clock, and the one that
\* makes initDiffCount intervals sets the target.
CountShare ==
  /\ shares < MaxShares /\ shares' = shares + 1
  /\ \/ shares' = 1 /\ since' = 0 /\ inWindow' = 0 /\ UNCHANGED <<target, targetShare>>
     \/ shares' = initDiffCount + 1 /\ setTarget(initDiffCount)
     \/ /\ shares' \notin {1, initDiffCount + 1} /\ inWindow' = inWindow + 1
        /\ UNCHANGED targetVars
  /\ UNCHANGED nonceVars

\* Mutant of NewTask: a target that had no share is not refreshed.
NewTaskWithShares ==
  /\ IF shares > initDiffCount + 1 /\ since >= refreshDiffInterval /\ shares > targetShare
       THEN shares' = shares /\ setTarget(shares - targetShare)
       ELSE UNCHANGED <<targetVars, shares, inWindow>>
  /\ \/ \E n \in Uint32 : nonce' = n /\ blob' = PutUint32(n) /\ issued' = {blob'}
     \/ UNCHANGED nonceVars

\* handleNotification with the second field of a task: the target is refreshed
\* when it is old, then CreateJob starts the task at a random nonce.  A task that
\* is known already changes no job.
NewTask ==
  /\ IF shares > initDiffCount + 1 /\ since >= refreshDiffInterval
       THEN shares' = shares /\ setTarget(shares - targetShare)
       ELSE UNCHANGED <<targetVars, shares, inWindow>>
  /\ \/ \E n \in Uint32 : nonce' = n /\ blob' = PutUint32(n) /\ issued' = {blob'}
     \/ UNCHANGED nonceVars

\* A second passes.
Second ==
  /\ since < MaxTime /\ since' = since + 1
  /\ UNCHANGED <<nonceVars, target, targetShare, shares, inWindow>>

IssueNext == NextJob \/ CountShare \/ NewTask \/ Second

\* Time passes, and a pool that is connected to sends tasks.
IssueFairness == WF_vars(Second) /\ WF_vars(NewTask)

IssueSpec == IssueInit /\ [][IssueNext]_vars /\ IssueFairness

-----------------------------------------------------------------------------
(* Properties.                                                             *)

\* The distance of two nonces on the circle of uint32.
Apart(m, n) == (m - n) % Modulus >= nonceIncrement /\ (n - m) % Modulus >= nonceIncrement

\* The nonce that four bytes of a blob stand for, the most significant one first.
Number(w) == w[1] * Base + w[2]

\* No work is given out twice: until the numbering restarts at 1, the range of
\* nonceIncrement nonces that the blob of a job begins is disjoint from every range
\* given out for the same task, although the first one lies anywhere and the
\* addition may wrap, and it ends before the nonce would overflow.  (A range is one
\* of big-endian numbers, as Next writes them.  In which order a miner counts these
\* bytes is its own affair.)
FreshRange ==
  [][NextJob => /\ Number(blob') + nonceIncrement < Modulus
                /\ nonce' # 1 => \A w \in issued : Apart(Number(w), Number(blob'))]_vars

\* setTarget divides the time since targetSince by the number of shares that came
\* in that time: targetShare, shares and targetSince, which different handlers
\* set, stay in step.
WindowCount ==
  /\ shares \in 1 .. initDiffCount => inWindow = shares - 1
  /\ shares > initDiffCount => inWindow = shares - targetShare

\* A miner whose target has become too hard for it, down to the hardest target 0,
\* gets an easy one for as long as it is silent, once it has submitted a share after
\* the first setTarget: the refresh then divides by zero shares, and the conversion
\* makes of it a target of at least half the range.  (With NaNTarget = 0 the target
\* 0 stays for ever.)
SilentMinerEased ==
  \A n \in initDiffCount + 2 .. MaxShares :
    <>[](shares = n) => <>[](target >= Half)
=============================================================================
