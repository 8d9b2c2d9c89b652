--------------------------- MODULE JobIssueProofs ---------------------------
(***************************************************************************)
(* Proofs about the numbers in a job, for every word, increment and        *)
(* interval: the types, the count of shares that setTarget divides by, and *)
(* that Next gives out no range of nonces twice.                           *)
(***************************************************************************)
EXTENDS JobIssue, TLAPS

-----------------------------------------------------------------------------
(* Arithmetic.                                                             *)

\* The remainder of a number that does not wrap is the number itself.
LEMMA ModSmall ==
  ASSUME NEW m \in Nat \ {0}, NEW x \in 0 .. m - 1
  PROVE  x % m = x
  OBVIOUS

\* A uint32 addition that wraps subtracts the modulus once.
LEMMA ModOnce ==
  ASSUME NEW m \in Nat \ {0}, NEW x \in Nat, m <= x, x < m + m
  PROVE  x % m = x - m
  OBVIOUS

\* A difference below zero is taken from the other side of the circle.
LEMMA ModNegative ==
  ASSUME NEW m \in Nat \ {0}, NEW x \in -m .. -1
  PROVE  x % m = x + m
  OBVIOUS

\* Dividing a natural number by a positive one gives a natural number.
LEMMA QuotientNat ==
  ASSUME NEW m \in Nat, NEW d \in Nat \ {0}
  PROVE  m \div d \in Nat
  OBVIOUS

\* A number without a remainder is a multiple.
LEMMA Multiple ==
  ASSUME NEW m \in Nat, NEW d \in Nat \ {0}, m % d = 0
  PROVE  m = (m \div d) * d
  OBVIOUS

\* Products of natural numbers are natural, and positive if both factors are.
LEMMA ProductNat ==
  ASSUME NEW m \in Nat, NEW d \in Nat
  PROVE  m * d \in Nat /\ (m # 0 /\ d # 0 => m * d # 0)
  OBVIOUS

\* A positive multiple of d is at least d.
LEMMA LeastMultiple ==
  ASSUME NEW k \in Int, NEW d \in Nat \ {0}, k * d > 0
  PROVE  k * d >= d
  OBVIOUS

\* A word of two digits is a number below the square of the base.
LEMMA TwoDigits ==
  ASSUME NEW b \in Nat \ {0}, NEW x \in 0 .. b - 1, NEW y \in 0 .. b - 1
  PROVE  x * b + y \in 0 .. b * b - 1
<1>1. x * b <= (b - 1) * b
  OBVIOUS
<1>2. (b - 1) * b = b * b - b
  OBVIOUS
<1>3. x * b \in Nat /\ b * b \in Nat
  OBVIOUS
<1> DEFINE p == x * b
           q == b * b
<1>4. p \in Nat /\ q \in Nat /\ p <= q - b /\ y \in 0 .. b - 1
  BY <1>1, <1>2, <1>3
<1> HIDE DEF p, q
<1>5. p + y \in 0 .. q - 1
  BY <1>4
<1> QED
  BY <1>5 DEF p, q

\* The digits of a number below the square of the base.
LEMMA Digits ==
  ASSUME NEW b \in Nat \ {0}, NEW n \in 0 .. b * b - 1
  PROVE  n \div b \in 0 .. b - 1 /\ n % b \in 0 .. b - 1 /\ (n \div b) * b + (n % b) = n
<1>1. n \in Nat /\ n < b * b
  OBVIOUS
<1>2. n % b \in 0 .. b - 1
  BY <1>1
<1>3. n \div b \in Nat
  BY <1>1, QuotientNat
<1>4. (n \div b) * b + (n % b) = n
  BY <1>1
<1>5. n \div b < b
  <2> DEFINE d == n \div b
  <2>1. d * b <= n /\ d \in Nat
    BY <1>1, <1>2, <1>3, <1>4
  <2> HIDE DEF d
  <2>2. d * b < b * b
    BY <1>1, <2>1
  <2>3. ~(d >= b)
    BY <2>1, <2>2
  <2>4. d < b
    BY <2>1, <2>3
  <2> QED
    BY <2>4 DEF d
<1> QED
  BY <1>2, <1>3, <1>4, <1>5

-----------------------------------------------------------------------------
(* The nonce in the blob.                                                  *)

\* The modulus is a natural number.
LEMMA ModulusNat == Modulus \in Nat \ {0}
  BY JobAssumption, ProductNat DEF Modulus

\* The bytes of a blob are a uint32.
LEMMA NumberType ==
  ASSUME NEW w \in Word
  PROVE  Number(w) \in Uint32
<1>1. w[1] \in 0 .. Base - 1 /\ w[2] \in 0 .. Base - 1
  BY DEF Word
<1> QED
  BY <1>1, TwoDigits, JobAssumption DEF Number, Uint32, Modulus

\* Next and CreateJob write the nonce itself.
LEMMA NumberOfPut ==
  ASSUME NEW n \in Uint32
  PROVE  PutUint32(n) \in Word /\ Number(PutUint32(n)) = n
<1>1. /\ n \div Base \in 0 .. Base - 1 /\ n % Base \in 0 .. Base - 1
      /\ (n \div Base) * Base + (n % Base) = n
  BY Digits, JobAssumption DEF Uint32, Modulus
<1> QED
  BY <1>1 DEF PutUint32, Number, Word

-----------------------------------------------------------------------------
(* Targets.                                                                *)

\* Whatever setTarget computes, the target it keeps is a uint32.
LEMMA NewTargetType ==
  ASSUME NEW t \in Uint32, NEW d \in Nat, NEW c \in Nat
  PROVE  NewTarget(t, d, c) \in Uint32
<1>1. OverflowTarget \in Uint32 /\ NaNTarget \in Uint32
  BY JobAssumption, ModulusNat DEF Uint32, Half
<1>2. CASE c = 0
  BY <1>1, <1>2 DEF NewTarget
<1>3. CASE c # 0
  <2> DEFINE q == (t * d) \div (c * submitInterval)
  <2>1. t * d \in Nat
    BY ModulusNat, ProductNat DEF Uint32
  <2>2. c * submitInterval \in Nat \ {0}
    BY <1>3, ProductNat, JobAssumption
  <2>3. q \in Nat
    BY <2>1, <2>2, QuotientNat
  <2>4. NewTarget(t, d, c) = IF q < Modulus THEN q ELSE OverflowTarget
    BY <1>3 DEF NewTarget
  <2> HIDE DEF q
  <2> QED
    BY <1>1, <2>3, <2>4, ModulusNat DEF Uint32
<1> QED
  BY <1>2, <1>3

\* The types and the count of shares, together an inductive invariant.
TargetInv == IssueTypeOK /\ WindowCount

\* No share has come yet.
LEMMA TargetInitially == IssueInit => TargetInv
<1> SUFFICES ASSUME IssueInit PROVE TargetInv
  OBVIOUS
<1>1. nonce \in Uint32 /\ blob \in Word /\ issued \subseteq Word
  BY NumberOfPut DEF IssueInit
<1> QED
  BY <1>1, JobAssumption, ModulusNat DEF IssueInit, TargetInv, IssueTypeOK, WindowCount, Uint32

\* The nonce of the next job is a uint32 again.
LEMMA NextNonceType ==
  ASSUME NEW n \in Uint32
  PROVE  /\ NextNonce(n) \in Uint32
         /\ NextNonce(n) + nonceIncrement < Modulus
         /\ NextNonce(n) # 1 =>
              /\ NextNonce(n) < maxNonceValue
              /\ \/ NextNonce(n) = n + nonceIncrement
                 \/ /\ NextNonce(n) = n + nonceIncrement - Modulus
                    /\ n + nonceIncrement >= Modulus
<1> DEFINE sum == (n + nonceIncrement) % Modulus
<1>1. Modulus \in Nat \ {0} /\ nonceIncrement \in Nat \ {0} /\ 2 * nonceIncrement < Modulus
  BY JobAssumption, ModulusNat
<1>2. n \in 0 .. Modulus - 1
  BY DEF Uint32
<1>3. \/ sum = n + nonceIncrement /\ n + nonceIncrement < Modulus
      \/ sum = n + nonceIncrement - Modulus /\ n + nonceIncrement >= Modulus
  <2>1. CASE n + nonceIncrement < Modulus
    <3>1. n + nonceIncrement \in 0 .. Modulus - 1
      BY <1>1, <1>2, <2>1
    <3> QED
      BY <1>1, <2>1, <3>1, ModSmall
  <2>2. CASE n + nonceIncrement >= Modulus
    <3>1. /\ n + nonceIncrement \in Nat
          /\ Modulus <= n + nonceIncrement /\ n + nonceIncrement < Modulus + Modulus
      BY <1>1, <1>2, <2>2
    <3> DEFINE y == n + nonceIncrement
    <3>2. y \in Nat /\ Modulus <= y /\ y < Modulus + Modulus /\ sum = y % Modulus
      BY <3>1
    <3> HIDE DEF y, sum
    <3>3. sum = y - Modulus
      BY <1>1, <3>2, ModOnce
    <3> QED
      BY <1>1, <1>2, <2>2, <3>3 DEF y
  <2> QED
    BY <1>1, <1>2, <2>1, <2>2
<1>4. NextNonce(n) = IF sum >= maxNonceValue THEN 1 ELSE sum
  BY DEF NextNonce
<1> HIDE DEF sum
<1>5. sum \in Uint32
  BY <1>1, <1>2, <1>3 DEF Uint32
<1>6. CASE sum >= maxNonceValue
  <2>1. NextNonce(n) = 1
    BY <1>4, <1>6
  <2> QED
    BY <1>1, <2>1 DEF Uint32
<1>7. CASE ~(sum >= maxNonceValue)
  <2>1. NextNonce(n) = sum
    BY <1>4, <1>7
  <2>2. sum < maxNonceValue /\ sum + nonceIncrement < Modulus
    BY <1>1, <1>5, <1>7 DEF Uint32, maxNonceValue
  <2> QED
    BY <1>3, <1>5, <2>1, <2>2
<1> QED
  BY <1>6, <1>7

\* setTarget moves target, targetSince and targetShare on together.
LEMMA SetTargetTypes ==
  ASSUME IssueTypeOK, NEW c \in Nat, setTarget(c)
  PROVE  target' \in Uint32 /\ since' = 0 /\ inWindow' = 0 /\ targetShare' = shares'
<1>1. target \in Uint32 /\ since \in Nat
  BY JobAssumption DEF IssueTypeOK
<1> QED
  BY <1>1, NewTargetType DEF setTarget

\* Every step keeps the types and the count.
LEMMA TargetStep == TargetInv /\ [IssueNext]_vars => TargetInv'
<1> SUFFICES ASSUME TargetInv, [IssueNext]_vars PROVE TargetInv'
  OBVIOUS
<1> USE JobAssumption
<1>0. IssueTypeOK /\ WindowCount
  BY DEF TargetInv
<1>1. CASE NextJob
  <2>1. nonce' \in Uint32 /\ blob' \in Word /\ issued' \subseteq Word
    BY <1>0, <1>1, NextNonceType, NumberOfPut DEF NextJob, IssueTypeOK
  <2> QED
    BY <1>0, <1>1, <2>1 DEF NextJob, TargetInv, IssueTypeOK, WindowCount, targetVars
<1>2. CASE CountShare
  <2>1. CASE shares' = 1 /\ since' = 0 /\ inWindow' = 0 /\ UNCHANGED <<target, targetShare>>
    BY <1>0, <1>2, <2>1 DEF CountShare, TargetInv, IssueTypeOK, WindowCount, nonceVars
  <2>2. CASE shares' = initDiffCount + 1 /\ setTarget(initDiffCount)
    <3>1. target' \in Uint32 /\ since' = 0 /\ inWindow' = 0 /\ targetShare' = shares'
      BY <1>0, <2>2, SetTargetTypes
    <3> QED
      BY <1>0, <1>2, <2>2, <3>1 DEF CountShare, TargetInv, IssueTypeOK, WindowCount, nonceVars
  <2>3. CASE /\ shares' \notin {1, initDiffCount + 1} /\ inWindow' = inWindow + 1
             /\ UNCHANGED targetVars
    BY <1>0, <1>2, <2>3
    DEF CountShare, TargetInv, IssueTypeOK, WindowCount, nonceVars, targetVars
  <2> QED
    BY <1>2, <2>1, <2>2, <2>3 DEF CountShare
<1>3. CASE NewTask
  <2>1. nonce' \in Uint32 /\ blob' \in Word /\ issued' \subseteq Word
    BY <1>0, <1>3, NumberOfPut DEF NewTask, IssueTypeOK, nonceVars
  <2>2. CASE shares > initDiffCount + 1 /\ since >= refreshDiffInterval
    <3>1. shares' = shares /\ setTarget(shares - targetShare)
      BY <1>3, <2>2 DEF NewTask
    <3>2. shares - targetShare \in Nat
      BY <1>0 DEF IssueTypeOK
    <3>3. target' \in Uint32 /\ since' = 0 /\ inWindow' = 0 /\ targetShare' = shares'
      BY <1>0, <3>1, <3>2, SetTargetTypes
    <3> QED
      BY <1>0, <2>1, <2>2, <3>1, <3>3 DEF TargetInv, IssueTypeOK, WindowCount
  <2>3. CASE ~(shares > initDiffCount + 1 /\ since >= refreshDiffInterval)
    BY <1>0, <1>3, <2>1, <2>3 DEF NewTask, TargetInv, IssueTypeOK, WindowCount, targetVars
  <2> QED
    BY <2>2, <2>3
<1>4. CASE Second
  BY <1>0, <1>4 DEF Second, TargetInv, IssueTypeOK, WindowCount, nonceVars
<1>5. CASE UNCHANGED vars
  BY <1>0, <1>5 DEF vars, nonceVars, targetVars, TargetInv, IssueTypeOK, WindowCount
<1> QED
  BY <1>1, <1>2, <1>3, <1>4, <1>5 DEF IssueNext

\* In every reachable state the numbers of a job have their types and the count of
\* shares that setTarget uses is the number that came since targetSince.
THEOREM TargetInvariant == IssueSpec => []TargetInv
<1>1. IssueInit => TargetInv
  BY TargetInitially
<1>2. TargetInv /\ [IssueNext]_vars => TargetInv'
  BY TargetStep
<1> QED
  BY <1>1, <1>2, PTL DEF IssueSpec

\* The types: nonces and targets stay uint32, whatever a float64 is converted to.
THEOREM IssueTypes == IssueSpec => []IssueTypeOK
<1>1. TargetInv => IssueTypeOK
  BY DEF TargetInv
<1> QED
  BY <1>1, TargetInvariant, PTL

\* setTarget divides by the shares of its own period, for any first count and any
\* refresh interval.
THEOREM IssueWindowCount == IssueSpec => []WindowCount
<1>1. TargetInv => WindowCount
  BY DEF TargetInv
<1> QED
  BY <1>1, TargetInvariant, PTL

-----------------------------------------------------------------------------
(* Nonces.                                                                 *)

Starts == {Number(w) : w \in issued}

\* The starts of the ranges given out differ by multiples of nonceIncrement; they
\* lie below the current one, but for a first one so high that the next wrapped.
NonceInv ==
  /\ nonce \in Starts
  /\ \A m \in Starts : \E k \in Int : nonce - m = k * nonceIncrement
  /\ \A m \in Starts : m <= nonce \/ m >= Modulus - nonceIncrement
  /\ nonce < maxNonceValue \/ Starts = {nonce}

\* The starts are uint32, and a blob that is given out adds its nonce to them.
LEMMA StartsTypes == IssueTypeOK => Starts \subseteq Uint32
  BY NumberType DEF IssueTypeOK, Starts

\* One job, the first of its task or of a new round.
LEMMA StartsOne ==
  ASSUME NEW n \in Uint32, NEW X, X = {PutUint32(n)}
  PROVE  {Number(w) : w \in X} = {n}
  BY NumberOfPut

\* One more job of the same round.
LEMMA StartsMore ==
  ASSUME NEW n \in Uint32, NEW X, NEW Y, Y = X \cup {PutUint32(n)}
  PROVE  {Number(w) : w \in Y} = {Number(w) : w \in X} \cup {n}
  BY NumberOfPut

\* A single range is in order with itself.
LEMMA OneStart ==
  ASSUME NEW n \in Uint32
  PROVE  \A m \in {n} : \E k \in Int : n - m = k * nonceIncrement
<1>1. n - n = 0 * nonceIncrement
  BY JobAssumption DEF Uint32
<1> QED
  BY <1>1

\* A task begins with one range, wherever it lies.
LEMMA NonceInitially == IssueInit => NonceInv
<1> SUFFICES ASSUME IssueInit PROVE NonceInv
  OBVIOUS
<1>1. nonce \in Uint32 /\ Starts = {nonce}
  BY StartsOne DEF IssueInit, Starts
<1> QED
  BY <1>1, OneStart, ModulusNat DEF NonceInv, Uint32

\* The next nonce differs from all given out for the task by a multiple of
\* nonceIncrement, and it is none of them.
LEMMA NextIsNew ==
  ASSUME IssueTypeOK, NonceInv, NextNonce(nonce) # 1, NEW m \in Starts
  PROVE  /\ NextNonce(nonce) # m
         /\ \E k \in Int : NextNonce(nonce) - m = k * nonceIncrement
         /\ m <= NextNonce(nonce) \/ m >= Modulus - nonceIncrement
<1> DEFINE n == NextNonce(nonce)
<1>0. nonce \in Uint32 /\ m \in Uint32 /\ nonceIncrement \in Nat \ {0} /\ Modulus \in Nat
  BY JobAssumption, ModulusNat, StartsTypes DEF IssueTypeOK
<1>1. /\ n \in Uint32 /\ n + nonceIncrement < Modulus /\ n < maxNonceValue
      /\ \/ n = nonce + nonceIncrement
         \/ n = nonce + nonceIncrement - Modulus /\ nonce + nonceIncrement >= Modulus
  BY <1>0, NextNonceType
<1>2. PICK k \in Int : nonce - m = k * nonceIncrement
  BY DEF NonceInv
<1>3. m <= nonce \/ m >= Modulus - nonceIncrement
  BY DEF NonceInv
<1> HIDE DEF n
<1>4. CASE n = nonce + nonceIncrement
  <2>1. n - m = (k + 1) * nonceIncrement
    BY <1>0, <1>2, <1>4 DEF Uint32
  <2>2. n # m /\ (m <= n \/ m >= Modulus - nonceIncrement)
    BY <1>0, <1>1, <1>3, <1>4 DEF Uint32, maxNonceValue
  <2>3. \E j \in Int : n - m = j * nonceIncrement
    BY <2>1
  <2> QED
    BY <2>2, <2>3 DEF n
<1>5. CASE n = nonce + nonceIncrement - Modulus /\ nonce + nonceIncrement >= Modulus
  <2>1. m = nonce
    BY <1>0, <1>5, JobAssumption DEF NonceInv, maxNonceValue, Uint32
  <2> DEFINE q == Modulus \div nonceIncrement
  <2>2. q \in Nat /\ Modulus = q * nonceIncrement
    BY <1>0, QuotientNat, Multiple, JobAssumption
  <2> HIDE DEF q
  <2>3. n - m = (1 - q) * nonceIncrement
    BY <1>0, <1>5, <2>1, <2>2 DEF Uint32
  <2>4. n # m /\ m >= Modulus - nonceIncrement
    BY <1>0, <1>5, <2>1, JobAssumption DEF Uint32
  <2>5. \E j \in Int : n - m = j * nonceIncrement
    BY <2>2, <2>3
  <2> QED
    BY <2>4, <2>5 DEF n
<1> QED
  BY <1>1, <1>4, <1>5

\* Two starts that differ by a multiple of nonceIncrement are that far apart on the
\* circle of uint32, because the increment divides its length.
LEMMA MultiplesApart ==
  ASSUME NEW n \in Uint32, NEW m \in Uint32, n # m,
         \E k \in Int : n - m = k * nonceIncrement
  PROVE  Apart(m, n)
<1>1. PICK k \in Int : n - m = k * nonceIncrement
  OBVIOUS
<1> DEFINE q == Modulus \div nonceIncrement
<1>2. /\ Modulus \in Nat \ {0} /\ nonceIncrement \in Nat \ {0}
      /\ q \in Nat /\ Modulus = q * nonceIncrement
  BY QuotientNat, Multiple, JobAssumption, ModulusNat
<1>3. n \in 0 .. Modulus - 1 /\ m \in 0 .. Modulus - 1
  BY DEF Uint32
<1> HIDE DEF q
<1>4. m - n = (-k) * nonceIncrement
  BY <1>1, <1>2, <1>3
<1>5. n - m + Modulus = (k + q) * nonceIncrement
  BY <1>1, <1>2, <1>3
<1>6. m - n + Modulus = (q - k) * nonceIncrement
  BY <1>1, <1>2, <1>3
<1>7. CASE n > m
  <2>1. n - m \in 0 .. Modulus - 1 /\ m - n \in -Modulus .. -1
    BY <1>2, <1>3, <1>7
  <2>2. (n - m) % Modulus = n - m /\ (m - n) % Modulus = m - n + Modulus
    BY <1>2, <2>1, ModSmall, ModNegative
  <2>3. n - m >= nonceIncrement
    <3>1. k * nonceIncrement > 0
      BY <1>1, <1>3, <1>7
    <3> QED
      BY <1>1, <1>2, <3>1, LeastMultiple
  <2>4. m - n + Modulus >= nonceIncrement
    <3>1. (q - k) * nonceIncrement > 0 /\ q - k \in Int
      BY <1>2, <1>3, <1>6
    <3> QED
      BY <1>2, <1>6, <3>1, LeastMultiple
  <2> QED
    BY <2>2, <2>3, <2>4 DEF Apart
<1>8. CASE n < m
  <2>1. m - n \in 0 .. Modulus - 1 /\ n - m \in -Modulus .. -1
    BY <1>2, <1>3, <1>8
  <2>2. (m - n) % Modulus = m - n /\ (n - m) % Modulus = n - m + Modulus
    BY <1>2, <2>1, ModSmall, ModNegative
  <2>3. m - n >= nonceIncrement
    <3>1. (-k) * nonceIncrement > 0 /\ -k \in Int
      BY <1>3, <1>4, <1>8
    <3> QED
      BY <1>2, <1>4, <3>1, LeastMultiple
  <2>4. n - m + Modulus >= nonceIncrement
    <3>1. (k + q) * nonceIncrement > 0 /\ k + q \in Int
      BY <1>2, <1>3, <1>5
    <3> QED
      BY <1>2, <1>5, <3>1, LeastMultiple
  <2> QED
    BY <2>2, <2>3, <2>4 DEF Apart
<1> QED
  BY <1>3, <1>7, <1>8

\* Every step keeps the order of the ranges.
LEMMA NonceStep == IssueTypeOK /\ NonceInv /\ [IssueNext]_vars => NonceInv'
<1> SUFFICES ASSUME IssueTypeOK, NonceInv, [IssueNext]_vars PROVE NonceInv'
  OBVIOUS
<1>0. nonce \in Uint32 /\ Starts \subseteq Uint32
  BY StartsTypes DEF IssueTypeOK
<1>1. CASE NextJob /\ nonce' = 1
  <2>1. nonce' \in Uint32 /\ issued' = {PutUint32(nonce')}
    BY <1>0, <1>1, NextNonceType DEF NextJob
  <2>2. Starts' = {nonce'}
    BY <2>1, StartsOne DEF Starts
  <2> QED
    BY <2>1, <2>2, OneStart, ModulusNat DEF NonceInv, Uint32
<1>2. CASE NextJob /\ nonce' # 1
  <2>1. nonce' = NextNonce(nonce) /\ issued' = issued \cup {PutUint32(nonce')}
    BY <1>2 DEF NextJob
  <2>2. nonce' \in Uint32 /\ nonce' < maxNonceValue
    BY <1>0, <1>2, <2>1, NextNonceType
  <2>3. \A m \in Starts : /\ \E k \in Int : nonce' - m = k * nonceIncrement
                          /\ m <= nonce' \/ m >= Modulus - nonceIncrement
    BY <1>2, <2>1, NextIsNew
  <2>4. \A m \in {nonce'} : \E k \in Int : nonce' - m = k * nonceIncrement
    BY <2>2, OneStart
  <2>5. maxNonceValue' = maxNonceValue
    BY DEF maxNonceValue
  <2>6. Starts' = Starts \cup {nonce'}
    BY <2>1, <2>2, StartsMore DEF Starts
  <2> QED
    BY <2>2, <2>3, <2>4, <2>5, <2>6, ModulusNat DEF NonceInv, Uint32
<1>3. CASE NewTask /\ ~UNCHANGED nonceVars
  <2>1. nonce' \in Uint32 /\ issued' = {PutUint32(nonce')}
    BY <1>3 DEF NewTask
  <2>2. Starts' = {nonce'}
    BY <2>1, StartsOne DEF Starts
  <2> QED
    BY <2>1, <2>2, OneStart, ModulusNat DEF NonceInv, Uint32
<1>4. CASE UNCHANGED nonceVars
  BY <1>4 DEF nonceVars, NonceInv, maxNonceValue, Starts
<1>5. CASE CountShare \/ Second \/ UNCHANGED vars
  BY <1>4, <1>5 DEF CountShare, Second, vars
<1> QED
  BY <1>1, <1>2, <1>3, <1>4, <1>5 DEF IssueNext

\* No range of nonces is given out twice for a task before the numbering restarts,
\* and none overflows, for every word that the increment divides: of Next this holds
\* although the sum is compared after it may have wrapped.
THEOREM IssueFreshRange == IssueSpec => FreshRange
<1>1. IssueInit => NonceInv
  BY NonceInitially
<1>2. IssueTypeOK /\ NonceInv /\ [IssueNext]_vars => NonceInv'
  BY NonceStep
<1>3. ASSUME IssueTypeOK, NonceInv, NextJob
      PROVE  /\ Number(blob') + nonceIncrement < Modulus
             /\ nonce' # 1 => \A w \in issued : Apart(Number(w), Number(blob'))
  <2>1. /\ nonce \in Uint32 /\ Starts \subseteq Uint32
        /\ nonce' = NextNonce(nonce) /\ blob' = PutUint32(nonce')
    BY <1>3, StartsTypes DEF IssueTypeOK, NextJob
  <2>2. nonce' \in Uint32 /\ nonce' + nonceIncrement < Modulus /\ Number(blob') = nonce'
    BY <2>1, NextNonceType, NumberOfPut
  <2>3. ASSUME nonce' # 1, NEW w \in issued
        PROVE  Apart(Number(w), nonce')
    <3>1. Number(w) \in Starts
      BY DEF Starts
    <3>2. nonce' # Number(w) /\ \E k \in Int : nonce' - Number(w) = k * nonceIncrement
      BY <1>3, <2>1, <2>3, <3>1, NextIsNew
    <3> QED
      BY <2>1, <2>2, <3>1, <3>2, MultiplesApart
  <2> QED
    BY <2>2, <2>3
<1>4. IssueTypeOK /\ NonceInv /\ [IssueNext]_vars
      => [NextJob => /\ Number(blob') + nonceIncrement < Modulus
                     /\ nonce' # 1 => \A w \in issued : Apart(Number(w), Number(blob'))]_vars
  BY <1>3
<1> QED
  BY <1>1, <1>2, <1>4, IssueTypes, PTL DEF IssueSpec, FreshRange
=============================================================================
