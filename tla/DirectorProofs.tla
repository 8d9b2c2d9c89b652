--------------------------- MODULE DirectorProofs ---------------------------
(***************************************************************************)
(* Proofs about the Director, for any number of proxies and of shares, and *)
(* about the SafeMap it keeps its proxies in, for any keys, values and     *)
(* thresholds.                                                             *)
(*                                                                         *)
(* The Director is about sums over changing sets of proxies.  Their laws   *)
(* come first.  Induction is by a least counterexample (LeastNumber, and   *)
(* WFMin for subsets): a sum is the end of a row of partial sums, and each *)
(* law follows from one row built out of another.                          *)
(***************************************************************************)
EXTENDS Director, SafeMap, FiniteSetTheorems, WellFoundedInduction, TLAPS

\* What all proxies can have counted.
Cap == MaxProxies * MaxShares

\* The bounds are numbers.
LEMMA Sizes == MaxProxies \in Nat /\ MaxShares \in Nat
  BY DirectorAssumption

\* A report that counts every share twice still fits the word.
LEMMA CapFits == Cap \in Nat /\ Word \in Nat /\ Cap + Cap < Word
  BY DirectorAssumption DEF Cap

-----------------------------------------------------------------------------
(* Sums over proxies.                                                      *)

\* Every set of natural numbers that is not empty has a least one.
LEMMA LeastNumber == ASSUME NEW T \in SUBSET Nat, T # {} PROVE \E n \in T : \A m \in T : n <= m
<1>1. PICK n \in T : \A m \in T : ~(<<m, n>> \in OpToRel(<, Nat))
  BY WFMin, NatLessThanWellFounded
<1>2. ASSUME NEW m \in T, m < n PROVE FALSE
  <2>1. <<m, n>> \in OpToRel(<, Nat)
    BY <1>2 DEF OpToRel
  <2> QED
    BY <1>1, <2>1
<1> QED
  BY <1>2

\* p[k] is the sum of s over the members of S up to k.
Partial(p, s, S, n) ==
  /\ p \in [0 .. n -> Nat] /\ p[0] = 0
  /\ \A k \in 1 .. n : p[k] = p[k - 1] + (IF k \in S THEN s[k] ELSE 0)

\* There are partial sums,
LEMMA PartialExists ==
  ASSUME NEW s \in [ProxyIDs -> Nat], NEW S
  PROVE  \E p : Partial(p, s, S, MaxProxies)
<1> DEFINE T == {n \in Nat : n <= MaxProxies /\ ~\E p : Partial(p, s, S, n)}
<1>1. SUFFICES ASSUME T # {} PROVE FALSE
  BY Sizes
<1>2. PICK n \in T : \A m \in T : n <= m
  BY <1>1, LeastNumber
<1>3. n # 0
  <2>1. Partial([k \in 0 .. 0 |-> 0], s, S, 0)
    BY DEF Partial
  <2> QED
    BY <1>2, <2>1
<1>4. n - 1 \in Nat /\ n - 1 <= MaxProxies /\ n \in ProxyIDs
  BY <1>2, <1>3, Sizes DEF ProxyIDs
<1>5. PICK p : Partial(p, s, S, n - 1)
  BY <1>2, <1>4
<1> DEFINE q == [k \in 0 .. n |-> IF k = n THEN p[n - 1] + (IF n \in S THEN s[n] ELSE 0) ELSE p[k]]
<1>6. Partial(q, s, S, n)
  <2>1. p \in [0 .. n - 1 -> Nat] /\ p[0] = 0
    BY <1>5 DEF Partial
  <2>2. s[n] \in Nat
    BY <1>4
  <2>3. q \in [0 .. n -> Nat] /\ q[0] = 0
    BY <1>3, <1>4, <2>1, <2>2
  <2>4. \A k \in 1 .. n : q[k] = q[k - 1] + (IF k \in S THEN s[k] ELSE 0)
    <3>1. TAKE k \in 1 .. n
    <3>2. CASE k = n
      BY <1>4, <3>2
    <3>3. CASE k # n
      <4>1. k \in 1 .. n - 1 /\ q[k] = p[k] /\ q[k - 1] = p[k - 1]
        BY <1>4, <3>3
      <4> QED
        BY <1>5, <4>1 DEF Partial
    <3> QED
      BY <3>2, <3>3
  <2> QED
    BY <2>3, <2>4 DEF Partial
<1> QED
  BY <1>2, <1>6

\* and only one row of them.
LEMMA PartialUnique ==
  ASSUME NEW s \in [ProxyIDs -> Nat], NEW S, NEW p, NEW q,
         Partial(p, s, S, MaxProxies), Partial(q, s, S, MaxProxies)
  PROVE  p[MaxProxies] = q[MaxProxies]
<1> DEFINE T == {n \in Nat : n <= MaxProxies /\ p[n] # q[n]}
<1>1. SUFFICES ASSUME T # {} PROVE FALSE
  BY Sizes
<1>2. PICK n \in T : \A m \in T : n <= m
  BY <1>1, LeastNumber
<1>3. n # 0
  BY <1>2 DEF Partial
<1>4. n - 1 \in Nat /\ n - 1 <= MaxProxies /\ n \in 1 .. MaxProxies
  BY <1>2, <1>3, Sizes
<1>5. p[n - 1] = q[n - 1]
  BY <1>2, <1>4
<1>6. p[n] = q[n]
  BY <1>4, <1>5 DEF Partial
<1> QED
  BY <1>2, <1>6

Row(s, S) == CHOOSE p : Partial(p, s, S, MaxProxies)
SumOver(s, S) == Row(s, S)[MaxProxies]

\* The row of partial sums exists and has its defining equations.
LEMMA RowIsPartial ==
  ASSUME NEW s \in [ProxyIDs -> Nat], NEW S
  PROVE  Partial(Row(s, S), s, S, MaxProxies) /\ SumOver(s, S) \in Nat
<1>1. Partial(Row(s, S), s, S, MaxProxies)
  BY PartialExists DEF Row
<1> QED
  BY <1>1, Sizes DEF Partial, SumOver

\* Any row of partial sums ends in the sum.
LEMMA SumOfRow ==
  ASSUME NEW s \in [ProxyIDs -> Nat], NEW S, NEW p, Partial(p, s, S, MaxProxies)
  PROVE  SumOver(s, S) = p[MaxProxies]
  BY RowIsPartial, PartialUnique DEF SumOver

\* The sum over no proxy.
LEMMA SumEmpty ==
  ASSUME NEW s \in [ProxyIDs -> Nat]
  PROVE  SumOver(s, {}) = 0
<1>1. Partial([k \in 0 .. MaxProxies |-> 0], s, {}, MaxProxies)
  BY Sizes DEF Partial
<1> QED
  BY <1>1, SumOfRow, Sizes

\* One more proxy adds its shares.
LEMMA SumInsert ==
  ASSUME NEW s \in [ProxyIDs -> Nat], NEW S, NEW i \in ProxyIDs, i \notin S
  PROVE  SumOver(s, S \cup {i}) = SumOver(s, S) + s[i]
<1> DEFINE p == Row(s, S)
           q == [k \in 0 .. MaxProxies |-> IF k < i THEN p[k] ELSE p[k] + s[i]]
<1>1. /\ p \in [0 .. MaxProxies -> Nat] /\ p[0] = 0
      /\ \A k \in 1 .. MaxProxies : p[k] = p[k - 1] + (IF k \in S THEN s[k] ELSE 0)
  BY RowIsPartial DEF Partial
<1> HIDE DEF p
<1>2. Partial(q, s, S \cup {i}, MaxProxies)
  <2>1. q \in [0 .. MaxProxies -> Nat] /\ q[0] = 0
    BY <1>1, Sizes DEF ProxyIDs
  <2>2. ASSUME NEW k \in 1 .. MaxProxies
        PROVE  q[k] = q[k - 1] + (IF k \in S \cup {i} THEN s[k] ELSE 0)
    <3>1. /\ k - 1 \in 0 .. MaxProxies /\ k \in 0 .. MaxProxies /\ p[k] \in Nat /\ p[k - 1] \in Nat
          /\ s[k] \in Nat /\ s[i] \in Nat /\ i \in Nat
      BY <1>1, Sizes DEF ProxyIDs
    <3>2. p[k] = p[k - 1] + (IF k \in S THEN s[k] ELSE 0)
      BY <1>1
    <3>3. CASE k = i
      BY <3>1, <3>2, <3>3
    <3>4. CASE k < i
      BY <3>1, <3>2, <3>4
    <3>5. CASE k > i
      BY <3>1, <3>2, <3>5
    <3> QED
      BY <3>1, <3>3, <3>4, <3>5
  <2> QED
    BY <2>1, <2>2 DEF Partial
<1>3. q[MaxProxies] = p[MaxProxies] + s[i]
  BY Sizes DEF ProxyIDs
<1> QED
  BY <1>2, <1>3, SumOfRow DEF SumOver, p

\* One more share of a proxy adds one if the proxy is counted.
LEMMA SumIncrement ==
  ASSUME NEW s \in [ProxyIDs -> Nat], NEW S, NEW i \in ProxyIDs
  PROVE  SumOver([s EXCEPT ![i] = @ + 1], S) = SumOver(s, S) + (IF i \in S THEN 1 ELSE 0)
<1> DEFINE p == Row(s, S)
           r == [s EXCEPT ![i] = @ + 1]
           q == [k \in 0 .. MaxProxies |-> IF k < i \/ i \notin S THEN p[k] ELSE p[k] + 1]
<1>1. /\ p \in [0 .. MaxProxies -> Nat] /\ p[0] = 0
      /\ \A k \in 1 .. MaxProxies : p[k] = p[k - 1] + (IF k \in S THEN s[k] ELSE 0)
  BY RowIsPartial DEF Partial
<1>0. r \in [ProxyIDs -> Nat] /\ r[i] = s[i] + 1 /\ \A k \in ProxyIDs : k # i => r[k] = s[k]
  OBVIOUS
<1> HIDE DEF p, r
<1>2. Partial(q, r, S, MaxProxies)
  <2>1. q \in [0 .. MaxProxies -> Nat] /\ q[0] = 0
    BY <1>1, Sizes DEF ProxyIDs
  <2>2. ASSUME NEW k \in 1 .. MaxProxies
        PROVE  q[k] = q[k - 1] + (IF k \in S THEN r[k] ELSE 0)
    <3>1. /\ k - 1 \in 0 .. MaxProxies /\ k \in 0 .. MaxProxies /\ p[k] \in Nat /\ p[k - 1] \in Nat
          /\ s[k] \in Nat /\ s[i] \in Nat /\ i \in Nat /\ k \in ProxyIDs
      BY <1>1, Sizes DEF ProxyIDs
    <3>2. p[k] = p[k - 1] + (IF k \in S THEN s[k] ELSE 0)
      BY <1>1
    <3>3. CASE k = i
      BY <1>0, <3>1, <3>2, <3>3
    <3>4. CASE k # i
      BY <1>0, <3>1, <3>2, <3>4
    <3> QED
      BY <3>3, <3>4
  <2> QED
    BY <2>1, <2>2 DEF Partial
<1>3. q[MaxProxies] = p[MaxProxies] + (IF i \in S THEN 1 ELSE 0)
  <2>1. p[MaxProxies] \in Nat /\ ~(MaxProxies < i)
    BY <1>1, Sizes DEF ProxyIDs
  <2> QED
    BY <2>1, Sizes
<1>4. SumOver(r, S) = q[MaxProxies]
  BY <1>0, <1>2, SumOfRow
<1> QED
  BY <1>3, <1>4 DEF SumOver, p, r

\* A sum of MaxProxies counters is at most MaxProxies times their bound.
LEMMA SumBound ==
  ASSUME NEW s \in [ProxyIDs -> 0 .. MaxShares], NEW S
  PROVE  SumOver(s, S) <= Cap
<1> DEFINE p == Row(s, S)
           T == {n \in Nat : n <= MaxProxies /\ p[n] > n * MaxShares}
<1>0. s \in [ProxyIDs -> Nat]
  BY Sizes
<1>1. /\ p \in [0 .. MaxProxies -> Nat] /\ p[0] = 0
      /\ \A k \in 1 .. MaxProxies : p[k] = p[k - 1] + (IF k \in S THEN s[k] ELSE 0)
  BY <1>0, RowIsPartial DEF Partial
<1> HIDE DEF p
<1>2. SUFFICES ASSUME T # {} PROVE FALSE
  <2>1. MaxProxies \notin T => ~(p[MaxProxies] > Cap)
    BY Sizes DEF Cap
  <2>2. p[MaxProxies] \in Nat /\ Cap \in Nat
    BY <1>1, Sizes, CapFits
  <2> QED
    BY <2>1, <2>2 DEF SumOver, p
<1>3. PICK n \in T : \A m \in T : n <= m
  BY <1>2, LeastNumber
<1>4. n \in Nat /\ n <= MaxProxies /\ p[n] > n * MaxShares
  BY <1>3
<1>5. n # 0
  BY <1>1, <1>4, Sizes
<1>6. n - 1 \in Nat /\ n - 1 <= MaxProxies /\ n \in 1 .. MaxProxies
      /\ n - 1 \notin T /\ n - 1 \in 0 .. MaxProxies
  BY <1>3, <1>4, <1>5, Sizes
<1>7. ~(p[n - 1] > (n - 1) * MaxShares)
  BY <1>6
<1>8. p[n] = p[n - 1] + (IF n \in S THEN s[n] ELSE 0)
  BY <1>1, <1>6
<1>9. s[n] \in 0 .. MaxShares /\ p[n - 1] \in Nat
  BY <1>1, <1>6 DEF ProxyIDs
<1>10. (n - 1) * MaxShares + MaxShares = n * MaxShares /\ (n - 1) * MaxShares \in Nat
  BY <1>6, Sizes
<1> QED
  BY <1>4, <1>7, <1>8, <1>9, <1>10, Sizes
-----------------------------------------------------------------------------
SumOf(s, S) == MapThenSumSet(LAMBDA i : s[i], S)

\* One round of the fold over the subsets of S.
FoldStep(s, S, it) ==
  [t \in SUBSET S |-> IF t = {} THEN 0
                      ELSE s[CHOOSE x \in t : TRUE] + it[t \ {CHOOSE x \in t : TRUE}]]
Fold(s, S) == CHOOSE it : it = FoldStep(s, S, it)

\* The fold of the community modules computes this sum.
LEMMA FoldIsSum ==
  ASSUME NEW s \in [ProxyIDs -> Nat], NEW S \in SUBSET ProxyIDs
  PROVE  SumOf(s, S) = SumOver(s, S)
<1> DEFINE g == [t \in SUBSET S |-> SumOver(s, t)]
           F == Fold(s, S)
<1>1. SumOf(s, S) = Fold(s, S)[S]
  BY DEF SumOf, Fold, FoldStep, MapThenSumSet, MapThenFoldSet
<1>2. ASSUME NEW t \in SUBSET S, t # {}
      PROVE  LET x == CHOOSE x \in t : TRUE
             IN  x \in t /\ SumOver(s, t) = s[x] + SumOver(s, t \ {x})
  <2> DEFINE x == CHOOSE x \in t : TRUE
  <2>1. x \in t
    BY <1>2
  <2> HIDE DEF x
  <2>2. x \in ProxyIDs /\ (t \ {x}) \cup {x} = t
    BY <2>1
  <2>3. SumOver(s, t) = SumOver(s, t \ {x}) + s[x]
    BY <2>2, SumInsert
  <2>4. s[x] \in Nat /\ SumOver(s, t \ {x}) \in Nat
    BY <2>2, RowIsPartial
  <2> QED
    BY <2>1, <2>3, <2>4 DEF x
<1>3. g = FoldStep(s, S, g)
  <2>1. ASSUME NEW t \in SUBSET S PROVE g[t] = FoldStep(s, S, g)[t]
    <3>1. CASE t = {}
      BY <3>1, SumEmpty DEF FoldStep
    <3>2. CASE t # {}
      <4>1. g[t \ {CHOOSE x \in t : TRUE}] = SumOver(s, t \ {CHOOSE x \in t : TRUE})
        OBVIOUS
      <4> QED
        BY <1>2, <3>2, <4>1 DEF FoldStep
    <3> QED
      BY <3>1, <3>2
  <2> QED
    BY <2>1, Zenon DEF FoldStep
<1>4. F = FoldStep(s, S, F)
  BY <1>3 DEF Fold
<1> HIDE DEF F
<1> DEFINE T == {t \in SUBSET S : F[t] # SumOver(s, t)}
<1>5. SUFFICES ASSUME T # {} PROVE FALSE
  BY <1>1 DEF F
<1>6. IsWellFoundedOn(StrictSubsetOrdering(S), SUBSET S)
  <2>1. IsFiniteSet(S)
    <3>1. IsFiniteSet(1 .. MaxProxies)
      BY FS_Interval, Sizes
    <3> QED
      BY <3>1, FS_Subset DEF ProxyIDs
  <2> QED
    BY <2>1, FS_FiniteSubsetsOfFinite, FS_StrictSubsetOrderingWellFounded
<1>7. PICK t \in T : \A u \in T : ~(<<u, t>> \in StrictSubsetOrdering(S))
  BY <1>5, <1>6, WFMin
<1>8. t # {}
  <2>1. F[{}] = 0
    BY <1>4 DEF FoldStep
  <2> QED
    BY <2>1, <1>7, SumEmpty
<1> DEFINE x == CHOOSE x \in t : TRUE
<1>9. x \in t /\ SumOver(s, t) = s[x] + SumOver(s, t \ {x})
  BY <1>2, <1>7, <1>8
<1>10. F[t] = s[x] + F[t \ {x}]
  BY <1>4, <1>7, <1>8 DEF FoldStep
<1> HIDE DEF x
<1>11. F[t \ {x}] = SumOver(s, t \ {x})
  <2>1. <<t \ {x}, t>> \in StrictSubsetOrdering(S)
    BY <1>7, <1>9 DEF StrictSubsetOrdering
  <2> QED
    BY <1>7, <2>1
<1> QED
  BY <1>7, <1>9, <1>10, <1>11

\* The sum GetStats starts from is the sum over all proxies.
LEMMA SharesOfIsSum ==
  ASSUME shares \in [ProxyIDs -> Nat], NEW S \in SUBSET ProxyIDs
  PROVE  SharesOf(S) = SumOver(shares, S)
<1>1. SharesOf(S) = SumOf(shares, S)
  BY DEF SharesOf, SumOf
<1> QED
  BY <1>1, FoldIsSum

-----------------------------------------------------------------------------
(* The invariant of the Director.                                          *)

Open(ph) == {i \in ProxyIDs : ph[i] = "open"}

\* The table holds the proxies whose removal is not complete; a proxy that was not made
\* yet has counted nothing.
TableInv ==
  /\ currentProxyID \in 0 .. MaxProxies
  /\ phase \in [ProxyIDs -> {"none", "open", "counted", "gone"}]
  /\ shares \in [ProxyIDs -> 0 .. MaxShares]
  /\ proxies = {i \in ProxyIDs : phase[i] \in {"open", "counted"}}
  /\ \A i \in ProxyIDs : i > currentProxyID => phase[i] = "none" /\ shares[i] = 0
  /\ \A i \in ProxyIDs : i <= currentProxyID => phase[i] # "none"
  /\ stats \in {"idle", "range", "load"} /\ visited \subseteq proxies
  /\ stats # "range" => visited = {}
  /\ overlap \in BOOLEAN /\ lastOverlap \in BOOLEAN

\* Nothing is lost or counted twice, and what GetStats has added so far is bounded by
\* what the proxies hold that it has visited.
AccountInv ==
  /\ {deleteShares, total, floor, lastTotalShares, NewShares} \subseteq Nat
  /\ deleteShares + SumOver(shares, Open(phase)) = SumOver(shares, ProxyIDs)
  /\ stats = "range" => total <= SumOver(shares, visited)
  /\ stats = "load" => total <= Cap
  /\ total <= Cap + Cap /\ lastTotalShares <= Cap + Cap
  /\ floor <= Cap /\ NewShares < Word

\* What is still to be visited or already in deleteShares makes up for what is missing
\* from the total.
ReportInv ==
  /\ stats = "range" =>
       total + SumOver(shares, Open(phase) \ visited) + deleteShares >= floor
  /\ stats = "load" => total + deleteShares >= floor
  /\ stats = "idle" => total >= floor

\* Without a removal under way no proxy is counted twice, so that a report is not more
\* than what was counted when the next one begins.
OverlapInv ==
  /\ stats # "idle" /\ ~overlap => \A i \in ProxyIDs : phase[i] # "counted"
  /\ stats = "load" /\ ~overlap => total <= SumOver(shares, Open(phase))
  /\ ~lastOverlap => lastTotalShares <= SumOver(shares, ProxyIDs)
  /\ stats # "idle" /\ ~lastOverlap => lastTotalShares <= floor

DirectorInv == TableInv /\ AccountInv /\ ReportInv /\ OverlapInv

\* The sums the invariant is about are numbers and bounded.
LEMMA SumFacts ==
  ASSUME NEW s \in [ProxyIDs -> 0 .. MaxShares], NEW S
  PROVE  s \in [ProxyIDs -> Nat] /\ SumOver(s, S) \in Nat /\ SumOver(s, S) <= Cap
<1>1. s \in [ProxyIDs -> Nat]
  BY Sizes
<1> QED
  BY <1>1, RowIsPartial, SumBound

\* newDirector establishes the invariant.
LEMMA DirectorInitially == DirectorInit => DirectorInv
<1> SUFFICES ASSUME DirectorInit PROVE DirectorInv
  OBVIOUS
<1>1. /\ phase = [i \in ProxyIDs |-> "none"] /\ shares = [i \in ProxyIDs |-> 0]
      /\ currentProxyID = 0 /\ proxies = {} /\ visited = {} /\ stats = "idle"
      /\ deleteShares = 0 /\ lastTotalShares = 0 /\ total = 0 /\ NewShares = 0 /\ floor = 0
      /\ overlap = FALSE /\ lastOverlap = FALSE
  BY DEF DirectorInit
<1>2. shares \in [ProxyIDs -> 0 .. MaxShares] /\ shares \in [ProxyIDs -> Nat]
  BY <1>1, Sizes
<1>3. TableInv
  <2>1. proxies = {i \in ProxyIDs : phase[i] \in {"open", "counted"}}
    BY <1>1
  <2>2. overlap \in BOOLEAN /\ lastOverlap \in BOOLEAN
    BY <1>1
  <2>3. phase \in [ProxyIDs -> {"none", "open", "counted", "gone"}]
        /\ currentProxyID \in 0 .. MaxProxies
    BY <1>1, Sizes
  <2>4. /\ \A i \in ProxyIDs : i > currentProxyID => phase[i] = "none" /\ shares[i] = 0
        /\ \A i \in ProxyIDs : i <= currentProxyID => phase[i] # "none"
    BY <1>1, Sizes DEF ProxyIDs
  <2> QED
    BY <1>1, <1>2, <2>1, <2>2, <2>3, <2>4 DEF TableInv
<1>4. SumOver(shares, ProxyIDs) = 0
  <2>1. Partial([k \in 0 .. MaxProxies |-> 0], shares, ProxyIDs, MaxProxies)
    BY <1>1, Sizes DEF Partial, ProxyIDs
  <2> QED
    BY <1>2, <2>1, SumOfRow, Sizes
<1>5. Open(phase) = {}
  BY <1>1 DEF Open
<1>6. AccountInv
  <2>1. SumOver(shares, Open(phase)) = 0
    BY <1>2, <1>5, SumEmpty
  <2> QED
    BY <1>1, <1>4, <2>1, CapFits DEF AccountInv
<1>7. ReportInv /\ OverlapInv
  BY <1>1, <1>4 DEF ReportInv, OverlapInv
<1> QED
  BY <1>3, <1>6, <1>7 DEF DirectorInv

\* A new proxy holds nothing yet.
LEMMA addProxyStep == DirectorInv /\ addProxy => DirectorInv'
<1> SUFFICES ASSUME DirectorInv, addProxy PROVE DirectorInv'
  OBVIOUS
<1> DEFINE i == currentProxyID + 1
<1>1. TableInv /\ AccountInv /\ ReportInv /\ OverlapInv
  BY DEF DirectorInv
<1>2. /\ i \in ProxyIDs /\ phase[i] = "none" /\ shares[i] = 0 /\ stats # "range" /\ visited = {}
      /\ currentProxyID' = i /\ proxies' = proxies \cup {i}
      /\ phase' = [phase EXCEPT ![i] = "open"]
      /\ UNCHANGED <<shares, deleteShares, statVars, overlap>>
  BY <1>1, Sizes DEF addProxy, TableInv, ProxyIDs
<1>3. TableInv'
  BY <1>1, <1>2, Sizes DEF TableInv, statVars, ProxyIDs
<1> HIDE DEF i
<1>4. Open(phase') = Open(phase) \cup {i} /\ i \notin Open(phase)
  BY <1>1, <1>2 DEF Open, TableInv
<1>5. shares \in [ProxyIDs -> Nat]
  BY <1>1, SumFacts DEF TableInv
<1>6. SumOver(shares, Open(phase')) = SumOver(shares, Open(phase))
  <2>1. SumOver(shares, Open(phase')) = SumOver(shares, Open(phase)) + shares[i]
    BY <1>2, <1>4, <1>5, SumInsert
  <2> QED
    BY <1>2, <1>5, <2>1, RowIsPartial
<1>7. AccountInv' /\ ReportInv'
  BY <1>1, <1>2, <1>6 DEF AccountInv, ReportInv, statVars
<1>8. OverlapInv'
  BY <1>1, <1>2, <1>6 DEF OverlapInv, TableInv, statVars
<1> QED
  BY <1>3, <1>7, <1>8 DEF DirectorInv

\* One more share is in the sum over the open proxies and over all, and in the others
\* if its proxy is.
LEMMA CountShareStep ==
  ASSUME DirectorInv, NEW i \in ProxyIDs, CountShare(i)
  PROVE  DirectorInv'
<1>1. TableInv /\ AccountInv /\ ReportInv /\ OverlapInv
  BY DEF DirectorInv
<1>2. /\ phase[i] = "open" /\ shares[i] < MaxShares
      /\ shares' = [shares EXCEPT ![i] = @ + 1]
      /\ UNCHANGED <<currentProxyID, proxies, phase, deleteShares, statVars, overlap>>
  BY DEF CountShare
<1>3. shares' \in [ProxyIDs -> 0 .. MaxShares] /\ shares \in [ProxyIDs -> 0 .. MaxShares]
  BY <1>1, <1>2, Sizes DEF TableInv
<1>4. TableInv'
  BY <1>1, <1>2, <1>3, Sizes DEF TableInv, statVars, ProxyIDs
<1> DEFINE all == SumOver(shares, ProxyIDs)
           open == SumOver(shares, Open(phase))
           seen == SumOver(shares, visited)
           left == SumOver(shares, Open(phase) \ visited)
<1>5. all \in Nat /\ open \in Nat /\ seen \in Nat /\ left \in Nat
  BY <1>3, SumFacts
<1>6. shares \in [ProxyIDs -> Nat] /\ i \in Open(phase)
  BY <1>2, <1>3, SumFacts DEF Open
<1>7. SumOver(shares', ProxyIDs) = all + 1 /\ SumOver(shares', Open(phase)) = open + 1
  BY <1>2, <1>6, SumIncrement
<1>8. \A S : SumOver(shares', S) = SumOver(shares, S) + (IF i \in S THEN 1 ELSE 0)
  BY <1>2, <1>6, SumIncrement
<1>9. SumOver(shares', visited) >= seen /\ SumOver(shares', Open(phase) \ visited) >= left
  BY <1>5, <1>8
<1> HIDE DEF all, open, seen, left
<1>10. AccountInv'
  <2>1. deleteShares + open = all /\ (stats = "range" => total <= seen)
    BY <1>1 DEF AccountInv, all, open, seen
  <2>2. deleteShares \in Nat /\ total \in Nat /\ SumOver(shares', visited) \in Nat
    BY <1>1, <1>3, SumFacts DEF AccountInv
  <2>3. deleteShares + SumOver(shares', Open(phase)) = SumOver(shares', ProxyIDs)
    BY <1>5, <1>7, <2>1, <2>2
  <2>4. stats = "range" => total <= SumOver(shares', visited)
    BY <1>5, <1>9, <2>1, <2>2
  <2> QED
    BY <1>1, <1>2, <2>3, <2>4 DEF AccountInv, statVars
<1>11. ReportInv'
  <2>1. stats = "range" => total + left + deleteShares >= floor
    BY <1>1 DEF ReportInv, left
  <2>2. /\ deleteShares \in Nat /\ total \in Nat /\ floor \in Nat
        /\ SumOver(shares', Open(phase) \ visited) \in Nat
    BY <1>1, <1>3, SumFacts DEF AccountInv
  <2>3. stats = "range" =>
          total + SumOver(shares', Open(phase) \ visited) + deleteShares >= floor
    BY <1>5, <1>9, <2>1, <2>2
  <2> QED
    BY <1>1, <1>2, <2>3 DEF ReportInv, statVars
<1>12. OverlapInv'
  <2>1. /\ stats = "load" /\ ~overlap => total <= open
        /\ ~lastOverlap => lastTotalShares <= all
    BY <1>1 DEF OverlapInv, all, open
  <2>2. total \in Nat /\ lastTotalShares \in Nat
    BY <1>1 DEF AccountInv
  <2>3. /\ stats = "load" /\ ~overlap => total <= open + 1
        /\ ~lastOverlap => lastTotalShares <= all + 1
    BY <1>5, <2>1, <2>2
  <2> QED
    BY <1>1, <1>2, <1>7, <2>3 DEF OverlapInv, statVars
<1> QED
  BY <1>4, <1>10, <1>11, <1>12 DEF DirectorInv

\* The first half of a removal moves the shares of a proxy to deleteShares.
LEMMA RemoveCountsStep ==
  ASSUME DirectorInv, NEW i \in ProxyIDs, RemoveCounts(i)
  PROVE  DirectorInv'
<1>1. TableInv /\ AccountInv /\ ReportInv /\ OverlapInv
  BY DEF DirectorInv
<1>2. /\ phase[i] = "open" /\ phase' = [phase EXCEPT ![i] = "counted"]
      /\ deleteShares' = deleteShares + shares[i]
      /\ overlap' = (overlap \/ stats # "idle")
      /\ UNCHANGED <<currentProxyID, proxies, shares, statVars>>
  BY DEF RemoveCounts
<1>3. shares \in [ProxyIDs -> Nat] /\ shares[i] \in Nat /\ shares \in [ProxyIDs -> 0 .. MaxShares]
  BY <1>1, SumFacts DEF TableInv
<1>4. TableInv'
  <2>1. overlap' \in BOOLEAN
    BY <1>1, <1>2, Zenon DEF TableInv
  <2> QED
    BY <1>1, <1>2, <2>1 DEF TableInv, statVars
<1>5. Open(phase) = Open(phase') \cup {i} /\ i \notin Open(phase')
  BY <1>1, <1>2 DEF Open, TableInv
<1> DEFINE open == SumOver(shares, Open(phase'))
           left == SumOver(shares, Open(phase') \ visited)
<1>6. open \in Nat /\ left \in Nat /\ SumOver(shares, ProxyIDs) \in Nat
  BY <1>3, SumFacts
<1>7. SumOver(shares, Open(phase)) = open + shares[i]
  BY <1>3, <1>5, SumInsert
<1>8. SumOver(shares, Open(phase) \ visited) <= left + shares[i]
  <2>1. CASE i \in visited
    <3>1. Open(phase) \ visited = Open(phase') \ visited
      BY <1>5, <2>1
    <3> QED
      BY <1>3, <1>6, <3>1
  <2>2. CASE i \notin visited
    <3>1. Open(phase) \ visited = (Open(phase') \ visited) \cup {i}
      BY <1>5, <2>2
    <3>2. SumOver(shares, (Open(phase') \ visited) \cup {i}) = left + shares[i]
      BY <1>3, <1>5, SumInsert
    <3> QED
      BY <1>3, <1>6, <3>1, <3>2
  <2> QED
    BY <2>1, <2>2
<1> HIDE DEF open, left
<1>9. AccountInv'
  <2>1. deleteShares + (open + shares[i]) = SumOver(shares, ProxyIDs) /\ deleteShares \in Nat
    BY <1>1, <1>7 DEF AccountInv
  <2>2. deleteShares' \in Nat /\ deleteShares' + open = SumOver(shares, ProxyIDs)
    BY <1>2, <1>3, <1>6, <2>1
  <2> QED
    BY <1>1, <1>2, <2>2 DEF AccountInv, statVars, open
<1>10. ReportInv'
  <2>1. /\ deleteShares \in Nat /\ total \in Nat /\ floor \in Nat
        /\ SumOver(shares, Open(phase) \ visited) \in Nat
    BY <1>1, <1>3, SumFacts DEF AccountInv
  <2>2. /\ stats = "range" => total + SumOver(shares, Open(phase) \ visited) + deleteShares >= floor
        /\ stats = "load" => total + deleteShares >= floor
        /\ stats = "idle" => total >= floor
    BY <1>1 DEF ReportInv
  <2>3. /\ stats = "range" => total + left + deleteShares' >= floor
        /\ stats = "load" => total + deleteShares' >= floor
    BY <1>2, <1>3, <1>6, <1>8, <2>1, <2>2
  <2> QED
    BY <1>2, <2>2, <2>3 DEF ReportInv, statVars, left
<1>11. OverlapInv'
  BY <1>1, <1>2 DEF OverlapInv, statVars
<1> QED
  BY <1>4, <1>9, <1>10, <1>11 DEF DirectorInv

\* The second half changes the table only.
LEMMA RemoveDeletesStep ==
  ASSUME DirectorInv, NEW i \in ProxyIDs, RemoveDeletes(i)
  PROVE  DirectorInv'
<1>1. TableInv /\ AccountInv /\ ReportInv /\ OverlapInv
  BY DEF DirectorInv
<1>2. /\ phase[i] = "counted" /\ stats # "range" /\ visited = {}
      /\ phase' = [phase EXCEPT ![i] = "gone"] /\ proxies' = proxies \ {i}
      /\ UNCHANGED <<currentProxyID, shares, deleteShares, statVars, overlap>>
  BY <1>1 DEF RemoveDeletes, TableInv
<1>3. TableInv'
  BY <1>1, <1>2 DEF TableInv, statVars
<1>4. Open(phase') = Open(phase)
  BY <1>1, <1>2 DEF Open, TableInv
<1>5. AccountInv' /\ ReportInv'
  BY <1>1, <1>2, <1>4 DEF AccountInv, ReportInv, statVars
<1>6. OverlapInv'
  BY <1>1, <1>2, <1>4 DEF OverlapInv, TableInv, statVars
<1> QED
  BY <1>3, <1>5, <1>6 DEF DirectorInv

\* GetStats begins: nothing is visited, so everything is still to come.
LEMMA StatsBeginStep == DirectorInv /\ StatsBegin => DirectorInv'
<1> SUFFICES ASSUME DirectorInv, StatsBegin PROVE DirectorInv'
  OBVIOUS
<1>1. TableInv /\ AccountInv /\ ReportInv /\ OverlapInv
  BY DEF DirectorInv
<1>2. shares \in [ProxyIDs -> Nat] /\ shares \in [ProxyIDs -> 0 .. MaxShares]
  BY <1>1, SumFacts DEF TableInv
<1> DEFINE all == SumOver(shares, ProxyIDs)
           open == SumOver(shares, Open(phase))
<1>3. all \in Nat /\ all <= Cap /\ open \in Nat
  BY <1>2, SumFacts
<1>4. /\ stats' = "range" /\ visited' = {} /\ total' = 0 /\ floor' = all
      /\ overlap' = (\E i \in ProxyIDs : phase[i] = "counted")
      /\ UNCHANGED <<currentProxyID, proxies, phase, shares, deleteShares, lastTotalShares,
                     NewShares, lastOverlap>>
  BY <1>2, SharesOfIsSum DEF StatsBegin
<1>5. TableInv'
  <2>1. overlap' \in BOOLEAN
    BY <1>4, Zenon
  <2> QED
    BY <1>1, <1>4, <2>1 DEF TableInv
<1>6. deleteShares + open = all /\ deleteShares \in Nat
  BY <1>1 DEF AccountInv
<1>7. AccountInv'
  <2>1. SumOver(shares, {}) = 0
    BY <1>2, SumEmpty
  <2> QED
    BY <1>1, <1>3, <1>4, <2>1, CapFits DEF AccountInv
<1>8. ReportInv'
  <2>1. Open(phase) \ {} = Open(phase)
    OBVIOUS
  <2>2. 0 + open + deleteShares >= all
    BY <1>3, <1>6
  <2> QED
    BY <1>4, <2>1, <2>2 DEF ReportInv
<1>9. OverlapInv'
  BY <1>1, <1>4 DEF OverlapInv
<1> QED
  BY <1>5, <1>7, <1>8, <1>9 DEF DirectorInv

\* A visit moves the shares of a proxy from what is left to the total.
LEMMA StatsVisitStep ==
  ASSUME DirectorInv, NEW i \in ProxyIDs, StatsVisit(i)
  PROVE  DirectorInv'
<1>1. TableInv /\ AccountInv /\ ReportInv /\ OverlapInv
  BY DEF DirectorInv
<1>2. /\ stats = "range" /\ i \in proxies \ visited
      /\ visited' = visited \cup {i} /\ total' = total + shares[i]
      /\ UNCHANGED <<currentProxyID, proxies, phase, shares, deleteShares, lastTotalShares,
                     stats, NewShares, floor, overlap, lastOverlap>>
  BY DEF StatsVisit
<1>3. /\ shares \in [ProxyIDs -> Nat] /\ shares[i] \in Nat
      /\ shares \in [ProxyIDs -> 0 .. MaxShares]
  BY <1>1, SumFacts DEF TableInv
<1>4. TableInv'
  BY <1>1, <1>2 DEF TableInv
<1> DEFINE seen == SumOver(shares, visited)
           left == SumOver(shares, Open(phase) \ visited)
           next == SumOver(shares, Open(phase) \ visited')
<1>5. seen \in Nat /\ left \in Nat /\ next \in Nat
  BY <1>3, SumFacts
<1>6. SumOver(shares, visited') = seen + shares[i] /\ seen + shares[i] <= Cap
  <2>1. SumOver(shares, visited') = seen + shares[i]
    BY <1>2, <1>3, SumInsert
  <2>2. SumOver(shares, visited') <= Cap
    BY <1>3, SumFacts
  <2> QED
    BY <2>1, <2>2
<1>7. left <= next + shares[i]
  <2>1. CASE i \in Open(phase)
    <3>1. /\ Open(phase) \ visited = (Open(phase) \ visited') \cup {i}
          /\ i \notin Open(phase) \ visited'
      BY <1>2, <2>1
    <3>2. left = next + shares[i]
      BY <1>3, <3>1, SumInsert, Zenon
    <3> QED
      BY <1>3, <1>5, <3>2
  <2>2. CASE i \notin Open(phase)
    <3>1. Open(phase) \ visited = Open(phase) \ visited'
      BY <1>2, <2>2
    <3>2. left = next
      BY <3>1, Zenon
    <3> QED
      BY <1>3, <1>5, <3>2
  <2> QED
    BY <2>1, <2>2
<1> HIDE DEF seen, left, next
<1>8. total \in Nat /\ total <= seen /\ deleteShares \in Nat /\ floor \in Nat
      /\ total + left + deleteShares >= floor
  BY <1>1, <1>2 DEF AccountInv, ReportInv, seen, left
<1>9. total' \in Nat /\ total' <= seen + shares[i] /\ total' <= Cap + Cap
  BY <1>2, <1>3, <1>5, <1>6, <1>8, CapFits
<1>10. AccountInv'
  BY <1>1, <1>2, <1>6, <1>9 DEF AccountInv
<1>11. ReportInv'
  <2>1. total' + next + deleteShares >= floor
    BY <1>2, <1>3, <1>5, <1>7, <1>8
  <2> QED
    BY <1>2, <2>1 DEF ReportInv, next
<1>12. OverlapInv'
  BY <1>1, <1>2 DEF OverlapInv
<1> QED
  BY <1>4, <1>10, <1>11, <1>12 DEF DirectorInv

\* All are visited: nothing is left, and without a removal the visited are the open ones.
LEMMA StatsRangedStep == DirectorInv /\ StatsRanged => DirectorInv'
<1> SUFFICES ASSUME DirectorInv, StatsRanged PROVE DirectorInv'
  OBVIOUS
<1>1. TableInv /\ AccountInv /\ ReportInv /\ OverlapInv
  BY DEF DirectorInv
<1>2. /\ stats = "range" /\ visited = proxies /\ stats' = "load" /\ visited' = {}
      /\ UNCHANGED <<currentProxyID, proxies, phase, shares, deleteShares, lastTotalShares,
                     total, NewShares, floor, overlap, lastOverlap>>
  BY DEF StatsRanged
<1>3. shares \in [ProxyIDs -> Nat] /\ shares \in [ProxyIDs -> 0 .. MaxShares]
  BY <1>1, SumFacts DEF TableInv
<1>4. TableInv'
  BY <1>1, <1>2 DEF TableInv
<1>5. SumOver(shares, visited) \in Nat /\ SumOver(shares, visited) <= Cap /\ total \in Nat
      /\ total <= SumOver(shares, visited) /\ deleteShares \in Nat
  BY <1>1, <1>2, <1>3, SumFacts DEF AccountInv
<1>6. AccountInv'
  <2>1. total <= Cap
    BY <1>5, CapFits
  <2> QED
    BY <1>1, <1>2, <2>1 DEF AccountInv
<1>7. ReportInv'
  <2>1. Open(phase) \ visited = {}
    BY <1>1, <1>2 DEF Open, TableInv
  <2>2. total + SumOver(shares, {}) + deleteShares >= floor
    BY <1>1, <1>2, <2>1 DEF ReportInv
  <2>3. SumOver(shares, {}) = 0
    BY <1>3, SumEmpty
  <2>4. total + deleteShares >= floor
    BY <1>5, <2>2, <2>3
  <2> QED
    BY <1>2, <2>4 DEF ReportInv
<1>8. OverlapInv'
  <2>1. ASSUME ~overlap PROVE total <= SumOver(shares, Open(phase))
    <3>1. visited = Open(phase)
      BY <1>1, <1>2, <2>1 DEF Open, TableInv, OverlapInv
    <3> QED
      BY <1>5, <3>1
  <2> QED
    BY <1>1, <1>2, <2>1 DEF OverlapInv
<1> QED
  BY <1>4, <1>6, <1>7, <1>8 DEF DirectorInv

\* The report is taken; the difference to the last one is right unless that one was high.
LEMMA StatsEndFacts ==
  ASSUME DirectorInv, StatsEnd
  PROVE  /\ total' \in Nat /\ total' >= floor /\ total' <= Cap + Cap
         /\ NewShares' \in Nat /\ NewShares' < Word
         /\ ~lastOverlap => lastTotalShares' = lastTotalShares + NewShares'
<1>1. TableInv /\ AccountInv /\ ReportInv /\ OverlapInv
  BY DEF DirectorInv
<1>2. /\ stats = "load" /\ total' = total + deleteShares /\ lastTotalShares' = total'
      /\ NewShares' = (total' + Word - lastTotalShares) % Word
  BY DEF StatsEnd
<1>3. /\ shares \in [ProxyIDs -> 0 .. MaxShares]
      /\ {deleteShares, total, floor, lastTotalShares} \subseteq Nat
      /\ total <= Cap /\ total + deleteShares >= floor /\ lastTotalShares <= Cap + Cap
      /\ ~lastOverlap => lastTotalShares <= floor
      /\ deleteShares + SumOver(shares, Open(phase)) = SumOver(shares, ProxyIDs)
  BY <1>1, <1>2 DEF TableInv, AccountInv, ReportInv, OverlapInv
<1>4. deleteShares <= Cap
  <2>1. /\ SumOver(shares, Open(phase)) \in Nat /\ SumOver(shares, ProxyIDs) \in Nat
        /\ SumOver(shares, ProxyIDs) <= Cap
    BY <1>3, SumFacts
  <2> QED
    BY <1>3, <2>1, CapFits
<1>5. total' \in Nat /\ total' >= floor /\ total' <= Cap + Cap
  BY <1>2, <1>3, <1>4, CapFits
<1>6. total' + Word - lastTotalShares \in Nat /\ Word > 0
  BY <1>3, <1>5, CapFits
<1>7. NewShares' \in Nat /\ NewShares' < Word
  BY <1>2, <1>6, CapFits
<1>8. ASSUME ~lastOverlap PROVE lastTotalShares' = lastTotalShares + NewShares'
  <2>1. lastTotalShares <= total'
    BY <1>3, <1>5, <1>8
  <2>2. PICK d \in Nat : d = total' - lastTotalShares
    BY <1>3, <1>5, <2>1
  <2>3. d < Word /\ total' + Word - lastTotalShares = d + Word
    BY <1>3, <1>5, <2>2, CapFits
  <2>4. (d + Word) % Word = d
    BY <1>6, <2>3, CapFits
  <2> QED
    BY <1>2, <1>3, <1>5, <2>2, <2>3, <2>4
<1> QED
  BY <1>5, <1>7, <1>8

\* GetStats ends: the report becomes lastTotalShares.
LEMMA StatsEndStep == DirectorInv /\ StatsEnd => DirectorInv'
<1> SUFFICES ASSUME DirectorInv, StatsEnd PROVE DirectorInv'
  OBVIOUS
<1>1. TableInv /\ AccountInv /\ ReportInv /\ OverlapInv
  BY DEF DirectorInv
<1>2. /\ stats = "load" /\ stats' = "idle" /\ total' = total + deleteShares
      /\ lastTotalShares' = total' /\ lastOverlap' = overlap
      /\ UNCHANGED <<currentProxyID, proxies, phase, shares, deleteShares, visited, floor, overlap>>
  BY DEF StatsEnd
<1>3. /\ total' \in Nat /\ total' >= floor /\ total' <= Cap + Cap
      /\ NewShares' \in Nat /\ NewShares' < Word
  BY StatsEndFacts
<1>4. TableInv'
  BY <1>1, <1>2 DEF TableInv
<1>5. AccountInv'
  BY <1>1, <1>2, <1>3 DEF AccountInv
<1>6. ReportInv'
  BY <1>2, <1>3 DEF ReportInv
<1>7. OverlapInv'
  <2>1. ASSUME ~overlap PROVE total' <= SumOver(shares, ProxyIDs)
    <3>1. /\ total <= SumOver(shares, Open(phase)) /\ total \in Nat /\ deleteShares \in Nat
          /\ deleteShares + SumOver(shares, Open(phase)) = SumOver(shares, ProxyIDs)
      BY <1>1, <1>2, <2>1 DEF OverlapInv, AccountInv
    <3>2. SumOver(shares, Open(phase)) \in Nat /\ SumOver(shares, ProxyIDs) \in Nat
      BY <1>1, SumFacts DEF TableInv
    <3> QED
      BY <1>2, <3>1, <3>2
  <2> QED
    BY <1>2, <2>1 DEF OverlapInv
<1> QED
  BY <1>4, <1>5, <1>6, <1>7 DEF DirectorInv

\* The invariant is inductive.
LEMMA DirectorStep == DirectorInv /\ [DirectorNext]_directorVars => DirectorInv'
<1> SUFFICES ASSUME DirectorInv, [DirectorNext]_directorVars PROVE DirectorInv'
  OBVIOUS
<1>1. CASE DirectorNext
  BY <1>1, addProxyStep, CountShareStep, RemoveCountsStep, RemoveDeletesStep, StatsBeginStep,
     StatsVisitStep, StatsRangedStep, StatsEndStep DEF DirectorNext
<1>2. CASE UNCHANGED directorVars
  BY <1>2 DEF directorVars, statVars, DirectorInv, TableInv, AccountInv, ReportInv, OverlapInv
<1> QED
  BY <1>1, <1>2

\* The inductive invariant of the Director: the table, the accounts, and how far a report
\* can be from them while it is made.
THEOREM DirectorInvariant == DirectorSpec => []DirectorInv
  BY DirectorInitially, DirectorStep, PTL DEF DirectorSpec

\* Types; no sum leaves its uint64.
THEOREM DirectorTypes == DirectorSpec => []DirectorTypeOK
<1>1. ASSUME DirectorInv PROVE DirectorTypeOK
  <2>1. TableInv /\ AccountInv
    BY <1>1 DEF DirectorInv
  <2>2. proxies \subseteq 1 .. currentProxyID
    BY <2>1 DEF TableInv, ProxyIDs
  <2>3. deleteShares \in Nat /\ deleteShares <= Cap
    <3>1. /\ SumOver(shares, Open(phase)) \in Nat /\ SumOver(shares, ProxyIDs) \in Nat
          /\ SumOver(shares, ProxyIDs) <= Cap
      BY <2>1, SumFacts DEF TableInv
    <3> QED
      BY <2>1, <3>1, CapFits DEF AccountInv
  <2>4. {deleteShares, lastTotalShares, total, NewShares, floor} \subseteq 0 .. Word - 1
    BY <2>1, <2>3, CapFits DEF AccountInv
  <2> QED
    BY <2>1, <2>2, <2>4 DEF TableInv, DirectorTypeOK
<1> QED
  BY <1>1, DirectorInvariant, PTL

\* removeProxy loses no share and counts none twice, for any number of proxies.
THEOREM DirectorConservesShares == DirectorSpec => []SharesConserved
<1>1. ASSUME DirectorInv PROVE SharesConserved
  <2>1. shares \in [ProxyIDs -> Nat]
    BY <1>1, SumFacts DEF DirectorInv, TableInv
  <2>2. deleteShares + SumOver(shares, Open(phase)) = SumOver(shares, ProxyIDs)
    BY <1>1 DEF DirectorInv, AccountInv
  <2>3. SharesOf(Open(phase)) = SumOver(shares, Open(phase))
    BY <2>1, SharesOfIsSum DEF Open
  <2>4. SharesOf(ProxyIDs) = SumOver(shares, ProxyIDs)
    BY <2>1, SharesOfIsSum
  <2>5. deleteShares + SharesOf(Open(phase)) = SharesOf(ProxyIDs)
    BY <2>2, <2>3, <2>4
  <2> QED
    BY <2>5 DEF SharesConserved, Open
<1> QED
  BY <1>1, DirectorInvariant, PTL

\* GetStats never reports less than was counted when it began, whatever is counted, added
\* and removed while it ranges over the table.
THEOREM DirectorReportsNotShort == DirectorSpec => []StatsNotShort
<1>1. DirectorInv => StatsNotShort
  BY DEF DirectorInv, ReportInv, StatsNotShort
<1> QED
  BY <1>1, DirectorInvariant, PTL

\* The number of new shares does not wrap around below zero unless a removal was under
\* way during the report before.
THEOREM DirectorNewSharesSound == DirectorSpec => NewSharesSound
<1>1. DirectorInv /\ [DirectorNext]_directorVars =>
        [stats = "load" /\ stats' = "idle" /\ ~lastOverlap
           => lastTotalShares' = lastTotalShares + NewShares']_directorVars
  <2> SUFFICES ASSUME DirectorInv, [DirectorNext]_directorVars,
                      stats = "load", stats' = "idle", ~lastOverlap
               PROVE  lastTotalShares' = lastTotalShares + NewShares'
    OBVIOUS
  <2>1. StatsEnd
    BY DEF DirectorNext, addProxy, CountShare, RemoveCounts, RemoveDeletes, StatsBegin,
           StatsVisit, StatsRanged, directorVars, statVars
  <2> QED
    BY <2>1, StatsEndFacts
<1> QED
  BY <1>1, DirectorInvariant, PTL DEF DirectorSpec, NewSharesSound

-----------------------------------------------------------------------------
(* SafeMap implements a map.                                               *)

\* No key is in both maps of s.
Disjoint(s) == DOMAIN s.old \cap DOMAIN s.new = {}

\* The map that s stands for.
Merged(s) ==
  [k \in DOMAIN s.old \cup DOMAIN s.new |->
     IF k \in DOMAIN s.old THEN s.old[k] ELSE s.new[k]]

GoodState(s) == s \in State /\ Disjoint(s)

\* A Go map is a function from some of the keys to values.
LEMMA InMaps ==
  ASSUME NEW m
  PROVE  m \in Maps <=> DOMAIN m \subseteq Keys /\ m \in [DOMAIN m -> Values]
BY DEF Maps

\* What writing and deleting do to a Go map.
LEMMA MapOperations ==
  ASSUME NEW m \in Maps, NEW k \in Keys, NEW v \in Values
  PROVE  /\ Put(m, k, v) \in Maps /\ DOMAIN Put(m, k, v) = DOMAIN m \cup {k}
         /\ Delete(m, k) \in Maps /\ DOMAIN Delete(m, k) = DOMAIN m \ {k}
<1>1. DOMAIN m \subseteq Keys /\ m \in [DOMAIN m -> Values]
  BY InMaps
<1>2. Put(m, k, v) \in Maps /\ DOMAIN Put(m, k, v) = DOMAIN m \cup {k}
  BY <1>1, InMaps DEF Put
<1>3. Delete(m, k) \in Maps /\ DOMAIN Delete(m, k) = DOMAIN m \ {k}
  BY <1>1, InMaps DEF Delete
<1> QED BY <1>2, <1>3

\* Del's first part removes the key from the map s stands for.
LEMMA DropIsDelete ==
  ASSUME NEW s, GoodState(s), NEW k \in Keys
  PROVE  GoodState(Drop(s, k)) /\ Merged(Drop(s, k)) = Delete(Merged(s), k)
<1> USE DEF GoodState, State
<1>1. /\ Delete(s.old, k) \in Maps /\ DOMAIN Delete(s.old, k) = DOMAIN s.old \ {k}
      /\ Delete(s.new, k) \in Maps /\ DOMAIN Delete(s.new, k) = DOMAIN s.new \ {k}
  BY InMaps DEF Delete
<1>2. Drop(s, k) \in State
  <2>0. s.delOld + 1 \in Nat /\ s.delNew + 1 \in Nat
    OBVIOUS
  <2>1. CASE k \in DOMAIN s.old
    <3>1. Drop(s, k) = [old |-> Delete(s.old, k), new |-> s.new,
                        delOld |-> s.delOld + 1, delNew |-> s.delNew]
      BY <2>1 DEF Drop
    <3> QED BY <1>1, <2>0, <3>1
  <2>2. CASE k \notin DOMAIN s.old /\ k \in DOMAIN s.new
    <3>1. Drop(s, k) = [old |-> s.old, new |-> Delete(s.new, k),
                        delOld |-> s.delOld, delNew |-> s.delNew + 1]
      BY <2>2 DEF Drop
    <3> QED BY <1>1, <2>0, <3>1
  <2>3. CASE k \notin DOMAIN s.old /\ k \notin DOMAIN s.new
    BY <2>3 DEF Drop
  <2> QED BY <2>1, <2>2, <2>3
<1>3. Disjoint(Drop(s, k))
  BY <1>1 DEF Drop, Disjoint
<1>4. Merged(Drop(s, k)) = Delete(Merged(s), k)
  BY DEF Drop, Merged, Delete, Disjoint
<1> QED BY <1>2, <1>3, <1>4

\* Moving entries between the two maps leaves the map s stands for as it was.
LEMMA RetireKeeps ==
  ASSUME NEW s, GoodState(s)
  PROVE  /\ GoodState(RetireOld(s)) /\ Merged(RetireOld(s)) = Merged(s)
         /\ GoodState(RetireNew(s)) /\ Merged(RetireNew(s)) = Merged(s)
<1> USE DEF GoodState, State
<1>1. CopyInto(s.new, s.old) \in Maps /\ CopyInto(s.old, s.new) \in Maps
  BY InMaps DEF CopyInto
<1>2. EmptyMap \in Maps /\ DOMAIN EmptyMap = {}
  BY InMaps DEF EmptyMap
<1>3. GoodState(RetireOld(s)) /\ GoodState(RetireNew(s))
  BY <1>1, <1>2 DEF RetireOld, RetireNew, Disjoint
<1>4. Merged(RetireOld(s)) = Merged(s)
  BY <1>2 DEF RetireOld, Merged, CopyInto, Disjoint
<1>5. Merged(RetireNew(s)) = Merged(s)
  BY <1>2 DEF RetireNew, Merged, CopyInto, Disjoint
<1> QED BY <1>3, <1>4, <1>5

\* Set writes the key in the map s stands for.
LEMMA StoreIsPut ==
  ASSUME NEW s, GoodState(s), NEW k \in Keys, NEW v \in Values
  PROVE  GoodState(Store(s, k, v)) /\ Merged(Store(s, k, v)) = Put(Merged(s), k, v)
<1> USE DEF GoodState, State
<1>1. /\ Put(s.old, k, v) \in Maps /\ DOMAIN Put(s.old, k, v) = DOMAIN s.old \cup {k}
      /\ Put(s.new, k, v) \in Maps /\ DOMAIN Put(s.new, k, v) = DOMAIN s.new \cup {k}
      /\ Delete(s.old, k) \in Maps /\ DOMAIN Delete(s.old, k) = DOMAIN s.old \ {k}
      /\ Delete(s.new, k) \in Maps /\ DOMAIN Delete(s.new, k) = DOMAIN s.new \ {k}
  <2>1. s.old \in Maps /\ s.new \in Maps
    OBVIOUS
  <2> QED BY <2>1, MapOperations, Zenon
<1>2. GoodState(Store(s, k, v))
  <2>0. s.delOld + 1 \in Nat /\ s.delNew + 1 \in Nat
    OBVIOUS
  <2>1. CASE s.delOld <= maxDeletion
    <3>1. PICK d \in Nat :
            Store(s, k, v) = [old |-> Put(s.old, k, v), new |-> Delete(s.new, k),
                              delOld |-> s.delOld, delNew |-> d]
      BY <2>0, <2>1 DEF Store
    <3> QED BY <1>1, <3>1 DEF Disjoint
  <2>2. CASE ~(s.delOld <= maxDeletion)
    <3>1. PICK d \in Nat :
            Store(s, k, v) = [old |-> Delete(s.old, k), new |-> Put(s.new, k, v),
                              delOld |-> d, delNew |-> s.delNew]
      BY <2>0, <2>2 DEF Store
    <3> QED BY <1>1, <3>1 DEF Disjoint
  <2> QED BY <2>1, <2>2
<1>3. Merged(Store(s, k, v)) = Put(Merged(s), k, v)
  BY DEF Store, Merged, Put, Delete, Disjoint
<1> QED BY <1>2, <1>3

-----------------------------------------------------------------------------

SafeMapInv == GoodState(Current)

\* After an operation the current state is the one the operation computed.
LEMMA BecomesCurrent ==
  ASSUME NEW s, s \in State, Becomes(s)
  PROVE  Current' = s
BY DEF Becomes, Current, State

\* NewSafeMap makes a good state.
LEMMA SafeMapInitInv == SafeMapInit => SafeMapInv
<1> SUFFICES ASSUME SafeMapInit PROVE SafeMapInv
  OBVIOUS
<1>1. EmptyMap \in Maps /\ DOMAIN EmptyMap = {}
  BY InMaps DEF EmptyMap
<1> QED BY <1>1 DEF SafeMapInit, SafeMapInv, GoodState, State, Disjoint, Current

\* Del: one key is deleted from the map, whatever is moved.
LEMMA DelStep ==
  ASSUME SafeMapInv, NEW k \in Keys, Del(k)
  PROVE  SafeMapInv' /\ Merged(Current)' = Delete(Merged(Current), k)
<1> DEFINE a == Drop(Current, k)
           b == RetireOld(a)
           c == RetireNew(b)
<1>1. GoodState(a) /\ Merged(a) = Delete(Merged(Current), k)
  BY DropIsDelete DEF SafeMapInv
<1>2. GoodState(b) /\ Merged(b) = Merged(a)
  BY <1>1, RetireKeeps
<1>3. GoodState(c) /\ Merged(c) = Merged(b)
  BY <1>2, RetireKeeps
<1>4. Becomes(c)
  BY DEF Del
<1> HIDE DEF a, b, c
<1>5. Current' = c
  BY <1>3, <1>4, BecomesCurrent DEF GoodState
<1> QED BY <1>1, <1>2, <1>3, <1>5 DEF SafeMapInv, GoodState, Disjoint, Merged, State, Maps

\* Set: one key is written in the map.
LEMMA SetStep ==
  ASSUME SafeMapInv, NEW k \in Keys, NEW v \in Values, Set(k, v)
  PROVE  SafeMapInv' /\ Merged(Current)' = Put(Merged(Current), k, v)
<1> DEFINE c == Store(Current, k, v)
<1>1. GoodState(c) /\ Merged(c) = Put(Merged(Current), k, v)
  BY StoreIsPut DEF SafeMapInv
<1>2. Becomes(c)
  BY DEF Set
<1> HIDE DEF c
<1>3. Current' = c
  BY <1>1, <1>2, BecomesCurrent DEF GoodState
<1> QED BY <1>1, <1>3 DEF SafeMapInv, GoodState, Disjoint, Merged, State, Maps

\* Set and Del keep it good.
LEMMA SafeMapStepInv == SafeMapInv /\ [SafeMapNext]_mapVars => SafeMapInv'
<1> SUFFICES ASSUME SafeMapInv, [SafeMapNext]_mapVars PROVE SafeMapInv'
  OBVIOUS
<1>1. CASE SafeMapNext
  BY <1>1, DelStep, SetStep DEF SafeMapNext
<1>2. CASE UNCHANGED mapVars
  BY <1>2 DEF mapVars, SafeMapInv, GoodState, Disjoint, State, Maps, Current
<1> QED BY <1>1, <1>2

\* SafeMap's state is good in every state.
THEOREM SafeMapInvariant == SafeMapSpec => []SafeMapInv
<1> QED BY SafeMapInitInv, SafeMapStepInv, PTL DEF SafeMapSpec

\* No key is ever in both maps: Range calls its function once per key.
THEOREM SafeMapNoKeyTwice == SafeMapSpec => []NoKeyTwice
<1>1. SafeMapInv => NoKeyTwice
  BY DEF SafeMapInv, GoodState, Disjoint, Current, NoKeyTwice
<1> QED BY <1>1, SafeMapInvariant, PTL

\* The types of SafeMap's fields.
THEOREM SafeMapTypes == SafeMapSpec => []SafeMapTypeOK
<1>1. SafeMapInv => SafeMapTypeOK
  BY DEF SafeMapInv, GoodState, SafeMapTypeOK
<1> QED BY <1>1, SafeMapInvariant, PTL

\* SafeMap implements a map.
THEOREM SafeMapImplementsMap == SafeMapSpec => ImplementsMap
<1> DEFINE content == [k \in Held |-> Get(k)]
<1>1. SafeMapInit => Abstract!MapInit
  BY DEF SafeMapInit, EmptyMap, Held, Get, Abstract!MapInit
<1>2. SafeMapInv /\ [SafeMapNext]_mapVars => [Abstract!MapNext]_content
  <2> SUFFICES ASSUME SafeMapInv, [SafeMapNext]_mapVars
               PROVE  Abstract!MapNext \/ content' = content
    OBVIOUS
  <2>0. content = Merged(Current) /\ content' = Merged(Current)'
    BY DEF Held, Get, Merged, Current
  <2> HIDE DEF content
  <2>1. ASSUME NEW k \in Keys, Del(k) PROVE content' = Abstract!Without(k)
    BY <2>0, <2>1, DelStep DEF Delete, Abstract!Without, content
  <2>2. ASSUME NEW k \in Keys, NEW v \in Values, Set(k, v)
        PROVE  content' = Abstract!With(k, v)
    BY <2>0, <2>2, SetStep DEF Put, Abstract!With, content
  <2>3. CASE UNCHANGED mapVars
    BY <2>3 DEF mapVars, content, Held, Get
  <2> QED BY <2>1, <2>2, <2>3 DEF SafeMapNext, Abstract!MapNext, content
<1> QED BY <1>1, <1>2, SafeMapInvariant, PTL
        DEF SafeMapSpec, ImplementsMap, Abstract!MapSpec
=============================================================================
