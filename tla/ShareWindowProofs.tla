-------------------------- MODULE ShareWindowProofs -------------------------
(***************************************************************************)
(* Proofs about the handlers of fields and shares, for any tasks, nonces,  *)
(* results and numbers of jobs and shares sent: the ids Submit admits, the *)
(* share that is sent to the pool, and the pairing of fields.              *)
(***************************************************************************)
EXTENDS ShareWindow, TLAPS

AnyField == Fields \cup {NoField}
OpenTask == [kind : {"hash"}, of : Hashes] \cup {NoField}
Jobs == [id : 0 .. MaxJobs, hash : AnyField, seed : AnyField]
WireShares == [id : 0 .. MaxJobs, nonce : Nonces \cup {0}]

\* The types, with the shape of jobs and of what is sent; a share in the channel
\* has room on the wire.
TypeInv ==
  /\ WindowTypeOK /\ task \in OpenTask /\ job \in Jobs /\ wire \in Seq(WireShares)
  /\ pending # NoShare => Len(wire) < MaxWire

\* The remembered ids are those of the jobs before, while there were any.
IdsInv == \A i \in 1 .. 3 : prevIDs[i] = IF job.id > i THEN job.id - i ELSE 0

\* miniResult and miniNonce are the best share of the window; a window holds shares
\* of the current job only.
WindowInv ==
  /\ \A t \in found : t.id = job.id /\ miniResult <= t.result
  /\ miniResult < MaxResult =>
       \E s \in found : s.result = miniResult /\ s.nonce = miniNonce

ShareInv == TypeInv /\ IdsInv /\ WindowInv

USE WindowAssumption DEF NoID

-----------------------------------------------------------------------------
(* What the steps are made of.                                             *)

\* The fields of a share.
LEMMA ShareTypes ==
  /\ \A s \in Shares : s.id \in IDs /\ s.nonce \in Nonces /\ s.result \in Results
  /\ \A s \in Shares : s.result \in Nat
  /\ \A r \in Results \cup {MaxResult} : r \in Nat /\ r <= MaxResult
<1>1. \A s \in Shares : s.id \in IDs /\ s.nonce \in Nonces /\ s.result \in Results
  BY DEF Shares
<1>2. \A r \in Results \cup {MaxResult} : r \in Nat /\ r <= MaxResult
  OBVIOUS
<1> QED
  BY <1>1, <1>2

\* A new job moves the ids on and starts an empty window.
LEMMA NewJobStep ==
  ASSUME ShareInv, NEW f \in Fields, HandleJob(CreateJob(f)), job.id < MaxJobs,
         recv' = NoField, task' \in OpenTask, UNCHANGED <<pending, wire>>
  PROVE  ShareInv'
<1>0. TypeInv /\ WindowTypeOK /\ job \in Jobs /\ IdsInv
  BY DEF ShareInv, TypeInv
<1>1. /\ prevIDs' = <<job.id, prevIDs[1], prevIDs[2]>>
      /\ job' = [id |-> job.id + 1, hash |-> recv, seed |-> f]
      /\ miniResult' = MaxResult /\ due' = FALSE /\ found' = {} /\ miniNonce' = miniNonce
  BY DEF HandleJob, CreateJob
<1>2. job.id \in 0 .. MaxJobs /\ job.id + 1 \in 0 .. MaxJobs /\ job'.id = job.id + 1
  BY <1>0, <1>1 DEF Jobs
<1>3. job' \in Jobs
  BY <1>0, <1>1, <1>2 DEF Jobs, WindowTypeOK, AnyField
<1>4. prevIDs' \in [1 .. 3 -> 0 .. MaxJobs]
  BY <1>0, <1>1, <1>2 DEF WindowTypeOK
<1>5. WindowTypeOK'
  <2>1. due' \in BOOLEAN
    BY <1>1
  <2>2. job'.id \in 0 .. MaxJobs /\ {job'.hash, job'.seed} \subseteq Fields \cup {NoField}
    BY <1>3 DEF Jobs, AnyField
  <2> QED
    BY <1>0, <1>1, <1>4, <2>1, <2>2 DEF WindowTypeOK, AnyField, OpenTask, Fields
<1>6. IdsInv'
  <2>1. prevIDs'[1] = job.id /\ prevIDs'[2] = prevIDs[1] /\ prevIDs'[3] = prevIDs[2]
    BY <1>1
  <2>2. /\ prevIDs[1] = IF job.id > 1 THEN job.id - 1 ELSE 0
        /\ prevIDs[2] = IF job.id > 2 THEN job.id - 2 ELSE 0
    BY <1>0 DEF IdsInv
  <2>3. /\ prevIDs'[1] = IF job'.id > 1 THEN job'.id - 1 ELSE 0
        /\ prevIDs'[2] = IF job'.id > 2 THEN job'.id - 2 ELSE 0
        /\ prevIDs'[3] = IF job'.id > 3 THEN job'.id - 3 ELSE 0
    BY <1>2, <2>1, <2>2
  <2>4. \A i \in 1 .. 3 : i = 1 \/ i = 2 \/ i = 3
    OBVIOUS
  <2> QED
    BY <2>3, <2>4 DEF IdsInv
<1>7. WindowInv'
  BY <1>1 DEF WindowInv
<1> QED
  BY <1>0, <1>3, <1>5, <1>6, <1>7 DEF ShareInv, TypeInv

\* A field that makes no job leaves jobs and window alone.
LEMMA NoJobStep ==
  ASSUME ShareInv, recv' \in AnyField, task' \in OpenTask,
         UNCHANGED <<job, prevIDs, due, miniResult, miniNonce, found, pending, wire>>
  PROVE  ShareInv'
<1>1. TypeInv /\ IdsInv /\ WindowInv
  BY DEF ShareInv
<1>2. TypeInv'
  BY <1>1 DEF TypeInv, WindowTypeOK, AnyField, OpenTask, Fields
<1>3. IdsInv' /\ WindowInv'
  BY <1>1 DEF IdsInv, WindowInv
<1> QED
  BY <1>2, <1>3 DEF ShareInv

\* Each field of the pool makes a job or none.
LEMMA FieldCases ==
  ASSUME NEW f \in Fields, HandleNotification(f)
  PROVE  \/ /\ recv' \in {NoField, f}
            /\ UNCHANGED <<job, prevIDs, due, miniResult, miniNonce, found>>
         \/ recv # NoField /\ recv' = NoField /\ HandleJob(CreateJob(f))
  BY DEF HandleNotification, IsOwnAddress

\* The fields of the pool: a hash that opens a task, a stray, the seed that ends it.
LEMMA PoolFieldStep == ShareInv /\ PoolField => ShareInv'
<1> SUFFICES ASSUME ShareInv, PoolField PROVE ShareInv'
  OBVIOUS
<1>1. job.id < MaxJobs /\ UNCHANGED <<pending, wire>> /\ task \in OpenTask
  BY DEF PoolField, ShareInv, TypeInv
<1>2. PICK f \in Fields : HandleNotification(f) /\ task' \in OpenTask
  <2>1. CASE \E h \in Hashes : LET g == [kind |-> "hash", of |-> h]
                               IN  task' = g /\ HandleNotification(g)
    BY <2>1 DEF Fields, OpenTask
  <2>2. CASE UNCHANGED task /\ \E k \in Strays : HandleNotification([kind |-> k])
    BY <1>1, <2>2 DEF Fields
  <2>3. CASE /\ task # NoField /\ task' = NoField
             /\ HandleNotification([kind |-> "seed", of |-> task.of])
    BY <1>1, <2>3 DEF Fields, OpenTask
  <2> QED
    BY <2>1, <2>2, <2>3 DEF PoolField
<1>3. CASE /\ recv' \in {NoField, f}
           /\ UNCHANGED <<job, prevIDs, due, miniResult, miniNonce, found>>
  BY <1>1, <1>2, <1>3, NoJobStep DEF AnyField
<1>4. CASE recv' = NoField /\ HandleJob(CreateJob(f))
  BY <1>1, <1>2, <1>4, NewJobStep
<1> QED
  BY <1>2, <1>3, <1>4, FieldCases

-----------------------------------------------------------------------------
(* The invariant.                                                          *)

\* Inside the window the best share so far is kept.
LEMMA KeepShareStep ==
  ASSUME ShareInv, NEW s \in Shares, s.id = job.id, KeepShare(s), pending' = NoShare,
         UNCHANGED <<task, recv, job, prevIDs>>
  PROVE  ShareInv'
<1>1. TypeInv /\ WindowTypeOK /\ IdsInv /\ WindowInv
  BY DEF ShareInv, TypeInv
<1>2. /\ found' = found \cup {s} /\ UNCHANGED <<wire, due>>
      /\ \/ s.result < miniResult /\ miniResult' = s.result /\ miniNonce' = s.nonce
         \/ ~(s.result < miniResult) /\ UNCHANGED <<miniResult, miniNonce>>
  BY DEF KeepShare
<1>3. /\ miniResult \in Nat /\ miniResult <= MaxResult /\ s.result \in Nat
      /\ \A t \in found : t.result \in Nat
  <2>1. miniResult \in Results \cup {MaxResult} /\ found \subseteq Shares
    BY <1>1 DEF WindowTypeOK
  <2> QED
    BY <2>1, ShareTypes
<1>4. TypeInv'
  <2>1. miniResult' \in Results \cup {MaxResult} /\ miniNonce' \in Nonces \cup {0}
    BY <1>1, <1>2, ShareTypes DEF WindowTypeOK
  <2> QED
    BY <1>1, <1>2, <2>1 DEF TypeInv, WindowTypeOK
<1>5. IdsInv'
  BY <1>1 DEF IdsInv
<1>6. WindowInv'
  <2>1. \A t \in found' : t.id = job.id /\ miniResult' <= t.result
    BY <1>1, <1>2, <1>3 DEF WindowInv
  <2>2. miniResult' < MaxResult =>
          \E u \in found' : u.result = miniResult' /\ u.nonce = miniNonce'
    BY <1>1, <1>2, <1>3 DEF WindowInv
  <2> QED
    BY <2>1, <2>2 DEF WindowInv
<1> QED
  BY <1>4, <1>5, <1>6 DEF ShareInv

\* A share that is sent starts an empty window.
LEMMA SendShareStep ==
  ASSUME ShareInv, pending \in Shares, pending # NoShare, SendShare(pending),
         pending' = NoShare,
         UNCHANGED <<task, recv, job, prevIDs>>
  PROVE  ShareInv'
<1>1. TypeInv /\ WindowTypeOK /\ IdsInv /\ job \in Jobs /\ wire \in Seq(WireShares)
  BY DEF ShareInv, TypeInv
<1>2. /\ wire' = Append(wire, WireShare(pending))
      /\ miniResult' = MaxResult /\ due' = FALSE /\ found' = {} /\ miniNonce' = miniNonce
  BY DEF SendShare
<1>3. WireShare(pending) \in WireShares
  BY <1>1, ShareTypes DEF WireShare, WireShares, Jobs, WindowTypeOK
<1>4. wire' \in Seq(WireShares) /\ Len(wire') = Len(wire) + 1
  BY <1>1, <1>2, <1>3
<1>5. Len(wire) < MaxWire
  BY <1>1 DEF TypeInv
<1>6. WindowTypeOK'
  <2>1. Len(wire') <= MaxWire
    BY <1>1, <1>4, <1>5
  <2>2. \A i \in 1 .. Len(wire') : wire'[i].nonce \in Nonces \cup {0}
    <3>1. \A w \in WireShares : w.nonce \in Nonces \cup {0}
      BY DEF WireShares
    <3>2. \A i \in 1 .. Len(wire') : wire'[i] \in WireShares
      BY <1>4
    <3> QED
      BY <3>1, <3>2
  <2>3. due' \in BOOLEAN
    BY <1>2
  <2> QED
    BY <1>1, <1>2, <2>1, <2>2, <2>3 DEF WindowTypeOK
<1>7. TypeInv'
  BY <1>1, <1>4, <1>6 DEF TypeInv
<1>8. IdsInv' /\ WindowInv'
  BY <1>1, <1>2 DEF IdsInv, WindowInv
<1> QED
  BY <1>7, <1>8 DEF ShareInv

\* A handled share keeps the window the best of its shares.
LEMMA HandleSubmitStep == ShareInv /\ HandleSubmit => ShareInv'
<1> SUFFICES ASSUME ShareInv, HandleSubmit PROVE ShareInv'
  OBVIOUS
<1>1. pending \in Shares /\ pending # NoShare /\ pending' = NoShare
      /\ UNCHANGED <<task, recv, job, prevIDs>>
  BY DEF HandleSubmit, ShareInv, TypeInv, WindowTypeOK
<1>2. CASE pending.id = job.id /\ SendShare(pending)
  BY <1>1, <1>2, SendShareStep
<1>3. CASE pending.id = job.id /\ KeepShare(pending)
  BY <1>1, <1>3, KeepShareStep
<1>4. CASE UNCHANGED <<due, miniResult, miniNonce, wire, found>>
  <2>1. TypeInv'
    BY <1>1, <1>4 DEF ShareInv, TypeInv, WindowTypeOK
  <2>2. IdsInv' /\ WindowInv'
    BY <1>1, <1>4 DEF ShareInv, IdsInv, WindowInv
  <2> QED
    BY <2>1, <2>2 DEF ShareInv
<1> QED
  BY <1>2, <1>3, <1>4 DEF HandleSubmit

\* NewProxy establishes the invariant.
LEMMA ShareInitially == WindowInit => ShareInv
<1> SUFFICES ASSUME WindowInit PROVE ShareInv
  OBVIOUS
<1>1. job = NoJob /\ prevIDs = <<0, 0, 0>> /\ found = {} /\ miniResult = MaxResult
      /\ wire = <<>> /\ pending = NoShare /\ task = NoField /\ recv = NoField /\ miniNonce = 0
  BY DEF WindowInit
<1>2. job \in Jobs /\ job.id = 0
  BY <1>1 DEF NoJob, Jobs, AnyField
<1>3. prevIDs \in [1 .. 3 -> 0 .. MaxJobs] /\ \A i \in 1 .. 3 : prevIDs[i] = 0
  BY <1>1
<1>4. due \in BOOLEAN
  BY DEF WindowInit
<1>5. WindowTypeOK
  BY <1>1, <1>2, <1>3, <1>4 DEF WindowTypeOK, NoJob
<1>6. TypeInv
  BY <1>1, <1>2, <1>5 DEF TypeInv, OpenTask
<1>7. IdsInv /\ WindowInv
  BY <1>1, <1>2, <1>3 DEF IdsInv, WindowInv
<1> QED
  BY <1>6, <1>7 DEF ShareInv

\* The invariant is inductive.
LEMMA ShareStep == ShareInv /\ [WindowNext]_vars => ShareInv'
<1> SUFFICES ASSUME ShareInv, [WindowNext]_vars PROVE ShareInv'
  OBVIOUS
<1>1. CASE PoolField
  BY <1>1, PoolFieldStep
<1>2. ASSUME NEW s \in Shares, Submit(s) PROVE ShareInv'
  <2>1. TypeInv'
    BY <1>2 DEF ShareInv, TypeInv, WindowTypeOK, Submit
  <2>2. IdsInv' /\ WindowInv'
    BY <1>2 DEF ShareInv, IdsInv, WindowInv, Submit
  <2> QED
    BY <2>1, <2>2 DEF ShareInv
<1>3. CASE HandleSubmit
  BY <1>3, HandleSubmitStep
<1>4. CASE Tick
  <2>1. TypeInv'
    BY <1>4 DEF ShareInv, TypeInv, WindowTypeOK, Tick
  <2>2. IdsInv' /\ WindowInv'
    BY <1>4 DEF ShareInv, IdsInv, WindowInv, Tick
  <2> QED
    BY <2>1, <2>2 DEF ShareInv
<1>5. CASE UNCHANGED vars
  <2>1. TypeInv'
    BY <1>5 DEF ShareInv, TypeInv, WindowTypeOK, vars
  <2>2. IdsInv' /\ WindowInv'
    BY <1>5 DEF ShareInv, IdsInv, WindowInv, vars
  <2> QED
    BY <2>1, <2>2 DEF ShareInv
<1> QED
  BY <1>1, <1>2, <1>3, <1>4, <1>5 DEF WindowNext

\* The inductive invariant of the handlers of fields and shares: types, the ids
\* behind the current one, and what miniResult and miniNonce stand for.
THEOREM WindowInvariant == WindowSpec => []ShareInv
  BY ShareInitially, ShareStep, PTL DEF WindowSpec

\* The variables of the handlers keep the types of Proxy's fields.
THEOREM WindowTypes == WindowSpec => []WindowTypeOK
<1>1. ShareInv => WindowTypeOK
  BY DEF ShareInv, TypeInv
<1> QED
  BY <1>1, WindowInvariant, PTL

\* Submit admits the last four jobs and no other, whatever the number of jobs that
\* handleJob has made.
THEOREM WindowLastFourJobs == WindowSpec => []LastFourJobs
<1>1. ASSUME ShareInv PROVE LastFourJobs
  <2>1. job.id \in 0 .. MaxJobs
    BY <1>1 DEF ShareInv, TypeInv, WindowTypeOK
  <2>2. /\ prevIDs[1] = IF job.id > 1 THEN job.id - 1 ELSE 0
        /\ prevIDs[2] = IF job.id > 2 THEN job.id - 2 ELSE 0
        /\ prevIDs[3] = IF job.id > 3 THEN job.id - 3 ELSE 0
    BY <1>1 DEF ShareInv, IdsInv
  <2>3. \A id : (\E i \in 1 .. 3 : prevIDs[i] = id)
                  <=> id \in {prevIDs[1], prevIDs[2], prevIDs[3]}
    <3>1. 1 .. 3 = {1, 2, 3}
      OBVIOUS
    <3> QED
      BY <3>1
  <2>4. ASSUME NEW id \in 1 .. MaxJobs
        PROVE  Admitted(id) <=> id <= job.id /\ job.id <= id + 3
    <3>1. Admitted(id) <=> id \in {job.id, prevIDs[1], prevIDs[2], prevIDs[3]}
      BY <2>3, <2>4 DEF Admitted, Fake
    <3> QED
      BY <2>1, <2>2, <3>1, <2>4
  <2> QED
    BY <2>4 DEF LastFourJobs
<1> QED
  BY <1>1, WindowInvariant, PTL

\* A step that sends a share sends the best one of the window.
LEMMA SendsBest ==
  ASSUME ShareInv, pending \in Shares, pending.id = job.id, SendShare(pending)
  PROVE  LET w == wire'[Len(wire')]
             window == found \cup {pending}
         IN  /\ w.id = job.id
             /\ (\E t \in window : t.result < MaxResult) =>
                  \E s \in window : /\ s.id = job.id /\ s.nonce = w.nonce
                                    /\ \A t \in window : s.result <= t.result
<1> DEFINE w == wire'[Len(wire')]
           window == found \cup {pending}
<1>1. w = WireShare(pending)
  <2>1. wire \in Seq(WireShares) /\ wire' = Append(wire, WireShare(pending))
    BY DEF ShareInv, TypeInv, SendShare
  <2> QED
    BY <2>1
<1>2. w.id = job.id /\ w.nonce = IF pending.result < miniResult THEN pending.nonce ELSE miniNonce
  BY <1>1 DEF WireShare
<1>3. /\ miniResult \in Nat /\ miniResult <= MaxResult
      /\ \A t \in window : t.result \in Nat /\ t.id = job.id
      /\ \A t \in found : miniResult <= t.result
  <2>1. /\ miniResult \in Results \cup {MaxResult} /\ found \subseteq Shares
        /\ \A t \in found : t.id = job.id /\ miniResult <= t.result
    BY DEF ShareInv, TypeInv, WindowTypeOK, WindowInv
  <2> QED
    BY <2>1, ShareTypes
<1> HIDE DEF w
<1>4. ASSUME \E t \in window : t.result < MaxResult
      PROVE  \E s \in window : /\ s.id = job.id /\ s.nonce = w.nonce
                               /\ \A t \in window : s.result <= t.result
  <2>1. CASE pending.result < miniResult
    <3>1. \A t \in window : pending.result <= t.result
      BY <1>3, <2>1
    <3> QED
      BY <1>2, <2>1, <3>1
  <2>2. CASE ~(pending.result < miniResult)
    <3>1. miniResult < MaxResult
      BY <1>3, <1>4, <2>2
    <3>2. PICK s \in found : s.result = miniResult /\ s.nonce = miniNonce
      BY <3>1 DEF ShareInv, WindowInv
    <3>3. \A t \in window : s.result <= t.result
      BY <1>3, <2>2, <3>2
    <3> QED
      BY <1>2, <1>3, <2>2, <3>2, <3>3
  <2> QED
    BY <2>1, <2>2
<1> QED
  BY <1>2, <1>4 DEF w

\* Every share sent to the pool is for the current job and the best found for it since
\* the last one, although handleJob leaves miniNonce as it was.
THEOREM WindowSendsBest == WindowSpec => BestOfWindow
<1> DEFINE Best ==
      wire' # wire =>
        LET w == wire'[Len(wire')]
            window == found \cup {pending}
        IN  /\ w.id = job.id
            /\ (\E t \in window : t.result < MaxResult) =>
                 \E s \in window : /\ s.id = job.id /\ s.nonce = w.nonce
                                   /\ \A t \in window : s.result <= t.result
<1>1. ASSUME ShareInv, [WindowNext]_vars PROVE [Best]_vars
  <2> SUFFICES ASSUME wire' # wire PROVE Best
    OBVIOUS
  <2>1. HandleSubmit
    <3>1. ~PoolField /\ ~Tick /\ ~UNCHANGED vars /\ \A s \in Shares : ~Submit(s)
      BY DEF PoolField, Tick, vars, Submit
    <3> QED
      BY <1>1, <3>1 DEF WindowNext
  <2>2. pending.id = job.id /\ SendShare(pending)
    BY <2>1 DEF HandleSubmit, KeepShare
  <2>3. pending \in Shares
    BY <1>1, <2>1 DEF HandleSubmit, ShareInv, TypeInv, WindowTypeOK
  <2> QED
    BY <1>1, <2>2, <2>3, SendsBest
<1> QED
  BY <1>1, WindowInvariant, PTL DEF WindowSpec, BestOfWindow

-----------------------------------------------------------------------------
(* The pairing of fields.                                                  *)

Address == [kind |-> "addressBalance"]

\* The first field kept is that of the open task, or the address between two tasks.
PairInv ==
  /\ task \in OpenTask
  /\ recv = task \/ recv = NoField \/ (task = NoField /\ recv = Address)
  /\ PairingRecovers

\* A field that completes a job after the address.
LEMMA AfterAddress ==
  ASSUME PairInv, recv = Address, NEW f, HandleNotification(f), task' \in OpenTask
  PROVE  PairInv'
<1>1. PairingRecovers
  BY DEF PairInv
<1>2. /\ recv' = NoField
      /\ job' = job \/ job' = [id |-> job.id + 1, hash |-> Address, seed |-> f]
  BY DEF HandleNotification, IsOwnAddress, HandleJob, CreateJob, Address, NoField
<1>3. PairingRecovers'
  <2>1. CASE job' = job
    BY <1>1, <2>1 DEF PairingRecovers
  <2>2. CASE job' = [id |-> job.id + 1, hash |-> Address, seed |-> f]
    <3>1. job'.hash.kind = "addressBalance"
      BY <2>2 DEF Address
    <3> QED
      BY <3>1 DEF PairingRecovers
  <2> QED
    BY <1>2, <2>1, <2>2
<1> QED
  BY <1>2, <1>3 DEF PairInv

\* A first field is kept or ignored.
LEMMA FirstField ==
  ASSUME recv = NoField, NEW f, HandleNotification(f)
  PROVE  job' = job /\ recv' = IF EndsInZero(f) THEN NoField ELSE f
  BY DEF HandleNotification, IsOwnAddress

\* Whatever fields the pool sends between its tasks, the address with its balance
\* spoils only the job it starts: every job that starts with the hash of a task has
\* the seed of this task, and none starts with a seed or with the fake balance.
THEOREM WindowPairingRecovers == WindowSpec => []PairingRecovers
<1>1. WindowInit => PairInv
  BY DEF WindowInit, PairInv, OpenTask, PairingRecovers
<1>2. ASSUME PairInv, PoolField PROVE PairInv'
  <2>1. /\ task \in OpenTask /\ PairingRecovers
        /\ recv = task \/ recv = NoField \/ (task = NoField /\ recv = Address)
    BY <1>2 DEF PairInv
  <2>2. ASSUME task = NoField, NEW h \in Hashes, task' = [kind |-> "hash", of |-> h],
               HandleNotification([kind |-> "hash", of |-> h])
        PROVE  PairInv'
    <3>0. task' \in OpenTask
      BY <2>2 DEF OpenTask
    <3>1. CASE recv = Address
      BY <1>2, <2>2, <3>0, <3>1, AfterAddress
    <3>2. CASE recv = NoField
      <4>1. recv' = task' /\ job' = job
        BY <2>2, <3>2, FirstField DEF EndsInZero
      <4> QED
        BY <2>1, <3>0, <4>1 DEF PairInv, PairingRecovers
    <3> QED
      BY <2>1, <2>2, <3>1, <3>2
  <2>3. ASSUME task = NoField, task' = task, NEW k \in Strays, HandleNotification([kind |-> k])
        PROVE  PairInv'
    <3>0. task' \in OpenTask
      BY <2>1, <2>3
    <3>1. CASE recv = Address
      BY <1>2, <2>3, <3>0, <3>1, AfterAddress
    <3>2. CASE recv = NoField
      <4>1. k = "zeroBalance" \/ k = "addressBalance"
        OBVIOUS
      <4>2. recv' \in {NoField, Address} /\ job' = job
        BY <2>3, <3>2, <4>1, FirstField DEF EndsInZero, Address
      <4> QED
        BY <2>1, <2>3, <3>0, <4>2 DEF PairInv, PairingRecovers
    <3> QED
      BY <2>1, <2>3, <3>1, <3>2
  <2>4. ASSUME task # NoField, task' = NoField,
               HandleNotification([kind |-> "seed", of |-> task.of])
        PROVE  PairInv'
    <3>0. task' \in OpenTask /\ task.kind = "hash"
      BY <2>1, <2>4 DEF OpenTask
    <3>1. CASE recv = NoField
      <4>1. recv' = NoField /\ job' = job
        BY <2>4, <3>1, FirstField DEF EndsInZero
      <4> QED
        BY <2>1, <3>0, <4>1 DEF PairInv, PairingRecovers
    <3>2. CASE recv = task
      <4>1. /\ recv' = NoField
            /\ \/ job' = job
               \/ job' = [id |-> job.id + 1, hash |-> task, seed |-> [kind |-> "seed", of |-> task.of]]
        BY <2>4, <3>2 DEF HandleNotification, IsOwnAddress, HandleJob, CreateJob
      <4>2. PairingRecovers'
        BY <2>1, <3>0, <4>1 DEF PairingRecovers
      <4> QED
        BY <3>0, <4>1, <4>2 DEF PairInv
    <3> QED
      BY <2>1, <2>4, <3>1, <3>2
  <2> QED
    BY <1>2, <2>2, <2>3, <2>4 DEF PoolField
<1>3. PairInv /\ [WindowNext]_vars => PairInv'
  <2>1. ASSUME PairInv, UNCHANGED <<task, recv, job>> PROVE PairInv'
    BY <2>1 DEF PairInv, PairingRecovers
  <2>2. [WindowNext]_vars => PoolField \/ UNCHANGED <<task, recv, job>>
    BY DEF WindowNext, Submit, HandleSubmit, Tick, vars
  <2> QED
    BY <1>2, <2>1, <2>2
<1>4. PairInv => PairingRecovers
  BY DEF PairInv
<1> QED
  BY <1>1, <1>3, <1>4, PTL DEF WindowSpec
=============================================================================
