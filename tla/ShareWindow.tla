----------------------------- MODULE ShareWindow -----------------------------
(***************************************************************************)
(* From pool fields to jobs and from shares to the pool: handleNotification*)
(* and handleJob pair the fields of the pool into jobs, Submit admits the  *)
(* shares of the last four jobs, and handleSubmit sends at most one share  *)
(* every four seconds, the best of those found meanwhile                   *)
(* (server/proxy/proxy.go, share.go, job.go).                              *)
(*                                                                         *)
(* These are the handlers themselves, one after another in Run; whether    *)
(* Run gets to them is the subject of ProxySession, and the race between   *)
(* handleJob and Submit that of JobIds.  Job ids are numbered              *)
(* in the order they are drawn (NewLen(28) repeats none).  NoID stands for *)
(* the empty string and for the random first PrevJobID, which no miner     *)
(* knows.  Of a task only the first field counts here; Getjob changes the  *)
(* last four bytes of the blob, which no share contains.                   *)
(***************************************************************************)
EXTENDS Naturals, Sequences

CONSTANTS
  Hashes,      \* first fields of the pool's tasks
  Strays,      \* kinds of other fields the pool sends between tasks
  Nonces,      \* nonces a miner finds
  Results,     \* their results, the smaller the better
  MaxResult,   \* math.MaxUint64
  MaxJobs,     \* bound: jobs drawn
  MaxWire      \* bound: shares sent to the pool

ASSUME WindowAssumption ==
  /\ Strays \subseteq {"zeroBalance", "addressBalance"}
  /\ MaxResult \in Nat /\ Results \subseteq 0 .. MaxResult
  /\ MaxJobs \in Nat /\ MaxWire \in Nat

NoID == 0
Fake == MaxJobs + 1     \* an id with the prefix FFFFFFFFFF
IDs == 0 .. Fake
Fields == [kind : {"hash", "seed"}, of : Hashes]
          \cup [kind : {"zeroBalance", "addressBalance"}]
NoField == [kind |-> "none"]
NoShare == [id |-> NoID]

Shares == [id : IDs, nonce : Nonces, result : Results, wellFormed : BOOLEAN]

VARIABLES
  task,        \* external: the task whose seed the pool has still to send
  recv,        \* recvByte[:32] while recvCount = 1, NoField while it is 0
  job,         \* currentJob: its id and the two fields it was built from
  prevIDs,     \* PrevJobID, BeforePrevJobID, BeforeBeforePrevJobID
  due,         \* four seconds have passed since lastSend
  miniResult, miniNonce,
  pending,     \* the share in the channel submissions
  wire,        \* the shares handed to SendBuffMsg, each with its blob's job
  found        \* history: shares of the current job since the last send

vars == <<task, recv, job, prevIDs, due, miniResult, miniNonce, pending, wire, found>>

NoJob == [id |-> NoID, hash |-> NoField, seed |-> NoField]

\* The handlers' variables have the types of Proxy's fields.
WindowTypeOK ==
  /\ task \in Fields \cup {NoField}
  /\ recv \in Fields \cup {NoField}
  /\ job.id \in 0 .. MaxJobs
  /\ {job.hash, job.seed} \subseteq Fields \cup {NoField}
  /\ prevIDs \in [1 .. 3 -> 0 .. MaxJobs]
  /\ due \in BOOLEAN
  /\ miniResult \in Results \cup {MaxResult}
  /\ miniNonce \in Nonces \cup {0}
  /\ pending \in Shares \cup {NoShare}
  /\ Len(wire) <= MaxWire
  /\ \A i \in 1 .. Len(wire) : wire[i].nonce \in Nonces \cup {0}
  /\ found \subseteq Shares

\* NewProxy.
WindowInit ==
  /\ task = NoField /\ recv = NoField
  /\ job = NoJob /\ prevIDs = <<NoID, NoID, NoID>>
  /\ due = FALSE
  /\ miniResult = MaxResult /\ miniNonce = 0
  /\ pending = NoShare /\ wire = <<>> /\ found = {}

-----------------------------------------------------------------------------
(* Fields from the pool.                                                   *)

\* Both the seed and the balance of the fake block end with 8 zero bytes.
EndsInZero(f) == f.kind \in {"seed", "zeroBalance"}

\* xdag.Hash2address(data) == p.address: the left side is the base64 text of 24
\* bytes, the right side is what base58.ChkDec accepted as the text of these
\* bytes and a checksum.  The field with the miner's own address is unequal.
IsOwnAddress(f) == FALSE

\* Mutant of HandleJob: no id is ever forgotten.
HandleJobForgetsNone(j) ==
  /\ prevIDs' = <<job.id>> \o prevIDs
  /\ job' = j
  /\ miniResult' = MaxResult /\ due' = FALSE /\ found' = {}
  /\ UNCHANGED miniNonce

\* Mutant of HandleJob: the best result of the last job is kept.
HandleJobKeepsMini(j) ==
  /\ prevIDs' = <<job.id, prevIDs[1], prevIDs[2]>>
  /\ job' = j
  /\ due' = FALSE /\ found' = {}
  /\ UNCHANGED <<miniResult, miniNonce>>

\* handleJob: the ids move on, the window starts again (miniNonce is left).
HandleJob(j) ==
  /\ prevIDs' = <<job.id, prevIDs[1], prevIDs[2]>>
  /\ job' = j
  /\ miniResult' = MaxResult /\ due' = FALSE /\ found' = {}
  /\ UNCHANGED miniNonce

\* CreateJob from the two fields, drawing a new id.
CreateJob(f) == [id |-> job.id + 1, hash |-> recv, seed |-> f]

\* Mutant of HandleNotification: a first field is taken whatever it ends with.
HandleNotificationAny(f) ==
  IF recv = NoField
    THEN recv' = f /\ UNCHANGED <<job, prevIDs, due, miniResult, miniNonce, found>>
    ELSE /\ recv' = NoField
         /\ IF job.hash = recv
              THEN UNCHANGED <<job, prevIDs, due, miniResult, miniNonce, found>>
              ELSE HandleJob(CreateJob(f))

\* handleNotification: a first field that does not end in zeroes is kept, the
\* next one completes the job.  A job on the same hash is not a new one.
HandleNotification(f) ==
  LET ignore == UNCHANGED <<job, prevIDs, due, miniResult, miniNonce, found>>
  IN  IF IsOwnAddress(f) THEN recv' = NoField /\ ignore
      ELSE IF recv = NoField
        THEN recv' = (IF EndsInZero(f) THEN NoField ELSE f) /\ ignore
        ELSE /\ recv' = NoField
             /\ IF job.hash = recv THEN ignore ELSE HandleJob(CreateJob(f))

\* External: the pool sends a task as two fields in a row, and strays between
\* tasks.
PoolField ==
  /\ job.id < MaxJobs
  /\ \/ /\ task = NoField
        /\ \E h \in Hashes : LET f == [kind |-> "hash", of |-> h]
                             IN  task' = f /\ HandleNotification(f)
     \/ /\ task = NoField /\ UNCHANGED task
        /\ \E k \in Strays : HandleNotification([kind |-> k])
     \/ /\ task # NoField /\ task' = NoField
        /\ HandleNotification([kind |-> "seed", of |-> task.of])
  /\ UNCHANGED <<pending, wire>>

-----------------------------------------------------------------------------
(* Shares from the miner.                                                  *)

\* The ids Submit admits.
Admitted(id) == id # NoID /\ (id \in {job.id, Fake} \/ \E i \in 1 .. 3 : prevIDs[i] = id)

\* Submit: one at a time (connMu); an id it does not admit is an error.
Submit(s) ==
  /\ pending = NoShare /\ Len(wire) < MaxWire
  /\ Admitted(s.id)
  /\ pending' = s
  /\ UNCHANGED <<task, recv, job, prevIDs, due, miniResult, miniNonce, wire, found>>

\* The share that goes to the pool: CreateShare if the new one is the best of
\* the window, MakeShare from miniNonce otherwise, both on the current blob.
WireShare(s) ==
  [id |-> job.id, nonce |-> IF s.result < miniResult THEN s.nonce ELSE miniNonce]

SendShare(s) ==
  /\ wire' = Append(wire, WireShare(s))
  /\ miniResult' = MaxResult /\ due' = FALSE /\ found' = {}
  /\ UNCHANGED miniNonce

\* A share inside the window is only remembered if it beats the best.
KeepShare(s) ==
  /\ IF s.result < miniResult
       THEN miniResult' = s.result /\ miniNonce' = s.nonce
       ELSE UNCHANGED <<miniResult, miniNonce>>
  /\ found' = found \cup {s}
  /\ UNCHANGED <<wire, due>>

\* share.validate at the default level ValidateFormat: sizes and hex digits.
validateFormat(s) == s.wellFormed

\* A share of the current or of the previous job, of the right format.
validateShare(s) == s.id \in {job.id, prevIDs[1]} /\ validateFormat(s)

\* handleSubmit: a share of an earlier job or of the fake one is only counted,
\* one of the current job is validated first.
HandleSubmit ==
  /\ pending # NoShare
  /\ pending' = NoShare
  /\ IF pending.id = job.id /\ validateShare(pending)
       THEN IF due THEN SendShare(pending) ELSE KeepShare(pending)
       ELSE UNCHANGED <<due, miniResult, miniNonce, wire, found>>
  /\ UNCHANGED <<task, recv, job, prevIDs>>

\* Four seconds pass.
Tick ==
  /\ ~due /\ due' = TRUE
  /\ UNCHANGED <<task, recv, job, prevIDs, miniResult, miniNonce, pending, wire, found>>

WindowNext ==
  \/ PoolField
  \/ \E s \in Shares : Submit(s)
  \/ HandleSubmit
  \/ Tick

WindowSpec == WindowInit /\ [][WindowNext]_vars

-----------------------------------------------------------------------------
(* Properties.                                                             *)

\* Every job is one task of the pool: its hash and the seed that came with it.  The
\* comment on the first branch of handleNotification claims that the field with the
\* miner's own address and balance is ignored as well as the fake block's.
JobsAreTasks ==
  job # NoJob => /\ job.hash.kind = "hash" /\ job.seed.kind = "seed"
                 /\ job.seed.of = job.hash.of

\* The address field, which is not recognised, spoils the job it starts and no
\* other: whatever strays came before, a job that starts with the hash of a task
\* has the seed of this task, and no job starts with a seed or the fake balance.
PairingRecovers ==
  job # NoJob => \/ /\ job.hash.kind = "hash" /\ job.seed.kind = "seed"
                    /\ job.seed.of = job.hash.of
                 \/ job.hash.kind = "addressBalance"

\* The three remembered ids are the three jobs before the current one, so that
\* Submit admits exactly the last four jobs and the fake one.
LastFourJobs ==
  \A id \in 1 .. MaxJobs : Admitted(id) <=> id <= job.id /\ job.id <= id + 3

\* Every share sent to the pool is for the task the miner works on now and is
\* the best found for it since the last one was sent, although handleJob leaves
\* miniNonce as it was and a share may outlive its job in the channel.  (With
\* nothing but results of 2^64 - 1 the old miniNonce would be sent.)
BestOfWindow ==
  [][wire' # wire =>
       LET w == wire'[Len(wire')]
           window == found \cup {pending}
       IN  /\ w.id = job.id
           /\ (\E t \in window : t.result < MaxResult) =>
                \E s \in window : /\ s.id = job.id /\ s.nonce = w.nonce
                                  /\ \A t \in window : s.result <= t.result]_vars
=============================================================================
