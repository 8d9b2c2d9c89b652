# A TLA+ model of xmrig2xdag

xmrig2xdag lets XMRig miners work for an XDAG pool. It speaks JSON-RPC (stratum)
to each miner, a binary protocol of 32-byte fields to the pool, and keeps one
pool connection for each miner. The modules here model the part of it in which
concurrency decides whether it works: the session of a miner and its goroutines,
the JSON-RPC connection to the miner, the pool connection, the pairing of fields
into jobs and of shares into windows, the numbers in a job, the detector of a
recovered pool, the tables of the program, and the stratum client. Paths below are
relative to `src/server/`.

## The system

| Part | Source | State | Operations | Talks to |
|---|---|---|---|---|
| TCP server, worker | `tcp/server.go`, `tcp/worker.go` | miner's socket, `Worker.p` | `SpawnWorker`, `NewJob`, `Disconnect`, `RemoveProxy`, `Close` | codec, proxy |
| JSON-RPC codec | `stratum/codec.go`, `stratum/server.go` | `seq`, `pending`, encoder | `ReadRequestHeader`, `WriteResponse`, `Notify` | miner, `Mining` |
| RPC methods | `proxy/mining.go` | none | `Login`, `Getjob`, `Submit`, `Keepalived` | worker, proxy |
| Proxy | `proxy/proxy.go` | `connMu`, `jobMu`, `isClosed`, channels `submissions`, `notify`, `done`, jobs, share window | `Run`, `connect`, `handleNotification`, `handleJob`, `broadcastJob`, `Submit`, `handleSubmit`, `shutdown`, `Close`, `Remove` | all of these |
| Pool connection | `xdag/connect.go` | socket, `msgBuffChan`, context, `isClosed` under an RWMutex, the global `PoolDown` | `StartReader`, `StartWriter`, `Start`, `Stop`, `Close`, `SendBuffMsg` | pool, proxy (`notify`) |
| Shares, jobs | `proxy/share.go`, `proxy/job.go` | `currentJob`, three earlier ids, `miniResult`, `miniNonce`, `lastSend` | `CreateJob`, `validate`, `CreateShare`, `MakeShare`, `Next`, `setTarget` | |
| Detector | `proxy/detect.go` | a proxy with ID 0, `poolIsDown` | a ten minute ticker | `Run`, `PoolDown` |
| Director | `proxy/director.go` | table of proxies, `deleteShares`, `lastTotalShares` | `addProxy`, `removeProxy`, `GetStats` | SafeMap, proxies |
| SafeMap | `utils/safemap.go` | two Go maps, two counters | `Set`, `Del`, `Get`, `Range` | Director, codec |
| Stratum client | `stratum/client.go` (nothing uses it) | `pending`, `notifications`, the tables of `net/rpc` | `Call`, `Notify`, `WriteRequest`, `ReadResponseHeader`, `ReadResponseBody` | a stratum server |
| Others | `base58/`, `xdag/block.go`, `xdag/time.go`, `proxy/uniuri.go`, `config/`, `logger/`, `main.go` | | pure functions, input and output | |

What one miner's session runs at the same time: the goroutine of `SpawnWorker`
(inside `ServeCodec`), one goroutine for each request in flight, `Run`, and the
reader and the writer of the pool connection. They share `connMu`, the RWMutex of
the connection, an unbuffered channel (`submissions`), two buffered ones
(`notify`, `msgBuffChan`), and three places close everything: `shutdown` (by
`Run`), `Close` (by a refused login) and `Remove` (when the miner leaves). Across
sessions there are two counters, `poolIsDown` and `xdag.PoolDown`.

What is hard here: channels closed under a sender, locks held over channel
operations, `Worker.p` set to nil without a lock, goroutines that must end when
somebody else closed what they use, counters of failures that mean different
things, and recovery code that runs only after an outage. `PROJECT.json` lists
these hazards line by line, each with the properties that watch it.

## The modules

`PoolConnection` (`xdag/connect.go`) is one connection: `rd` and `wr` are the
program counters of the goroutines, `pend` is the packet a `SendBuffMsg` is
waiting to send. `Lock()` is held only over code that does not block, so a step
that takes it is one action guarded by `~RLocked`; `RLock()` is held over channel
sends, and is implied by the control states that hold it. A Go RWMutex makes a
new `RLock()` wait behind a waiting `Lock()`: the model lets the `RLock()` go
first or wait (`LockWaiting`), that is, it allows the step and does not promise it.
A send on a closed channel or a second `close` sets `chanPanic`. The owner of the
connection is an environment that uses it as `Proxy` does.

`ProxySession` (`proxy.go`, `mining.go`, `worker.go`) EXTENDS `PoolConnection`
and replaces that environment by the code: `Run` step by step, the requests
`Login`, `Getjob` and `Submit`, `SpawnWorker`, the three ways to close, and other
sessions as changes of the two counters. `connMu` names its holder. A handler that
waits with a lock held has a control state for the wait; everything else in it is
one action. `notifyOpen` stands for `done`, `notify` and `submissions`, which are
closed together. `handleNotification` is reduced to whether it broadcasts.
`cl` is only 0 or 2: nobody sends on `done`, and no error contains "banned". A
miner sends any request at any time, before, with and after its login, and after a
login that was refused. One request is left out: a second login that would be
accepted while another login is in flight or a `Run` has been started (see *Not
modelled*).

`ShareWindow` (`proxy.go`, `share.go`) is what the handlers do with the data, one
handler after another: fields into jobs, ids into the list of admitted ids, shares
into the four second window. It says what these handlers do when they run; that
`handleSubmit` at present waits forever for `connMu` is the finding of
`share_answered`. `p.Conn` is present. Jobs are numbered instead of named at
random, a task is its first field, and a result is a small number compared as the
code compares 64-bit ones. Each handler is one step there; `JobIds` takes the one
pair that really interleaves apart: `handleJob` stores the four job ids under `jobMu`
while `Submit` compares them under `connMu`, so every store (of a string: both of its
words) and every comparison is a step.

`JobIssue` (`job.go`, `proxy.go`) is the numbers in a job: the nonce at which the
next job for a task starts, and the target, which is scaled by the time that the
miner's shares took. `inWindow` and `issued` are history variables: what really
happened, against which the code's counters are compared. A word has two digits of
`Base` instead of four bytes; `blob` is the nonce as `PutUint32` writes it, and
`FreshRange` is about the numbers read back from the blobs, most significant digit
first. A target is the upper half of the 64 bits the code computes with. What Go
leaves to the implementation in the conversion of a float64 that does not fit is a
constant of the build (`OverflowTarget`, `NaNTarget`).

`ServerCodec` (`stratum/codec.go`, `stratum/server.go`) is one miner's JSON-RPC
connection: `loop` is the goroutine of `ServeCodec`, `call[k]` the goroutine of the
request with sequence number `k`, `run` the proxy's `Run`, which writes jobs on the
same encoder. `pending` is a map in the sense of `KeyMap`, which `SafeMap` is shown
to implement. `net/rpc` is external and modelled as the codec meets it: it holds a
mutex (`sending`) around `WriteResponse` and waits for the requests in flight before
it closes the codec. A request without an id is kept as a nil pointer in an
interface value, so the test `b == nil` ("Notification. Do not respond.",
`codec.go:128`) does not find it and it is answered with the id null (`WrittenId`):
the finding of `notifications_unanswered`. `Encode` is one step, because an encoder
hands each message to the socket in one `Write`.

`StratumClient` (`stratum/client.go`) is `Client.Call` with its timeout, the codec,
and `net/rpc`'s `Client` as external: its sequence numbers, its table of calls and
its goroutine `input`. The params of a call decide what its `WriteRequest` does: they
are refused before anything is kept, fail in the encoder after the call was entered
in `pending`, or are written. `Leftovers` is what a decoder made anew for each message
does to messages that arrive together. The server sends, in any order, answers that
fit or do not, repeated or late ones, errors, and notifications.

`PoolDetect` (`detect.go` and the branches of `proxy.go` for the detect proxy) is
the ticker, the `Run`s it starts on one shared proxy, and the pool going up and
down. `Director` is the share accounting; `GetStats` is split where other
goroutines can come between. `SafeMap` is the two-map structure, `KeyMap` the map
it promises to be. `MC...` modules are the instances TLC checks and
`...Proofs` modules hold the theorems. Definitions called "Mutant of ..." are
deliberately wrong forms of the definition below them; they are used by nothing
and show that the properties can fail.

## What TLC checks

| Run | Instance | States | Shows |
|---|---|---|---|
| `connection` | capacities 2 and 2 | 8,896 | senders see open channels; a torn down connection ends both goroutines; `Stop` hangs only while a send under the RLock finds no room in its channel |
| `session` | two requests in flight, one retry, `notify` of 1, other sessions active | 3,195,578 | no channel panic, no pool connection left behind, no false alarm about the pool, a nil `Worker.p` is met only after `shutdown(2)` or a refused login, refinement of `PoolConnection`; outside the four deadlocks below the holder of `connMu` can go on |
| `session_live` | one request, no retry, `notify` of 1 | 77,145 | a closed session ends; a departed miner's session ends and its requests return, except in the four deadlocks below |
| `shares`, window | two tasks, both strays, three jobs, two shares sent | 2,612,496 | a stray field spoils at most the job it starts; the best share of the window is sent |
| `shares`, ids | six jobs | 1,625 | stores and comparisons of the job ids in any order: none of the last four jobs is refused, no other admitted |
| `shares`, director | three proxies, two shares each | 616,708 | no share lost, no report short, the difference wraps only after a report that overlapped a removal |
| `shares`, map | four keys, thresholds 2 | 4,082 | no key in both maps; implements `KeyMap` |
| `timers`, detect | two `Run`s, three retries | 5,440 | the detector reconnects, although the `Run` of a former tick may still be at work on the same proxy |
| `timers`, jobs | words of 36, ranges of 6, first target after 3 shares, amd64 | 58,464 | no range of nonces is given out twice; the target is scaled by the shares of its own period; a miner that falls silent for good ends with an easy target |
| `codec` | two requests, two ids, one job | 44,844 | a request is answered at most once, and under its own id if it has one; `pending` is exactly the unanswered requests, also when a malformed message ends the connection; a connection whose reading failed is closed |
| `client` | two callers, a buffer of one, two messages | 420,539 | a call is completed only by its own answer; a waiting call is in both tables; the reader never waits for the consumer of notifications; every call returns |

`shares` and `timers` each check several parts that share no state: a behaviour of
theirs is one of one part (the variable `part`), under the fairness of this part, with
the others at rest in an initial state.

Five runs state what a comment of the code says and find that the code does not do
it; `PROJECT.json` quotes the comments.

- `share_answered`: `Submit` ("Safe for concurrent use") holds `connMu` while it
  waits for `Run`, and `handleSubmit` takes `connMu`: the share is not answered.
- `miners_restored`: the detector's recovery branch compares `p.address` with
  `detectProxy`, but `PoolDetect` stored `detectAddr`; `poolIsDown` stays set.
- `balance_ignored`: the field "address with balance" is compared as base64 text with
  a base58check address and is never recognised (`IsOwnAddress`), so a job is built
  from it and the hash of the next task. `PairingRecovers` says how far the damage
  goes: the seed left over ends in zeroes and is skipped, and the next task is whole.
- `notifications_unanswered`: a request without an id is answered.
- `ids_race`: the race for the job ids, of which the code says that "it shouldn't
  matter". It does not change what is admitted (`RaceHarmless`). But a string is two
  words, and while the ids of a proxy still change between an id and the empty
  string, a comparison can meet the length of the one with the pointer of the other.

Three more things that a reader of the code should know, and where they appear in
the models:

- `Remove` ("safe for concurrent use") is called by `broadcastJob`, through `NewJob`
  and `Disconnect`, with `connMu` held, and can wait for a reader that waits for `Run`
  that waits for `connMu`: `SelfCycle` and `ConnCycle` below.
- `Worker.p` becomes nil in two ways that others can meet: `shutdown(2)` sets it under
  `Submit`, `Getjob` or `Disconnect`, and a refused login (`RemoveProxy`) sets it and
  leaves the miner's connection open, so that a request sent with it or after it is
  served without a proxy. `NilAfterRelease` says that these are the only two, and that
  `Disconnect` is exposed to the first only.
- A target of 0 is left again only if the build converts NaN to something else. With
  amd64's 2^63 `SilentMinerEased` holds; with `NaNTarget = 0`, what arm64 gives, TLC
  refutes it.

The four deadlocks of `Wedged`, which `HolderGoesOn` shows to be the only ways in which
the holder of `connMu` waits for something that does not come, and `session_live` the
only reasons why a session does not end: `SubmitCycle` (`Submit` and `Run`), `SelfCycle` (`broadcastJob` and
`Remove` in one goroutine), `ConnCycle` (`Remove`, reader, `Run`) and `SendCycle`
(`connect`'s `SendBuffMsg` behind a stopping writer, the reader on a full `notify`,
and `Run`, which reads `notify` only after `connect`). The first three are for good
(`DeadlocksStay`, proved below). The fourth is not quite: if the `RLock()` of the `SendBuffMsg` slips
in before the waiting `Lock()`, which the model allows, `connect` goes on.
`TakenShareNeverAnswered`, proved as well, is the safety form of the finding
`share_answered`.

### Bounds

Two requests are enough for one to hold `connMu` while another waits and
`SpawnWorker` waits for both; they are interchangeable, and `session` uses the
symmetry. One retry gives a failure that is tolerated and one that is not;
`session_live` has none, since counting failures does not bear on who waits for
whom, and no `Getjob`, which waits for nothing. `msgBuffChan` has its real capacity of 8 in the sessions (a session
sends two packets before `Run` reaches its loop) and 2 in `connection`, so that it
fills. `notify` (2 in the code) has 2 in `connection` and 1 in the sessions, so that
it fills after fewer fields; the proofs about the sessions hold for every capacity.
`ShareWindow` has three jobs, one of which may be spoiled by a stray, and
two sent shares, so that a window follows a window; `JobIds` has six jobs, so that jobs leave
the list of four while they are compared. That exactly the last four are admitted,
however many jobs there were, is proved (`WindowLastFourJobs`). `SafeMap` has thresholds
small enough for maps that are worn out, too big to copy, and copied; `MaxCount`
bounds the counters. `Director`'s `Word` is a modulus no correct sum reaches.
`PoolDetect` has two `Run`s: one of a former tick may be connecting, retrying or shutting
the shared proxy down while the ticker resets the proxy and starts the other.
`codec` has two requests, so that one is answered while the other is read, runs or
waits for `sending`, with equal ids or different ones; and one job, which can fall
between any two of their steps. `client` has a call that times out or is answered
while another is written, and messages that arrive together. Its buffer of one
notification stands for ten. `JobIssue` has the proportions that matter: a word of six
ranges, so that a random start wraps and restarts, and six shares, of which the
first starts the clock, the fourth sets the target and the others meet refreshes;
times are cut off at `MaxTime`, which is longer than a refresh. A miner with exactly
`initDiffCount + 1` shares is never refreshed (`proxy.go:275`), which is why
`SilentMinerEased` speaks of one share more. Deadlock is checked where the system never
stops (`connection`, `timers`); the sessions and
the JSON-RPC connections end, and the parts of `shares` stop at their bounds.

### Fairness

A goroutine that can run does run. Taking a lock, and the cases of a `select`, are
strongly fair: Go's mutexes hand over to starved waiters and `select` chooses at
random. A read and a dial end because they have deadlines. A write to the pool has
none and is sure to end only on a closed socket. In `connection` nothing is assumed
of the owner either: `Run` may leave `notify` full for good, and `StopCompletes` names
the waits that follow from it. In the sessions a write
to the miner is assumed to succeed or fail. There is no write deadline in the code:
`ServerCodec` has a miner that stops reading, and `ServeEnds` holds only under the
condition that it does not do so for good; neither is a service method assumed to
return there. In the same way `CallReturns` of `StratumClient` is conditional on a
server that keeps reading; its timers fire. In `JobIssue` time passes and the pool
sends tasks. Nothing is assumed of the miner, of the pool
or of other sessions; in `session_live` other sessions stand still
(`OthersRunning = FALSE`): both counters start with either value, and this session
still changes them. In `PoolDetect` the
ticker ticks, a pool that is up sends more than one field between two ticks, and a
`Run` that finds the shared proxy open again and again while it dials does connect
(strong fairness: the delays of the `Run`s and of the ticker are not in step).

## What is proved

For every value of the constants, from the assumptions named in the modules
(`CapacityAssumption`, `SessionAssumption`, `DirectorAssumption`, `SafeMapAssumption`,
`WindowAssumption`, `JobAssumption`, `DetectAssumption`, `CodecAssumption`,
`ClientAssumption`). Two of them ask for more than types: `SessionAssumption` for room
for the two packets of a login in `msgBuffChan` (the code has 8), and
`DirectorAssumption` for a word larger than twice all the shares there can be (the code
has 2^64; a report counts a proxy at most twice).

- `PoolConnectionProofs`: `ConnTypes`, `ConnNeverPanics`, `ConnSendersSeeOpen`. The
  inductive invariant `ConnInv` adds to the types that the four things `Stop`
  changes change together (`TornTogether`), that a connection is open while an
  RLock is held (`HoldersKeepOpen`, the reason for the test under the lock), and
  that the owner closes the connection before the channel (`OwnerOrder`, without
  which the reader could meet a closed `notify`). `ConnWedgeIsForGood`: a `SendBuffMsg`
  that waits behind its writer shuts out, with its RLock, everybody who could help.
- `ProxySessionProofs`: `SessionImplementsConn`, the refinement of `PoolConnection`'s
  `ConnSafeSpec` by the session; from it `SessionNeverPanics` and part of
  `SessionTypes`; and `SessionLocks`, `SessionLeaksNothing`, `SessionAlarms` and
  `SessionNilAfterRelease` (with `WorkerInv`, which says for each control state that
  reads or clears `Worker.p` who has released the proxy if it is nil). Requests of every
  kind may come at any time in it. The
  inductive invariant `SessionInv` consists of the lock discipline (`LockInv`), that
  there is no connection before `Run` dialled one (`NoConnYet`: why `shutdown(2)`,
  which closes none, leaks none), the counts of failures (`RetryInv`, `AlarmInv`)
  and that one login starts `Run` (`LoginInv`). The refinement needs it: a step that
  closes the proxy is a step of the connection's owner only because a closed proxy
  is never closed or connected again.
  About deadlocks: `SessionHolderGoesOn`, `SessionDeadlocksStay` and
  `SessionTakenShares`. They rest on a third invariant, `WaitInv`: a received share
  belongs to the Submit that waits for it with `connMu`; `Run` meets a closed channel,
  `shutdown(0)` and its end only on a closed proxy, so it cannot be there while somebody
  else holds `connMu`; and the packets of `connect` find room. `SessionHolderGoesOn` then
  goes through the control states of the holder, one case each.
- `DirectorProofs`, the Director: `DirectorTypes`, `DirectorConservesShares`,
  `DirectorReportsNotShort`, `DirectorNewSharesSound`. These are about sums over sets of
  proxies that change while they are summed. The prover cannot use an induction theorem
  with an operator as its parameter; instead a sum is the end of a row of partial sums,
  two rows that differ somewhere differ first somewhere (`LeastNumber`), and the laws
  that the steps need (adding a proxy to the set, one more share, a bound) build one row
  out of another. `FoldIsSum` shows that the fold in `Director` is this sum. The invariant
  `DirectorInv` has four parts: the table agrees with the phases of the proxies
  (`TableInv`); `deleteShares` and the open proxies hold all shares (`AccountInv`); a
  report under way has, with what it will still visit or load, at least what had been
  counted when it began (`ReportInv`, which needs that `removeProxy` adds to
  `deleteShares` before it deletes); and without a removal in between it has at most what
  there is (`OverlapInv`, why the difference does not wrap).
- `DirectorProofs`, the `SafeMap` it keeps its proxies in: `SafeMapNoKeyTwice`,
  `SafeMapTypes`, `SafeMapImplementsMap`, by way of lemmas that each part of `Set` and
  `Del` keeps the two maps disjoint and does to their union what the abstract operation
  does.
- `ShareWindowProofs`: `WindowTypes`, `WindowLastFourJobs`, `WindowSendsBest`. The
  invariant `ShareInv` says that the remembered ids follow the current one without a
  gap (`IdsInv`) and that `miniResult` and `miniNonce`, while below the maximum, are
  those of a share of the current window (`WindowInv`); the second is why a nonce left
  over from an earlier job is never sent. `WindowPairingRecovers` follows from an
  invariant of its own (the field kept is the hash of the open task, or the address
  field), for a pool that sends any stray between tasks.
- `JobIssueProofs`: `IssueTypes`, `IssueWindowCount`, and `IssueFreshRange` by way of
  `NonceInv`: what is in the blobs are the numbers of the starts, and the starts given out for a task differ by multiples of the increment,
  which divides the word, and lie below the current one, except a first one so high
  that the sum wrapped.
- `ServerCodecProofs`: `CodecTypes`, `CodecAnswersMatch`, `CodecPendingInFlight`. The
  table and the goroutines agree (`TableInv`: a request is in the table from its header
  to its reply, and whoever holds net/rpc's `sending` lock carries the id of its own
  request), and what was written is an answer of a goroutine that is done (`OutInv`).
- `StratumClientProofs`: `ClientTypes`, `ClientOwnAnswer`, `ClientWaitingIsKnown`,
  `ClientReaderNeverBlocks`. Numbers are drawn once and belong to one caller
  (`NumberInv`), the writer is the holder of `reqMutex` and nobody calls before the
  placeholder call has taken the number 0 (`MutexInv`), and a waiting call has a way
  to its end (`WaitInv`).
- `PoolDetectProofs`: `DetectTypes`. That the counts stay within `RetryTimes + 1` needs
  the bound on a `Run` that will dial again (`RetryInv`); any number of `Run`s may
  connect at once here, two in TLC's runs. `DetectNeverRestores`: no step lowers
  `poolIsDown`, so that the counterexample of `miners_restored` does not depend on the
  fairness assumed or on the instance.

Every invariant, action property and refinement of the passing runs is proved, except
`RaceHarmless`, since `JobIds` has no theorems. Only
model-checked are the liveness properties: `TornDownGoroutinesExit`, `StopCompletes`,
`ClosedSessionEnds`, `DepartedSessionEnds`, `RequestsReturn`, `DetectorReconnects`,
`ServeEnds`, `CallReturns` and `SilentMinerEased`. The prover does not reason about
fairness or ENABLED. `HolderGoesOn` is as near as safety comes to the sessions' part of
it.

## Not modelled

The encodings (`base58`, `Hash2address`) and the block and time helpers are pure
functions on byte arrays, mostly third-party or not called; random ids are taken to
be distinct; configuration, logging and start-up are input and output, as are
listening and TLS in `tcp/server.go` (where a failed `Accept` is logged and its nil
connection then used). `HandleHTTP` is never called. `getTargetUint64` is not called,
`createFakeJob` makes a constant. Malformed input that makes a type assertion fail is
left out, as is a second login that is accepted while another login or a `Run` is
under way: it would start a second `Run` on the same proxy, with a control state of
its own and a second pool connection in place of the first. That `PoolDown` outlives
the session that set it is covered by letting it change at any time.

## Plan

1. Done: `PoolConnection`, `ProxySession`, `ShareWindow`, `JobIds`, `SafeMap` with
   `KeyMap`, `PoolDetect`, `Director`, `ServerCodec`, `StratumClient`, `JobIssue`, and
   proofs of their invariants and action properties (of `JobIds` by TLC only).
2. Next: two `Run`s on one proxy, after a second accepted login; the composition of
   `ServerCodec` with `ProxySession` (service methods that wait for `Run` while answers
   queue); and the Director on top of `KeyMap`'s operations, so that the proofs about it
   and about `SafeMap` meet.
