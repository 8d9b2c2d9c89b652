------------------------------- MODULE JobIds -------------------------------
(***************************************************************************)
(* The race for the job ids: handleJob moves them on under jobMu, while    *)
(* Submit compares a share's id with them one after another under connMu   *)
(* (server/proxy/proxy.go).  ShareWindow takes each of the two as one step;*)
(* here every store and every comparison is a step of its own.             *)
(*                                                                         *)
(* currentJob is a pointer, stored at once.  The other three ids are       *)
(* strings, a pointer and a length stored one after the other.  All ids    *)
(* drawn are 28 bytes long, so that halves of two of them are one of the   *)
(* two; a nil pointer with the length 28, half of an empty string, is a    *)
(* comparison with memory at address 0.  NextJob replaces currentJob by a  *)
(* job of the same id and is left out.  What becomes of a share that is    *)
(* admitted is the subject of ProxySession and ShareWindow.                *)
(***************************************************************************)
EXTENDS Naturals

CONSTANT MaxIDs     \* bound: jobs drawn

ASSUME IdsAssumption == MaxIDs \in Nat

Empty == 0               \* the id of Job{}, and of the fields NewProxy leaves out
Random == MaxIDs + 1     \* the first PrevJobID, which no miner knows
FakeID == MaxIDs + 2     \* an id with the prefix FFFFFFFFFF
Unknown == MaxIDs + 3    \* any other id a miner may send

CurrentID == 1           \* currentJob.ID; then the three strings in their order
NoTest == [id |-> Empty, since |-> 0]

VARIABLES
  ids,        \* currentJob.ID, PrevJobID, BeforePrevJobID, BeforeBeforePrevJobID
  newest,     \* the job handleJob was called with last
  store,      \* handleJob: the field it stores next, 0 in broadcastJob or outside
  half,       \* one of the two words of this string is stored
  told,       \* broadcastJob has ended: Run can go on to the next job
  test,       \* Submit: the id tested and the current job when connMu was taken
  at,         \* the comparison Submit makes next, 0 outside (and without connMu)
  verdict     \* of the last test

idsVars == <<ids, newest, store, half, told, test, at, verdict>>

\* NewProxy.
IdsInit ==
  /\ ids = <<Empty, Random, Empty, Empty>>
  /\ newest = 0 /\ store = 0 /\ half = FALSE /\ told = TRUE
  /\ test = NoTest /\ at = 0 /\ verdict = "none"

-----------------------------------------------------------------------------
(* handleJob, in Run.                                                      *)

\* handleJob takes jobMu; the oldest id is the first to be overwritten.
HandleJobBegins ==
  /\ store = 0 /\ told /\ newest < MaxIDs
  /\ newest' = newest + 1 /\ store' = 4 /\ told' = FALSE
  /\ UNCHANGED <<ids, half, test, at, verdict>>

\* Each string takes the value of the one before it: the first word, the second.
ShiftHalf ==
  /\ store > CurrentID /\ ~half
  /\ half' = TRUE
  /\ UNCHANGED <<ids, newest, store, told, test, at, verdict>>

Shift ==
  /\ store > CurrentID /\ half
  /\ ids' = [ids EXCEPT ![store] = ids[store - 1]]
  /\ store' = store - 1 /\ half' = FALSE
  /\ UNCHANGED <<newest, told, test, at, verdict>>

\* p.currentJob = job, and the end of jobMu.
SetCurrent ==
  /\ store = CurrentID
  /\ ids' = [ids EXCEPT ![CurrentID] = newest] /\ store' = 0
  /\ UNCHANGED <<newest, half, told, test, at, verdict>>

\* broadcastJob waits for connMu.
BroadcastJob ==
  /\ store = 0 /\ ~told /\ at = 0
  /\ told' = TRUE
  /\ UNCHANGED <<ids, newest, store, half, test, at, verdict>>

-----------------------------------------------------------------------------
(* Submit, in the goroutine of a request.                                  *)

\* Submit takes connMu.  A miner knows the ids of the jobs it was given.
SubmitBegins(id) ==
  /\ at = 0
  /\ test' = [id |-> id, since |-> ids[CurrentID]] /\ at' = 1 /\ verdict' = "none"
  /\ UNCHANGED <<ids, newest, store, half, told>>

\* Mutant of Compared: the oldest job is compared first.
ComparedOldestFirst(i) == 5 - i

\* The order of the comparisons is that of the ids, the newest first.
Compared(i) == i

\* The string found is the whole old one or the whole new one, or the length of an
\* id with the pointer of the empty string.
Torn == Unknown + 1
Seen(f) ==
  IF ~(half /\ store = f) THEN {ids[f]}
  ELSE LET both == {ids[f], ids[f - 1]}
       IN  both \cup (IF Empty \in both /\ both # {Empty} THEN {Torn} ELSE {})

\* One comparison; the prefix is looked at after the second one.
Compare ==
  /\ at > 0
  /\ \E v \in Seen(Compared(at)) :
       LET equal == v = test.id \/ (at = 2 /\ test.id = FakeID)
       IN  /\ verdict' = CASE v = Torn -> "panic"
                           [] v # Torn /\ equal -> "admitted"
                           [] v # Torn /\ ~equal /\ at = 4 -> "refused"
                           [] OTHER -> "none"
           /\ at' = IF verdict' = "none" THEN at + 1 ELSE 0
  /\ UNCHANGED <<ids, newest, store, half, told, test>>

IdsNext ==
  /\ verdict # "panic"
  /\ \/ HandleJobBegins \/ ShiftHalf \/ Shift \/ SetCurrent \/ BroadcastJob
     \/ \E id \in 1 .. ids[CurrentID] \cup {FakeID, Unknown} : SubmitBegins(id)
     \/ Compare

IdsSpec == IdsInit /\ [][IdsNext]_idsVars

-----------------------------------------------------------------------------
(* Properties.                                                             *)

\* Whatever handleJob stores between the comparisons of Submit, a share is admitted
\* only if its job was one of the last four when the test began, and refused only
\* if it is none of the last four, counting the job that handleJob is installing.
RaceHarmless ==
  /\ verdict = "admitted" =>
       test.id = FakeID \/ (test.id <= test.since /\ test.since <= test.id + 3)
  /\ verdict = "refused" => test.id # FakeID /\ (test.id <= MaxIDs => test.id + 3 < newest)

\* "there might be a race for the job ids's but it shouldn't matter" (Submit): no
\* comparison reads half a string.
RaceDoesNotMatter == verdict # "panic"
=============================================================================
