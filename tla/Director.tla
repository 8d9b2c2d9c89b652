------------------------------ MODULE Director ------------------------------
(***************************************************************************)
(* proxy.Director (server/proxy/director.go): the table of proxies and the *)
(* share statistics.  GetStats adds up the shares of the proxies in the    *)
(* table, under the table's RLock, and then those of the proxies removed   *)
(* so far.  Proxies count shares and are removed meanwhile: both happen    *)
(* under the connMu of the proxy, of which GetStats takes no notice.       *)
(*                                                                         *)
(* The table is a map (SafeMap refines KeyMap); its Set and Del wait while *)
(* Range holds the RLock.                                                  *)
(***************************************************************************)
EXTENDS Naturals, FiniteSetsExt

CONSTANTS
  MaxProxies,  \* bound: proxies made
  MaxShares,   \* bound: shares one proxy counts
  Word         \* the modulus of uint64

ASSUME DirectorAssumption ==
  /\ MaxProxies \in Nat /\ MaxShares \in Nat
  /\ Word \in Nat /\ Word > 2 * MaxProxies * MaxShares

ProxyIDs == 1 .. MaxProxies

VARIABLES
  currentProxyID,
  proxies,          \* the ids in the table
  phase,            \* of each proxy: none, open, counted (into deleteShares), gone
  shares,           \* Proxy.shares of each
  deleteShares,
  lastTotalShares,
  stats,            \* control state of GetStats: idle, range, load
  visited,          \* the proxies Range has visited
  total,            \* totalSharesSubmitted
  NewShares,        \* of the last Stats
  floor,            \* history: shares counted anywhere when GetStats began
  overlap,          \* history: a removal was under way during GetStats
  lastOverlap       \* and during the GetStats before

statVars == <<lastTotalShares, stats, visited, total, NewShares, floor, lastOverlap>>
directorVars == <<currentProxyID, proxies, phase, shares, deleteShares, statVars, overlap>>

SharesOf(S) == MapThenSumSet(LAMBDA i : shares[i], S)

\* The Director's fields have their types, and only drawn ids are in the table.
DirectorTypeOK ==
  /\ currentProxyID \in 0 .. MaxProxies
  /\ proxies \subseteq 1 .. currentProxyID
  /\ phase \in [ProxyIDs -> {"none", "open", "counted", "gone"}]
  /\ shares \in [ProxyIDs -> 0 .. MaxShares]
  /\ {deleteShares, lastTotalShares, total, NewShares, floor} \subseteq 0 .. Word - 1
  /\ stats \in {"idle", "range", "load"} /\ visited \subseteq proxies
  /\ overlap \in BOOLEAN /\ lastOverlap \in BOOLEAN

DirectorInit ==
  /\ currentProxyID = 0 /\ proxies = {}
  /\ phase = [i \in ProxyIDs |-> "none"] /\ shares = [i \in ProxyIDs |-> 0]
  /\ deleteShares = 0 /\ lastTotalShares = 0
  /\ stats = "idle" /\ visited = {} /\ total = 0 /\ NewShares = 0
  /\ floor = 0 /\ overlap = FALSE /\ lastOverlap = FALSE

-----------------------------------------------------------------------------
(* The proxies.                                                            *)

\* Mutant of addProxy: the increment of the id is lost.
addProxyReuses ==
  /\ currentProxyID < MaxProxies /\ stats # "range"
  /\ currentProxyID' = currentProxyID
  /\ proxies' = proxies \cup {currentProxyID + 1}
  /\ phase' = [phase EXCEPT ![currentProxyID + 1] = "open"]
  /\ UNCHANGED <<shares, deleteShares, statVars, overlap>>

\* NextProxy for a miner that was accepted.
addProxy ==
  /\ currentProxyID < MaxProxies /\ stats # "range"
  /\ currentProxyID' = currentProxyID + 1
  /\ proxies' = proxies \cup {currentProxyID'}
  /\ phase' = [phase EXCEPT ![currentProxyID'] = "open"]
  /\ UNCHANGED <<shares, deleteShares, statVars, overlap>>

\* Mutant of CountShare: a closed proxy counts as well.
CountShareClosed(i) ==
  /\ phase[i] \in {"open", "counted"} /\ shares[i] < MaxShares
  /\ shares' = [shares EXCEPT ![i] = @ + 1]
  /\ UNCHANGED <<currentProxyID, proxies, phase, deleteShares, statVars, overlap>>

\* p.shares++ in handleSubmit, on a proxy that is not closed.
CountShare(i) ==
  /\ phase[i] = "open" /\ shares[i] < MaxShares
  /\ shares' = [shares EXCEPT ![i] = @ + 1]
  /\ UNCHANGED <<currentProxyID, proxies, phase, deleteShares, statVars, overlap>>

\* Mutant of RemoveCounts: the shares of a removed proxy are forgotten.
RemoveForgets(i) ==
  /\ phase[i] = "open"
  /\ phase' = [phase EXCEPT ![i] = "counted"]
  /\ overlap' = (overlap \/ stats # "idle")
  /\ UNCHANGED <<currentProxyID, proxies, shares, deleteShares, statVars>>

\* removeProxy, called once by whoever closes the proxy: first its shares are
\* added to deleteShares,
RemoveCounts(i) ==
  /\ phase[i] = "open"
  /\ phase' = [phase EXCEPT ![i] = "counted"]
  /\ deleteShares' = deleteShares + shares[i]
  /\ overlap' = (overlap \/ stats # "idle")
  /\ UNCHANGED <<currentProxyID, proxies, shares, statVars>>

\* then it leaves the table.
RemoveDeletes(i) ==
  /\ phase[i] = "counted" /\ stats # "range"
  /\ phase' = [phase EXCEPT ![i] = "gone"]
  /\ proxies' = proxies \ {i}
  /\ UNCHANGED <<currentProxyID, shares, deleteShares, statVars, overlap>>

-----------------------------------------------------------------------------
(* GetStats, on the ticker of Director.run.                                *)

StatsBegin ==
  /\ stats = "idle" /\ stats' = "range"
  /\ visited' = {} /\ total' = 0
  /\ floor' = SharesOf(ProxyIDs)
  /\ overlap' = (\E i \in ProxyIDs : phase[i] = "counted")
  /\ UNCHANGED <<currentProxyID, proxies, phase, shares, deleteShares, lastTotalShares,
                 NewShares, lastOverlap>>

\* The function that Range calls for every proxy, in any order.
StatsVisit(i) ==
  /\ stats = "range" /\ i \in proxies \ visited
  /\ visited' = visited \cup {i} /\ total' = total + shares[i]
  /\ UNCHANGED <<currentProxyID, proxies, phase, shares, deleteShares, lastTotalShares,
                 stats, NewShares, floor, overlap, lastOverlap>>

\* Mutant of StatsRanged: the function ends the iteration at the first proxy.
StatsRangedEarly ==
  /\ stats = "range" /\ (proxies = {} \/ visited # {})
  /\ stats' = "load" /\ visited' = {}
  /\ UNCHANGED <<currentProxyID, proxies, phase, shares, deleteShares, lastTotalShares,
                 total, NewShares, floor, overlap, lastOverlap>>

\* Range is through and releases the RLock.
StatsRanged ==
  /\ stats = "range" /\ visited = proxies
  /\ stats' = "load" /\ visited' = {}
  /\ UNCHANGED <<currentProxyID, proxies, phase, shares, deleteShares, lastTotalShares,
                 total, NewShares, floor, overlap, lastOverlap>>

\* deleteShares is loaded and the difference to the last total taken, in uint64.
StatsEnd ==
  /\ stats = "load" /\ stats' = "idle"
  /\ total' = total + deleteShares
  /\ NewShares' = (total' + Word - lastTotalShares) % Word
  /\ lastTotalShares' = total'
  /\ lastOverlap' = overlap
  /\ UNCHANGED <<currentProxyID, proxies, phase, shares, deleteShares, visited, floor, overlap>>

DirectorNext ==
  \/ addProxy
  \/ \E i \in ProxyIDs : CountShare(i) \/ RemoveCounts(i) \/ RemoveDeletes(i) \/ StatsVisit(i)
  \/ StatsBegin \/ StatsRanged \/ StatsEnd

DirectorSpec == DirectorInit /\ [][DirectorNext]_directorVars

-----------------------------------------------------------------------------
(* Properties.                                                             *)

\* No share is lost and none is counted twice by the counters themselves: what
\* the open proxies hold and deleteShares make up everything ever counted.
SharesConserved ==
  deleteShares + SharesOf({i \in ProxyIDs : phase[i] = "open"}) = SharesOf(ProxyIDs)

\* GetStats reports no less than had been counted when it began, whatever is
\* counted and removed meanwhile: removeProxy adds before it deletes.
StatsNotShort == stats = "idle" => total >= floor

\* The new shares that are printed are a difference that did not wrap around
\* below zero, unless a removal was under way during the GetStats before (its
\* proxy may then have been counted twice, and the total now is smaller).
NewSharesSound ==
  [][stats = "load" /\ stats' = "idle" /\ ~lastOverlap
       => lastTotalShares' = lastTotalShares + NewShares']_directorVars
=============================================================================
