------------------------------ MODULE SafeMap ------------------------------
(***************************************************************************)
(* utils.SafeMap (server/utils/safemap.go): a map kept in two Go maps, so  *)
(* that the memory of deleted entries can be given back.  Each operation   *)
(* holds the map's lock, so each is one action.                            *)
(***************************************************************************)
EXTENDS Naturals, FiniteSets

CONSTANTS
  Keys, Values,
  copyThreshold,  \* a map with fewer entries than this is cheap to copy
  maxDeletion,    \* deletions after which a map is given up
  MaxCount        \* bound: deletions counted in one map

ASSUME SafeMapAssumption ==
  /\ IsFiniteSet(Keys)
  /\ copyThreshold \in Nat /\ maxDeletion \in Nat /\ MaxCount \in Nat

VARIABLES dirtyOld, dirtyNew, deletionOld, deletionNew

mapVars == <<dirtyOld, dirtyNew, deletionOld, deletionNew>>

\* A Go map: a function on the keys it holds.
Maps == UNION {[K -> Values] : K \in SUBSET Keys}
EmptyMap == [k \in {} |-> {}]

Put(m, k, v) == [j \in DOMAIN m \cup {k} |-> IF j = k THEN v ELSE m[j]]
Delete(m, k) == [j \in DOMAIN m \ {k} |-> m[j]]

\* for k, v := range src { dst[k] = v }
CopyInto(dst, src) ==
  [j \in DOMAIN dst \cup DOMAIN src |-> IF j \in DOMAIN src THEN src[j] ELSE dst[j]]

Size(m) == Cardinality(DOMAIN m)

\* The four fields as one value, so that Del is a composition of its parts.
State == [old : Maps, new : Maps, delOld : Nat, delNew : Nat]
Current == [old |-> dirtyOld, new |-> dirtyNew, delOld |-> deletionOld, delNew |-> deletionNew]
Becomes(s) ==
  /\ dirtyOld' = s.old /\ dirtyNew' = s.new
  /\ deletionOld' = s.delOld /\ deletionNew' = s.delNew

\* The two maps are maps, and the counters count.
SafeMapTypeOK == Current \in State

SafeMapInit ==
  /\ dirtyOld = EmptyMap /\ dirtyNew = EmptyMap
  /\ deletionOld = 0 /\ deletionNew = 0

-----------------------------------------------------------------------------

\* Mutant of Drop: the counter goes the wrong way.
DropUncounts(s, k) ==
  IF k \in DOMAIN s.old
    THEN [s EXCEPT !.old = Delete(s.old, k), !.delOld = s.delOld - 1]
    ELSE s

\* The first part of Del: the entry goes, and its map counts it.
Drop(s, k) ==
  IF k \in DOMAIN s.old
    THEN [s EXCEPT !.old = Delete(s.old, k), !.delOld = s.delOld + 1]
    ELSE IF k \in DOMAIN s.new
      THEN [s EXCEPT !.new = Delete(s.new, k), !.delNew = s.delNew + 1]
      ELSE s

\* Mutant of RetireOld: the entries of the old map are not carried over.
RetireOldLoses(s) ==
  IF s.delOld >= maxDeletion /\ Size(s.old) < copyThreshold
    THEN [old |-> s.new, new |-> EmptyMap, delOld |-> s.delNew, delNew |-> 0]
    ELSE s

\* The second part: a worn out old map is copied into the new one, which takes
\* its place.
RetireOld(s) ==
  IF s.delOld >= maxDeletion /\ Size(s.old) < copyThreshold
    THEN [old |-> CopyInto(s.new, s.old), new |-> EmptyMap,
          delOld |-> s.delNew, delNew |-> 0]
    ELSE s

\* The third part: a worn out new map is copied back into the old one.
RetireNew(s) ==
  IF s.delNew >= maxDeletion /\ Size(s.new) < copyThreshold
    THEN [s EXCEPT !.old = CopyInto(s.old, s.new), !.new = EmptyMap, !.delNew = 0]
    ELSE s

Del(k) == Becomes(RetireNew(RetireOld(Drop(Current, k))))

\* Mutant of Store: the other map keeps its entry.
StoreTwice(s, k, v) ==
  IF s.delOld <= maxDeletion
    THEN [s EXCEPT !.old = Put(s.old, k, v)]
    ELSE [s EXCEPT !.new = Put(s.new, k, v)]

\* Set: the value goes to the old map until that has seen too many deletions,
\* and the other map forgets the key.
Store(s, k, v) ==
  IF s.delOld <= maxDeletion
    THEN [s EXCEPT !.new = Delete(s.new, k), !.old = Put(s.old, k, v),
                   !.delNew = IF k \in DOMAIN s.new THEN s.delNew + 1 ELSE s.delNew]
    ELSE [s EXCEPT !.old = Delete(s.old, k), !.new = Put(s.new, k, v),
                   !.delOld = IF k \in DOMAIN s.old THEN s.delOld + 1 ELSE s.delOld]

Set(k, v) == Becomes(Store(Current, k, v))

SafeMapNext ==
  /\ deletionOld < MaxCount /\ deletionNew < MaxCount
  /\ \/ \E k \in Keys, v \in Values : Set(k, v)
     \/ \E k \in Keys : Del(k)

SafeMapSpec == SafeMapInit /\ [][SafeMapNext]_mapVars

-----------------------------------------------------------------------------
(* Properties.                                                             *)

\* What Get(k) returns for a key it finds: the old map first.
Get(k) == IF k \in DOMAIN dirtyOld THEN dirtyOld[k] ELSE dirtyNew[k]
Held == DOMAIN dirtyOld \cup DOMAIN dirtyNew

\* Range visits the old map, then the new one: no key is in both, so that it
\* calls its function once for each, which GetStats relies on, and no stale
\* value of a key comes back when its newer one is deleted.
NoKeyTwice == DOMAIN dirtyOld \cap DOMAIN dirtyNew = {}

\* SafeMap implements a map: whatever is moved between the two maps, Get answers
\* from the last Set and Del of the key.
Abstract == INSTANCE KeyMap WITH content <- [k \in Held |-> Get(k)]
ImplementsMap == Abstract!MapSpec
=============================================================================
