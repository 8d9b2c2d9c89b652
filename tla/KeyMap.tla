------------------------------- MODULE KeyMap -------------------------------
(***************************************************************************)
(* What a map promises its users (the Director's table of proxies, the     *)
(* codec's table of pending requests): Set and Del change one key, and Get *)
(* and Range see every key that was set and not deleted, with its value.   *)
(***************************************************************************)
CONSTANTS Keys, Values

VARIABLE content

MapInit == content = [k \in {} |-> {}]

\* content after Set(k, v).
With(k, v) == [j \in DOMAIN content \cup {k} |-> IF j = k THEN v ELSE content[j]]

\* content after Del(k).
Without(k) == [j \in DOMAIN content \ {k} |-> content[j]]

MapNext ==
  \/ \E k \in Keys, v \in Values : content' = With(k, v)
  \/ \E k \in Keys : content' = Without(k)

MapSpec == MapInit /\ [][MapNext]_content
=============================================================================
