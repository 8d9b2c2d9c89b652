------------------------------ MODULE MCShares ------------------------------
(***************************************************************************)
(* The way of a share, without the goroutines that carry it: the test of   *)
(* its job id (JobIds), its window (ShareWindow), its place in the         *)
(* statistics (Director) and the table of the proxies that count it        *)
(* (SafeMap).  The four are checked side by side: every behaviour here is  *)
(* one of one part, with the others at rest in their initial states.       *)
(*                                                                         *)
(* Six jobs in JobIds: two of them leave the four ids again, so that the   *)
(* oldest string is overwritten with the ids of jobs while Submit          *)
(* compares.  Two tasks in ShareWindow that come again and again between   *)
(* both kinds of strays, so that a hash can return after another or after  *)
(* a field that is no task.  Three proxies of two shares in Director: one  *)
(* can be removed while another counts and a third is added during one     *)
(* GetStats, and there is a next one.  SafeMap with thresholds small       *)
(* enough that both maps wear out, are too big to copy, and are copied.    *)
(***************************************************************************)
EXTENDS ShareWindow, JobIds, Director, SafeMap

VARIABLE part    \* the part that runs

sharesVars == <<vars, idsVars, directorVars, mapVars, part>>

SharesInit ==
  /\ part \in {"window", "ids", "director", "map"}
  /\ WindowInit /\ IdsInit /\ DirectorInit /\ SafeMapInit

SharesNext ==
  /\ \/ part = "window" /\ WindowNext /\ UNCHANGED <<idsVars, directorVars, mapVars>>
     \/ part = "ids" /\ IdsNext /\ UNCHANGED <<vars, directorVars, mapVars>>
     \/ part = "director" /\ DirectorNext /\ UNCHANGED <<vars, idsVars, mapVars>>
     \/ part = "map" /\ SafeMapNext /\ UNCHANGED <<vars, idsVars, directorVars>>
  /\ UNCHANGED part

SharesSpec == SharesInit /\ [][SharesNext]_sharesVars
=============================================================================
