----------------------------- MODULE MCKahnSort -----------------------------
(***************************************************************************)
(* TLC instances of KahnSort.  The name 9 stands for a module the project  *)
(* does not contain.                                                       *)
(***************************************************************************)
EXTENDS KahnSort, SequencesExt

CONSTANTS MaxModules,   \* the projects hold the modules 1 .. k, k at most this
          MaxDeps       \* entries of a dependency list

Missing == 9

MCName == 1 .. MaxModules \cup {Missing}

(* One module less, and every list of at most MaxDeps entries, repeated    *)
(* ones included.                                                          *)
RepeatingGraphs ==
  LET Entries(k) == 1 .. k \cup {Missing}
  IN  UNION {[1 .. k -> BoundedSeq(Entries(k), MaxDeps)] : k \in 0 .. (MaxModules - 1)}

(* Every set of dependencies, listed in ascending order.                   *)
AscendingLists ==
  {s \in BoundedSeq(1 .. MaxModules, MaxDeps) :
     \A i, j \in DOMAIN s : i < j => s[i] < s[j]}

SimpleGraphs == [1 .. MaxModules -> AscendingLists]

MCGraphs == RepeatingGraphs \cup SimpleGraphs
=============================================================================
