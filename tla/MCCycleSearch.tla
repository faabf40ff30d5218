---------------------------- MODULE MCCycleSearch ---------------------------
(***************************************************************************)
(* TLC instances of CycleSearch.  The name 9 stands for a module the       *)
(* project does not contain; the search takes the neighbours of a module   *)
(* in sorted order, so ascending lists are all the lists it can tell       *)
(* apart.                                                                  *)
(***************************************************************************)
EXTENDS CycleSearch, SequencesExt

CONSTANTS MaxModules, MaxDeps

Missing == 9

MCName == 1 .. MaxModules \cup {Missing}

AscendingLists ==
  {s \in BoundedSeq(MCName, MaxDeps) :
     \A i, j \in DOMAIN s : i < j => s[i] < s[j]}

MCGraphs == [1 .. MaxModules -> AscendingLists]
=============================================================================
