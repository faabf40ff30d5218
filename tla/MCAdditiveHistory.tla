------------------------- MODULE MCAdditiveHistory -------------------------
(***************************************************************************)
(* TLC instances of AdditiveHistory.                                       *)
(***************************************************************************)
EXTENDS AdditiveHistory, TLC

CONSTANTS a, b, s, t   \* two symbols, two types

V(major, minor) == [major |-> major, minor |-> minor]

DenseVersions == {V(1, 0), V(1, 1), V(2, 0), V(2, 1)}
SparseVersions == {V(1, 0), V(2, 0), V(2, 2)}

(* Catalogs of at most one entry.                                          *)
SmallCatalogs ==
  {[removes |-> {}, renames |-> {}]}
    \cup {[removes |-> {x}, renames |-> {}] : x \in Symbol}
    \cup {[removes |-> {}, renames |-> {<<x, y>>}] : x, y \in Symbol}

(* The claims about a history are void from the first lapse of its author  *)
(* on: no history is followed beyond it.                                   *)
NoLapse == kept /\ InOrder

Symmetric == Permutations(Symbol) \cup Permutations(Type)
=============================================================================
