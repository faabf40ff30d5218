---------------------------- MODULE ProjectGraph ----------------------------
(***************************************************************************)
(* The dependency graph of a Furqan project, as project.py builds it: a    *)
(* function from the names of the loaded modules to the list of names each *)
(* one depends on.  The list is the concatenation of the module's tanzil   *)
(* blocks, so a name may occur in it twice and may name no loaded module.  *)
(* A module name is a number: its rank in the order Python's sorted() puts *)
(* the names in.                                                           *)
(***************************************************************************)
EXTENDS Naturals, Sequences, FiniteSets

CONSTANT Name

ASSUME NameAssumption == Name \subseteq Nat

IsGraph(g) ==
  /\ DOMAIN g \subseteq Name
  /\ IsFiniteSet(DOMAIN g)
  /\ \A n \in DOMAIN g : g[n] \in Seq(Name)

DepSet(g, n) == {g[n][i] : i \in DOMAIN g[n]}

(* The dependencies of n the project can resolve. *)
Needs(g, n) == DepSet(g, n) \cap DOMAIN g

(* The list of n names no module of the project twice. *)
RepeatsNothing(g, n) ==
  \A i, j \in DOMAIN g[n] : g[n][i] = g[n][j] /\ g[n][i] \in DOMAIN g => i = j

NoRepeats(g) == \A n \in DOMAIN g : RepeatsNothing(g, n)

(* A core is a non-empty set of modules each of which needs another one of *)
(* the set (or itself).  A finite graph has a core exactly when it has a   *)
(* cycle.                                                                  *)
IsCore(g, S) ==
  /\ S # {}
  /\ S \subseteq DOMAIN g
  /\ \A n \in S : Needs(g, n) \cap S # {}

Cyclic(g) == \E S \in SUBSET DOMAIN g : IsCore(g, S)

(* G1: a dependency that names no module of the project. *)
MissingTargets(g) ==
  {edge \in (DOMAIN g) \X Name : edge[2] \in DepSet(g, edge[1]) \ DOMAIN g}

(* G3: in a project of at least two modules, one that depends on nothing   *)
(* and that nothing depends on.                                            *)
Orphans(g) ==
  {n \in DOMAIN g :
     /\ Cardinality(DOMAIN g) >= 2
     /\ g[n] = << >>
     /\ \A m \in DOMAIN g : n \notin DepSet(g, m)}
=============================================================================
