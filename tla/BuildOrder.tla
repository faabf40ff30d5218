----------------------------- MODULE BuildOrder -----------------------------
(***************************************************************************)
(* What a build order of a project is: modules are built one at a time,    *)
(* each after everything it needs, until all are built, and the project is *)
(* refused only when some are left and none of those can be built, modules *)
(* that list a dependency twice aside.                                     *)
(***************************************************************************)
EXTENDS ProjectGraph

CONSTANT Graphs

VARIABLES graph, built, answer

vars == <<graph, built, answer>>

BuiltSet == {built[i] : i \in DOMAIN built}

Buildable(n) == n \notin BuiltSet /\ Needs(graph, n) \subseteq BuiltSet

Init ==
  /\ graph \in Graphs
  /\ built = << >>
  /\ answer = "open"

Build(n) ==
  /\ answer = "open"
  /\ Buildable(n)
  /\ built' = Append(built, n)
  /\ UNCHANGED <<graph, answer>>

Accept ==
  /\ answer = "open"
  /\ BuiltSet = DOMAIN graph
  /\ answer' = "ordered"
  /\ UNCHANGED <<graph, built>>

Refuse ==
  /\ answer = "open"
  /\ BuiltSet # DOMAIN graph
  /\ \A n \in DOMAIN graph : Buildable(n) => ~RepeatsNothing(graph, n)
  /\ answer' = "none"
  /\ UNCHANGED <<graph, built>>

Next == (\E n \in DOMAIN graph : Build(n)) \/ Accept \/ Refuse

Spec == Init /\ [][Next]_vars
=============================================================================
