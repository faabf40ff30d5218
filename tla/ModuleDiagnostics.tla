-------------------------- MODULE ModuleDiagnostics -------------------------
(***************************************************************************)
(* What the directory check needs to know of a parsed module, and those of *)
(* the nine per-module checks that look at its place in the project:       *)
(* tanzil (T1 to T3) and ring-close (R1, R2, R4).  A module is a record:   *)
(*   name    its bismillah name                                            *)
(*   blocks  its tanzil blocks, each the list of names it depends on       *)
(*   types   the compound types it declares                                *)
(*   functions  whether it declares functions                              *)
(*   refs    the types its functions' signatures name; a function without  *)
(*           parameters and return type names none                         *)
(*   other   the most severe finding of the checkers that see only the     *)
(*           module itself: "none", "advisory" or "marad"                  *)
(* A diagnostic is a record of its level, its rule and what it is about.   *)
(***************************************************************************)
EXTENDS Naturals, Sequences, FiniteSets, SequencesExt

CONSTANT BuiltinTypes

Marad(rule, about) == [level |-> "marad", rule |-> rule, about |-> about]
Advisory(rule, about) == [level |-> "advisory", rule |-> rule, about |-> about]

Marads(diagnostics) == {d \in diagnostics : d.level = "marad"}

(* All the names a module depends on, its blocks one after the other.      *)
Dependencies(m) == FlattenSeq(m.blocks)

CheckBlock(block, name) ==
  IF block = << >>
  THEN {Advisory("T3", name)}
  ELSE {Marad("T1", block[i]) : i \in {i \in DOMAIN block : block[i] = name}}
       \cup {Marad("T2", block[i]) :
               i \in {i \in DOMAIN block : \E j \in 1 .. (i - 1) : block[j] = block[i]}}

CheckTanzil(m) == UNION {CheckBlock(m.blocks[i], m.name) : i \in DOMAIN m.blocks}

(* R1: a signature names a type that is not builtin, declared or imported. *)
UndefinedTypes(m, imported) ==
  {Marad("R1", t) : t \in m.refs \ (m.types \cup BuiltinTypes \cup imported)}

(* R2: the module declares neither a function nor a type.                  *)
IsEmpty(m) == ~m.functions /\ m.types = {}

(* R4: a declared type that no signature names.                            *)
UnreferencedTypes(m) == {Advisory("R4", t) : t \in m.types \ m.refs}

CheckRingClose(m, imported) ==
  IF IsEmpty(m)
  THEN {Advisory("R2", m.name)}
  ELSE UndefinedTypes(m, imported) \cup UnreferencedTypes(m)

OtherChecks(m) ==
  IF m.other = "none" THEN {} ELSE {[level |-> m.other, rule |-> "own", about |-> m.name]}

CheckSingleModule(m, imported) ==
  CheckTanzil(m) \cup CheckRingClose(m, imported) \cup OtherChecks(m)
=============================================================================
