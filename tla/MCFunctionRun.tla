---------------------------- MODULE MCFunctionRun ----------------------------
(***************************************************************************)
(* TLC instances of FunctionRun.  The bodies are those of the programs and *)
(* the arms of their ifs.                                                  *)
(***************************************************************************)
EXTENDS FunctionRun, SequencesExt

Integrity == [kind |-> "Integrity"]
Incomplete == [kind |-> "Incomplete", fields |-> RequiredFields]
Vague == [kind |-> "Incomplete", fields |-> {"reason"}]
Named == [kind |-> "name"]

ReturnOf(v) == [op |-> "return", value |-> v]
CallTo(h) == [op |-> "call", head |-> h]
ReturnCallOf(h) == ReturnOf([kind |-> "call", head |-> h])
If(nots, body, orelse) == [op |-> "if", nots |-> nots, body |-> body, orelse |-> orelse]

Ifs(nots, bodies) == {If(n, b, o) : n \in nots, b \in bodies, o \in bodies}

Signatures == {{}, {"Integrity"}, {"Integrity", "Incomplete"}, {"Document"}}
Functions(signatures, bodies) == [returns : signatures, body : bodies]

-----------------------------------------------------------------------------
(* One function of up to two statements with one level of ifs, or one      *)
(* statement with two levels of ifs and another after it.                  *)
Simple == {ReturnOf(v) : v \in {Integrity, Incomplete, Named}} \cup {CallTo("op")}
Wide == BoundedSeq(Simple \cup Ifs({0, 1}, BoundedSeq(Simple, 1)), 2)

Plain == {ReturnOf(Integrity), CallTo("op")}
Nested == Plain \cup Ifs({0, 1}, BoundedSeq(Plain, 1))
Deep == {<<s>> \o rest : s \in Ifs({0, 1}, BoundedSeq(Nested, 1)),
                        rest \in BoundedSeq(Plain, 1)}

OneFunction == [{"f"} -> Functions(Signatures, Wide \cup Deep)]

-----------------------------------------------------------------------------
(* Three functions that call each other in statements.                     *)
Callees == {"f", "g", "h", "op"}
Calling ==
  LET calls == {<<CallTo(c)>> : c \in Callees}
  IN  calls \cup {<<If(0, << >>, c)>> : c \in calls}

StatementCalls == [{"f", "g", "h"} -> Functions(Signatures \ {{"Document"}}, Calling)]

(* Two functions that also call each other, or themselves, in returns.     *)
Handing ==
  LET leaves == {<< >>, <<ReturnOf(Vague)>>, <<ReturnOf(Incomplete)>>, <<CallTo("g")>>}
                  \cup {<<ReturnCallOf(c)>> : c \in {"f", "g", "op"}}
  IN  leaves \cup {<<If(0, b, o)>> : b \in leaves, o \in leaves}

ReturnCalls == [{"f", "g"} -> Functions(Signatures \ {{"Document"}}, Handing)]

MCBody == Wide \cup Deep \cup BoundedSeq(Nested, 1) \cup Calling \cup Handing

RECURSIVE Depth(_)
Depth(body) ==
  Max({0} \cup {1 + Max({Depth(body[i].body), Depth(body[i].orelse)}) :
                  i \in {j \in DOMAIN body : body[j].op = "if"}})

MCNesting == [b \in MCBody |-> Depth(b)]

MCPrograms == OneFunction \cup StatementCalls \cup ReturnCalls

(* A producer, and a caller that declares plain Integrity.                 *)
Collapsing ==
  {[n \in {"f", "g"} |-> IF n = "f" THEN p ELSE c] :
     p \in Functions({Status}, {<<ReturnOf(Incomplete)>>}),
     c \in Functions({{"Integrity"}}, Handing)}
=============================================================================
