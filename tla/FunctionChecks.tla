--------------------------- MODULE FunctionChecks ---------------------------
(***************************************************************************)
(* The checkers that read function bodies: ring-close R3, all-paths-return *)
(* P1, return-type-match M1, scan-incomplete A and B, status-coverage S1   *)
(* and S2, and the scope check of bismillah.                               *)
(*                                                                         *)
(* A function is a record: returns is the set of type names its signature  *)
(* accepts (empty when it declares none), body a sequence of statements:   *)
(*   [op |-> "call", head]                 a call statement                *)
(*   [op |-> "return", value]                                              *)
(*   [op |-> "if", nots, body, orelse]     nots: how many `not` stand      *)
(*                                         before the predicate            *)
(* A value is [kind |-> "Integrity"], [kind |-> "Incomplete", fields],     *)
(* [kind |-> "name"] or [kind |-> "call", head].  The parser keeps only    *)
(* the name of a call it meets in an expression.                           *)
(*                                                                         *)
(* A walk over a body descends into the arms of its ifs, which are nested  *)
(* less deeply than the body is.                                           *)
(***************************************************************************)
EXTENDS Naturals, Sequences, FiniteSets

CONSTANTS
  Body,      \* the bodies of functions and the arms of their ifs
  Nesting    \* how deeply the ifs of each are nested

Statement == UNION {{b[i] : i \in DOMAIN b} : b \in Body}

ASSUME NestingAssumption == Nesting \in [Body -> Nat]

ASSUME BodyAssumption ==
  \A b \in Body :
    /\ b \in Seq(Statement)
    /\ \A i \in DOMAIN b :
         \/ b[i].op \in {"call", "return"}
         \/ /\ b[i].op = "if" /\ b[i].nots \in Nat
            /\ b[i].body \in Body /\ Nesting[b[i].body] < Nesting[b]
            /\ b[i].orelse \in Body /\ Nesting[b[i].orelse] < Nesting[b]

Status == {"Integrity", "Incomplete"}
RequiredFields == {"reason", "max_confidence", "partial_findings"}

IsProducer(f) == f.returns = Status

(* IfStmt.negated looks at the outermost operator of the condition only.   *)
Negated(s) == s.nots > 0

-----------------------------------------------------------------------------
(* Where the statements of one kind stand in a body.                       *)
At(b, op) == {i \in DOMAIN b : b[i].op = op}

(* Faulty variant of Calls: the else-arm is not walked.                    *)
CallsOfThen(body) ==
  LET calls[b \in Body] ==
        {b[i].head : i \in At(b, "call")} \cup UNION {calls[b[i].body] : i \in At(b, "if")}
  IN  calls[body]

(* The calls the parser records: those that are statements.                *)
Calls(body) ==
  LET calls[b \in Body] ==
        {b[i].head : i \in At(b, "call")}
        \cup UNION {calls[b[i].body] \cup calls[b[i].orelse] : i \in At(b, "if")}
  IN  calls[body]

ReturnExists(body) ==
  LET exists[b \in Body] ==
        \/ At(b, "return") # {}
        \/ \E i \in At(b, "if") : exists[b[i].body] \/ exists[b[i].orelse]
  IN  exists[body]

(* Faulty variant of AllPathsReturn: one arm that returns is enough.       *)
EitherArmReturns(body) ==
  LET returns[b \in Body] ==
        \/ At(b, "return") # {}
        \/ \E i \in At(b, "if") :
             b[i].orelse # << >> /\ (returns[b[i].body] \/ returns[b[i].orelse])
  IN  returns[body]

(* Faulty variant of AllPathsReturn: only the last statement is looked at. *)
EndsWithReturn(body) == body # << >> /\ body[Len(body)].op = "return"

AllPathsReturn(body) ==
  LET returns[b \in Body] ==
        \/ At(b, "return") # {}
        \/ \E i \in At(b, "if") :
             b[i].orelse # << >> /\ returns[b[i].body] /\ returns[b[i].orelse]
  IN  returns[body]

(* Every return of a body with the polarities of the ifs around it.  The   *)
(* else-arm has the opposite polarity of the then-arm.                     *)
Polarity(negated) == IF negated THEN "negated" ELSE "non-negated"

Return(value) == [value |-> value, guards |-> {}]

Guarded(returns, polarity) ==
  {[value |-> r.value, guards |-> r.guards \cup {polarity}] : r \in returns}

(* Faulty variant of Returns: the else-arm keeps the then-arm's polarity.  *)
UnflippedReturns(body) ==
  LET returns[b \in Body] ==
        {Return(b[i].value) : i \in At(b, "return")}
        \cup UNION {Guarded(returns[b[i].body] \cup returns[b[i].orelse], Polarity(Negated(b[i])))
                    : i \in At(b, "if")}
  IN  returns[body]

(* Faulty variant of Returns: the else-arm is not walked.                  *)
ReturnsOfThen(body) ==
  LET returns[b \in Body] ==
        {Return(b[i].value) : i \in At(b, "return")}
        \cup UNION {Guarded(returns[b[i].body], Polarity(Negated(b[i]))) : i \in At(b, "if")}
  IN  returns[body]

Returns(body) ==
  LET returns[b \in Body] ==
        {Return(b[i].value) : i \in At(b, "return")}
        \cup UNION {Guarded(returns[b[i].body], Polarity(Negated(b[i])))
                    \cup Guarded(returns[b[i].orelse], Polarity(~Negated(b[i])))
                    : i \in At(b, "if")}
  IN  returns[body]

-----------------------------------------------------------------------------
MissingReturn(f) == f.returns # {} /\ ~ReturnExists(f.body)

MissingPath(f) ==
  f.returns # {} /\ ReturnExists(f.body) /\ ~AllPathsReturn(f.body)

(* Only the two status literals have a type the checker can infer.         *)
TypeMismatch(f) ==
  /\ f.returns # {}
  /\ \E r \in Returns(f.body) : r.value.kind \in Status \ f.returns

UnguardedIntegrity(f) ==
  /\ IsProducer(f)
  /\ \E r \in Returns(f.body) :
       r.value.kind = "Integrity" /\ "negated" \notin r.guards

(* Faulty variant of MissingFields: one of the fields is enough.           *)
MissingEveryField(f) ==
  \E r \in Returns(f.body) :
    r.value.kind = "Incomplete" /\ RequiredFields \cap r.value.fields = {}

MissingFields(f) ==
  \E r \in Returns(f.body) :
    r.value.kind = "Incomplete" /\ ~(RequiredFields \subseteq r.value.fields)

(* Producers are looked up among the functions of the same module.         *)
CallsProducer(program, f) ==
  \E h \in Calls(f.body) : h \in DOMAIN program /\ IsProducer(program[h])

StatusCollapse(program, f) ==
  f.returns # {} /\ ~IsProducer(f) /\ CallsProducer(program, f)

StatusDiscard(program, f) == f.returns = {} /\ CallsProducer(program, f)

OutOfScope(f, notScope) == Calls(f.body) \cap notScope # {}

(* The findings on function n of a program.                                *)
Findings(program, n, notScope) ==
  LET f == program[n]
  IN  (IF MissingReturn(f) THEN {"R3"} ELSE {})
      \cup (IF MissingPath(f) THEN {"P1"} ELSE {})
      \cup (IF TypeMismatch(f) THEN {"M1"} ELSE {})
      \cup (IF UnguardedIntegrity(f) THEN {"A"} ELSE {})
      \cup (IF MissingFields(f) THEN {"B"} ELSE {})
      \cup (IF StatusCollapse(program, f) THEN {"S1"} ELSE {})
      \cup (IF StatusDiscard(program, f) THEN {"S2"} ELSE {})
      \cup (IF OutOfScope(f, notScope) THEN {"scope"} ELSE {})
=============================================================================
