----------------------------- MODULE FunctionRun -----------------------------
(***************************************************************************)
(* What the findings of the function checkers promise about a module when  *)
(* its functions run.  Furqan has no back end; the meaning a body has here *)
(* is the one the checkers' documentation argues with: statements run in   *)
(* order, an if takes an arm, return ends the function with its value, and *)
(* a call runs the function it names.                                      *)
(***************************************************************************)
EXTENDS FunctionChecks

CONSTANTS
  Programs,    \* the modules, each a function from names to functions
  NotScope,    \* the names the bismillah block excludes
  MaxDepth     \* bound on the call stack

ASSUME MaxDepthAssumption == MaxDepth \in Nat \ {0}

ASSUME ProgramsAssumption ==
  \A p \in Programs : \A n \in DOMAIN p : p[n].body \in Body

VARIABLES
  program,
  findings,    \* of the checkers, per function; << >> before they ran
  stack,       \* frames [fn, todo, ruledOut], the running one last
  outcome,     \* how the last finished call ended
  called       \* the names outside the module called so far

vars == <<program, findings, stack, outcome, called>>

Names == DOMAIN program

NoOutcome == [fn |-> "", how |-> "none"]
Value(f, v, r) == [fn |-> f, how |-> "value", value |-> v, ruledOut |-> r]
FellThrough(f) == [fn |-> f, how |-> "fell"]

Checked == findings # << >>

Init ==
  /\ program \in Programs
  /\ findings = << >>
  /\ stack = << >>
  /\ outcome = NoOutcome
  /\ called = {}

(* Faulty variant of Check: functions without a signature are skipped.     *)
CheckTyped ==
  /\ ~Checked
  /\ findings' = [n \in {m \in Names : program[m].returns # {}} |->
                    Findings(program, n, NotScope)]
  /\ UNCHANGED <<program, stack, outcome, called>>

Check ==
  /\ ~Checked
  /\ findings' = [n \in Names |-> Findings(program, n, NotScope)]
  /\ UNCHANGED <<program, stack, outcome, called>>

Frame(n) == [fn |-> n, todo |-> program[n].body, ruledOut |-> FALSE]

Running == stack[Len(stack)]
Head1 == Running.todo[1]
Below == SubSeq(stack, 1, Len(stack) - 1)
Rest(frame) == [frame EXCEPT !.todo = Tail(@)]

Ready(op) == stack # << >> /\ Running.todo # << >> /\ Head1.op = op

(* Any function of a checked module may be the entry point.                *)
Start(n) ==
  /\ Checked /\ stack = << >> /\ outcome = NoOutcome
  /\ stack' = <<Frame(n)>>
  /\ UNCHANGED <<program, findings, outcome, called>>

CallFunction ==
  /\ Ready("call")
  /\ Head1.head \in Names /\ Len(stack) < MaxDepth
  /\ stack' = Append(Append(Below, Rest(Running)), Frame(Head1.head))
  /\ UNCHANGED <<program, findings, outcome, called>>

CallOutside ==
  /\ Ready("call")
  /\ Head1.head \notin Names
  /\ stack' = Append(Below, Rest(Running))
  /\ called' = called \cup {Head1.head}
  /\ UNCHANGED <<program, findings, outcome>>

(* The predicate of the if is true or false; a branch it was false on has  *)
(* ruled something out.                                                    *)
Branch(predicate) ==
  /\ Ready("if")
  /\ LET holds == IF Head1.nots % 2 = 0 THEN predicate ELSE ~predicate
         arm == IF holds THEN Head1.body ELSE Head1.orelse
     IN  stack' = Append(Below, [Running EXCEPT
                    !.todo = arm \o Tail(@), !.ruledOut = @ \/ ~predicate])
  /\ UNCHANGED <<program, findings, outcome, called>>

ReturnValue ==
  /\ Ready("return") /\ Head1.value.kind # "call"
  /\ stack' = Below
  /\ outcome' = Value(Running.fn, Head1.value, Running.ruledOut)
  /\ UNCHANGED <<program, findings, called>>

(* `return g(...)` runs g, then hands on what g returned.                  *)
ReturnCall ==
  /\ Ready("return") /\ Head1.value.kind = "call" /\ Len(stack) < MaxDepth
  /\ IF Head1.value.head \in Names
       THEN /\ stack' = Append(Append(Below, [Running EXCEPT !.todo = << [op |-> "handOn"] >>]),
                               Frame(Head1.value.head))
            /\ UNCHANGED <<outcome, called>>
       ELSE /\ stack' = Below
            /\ outcome' = Value(Running.fn, [kind |-> "name"], Running.ruledOut)
            /\ called' = called \cup {Head1.value.head}
  /\ UNCHANGED <<program, findings>>

HandOn ==
  /\ Ready("handOn")
  /\ stack' = Below
  /\ outcome' = Value(Running.fn,
                      IF outcome.how = "value" THEN outcome.value ELSE [kind |-> "name"],
                      Running.ruledOut)
  /\ UNCHANGED <<program, findings, called>>

FallThrough ==
  /\ stack # << >> /\ Running.todo = << >>
  /\ stack' = Below
  /\ outcome' = FellThrough(Running.fn)
  /\ UNCHANGED <<program, findings, called>>

Next ==
  \/ Check
  \/ \E n \in Names : Start(n)
  \/ CallFunction
  \/ CallOutside
  \/ \E predicate \in BOOLEAN : Branch(predicate)
  \/ ReturnValue
  \/ ReturnCall
  \/ HandOn
  \/ FallThrough

Spec == Init /\ [][Next]_vars

-----------------------------------------------------------------------------
TypeOK ==
  /\ program \in Programs
  /\ Checked => /\ DOMAIN findings = Names
                /\ \A n \in Names :
                     findings[n] \subseteq {"R3", "P1", "M1", "A", "B", "S1", "S2", "scope"}
  /\ Len(stack) <= MaxDepth
  /\ \A i \in DOMAIN stack : stack[i].fn \in Names /\ stack[i].ruledOut \in BOOLEAN
  /\ outcome.how \in {"none", "value", "fell"}
  /\ called \cap Names = {}

Of == program[outcome.fn]
FoundOn(n, rules) == findings[n] \cap rules # {}

(* R3 and P1 together: a function that declares a return type and that     *)
(* neither of them reports never runs off the end of its body.             *)
ReturnsEverywhere ==
  outcome.how = "fell" /\ Of.returns # {} => FoundOn(outcome.fn, {"R3", "P1"})

(* How a body can end where `ends` says so of the arms of its ifs: past    *)
(* its last statement, or at a statement that gives a value.               *)
Falls(s, ends) == \/ s.op = "call"
                  \/ s.op = "if" /\ "fell" \in ends[s.body] \cup ends[s.orelse]
Gives(s, ends) == \/ s.op = "return"
                  \/ s.op = "if" /\ "value" \in ends[s.body] \cup ends[s.orelse]

Ends(body) ==
  LET ends[b \in Body] ==
        (IF \A i \in DOMAIN b : Falls(b[i], ends) THEN {"fell"} ELSE {})
        \cup (IF \E i \in DOMAIN b : Gives(b[i], ends) /\ \A j \in 1 .. (i - 1) : Falls(b[j], ends)
              THEN {"value"} ELSE {})
  IN  ends[body]

(* "The analysis is exact for the current grammar": P1 is reported exactly *)
(* for the functions that can end both ways, and never along with R3.      *)
MissingPathIsExact ==
  Checked => \A n \in Names :
    /\ "P1" \in findings[n] <=>
         program[n].returns # {} /\ Ends(program[n].body) = {"fell", "value"}
    /\ ~({"R3", "P1"} \subseteq findings[n])

(* The calls of the program are statements, which the parser records; a    *)
(* call in a return expression leaves no trace the checkers could follow.  *)
CallsAreStatements ==
  \A n \in Names : \A r \in Returns(program[n].body) : r.value.kind # "call"

(* A status a function returns is one its signature names, or a finding    *)
(* says that it is not.                                                    *)
SignatureKept ==
  outcome.how = "value" /\ outcome.value.kind \in Status /\ Of.returns # {} =>
    \/ outcome.value.kind \in Of.returns
    \/ FoundOn(outcome.fn, {"M1", "S1"})

(* Case B: an Incomplete a function returns says why and what is missing,  *)
(* or a finding says that it does not.                                     *)
FieldsKept ==
  outcome.how = "value" /\ outcome.value.kind = "Incomplete" =>
    RequiredFields \subseteq outcome.value.fields \/ FoundOn(outcome.fn, {"B"})

(* Both, where the checkers see every call: what a function returns, out   *)
(* of whatever arm, keeps to its signature and to the required fields, or  *)
(* the function was reported.                                              *)
LiteralsKeepSignature == CallsAreStatements => SignatureKept /\ FieldsKept

(* Case A: where no finding says otherwise, a producer returns Integrity   *)
(* only after some predicate turned out false.                             *)
IntegrityRuledOut ==
  (/\ CallsAreStatements
   /\ outcome.how = "value" /\ outcome.value.kind = "Integrity" /\ IsProducer(Of))
  => outcome.ruledOut \/ FoundOn(outcome.fn, {"A"})

(* D25, which the local check is not credited with: in a chain of running  *)
(* calls that starts in a function whose signature has no union and gets   *)
(* to a producer, some caller in between was reported.                     *)
NoSilentNarrowing ==
  CallsAreStatements => \A i, j \in DOMAIN stack :
    i < j /\ IsProducer(program[stack[j].fn]) =>
      \/ IsProducer(program[stack[i].fn])
      \/ \E k \in i .. (j - 1) : FoundOn(stack[k].fn, {"S1", "S2"})

(* "A function that invokes a name the module has explicitly excluded is a *)
(* silent violation [...].  The checker makes the violation loud."         *)
ScopeKept ==
  CallsAreStatements /\ called \cap NotScope # {} => \E n \in Names : FoundOn(n, {"scope"})
=============================================================================
