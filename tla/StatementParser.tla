-------------------------- MODULE StatementParser --------------------------
(***************************************************************************)
(* The statements and expressions of _Parser: recursive descent over the   *)
(* tokens of a function body, and of the bounds in a mizan block.  The     *)
(* Python call stack is the variable frames, one record for each active    *)
(* method; an action is what a method does between two looks at the next   *)
(* token.  ModuleParser adds the declarations around them.                 *)
(*                                                                         *)
(* A token is its kind.  Of the IDENT tokens those that matter for their   *)
(* text have a kind of their own: "Integrity", "Incomplete", "parts" (for  *)
(* partial_findings), "reason" (max_confidence, which differs from it only *)
(* in wanting a number, is left out), "verify", "v1" (any v with digits),  *)
(* and "doc" and "ident", two names.  "zahir" and "batin" stand for their  *)
(* English aliases too, "<" for either comparison operator.                *)
(***************************************************************************)
EXTENDS Naturals, Sequences, FiniteSets

CONSTANTS
  MaxDepth,     \* MAX_NESTING_DEPTH
  StackLimit    \* the calls that fit on the stack before a RecursionError

ASSUME LimitsAssumption == MaxDepth \in Nat /\ StackLimit \in Nat

VARIABLES
  source, pos,   \* tokens, and the index of the one peek() shows
  frames,        \* the active methods with their local variables
  value,         \* the expression just parsed, or None
  calls,         \* the accumulator of CallRefs, each [path, start]
  accesses,      \* that of LayerAccesses, each [param_name, layer, start]
  outcome        \* "running", "accepted", "rejected" or "overflow"

vars == <<source, pos, frames, value, calls, accesses, outcome>>

Names == {"ident", "doc", "v1", "verify", "Integrity", "Incomplete", "parts", "reason"}
Layers == {"zahir", "batin"}

None == [kind |-> "none"]

At(i) == IF i \in DOMAIN source THEN source[i] ELSE "eof"
Next1 == At(pos)
After == At(pos + 1)

Top == frames[Len(frames)]
Under == SubSeq(frames, 1, Len(frames) - 1)

Running == outcome = "running" /\ Len(frames) <= StackLimit
InBlock == Top.at \in {"fn", "then", "else"}
InPrimary == Top.at \in {"left", "right"} /\ value = None
HaveValue == value # None

(* advance(), k times.  No caller advances over EOF.                       *)
Advance(k) == pos' = pos + k

Reject == outcome' = "rejected" /\ UNCHANGED <<source, pos, frames, value, calls, accesses>>

(* The RecursionError that parse turns into a ParseError.                  *)
Overflow ==
  /\ outcome = "running" /\ Len(frames) > StackLimit
  /\ outcome' = "overflow"
  /\ UNCHANGED <<source, pos, frames, value, calls, accesses>>

Push(stack, frame) == Append(stack, frame)

(* The frame on top of the stack, a block, takes one more statement.       *)
WithStatement(stack, s) ==
  [stack EXCEPT ![Len(stack)].stmts = Append(@, s)]

-----------------------------------------------------------------------------
(* _parse_statement                                                        *)

(* The depth parameter: the if- and else-bodies around the statement.      *)
Depth == Cardinality({i \in DOMAIN frames : frames[i].at \in {"then", "else"}})


TooDeep == Depth > MaxDepth

AtStatement == Running /\ InBlock /\ Next1 \notin {"}", "eof"}

NoStatement ==
  /\ AtStatement
  /\ TooDeep \/ Next1 \notin {"return", "if"} \cup Names
  /\ Reject

StartReturn ==
  /\ AtStatement /\ ~TooDeep /\ Next1 = "return"
  /\ frames' = frames \o <<[at |-> "return"], [at |-> "left"]>>
  /\ Advance(1)
  /\ UNCHANGED <<source, value, calls, accesses, outcome>>

StartIf ==
  /\ AtStatement /\ ~TooDeep /\ Next1 = "if"
  /\ frames' = frames \o <<[at |-> "if"], [at |-> "left"]>>
  /\ Advance(1)
  /\ UNCHANGED <<source, value, calls, accesses, outcome>>

(* _parse_call up to the parenthesis: _parse_qual_name, expect LPAREN.     *)
StartCall ==
  /\ AtStatement /\ ~TooDeep /\ Next1 \in Names
  /\ frames' = Push(frames, [at |-> "path", path |-> <<Next1>>, start |-> pos])
  /\ Advance(1)
  /\ UNCHANGED <<source, value, calls, accesses, outcome>>

PathStep ==
  /\ Running /\ Top.at = "path"
  /\ IF Next1 = "." /\ After \in Names \cup Layers
     THEN /\ frames' = Push(Under, [Top EXCEPT !.path = Append(@, After)])
          /\ Advance(2)
     ELSE /\ Next1 = "("
          /\ frames' = Push(Under, [at |-> "args", path |-> Top.path, start |-> Top.start,
                                    parens |-> 1, found |-> << >>])
          /\ Advance(1)
  /\ UNCHANGED <<source, value, calls, accesses, outcome>>

NoPath ==
  /\ Running /\ Top.at = "path"
  /\ Next1 \notin {".", "("} \/ (Next1 = "." /\ After \notin Names \cup Layers)
  /\ Reject

-----------------------------------------------------------------------------
(* The argument list of a call statement is consumed, not parsed.          *)

IsAccess == Next1 \in Names /\ After = "." /\ At(pos + 2) \in Layers
Access == [param_name |-> Next1, layer |-> At(pos + 2), start |-> pos]

ArgOpen ==
  /\ Running /\ Top.at \in {"args", "opaque"} /\ Next1 = "("
  /\ frames' = Push(Under, [Top EXCEPT !.parens = @ + 1])
  /\ Advance(1)
  /\ UNCHANGED <<source, value, calls, accesses, outcome>>

ArgClose ==
  /\ Running /\ Top.at \in {"args", "opaque"} /\ Next1 = ")" /\ Top.parens > 1
  /\ frames' = Push(Under, [Top EXCEPT !.parens = @ - 1])
  /\ Advance(1)
  /\ UNCHANGED <<source, value, calls, accesses, outcome>>

(* Faulty variant of ArgAccess: only outside nested parentheses.           *)
ArgAccessAtTop ==
  /\ Running /\ Top.at = "args" /\ IsAccess
  /\ frames' = Push(Under, [Top EXCEPT !.found = IF Top.parens = 1 THEN Append(@, Access) ELSE @])
  /\ Advance(3)
  /\ UNCHANGED <<source, value, calls, accesses, outcome>>

ArgAccess ==
  /\ Running /\ Top.at = "args" /\ IsAccess
  /\ frames' = Push(Under, [Top EXCEPT !.found = Append(@, Access)])
  /\ Advance(3)
  /\ UNCHANGED <<source, value, calls, accesses, outcome>>

ArgSkip ==
  /\ Running /\ Top.at \in {"args", "opaque"}
  /\ Next1 \notin {"(", ")", "{", "}", "eof"}
  /\ ~(Top.at = "args" /\ IsAccess)
  /\ Advance(1)
  /\ UNCHANGED <<source, frames, value, calls, accesses, outcome>>

(* Faulty variant of ArgStray: the end of the tokens is not looked for.    *)
ArgStrayBrace ==
  /\ Running /\ Top.at \in {"args", "opaque"} /\ Next1 \in {"{", "}"}
  /\ Reject

(* A brace in either list, and the end of the tokens in a statement's.     *)
ArgStray ==
  /\ Running
  /\ \/ Top.at \in {"args", "opaque"} /\ Next1 \in {"{", "}"}
     \/ Top.at = "args" /\ Next1 = "eof"
  /\ Reject

EndCall ==
  /\ Running /\ Top.at = "args" /\ Next1 = ")" /\ Top.parens = 1
  /\ frames' = WithStatement(Under, [op |-> "call", path |-> Top.path, start |-> Top.start])
  /\ calls' = Append(calls, [path |-> Top.path, start |-> Top.start])
  /\ accesses' = accesses \o Top.found
  /\ Advance(1)
  /\ UNCHANGED <<source, value, outcome>>

-----------------------------------------------------------------------------
(* _parse_primary_expression                                               *)

IsIncomplete == Next1 = "Incomplete" /\ After = "{"

ParseNot ==
  /\ Running /\ InPrimary /\ Next1 = "not"
  /\ frames' = frames \o <<[at |-> "not"], [at |-> "left"]>>
  /\ Advance(1)
  /\ UNCHANGED <<source, value, calls, accesses, outcome>>

(* A string, or Integrity.                                                 *)
ParseLiteral ==
  /\ Running /\ InPrimary /\ Next1 \in {"str", "Integrity"}
  /\ value' = [kind |-> Next1]
  /\ Advance(1)
  /\ UNCHANGED <<source, frames, calls, accesses, outcome>>

StartNumber ==
  /\ Running /\ InPrimary /\ Next1 = "num"
  /\ frames' = Push(frames, [at |-> "number", parts |-> 1])
  /\ Advance(1)
  /\ UNCHANGED <<source, value, calls, accesses, outcome>>

InNumber ==
  /\ Running /\ Top.at = "number"
  /\ IF Next1 = "."
     THEN /\ After = "num"
          /\ frames' = Push(Under, [Top EXCEPT !.parts = @ + 1])
          /\ Advance(2)
          /\ UNCHANGED value
     ELSE /\ value' = [kind |-> "num", parts |-> Top.parts]
          /\ frames' = Under
          /\ UNCHANGED pos
  /\ UNCHANGED <<source, calls, accesses, outcome>>

NoNumber ==
  /\ Running /\ Top.at = "number" /\ Next1 = "." /\ After # "num"
  /\ Reject

(* A name, and the call form of one, whose arguments leave no trace.       *)
ParseName ==
  /\ Running /\ InPrimary /\ Next1 \in Names \ {"Integrity"} /\ ~IsIncomplete
  /\ IF After = "("
     THEN /\ frames' = Push(frames, [at |-> "opaque", parens |-> 1, name |-> Next1])
          /\ Advance(2)
          /\ UNCHANGED value
     ELSE /\ value' = [kind |-> "name", name |-> Next1, call |-> FALSE]
          /\ Advance(1)
          /\ UNCHANGED frames
  /\ UNCHANGED <<source, calls, accesses, outcome>>

(* The loop over the arguments also ends at EOF, without an error.         *)
EndOpaque ==
  /\ Running /\ Top.at = "opaque"
  /\ Next1 = "eof" \/ (Next1 = ")" /\ Top.parens = 1)
  /\ frames' = Under
  /\ value' = [kind |-> "name", name |-> Top.name, call |-> TRUE]
  /\ Advance(IF Next1 = "eof" THEN 0 ELSE 1)
  /\ UNCHANGED <<source, calls, accesses, outcome>>

NoExpression ==
  /\ Running /\ InPrimary /\ Next1 \notin Names \cup {"not", "str", "num"}
  /\ Reject

-----------------------------------------------------------------------------
(* _parse_incomplete_literal and its fields                                *)

OpenIncomplete ==
  /\ Running /\ InPrimary /\ IsIncomplete
  /\ frames' = Push(frames, [at |-> "fields", fields |-> << >>])
  /\ Advance(2)
  /\ UNCHANGED <<source, value, calls, accesses, outcome>>

WithField(stack, f) == [stack EXCEPT ![Len(stack)].fields = Append(@, f)]

(* The comma after a field is optional; it is not looked for before "}".   *)
PastComma(i) == IF At(i) = "," THEN i + 1 ELSE i

(* reason wants a string; partial_findings a list of names; a field of any *)
(* other name takes an expression.                                         *)
ReasonField ==
  /\ Running /\ Top.at = "fields" /\ Next1 = "reason" /\ After = ":"
  /\ At(pos + 2) = "str"
  /\ frames' = WithField(frames, [name |-> "reason", value |-> [kind |-> "str"]])
  /\ pos' = PastComma(pos + 3)
  /\ UNCHANGED <<source, value, calls, accesses, outcome>>

StartParts ==
  /\ Running /\ Top.at = "fields" /\ Next1 = "parts" /\ After = ":"
  /\ At(pos + 2) \in Names
  /\ frames' = Push(frames, [at |-> "parts", items |-> <<At(pos + 2)>>])
  /\ Advance(3)
  /\ UNCHANGED <<source, value, calls, accesses, outcome>>

InParts ==
  /\ Running /\ Top.at = "parts"
  /\ IF Next1 = ","
     THEN /\ After \in Names
          /\ frames' = Push(Under, [Top EXCEPT !.items = Append(@, After)])
          /\ Advance(2)
     ELSE /\ frames' = WithField(Under, [name |-> "parts",
                                         value |-> [kind |-> "parts", items |-> Top.items]])
          /\ UNCHANGED pos
  /\ UNCHANGED <<source, value, calls, accesses, outcome>>

NoPart ==
  /\ Running /\ Top.at = "parts" /\ Next1 = "," /\ After \notin Names
  /\ Reject

OtherField ==
  /\ Running /\ Top.at = "fields" /\ Next1 \in Names \ {"reason", "parts"} /\ After = ":"
  /\ frames' = frames \o <<[at |-> "field", name |-> Next1], [at |-> "left"]>>
  /\ Advance(2)
  /\ UNCHANGED <<source, value, calls, accesses, outcome>>

NoField ==
  /\ Running /\ Top.at = "fields" /\ Next1 # "}"
  /\ \/ Next1 \notin Names
     \/ After # ":"
     \/ Next1 = "reason" /\ At(pos + 2) # "str"
     \/ Next1 = "parts" /\ At(pos + 2) \notin Names
  /\ Reject

EndIncomplete ==
  /\ Running /\ Top.at = "fields" /\ Next1 = "}"
  /\ frames' = Under
  /\ value' = [kind |-> "incomplete", fields |-> Top.fields]
  /\ Advance(1)
  /\ UNCHANGED <<source, calls, accesses, outcome>>

-----------------------------------------------------------------------------
(* _parse_expression, and what its callers do with the value.              *)

StartRight ==
  /\ Running /\ HaveValue /\ Top.at = "left" /\ Next1 = "<"
  /\ frames' = Push(Under, [at |-> "right", left |-> value])
  /\ value' = None
  /\ Advance(1)
  /\ UNCHANGED <<source, calls, accesses, outcome>>

EndExpression ==
  /\ Running /\ HaveValue /\ Top.at \in {"left", "right"} /\ Next1 # "<"
  /\ frames' = Under
  /\ value' = IF Top.at = "left" THEN value
              ELSE [kind |-> "compare", left |-> Top.left, right |-> value]
  /\ UNCHANGED <<source, pos, calls, accesses, outcome>>

(* a < b < c                                                               *)
Chained ==
  /\ Running /\ HaveValue /\ Top.at = "right" /\ Next1 = "<"
  /\ Reject

EndNot ==
  /\ Running /\ HaveValue /\ Top.at = "not"
  /\ frames' = Under
  /\ value' = [kind |-> "not", of |-> value]
  /\ UNCHANGED <<source, pos, calls, accesses, outcome>>

EndField ==
  /\ Running /\ HaveValue /\ Top.at = "field"
  /\ frames' = WithField(Under, [name |-> Top.name, value |-> value])
  /\ value' = None
  /\ pos' = PastComma(pos)
  /\ UNCHANGED <<source, calls, accesses, outcome>>

(* Faulty variant of EndReturn: the expression is not taken over.          *)
EndReturnKeeps ==
  /\ Running /\ HaveValue /\ Top.at = "return"
  /\ frames' = WithStatement(Under, [op |-> "return", value |-> value])
  /\ UNCHANGED <<source, pos, value, calls, accesses, outcome>>

EndReturn ==
  /\ Running /\ HaveValue /\ Top.at = "return"
  /\ frames' = WithStatement(Under, [op |-> "return", value |-> value])
  /\ value' = None
  /\ UNCHANGED <<source, pos, calls, accesses, outcome>>

(* The condition of an if is read: its body opens.                         *)
OpenThen ==
  /\ Running /\ HaveValue /\ Top.at = "if" /\ Next1 = "{"
  /\ frames' = Push(Under, [at |-> "then", cond |-> value, stmts |-> << >>])
  /\ value' = None
  /\ Advance(1)
  /\ UNCHANGED <<source, calls, accesses, outcome>>

NoThen ==
  /\ Running /\ HaveValue /\ Top.at = "if" /\ Next1 # "{"
  /\ Reject

-----------------------------------------------------------------------------
(* The end of a block.                                                     *)

If(cond, body, orelse) == [op |-> "if", cond |-> cond, body |-> body, orelse |-> orelse]

(* The brace that closes an if-body, with or without an else behind it.    *)
EndThen ==
  /\ Running /\ Top.at = "then" /\ Next1 = "}" /\ After # "else"
  /\ frames' = WithStatement(Under, If(Top.cond, Top.stmts, << >>))
  /\ Advance(1)
  /\ UNCHANGED <<source, value, calls, accesses, outcome>>

OpenElse ==
  /\ Running /\ Top.at = "then" /\ Next1 = "}" /\ After = "else"
  /\ At(pos + 2) = "{"
  /\ frames' = Push(Under, [at |-> "else", cond |-> Top.cond, then |-> Top.stmts, stmts |-> << >>])
  /\ Advance(3)
  /\ UNCHANGED <<source, value, calls, accesses, outcome>>

NoElse ==
  /\ Running /\ Top.at = "then" /\ Next1 = "}" /\ After = "else"
  /\ At(pos + 2) # "{"
  /\ Reject

EndElse ==
  /\ Running /\ Top.at = "else" /\ Next1 = "}"
  /\ frames' = WithStatement(Under, If(Top.cond, Top.then, Top.stmts))
  /\ Advance(1)
  /\ UNCHANGED <<source, value, calls, accesses, outcome>>

NoEnd ==
  /\ Running /\ InBlock /\ Next1 = "eof"
  /\ Reject

Statement == NoStatement \/ StartReturn \/ StartIf \/ StartCall
Call == PathStep \/ NoPath \/ ArgOpen \/ ArgClose \/ ArgAccess \/ ArgSkip \/ ArgStray \/ EndCall
Primary == ParseNot \/ ParseLiteral \/ StartNumber \/ InNumber \/ NoNumber
             \/ ParseName \/ EndOpaque \/ NoExpression
Incomplete == OpenIncomplete \/ ReasonField \/ StartParts \/ InParts \/ NoPart
                \/ OtherField \/ NoField \/ EndIncomplete
Expression == StartRight \/ EndExpression \/ Chained \/ EndNot \/ EndField
                \/ EndReturn \/ OpenThen \/ NoThen
BlockEnd == EndThen \/ OpenElse \/ NoElse \/ EndElse \/ NoEnd
=============================================================================
