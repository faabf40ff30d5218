---------------------------- MODULE ModuleParser ----------------------------
(***************************************************************************)
(* parse(): parse_module and the declarations of a module, around the      *)
(* bodies and expressions of StatementParser, on the same call stack.  At  *)
(* its bottom is the module under construction.  A run of calls of expect  *)
(* is a pattern: each token must be of the class at its place.             *)
(*                                                                         *)
(* "bismillah" stands for scope_block too, "bump" for major_version_bump.  *)
(***************************************************************************)
EXTENDS StatementParser, TLC

CONSTANT Sources   \* the token sequences

(* The tokenizer ends the tokens with EOF, and emits no other.             *)
ASSUME SourcesAssumption ==
  \A s \in Sources :
    /\ s \in Seq({s[i] : i \in DOMAIN s}) /\ s # << >>
    /\ \A i \in DOMAIN s : s[i] = "eof" <=> i = Len(s)

Matches(i, pattern) == \A k \in DOMAIN pattern : At(i + k - 1) \in pattern[k]

(* The module, a field of which takes one more declaration.                *)
WithItem(stack, field, item) == [stack EXCEPT ![Len(stack)][field] = Append(@, item)]

(* A method that has read a run of tokens calls another.                   *)
Open(count, frame) ==
  /\ frames' = Push(frames, frame)
  /\ Advance(count)
  /\ UNCHANGED <<source, value, calls, accesses, outcome>>

(* A method goes on, or its caller does, with other local variables.       *)
GoOn(to, stack) ==
  /\ frames' = stack
  /\ pos' = to
  /\ UNCHANGED <<source, value, calls, accesses, outcome>>

EmptyModule ==
  [at |-> "module", bismillah |-> None, functions |-> << >>, compound_types |-> << >>,
   additive_only_modules |-> << >>, mizan_decls |-> << >>, tanzil_decls |-> << >>]

Init ==
  /\ source \in Sources
  /\ pos = 1
  /\ frames = <<EmptyModule>>
  /\ value = None
  /\ calls = << >> /\ accesses = << >>
  /\ outcome = "running"

-----------------------------------------------------------------------------
(* The loops over items that begin with a keyword, and what each keyword   *)
(* wants behind it.                                                        *)

MizanHeads == {"la_tatghaw", "la_tukhsiru", "bil_qist"}
BismillahFields == {"authority", "serves", "scope", "not_scope"}

HasBismillah == frames[1].bismillah # None

(* A second bismillah block is refused with the rest.                      *)
ModuleItems ==
  IF HasBismillah THEN {"fn", "type", "additive_only", "mizan", "tanzil"} ELSE {"bismillah"}

(* One catalog for each module.                                            *)
SurfaceItems == {"export"} \cup IF Top.bump = None THEN {"bump"} ELSE {}

(* What the loop of the innermost method takes: parse_module,              *)
(* parse_bismillah_block, parse_additive_only_module_decl,                 *)
(* _parse_major_version_bump, parse_mizan_decl and parse_tanzil_decl.      *)
Accepted ==
  CASE Top.at = "module"    -> ModuleItems
    [] Top.at = "bismillah" -> BismillahFields
    [] Top.at = "exports"   -> SurfaceItems
    [] Top.at = "bump"      -> {"removes", "renames"}
    [] Top.at = "mizan"     -> MizanHeads
    [] Top.at = "tanzil"    -> {"depends_on"}
    [] OTHER                -> {}

InLoop == Top.at \in {"module", "bismillah", "exports", "bump", "mizan", "tanzil"}

ItemPattern(field) == IF field = "renames" THEN <<Names, {"->"}, Names>> ELSE <<Names>>

(* _parse_type_path at token i.                                            *)
IsType(i) == At(i) \in Names /\ (At(i + 1) = "." => At(i + 2) \in Layers)
TypeEnd(i) == IF At(i + 1) = "." THEN i + 3 ELSE i + 1
TypePath(i) == [base |-> At(i), layer |-> IF At(i + 1) = "." THEN At(i + 2) ELSE "none"]

BlockHead == <<Names, {"{"}>>
FunctionHead == <<Names, {"("}>>
TypeHead == <<Names, {"{"}, {"zahir"}, {"{"}>>
AdditiveHead == <<{"module"}, Names, {"v1"}, {"."}, {"num"}>>

(* The calls of expect behind the keyword.                                 *)
WellBegun ==
  CASE Next1 = "fn"     -> Matches(pos + 1, FunctionHead)
    [] Next1 = "type"   -> Matches(pos + 1, TypeHead)
    [] Next1 = "additive_only" -> Matches(pos + 1, AdditiveHead)
    [] Next1 \in {"bismillah", "mizan", "tanzil"} -> Matches(pos + 1, BlockHead)
    [] Next1 = "bump"   -> After = "{"
    [] Next1 = "export" -> Matches(pos + 1, <<Names, {":"}>>) /\ IsType(pos + 3)
    [] Next1 \in MizanHeads -> After = ":"
    [] OTHER            -> Matches(pos + 1, <<{":"}>> \o ItemPattern(Next1))

(* An item of the loop that the innermost method runs.                     *)
Item(keywords) == Running /\ InLoop /\ Next1 \in keywords \cap Accepted /\ WellBegun

(* Anything else, the end of the tokens included, unless the loop may end. *)
NoItem ==
  /\ Running /\ InLoop
  /\ Next1 \notin Accepted \/ ~WellBegun
  /\ ~(Top.at = "module" /\ HasBismillah /\ Next1 = "eof")
  /\ ~(Top.at # "module" /\ Next1 = "}")
  /\ Reject

EndOf(method) == Running /\ Top.at = method /\ Next1 = "}"

-----------------------------------------------------------------------------
(* parse_bismillah_block; the comma lists of it and of a bump catalog.     *)

OpenBismillah ==
  /\ Item({"bismillah"})
  /\ Open(3, [at |-> "bismillah", name |-> After, fields |-> << >>])

(* An entry of the list of a field, at token i.                            *)
Entry(field, i) ==
  CASE field = "serves"  -> <<At(i)>>
    [] field = "renames" -> [old |-> At(i), new |-> At(i + 2)]
    [] OTHER             -> At(i)

StartList ==
  /\ Item(BismillahFields \cup {"removes", "renames"})
  /\ Open(2 + Len(ItemPattern(Next1)),
          [at |-> "list", of |-> Next1, items |-> <<Entry(Next1, pos + 2)>>])

(* Only serves takes qualified names.                                      *)
AtDot == Top.of = "serves" /\ Next1 = "."

MoreOfName ==
  /\ Running /\ Top.at = "list" /\ AtDot /\ After \in Names \cup Layers
  /\ GoOn(pos + 2, Push(Under, [Top EXCEPT !.items[Len(Top.items)] = Append(@, After)]))

MoreItems ==
  /\ Running /\ Top.at = "list" /\ Next1 = "," /\ Matches(pos + 1, ItemPattern(Top.of))
  /\ GoOn(pos + 1 + Len(ItemPattern(Top.of)),
          Push(Under, [Top EXCEPT !.items = Append(@, Entry(Top.of, pos + 1))]))

NoMore ==
  /\ Running /\ Top.at = "list"
  /\ \/ AtDot /\ After \notin Names \cup Layers
     \/ Next1 = "," /\ ~Matches(pos + 1, ItemPattern(Top.of))
  /\ Reject

(* Faulty variant of WithList: the first of a repeated field stays.        *)
WithFirstList(stack, field, items) ==
  IF field \in BismillahFields
  THEN [stack EXCEPT ![Len(stack)].fields = @ @@ (field :> items)]
  ELSE [stack EXCEPT ![Len(stack)][field] = @ \o items]

(* A repeated field of the bismillah block replaces the earlier one; the   *)
(* entries of a catalog add up.                                            *)
WithList(stack, field, items) ==
  IF field \in BismillahFields
  THEN [stack EXCEPT ![Len(stack)].fields = (field :> items) @@ @]
  ELSE [stack EXCEPT ![Len(stack)][field] = @ \o items]

EndList ==
  /\ Running /\ Top.at = "list" /\ ~AtDot /\ Next1 # ","
  /\ GoOn(pos, WithList(Under, Top.of, Top.items))

EndBismillah ==
  /\ EndOf("bismillah") /\ DOMAIN Top.fields = BismillahFields
  /\ GoOn(pos + 1, [Under EXCEPT ![1].bismillah = [name |-> Top.name, fields |-> Top.fields]])

MissingField ==
  /\ EndOf("bismillah") /\ DOMAIN Top.fields # BismillahFields
  /\ Reject

-----------------------------------------------------------------------------
(* parse_compound_type_def: the zahir layer, then the batin layer.         *)

OpenType ==
  /\ Item({"type"})
  /\ Open(5, [at |-> "zahir", name |-> After, fields |-> << >>])

IsField == Matches(pos, <<Names, {":"}, Names>>)

FieldDecl ==
  /\ Running /\ Top.at \in Layers /\ IsField
  /\ GoOn(pos + 3, WithItem(frames, "fields", [name |-> Next1, type |-> At(pos + 2)]))

OpenBatin ==
  /\ EndOf("zahir") /\ Matches(pos + 1, <<{"batin"}, {"{"}>>)
  /\ GoOn(pos + 3, Push(Under, [at |-> "batin", name |-> Top.name, zahir |-> Top.fields,
                                fields |-> << >>]))

EndType ==
  /\ EndOf("batin") /\ After = "}"
  /\ GoOn(pos + 2, WithItem(Under, "compound_types",
                            [name |-> Top.name, zahir |-> Top.zahir, batin |-> Top.fields]))

NoLayer ==
  /\ Running /\ Top.at \in Layers
  /\ IF Next1 # "}" THEN ~IsField
     ELSE ~Matches(pos + 1, IF Top.at = "zahir" THEN <<{"batin"}, {"{"}>> ELSE <<{"}"}>>)
  /\ Reject

-----------------------------------------------------------------------------
(* parse_additive_only_module_decl, after the first minor of the version.  *)

OpenAdditive ==
  /\ Item({"additive_only"})
  /\ Open(6, [at |-> "version", name |-> At(pos + 2), parts |-> 2])

InVersion ==
  /\ Running /\ Top.at = "version" /\ Next1 = "." /\ After = "num"
  /\ GoOn(pos + 2, Push(Under, [Top EXCEPT !.parts = @ + 1]))

OpenExports ==
  /\ Running /\ Top.at = "version" /\ Next1 = "{"
  /\ GoOn(pos + 1, Push(Under, [at |-> "exports", name |-> Top.name, parts |-> Top.parts,
                                exports |-> << >>, bump |-> None]))

NoVersion ==
  /\ Running /\ Top.at = "version"
  /\ Next1 \notin {".", "{"} \/ (Next1 = "." /\ After # "num")
  /\ Reject

ExportDecl ==
  /\ Item({"export"})
  /\ GoOn(TypeEnd(pos + 3),
          WithItem(frames, "exports", [name |-> After, type_path |-> TypePath(pos + 3)]))

OpenBump ==
  /\ Item({"bump"})
  /\ Open(2, [at |-> "bump", removes |-> << >>, renames |-> << >>])

EndBump ==
  /\ EndOf("bump")
  /\ GoOn(pos + 1, [Under EXCEPT ![Len(Under)].bump =
                      [kind |-> "bump", removes |-> Top.removes, renames |-> Top.renames]])

EndAdditive ==
  /\ EndOf("exports")
  /\ GoOn(pos + 1, WithItem(Under, "additive_only_modules",
                            [name |-> Top.name, parts |-> Top.parts,
                             exports |-> Top.exports, bump |-> Top.bump]))

-----------------------------------------------------------------------------
(* parse_mizan_decl, whose bounds are expressions, and parse_tanzil_decl.  *)

OpenMizan ==
  /\ Item({"mizan"})
  /\ Open(3, [at |-> "mizan", name |-> After, fields |-> << >>])

StartBound ==
  /\ Item(MizanHeads)
  /\ frames' = frames \o <<[at |-> "bound", name |-> Next1], [at |-> "left"]>>
  /\ Advance(2)
  /\ UNCHANGED <<source, value, calls, accesses, outcome>>

EndBound ==
  /\ Running /\ HaveValue /\ Top.at = "bound"
  /\ frames' = WithField(Under, [name |-> Top.name, value |-> value])
  /\ value' = None
  /\ pos' = PastComma(pos)
  /\ UNCHANGED <<source, calls, accesses, outcome>>

EndMizan ==
  /\ EndOf("mizan")
  /\ GoOn(pos + 1, WithItem(Under, "mizan_decls", [name |-> Top.name, fields |-> Top.fields]))

OpenTanzil ==
  /\ Item({"tanzil"})
  /\ Open(3, [at |-> "tanzil", name |-> After, dependencies |-> << >>])

DependencyEntry ==
  /\ Item({"depends_on"})
  /\ GoOn(pos + 3, WithItem(frames, "dependencies", At(pos + 2)))

EndTanzil ==
  /\ EndOf("tanzil")
  /\ GoOn(pos + 1, WithItem(Under, "tanzil_decls",
                            [name |-> Top.name, dependencies |-> Top.dependencies]))

-----------------------------------------------------------------------------
(* parse_function_def up to the body, and its end.                         *)

OpenFunction ==
  /\ Item({"fn"})
  /\ Open(3, [at |-> "params", name |-> After, params |-> << >>])

IsParam(i) == Matches(i, <<Names, {":"}>>) /\ IsType(i + 2)

(* Where the next parameter begins: behind a comma, but for the first.     *)
ParamAt == IF Top.params = << >> THEN pos ELSE pos + 1
MoreParams == IF Top.params = << >> THEN Next1 # ")" ELSE Next1 = ","

Param ==
  /\ Running /\ Top.at = "params" /\ MoreParams /\ IsParam(ParamAt)
  /\ GoOn(TypeEnd(ParamAt + 2),
          WithItem(frames, "params",
                   [name |-> At(ParamAt), type_path |-> TypePath(ParamAt + 2)]))

EndParams ==
  /\ Running /\ Top.at = "params" /\ ~MoreParams /\ Next1 = ")"
  /\ GoOn(pos + 1, Push(Under, [at |-> "signature", name |-> Top.name, params |-> Top.params,
                                returns |-> << >>]))

NoParam ==
  /\ Running /\ Top.at = "params"
  /\ IF MoreParams THEN ~IsParam(ParamAt) ELSE Next1 # ")"
  /\ Reject

(* The arrow and a type, then at most one bar and another.                 *)
ArmMark == IF Top.returns = << >> THEN "->" ELSE "|"

ReturnArm ==
  /\ Running /\ Top.at = "signature"
  /\ Len(Top.returns) < 2 /\ Next1 = ArmMark /\ IsType(pos + 1)
  /\ GoOn(TypeEnd(pos + 1), WithItem(frames, "returns", TypePath(pos + 1)))

(* The lists of calls and accesses begin with the body.                    *)
OpenBody ==
  /\ Running /\ Top.at = "signature" /\ Next1 = "{"
  /\ frames' = Push(Under, [at |-> "fn", name |-> Top.name, params |-> Top.params,
                            returns |-> Top.returns, stmts |-> << >>])
  /\ Advance(1)
  /\ calls' = << >> /\ accesses' = << >>
  /\ UNCHANGED <<source, value, outcome>>

NoSignature ==
  /\ Running /\ Top.at = "signature" /\ Next1 # "{"
  /\ ~(Len(Top.returns) < 2 /\ Next1 = ArmMark /\ IsType(pos + 1))
  /\ Reject

EndBody ==
  /\ EndOf("fn")
  /\ GoOn(pos + 1, WithItem(Under, "functions",
                            [name |-> Top.name, params |-> Top.params, returns |-> Top.returns,
                             statements |-> Top.stmts, calls |-> calls, accesses |-> accesses]))

-----------------------------------------------------------------------------
EndModule ==
  /\ Running /\ Top.at = "module" /\ HasBismillah /\ Next1 = "eof"
  /\ outcome' = "accepted"
  /\ UNCHANGED <<source, pos, frames, value, calls, accesses>>

Bismillah == OpenBismillah \/ StartList \/ MoreOfName \/ MoreItems \/ NoMore \/ EndList
               \/ EndBismillah \/ MissingField
CompoundType == OpenType \/ FieldDecl \/ OpenBatin \/ EndType \/ NoLayer
AdditiveOnly == OpenAdditive \/ InVersion \/ OpenExports \/ NoVersion \/ ExportDecl
                  \/ OpenBump \/ EndBump \/ EndAdditive
Mizan == OpenMizan \/ StartBound \/ EndBound \/ EndMizan
Tanzil == OpenTanzil \/ DependencyEntry \/ EndTanzil
Function == OpenFunction \/ Param \/ EndParams \/ NoParam \/ ReturnArm \/ OpenBody
              \/ NoSignature \/ EndBody

Next ==
  \/ Bismillah \/ CompoundType \/ AdditiveOnly \/ Mizan \/ Tanzil \/ Function
  \/ NoItem \/ EndModule \/ Overflow
  \/ Statement \/ Call \/ Primary \/ Incomplete \/ Expression \/ BlockEnd

Spec == Init /\ [][Next]_vars

FairSpec == Spec /\ WF_vars(Next)

-----------------------------------------------------------------------------
(* Which frame may lie directly on which: the shape of the call stack.     *)
Blocks == {"fn", "then", "else"}
ExpressionUsers == {"return", "if", "not", "field", "bound"}
Sides == {"left", "right"}

MayCall ==
  [bismillah |-> {"module"}, list |-> {"bismillah", "bump"},
   zahir |-> {"module"}, batin |-> {"module"},
   version |-> {"module"}, exports |-> {"module"}, bump |-> {"exports"},
   mizan |-> {"module"}, bound |-> {"mizan"}, tanzil |-> {"module"},
   params |-> {"module"}, signature |-> {"module"}, fn |-> {"module"},
   then |-> Blocks, else |-> Blocks, return |-> Blocks, if |-> Blocks,
   path |-> Blocks, args |-> Blocks,
   left |-> ExpressionUsers, right |-> ExpressionUsers,
   not |-> Sides, number |-> Sides, opaque |-> Sides, fields |-> Sides,
   field |-> {"fields"}, parts |-> {"fields"}]

(* The type invariant: the method calls in progress nest as the grammar    *)
(* does, and an expression lies ready only where a method waits for it:    *)
(* no expression is left over when a block goes on.                        *)
TypeOK ==
  /\ pos \in DOMAIN source
  /\ outcome \in {"running", "accepted", "rejected", "overflow"}
  /\ \A i \in DOMAIN frames :
       IF i = 1 THEN frames[i].at = "module" ELSE frames[i - 1].at \in MayCall[frames[i].at]
  /\ HaveValue => Top.at \in Sides \cup ExpressionUsers
  /\ outcome = "accepted" => Len(frames) = 1 /\ ~HaveValue

(* How many calls an expression may nest and still be safe: the rest of    *)
(* the stack is bounded by the nesting guard.                              *)
NestedExpressions == Cardinality({i \in DOMAIN frames : frames[i].at \in {"not", "fields"}})

(* "The static guard is the primary defence": blocks and statements keep   *)
(* to MaxDepth + 5 calls, so that nested expressions alone overflow.       *)
OverflowNeedsExpressions ==
  outcome = "overflow" => 3 * NestedExpressions > StackLimit - (MaxDepth + 5)

(* Parsing ends: every loop moves on or gives up, at the end of the tokens *)
(* at the latest, whatever the tokens are.                                 *)
Termination == <>(outcome # "running")
=============================================================================
