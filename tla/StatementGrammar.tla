-------------------------- MODULE StatementGrammar --------------------------
(***************************************************************************)
(* What StatementParser promises, said without a parser: the grammar of    *)
(* statements and expressions as sets of token ranges, and the text of a   *)
(* tree.  The operators are RECURSIVE: this is for TLC.                    *)
(***************************************************************************)
EXTENDS ModuleRecords

(* A phrase that begins at a token is known by the places where it can     *)
(* end: the set of the indices of the tokens after it.                     *)
Then(ends, token) == {j + 1 : j \in {k \in ends : At(k) = token}}
Maybe(ends, token) == ends \cup Then(ends, token)
If1(holds, ends) == IF holds THEN ends ELSE {}

(* first (sep other)*                                                      *)
Separated(i, first, sep, other) ==
  {j \in i + 1 .. Len(source) :
     /\ (j - i) % 2 = 1
     /\ \A k \in i .. j - 1 :
          At(k) \in IF k = i THEN first ELSE IF (k - i) % 2 = 1 THEN sep ELSE other}

RECURSIVE Expr(_), Fields(_), Stmts(_, _)

(* The comma after partial_findings is taken for one between its names.    *)
Field(i) ==
  If1(At(i + 1) = ":",
      CASE At(i) = "reason" -> Maybe(If1(At(i + 2) = "str", {i + 3}), ",")
        [] At(i) = "parts" -> {j \in Separated(i + 2, Names, {","}, Names) : At(j) # ","}
        [] At(i) \in Names \ {"reason", "parts"} -> Maybe(Expr(i + 2), ",")
        [] OTHER -> {})

Fields(i) == {i} \cup UNION {Fields(j) : j \in Field(i)}

Atom(i) ==
  If1(At(i) \in {"str", "Integrity"}, {i + 1})
    \cup Separated(i, {"num"}, {"."}, {"num"})
    \cup IF At(i) = "Incomplete" /\ At(i + 1) = "{"
         THEN Then(Fields(i + 2), "}")
         ELSE If1(At(i) \in Names \ {"Integrity"}, {i + 1} \cup Arguments(i + 1))

(* A "not" reaches as far as it can, so only atoms are on the left.        *)
Expr(i) ==
  LET right == Then(Atom(i), "<")
  IN Atom(i) \cup UNION {Atom(j) : j \in right}
       \cup UNION {Expr(j + 1) : j \in {k \in {i} \cup right : At(k) = "not"}}

Block(i, depth) == If1(At(i) = "{", Then(Stmts(i + 1, depth), "}"))

Stmt(i, depth) ==
  If1(depth <= MaxDepth,
      CASE At(i) = "return" -> Expr(i + 1)
        [] At(i) = "if" ->
             LET body == UNION {Block(j, depth + 1) : j \in Expr(i + 1)}
             IN {j \in body : At(j) # "else"}
                  \cup UNION {Block(j, depth + 1) : j \in Then(body, "else")}
        [] OTHER -> UNION {Arguments(j) :
                             j \in Separated(i, Names, {"."}, Names \cup Layers)})

Stmts(i, depth) == {i} \cup UNION {Stmts(j, depth) : j \in Stmt(i, depth)}

-----------------------------------------------------------------------------
(* The text of a tree, without commas between fields and arguments.        *)

RECURSIVE Text(_), TextOf(_)

Dotted(names) == FlattenSeq([i \in DOMAIN names |-> IF i = 1 THEN <<names[1]>> ELSE <<".", names[i]>>])

Text(e) ==
  CASE e.kind = "compare" -> Text(e.left) \o <<"<">> \o Text(e.right)
    [] e.kind = "not" -> <<"not">> \o Text(e.of)
    [] e.kind = "num" -> Dotted([i \in 1 .. e.parts |-> "num"])
    [] e.kind = "name" -> <<e.name>> \o IF e.call THEN <<"(", ")">> ELSE << >>
    [] e.kind = "parts" -> e.items
    [] e.kind = "incomplete" ->
         LET field(f) == <<f.name, ":">> \o Text(f.value)
         IN <<"Incomplete", "{">>
              \o FlattenSeq([i \in DOMAIN e.fields |-> field(e.fields[i])]) \o <<"}">>
    [] OTHER -> <<e.kind>>

TextOf(stmts) ==
  LET text(s) ==
        CASE s.op = "return" -> <<"return">> \o Text(s.value)
          [] s.op = "call" -> Dotted(s.path) \o <<"(", ")">>
          [] s.op = "if" ->
               <<"if">> \o Text(s.cond) \o <<"{">> \o TextOf(s.body) \o <<"}">>
                 \o IF s.orelse = << >> THEN << >>
                    ELSE <<"else", "{">> \o TextOf(s.orelse) \o <<"}">>
  IN FlattenSeq([i \in DOMAIN stmts |-> text(stmts[i])])
=============================================================================
