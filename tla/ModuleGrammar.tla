---------------------------- MODULE ModuleGrammar ----------------------------
(***************************************************************************)
(* What ModuleParser promises, said without a parser: the grammar of a     *)
(* module as sets of token ranges, and the text of a module.  The operators*)
(* are RECURSIVE: this is for TLC.                                         *)
(***************************************************************************)
EXTENDS StatementGrammar

Phrase(ends, pattern) == {i + Len(pattern) : i \in {j \in ends : Matches(j, pattern)}}

TypeAt(i) == Phrase({i}, <<Names>>) \cup Phrase({i}, <<Names, {"."}, Layers>>)
Types(ends) == UNION {TypeAt(i) : i \in ends}

(* One, one or more with commas between, none or more: of what kind says.  *)
RECURSIVE One(_, _), Listed(_, _), Many(_, _)

Listed(kind, ends) ==
  LET one == UNION {One(kind, i) : i \in ends}
  IN IF one = {} THEN {} ELSE one \cup Listed(kind, Then(one, ","))

Many(kind, ends) ==
  LET one == UNION {One(kind, i) : i \in ends}
  IN IF one = {} THEN ends ELSE ends \cup Many(kind, one)

Braced(kind, ends) == Then(Many(kind, ends), "}")

One(kind, i) ==
  LET from(pattern) == Phrase({i}, pattern)
      params == from(<<{"fn"}, Names, {"("}>>)
      noReturn == Then(params \cup Listed("param", params), ")")
      return == Types(Then(noReturn, "->"))
      zahir == Braced("member", from(<<{"type"}, Names, {"{"}, {"zahir"}, {"{"}>>))
      batin == Braced("member", Phrase(zahir, <<{"batin"}, {"{"}>>))
      minor == from(<<{"additive_only"}, {"module"}, Names, {"v1"}, {"."}>>)
      version == UNION {Separated(j, {"num"}, {"."}, {"num"}) : j \in minor}
      additive == {j \in Braced("surface", Then(version, "{")) : HowMany("bump", i, j - 1) <= 1}
  IN CASE kind = "name"   -> from(<<Names>>)
       [] kind = "path"   -> Separated(i, Names, {"."}, Names \cup Layers)
       [] kind = "rename" -> from(<<Names, {"->"}, Names>>)
       [] kind = "member" -> from(<<Names, {":"}, Names>>)
       [] kind = "param"  -> Types(from(<<Names, {":"}>>))
       [] kind = "field"  -> Listed("name", from(<<{"authority", "scope", "not_scope"}, {":"}>>))
                               \cup Listed("path", from(<<{"serves"}, {":"}>>))
       [] kind = "change" -> Listed("name", from(<<{"removes"}, {":"}>>))
                               \cup Listed("rename", from(<<{"renames"}, {":"}>>))
       [] kind = "surface" -> Types(from(<<{"export"}, Names, {":"}>>))
                                \cup Braced("change", from(<<{"bump"}, {"{"}>>))
       [] kind = "bound"  -> Maybe(UNION {Expr(j) : j \in from(<<MizanHeads, {":"}>>)}, ",")
       [] kind = "need"   -> from(<<{"depends_on"}, {":"}, Names>>)
       [] kind = "declaration" ->
            UNION {Block(j, 0) : j \in noReturn \cup return \cup Types(Then(return, "|"))}
              \cup Then(batin, "}")
              \cup additive
              \cup Braced("bound", from(<<{"mizan"}, Names, {"{"}>>))
              \cup Braced("need", from(<<{"tanzil"}, Names, {"{"}>>))

InGrammar ==
  LET block == {j \in Braced("field", Phrase({1}, <<{"bismillah"}, Names, {"{"}>>)) :
                  \A f \in BismillahFields : HowMany(f, 1, j) > 0}
  IN \E j \in Many("declaration", block) : At(j) = "eof"

-----------------------------------------------------------------------------
(* The places of a module: its declarations, and within them.              *)

Places == [i \in DOMAIN source |-> i]
Outside(i) == Balanced(1, i) \/ (At(i) = "(" /\ Balanced(1, i - 1))

Heads == {i \in DOMAIN source : At(i) \in {"fn", "type", "additive_only", "mizan", "tanzil"}
                                  /\ Balanced(1, i)}

(* Where the declaration begins that a token belongs to.                   *)
HeadAt == LET heads == Heads
          IN [i \in DOMAIN source |-> Max({1} \cup {h \in heads : h <= i})]

InSignature(i, head) == At(head) = "fn" /\ \A k \in head .. i : At(k) # "{"
EmptyElse(i) == \E k \in {i - 2, i - 1, i} : At(k) = "else" /\ At(k + 1) = "{" /\ At(k + 2) = "}"

(* The tokens of the declarations of a kind that leave a trace.            *)
Visible(kind) ==
  LET head == HeadAt
      kept(i) == /\ At(head[i]) = kind /\ i < Len(source)
                 /\ Outside(i) \/ InSignature(i, head[i])
                 /\ At(i) # "," /\ ~EmptyElse(i)
      indices == SelectSeq(Places, kept)
  IN [k \in DOMAIN indices |-> At(indices[k])]

(* Of additive_only declarations, the exports, or one part of the catalogs.*)
Marks == {"export", "bump", "removes", "renames"}
Segments(parts, but) ==
  LET head == HeadAt
      mark(i) == At(Max({head[i]} \cup {h \in head[i] .. i : At(h) \in Marks}))
      kept(i) == /\ At(head[i]) = "additive_only" /\ mark(i) \in parts
                 /\ At(i) \notin but \cup {"{", "}", ",", "eof"}
      indices == SelectSeq(Places, kept)
  IN [k \in DOMAIN indices |-> At(indices[k])]

(* What the last line for a field of the bismillah block says.             *)
LastLine(field) ==
  LET end == Min({i \in DOMAIN source : At(i) = "}"})
      line == Max({i \in 1 .. end : At(i) = field})
      next == Min({i \in line + 1 .. end : At(i) \in BismillahFields \cup {"}"}})
  IN SelectSeq(SubSeq(source, line + 2, next - 1), LAMBDA t : t # ",")

-----------------------------------------------------------------------------
(* The text of a module.                                                   *)
Each(items, Write(_)) == FlattenSeq([i \in DOMAIN items |-> Write(items[i])])

TypeText(t) == <<t.base>> \o IF t.layer = "none" THEN << >> ELSE <<".", t.layer>>
Typed(p) == <<p.name, ":">> \o TypeText(p.type_path)

FunctionText(f) ==
  <<"fn", f.name, "(">> \o Each(f.params, Typed) \o <<")">>
    \o (IF f.returns = << >> THEN << >> ELSE <<"->">> \o TypeText(f.returns[1]))
    \o (IF Len(f.returns) < 2 THEN << >> ELSE <<"|">> \o TypeText(f.returns[2]))
    \o <<"{">> \o TextOf(f.statements) \o <<"}">>

CompoundText(t) ==
  LET members(layer) == Each(layer, LAMBDA f : <<f.name, ":", f.type>>)
  IN <<"type", t.name, "{", "zahir", "{">> \o members(t.zahir)
       \o <<"}", "batin", "{">> \o members(t.batin) \o <<"}", "}">>

SurfaceText(a) ==
  <<"additive_only", "module", a.name>> \o Dotted(<<"v1">> \o [i \in 1 .. a.parts - 1 |-> "num"])
    \o Each(a.exports, LAMBDA e : <<"export">> \o Typed(e))

Removes(a) == IF a.bump = None THEN << >> ELSE a.bump.removes
Renames(a) ==
  IF a.bump = None THEN << >> ELSE Each(a.bump.renames, LAMBDA r : <<r.old, "->", r.new>>)

MizanText(d) ==
  <<"mizan", d.name, "{">> \o Each(d.fields, LAMBDA f : <<f.name, ":">> \o Text(f.value)) \o <<"}">>

TanzilText(d) ==
  <<"tanzil", d.name, "{">> \o Each(d.dependencies, LAMBDA n : <<"depends_on", ":", n>>) \o <<"}">>

FieldText(name, items) == IF name = "serves" THEN Each(items, Dotted) ELSE items

-----------------------------------------------------------------------------

(* The tree is the text: each token of an accepted module, but for the     *)
(* arguments of calls, commas and an empty else, can be read off its       *)
(* declarations, in order in each of the tuples of Module.  Nothing is     *)
(* lost, reordered or moved to another declaration or another arm of an    *)
(* if, but of a repeated bismillah field all but the last is gone.         *)
Faithful ==
  outcome = "accepted" =>
    /\ Module.bismillah.name = At(2)
    /\ \A f \in BismillahFields : FieldText(f, Module.bismillah.fields[f]) = LastLine(f)
    /\ Each(Module.functions, FunctionText) = Visible("fn")
    /\ Each(Module.compound_types, CompoundText) = Visible("type")
    /\ LET modules == Module.additive_only_modules
       IN /\ Each(modules, SurfaceText) = Segments({"additive_only", "export"}, {})
          /\ Each(modules, Removes) = Segments({"removes"}, {"removes", ":"})
          /\ Each(modules, Renames) = Segments({"renames"}, {"renames", ":"})
    /\ Each(Module.mizan_decls, MizanText) = Visible("mizan")
    /\ Each(Module.tanzil_decls, TanzilText) = Visible("tanzil")
=============================================================================
