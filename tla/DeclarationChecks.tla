-------------------------- MODULE DeclarationChecks --------------------------
(***************************************************************************)
(* Two checkers over the declarations of a parsed module: zahir_batin,     *)
(* which compares the layers a function reads with those its parameters    *)
(* declare, and mizan.  Each yields its findings in the order of the code; *)
(* of a finding the rule is kept and what it is about.                     *)
(***************************************************************************)
EXTENDS Naturals, Sequences, FiniteSets, SequencesExt

The(S) == CHOOSE x \in S : TRUE

(* The members of a finite set of numbers in ascending order, and the      *)
(* elements of a sequence at such places.                                  *)
InOrder(S) ==
  [k \in 1 .. Cardinality(S) |-> The({i \in S : Cardinality({j \in S : j <= i}) = k})]

Chosen(s, S) == [k \in 1 .. Cardinality(S) |-> s[InOrder(S)[k]]]

CompoundTypeNames(module) ==
  {module.compound_types[i].name : i \in DOMAIN module.compound_types}

(* Faulty variant of CompoundParams.                                       *)
AllParams(module, fn) == fn.params

(* The parameters the checker looks at.                                    *)
CompoundParams(module, fn) ==
  Chosen(fn.params, {i \in DOMAIN fn.params :
                       fn.params[i].type_path.base \in CompoundTypeNames(module)})

Case3Marads(module, fn) ==
  LET params == CompoundParams(module, fn)
      unqualified == Chosen(params, {i \in DOMAIN params : params[i].type_path.layer = "none"
                                                             /\ fn.name # "verify"})
  IN [i \in DOMAIN unqualified |-> [rule |-> "Case 3", about |-> unqualified[i].name]]

(* param_layers: a later parameter of the same name replaces the earlier.  *)
ParamLayers(module, fn) ==
  LET params == CompoundParams(module, fn)
      last(n) == CHOOSE i \in DOMAIN params :
                   /\ params[i].name = n
                   /\ \A j \in i + 1 .. Len(params) : params[j].name # n
  IN [n \in {params[i].name : i \in DOMAIN params} |-> params[last(n)].type_path.layer]

Case1Or2(declared) == IF declared = "zahir" THEN "Case 1" ELSE "Case 2"

AccessMarads(module, fn) ==
  LET layers == ParamLayers(module, fn)
      accesses == fn.accesses
      wrong == Chosen(accesses, {i \in DOMAIN accesses :
                                   /\ accesses[i].param_name \in DOMAIN layers
                                   /\ layers[accesses[i].param_name]
                                        \notin {"none", accesses[i].layer}})
  IN [i \in DOMAIN wrong |-> [rule |-> Case1Or2(layers[wrong[i].param_name]),
                              about |-> wrong[i].param_name]]

(* _check_function of zahir_batin.                                         *)
LayerMarads(module, fn) == Case3Marads(module, fn) \o AccessMarads(module, fn)

-----------------------------------------------------------------------------
RequiredMizanFields == <<"la_tatghaw", "la_tukhsiru", "bil_qist">>

(* seen: the first field of each name; duplicates: the others.             *)
IsFirst(fields, i) == \A j \in 1 .. i - 1 : fields[j].name # fields[i].name

Firsts(fields) == InOrder({i \in DOMAIN fields : IsFirst(fields, i)})
Duplicates(fields) == InOrder({i \in DOMAIN fields : ~IsFirst(fields, i)})

Present(fields) == {fields[i].name : i \in DOMAIN fields}
Missing(fields) ==
  Chosen(RequiredMizanFields, {i \in 1 .. 3 : RequiredMizanFields[i] \notin Present(fields)})

MizanMarad(rule, about) == [rule |-> rule, about |-> about]

(* Faulty variant of OrderMarads: duplicates are not filtered out.         *)
OrderMaradsOfAll(fields) ==
  IF Missing(fields) = << >> /\ [i \in DOMAIN fields |-> fields[i].name] # RequiredMizanFields
  THEN <<MizanMarad("M4", "")>> ELSE << >>

OrderMarads(fields) ==
  LET firsts == Firsts(fields)
      order == [i \in DOMAIN firsts |-> fields[firsts[i]].name]
  IN IF Missing(fields) = << >> /\ order # RequiredMizanFields
     THEN <<MizanMarad("M4", "")>> ELSE << >>

(* _check_mizan_decl: M2, then M1, then M4.                                *)
MizanMarads(decl) ==
  LET duplicates == Duplicates(decl.fields)
      missing == Missing(decl.fields)
  IN [i \in DOMAIN duplicates |-> MizanMarad("M2", decl.fields[duplicates[i]].name)]
       \o [i \in DOMAIN missing |-> MizanMarad("M1", missing[i])]
       \o OrderMarads(decl.fields)

MizanFields == {"la_tatghaw", "la_tukhsiru", "bil_qist"}

(* What should be found in a mizan block whose fields have these names.    *)
(* Of a block that repeats a field and is out of order as well, the header *)
(* of mizan.py says that M4 is not found ("no duplicates") and the comment *)
(* at the code that it may be: M4 is only demanded where no field is       *)
(* repeated, and only forbidden where the first fields are in order.       *)
WellJudged(fields, found) ==
  LET absent == MizanFields \ {fields[i] : i \in DOMAIN fields}
      marads(rule) == {i \in DOMAIN found : found[i].rule = rule}
      before(f, g) == \E i \in DOMAIN fields :
                        fields[i] = f /\ \A j \in 1 .. i : fields[j] # g
      outOfOrder == /\ absent = {}
                    /\ before("la_tukhsiru", "la_tatghaw") \/ before("bil_qist", "la_tukhsiru")
      repeated == \E i, j \in DOMAIN fields : i < j /\ fields[i] = fields[j]
  IN /\ found = << >> <=> fields = <<"la_tatghaw", "la_tukhsiru", "bil_qist">>
     /\ Cardinality(marads("M1")) = Cardinality(absent)
     /\ {found[i].about : i \in marads("M1")} = absent
     /\ \A f \in MizanFields \ absent :
          Cardinality({i \in DOMAIN found : found[i] = MizanMarad("M2", f)})
            = Cardinality({i \in DOMAIN fields : fields[i] = f}) - 1
     /\ marads("M4") # {} => outOfOrder
     /\ outOfOrder /\ ~repeated => marads("M4") # {}
=============================================================================
