---------------------------- MODULE ModuleRecords ----------------------------
(***************************************************************************)
(* What the records of an accepted module should say, read off its tokens  *)
(* and its tree: the flat lists of calls and of reads of layers that the   *)
(* parser keeps beside the tree, and what the two checkers of              *)
(* DeclarationChecks should find.                                          *)
(***************************************************************************)
EXTENDS ModuleParser, DeclarationChecks

Module == frames[1]

HowMany(token, i, j) == Cardinality({k \in i .. j : At(k) = token})
Balanced(i, j) == HowMany("(", i, j) = HowMany(")", i, j)

Braces == {"{", "}"}

(* Behind the parenthesis that closes the one at i; no brace lies between. *)
Arguments(i) ==
  {j + 1 : j \in {j \in i + 1 .. Len(source) :
                    /\ At(i) = "(" /\ Balanced(i, j)
                    /\ \A k \in i .. j - 1 : ~Balanced(i, k) /\ At(k) \notin Braces}}

(* An if gives way to its bodies, which may hold more ifs; calls stay.     *)
Opened(s) ==
  CASE s.op = "call" -> <<s>>
    [] s.op = "if"   -> s.body \o s.orelse
    [] OTHER         -> << >>

Unfold(stmts) == FlattenSeq([i \in DOMAIN stmts |-> Opened(stmts[i])])

(* A list of statements after no step of that, after one, after two, ...   *)
Levels(stmts) ==
  LET level[n \in Nat] == IF n = 0 THEN stmts ELSE Unfold(level[n - 1]) IN level

(* The calls of a tree in the order of its text: no statement is below     *)
(* more than MaxDepth others.                                              *)
CallsIn(stmts) ==
  LET opened == Levels(stmts)[MaxDepth + 1]
  IN [i \in DOMAIN opened |-> [path |-> opened[i].path, start |-> opened[i].start]]

(* "name . layer", and what is kept of it.                                 *)
IsRead(i) == Matches(i, <<Names, {"."}, Layers>>)
AccessAt(i) == [param_name |-> At(i), layer |-> At(i + 2), start |-> i]

(* Where one stands in the arguments of a call statement, at whatever      *)
(* depth of parentheses, and in those of one of a list of them.            *)
OpenOf(call) == call.start + 2 * Len(call.path) - 1
ReadsOf(call) ==
  {i \in DOMAIN source :
     IsRead(i) /\ \E j \in Arguments(OpenOf(call)) : i \in OpenOf(call) .. j - 1}

Reads(list) == UNION {ReadsOf(list[c]) : c \in DOMAIN list}

Ascending(records) ==
  \A i, j \in DOMAIN records : i < j => records[i].start < records[j].start

Recorded(fn) ==
  /\ fn.calls = CallsIn(fn.statements) /\ Ascending(fn.calls)
  /\ {fn.accesses[i] : i \in DOMAIN fn.accesses} = {AccessAt(i) : i \in Reads(fn.calls)}
  /\ Ascending(fn.accesses)

(* The flat lists that the checkers of calls and of layers read agree with *)
(* the tree: every call statement of the function however deep, in the     *)
(* order of the source, none of another function, and every read of a      *)
(* layer in the arguments of one, once and in order.                       *)
CallsRecorded ==
  outcome = "accepted" => \A k \in DOMAIN Module.functions : Recorded(Module.functions[k])
-----------------------------------------------------------------------------
(* Where the declarations of a kind begin, and what belongs to each: the   *)
(* parameters of a function, and the fields of a mizan block.              *)
HeadsOf(kind) == {i \in DOMAIN source : At(i) = kind /\ Balanced(1, i)}

ParamsOf(head) ==
  {i \in DOMAIN source : /\ At(i + 1) = ":"
                         /\ i >= head /\ \A k \in head .. i : At(k) # "{"}

FieldsOf(head) ==
  {i \in DOMAIN source : /\ At(i) \in MizanHeads /\ Balanced(1, i)
                         /\ i >= head /\ \A h \in HeadsOf("mizan") : h <= i => h <= head}

(* What the checker lets pass keeps the discipline of thesis 3.2: only     *)
(* verify takes a compound type unqualified, and a qualified parameter is  *)
(* read, in call statements, in one layer, which is one that its name is   *)
(* declared with.  And it finds fault only where the layers declared and   *)
(* read under one name differ.  Two parameters may have the same name.     *)
LayersKept ==
  outcome = "accepted" => \A k \in DOMAIN Module.functions :
    LET fn == Module.functions[k]
        clean == LayerMarads(Module, fn) = << >>
        head == InOrder(HeadsOf("fn"))[k]
        compound == {At(h + 1) : h \in HeadsOf("type")}
        params == {i \in ParamsOf(head) : At(i + 2) \in compound}
        declared(n) == {IF At(i + 3) = "." THEN At(i + 4) ELSE "none" :
                          i \in {i \in params : At(i) = n}}
        read(n) == {At(i + 2) : i \in {i \in Reads(fn.calls) : At(i) = n}}
        verify == At(head + 1) = "verify"
        names == {At(i) : i \in params}
    IN IF clean
       THEN \A n \in names :
              IF "none" \in declared(n) THEN verify
              ELSE Cardinality(read(n)) <= 1 /\ read(n) \subseteq declared(n)
       ELSE \E n \in names : \/ "none" \in declared(n) /\ ~verify
                             \/ Layers \subseteq declared(n) \cup read(n)

(* A mizan block is let pass exactly if its three fields stand there, once *)
(* each and in order; a field is reported missing if and only if it is     *)
(* nowhere, each repetition is reported once, and a wrong order of first   *)
(* occurrences is reported if nothing is repeated, and never another one   *)
(* or with a field missing, so that no offence counts twice.               *)
MizanJudged ==
  outcome = "accepted" => \A k \in DOMAIN Module.mizan_decls :
    LET head == InOrder(HeadsOf("mizan"))[k]
    IN WellJudged(Chosen(source, FieldsOf(head)), MizanMarads(Module.mizan_decls[k]))
=============================================================================
