--------------------------- MODULE MCModuleParser ---------------------------
(***************************************************************************)
(* TLC instances of ModuleParser: modules with every form of declaration,  *)
(* statement and expression, every module one token away from one of them, *)
(* and every beginning of one; and families without edits for the two      *)
(* checkers.                                                               *)
(***************************************************************************)
EXTENDS ModuleGrammar

CONSTANTS BodyTokens, DeclarationTokens   \* the tokens that an edit puts in

(* Call statements: reads in nested parentheses, and behind a longer path. *)
Lists == { << >>,
           <<"(", "doc", ".", "zahir", ",", "ident", ")", "ident", ".", "ident", ".", "batin">> }

CallStatements == {<<"ident", ".", "zahir", "(">> \o l \o <<")">> : l \in Lists}

Fielded == <<"Incomplete", "{", "reason", ":", "str", ",", "ident", ":", "ident", "<", "str", ",",
             "parts", ":", "ident", ",", "ident", "}">>

Exprs == { <<"ident">>, <<"num", ".", "num">>, Fielded,
           <<"ident", "(", "(", "ident", ".", "zahir", ")", ")">>,
           <<"Integrity", "<", "Incomplete">>,
           <<"not", "ident", "<", "str">>,
           <<"str", "<", "not", "not", "ident", "<", "num">> }

ReturnStatements == {<<"return">> \o e : e \in Exprs}

IfThen(e, s) == <<"if">> \o e \o <<"{">> \o s \o <<"}">>
Else(s) == <<"else", "{">> \o s \o <<"}">>

Nested == <<"if", "ident", "{", "ident", "(", "ident", ".", "batin", ")", "if", "str", "{",
            "return", "str", "}", "else", "{", "ident", "(", ")", "}", "}">>

Bodies ==
  CallStatements \cup ReturnStatements
    \cup {IfThen(e, << >>) : e \in Exprs}
    \cup { IfThen(<<"ident">>, <<"ident", "(", ")">>) \o Else(<<"return", "str">>)
             \o <<"reason", "(", ")">>,
           IfThen(<<"ident">>, Nested),
           <<"ident", "(", ")", "doc", ".", "batin", "(", "doc", ".", "zahir", ")">>,
           Nested \o Else(Nested),
           IfThen(<<"ident">>, IfThen(<<"num">>, IfThen(<<"str">>, << >>))) }

-----------------------------------------------------------------------------
Header == <<"bismillah", "ident", "{", "authority", ":", "ident", "serves", ":", "ident",
            "scope", ":", "ident", "not_scope", ":", "ident", "}">>

LongHeader == <<"bismillah", "doc", "{", "scope", ":", "ident", ",", "doc",
                "serves", ":", "ident", ".", "zahir", ".", "doc", ",", "ident",
                "not_scope", ":", "ident", "authority", ":", "doc", "scope", ":", "doc", "}">>

CompoundTypeDecl == <<"type", "ident", "{", "zahir", "{", "ident", ":", "doc", "}",
                      "batin", "{", "ident", ":", "ident", "doc", ":", "doc", "}", "}">>

FunctionDecl == <<"fn", "verify", "(", "doc", ":", "ident", ".", "batin", ",", "ident", ":", "doc", ")",
                  "->", "ident", ".", "zahir", "|", "doc",
                  "{", "ident", "(", "doc", ".", "zahir", ")", "}">>

AdditiveDecl == <<"additive_only", "module", "ident", "v1", ".", "num", ".", "num", "{",
                  "export", "ident", ":", "doc", ".", "batin",
                  "bump", "{", "removes", ":", "ident", ",", "doc",
                  "renames", ":", "ident", "->", "doc", ",", "doc", "->", "ident",
                  "removes", ":", "doc", "}",
                  "export", "doc", ":", "ident", "}">>

MizanDecl == <<"mizan", "ident", "{", "la_tatghaw", ":", "ident", "<", "num", ".", "num", ",",
               "la_tukhsiru", ":", "not", "str", "bil_qist", ":", "ident", "(", "ident", ")", "}">>

TanzilDecl == <<"tanzil", "ident", "{", "depends_on", ":", "ident", "depends_on", ":", "doc", "}">>

ShortFunction == <<"fn", "doc", "(", ")", "{", "doc", "(", "doc", ".", "batin", ")", "}">>

(* Declarations in turn, for one list must not take what is another's.     *)
Mixed == CompoundTypeDecl \o ShortFunction \o TanzilDecl \o FunctionDecl \o MizanDecl
           \o AdditiveDecl \o CompoundTypeDecl \o MizanDecl \o AdditiveDecl \o TanzilDecl

(* For zahir_batin: up to two parameters of any name, type and layer, and  *)
(* bodies that read neither, one or both layers.                           *)
ParamForms == {<<n, ":", t>> \o l : n \in {"doc", "ident"}, t \in {"ident", "doc"},
                                    l \in {<< >>, <<".", "zahir">>, <<".", "batin">>}}
ParamLists == {<< >>} \cup ParamForms \cup {p \o <<",">> \o q : p, q \in ParamForms}

LayerBodies == { << >>, <<"ident", "(", "doc", ".", "zahir", ")">>,
                 <<"ident", "(", "ident", ".", "batin", ")",
                   "if", "str", "{", "ident", "(", "doc", ".", "batin", ")", "}">>,
                 <<"ident", "(", "(", "doc", ".", "zahir", ")", "doc", ".", "batin", ")">> }

LayerFamily ==
  {Header \o CompoundTypeDecl \o <<"fn", f, "(">> \o p \o <<")", "{">> \o b \o <<"}", "eof">> :
     f \in {"ident", "verify"}, p \in ParamLists, b \in LayerBodies}

(* For mizan: every sequence of up to four fields.                         *)
MizanFamily ==
  {Header \o <<"mizan", "ident", "{">>
     \o FlattenSeq([i \in DOMAIN s |-> <<s[i], ":", "ident">>]) \o <<"}", "eof">> :
       s \in UNION {[1 .. n -> MizanHeads] : n \in 0 .. 4}}

-----------------------------------------------------------------------------
(* Behind the first k tokens: one token less, one more, or another one;    *)
(* never the "eof".                                                        *)
Edited(s, k, tokens) ==
  {RemoveAt(s, i) : i \in k + 1 .. Len(s) - 1}
    \cup {InsertAt(s, i, t) : i \in k + 1 .. Len(s), t \in tokens}
    \cup {ReplaceAt(s, i, t) : i \in k + 1 .. Len(s) - 1, t \in tokens}

Beginnings(s, k) == {Append(SubSeq(s, 1, i), "eof") : i \in k .. Len(s) - 2}

Around(before, text, tokens) ==
  LET s == before \o text \o <<"eof">>
  IN {s} \cup Edited(s, Len(before), tokens) \cup Beginnings(s, Len(before))

BodySources ==
  UNION {Around(Header \o <<"fn", "ident", "(", ")", "{">>, b \o <<"}">>, BodyTokens) : b \in Bodies}

DeclarationSources ==
  UNION {Around(Header, d, DeclarationTokens) :
           d \in {CompoundTypeDecl, FunctionDecl, AdditiveDecl, MizanDecl, TanzilDecl}}
    \cup Around(<< >>, LongHeader, DeclarationTokens)

MCSources ==
  BodySources \cup DeclarationSources \cup LayerFamily \cup MizanFamily
    \cup {LongHeader \o Mixed \o <<"eof">>, Header \o Header \o <<"eof">>}
=============================================================================
