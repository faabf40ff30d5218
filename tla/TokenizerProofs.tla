-------------------------- MODULE TokenizerProofs --------------------------
(***************************************************************************)
(* Proofs about tokenize(), for sources of any length.                     *)
(***************************************************************************)
EXTENDS Tokenizer, DataProofs, FiniteSetTheorems, SequenceTheorems, TLAPS

Modes == {"scan", "comment", "IDENT", "NUMBER", "string", "escape", "done", "error"}
Kinds == Single \cup {"ARROW", "IDENT", "NUMBER", "STRING", "EOF"}

TokenAt(p, l) ==
  [kind : Kinds, from : 1 .. p, to : 0 .. (p - 1), line : 1 .. l, column : Nat \ {0}]

SourceOK == source \in Seq(Class)

-----------------------------------------------------------------------------
(* What a step does to the position: nothing, or it passes one character   *)
(* or the two of an arrow, none of them a line end, or exactly a line end. *)
Passes(k) ==
  /\ pos' = pos + k /\ col' = col + k /\ line' = line
  /\ \A i \in pos .. (pos + k - 1) : i \in DOMAIN source /\ source[i] # "nl"

PassesLine ==
  /\ pos \in DOMAIN source /\ source[pos] = "nl"
  /\ pos' = pos + 1 /\ line' = line + 1 /\ col' = 1

Emits(kind, start, end) == tokens' = Append(tokens, Token(kind, start, end))

LEMMA StepShape ==
  ASSUME TypeOK, SourceOK, Next
  PROVE  /\ source' = source /\ mode \notin {"done", "error"}
         /\ Passes(0) \/ Passes(1) \/ Passes(2) \/ PassesLine
         /\ mark' = mark \/ mark' = Here
         /\ \/ tokens' = tokens
            \/ \E kind \in Kinds, start \in {mark, Here} : Emits(kind, start, pos' - 1)
<1> USE DEF Passes, PassesLine, Emits, At, Advance, Raise, Emit
<1>1. pos \in Nat /\ line \in Nat /\ col \in Nat
  BY DEF TypeOK, SourceOK
<1>2. CASE NewLine
  BY <1>1, <1>2 DEF NewLine
<1>3. CASE Space \/ InComment \/ InRun
  BY <1>1, <1>3 DEF Space, InComment, InRun, Continues, IdentStart
<1>4. CASE StartComment \/ StartRun
  BY <1>1, <1>4 DEF StartComment, StartRun
<1>5. CASE OpenString \/ StringChar \/ Backslash \/ Escape
  BY <1>1, <1>5 DEF OpenString, StringChar, Backslash, Escape, EscapeChars
<1>6. CASE Unterminated \/ BadEscape \/ Unrecognised
  BY <1>1, <1>6 DEF Unterminated, BadEscape, Unrecognised
<1>7. CASE Punct
  <2>1. At(pos) \in Kinds /\ Emits(At(pos), Here, pos' - 1)
    BY <1>1, <1>7 DEF Punct, Kinds
  <2>2. /\ At(pos) \in Single /\ pos' = pos + 1 /\ col' = col + 1 /\ line' = line
        /\ mark' = mark /\ source' = source /\ mode = "scan"
    BY <1>7 DEF Punct
  <2>3. pos \in DOMAIN source /\ source[pos] # "nl"
    BY <2>2 DEF Single
  <2>4. Passes(1)
    BY <1>1, <2>2, <2>3
  <2>5. QED
    BY <2>1, <2>2, <2>4
<1>8. CASE Arrow
  BY <1>1, <1>8 DEF Arrow, Kinds
<1>9. CASE EndRun
  BY <1>1, <1>9 DEF EndRun, Kinds
<1>10. CASE CloseString
  BY <1>1, <1>10 DEF CloseString, Kinds
<1>11. CASE Finish
  BY <1>1, <1>11 DEF Finish, Kinds
<1>12. QED
  BY <1>2, <1>3, <1>4, <1>5, <1>6, <1>7, <1>8, <1>9, <1>10, <1>11 DEF Next

LEMMA StepKeepsPosition ==
  ASSUME TypeOK, SourceOK, Next
  PROVE  /\ SourceOK' /\ pos \in 1 .. (Len(source) + 1)
         /\ pos' \in 1 .. (Len(source) + 1) /\ pos <= pos'
         /\ line' \in Nat \ {0} /\ line <= line' /\ col' \in Nat \ {0}
<1>1. /\ pos \in 1 .. (Len(source) + 1) /\ Len(source) \in Nat
      /\ line \in Nat \ {0} /\ col \in Nat \ {0} /\ DOMAIN source = 1 .. Len(source)
  BY DEF TypeOK, SourceOK
<1>2. SourceOK'
  BY StepShape DEF SourceOK
<1>3. CASE Passes(0)
  BY <1>1, <1>2, <1>3 DEF Passes
<1>4. CASE Passes(1)
  BY <1>1, <1>2, <1>4 DEF Passes
<1>5. CASE Passes(2)
  <2>1. pos + 1 \in DOMAIN source
    BY <1>1, <1>5 DEF Passes
  <2>2. QED
    BY <1>1, <1>2, <1>5, <2>1 DEF Passes
<1>6. CASE PassesLine
  BY <1>1, <1>2, <1>6 DEF PassesLine
<1>7. QED
  BY <1>3, <1>4, <1>5, <1>6, StepShape

LEMMA StepKeepsMark ==
  ASSUME TypeOK, SourceOK, Next
  PROVE  /\ mark' \in [from : 1 .. pos, line : 1 .. line, column : Nat \ {0}]
         /\ Here \in [from : 1 .. pos, line : 1 .. line, column : Nat \ {0}]
<1>1. Here \in [from : 1 .. pos, line : 1 .. line, column : Nat \ {0}]
  BY DEF TypeOK, SourceOK, Here
<1>2. QED
  BY <1>1, StepShape DEF TypeOK

LEMMA Predecessor == ASSUME NEW n \in Nat \ {0} PROVE n - 1 \in 0 .. (n - 1)
OBVIOUS

LEMMA StepKeepsTokens ==
  ASSUME TypeOK, SourceOK, Next
  PROVE  tokens' \in Seq(TokenAt(pos', line'))
<1>1. tokens \in Seq(TokenAt(pos, line))
  BY DEF TypeOK, TokenAt, Kinds
<1>2. /\ pos \in Nat \ {0} /\ pos' \in Nat \ {0} /\ pos <= pos'
      /\ line \in Nat \ {0} /\ line' \in Nat \ {0} /\ line <= line'
  BY StepKeepsPosition DEF TypeOK, SourceOK
<1>3. TokenAt(pos, line) \subseteq TokenAt(pos', line')
  BY <1>2 DEF TokenAt
<1>4. tokens \in Seq(TokenAt(pos', line'))
  BY <1>1, <1>3
<1>5. ASSUME NEW kind \in Kinds, NEW start \in {mark, Here}
      PROVE  Token(kind, start, pos' - 1) \in TokenAt(pos', line')
  <2>1. /\ start.from \in 1 .. pos' /\ start.line \in 1 .. line'
        /\ start.column \in Nat \ {0} /\ pos' - 1 \in 0 .. (pos' - 1)
    <3>1. mark \in [from : 1 .. pos, line : 1 .. line, column : Nat \ {0}]
      BY DEF TypeOK
    <3>2. start \in [from : 1 .. pos, line : 1 .. line, column : Nat \ {0}]
      BY <3>1, StepKeepsMark
    <3>3. /\ start.from \in 1 .. pos /\ start.line \in 1 .. line
          /\ start.column \in Nat \ {0}
      BY <3>2
    <3>4. pos' - 1 \in 0 .. (pos' - 1)
      BY <1>2, Predecessor
    <3>5. 1 .. pos \subseteq 1 .. pos'
      BY <1>2
    <3>6. 1 .. line \subseteq 1 .. line'
      BY <1>2
    <3>7. QED
      BY <3>3, <3>4, <3>5, <3>6
  <2>2. QED
    BY <2>1 DEF Token, TokenAt
<1>6. QED
  BY <1>4, <1>5, StepShape DEF Emits

(* Only the last step of all emits EOF, and only a raise sets the error.   *)
Ends == {i \in DOMAIN tokens : tokens[i].kind = "EOF"}

LEMMA StepKeepsEnds ==
  ASSUME TypeOK, SourceOK, Next
  PROVE  /\ mode' \in Modes
         /\ mode' = "error" <=> error' # NoError
         /\ Ends' = (IF mode' = "done" THEN {Len(tokens')} \ {0} ELSE {})
         /\ mode' = "done" => tokens' # << >>
<1>1. /\ mode \in Modes /\ mode \notin {"done", "error"} /\ error = NoError
      /\ tokens \in Seq(TokenAt(pos, line)) /\ Ends = {}
  BY StepShape DEF TypeOK, Modes, Ends, TokenAt, Kinds
<1>2. CASE tokens' = tokens /\ mode' \in Modes \ {"done", "error"} /\ error' = error
  BY <1>1, <1>2 DEF Ends
<1>3. CASE tokens' = tokens /\ mode' = "error" /\ error' # NoError
  BY <1>1, <1>3 DEF Ends, Modes
<1>4. ASSUME NEW t, tokens' = Append(tokens, t), error' = error,
             mode' \in {"scan", "done"}, t.kind = "EOF" <=> mode' = "done"
      PROVE  /\ mode' \in Modes
             /\ mode' = "error" <=> error' # NoError
             /\ Ends' = (IF mode' = "done" THEN {Len(tokens')} \ {0} ELSE {})
             /\ mode' = "done" => tokens' # << >>
  <2>1. /\ DOMAIN tokens' = DOMAIN tokens \cup {Len(tokens')}
        /\ Len(tokens') = Len(tokens) + 1 /\ Len(tokens) \in Nat
        /\ \A i \in DOMAIN tokens : tokens'[i] = tokens[i]
        /\ tokens'[Len(tokens')] = t
    BY <1>1, <1>4
  <2>2. Ends' = IF t.kind = "EOF" THEN {Len(tokens')} ELSE {}
    BY <1>1, <2>1 DEF Ends
  <2>3. mode' \in Modes /\ mode' # "error" /\ error' = NoError
    BY <1>1, <1>4 DEF Modes
  <2>4. tokens' # << >> /\ {Len(tokens')} \ {0} = {Len(tokens')}
    BY <2>1
  <2>5. QED
    BY <1>4, <2>2, <2>3, <2>4
<1> USE DEF Advance, Raise, Emit, Token, Here
<1>5. CASE NewLine \/ Space \/ StartComment \/ InComment \/ StartRun \/ InRun
  BY <1>1, <1>2, <1>5 DEF NewLine, Space, StartComment, InComment, StartRun, InRun, Modes
<1>6. CASE OpenString \/ StringChar \/ Backslash \/ Escape
  BY <1>1, <1>2, <1>6 DEF OpenString, StringChar, Backslash, Escape, Modes
<1>7. CASE Unterminated \/ BadEscape \/ Unrecognised
  BY <1>1, <1>3, <1>7
  DEF Unterminated, BadEscape, Unrecognised, NoError, TypeOK
<1>8. CASE Punct
  <2>1. mode' = "scan" /\ error' = error /\ At(pos) # "EOF"
    BY <1>8 DEF Punct, Single
  <2>2. QED
    BY <1>4, <1>8, <2>1 DEF Punct
<1>9. CASE Arrow \/ EndRun \/ CloseString \/ Finish
  BY <1>1, <1>4, <1>9 DEF Arrow, EndRun, CloseString, Finish
<1>10. QED
  BY <1>5, <1>6, <1>7, <1>8, <1>9 DEF Next

LEMMA TypeKept == TypeOK /\ SourceOK /\ [Next]_vars => TypeOK' /\ SourceOK'
<1>1. ASSUME TypeOK, SourceOK, Next PROVE TypeOK' /\ SourceOK'
  <2>1. mark' \in [from : 1 .. pos', line : 1 .. line', column : Nat \ {0}]
    BY <1>1, StepKeepsMark, StepKeepsPosition, SMTT(30) DEF TypeOK, SourceOK
  <2>2. QED
    BY <1>1, <2>1, StepShape, StepKeepsPosition, StepKeepsTokens, StepKeepsEnds
    DEF TypeOK, Ends, Modes, TokenAt, Kinds
<1>2. ASSUME TypeOK, SourceOK, UNCHANGED vars PROVE TypeOK' /\ SourceOK'
  BY <1>2 DEF TypeOK, SourceOK, vars
<1>3. QED
  BY <1>1, <1>2

LEMMA TypeInit == Init => TypeOK /\ SourceOK
BY SourcesAssumption DEF Init, TypeOK, SourceOK, NoError

(* The tokenizer's state keeps its type, for every source: a result ends   *)
(* with its only EOF token, and there is an error exactly if it raised.    *)
THEOREM TypeCorrect == Spec => []TypeOK
<1>1. TypeOK /\ SourceOK /\ [Next]_vars => TypeOK' /\ SourceOK'
  BY TypeKept
<1>2. QED
  BY TypeInit, <1>1, PTL DEF Spec

-----------------------------------------------------------------------------
(* Locations.  The column of a position counts from the last line end      *)
(* before it; that there is a last one is part of the invariant.           *)
BreaksIn(s, p) == {i \in 1 .. (p - 1) : s[i] = "nl"}
LastOf(breaks) == CHOOSE i \in breaks : \A j \in breaks : j <= i
PlaceIn(s, p) ==
  [line |-> Cardinality(BreaksIn(s, p)) + 1,
   column |-> IF BreaksIn(s, p) = {} THEN p ELSE p - LastOf(BreaksIn(s, p))]

HasLast(s, p) ==
  BreaksIn(s, p) = {} \/ \E i \in BreaksIn(s, p) : \A j \in BreaksIn(s, p) : j <= i

LocationsTrue ==
  /\ HasLast(source, pos)
  /\ [line |-> line, column |-> col] = PlaceIn(source, pos)
  /\ [line |-> mark.line, column |-> mark.column] = PlaceIn(source, mark.from)
  /\ \A k \in DOMAIN tokens :
       [line |-> tokens[k].line, column |-> tokens[k].column]
         = PlaceIn(source, tokens[k].from)

LEMMA LocationsSuffice == LocationsTrue => PositionsAreTrue
BY DEF LocationsTrue, PositionsAreTrue, Place, NewLinesBefore, PlaceIn, BreaksIn, LastOf

(* Past a character that ends no line the column is one more.              *)
LEMMA PlaceAfterCharacter ==
  ASSUME NEW s, NEW p \in Nat \ {0}, s[p] # "nl", HasLast(s, p)
  PROVE  /\ HasLast(s, p + 1)
         /\ PlaceIn(s, p + 1) = [line   |-> PlaceIn(s, p).line,
                                 column |-> PlaceIn(s, p).column + 1]
<1>1. BreaksIn(s, p + 1) = BreaksIn(s, p)
  BY DEF BreaksIn
<1>2. BreaksIn(s, p) # {} => LastOf(BreaksIn(s, p)) \in BreaksIn(s, p)
  BY DEF HasLast, LastOf
<1>3. BreaksIn(s, p) # {} => LastOf(BreaksIn(s, p)) \in Nat
  BY <1>2 DEF BreaksIn
<1>4. HasLast(s, p + 1)
  BY <1>1 DEF HasLast
<1>5. CASE BreaksIn(s, p) = {}
  BY <1>1, <1>4, <1>5 DEF PlaceIn
<1>6. CASE BreaksIn(s, p) # {}
  <2>1. (p + 1) - LastOf(BreaksIn(s, p)) = (p - LastOf(BreaksIn(s, p))) + 1
    BY <1>3, <1>6
  <2>2. QED
    BY <1>1, <1>4, <1>6, <2>1 DEF PlaceIn
<1>7. QED
  BY <1>5, <1>6

(* Past a line end the line is one more and the column starts anew.        *)
LEMMA PlaceAfterLine ==
  ASSUME NEW s, NEW p \in Nat \ {0}, s[p] = "nl"
  PROVE  /\ HasLast(s, p + 1)
         /\ PlaceIn(s, p + 1) = [line |-> PlaceIn(s, p).line + 1, column |-> 1]
<1>1. BreaksIn(s, p + 1) = BreaksIn(s, p) \cup {p} /\ p \notin BreaksIn(s, p)
  BY DEF BreaksIn
<1>2. IsFiniteSet(BreaksIn(s, p))
  <2>1. IsFiniteSet(1 .. (p - 1))
    BY FS_Interval
  <2>2. QED
    BY <2>1, FS_Subset DEF BreaksIn
<1>3. Cardinality(BreaksIn(s, p + 1)) = Cardinality(BreaksIn(s, p)) + 1
  BY <1>1, <1>2, FS_AddElement
<1>4. p \in BreaksIn(s, p + 1) /\ \A j \in BreaksIn(s, p + 1) : j \in Nat /\ j <= p
  BY DEF BreaksIn
<1>5. LastOf(BreaksIn(s, p + 1)) = p
  <2>1. /\ LastOf(BreaksIn(s, p + 1)) \in BreaksIn(s, p + 1)
        /\ \A j \in BreaksIn(s, p + 1) : j <= LastOf(BreaksIn(s, p + 1))
    BY <1>4 DEF LastOf
  <2>2. QED
    BY <1>4, <2>1
<1>6. (p + 1) - p = 1
  OBVIOUS
<1>7. QED
  BY <1>3, <1>4, <1>5, <1>6 DEF PlaceIn, HasLast

LEMMA StepKeepsPlace ==
  ASSUME TypeOK, SourceOK, Next, LocationsTrue
  PROVE  /\ HasLast(source, pos')
         /\ [line |-> line', column |-> col'] = PlaceIn(source, pos')
<1>1. /\ pos \in Nat \ {0} /\ HasLast(source, pos)
      /\ [line |-> line, column |-> col] = PlaceIn(source, pos)
  BY DEF TypeOK, SourceOK, LocationsTrue
<1>2. line = PlaceIn(source, pos).line /\ col = PlaceIn(source, pos).column
  BY <1>1
<1>3. CASE Passes(0)
  BY <1>1, <1>3 DEF Passes, TypeOK
<1>4. CASE Passes(1)
  <2>1. source[pos] # "nl" /\ pos' = pos + 1 /\ col' = col + 1 /\ line' = line
    BY <1>1, <1>4 DEF Passes
  <2>2. QED
    BY <1>1, <1>2, <2>1, PlaceAfterCharacter
<1>5. CASE Passes(2)
  <2>1. /\ source[pos] # "nl" /\ source[pos + 1] # "nl"
        /\ pos' = pos + 2 /\ col' = col + 2 /\ line' = line
    BY <1>1, <1>5 DEF Passes
  <2>2. /\ HasLast(source, pos + 1)
        /\ PlaceIn(source, pos + 1) = [line |-> line, column |-> col + 1]
    BY <1>1, <1>2, <2>1, PlaceAfterCharacter
  <2>3. /\ HasLast(source, (pos + 1) + 1)
        /\ PlaceIn(source, (pos + 1) + 1) = [line |-> line, column |-> (col + 1) + 1]
    BY <1>1, <2>1, <2>2, PlaceAfterCharacter
  <2>4. (pos + 1) + 1 = pos + 2 /\ (col + 1) + 1 = col + 2
    BY DEF TypeOK, SourceOK
  <2>5. QED
    BY <2>1, <2>3, <2>4
<1>6. CASE PassesLine
  BY <1>1, <1>2, <1>6, PlaceAfterLine DEF PassesLine
<1>7. QED
  BY <1>3, <1>4, <1>5, <1>6, StepShape

LEMMA LocationsKept ==
  TypeOK /\ SourceOK /\ LocationsTrue /\ [Next]_vars => LocationsTrue'
<1>1. ASSUME TypeOK, SourceOK, LocationsTrue, Next PROVE LocationsTrue'
  <2>1. source' = source
    BY <1>1, StepShape
  <2>2. ASSUME NEW start \in {mark, Here}
        PROVE  [line |-> start.line, column |-> start.column] = PlaceIn(source, start.from)
    BY <1>1 DEF LocationsTrue, Here
  <2>3. [line |-> mark'.line, column |-> mark'.column] = PlaceIn(source, mark'.from)
    BY <1>1, <2>2, StepShape
  <2>4. tokens \in Seq(TokenAt(pos, line))
    BY <1>1 DEF TypeOK, TokenAt, Kinds
  <2>5. ASSUME NEW k \in DOMAIN tokens'
        PROVE  [line |-> tokens'[k].line, column |-> tokens'[k].column]
                 = PlaceIn(source, tokens'[k].from)
    <3>1. CASE tokens' = tokens
      BY <1>1, <3>1 DEF LocationsTrue
    <3>2. ASSUME NEW kind \in Kinds, NEW start \in {mark, Here},
                 Emits(kind, start, pos' - 1)
          PROVE  [line |-> tokens'[k].line, column |-> tokens'[k].column]
                   = PlaceIn(source, tokens'[k].from)
      <4>1. CASE k \in DOMAIN tokens
        <5>1. tokens'[k] = tokens[k]
          BY <2>4, <3>2, <4>1 DEF Emits
        <5>2. QED
          BY <1>1, <4>1, <5>1 DEF LocationsTrue
      <4>2. CASE k \notin DOMAIN tokens
        <5>1. tokens'[k] = Token(kind, start, pos' - 1)
          BY <2>4, <3>2, <4>2 DEF Emits
        <5>2. QED
          BY <2>2, <5>1 DEF Token
      <4>3. QED
        BY <4>1, <4>2
    <3>3. QED
      BY <1>1, <3>1, <3>2, StepShape
  <2>6. QED
    BY <1>1, <2>1, <2>3, <2>5, StepKeepsPlace DEF LocationsTrue
<1>2. ASSUME LocationsTrue, UNCHANGED vars PROVE LocationsTrue'
  BY <1>2 DEF LocationsTrue, vars
<1>3. QED
  BY <1>1, <1>2

LEMMA LocationsInit == Init => LocationsTrue
<1>1. BreaksIn(source, 1) = {}
  BY DEF BreaksIn
<1>2. PlaceIn(source, 1) = [line |-> 1, column |-> 1] /\ HasLast(source, 1)
  BY <1>1, FS_EmptySet DEF PlaceIn, HasLast
<1>3. QED
  BY <1>2 DEF Init, LocationsTrue

(* The location of every token is where its text stands, for every source. *)
THEOREM PositionsHold == Spec => []PositionsAreTrue
<1>1. Init => TypeOK /\ SourceOK /\ LocationsTrue
  BY TypeInit, LocationsInit
<1>2. /\ TypeOK /\ SourceOK /\ LocationsTrue /\ [Next]_vars
      => TypeOK' /\ SourceOK' /\ LocationsTrue'
  BY TypeKept, LocationsKept
<1>3. LocationsTrue => PositionsAreTrue
  BY LocationsSuffice
<1>4. QED
  BY <1>1, <1>2, <1>3, PTL DEF Spec

-----------------------------------------------------------------------------
(* What the tokens account for, of a source s and a sequence of tokens.    *)
Tokens == [kind : Kinds, from : Nat \ {0}, to : Nat, line : Nat, column : Nat]

CharAt(s, i) == IF i \in DOMAIN s THEN s[i] ELSE "end"
CoveredBy(toks) == UNION {Span(toks[k]) : k \in DOMAIN toks}

CommentFrom(s, toks, j, i) ==
  /\ CharAt(s, j) = "/" /\ CharAt(s, j + 1) = "/"
  /\ \A k \in j .. i : k \notin CoveredBy(toks) /\ s[k] # "nl"

BlankIn(s, toks, i) ==
  /\ i \notin CoveredBy(toks)
  /\ s[i] \in Whitespace \/ \E j \in 1 .. i : CommentFrom(s, toks, j, i)

AccountedIn(s, toks, p) ==
  /\ \A k \in 1 .. (Len(toks) - 1) : toks[k].to < toks[k + 1].from
  /\ \A i \in 1 .. (p - 1) : i \in CoveredBy(toks) \/ BlankIn(s, toks, i)

(* Every token ends before p.                                              *)
Below(toks, p) == \A k \in DOMAIN toks : toks[k].to < p

RunClass(kind) == IF kind = "IDENT" THEN {"n", "a", "1"} ELSE {"1"}

FullIn(s, toks, t) ==
  /\ t.kind \in {"IDENT", "NUMBER"} =>
       /\ CharAt(s, t.to + 1) \notin RunClass(t.kind)
       /\ \A i \in Span(t) : s[i] \in RunClass(t.kind)
  /\ t.kind = ">" => (CharAt(s, t.from - 1) = "-" => t.from - 1 \in CoveredBy(toks))
  /\ t.kind = "ARROW" => SubSeq(s, t.from, t.to) = <<"-", ">">>

LEMMA SameAccount ==
  /\ \A p : AccountedBefore(p) <=> AccountedIn(source, tokens, p)
  /\ (\A k \in DOMAIN tokens : FullIn(source, tokens, tokens[k])) => LongestMatch
<1>1. Covered = CoveredBy(tokens)
  BY DEF Covered, CoveredBy
<1>2. \A i : At(i) = CharAt(source, i)
  BY DEF At, CharAt
<1>3. \A i : IsBlank(i) <=> BlankIn(source, tokens, i)
  BY <1>1, <1>2 DEF IsBlank, BlankIn, CommentFrom
<1>4. \A p : AccountedBefore(p) <=> AccountedIn(source, tokens, p)
  BY <1>1, <1>3 DEF AccountedBefore, AccountedIn
<1>5. ASSUME \A k \in DOMAIN tokens : FullIn(source, tokens, tokens[k])
      PROVE  LongestMatch
  BY <1>1, <1>2, <1>5 DEF LongestMatch, FullIn, RunClass
<1>6. QED
  BY <1>4, <1>5

LEMMA CoveredAppend ==
  ASSUME NEW toks \in Seq(Tokens), NEW t
  PROVE  CoveredBy(Append(toks, t)) = CoveredBy(toks) \cup Span(t)
<1>1. /\ DOMAIN Append(toks, t) = DOMAIN toks \cup {Len(toks) + 1}
      /\ \A k \in DOMAIN toks : Append(toks, t)[k] = toks[k]
      /\ Append(toks, t)[Len(toks) + 1] = t
  OBVIOUS
<1>2. \A u : \A i : i \in CoveredBy(u) <=> \E k \in DOMAIN u : i \in Span(u[k])
  BY DEF CoveredBy
<1>3. \A i : i \in CoveredBy(Append(toks, t)) <=> i \in CoveredBy(toks) \cup Span(t)
  BY <1>1, <1>2
<1>4. QED
  BY <1>3

(* A token that starts where the account ends leaves what lies before.     *)
LEMMA BlankStays ==
  ASSUME NEW s, NEW toks \in Seq(Tokens), NEW t, NEW f \in Nat \ {0}, t.from = f,
         t.to \in Nat, NEW i \in 1 .. (f - 1), BlankIn(s, toks, i)
  PROVE  BlankIn(s, Append(toks, t), i)
<1>1. \A k \in 1 .. i : k \in CoveredBy(Append(toks, t)) <=> k \in CoveredBy(toks)
  <2>1. \A k \in 1 .. i : k \notin Span(t)
    BY DEF Span
  <2>2. QED
    BY <2>1, CoveredAppend
<1>2. i \in 1 .. i
  OBVIOUS
<1>3. ASSUME NEW j \in 1 .. i, CommentFrom(s, toks, j, i)
      PROVE  CommentFrom(s, Append(toks, t), j, i)
  BY <1>1, <1>3 DEF CommentFrom
<1>4. QED
  BY <1>1, <1>2, <1>3 DEF BlankIn

LEMMA AccountGrows ==
  ASSUME NEW s, NEW toks \in Seq(Tokens), NEW t, NEW f \in Nat \ {0},
         NEW p \in Nat \ {0}, f <= p, t.from = f, t.to = p - 1,
         AccountedIn(s, toks, f), Below(toks, f)
  PROVE  AccountedIn(s, Append(toks, t), p) /\ Below(Append(toks, t), p)
<1>1. /\ DOMAIN toks = 1 .. Len(toks) /\ Len(toks) \in Nat
      /\ DOMAIN Append(toks, t) = 1 .. (Len(toks) + 1)
      /\ Len(Append(toks, t)) = Len(toks) + 1
      /\ \A k \in 1 .. Len(toks) : Append(toks, t)[k] = toks[k]
      /\ Append(toks, t)[Len(toks) + 1] = t
  OBVIOUS
<1>2. \A k \in 1 .. Len(toks) : toks[k].to \in Nat /\ toks[k].to < f
  <2>1. \A k \in 1 .. Len(toks) : toks[k] \in Tokens
    OBVIOUS
  <2>2. QED
    BY <1>1, <2>1 DEF Below, Tokens
<1>3. ASSUME NEW k \in 1 .. Len(toks)
      PROVE  Append(toks, t)[k].to < Append(toks, t)[k + 1].from
  <2>1. CASE k = Len(toks)
    BY <1>1, <1>2, <2>1
  <2>2. CASE k # Len(toks)
    <3>1. k \in 1 .. (Len(toks) - 1) /\ k + 1 \in 1 .. Len(toks)
      BY <1>1, <2>2
    <3>2. QED
      BY <1>1, <3>1 DEF AccountedIn
  <2>3. QED
    BY <2>1, <2>2
<1>4. ASSUME NEW i \in 1 .. (p - 1)
      PROVE  i \in CoveredBy(Append(toks, t)) \/ BlankIn(s, Append(toks, t), i)
  <2>1. CASE i < f
    <3>1. i \in 1 .. (f - 1)
      BY <2>1
    <3>2. t.to \in Nat
      OBVIOUS
    <3>3. QED
      BY <3>1, <3>2, BlankStays, CoveredAppend DEF AccountedIn
  <2>2. CASE f <= i
    BY <2>2, CoveredAppend DEF Span
  <2>3. QED
    BY <2>1, <2>2
<1>5. Below(Append(toks, t), p)
  BY <1>1, <1>2 DEF Below
<1>6. (Len(toks) + 1) - 1 = Len(toks)
  BY <1>1
<1>7. QED
  BY <1>1, <1>3, <1>4, <1>5, <1>6 DEF AccountedIn

LEMMA Uncovered ==
  ASSUME NEW toks \in Seq(Tokens), NEW p \in Nat, Below(toks, p)
  PROVE  p \notin CoveredBy(toks) /\ \A k \in DOMAIN toks : toks[k].to \in Nat /\ toks[k].to < p
<1>1. \A k \in DOMAIN toks : toks[k] \in Tokens
  OBVIOUS
<1>2. \A k \in DOMAIN toks : toks[k].to \in Nat /\ toks[k].to < p
  BY <1>1 DEF Below, Tokens
<1>3. \A k \in DOMAIN toks : p \notin Span(toks[k])
  BY <1>1, <1>2 DEF Span, Tokens
<1>4. QED
  BY <1>2, <1>3 DEF CoveredBy

LEMMA AccountPasses ==
  ASSUME NEW s, NEW toks \in Seq(Tokens), NEW p \in Nat \ {0},
         AccountedIn(s, toks, p), Below(toks, p),
         s[p] \in Whitespace \/ \E j \in 1 .. p : CommentFrom(s, toks, j, p)
  PROVE  AccountedIn(s, toks, p + 1) /\ Below(toks, p + 1)
<1>1. p \notin CoveredBy(toks) /\ \A k \in DOMAIN toks : toks[k].to \in Nat /\ toks[k].to < p
  BY Uncovered
<1>2.  \A i \in 1 .. ((p + 1) - 1) : i = p \/ i \in 1 .. (p - 1)
  OBVIOUS
<1>3. QED
  BY <1>1, <1>2 DEF AccountedIn, Below, BlankIn

LEMMA ArrowText ==
  ASSUME NEW s \in Seq(Class), NEW p \in 1 .. Len(s), p + 1 \in 1 .. Len(s),
         s[p] = "-", s[p + 1] = ">"
  PROVE  SubSeq(s, p, p + 1) = <<"-", ">">>
<1>1. SubSeq(s, p, p + 1) \in Seq(Class) /\ Len(SubSeq(s, p, p + 1)) = 2
  <2>1. \A i \in p .. (p + 1) : s[i] \in Class
    OBVIOUS
  <2>2. (p + 1) - p + 1 = 2 /\ p <= p + 1 /\ p \in Int /\ p + 1 \in Int
    OBVIOUS
  <2>3. QED
    BY <2>1, <2>2, SubSeqProperties
<1>2. SubSeq(s, p, p + 1)[1] = "-" /\ SubSeq(s, p, p + 1)[2] = ">"
  <2>1. \A i \in p .. (p + 1) : s[i] \in Class
    OBVIOUS
  <2>2. \A i \in 1 .. 2 : SubSeq(s, p, p + 1)[i] = s[p + i - 1]
    BY <2>1, SubSeqProperties
  <2>3. p + 1 - 1 = p /\ p + 2 - 1 = p + 1
    OBVIOUS
  <2>4. QED
    BY <2>2, <2>3
<1>3. <<"-", ">">> \in Seq(Class)
  <2>1. "-" \in Class /\ ">" \in Class
    BY DEF Class
  <2>2. QED
    BY <2>1
<1>4. \A i \in 1 .. 2 : SubSeq(s, p, p + 1)[i] = <<"-", ">">>[i]
  BY <1>2
<1>5. QED
  BY <1>1, <1>3, <1>4, SeqEqual

-----------------------------------------------------------------------------
(* The invariant: what is accounted for, up to the token being read, and   *)
(* what the loops know of the characters since.                            *)
Frontier == IF mode \in {"IDENT", "NUMBER", "string", "escape"} THEN mark.from ELSE pos

Accounts == mode # "error" => AccountedIn(source, tokens, Frontier) /\ Below(tokens, Frontier)

InsideComment ==
  mode = "comment" => \E j \in 1 .. pos : CommentFrom(source, tokens, j, pos - 1)

(* No comment is left before its line ends.                                *)
OutsideComment ==
  mode = "scan" =>
    \A j \in 1 .. (pos - 1) :
      CommentFrom(source, tokens, j, pos - 1) => CharAt(source, pos) \in {"nl", "end"}

RunFits ==
  mode \in {"IDENT", "NUMBER"} =>
    /\ \A i \in mark.from .. (pos - 1) : source[i] \in RunClass(mode)
    /\ mark.from < pos \/ CharAt(source, pos) \in RunClass(mode)

StringFits ==
  mode \in {"string", "escape"} =>
    /\ mark.from < pos /\ CharAt(source, mark.from) = "q"
    /\ \A i \in (mark.from + 1) .. (pos - 1) : source[i] = "q" => source[i - 1] = "\\"
    /\ mode = "escape" => source[pos - 1] = "\\"

FullLength == \A k \in DOMAIN tokens : FullIn(source, tokens, tokens[k])

LexInv ==
  /\ Accounts /\ InsideComment /\ OutsideComment
  /\ RunFits /\ StringFits /\ FullLength

LEMMA LexTypes ==
  ASSUME TypeOK, SourceOK
  PROVE  /\ tokens \in Seq(Tokens) /\ pos \in Nat \ {0} /\ mark.from \in 1 .. pos
         /\ Frontier \in Nat \ {0} /\ Frontier <= pos
         /\ \A i : At(i) = CharAt(source, i)
<1>1. /\ tokens \in Seq(TokenAt(pos, line)) /\ pos \in Nat \ {0} /\ line \in Nat
      /\ mark.from \in 1 .. pos
  BY DEF TypeOK, SourceOK, TokenAt, Kinds
<1>2. TokenAt(pos, line) \subseteq Tokens
  BY <1>1 DEF TokenAt, Tokens
<1>3. tokens \in Seq(Tokens)
  BY <1>1, <1>2
<1>4. QED
  BY <1>1, <1>3 DEF Frontier, At, CharAt

LEMMA CommentGoesOn ==
  ASSUME TypeOK, SourceOK, LexInv, InComment, At(pos) \notin {"nl", "end"}
  PROVE  \E j \in 1 .. pos : CommentFrom(source, tokens, j, pos)
<1> USE LexTypes
<1>1. mode = "comment" /\ Frontier = pos
  BY DEF InComment, Frontier
<1>2. pos \notin CoveredBy(tokens)
  BY <1>1, Uncovered DEF LexInv, Accounts
<1>3. source[pos] # "nl"
  BY DEF At
<1>4. PICK j \in 1 .. pos : CommentFrom(source, tokens, j, pos - 1)
  BY <1>1 DEF LexInv, InsideComment
<1>5. \A k \in j .. pos : k = pos \/ k \in j .. (pos - 1)
  OBVIOUS
<1>6. CommentFrom(source, tokens, j, pos)
  BY <1>2, <1>3, <1>4, <1>5 DEF CommentFrom
<1>7. QED
  BY <1>6

LEMMA StepKeepsAccounts ==
  ASSUME TypeOK, SourceOK, LexInv, Next
  PROVE  Accounts'
<1> USE LexTypes
<1> USE DEF Accounts
<1>1. source' = source /\ mode # "error"
  BY StepShape
<1>2. AccountedIn(source, tokens, Frontier) /\ Below(tokens, Frontier)
  BY <1>1 DEF LexInv
<1>3. ASSUME tokens' = tokens, Frontier' = Frontier PROVE Accounts'
  BY <1>1, <1>2, <1>3
<1>4. ASSUME tokens' = tokens, Frontier = pos, Frontier' = pos + 1,
             \/ source[pos] \in Whitespace
             \/ \E j \in 1 .. pos : CommentFrom(source, tokens, j, pos)
      PROVE  Accounts'
  BY <1>1, <1>2, <1>4, AccountPasses
<1>5. ASSUME NEW t, NEW p \in Nat \ {0}, tokens' = Append(tokens, t), Frontier' = p,
             t.from = Frontier, t.to = p - 1, Frontier <= p
      PROVE  Accounts'
  BY <1>1, <1>2, <1>5, AccountGrows
<1> USE DEF Frontier, Advance, Emit, Here, Token
<1>6. CASE NewLine \/ Space
  BY <1>4, <1>6 DEF NewLine, Space, Whitespace, At
<1>7. CASE StartComment \/ StartRun \/ OpenString
  BY <1>3, <1>7 DEF StartComment, StartRun, OpenString
<1>8. CASE InComment
  <2>1. CASE At(pos) \in {"nl", "end"}
    BY <1>3, <1>8, <2>1 DEF InComment
  <2>2. CASE At(pos) \notin {"nl", "end"}
    <3>1. \E j \in 1 .. pos : CommentFrom(source, tokens, j, pos)
      BY <1>8, <2>2, CommentGoesOn
    <3>2. QED
      BY <1>4, <1>8, <2>2, <3>1 DEF InComment
  <2>3. QED
    BY <2>1, <2>2
<1>9. CASE Punct \/ Finish
  BY <1>5, <1>9 DEF Punct, Finish
<1>10. CASE Arrow
  BY <1>5, <1>10 DEF Arrow
<1>11. CASE InRun \/ StringChar \/ Backslash \/ Escape
  BY <1>3, <1>11 DEF InRun, StringChar, Backslash, Escape
<1>12. CASE EndRun \/ CloseString
  BY <1>5, <1>12 DEF EndRun, CloseString
<1>13. CASE Unterminated \/ BadEscape \/ Unrecognised
  BY <1>13 DEF Unterminated, BadEscape, Unrecognised, Raise
<1>14. QED
  BY <1>6, <1>7, <1>8, <1>9, <1>10, <1>11, <1>12, <1>13 DEF Next

LEMMA StepKeepsComments ==
  ASSUME TypeOK, SourceOK, LexInv, Next
  PROVE  InsideComment' /\ OutsideComment'
<1> USE LexTypes
<1> USE DEF InsideComment, OutsideComment
<1>1. source' = source
  BY StepShape
<1>2. ASSUME mode' \notin {"scan", "comment"} PROVE InsideComment' /\ OutsideComment'
  BY <1>2
<1>3. ASSUME mode' = "scan", NEW i \in Nat \ {0}, pos' = i + 1,
             source[i] = "nl" \/ i \in CoveredBy(tokens')
      PROVE  InsideComment' /\ OutsideComment'
  <2>1. ASSUME NEW j \in 1 .. i PROVE ~CommentFrom(source, tokens', j, i)
    <3>1. i \in j .. i
      OBVIOUS
    <3>2. QED
      BY <1>3, <3>1 DEF CommentFrom
  <2>2. (i + 1) - 1 = i
    OBVIOUS
  <2>3. QED
    BY <1>1, <1>3, <2>1, <2>2
<1>4. ASSUME NEW t, tokens' = Append(tokens, t), mode' = "scan",
             NEW i \in Nat \ {0}, pos' = i + 1, i \in Span(t)
      PROVE  InsideComment' /\ OutsideComment'
  BY <1>3, <1>4, CoveredAppend
<1> USE DEF Advance, Emit, Here, Token, Raise
<1>5. CASE NewLine
  BY <1>3, <1>5 DEF NewLine, At
<1>6. CASE Space
  <2>1. /\ mode = "scan" /\ mode' = "scan" /\ tokens' = tokens /\ pos' = pos + 1
        /\ source[pos] = "sp" /\ CharAt(source, pos) = "sp"
    BY <1>6 DEF Space, At
  <2>2. ASSUME NEW j \in 1 .. pos PROVE ~CommentFrom(source, tokens, j, pos)
    <3>1. CASE j = pos
      BY <2>1, <3>1 DEF CommentFrom
    <3>2. CASE j # pos
      <4>1. j \in 1 .. (pos - 1) /\ \A k \in j .. (pos - 1) : k \in j .. pos
        BY <3>2
      <4>2. CommentFrom(source, tokens, j, pos) => CommentFrom(source, tokens, j, pos - 1)
        BY <4>1 DEF CommentFrom
      <4>3. QED
        BY <2>1, <4>1, <4>2 DEF LexInv
    <3>3. QED
      BY <3>1, <3>2
  <2>3. (pos + 1) - 1 = pos
    OBVIOUS
  <2>4. QED
    BY <1>1, <2>1, <2>2, <2>3
<1>7. CASE StartComment
  <2>1. CommentFrom(source, tokens, pos, pos - 1)
    BY <1>7 DEF StartComment, CommentFrom
  <2>2. QED
    BY <1>1, <1>7, <2>1 DEF StartComment
<1>8. CASE InComment
  <2>1. CASE At(pos) \in {"nl", "end"}
    BY <1>1, <1>8, <2>1 DEF InComment
  <2>2. CASE At(pos) \notin {"nl", "end"}
    <3>1. /\ mode = "comment" /\ mode' = "comment" /\ tokens' = tokens /\ pos' = pos + 1
      BY <1>8, <2>2 DEF InComment
    <3>2. PICK j \in 1 .. pos : CommentFrom(source, tokens, j, pos)
      BY <1>8, <2>2, CommentGoesOn
    <3>3. j \in 1 .. (pos + 1) /\ (pos + 1) - 1 = pos
      OBVIOUS
    <3>4. QED
      BY <1>1, <3>1, <3>2, <3>3
  <2>3. QED
    BY <2>1, <2>2
<1>9. CASE Punct
  <2>1. /\ tokens' = Append(tokens, Token(At(pos), Here, pos))
        /\ mode' = "scan" /\ pos' = pos + 1
    BY <1>9 DEF Punct
  <2>2. pos \in Span(Token(At(pos), Here, pos))
    BY DEF Span
  <2>3. QED
    BY <1>4, <2>1, <2>2
<1>10. CASE Arrow
  <2>1. /\ tokens' = Append(tokens, Token("ARROW", Here, pos + 1))
        /\ mode' = "scan" /\ pos' = (pos + 1) + 1
    BY <1>10 DEF Arrow
  <2>2. pos + 1 \in Nat \ {0} /\ pos + 1 \in Span(Token("ARROW", Here, pos + 1))
    BY DEF Span
  <2>3. QED
    BY <1>4, <2>1, <2>2
<1>11. CASE EndRun
  <2>1. /\ tokens' = Append(tokens, Token(mode, mark, pos - 1))
        /\ mode' = "scan" /\ pos' = pos
    BY <1>11 DEF EndRun
  <2>2. ~(CharAt(source, pos) \in RunClass(mode))
    BY <1>11 DEF EndRun, Continues, RunClass, IdentStart
  <2>3. mark.from < pos
    BY <1>11, <2>2 DEF EndRun, LexInv, RunFits
  <2>4. PICK i \in Nat \ {0} : pos = i + 1
    BY <2>3
  <2>5. pos - 1 = i /\ i \in Span(Token(mode, mark, pos - 1))
    BY <2>3, <2>4 DEF Span
  <2>6. QED
    BY <1>4, <2>1, <2>4, <2>5
<1>12. CASE CloseString
  <2>1. pos \in mark.from .. pos
    OBVIOUS
  <2>2. QED
    BY <1>4, <1>12, <2>1 DEF CloseString, Span
<1>13. CASE StartRun \/ InRun \/ OpenString \/ StringChar \/ Backslash \/ Escape
  BY <1>2, <1>13 DEF StartRun, InRun, OpenString, StringChar, Backslash, Escape
<1>14. CASE Unterminated \/ BadEscape \/ Unrecognised \/ Finish
  BY <1>2, <1>14 DEF Unterminated, BadEscape, Unrecognised, Finish
<1>15. QED
  BY <1>5, <1>6, <1>7, <1>8, <1>9, <1>10, <1>11, <1>12, <1>13, <1>14 DEF Next

LEMMA StepKeepsRun ==
  ASSUME TypeOK, SourceOK, LexInv, Next
  PROVE  RunFits'
<1> USE LexTypes
<1> USE DEF RunFits
<1>1. source' = source
  BY StepShape
<1> USE DEF Advance, Emit, Here, Raise
<1>2. CASE StartRun
  <2>1. /\ mark'.from = pos /\ pos' = pos /\ mode' \in {"IDENT", "NUMBER"}
        /\ CharAt(source, pos) \in RunClass(mode')
    BY <1>2 DEF StartRun, RunClass, IdentStart
  <2>2. QED
    BY <1>1, <2>1
<1>3. CASE InRun
  <2>1. /\ mode \in {"IDENT", "NUMBER"} /\ mode' = mode /\ mark' = mark /\ pos' = pos + 1
        /\ At(pos) \in RunClass(mode) /\ At(pos) = source[pos]
    BY <1>3 DEF InRun, Continues, RunClass, IdentStart, At
  <2>2. \A i \in mark.from .. ((pos + 1) - 1) : i = pos \/ i \in mark.from .. (pos - 1)
    OBVIOUS
  <2>3. QED
    BY <1>1, <2>1, <2>2 DEF LexInv
<1>4. CASE mode' \notin {"IDENT", "NUMBER"}
  BY <1>4
<1>5. QED
  <2>1. mode' \in {"IDENT", "NUMBER"} => StartRun \/ InRun
    BY StepShape DEF Next, NewLine, Space, StartComment, InComment, Punct, Arrow, EndRun,
       OpenString, StringChar, Backslash, Escape, CloseString, Unterminated, BadEscape,
       Unrecognised, Finish
  <2>2. QED
    BY <1>2, <1>3, <1>4, <2>1

LEMMA StepKeepsString ==
  ASSUME TypeOK, SourceOK, LexInv, Next
  PROVE  StringFits'
<1> USE LexTypes
<1> USE DEF StringFits
<1>1. source' = source
  BY StepShape
<1> USE DEF Advance, Emit, Here, Raise
<1>2. CASE OpenString
  BY <1>1, <1>2 DEF OpenString
<1>3. ASSUME mode \in {"string", "escape"}, mode' \in {"string", "escape"},
             mark' = mark, pos' = pos + 1,
             source[pos] = "q" => source[pos - 1] = "\\",
             mode' = "escape" => source[pos] = "\\"
      PROVE  StringFits'
  <2>1. /\ mark.from < pos /\ CharAt(source, mark.from) = "q"
        /\ \A i \in (mark.from + 1) .. (pos - 1) : source[i] = "q" => source[i - 1] = "\\"
    BY <1>3 DEF LexInv
  <2>2. (pos + 1) - 1 = pos
    OBVIOUS
  <2>3. ASSUME NEW i \in (mark.from + 1) .. pos, source[i] = "q"
        PROVE  source[i - 1] = "\\"
    BY <1>3, <2>1, <2>3
  <2>4. QED
    BY <1>1, <1>3, <2>1, <2>2, <2>3
<1>4. CASE StringChar
  BY <1>3, <1>4 DEF StringChar, At
<1>5. CASE Backslash
  BY <1>3, <1>5 DEF Backslash, At
<1>6. CASE Escape
  <2>1. source[pos - 1] = "\\"
    BY <1>6 DEF Escape, LexInv
  <2>2. QED
    BY <1>3, <1>6, <2>1 DEF Escape
<1>7. CASE mode' \notin {"string", "escape"}
  BY <1>7
<1>8. QED
  <2>1. mode' \in {"string", "escape"} => OpenString \/ StringChar \/ Backslash \/ Escape
    BY StepShape DEF Next, NewLine, Space, StartComment, InComment, Punct, Arrow, StartRun,
       InRun, EndRun, CloseString, Unterminated, BadEscape, Unrecognised, Finish
  <2>2. QED
    BY <1>2, <1>4, <1>5, <1>6, <1>7, <2>1

(* A ">" that stands alone follows no minus but one that a token covers.   *)
LEMMA LoneGreater ==
  ASSUME TypeOK, SourceOK, LexInv, mode = "scan", At(pos) = ">",
         CharAt(source, pos - 1) = "-"
  PROVE  pos - 1 \in CoveredBy(tokens)
<1> USE LexTypes
<1>1. pos - 1 \in DOMAIN source /\ source[pos - 1] = "-"
  BY DEF CharAt
<1>2. pos - 1 \in 1 .. (pos - 1)
  BY <1>1 DEF SourceOK
<1>3. pos - 1 \in CoveredBy(tokens) \/ BlankIn(source, tokens, pos - 1)
  BY <1>2 DEF LexInv, Accounts, AccountedIn, Frontier
<1>4. source[pos - 1] \notin Whitespace
  BY <1>1 DEF Whitespace
<1>5. \A j \in 1 .. (pos - 1) : ~CommentFrom(source, tokens, j, pos - 1)
  BY DEF LexInv, OutsideComment
<1>6. QED
  BY <1>3, <1>4, <1>5 DEF BlankIn

LEMMA StepKeepsFullLength ==
  ASSUME TypeOK, SourceOK, LexInv, Next
  PROVE  FullLength'
<1> USE LexTypes
<1>1. source' = source
  BY StepShape
<1>2. CASE tokens' = tokens
  BY <1>1, <1>2 DEF FullLength, LexInv
<1>3. ASSUME NEW t, tokens' = Append(tokens, t), FullIn(source, tokens, t)
      PROVE  FullLength'
  <2>1. CoveredBy(tokens) \subseteq CoveredBy(tokens')
    BY <1>3, CoveredAppend
  <2>2. ASSUME NEW k \in DOMAIN tokens' PROVE FullIn(source, tokens, tokens'[k])
    <3>1. CASE k \in DOMAIN tokens
      BY <1>3, <3>1 DEF LexInv, FullLength
    <3>2. CASE k \notin DOMAIN tokens
      BY <1>3, <3>2
    <3>3. QED
      BY <3>1, <3>2
  <2>3. ASSUME NEW k \in DOMAIN tokens' PROVE FullIn(source, tokens', tokens'[k])
    BY <2>1, <2>2 DEF FullIn
  <2>4. QED
    BY <1>1, <2>3 DEF FullLength
<1> USE DEF Advance, Emit, Here, Raise
<1>4. CASE NewLine \/ Space \/ StartComment \/ InComment \/ StartRun \/ InRun
  BY <1>2, <1>4 DEF NewLine, Space, StartComment, InComment, StartRun, InRun
<1>5. CASE OpenString \/ StringChar \/ Backslash \/ Escape
  BY <1>2, <1>5 DEF OpenString, StringChar, Backslash, Escape
<1>6. CASE Unterminated \/ BadEscape \/ Unrecognised
  BY <1>2, <1>6 DEF Unterminated, BadEscape, Unrecognised
<1>7. CASE Punct
  <2>1. At(pos) \in Single /\ tokens' = Append(tokens, Token(At(pos), Here, pos))
    BY <1>7 DEF Punct
  <2>2. At(pos) = ">" => (CharAt(source, pos - 1) = "-" => pos - 1 \in CoveredBy(tokens))
    BY <1>7, LoneGreater DEF Punct
  <2>3. FullIn(source, tokens, Token(At(pos), Here, pos))
    BY <2>1, <2>2 DEF FullIn, Token, Single
  <2>4. QED
    BY <1>3, <2>1, <2>3
<1>8. CASE Arrow
  <2>1. /\ source[pos] = "-" /\ source[pos + 1] = ">"
        /\ pos \in 1 .. Len(source) /\ pos + 1 \in 1 .. Len(source)
    BY <1>8 DEF Arrow, At, SourceOK
  <2>2. SubSeq(source, pos, pos + 1) = <<"-", ">">>
    BY <2>1, ArrowText DEF SourceOK
  <2>3. FullIn(source, tokens, Token("ARROW", Here, pos + 1))
    BY <2>2 DEF FullIn, Token
  <2>4. QED
    BY <1>3, <1>8, <2>3 DEF Arrow
<1>9. CASE EndRun
  <2>1. /\ mode \in {"IDENT", "NUMBER"} /\ CharAt(source, pos) \notin RunClass(mode)
        /\ tokens' = Append(tokens, Token(mode, mark, pos - 1))
    BY <1>9 DEF EndRun, Continues, RunClass, IdentStart
  <2>2. \A i \in mark.from .. (pos - 1) : source[i] \in RunClass(mode)
    BY <2>1 DEF LexInv, RunFits
  <2>3. (pos - 1) + 1 = pos
    OBVIOUS
  <2>4. FullIn(source, tokens, Token(mode, mark, pos - 1))
    BY <2>1, <2>2, <2>3 DEF FullIn, Token, Span
  <2>5. QED
    BY <1>3, <2>1, <2>4
<1>10. CASE CloseString
  <2>1. FullIn(source, tokens, Token("STRING", mark, pos))
    BY DEF FullIn, Token
  <2>2. QED
    BY <1>3, <1>10, <2>1 DEF CloseString
<1>11. CASE Finish
  <2>1. FullIn(source, tokens, Token("EOF", Here, pos - 1))
    BY DEF FullIn, Token
  <2>2. QED
    BY <1>3, <1>11, <2>1 DEF Finish
<1>12. QED
  BY <1>4, <1>5, <1>6, <1>7, <1>8, <1>9, <1>10, <1>11 DEF Next

LEMMA LexKept == TypeOK /\ SourceOK /\ LexInv /\ [Next]_vars => LexInv'
<1>1. ASSUME TypeOK, SourceOK, LexInv, Next PROVE LexInv'
  BY <1>1, StepKeepsAccounts, StepKeepsComments, StepKeepsRun, StepKeepsString,
     StepKeepsFullLength DEF LexInv
<1>2. ASSUME LexInv, UNCHANGED vars PROVE LexInv'
  BY <1>2 DEF LexInv, vars, Accounts, Frontier, InsideComment, OutsideComment, RunFits,
     StringFits, FullLength
<1>3. QED
  BY <1>1, <1>2

LEMMA LexInit == Init => LexInv
<1>1. ASSUME Init PROVE LexInv
  <2>1. tokens = << >> /\ pos = 1 /\ mode = "scan"
    BY <1>1 DEF Init
  <2>2. Accounts
    BY <2>1 DEF Accounts, AccountedIn, Below, Frontier
  <2>3. QED
    BY <2>1, <2>2 DEF LexInv, InsideComment, OutsideComment, RunFits, StringFits, FullLength
<1>2. QED
  BY <1>1

(* tokenize stops only at the end of the source.                           *)
EndReached == mode = "done" => pos = Len(source) + 1

LEMMA EndKept == TypeOK /\ SourceOK /\ EndReached /\ [Next]_vars => EndReached'
<1>1. ASSUME TypeOK, SourceOK, Next PROVE EndReached'
  <2>1. mode' = "done" => Finish
    BY <1>1, StepShape DEF Next, NewLine, Space, StartComment, InComment, Punct, Arrow,
       StartRun, InRun, EndRun, OpenString, StringChar, Backslash, Escape, CloseString,
       Unterminated, BadEscape, Unrecognised, Raise
  <2>2. ASSUME Finish PROVE pos' = Len(source') + 1
    <3>1. pos \notin 1 .. Len(source)
      <4>1. ASSUME pos \in 1 .. Len(source) PROVE FALSE
        <5>1. source[pos] \in Class /\ source[pos] = "end"
          BY <1>1, <2>2, <4>1 DEF Finish, At, SourceOK
        <5>2. QED
          BY <5>1 DEF Class
      <4>2. QED
        BY <4>1
    <3>2. pos \in 1 .. (Len(source) + 1) /\ Len(source) \in Nat
      BY <1>1 DEF TypeOK, SourceOK
    <3>3. QED
      BY <2>2, <3>1, <3>2 DEF Finish
  <2>3. QED
    BY <2>1, <2>2 DEF EndReached
<1>2. ASSUME EndReached, UNCHANGED vars PROVE EndReached'
  BY <1>2 DEF EndReached, vars
<1>3. QED
  BY <1>1, <1>2

(* What tokenize returns accounts for every character of the source, by a  *)
(* token of full length or as white space or comment, for every source.    *)
THEOREM NothingLostHolds == Spec => []NothingLost
<1>1. Init => TypeOK /\ SourceOK /\ LexInv /\ EndReached
  BY TypeInit, LexInit DEF Init, EndReached
<1>2. /\ TypeOK /\ SourceOK /\ LexInv /\ EndReached /\ [Next]_vars
      => TypeOK' /\ SourceOK' /\ LexInv' /\ EndReached'
  BY TypeKept, LexKept, EndKept
<1>3. LexInv /\ EndReached => NothingLost
  BY SameAccount DEF LexInv, EndReached, Accounts, Frontier, FullLength, NothingLost
<1>4. QED
  BY <1>1, <1>2, <1>3, PTL DEF Spec

-----------------------------------------------------------------------------
(* Errors: where they point, and what was read before.                     *)
FaultIn(s, p) ==
  \/ CharAt(s, p) \in {"\\", "?"}
  \/ CharAt(s, p) = "/" /\ CharAt(s, p + 1) # "/"
  \/ CharAt(s, p) = "-" /\ CharAt(s, p + 1) # ">"
  \/ /\ CharAt(s, p) = "q"
     /\ \A i \in (p + 1) .. Len(s) :
          s[i] = "q" => \/ \E j \in p .. i : s[j] = "nl"
                        \/ s[i - 1] = "\\"
  \/ CharAt(s, p - 1) = "\\" /\ CharAt(s, p) \notin EscapeChars

RejectedFor(s, toks, start, err) ==
  \E p \in 1 .. (Len(s) + 1) :
    /\ PlaceIn(s, p) = err /\ FaultIn(s, p)
    /\ AccountedIn(s, toks, p) \/ (start < p /\ AccountedIn(s, toks, start))

ErrorInv == mode = "error" => RejectedFor(source, tokens, mark.from, error)

LEMMA ErrorSuffices == ErrorInv => RejectsOnlyFaults
<1>1. \A p : Place(p) = PlaceIn(source, p)
  BY DEF Place, NewLinesBefore, PlaceIn, BreaksIn, LastOf
<1>2. \A i : At(i) = CharAt(source, i)
  BY DEF At, CharAt
<1>3. \A p : IsFault(p) <=> FaultIn(source, p)
  BY <1>2 DEF IsFault, FaultIn
<1>4. QED
  BY <1>1, <1>3, SameAccount DEF ErrorInv, RejectsOnlyFaults, RejectedFor

LEMMA ErrorKept ==
  TypeOK /\ SourceOK /\ LocationsTrue /\ LexInv /\ ErrorInv /\ [Next]_vars => ErrorInv'
<1>1. ASSUME TypeOK, SourceOK, LocationsTrue, LexInv, Next PROVE ErrorInv'
  <2> USE <1>1, LexTypes
  <2> USE DEF Raise, Here
  <2>1. /\ source' = source /\ pos \in 1 .. (Len(source) + 1) /\ Len(source) \in Nat
        /\ DOMAIN source = 1 .. Len(source)
        /\ PlaceIn(source, pos) = [line |-> line, column |-> col]
        /\ PlaceIn(source, mark.from) = [line |-> mark.line, column |-> mark.column]
        /\ mode # "error" /\ AccountedIn(source, tokens, Frontier)
    BY StepShape DEF TypeOK, SourceOK, LocationsTrue, LexInv, Accounts
  <2>2. CASE Unrecognised
    <3>1. /\ error' = PlaceIn(source, pos) /\ tokens' = tokens /\ Frontier = pos
      BY <2>1, <2>2 DEF Unrecognised, Frontier
    <3>2. FaultIn(source, pos)
      BY <2>2 DEF Unrecognised, FaultIn
    <3>3. QED
      BY <2>1, <3>1, <3>2 DEF ErrorInv, RejectedFor
  <2>3. CASE BadEscape
    <3>1. /\ error' = PlaceIn(source, pos) /\ tokens' = tokens /\ mark' = mark
          /\ mode = "escape" /\ Frontier = mark.from /\ CharAt(source, pos) \notin EscapeChars
      BY <2>1, <2>3 DEF BadEscape, Frontier
    <3>2. mark.from < pos /\ source[pos - 1] = "\\"
      BY <3>1 DEF LexInv, StringFits
    <3>3. pos - 1 \in DOMAIN source
      BY <2>1, <3>2
    <3>4. FaultIn(source, pos)
      BY <3>1, <3>2, <3>3 DEF FaultIn, CharAt
    <3>5. QED
      BY <2>1, <3>1, <3>2, <3>4 DEF ErrorInv, RejectedFor
  <2>4. CASE Unterminated
    <3>1. /\ error' = PlaceIn(source, mark.from) /\ tokens' = tokens /\ mark' = mark
          /\ mode = "string" /\ Frontier = mark.from /\ At(pos) \in {"nl", "end"}
      BY <2>1, <2>4 DEF Unterminated, Frontier
    <3>2. /\ mark.from < pos /\ CharAt(source, mark.from) = "q"
          /\ \A i \in (mark.from + 1) .. (pos - 1) :
               source[i] = "q" => source[i - 1] = "\\"
      BY <3>1 DEF LexInv, StringFits
    <3>3. pos \in DOMAIN source => source[pos] \in {"nl", "end"}
      BY <3>1 DEF At
    <3>4. ASSUME NEW i \in (mark.from + 1) .. Len(source), source[i] = "q"
          PROVE  (\E j \in mark.from .. i : source[j] = "nl") \/ source[i - 1] = "\\"
      <4>1. CASE i < pos
        BY <2>1, <3>2, <3>4, <4>1
      <4>2. CASE pos <= i
        <5>1. pos \in DOMAIN source /\ pos \in mark.from .. i
          BY <2>1, <4>2
        <5>2. source[pos] \in Class
          BY <5>1 DEF SourceOK
        <5>3. source[pos] = "nl"
          BY <3>3, <5>1, <5>2 DEF Class
        <5>4. QED
          BY <5>1, <5>3
      <4>3. QED
        BY <2>1, <4>1, <4>2
    <3>5. FaultIn(source, mark.from)
      BY <3>2, <3>4 DEF FaultIn
    <3>6. mark.from \in 1 .. (Len(source) + 1)
      BY <2>1
    <3>7. QED
      BY <2>1, <3>1, <3>5, <3>6 DEF ErrorInv, RejectedFor
  <2>5. mode' = "error" => Unrecognised \/ BadEscape \/ Unterminated
    BY <2>1 DEF Next, NewLine, Space, StartComment, InComment, Punct, Arrow, StartRun,
       InRun, EndRun, OpenString, StringChar, Backslash, Escape, CloseString, Finish
  <2>6. QED
    BY <2>2, <2>3, <2>4, <2>5 DEF ErrorInv
<1>2. ASSUME ErrorInv, UNCHANGED vars PROVE ErrorInv'
  BY <1>2 DEF ErrorInv, vars
<1>3. QED
  BY <1>1, <1>2

(* An error points to a fault, and nothing before the fault, or before the *)
(* string it lies in, was passed over, for every source.                   *)
THEOREM RejectsOnlyFaultsHolds == Spec => []RejectsOnlyFaults
<1>1. Init => TypeOK /\ SourceOK /\ LocationsTrue /\ LexInv /\ ErrorInv
  BY TypeInit, LocationsInit, LexInit DEF Init, ErrorInv
<1>2. /\ TypeOK /\ SourceOK /\ LocationsTrue /\ LexInv /\ ErrorInv /\ [Next]_vars
      => TypeOK' /\ SourceOK' /\ LocationsTrue' /\ LexInv' /\ ErrorInv'
  BY TypeKept, LocationsKept, LexKept, ErrorKept
<1>3. QED
  BY <1>1, <1>2, ErrorSuffices, PTL DEF Spec

-----------------------------------------------------------------------------
(* What unescaping makes of a string.                                      *)
Entry == [escaped : BOOLEAN, char : Class]

(* An entry that the lookup does not miss, or that needs none.             *)
Right(e) == IF e.escaped THEN e.char \in EscapeChars ELSE e.char \notin {"\\", "q", "nl"}

(* The end of an unescaped text, from its character at i.                  *)
Unescaped(raw, from, i) ==
  IF i > Len(raw) THEN << >>
  ELSE IF raw[i] = "\\" /\ i < Len(raw)
       THEN << [escaped |-> TRUE, char |-> raw[i + 1]] >> \o from[i + 2]
       ELSE << [escaped |-> FALSE, char |-> raw[i]] >> \o from[i + 1]

(* Unescape is what its recursive definition says.                         *)
LEMMA UnescapeAt ==
  ASSUME NEW raw \in Seq(Class)
  PROVE  \E from :
           /\ Unescape(raw) = from[1]
           /\ \A i \in 1 .. (Len(raw) + 1) : from[i] = Unescaped(raw, from, i)
<1> DEFINE B == 1 .. (Len(raw) + 1)
           V == Seq(Entry)
           rank == [i \in B |-> (Len(raw) + 1) - i]
           Step == [f \in [B -> V] |-> [i \in B |-> Unescaped(raw, f, i)]]
           from == CHOOSE f : f = [i \in B |-> Unescaped(raw, f, i)]
<1>1. Len(raw) \in Nat /\ DOMAIN raw = 1 .. Len(raw)
  OBVIOUS
<1>2. ASSUME NEW i \in B
      PROVE  /\ i <= Len(raw) => i + 1 \in B /\ raw[i] \in Class /\ rank[i + 1] < rank[i]
             /\ i < Len(raw) => i + 2 \in B /\ raw[i + 1] \in Class /\ rank[i + 2] < rank[i]
             /\ rank[i] \in Nat
  BY <1>1
<1>3. ASSUME NEW f \in [B -> V], NEW i \in B PROVE Unescaped(raw, f, i) \in V
  <2> DEFINE e == << [escaped |-> TRUE, char |-> raw[i + 1]] >>
             c == << [escaped |-> FALSE, char |-> raw[i]] >>
  <2>1. i < Len(raw) => e \in V /\ f[i + 2] \in V
    <3>1. i < Len(raw) => [escaped |-> TRUE, char |-> raw[i + 1]] \in Entry /\ i + 2 \in B
      BY <1>2 DEF Entry
    <3> HIDE DEF B
    <3>2. QED
      BY <3>1
  <2>2. i <= Len(raw) => c \in V /\ f[i + 1] \in V
    <3>1. i <= Len(raw) => [escaped |-> FALSE, char |-> raw[i]] \in Entry /\ i + 1 \in B
      BY <1>2 DEF Entry
    <3> HIDE DEF B
    <3>2. QED
      BY <3>1
  <2>3. << >> \in V /\ (~(i > Len(raw)) => i <= Len(raw))
    BY <1>1
  <2> HIDE DEF e, c, B
  <2>4. i < Len(raw) => e \o f[i + 2] \in V
    BY <2>1
  <2>5. i <= Len(raw) => c \o f[i + 1] \in V
    BY <2>2
  <2>6. QED
    BY <2>3, <2>4, <2>5 DEF Unescaped, e, c
<1>4. ASSUME NEW f \in [B -> V], NEW g \in [B -> V], NEW i \in B,
             \A j \in B : rank[j] < rank[i] => f[j] = g[j]
      PROVE  Unescaped(raw, f, i) = Unescaped(raw, g, i)
  <2>1. i <= Len(raw) => f[i + 1] = g[i + 1]
    BY <1>2, <1>4
  <2>2. i < Len(raw) => f[i + 2] = g[i + 2]
    BY <1>2, <1>4
  <2>3. ~(i > Len(raw)) => i <= Len(raw)
    BY <1>1
  <2>4. QED
    BY <2>1, <2>2, <2>3 DEF Unescaped
<1>5. LooksDown(Step, B, V, rank)
  <2>1. rank \in [B -> Nat]
    BY <1>2
  <2> HIDE DEF B, V, rank
  <2>2. << >> \in V
    BY DEF V
  <2>3. [i \in B |-> << >>] \in [B -> V]
    BY <2>2
  <2>4. Step \in [[B -> V] -> [B -> V]]
    BY <1>3
  <2>5. \A f, g \in [B -> V] : \A i \in B :
          (\A j \in B : rank[j] < rank[i] => f[j] = g[j]) => Step[f][i] = Step[g][i]
    BY <1>4
  <2>6. [B -> V] # {}
    BY <2>3
  <2> HIDE DEF Step
  <2>7. QED
    BY <2>1, <2>4, <2>5, <2>6 DEF LooksDown
<1>6. PICK f \in [B -> V] : f = [i \in B |-> Unescaped(raw, f, i)]
  <2> HIDE DEF B, V, rank, Step
  <2>1. PICK f \in [B -> V] : Step[f] = f
    BY <1>5, RankRecursion
  <2>2. Step[f] = [i \in B |-> Unescaped(raw, f, i)]
    BY DEF Step
  <2>3. QED
    BY <2>1, <2>2
<1>7. from = [i \in B |-> Unescaped(raw, from, i)]
  <2>1. \E g : g = [i \in B |-> Unescaped(raw, g, i)]
    BY <1>6
  <2> HIDE DEF B
  <2>2. QED
    BY <2>1
<1>8. \A i \in B : from[i] = Unescaped(raw, from, i)
  <2> HIDE DEF B, from
  <2>1. QED
    BY <1>7
<1>9. Unescape(raw) = from[1]
  BY DEF Unescape, Unescaped
<1>10. QED
  <2> HIDE DEF from
  <2>1. QED
    BY <1>8, <1>9

(* Where a text can be read character by character, two at a time at a     *)
(* backslash, such that no backslash is the last character, each is before *)
(* one of the escape characters, and what is read alone needs no escape.   *)
Readable(raw, starts) ==
  /\ 1 \in starts
  /\ \A i \in starts \cap (1 .. Len(raw)) :
       IF raw[i] = "\\"
       THEN i + 2 \in starts /\ i + 1 <= Len(raw) /\ raw[i + 1] \in EscapeChars
       ELSE i + 1 \in starts /\ raw[i] \notin {"q", "nl"}

LEMMA UnescapeIsRight ==
  ASSUME NEW raw \in Seq(Class), NEW starts, Readable(raw, starts)
  PROVE  \A i \in DOMAIN Unescape(raw) : Right(Unescape(raw)[i])
<1> DEFINE n == Len(raw)
           Whole(list) == list \in Seq(Entry) /\ \A k \in DOMAIN list : Right(list[k])
<1>1. PICK from : /\ Unescape(raw) = from[1]
                  /\ \A i \in 1 .. (n + 1) : from[i] = Unescaped(raw, from, i)
  BY UnescapeAt
<1>2. n \in Nat /\ DOMAIN raw = 1 .. n /\ \A i \in 1 .. n : raw[i] \in Class
  OBVIOUS
<1>3. ASSUME NEW e \in Entry, Right(e), NEW list, Whole(list)
      PROVE  Whole(<< e >> \o list)
  <2> DEFINE both == << e >> \o list
  <2>1. /\ both \in Seq(Entry) /\ Len(list) \in Nat /\ DOMAIN both = 1 .. (Len(list) + 1)
        /\ DOMAIN list = 1 .. Len(list)
        /\ \A k \in 1 .. (Len(list) + 1) : both[k] = IF k = 1 THEN e ELSE list[k - 1]
    BY <1>3
  <2> HIDE DEF both
  <2>2. ASSUME NEW k \in DOMAIN both PROVE Right(both[k])
    <3>1. CASE k = 1
      BY <1>3, <2>1, <3>1
    <3>2. CASE k # 1
      <4>1. k - 1 \in DOMAIN list /\ both[k] = list[k - 1]
        BY <2>1, <3>2
      <4>2. QED
        BY <1>3, <4>1
    <3>3. QED
      BY <3>1, <3>2
  <2>3. Whole(both)
    BY <2>1, <2>2
  <2>4. QED
    BY <2>3 DEF both
<1> DEFINE S == {m \in Nat : \A i \in starts \cap (1 .. (n + 1)) : (n + 1) - i < m => Whole(from[i])}
<1>4. 0 \in S
  <2>1. \A i \in 1 .. (n + 1) : ~((n + 1) - i < 0)
    BY <1>2
  <2> HIDE DEF Whole
  <2>2. QED
    BY <2>1
<1>5. ASSUME NEW m \in Nat, m \in S PROVE m + 1 \in S
  <2>1. ASSUME NEW i \in starts \cap (1 .. (n + 1)), (n + 1) - i < m + 1 PROVE Whole(from[i])
    <3>1. from[i] = Unescaped(raw, from, i)
      BY <1>1
    <3>2. CASE i > n
      <4>1. from[i] = << >>
        BY <3>1, <3>2 DEF Unescaped
      <4>2. QED
        BY <4>1
    <3>3. CASE i <= n /\ raw[i] = "\\"
      <4> DEFINE e == [escaped |-> TRUE, char |-> raw[i + 1]]
      <4>1. i \in 1 .. n
        BY <1>2, <3>3
      <4>2. i + 2 \in starts /\ i + 1 <= n /\ raw[i + 1] \in EscapeChars
        BY <3>3, <4>1 DEF Readable
      <4>3. i + 2 \in 1 .. (n + 1) /\ (n + 1) - (i + 2) < m /\ i < n /\ ~(i > n) /\ i + 1 \in 1 .. n
        BY <1>2, <2>1, <4>1, <4>2
      <4>4. Whole(from[i + 2])
        BY <1>5, <4>2, <4>3
      <4>5. e \in Entry /\ Right(e)
        BY <1>2, <4>2, <4>3 DEF Entry, Right
      <4>6. from[i] = << e >> \o from[i + 2]
        BY <3>1, <3>3, <4>3 DEF Unescaped
      <4> HIDE DEF e, Whole
      <4>7. QED
        BY <1>3, <4>4, <4>5, <4>6
    <3>4. CASE i <= n /\ raw[i] # "\\"
      <4> DEFINE e == [escaped |-> FALSE, char |-> raw[i]]
      <4>1. i \in 1 .. n
        BY <1>2, <3>4
      <4>2. i + 1 \in starts /\ raw[i] \notin {"q", "nl"}
        BY <3>4, <4>1 DEF Readable
      <4>3. i + 1 \in 1 .. (n + 1) /\ (n + 1) - (i + 1) < m /\ ~(i > n)
        BY <1>2, <2>1, <4>1
      <4>4. Whole(from[i + 1])
        BY <1>5, <4>2, <4>3
      <4>5. e \in Entry /\ Right(e)
        BY <1>2, <3>4, <4>1, <4>2 DEF Entry, Right
      <4>6. from[i] = << e >> \o from[i + 1]
        BY <3>1, <3>4, <4>3 DEF Unescaped
      <4> HIDE DEF e, Whole
      <4>7. QED
        BY <1>3, <4>4, <4>5, <4>6
    <3>5. QED
      <4>1. i > n \/ i <= n
        BY <1>2, <2>1
      <4>2. QED
        BY <3>2, <3>3, <3>4, <4>1
  <2> HIDE DEF Whole
  <2>2. QED
    BY <2>1
<1> HIDE DEF S
<1>6. Nat \subseteq S
  BY <1>4, <1>5, SetInduction
<1>7. 1 \in starts \cap (1 .. (n + 1)) /\ n + 1 \in Nat /\ (n + 1) - 1 < n + 1
  BY <1>2 DEF Readable
<1>8. Whole(from[1])
  <2> HIDE DEF Whole, n
  <2>1. QED
    BY <1>6, <1>7 DEF S
<1>9. QED
  BY <1>1, <1>8

(* Between the quotes of a string a text is read that is Readable.         *)
Reads(s, from, to) ==
  \E starts \in SUBSET (from .. to) :
    /\ from \in starts /\ to \in starts
    /\ \A i \in starts \ {to} :
         IF s[i] = "\\"
         THEN i + 2 \in starts /\ s[i + 1] \in EscapeChars
         ELSE i + 1 \in starts /\ s[i] \notin {"q", "nl"}

StringsRead ==
  /\ \A k \in DOMAIN tokens :
       tokens[k].kind = "STRING" =>
         /\ Reads(source, tokens[k].from + 1, tokens[k].to)
         /\ tokens[k].from \in Nat \ {0} /\ tokens[k].to - 1 \in 0 .. Len(source)
         /\ tokens[k].to \in Nat /\ tokens[k].from < tokens[k].to
  /\ mode = "string" => mark.from < pos /\ Reads(source, mark.from + 1, pos)
  /\ mode = "escape" =>
       /\ mark.from < pos - 1 /\ Reads(source, mark.from + 1, pos - 1)
       /\ source[pos - 1] = "\\"

LEMMA ReadOn ==
  ASSUME NEW s, NEW from \in Nat, NEW to \in Nat, NEW k \in {1, 2}, Reads(s, from, to),
         IF s[to] = "\\" THEN k = 2 /\ s[to + 1] \in EscapeChars
                         ELSE k = 1 /\ s[to] \notin {"q", "nl"}
  PROVE  Reads(s, from, to + k)
<1>1. PICK starts \in SUBSET (from .. to) :
        /\ from \in starts /\ to \in starts
        /\ \A i \in starts \ {to} :
             IF s[i] = "\\"
             THEN i + 2 \in starts /\ s[i + 1] \in EscapeChars
             ELSE i + 1 \in starts /\ s[i] \notin {"q", "nl"}
  BY DEF Reads
<1> DEFINE more == starts \cup {to + k}
<1>2. more \in SUBSET (from .. (to + k)) /\ from \in more /\ to + k \in more
  BY <1>1
<1>3. ASSUME NEW i \in more \ {to + k}
      PROVE  IF s[i] = "\\"
             THEN i + 2 \in more /\ s[i + 1] \in EscapeChars
             ELSE i + 1 \in more /\ s[i] \notin {"q", "nl"}
  BY <1>1
<1> HIDE DEF more
<1>4. QED
  BY <1>2, <1>3 DEF Reads

LEMMA ReadInit ==
  ASSUME NEW s, NEW from \in Nat
  PROVE  Reads(s, from, from)
<1>1. {from} \in SUBSET (from .. from)
  OBVIOUS
<1>2. QED
  BY <1>1 DEF Reads

LEMMA StepKeepsReads ==
  ASSUME TypeOK, SourceOK, StringsRead, Next
  PROVE  StringsRead'
<1>1. /\ source' = source /\ pos \in Nat \ {0} /\ pos <= Len(source) + 1 /\ Len(source) \in Nat
      /\ mark.from \in Nat \ {0} /\ mark.from <= pos /\ tokens \in Seq(TokenAt(pos, line))
  BY StepShape DEF TypeOK, SourceOK, TokenAt, Kinds
<1> USE DEF Advance, Emit, Here, Raise
<1>2. ASSUME tokens' = tokens,
             mode' = "string" => mark'.from < pos' /\ Reads(source, mark'.from + 1, pos'),
             mode' = "escape" =>
               /\ mark'.from < pos' - 1 /\ Reads(source, mark'.from + 1, pos' - 1)
               /\ source[pos' - 1] = "\\"
      PROVE  StringsRead'
  BY <1>1, <1>2 DEF StringsRead
<1>3. CASE mode' \notin {"string", "escape"} /\ tokens' = tokens
  BY <1>2, <1>3
<1>4. CASE OpenString
  <2>1. Reads(source, pos + 1, pos + 1)
    BY <1>1, ReadInit
  <2>2. mark'.from = pos /\ pos' = pos + 1 /\ mode' = "string" /\ tokens' = tokens
    BY <1>4 DEF OpenString
  <2>3. QED
    BY <1>1, <1>2, <2>1, <2>2
<1>5. CASE StringChar
  <2>1. source[pos] \notin {"\\", "q", "nl"} /\ mode = "string"
    BY <1>5 DEF StringChar, At
  <2>2. mark.from < pos /\ Reads(source, mark.from + 1, pos)
    BY <2>1 DEF StringsRead
  <2>3. Reads(source, mark.from + 1, pos + 1)
    BY <1>1, <2>1, <2>2, ReadOn
  <2>4. mark' = mark /\ pos' = pos + 1 /\ mode' = "string" /\ tokens' = tokens
    BY <1>5 DEF StringChar
  <2>5. QED
    BY <1>1, <1>2, <2>2, <2>3, <2>4
<1>6. CASE Backslash
  <2>1. source[pos] = "\\" /\ mark.from < pos /\ Reads(source, mark.from + 1, pos)
    BY <1>6 DEF Backslash, At, StringsRead
  <2>2. mark' = mark /\ pos' = pos + 1 /\ mode' = "escape" /\ tokens' = tokens
    BY <1>6 DEF Backslash
  <2>3. (pos + 1) - 1 = pos
    BY <1>1
  <2>4. QED
    BY <1>2, <2>1, <2>2, <2>3
<1>7. CASE Escape
  <2>1. source[pos] \in EscapeChars
    BY <1>7 DEF Escape, At, EscapeChars
  <2>2. mark.from < pos - 1 /\ Reads(source, mark.from + 1, pos - 1) /\ source[pos - 1] = "\\"
    BY <1>7 DEF Escape, StringsRead
  <2>3. pos - 1 \in Nat /\ (pos - 1) + 1 = pos /\ (pos - 1) + 2 = pos + 1
    BY <1>1
  <2>4. Reads(source, mark.from + 1, (pos - 1) + 2)
    BY <1>1, <2>1, <2>2, <2>3, ReadOn
  <2>5. mark' = mark /\ pos' = pos + 1 /\ mode' = "string" /\ tokens' = tokens
    BY <1>7 DEF Escape
  <2>6. QED
    BY <1>1, <1>2, <2>2, <2>3, <2>4, <2>5
<1>8. ASSUME NEW t, tokens' = Append(tokens, t), mode' \notin {"string", "escape"},
             t.kind = "STRING" =>
               /\ Reads(source, t.from + 1, t.to) /\ t.from \in Nat \ {0}
               /\ t.to - 1 \in 0 .. Len(source) /\ t.to \in Nat /\ t.from < t.to
      PROVE  StringsRead'
  <2>1. ASSUME NEW k \in DOMAIN tokens' PROVE (k \in DOMAIN tokens /\ tokens'[k] = tokens[k]) \/ tokens'[k] = t
    BY <1>1, <1>8
  <2>2. QED
    BY <1>1, <1>8, <2>1 DEF StringsRead
<1>9. CASE Punct
  <2>1. At(pos) # "STRING" /\ Token(At(pos), Here, pos).kind = At(pos)
    BY <1>9 DEF Punct, Single, Token
  <2>2. QED
    BY <1>8, <1>9, <2>1 DEF Punct
<1>10. CASE Arrow
  BY <1>8, <1>10 DEF Arrow, Token
<1>11. CASE EndRun
  BY <1>8, <1>11 DEF EndRun, Token
<1>12. CASE Finish
  BY <1>8, <1>12 DEF Finish, Token
<1>13. CASE CloseString
  <2>1. mode = "string" /\ pos \in DOMAIN source
    BY <1>13 DEF CloseString, At
  <2>2. pos \in 1 .. Len(source)
    BY <2>1 DEF SourceOK
  <2>3. mark.from < pos /\ Reads(source, mark.from + 1, pos)
    BY <2>1 DEF StringsRead
  <2>4. Token("STRING", mark, pos).from = mark.from /\ Token("STRING", mark, pos).to = pos
    BY DEF Token
  <2>5. pos - 1 \in 0 .. Len(source)
    BY <1>1, <2>2
  <2>6. tokens' = Append(tokens, Token("STRING", mark, pos)) /\ mode' = "scan"
    BY <1>13 DEF CloseString
  <2>7. QED
    BY <1>1, <1>8, <2>3, <2>4, <2>5, <2>6
<1>14. CASE NewLine \/ Space \/ StartComment \/ InComment \/ StartRun \/ InRun
  BY <1>3, <1>14 DEF NewLine, Space, StartComment, InComment, StartRun, InRun
<1>15. CASE Unterminated \/ BadEscape \/ Unrecognised
  BY <1>3, <1>15 DEF Unterminated, BadEscape, Unrecognised
<1>16. QED
  BY <1>4, <1>5, <1>6, <1>7, <1>9, <1>10, <1>11, <1>12, <1>13, <1>14, <1>15 DEF Next

LEMMA ReadsSuffice == SourceOK /\ StringsRead => LookupCannotMiss
<1>1. SUFFICES ASSUME SourceOK, StringsRead, NEW k \in DOMAIN tokens, tokens[k].kind = "STRING"
               PROVE  LET value == StringValue(tokens[k])
                      IN  \A i \in DOMAIN value :
                            IF value[i].escaped THEN value[i].char \in EscapeChars
                            ELSE value[i].char \notin {"\\", "q", "nl"}
  BY DEF LookupCannotMiss
<1> DEFINE from == tokens[k].from + 1
           to == tokens[k].to
           raw == SubSeq(source, from, to - 1)
<1>2. /\ from \in Nat \ {0} /\ to \in Nat /\ from <= to /\ to - 1 \in 0 .. Len(source)
      /\ Reads(source, from, to)
  BY <1>1 DEF StringsRead
<1> HIDE DEF from, to
<1>3. /\ raw \in Seq(Class) /\ Len(raw) = to - from
      /\ \A i \in 1 .. (to - from) : raw[i] = source[(from + i) - 1]
  <2>1. /\ source \in Seq(Class) /\ Len(source) \in Nat /\ DOMAIN source = 1 .. Len(source)
        /\ \A i \in 1 .. Len(source) : source[i] \in Class
    BY <1>1 DEF SourceOK
  <2>2. IF from <= to - 1 THEN Len(raw) = (to - 1) - from + 1 ELSE Len(raw) = 0
    BY <1>2, <2>1
  <2>3. Len(raw) = to - from
    BY <1>2, <2>2
  <2>4. \A i \in 1 .. (to - from) : raw[i] = source[(from + i) - 1]
    BY <1>2, <2>1
  <2>5. raw \in Seq(Class)
    BY <1>2, <2>1, SubSeqProperties
  <2>6. QED
    BY <2>3, <2>4, <2>5
<1>4. PICK starts \in SUBSET (from .. to) :
        /\ from \in starts /\ to \in starts
        /\ \A i \in starts \ {to} :
             IF source[i] = "\\"
             THEN i + 2 \in starts /\ source[i + 1] \in EscapeChars
             ELSE i + 1 \in starts /\ source[i] \notin {"q", "nl"}
  BY <1>2 DEF Reads
<1> DEFINE shifted == {i \in 1 .. (to - from + 1) : (from + i) - 1 \in starts}
<1> HIDE DEF raw
<1>5. Readable(raw, shifted)
  <2>1. 1 \in shifted
    BY <1>2, <1>4
  <2>2. ASSUME NEW i \in shifted \cap (1 .. Len(raw))
        PROVE  IF raw[i] = "\\"
               THEN i + 2 \in shifted /\ i + 1 <= Len(raw) /\ raw[i + 1] \in EscapeChars
               ELSE i + 1 \in shifted /\ raw[i] \notin {"q", "nl"}
    <3> DEFINE j == (from + i) - 1
    <3>1. /\ i \in 1 .. (to - from) /\ j \in starts /\ j # to /\ raw[i] = source[j]
          /\ j + 1 = (from + (i + 1)) - 1 /\ j + 2 = (from + (i + 2)) - 1
      BY <1>2, <1>3
    <3>2. IF source[j] = "\\"
          THEN j + 2 \in starts /\ source[j + 1] \in EscapeChars
          ELSE j + 1 \in starts /\ source[j] \notin {"q", "nl"}
      BY <1>4, <3>1
    <3>3. \A m \in starts : m <= to
      BY <1>2, <1>4
    <3>4. CASE raw[i] = "\\"
      <4>1. j + 2 \in starts /\ source[j + 1] \in EscapeChars /\ j + 2 <= to
        BY <3>1, <3>2, <3>3, <3>4
      <4>2. i + 2 \in 1 .. (to - from + 1) /\ i + 1 \in 1 .. (to - from)
        BY <1>2, <3>1, <4>1, SMTT(30)
      <4>3. raw[i + 1] = source[j + 1] /\ i + 2 \in shifted
        BY <1>3, <3>1, <4>1, <4>2
      <4>4. QED
        BY <1>3, <3>4, <4>1, <4>2, <4>3
    <3>5. CASE raw[i] # "\\"
      <4>1. j + 1 \in starts /\ raw[i] \notin {"q", "nl"}
        BY <3>1, <3>2, <3>5
      <4>2. i + 1 \in 1 .. (to - from + 1)
        BY <1>2, <3>1
      <4>3. i + 1 \in shifted
        BY <3>1, <4>1, <4>2
      <4>4. QED
        BY <3>5, <4>1, <4>3
    <3>6. QED
      BY <3>4, <3>5
  <2> HIDE DEF shifted
  <2>3. QED
    BY <2>1, <2>2 DEF Readable
<1> HIDE DEF shifted
<1>6. \A i \in DOMAIN Unescape(raw) : Right(Unescape(raw)[i])
  BY <1>3, <1>5, UnescapeIsRight
<1>7. StringValue(tokens[k]) = Unescape(raw)
  BY DEF StringValue, raw, from, to
<1>8. QED
  BY <1>6, <1>7 DEF Right

(* LookupCannotMiss: in the text of any string of any source, every        *)
(* backslash that _unescape_string looks at is followed by a character its *)
(* table has, and no quote, line end or backslash stands unescaped.        *)
THEOREM LookupCannotMissHolds == Spec => []LookupCannotMiss
<1>1. Init => TypeOK /\ SourceOK /\ StringsRead
  BY TypeInit DEF Init, StringsRead
<1>2. TypeOK /\ SourceOK /\ StringsRead /\ [Next]_vars => TypeOK' /\ SourceOK' /\ StringsRead'
  <2>1. ASSUME StringsRead, UNCHANGED vars PROVE StringsRead'
    BY <2>1 DEF StringsRead, vars
  <2>2. QED
    BY <2>1, TypeKept, StepKeepsReads
<1>3. QED
  BY <1>1, <1>2, ReadsSuffice, PTL DEF Spec
=============================================================================
