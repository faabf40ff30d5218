----------------------------- MODULE Tokenizer -----------------------------
(***************************************************************************)
(* parser/tokenizer.py: one forward pass over the source, one action per   *)
(* turn of a loop of tokenize().  A character is a member of one of the    *)
(* classes the code tells apart:                                           *)
(*   "nl"  newline          "sp"  blank, tab or return                     *)
(*   "/"   slash            "-"   minus                                    *)
(*   ">"   greater-than     "{"   any other punctuation character          *)
(*   "n"   n or t, letters that may follow a backslash                     *)
(*   "a"   any other ASCII letter, or the underscore                       *)
(*   "1"   ASCII digit      "q"   double quote                             *)
(*   "\\"  backslash        "?"   any other character                      *)
(* Positions count from 1.                                                 *)
(***************************************************************************)
EXTENDS Naturals, Sequences, FiniteSets

CONSTANT Sources

Class == {"nl", "sp", "/", "-", ">", "{", "n", "a", "1", "q", "\\", "?"}

ASSUME SourcesAssumption == Sources \subseteq Seq(Class)

VARIABLES
  source,
  pos, line, col,   \* the next character and where it stands
  mode,             \* which loop tokenize is in, or how it ended
  mark,             \* start, start_line and start_col
  tokens,           \* [kind, from, to, line, column]: the slice from .. to
  error             \* where a TokenizeError points

vars == <<source, pos, line, col, mode, mark, tokens, error>>

NoError == [line |-> 0, column |-> 0]

At(i) == IF i \in DOMAIN source THEN source[i] ELSE "end"

Single == {"{", ">"}
Whitespace == {"nl", "sp"}
IdentStart == {"n", "a"}
EscapeChars == {"n", "\\", "q"}

(* Faulty variant of Continues: an identifier has no digits.               *)
ContinuesByLetters(run, c) == c \in (IF run = "IDENT" THEN IdentStart ELSE {"1"})

(* The characters that prolong an identifier or a number.                  *)
Continues(run, c) == c \in (IF run = "IDENT" THEN IdentStart \cup {"1"} ELSE {"1"})

Here == [from |-> pos, line |-> line, column |-> col]

Token(kind, start, end) ==
  [kind |-> kind, from |-> start.from, to |-> end,
   line |-> start.line, column |-> start.column]

Advance(k) ==
  /\ pos' = pos + k
  /\ col' = col + k
  /\ UNCHANGED <<source, line>>

Emit(token) == tokens' = Append(tokens, token)

Init ==
  /\ source \in Sources
  /\ pos = 1 /\ line = 1 /\ col = 1
  /\ mode = "scan"
  /\ mark = [from |-> 1, line |-> 1, column |-> 1]
  /\ tokens = << >>
  /\ error = NoError

-----------------------------------------------------------------------------
(* Whitespace and comments.                                                *)

(* Faulty variant of NewLine: the column goes on counting.                 *)
NewLineKeepsColumn ==
  /\ mode = "scan" /\ At(pos) = "nl"
  /\ pos' = pos + 1 /\ line' = line + 1
  /\ UNCHANGED <<source, col, mode, mark, tokens, error>>

NewLine ==
  /\ mode = "scan" /\ At(pos) = "nl"
  /\ pos' = pos + 1 /\ line' = line + 1 /\ col' = 1
  /\ UNCHANGED <<source, mode, mark, tokens, error>>

Space ==
  /\ mode = "scan" /\ At(pos) = "sp"
  /\ Advance(1)
  /\ UNCHANGED <<mode, mark, tokens, error>>

(* Faulty variant of StartComment: one slash is enough.                    *)
StartCommentOnSlash ==
  /\ mode = "scan" /\ At(pos) = "/"
  /\ mode' = "comment"
  /\ UNCHANGED <<source, pos, line, col, mark, tokens, error>>

StartComment ==
  /\ mode = "scan" /\ At(pos) = "/" /\ At(pos + 1) = "/"
  /\ mode' = "comment"
  /\ UNCHANGED <<source, pos, line, col, mark, tokens, error>>

InComment ==
  /\ mode = "comment"
  /\ IF At(pos) \in {"nl", "end"}
     THEN mode' = "scan" /\ UNCHANGED <<source, pos, line, col>>
     ELSE Advance(1) /\ UNCHANGED mode
  /\ UNCHANGED <<mark, tokens, error>>

-----------------------------------------------------------------------------
(* Punctuation, identifiers and numbers.                                   *)

Punct ==
  /\ mode = "scan" /\ At(pos) \in Single
  /\ Emit(Token(At(pos), Here, pos))
  /\ Advance(1)
  /\ UNCHANGED <<mode, mark, error>>

Arrow ==
  /\ mode = "scan" /\ At(pos) = "-" /\ At(pos + 1) = ">"
  /\ Emit(Token("ARROW", Here, pos + 1))
  /\ Advance(2)
  /\ UNCHANGED <<mode, mark, error>>

StartRun ==
  /\ mode = "scan" /\ At(pos) \in IdentStart \cup {"1"}
  /\ mode' = IF At(pos) \in IdentStart THEN "IDENT" ELSE "NUMBER"
  /\ mark' = Here
  /\ UNCHANGED <<source, pos, line, col, tokens, error>>

InRun ==
  /\ mode \in {"IDENT", "NUMBER"} /\ Continues(mode, At(pos))
  /\ Advance(1)
  /\ UNCHANGED <<mode, mark, tokens, error>>

EndRun ==
  /\ mode \in {"IDENT", "NUMBER"} /\ ~Continues(mode, At(pos))
  /\ Emit(Token(mode, mark, pos - 1))
  /\ mode' = "scan"
  /\ UNCHANGED <<source, pos, line, col, mark, error>>

-----------------------------------------------------------------------------
(* String literals.                                                        *)

OpenString ==
  /\ mode = "scan" /\ At(pos) = "q"
  /\ mark' = Here
  /\ mode' = "string"
  /\ Advance(1)
  /\ UNCHANGED <<tokens, error>>

StringChar ==
  /\ mode = "string" /\ At(pos) \notin {"q", "nl", "\\", "end"}
  /\ Advance(1)
  /\ UNCHANGED <<mode, mark, tokens, error>>

Backslash ==
  /\ mode = "string" /\ At(pos) = "\\"
  /\ mode' = "escape"
  /\ Advance(1)
  /\ UNCHANGED <<mark, tokens, error>>

(* Faulty variant of Escape: any character may follow a backslash.         *)
EscapeAnything ==
  /\ mode = "escape" /\ At(pos) \notin {"end", "nl"}
  /\ mode' = "string"
  /\ Advance(1)
  /\ UNCHANGED <<mark, tokens, error>>

Escape ==
  /\ mode = "escape" /\ At(pos) \in EscapeChars
  /\ mode' = "string"
  /\ Advance(1)
  /\ UNCHANGED <<mark, tokens, error>>

CloseString ==
  /\ mode = "string" /\ At(pos) = "q"
  /\ Emit(Token("STRING", mark, pos))
  /\ mode' = "scan"
  /\ Advance(1)
  /\ UNCHANGED <<mark, error>>

-----------------------------------------------------------------------------
(* The five places that raise, and the end.                                *)

Raise(place) ==
  /\ mode' = "error"
  /\ error' = [line |-> place.line, column |-> place.column]
  /\ UNCHANGED <<source, pos, line, col, mark, tokens>>

(* Faulty variant of Unterminated: it points to where the scan stopped.    *)
UnterminatedHere ==
  /\ mode = "string" /\ At(pos) \in {"nl", "end"}
  /\ Raise(Here)

(* A newline or the end of the source inside a string.                     *)
Unterminated ==
  /\ mode = "string" /\ At(pos) \in {"nl", "end"}
  /\ Raise(mark)

(* The end, or an unknown character, after a backslash.                    *)
BadEscape ==
  /\ mode = "escape" /\ At(pos) \notin EscapeChars
  /\ Raise(Here)

Unrecognised ==
  /\ mode = "scan"
  /\ \/ At(pos) \in {"\\", "?"}
     \/ At(pos) = "/" /\ At(pos + 1) # "/"
     \/ At(pos) = "-" /\ At(pos + 1) # ">"
  /\ Raise(Here)

(* Faulty variant of Finish: no token marks the end.                       *)
FinishBare ==
  /\ mode = "scan" /\ At(pos) = "end"
  /\ mode' = "done"
  /\ UNCHANGED <<source, pos, line, col, mark, tokens, error>>

Finish ==
  /\ mode = "scan" /\ At(pos) = "end"
  /\ Emit(Token("EOF", Here, pos - 1))
  /\ mode' = "done"
  /\ UNCHANGED <<source, pos, line, col, mark, error>>

Next ==
  \/ NewLine \/ Space \/ StartComment \/ InComment
  \/ Punct \/ Arrow \/ StartRun \/ InRun \/ EndRun
  \/ OpenString \/ StringChar \/ Backslash \/ Escape \/ CloseString
  \/ Unterminated \/ BadEscape \/ Unrecognised
  \/ Finish

Spec == Init /\ [][Next]_vars

-----------------------------------------------------------------------------
(* _unescape_string, which the parser applies to what stands between the   *)
(* quotes of a STRING token: a sequence of [escaped, char].                *)
Unescape(raw) ==
  LET from[i \in 1 .. (Len(raw) + 1)] ==
        IF i > Len(raw) THEN << >>
        ELSE IF raw[i] = "\\" /\ i < Len(raw)
             THEN <<[escaped |-> TRUE, char |-> raw[i + 1]]>> \o from[i + 2]
             ELSE <<[escaped |-> FALSE, char |-> raw[i]]>> \o from[i + 1]
  IN  from[1]

StringValue(token) == Unescape(SubSeq(source, token.from + 1, token.to - 1))

-----------------------------------------------------------------------------
(* The state keeps its shape; a result ends with its only EOF token, and   *)
(* there is an error exactly if tokenize raised.                           *)
TypeOK ==
  /\ pos \in 1 .. (Len(source) + 1)
  /\ line \in Nat \ {0} /\ col \in Nat \ {0}
  /\ mode \in {"scan", "comment", "IDENT", "NUMBER", "string", "escape", "done", "error"}
  /\ mark \in [from : 1 .. pos, line : 1 .. line, column : Nat \ {0}]
  /\ tokens \in Seq([kind : Single \cup {"ARROW", "IDENT", "NUMBER", "STRING", "EOF"},
                     from : 1 .. pos, to : 0 .. (pos - 1),
                     line : 1 .. line, column : Nat \ {0}])
  /\ mode = "error" <=> error # NoError
  /\ {i \in DOMAIN tokens : tokens[i].kind = "EOF"}
       = (IF mode = "done" THEN {Len(tokens)} \ {0} ELSE {})
  /\ mode = "done" => tokens # << >>

Span(token) == token.from .. token.to
Covered == UNION {Span(tokens[k]) : k \in DOMAIN tokens}

(* The position i is white space, or in a comment, outside every token.    *)
IsBlank(i) ==
  /\ i \notin Covered
  /\ \/ source[i] \in Whitespace
     \/ \E j \in 1 .. i :
          /\ At(j) = "/" /\ At(j + 1) = "/"
          /\ \A k \in j .. i : k \notin Covered /\ source[k] # "nl"

(* Up to the position p the source is tokens, in order, and blanks between *)
(* them.                                                                   *)
AccountedBefore(p) ==
  /\ \A k \in 1 .. (Len(tokens) - 1) : tokens[k].to < tokens[k + 1].from
  /\ \A i \in 1 .. (p - 1) : i \in Covered \/ IsBlank(i)

(* Names and numbers are as long as they can be, and "->" is never cut.    *)
LongestMatch ==
  \A k \in DOMAIN tokens :
    LET t == tokens[k]
    IN  CASE t.kind \in {"IDENT", "NUMBER"} ->
               /\ ~(At(t.to + 1) \in (IF t.kind = "IDENT" THEN {"n", "a", "1"} ELSE {"1"}))
               /\ \A i \in Span(t) :
                    source[i] \in (IF t.kind = "IDENT" THEN {"n", "a", "1"} ELSE {"1"})
          [] t.kind = ">"     -> At(t.from - 1) = "-" => t.from - 1 \in Covered
          [] t.kind = "ARROW" -> SubSeq(source, t.from, t.to) = <<"-", ">">>
          [] OTHER            -> TRUE

(* "Silent acceptance of unknown characters is the failure mode this layer *)
(* must prevent": what tokenize returns accounts for every character of    *)
(* the source, by a token of full length or as white space or comment.     *)
NothingLost == mode = "done" => AccountedBefore(Len(source) + 1) /\ LongestMatch

(* Line and column of a position, counted in the source.                   *)
NewLinesBefore(p) == {i \in 1 .. (p - 1) : source[i] = "nl"}
Place(p) ==
  LET breaks == NewLinesBefore(p)
  IN  [line |-> Cardinality(breaks) + 1,
       column |-> IF breaks = {} THEN p
                  ELSE p - (CHOOSE i \in breaks : \A j \in breaks : j <= i)]

(* The location of each token is where its text stands, whatever comments, *)
(* strings and line ends come before it.                                   *)
PositionsAreTrue ==
  \A k \in DOMAIN tokens :
    LET t == tokens[k]
    IN  [line |-> t.line, column |-> t.column] = Place(t.from)

(* At p stands something that begins no token, a string that its line does *)
(* not close, or an unknown escape.                                        *)
IsFault(p) ==
  \/ At(p) \in {"\\", "?"}
  \/ At(p) = "/" /\ At(p + 1) # "/"
  \/ At(p) = "-" /\ At(p + 1) # ">"
  \/ /\ At(p) = "q"
     /\ \A i \in (p + 1) .. Len(source) :
          source[i] = "q" => \/ \E j \in p .. i : source[j] = "nl"
                             \/ source[i - 1] = "\\"
  \/ At(p - 1) = "\\" /\ At(p) \notin EscapeChars

(* An error points to a fault, and nothing before the fault, or before the *)
(* string it lies in, was passed over.                                     *)
RejectsOnlyFaults ==
  mode = "error" =>
    \E p \in 1 .. (Len(source) + 1) :
      /\ Place(p) = error
      /\ IsFault(p)
      /\ AccountedBefore(p) \/ (mark.from < p /\ AccountedBefore(mark.from))

(* "The tokenizer guarantees every backslash in raw is followed by one of  *)
(* the four canonical escape characters, so the lookup cannot miss": and   *)
(* no bare backslash, quote or line end is left in a string's value.       *)
LookupCannotMiss ==
  \A k \in DOMAIN tokens : tokens[k].kind = "STRING" =>
    LET value == StringValue(tokens[k])
    IN  \A i \in DOMAIN value :
          IF value[i].escaped THEN value[i].char \in EscapeChars
          ELSE value[i].char \notin {"\\", "q", "nl"}
=============================================================================
