------------------------- MODULE ModuleParserProofs -------------------------
(***************************************************************************)
(* Proofs about the parser for every sequence of tokens and any limits.    *)
(***************************************************************************)
EXTENDS ModuleRecords, DataProofs

-----------------------------------------------------------------------------
(* The words of the checkers are those of the parser.                      *)
LEMMA SameWords == MizanFields = MizanHeads /\ TwoLayers = Layers
BY DEF MizanFields, MizanHeads, TwoLayers, Layers

Lies(below, above) == above \in DOMAIN MayCall /\ below \in MayCall[above]

(* A list knows a field of the method that called for it.                  *)
ListFields == BismillahFields \cup {"removes", "renames"}

IsFrame(f) ==
  /\ "at" \in DOMAIN f
  /\ f.at = "list" => "of" \in DOMAIN f /\ f.of \in ListFields

(* The frames lie on one another as MayCall says, the module at the bottom. *)
WellNested(stack) ==
  /\ stack \in Seq({stack[i] : i \in DOMAIN stack}) /\ stack # << >>
  /\ \A i \in DOMAIN stack : IsFrame(stack[i])
  /\ stack[1].at = "module"
  /\ \A i \in 2 .. Len(stack) : Lies(stack[i - 1].at, stack[i].at)

Arms == {"then", "else"}
Count(stack, methods) == Cardinality({i \in DOMAIN stack : stack[i].at \in methods})

(* No statement begins, and nothing is called, in an arm beyond MaxDepth.  *)
DepthKept(stack) ==
  Count(stack, Arms) <= MaxDepth + (IF stack[Len(stack)].at \in Arms THEN 1 ELSE 0)

IInv ==
  /\ source \in Sources
  /\ pos \in DOMAIN source
  /\ WellNested(frames)
  /\ DepthKept(frames)
  /\ HaveValue => Top.at \in Sides \cup ExpressionUsers
  /\ outcome \in {"running", "accepted", "rejected", "overflow"}
  /\ outcome = "accepted" => Top.at = "module"
  /\ outcome = "overflow" => Len(frames) > StackLimit

-----------------------------------------------------------------------------
(* Which methods call which, from the table.                               *)
LEMMA Callers ==
  ASSUME NEW b, NEW a
  PROVE  Lies(b, a) <=>
           \/ /\ a \in {"bismillah", "zahir", "batin", "version", "exports", "mizan", "tanzil",
                        "params", "signature", "fn"}
              /\ b = "module"
           \/ a = "list" /\ b \in {"bismillah", "bump"}
           \/ a = "bump" /\ b = "exports"
           \/ a = "bound" /\ b = "mizan"
           \/ a \in {"then", "else", "return", "if", "path", "args"} /\ b \in Blocks
           \/ a \in {"left", "right"} /\ b \in ExpressionUsers
           \/ a \in {"not", "number", "opaque", "fields"} /\ b \in Sides
           \/ a \in {"field", "parts"} /\ b = "fields"
<1>1. DOMAIN MayCall =
        {"bismillah", "zahir", "batin", "version", "exports", "mizan", "tanzil", "params",
         "signature", "fn", "list", "bump", "bound", "then", "else", "return", "if", "path", "args",
         "left", "right", "not", "number", "opaque", "fields", "field", "parts"}
  BY DEF MayCall
<1>2. /\ \A x \in {"bismillah", "zahir", "batin", "version", "exports", "mizan", "tanzil",
                   "params", "signature", "fn"} : MayCall[x] = {"module"}
      /\ MayCall["list"] = {"bismillah", "bump"}
      /\ MayCall["bump"] = {"exports"} /\ MayCall["bound"] = {"mizan"}
  BY DEF MayCall
<1>3. /\ \A x \in {"then", "else", "return", "if", "path", "args"} : MayCall[x] = Blocks
      /\ \A x \in {"left", "right"} : MayCall[x] = ExpressionUsers
      /\ \A x \in {"not", "number", "opaque", "fields"} : MayCall[x] = Sides
      /\ \A x \in {"field", "parts"} : MayCall[x] = {"fields"}
  BY DEF MayCall
<1>4. QED
  BY <1>1, <1>2, <1>3 DEF Lies

-----------------------------------------------------------------------------
(* Stacks that grow, shrink, and change in the local variables only.       *)

LEMMA StackFacts ==
  ASSUME NEW s, WellNested(s)
  PROVE  /\ Len(s) \in Nat \ {0} /\ DOMAIN s = 1 .. Len(s)
         /\ IsFrame(s[Len(s)])
         /\ \A K : Count(s, K) \in Nat
<1>1. Len(s) \in Nat \ {0} /\ DOMAIN s = 1 .. Len(s)
  BY DEF WellNested
<1>2. ASSUME NEW K PROVE Count(s, K) \in Nat
  <2> DEFINE C == {i \in DOMAIN s : s[i].at \in K}
  <2>1. C \in SUBSET (1 .. Len(s)) /\ IsFiniteSet(1 .. Len(s))
    BY <1>1, FS_Interval
  <2>2. Count(s, K) = Cardinality(C)
    BY DEF Count
  <2> HIDE DEF C
  <2>3. QED
    BY <2>1, <2>2, FS_Subset, FS_CardinalityType
<1>3. QED
  BY <1>1, <1>2 DEF WellNested

LEMMA CountOnTop ==
  ASSUME NEW s, NEW t, NEW K, WellNested(s),
         DOMAIN t = 1 .. (Len(s) + 1), \A i \in 1 .. Len(s) : t[i].at = s[i].at
  PROVE  Count(t, K) = Count(s, K) + (IF t[Len(s) + 1].at \in K THEN 1 ELSE 0)
<1> DEFINE n == Len(s)
           Below == {i \in 1 .. n : s[i].at \in K}
           All == {i \in 1 .. (n + 1) : t[i].at \in K}
<1>1. n \in Nat /\ DOMAIN s = 1 .. n /\ Count(s, K) = Cardinality(Below) /\ Count(t, K) = Cardinality(All)
  BY StackFacts DEF Count
<1>2. IsFiniteSet(Below) /\ n + 1 \notin Below
  <2>1. Below \subseteq 1 .. n /\ IsFiniteSet(1 .. n)
    BY <1>1, FS_Interval
  <2>2. QED
    BY <1>1, <2>1, FS_Subset
<1>3. All = Below \cup (IF t[n + 1].at \in K THEN {n + 1} ELSE {})
  BY <1>1
<1>4. Cardinality(Below) \in Nat /\ Cardinality(Below \cup {n + 1}) = Cardinality(Below) + 1
  BY <1>2, FS_AddElement, FS_CardinalityType
<1> HIDE DEF Below, All
<1>5. CASE t[n + 1].at \in K
  BY <1>1, <1>3, <1>4, <1>5
<1>6. CASE t[n + 1].at \notin K
  <2>1. All = Below
    BY <1>3, <1>6
  <2>2. QED
    BY <1>1, <1>4, <1>6, <2>1
<1>7. QED
  BY <1>5, <1>6

Calm(s) == WellNested(s) /\ Count(s, Arms) <= MaxDepth
Good(s) == WellNested(s) /\ DepthKept(s)

LEMMA AppendKeeps ==
  ASSUME NEW s, NEW f, Calm(s), IsFrame(f), Lies(s[Len(s)].at, f.at)
  PROVE  /\ Good(Append(s, f))
         /\ Append(s, f)[Len(Append(s, f))] = f
         /\ Len(Append(s, f)) = Len(s) + 1
<1> DEFINE t == Append(s, f)
           n == Len(s)
           S == {s[i] : i \in DOMAIN s}
           T == {t[i] : i \in DOMAIN t}
<1>1. /\ n \in Nat \ {0} /\ s \in Seq(S) /\ DOMAIN s = 1 .. n
      /\ \A i \in DOMAIN s : IsFrame(s[i])
      /\ s[1].at = "module"
      /\ \A i \in 2 .. n : Lies(s[i - 1].at, s[i].at)
  BY StackFacts DEF Calm, WellNested
<1> HIDE DEF S
<1>2. s \in Seq(S \cup {f}) /\ f \in S \cup {f}
  BY <1>1
<1>3. /\ DOMAIN t = 1 .. (n + 1) /\ Len(t) = n + 1 /\ t[n + 1] = f
      /\ \A i \in 1 .. n : t[i] = s[i]
  BY <1>2
<1>4. t \in Seq(T)
  <2>1. t = [i \in 1 .. (n + 1) |-> t[i]]
    <3>1. t \in Seq(S \cup {f})
      BY <1>2
    <3> HIDE DEF t
    <3>2. QED
      BY <1>1, <1>3, <3>1
  <2>2. \A i \in 1 .. (n + 1) : t[i] \in T
    BY <1>3
  <2> HIDE DEF t, T
  <2>3. QED
    BY <1>1, <2>1, <2>2
<1> HIDE DEF t, n
<1>5. \A i \in DOMAIN t : IsFrame(t[i])
  BY <1>1, <1>3
<1>6. ASSUME NEW i \in 2 .. Len(t) PROVE Lies(t[i - 1].at, t[i].at)
  <2>1. CASE i = n + 1
    BY <1>1, <1>3, <2>1 DEF n
  <2>2. CASE i # n + 1
    <3>1. i \in 2 .. n /\ i - 1 \in 1 .. n
      BY <1>1, <1>3, <2>2
    <3>2. QED
      BY <1>1, <1>3, <3>1
  <2>3. QED
    BY <2>1, <2>2
<1>7. Count(t, Arms) = Count(s, Arms) + (IF t[n + 1].at \in Arms THEN 1 ELSE 0)
  BY <1>3, CountOnTop DEF Calm, n
<1>8. t[1].at = "module" /\ t # << >>
  BY <1>1, <1>3
<1>9. WellNested(t)
  BY <1>4, <1>5, <1>6, <1>8 DEF WellNested
<1>10. DepthKept(t)
  <2>1. Count(s, Arms) \in Nat /\ Count(s, Arms) <= MaxDepth /\ MaxDepth \in Nat
    BY StackFacts, LimitsAssumption DEF Calm
  <2> HIDE DEF t
  <2>2. QED
    BY <1>3, <1>7, <2>1 DEF DepthKept
<1>11. QED
  BY <1>3, <1>9, <1>10 DEF Good, t, n

LEMMA FrontFacts ==
  ASSUME NEW s, WellNested(s), s[Len(s)].at # "module"
  PROVE  /\ WellNested(Front(s))
         /\ Len(Front(s)) = Len(s) - 1
         /\ Lies(Front(s)[Len(Front(s))].at, s[Len(s)].at)
         /\ \A K : Count(s, K) = Count(Front(s), K) + (IF s[Len(s)].at \in K THEN 1 ELSE 0)
<1> DEFINE t == Front(s)
           n == Len(s)
           S == {s[i] : i \in DOMAIN s}
           T == {t[i] : i \in DOMAIN t}
<1>1. /\ n \in Nat \ {0} /\ s \in Seq(S) /\ DOMAIN s = 1 .. n
      /\ \A i \in DOMAIN s : IsFrame(s[i])
      /\ s[1].at = "module"
      /\ \A i \in 2 .. n : Lies(s[i - 1].at, s[i].at)
  BY StackFacts DEF WellNested
<1>2. n # 1
  BY <1>1
<1>3. n - 1 \in Nat /\ n - 1 >= 1 /\ n - 1 <= n
  BY <1>1, <1>2
<1>4. /\ t \in Seq(S) /\ Len(t) = n - 1 /\ DOMAIN t = 1 .. (n - 1)
      /\ \A i \in 1 .. (n - 1) : t[i] = s[i]
  <2> HIDE DEF S
  <2>1. 1 \in 1 .. n + 1 /\ n - 1 \in 0 .. n
    BY <1>1, <1>3
  <2>2. Len(t) = n - 1 /\ t \in Seq(S) /\ \A i \in 1 .. Len(t) : t[i] = s[1 + i - 1]
    BY <1>1, <1>3, <2>1, SubSeqProperties DEF Front
  <2>3. \A i \in 1 .. (n - 1) : 1 + i - 1 = i
    BY <1>3
  <2> HIDE DEF t, n
  <2>4. QED
    BY <2>2, <2>3
<1>5. t \in Seq(T)
  <2>1. t = [i \in 1 .. (n - 1) |-> t[i]]
    BY <1>4
  <2>2. \A i \in 1 .. (n - 1) : t[i] \in T
    BY <1>4
  <2> HIDE DEF t, T
  <2>3. QED
    BY <1>3, <2>1, <2>2
<1>6. \A i \in 1 .. (n - 1) : i \in 1 .. n
  BY <1>3
<1>7. WellNested(t)
  <2>1. \A i \in DOMAIN t : IsFrame(t[i])
    BY <1>1, <1>4, <1>6
  <2>2. ASSUME NEW i \in 2 .. Len(t) PROVE Lies(t[i - 1].at, t[i].at)
    <3>1. i \in 2 .. n /\ i \in 1 .. (n - 1) /\ i - 1 \in 1 .. (n - 1)
      BY <1>3, <1>4
    <3>2. QED
      BY <1>1, <1>4, <3>1
  <2>3. t[1].at = "module" /\ t # << >>
    BY <1>1, <1>3, <1>4
  <2>4. QED
    BY <1>5, <2>1, <2>2, <2>3 DEF WellNested
<1>8. Lies(t[Len(t)].at, s[n].at)
  <2>1. n \in 2 .. n /\ n - 1 \in 1 .. (n - 1)
    BY <1>1, <1>3
  <2> HIDE DEF t, n
  <2>2. QED
    BY <1>1, <1>4, <2>1
<1>9. ASSUME NEW K
      PROVE  Count(s, K) = Count(t, K) + (IF s[n].at \in K THEN 1 ELSE 0)
  <2>1. Len(t) + 1 = n
    BY <1>3, <1>4
  <2>2. DOMAIN s = 1 .. (Len(t) + 1) /\ \A i \in 1 .. Len(t) : s[i].at = t[i].at
    BY <1>1, <1>4, <2>1
  <2> HIDE DEF t, n
  <2>3. Count(s, K) = Count(t, K) + (IF s[Len(t) + 1].at \in K THEN 1 ELSE 0)
    BY <1>7, <2>2, CountOnTop
  <2>4. QED
    BY <2>1, <2>3
<1>10. QED
  BY <1>4, <1>7, <1>8, <1>9

LEMMA FrontKeeps ==
  ASSUME NEW s, Good(s), s[Len(s)].at # "module"
  PROVE  Calm(Front(s)) /\ Good(Front(s))
<1>1. WellNested(Front(s)) /\ DepthKept(s) /\ WellNested(s)
  BY FrontFacts DEF Good
<1>2. Count(s, Arms) = Count(Front(s), Arms) + (IF s[Len(s)].at \in Arms THEN 1 ELSE 0)
  BY FrontFacts DEF Good
<1>3. Count(Front(s), Arms) \in Nat /\ MaxDepth \in Nat
  BY <1>1, StackFacts, LimitsAssumption
<1>4. Count(Front(s), Arms) <= MaxDepth
  BY <1>1, <1>2, <1>3 DEF DepthKept
<1>5. DepthKept(Front(s))
  BY <1>3, <1>4 DEF DepthKept
<1>6. QED
  BY <1>1, <1>4, <1>5 DEF Calm, Good

(* A frame gets other local variables.                                     *)
LEMMA UpdateKeeps ==
  ASSUME NEW s, NEW j \in DOMAIN s, NEW f, Good(s),
         IsFrame(f), f.at = s[j].at
  PROVE  LET t == [s EXCEPT ![j] = f]
         IN  Good(t) /\ Len(t) = Len(s) /\ t[Len(t)].at = s[Len(s)].at
<1> DEFINE t == [s EXCEPT ![j] = f]
           n == Len(s)
           S == {s[i] : i \in DOMAIN s}
           T == {t[i] : i \in DOMAIN t}
<1>1. /\ n \in Nat \ {0} /\ s \in Seq(S) /\ DOMAIN s = 1 .. n
      /\ \A i \in DOMAIN s : IsFrame(s[i])
      /\ s[1].at = "module"
      /\ \A i \in 2 .. n : Lies(s[i - 1].at, s[i].at)
  BY StackFacts DEF Good, WellNested
<1>2. DOMAIN t = 1 .. n /\ t = [i \in 1 .. n |-> t[i]] /\ \A i \in 1 .. n : t[i] = IF i = j THEN f ELSE s[i]
  BY <1>1
<1>3. t \in Seq(T) /\ Len(t) = n
  <2>1. \A i \in 1 .. n : t[i] \in T
    BY <1>2
  <2> HIDE DEF t, T
  <2>2. t \in [1 .. n -> T]
    BY <1>2, <2>1
  <2>3. QED
    BY <1>1, <2>2, SMTT(30)
<1>4. \A i \in 1 .. n : t[i].at = s[i].at /\ IsFrame(t[i])
  BY <1>1, <1>2
<1> HIDE DEF t, T
<1>5. WellNested(t)
  <2>1. ASSUME NEW i \in 2 .. Len(t) PROVE Lies(t[i - 1].at, t[i].at)
    <3>1. i \in 2 .. n /\ i \in 1 .. n /\ i - 1 \in 1 .. n
      BY <1>1, <1>3
    <3>2. QED
      BY <1>1, <1>4, <3>1
  <2>2. t[1].at = "module" /\ t # << >>
    BY <1>1, <1>3, <1>4
  <2>3. QED
    BY <1>2, <1>3, <1>4, <2>1, <2>2 DEF WellNested, T
<1>6. Count(t, Arms) = Count(s, Arms)
  <2>1. {i \in DOMAIN t : t[i].at \in Arms} = {i \in DOMAIN s : s[i].at \in Arms}
    BY <1>1, <1>2, <1>4
  <2>2. QED
    BY <2>1 DEF Count
<1>7. t[Len(t)].at = s[n].at
  BY <1>1, <1>3, <1>4
<1>8. DepthKept(t)
  BY <1>6, <1>7 DEF DepthKept, Good
<1>9. QED
  BY <1>3, <1>5, <1>7, <1>8 DEF Good, t

-----------------------------------------------------------------------------
(* How high a stack can be whose innermost method is m, but for three      *)
(* calls for each expression that nests and one for each arm of an if.     *)
Nests == {"not", "fields"}

Height(m) ==
  IF m = "module" THEN 1
  ELSE IF m \in {"bump", "bound", "return", "if", "path", "args", "field", "parts"} THEN 3
  ELSE IF m \in {"list", "left", "right"} THEN 4
  ELSE IF m \in {"number", "opaque"} THEN 5
  ELSE 2

LEMMA HeightStep ==
  ASSUME NEW b, NEW a, Lies(b, a)
  PROVE  Height(b) + 1 <= Height(a) + 3 * (IF a \in Nests THEN 1 ELSE 0)
                                    + (IF a \in Arms THEN 1 ELSE 0)
BY Callers DEF Height, Nests, Arms, Blocks, ExpressionUsers, Sides

LEMMA StackIsLow ==
  ASSUME NEW s, WellNested(s)
  PROVE  Len(s) <= Height(s[Len(s)].at) + 3 * Count(s, Nests) + Count(s, Arms)
<1> DEFINE Low(t) == Len(t) <= Height(t[Len(t)].at) + 3 * Count(t, Nests) + Count(t, Arms)
           S == {n \in Nat : \A t : WellNested(t) /\ Len(t) = n => Low(t)}
<1>1. 0 \in S
  BY StackFacts
<1>2. ASSUME NEW n \in Nat, n \in S PROVE n + 1 \in S
  <2>1. ASSUME NEW t, WellNested(t), Len(t) = n + 1 PROVE Low(t)
    <3>1. Count(t, Nests) \in Nat /\ Count(t, Arms) \in Nat
      BY <2>1, StackFacts
    <3>2. \A m : Height(m) \in 1 .. 5
      BY DEF Height
    <3>3. CASE n = 0
      BY <2>1, <3>1, <3>2, <3>3
    <3>4. CASE t[Len(t)].at # "module"
      <4> DEFINE u == Front(t)
                 a == t[Len(t)].at
                 b == u[Len(u)].at
      <4>1. /\ WellNested(u) /\ Len(u) = Len(t) - 1 /\ Lies(b, a)
            /\ Count(t, Nests) = Count(u, Nests) + (IF a \in Nests THEN 1 ELSE 0)
            /\ Count(t, Arms) = Count(u, Arms) + (IF a \in Arms THEN 1 ELSE 0)
        BY <2>1, <3>4, FrontFacts
      <4>2. Count(u, Nests) \in Nat /\ Count(u, Arms) \in Nat
        BY <4>1, StackFacts
      <4> HIDE DEF u, a, b
      <4>3. Len(u) = n
        BY <2>1, <4>1
      <4>4. Low(u)
        BY <1>2, <4>1, <4>3
      <4>5. Len(u) <= Height(b) + 3 * Count(u, Nests) + Count(u, Arms)
        BY <4>4 DEF b
      <4>6. Height(b) + 1 <= Height(a) + 3 * (IF a \in Nests THEN 1 ELSE 0)
                                       + (IF a \in Arms THEN 1 ELSE 0)
        BY <4>1, HeightStep
      <4>7. n + 1 <= Height(a) + 3 * Count(t, Nests) + Count(t, Arms)
        <5> DEFINE x == IF a \in Nests THEN 1 ELSE 0
                   y == IF a \in Arms THEN 1 ELSE 0
        <5>1. x \in Nat /\ y \in Nat /\ Height(a) \in Nat /\ Height(b) \in Nat
          BY <3>2
        <5>2. /\ Count(t, Nests) = Count(u, Nests) + x /\ Count(t, Arms) = Count(u, Arms) + y
              /\ Height(b) + 1 <= Height(a) + 3 * x + y
          BY <4>1, <4>6
        <5> HIDE DEF x, y
        <5>3. QED
          BY <4>2, <4>3, <4>5, <5>1, <5>2, SMTT(30)
      <4>8. QED
        BY <2>1, <4>7 DEF a
    <3>5. CASE n # 0 /\ t[Len(t)].at = "module"
      <4>1. Len(t) \in 2 .. Len(t)
        BY <2>1, <3>5
      <4>2. Lies(t[Len(t) - 1].at, "module")
        BY <2>1, <3>5, <4>1 DEF WellNested
      <4>3. QED
        BY <4>2, Callers
    <3>6. QED
      BY <3>3, <3>4, <3>5
  <2> HIDE DEF Low
  <2>2. QED
    BY <2>1
<1> HIDE DEF S
<1>3. Nat \subseteq S
  BY <1>1, <1>2, SetInduction
<1>4. Len(s) \in Nat
  BY StackFacts
<1>5. QED
  BY <1>3, <1>4 DEF S

-----------------------------------------------------------------------------
(* What a step may rely on.                                                *)
LEMMA RunFacts ==
  ASSUME IInv
  PROVE  /\ Len(frames) \in Nat \ {0} /\ DOMAIN frames = 1 .. Len(frames)
         /\ Good(frames) /\ WellNested(frames)
         /\ IsFrame(Top) /\ Top = frames[Len(frames)] /\ Under = Front(frames)
         /\ pos \in Nat \ {0}
<1>1. pos \in 1 .. Len(source) /\ Len(source) \in Nat
  BY SourcesAssumption DEF IInv
<1>2. QED
  BY <1>1, StackFacts DEF IInv, Good, Top, Under, Front

(* A token that is not the end has another behind it.                      *)
LEMMA Ahead ==
  ASSUME IInv, NEW i \in Nat, At(i) # "eof"
  PROVE  i \in DOMAIN source /\ i + 1 \in DOMAIN source
<1>1. source \in Seq({source[j] : j \in DOMAIN source})
       /\ \A j \in DOMAIN source : source[j] = "eof" <=> j = Len(source)
  BY SourcesAssumption DEF IInv
<1>2. DOMAIN source = 1 .. Len(source) /\ Len(source) \in Nat
  BY <1>1
<1>3. i \in DOMAIN source /\ source[i] # "eof"
  BY DEF At
<1>4. i # Len(source)
  BY <1>1, <1>3
<1> DEFINE n == Len(source)
<1>5. n \in Nat /\ i \in 1 .. n /\ i # n
  BY <1>2, <1>3, <1>4
<1>6. DOMAIN source = 1 .. n
  BY <1>2
<1> HIDE DEF n
<1>7. QED
  BY <1>5, <1>6

LEMMA StepKeeps ==
  ASSUME IInv, source' = source, pos' \in DOMAIN source, outcome' = "running", Good(frames'),
         (HaveValue => Top.at \in Sides \cup ExpressionUsers)'
  PROVE  IInv'
BY DEF IInv, Good

LEMMA Resting ==
  ASSUME IInv, UNCHANGED <<source, pos, frames, value>>,
         \/ outcome' \in {"running", "rejected"}
         \/ outcome' = "accepted" /\ Top.at = "module"
         \/ outcome' = "overflow" /\ Len(frames) > StackLimit
  PROVE  IInv'
BY DEF IInv, HaveValue, Top

LEMMA PushOn ==
  ASSUME IInv, Top.at \notin Arms \/ ~TooDeep,
         NEW f, IsFrame(f), Lies(Top.at, f.at), frames' = Append(frames, f)
  PROVE  Good(frames') /\ Top' = f
<1>1. Calm(frames)
  <2>1. Count(frames, Arms) = Depth
    BY DEF Count, Arms, Depth
  <2>2. Count(frames, Arms) \in Nat /\ MaxDepth \in Nat
    BY RunFacts, StackFacts, LimitsAssumption
  <2>3. QED
    BY <2>1, <2>2, RunFacts DEF Good, Calm, DepthKept, TooDeep
<1>2. QED
  BY <1>1, RunFacts, AppendKeeps DEF Top

LEMMA PushTwo ==
  ASSUME IInv, Top.at \notin Arms \/ ~TooDeep,
         NEW f, IsFrame(f), Lies(Top.at, f.at), f.at \notin Arms,
         NEW g, IsFrame(g), Lies(f.at, g.at), frames' = frames \o <<f, g>>
  PROVE  Good(frames') /\ Top' = g
<1> DEFINE t == Append(frames, f)
<1>1. Calm(frames)
  <2>1. Count(frames, Arms) = Depth
    BY DEF Count, Arms, Depth
  <2>2. Count(frames, Arms) \in Nat /\ MaxDepth \in Nat
    BY RunFacts, StackFacts, LimitsAssumption
  <2>3. QED
    BY <2>1, <2>2, RunFacts DEF Good, Calm, DepthKept, TooDeep
<1>2. Good(t) /\ t[Len(t)] = f
  BY <1>1, RunFacts, AppendKeeps
<1>3. frames' = Append(t, g)
  <2>1. frames \in Seq({frames[i] : i \in DOMAIN frames} \cup {f, g})
    BY RunFacts DEF WellNested
  <2>2. QED
    BY <2>1
<1> HIDE DEF t
<1>4. Calm(t)
  <2>1. Count(t, Arms) \in Nat /\ MaxDepth \in Nat
    BY <1>2, StackFacts, LimitsAssumption DEF Good
  <2>2. QED
    BY <1>2, <2>1 DEF Good, Calm, DepthKept
<1>5. QED
  BY <1>2, <1>3, <1>4, AppendKeeps DEF Top

(* The method on top can be replaced by one that has the same callers.     *)
LEMMA ReplaceTop ==
  ASSUME IInv, Top.at # "module",
         NEW f, IsFrame(f), \A b : Lies(b, Top.at) => Lies(b, f.at), frames' = Append(Under, f)
  PROVE  Good(frames') /\ Top' = f
<1>1. Calm(Under) /\ Lies(Under[Len(Under)].at, f.at)
  BY RunFacts, FrontKeeps, FrontFacts
<1>2. QED
  BY <1>1, AppendKeeps DEF Top

LEMMA PopTop ==
  ASSUME IInv, Top.at # "module", frames' = Under
  PROVE  Good(frames') /\ Lies(Top'.at, Top.at)
<1>1. Top' = Under[Len(Under)]
  BY DEF Top
<1>2. QED
  BY <1>1, RunFacts, FrontKeeps, FrontFacts

(* A local variable of a method gets another value.                        *)
LEMMA FrameUpdated ==
  ASSUME NEW f, IsFrame(f), NEW field, field \notin {"at", "of"}, NEW x
  PROVE  IsFrame([f EXCEPT ![field] = x]) /\ [f EXCEPT ![field] = x].at = f.at
BY DEF IsFrame

LEMMA ChangeTop ==
  ASSUME IInv, Top.at # "module", NEW field, field \notin {"at", "of"}, NEW x,
         frames' = Append(Under, [Top EXCEPT ![field] = x])
  PROVE  Good(frames')
<1> DEFINE f == [Top EXCEPT ![field] = x]
<1>1. IsFrame(f) /\ f.at = Top.at
  BY RunFacts, FrameUpdated
<1>2. frames' = Append(Under, f)
  OBVIOUS
<1> HIDE DEF f
<1>3. QED
  BY <1>1, <1>2, ReplaceTop

LEMMA UpdateTop ==
  ASSUME IInv, NEW field, field \notin {"at", "of"}, NEW x,
         frames' = [frames EXCEPT ![Len(frames)][field] = x]
  PROVE  Good(frames') /\ Top'.at = Top.at
<1>1. Len(frames) \in DOMAIN frames
  BY RunFacts
<1> DEFINE f == [frames[Len(frames)] EXCEPT ![field] = x]
           t == [frames EXCEPT ![Len(frames)] = f]
<1>2. IsFrame(f) /\ f.at = frames[Len(frames)].at
  BY RunFacts, FrameUpdated
<1>3. frames' = t
  OBVIOUS
<1>4. Good(t) /\ t[Len(t)].at = frames[Len(frames)].at
  <2> HIDE DEF f
  <2>1. QED
    BY <1>1, <1>2, RunFacts, UpdateKeeps
<1> HIDE DEF t
<1>5. QED
  BY <1>3, <1>4 DEF Top

LEMMA PopAndUpdateAt ==
  ASSUME IInv, Top.at # "module", NEW field, field \notin {"at", "of"}, NEW x,
         NEW j \in DOMAIN Under, frames' = [Under EXCEPT ![j][field] = x]
  PROVE  Good(frames') /\ Lies(Top'.at, Top.at)
<1>1. Good(Under) /\ Lies(Under[Len(Under)].at, Top.at)
  BY RunFacts, FrontKeeps, FrontFacts
<1>2. IsFrame(Under[j])
  BY <1>1 DEF Good, WellNested
<1> DEFINE f == [Under[j] EXCEPT ![field] = x]
           t == [Under EXCEPT ![j] = f]
<1>3. IsFrame(f) /\ f.at = Under[j].at
  BY <1>2, FrameUpdated
<1>4. frames' = t
  OBVIOUS
<1>5. Good(t) /\ t[Len(t)].at = Under[Len(Under)].at
  <2> HIDE DEF f
  <2>1. QED
    BY <1>1, <1>3, UpdateKeeps
<1> HIDE DEF t
<1>6. QED
  BY <1>1, <1>4, <1>5 DEF Top

LEMMA UnderFacts ==
  ASSUME IInv, Top.at # "module"
  PROVE  Len(Under) \in DOMAIN Under /\ 1 \in DOMAIN Under
BY RunFacts, FrontFacts, StackFacts

LEMMA PopAndUpdate ==
  ASSUME IInv, Top.at # "module", NEW field, field \notin {"at", "of"}, NEW x,
         frames' = [Under EXCEPT ![Len(Under)][field] = x]
  PROVE  Good(frames') /\ Lies(Top'.at, Top.at)
BY UnderFacts, PopAndUpdateAt

(* A step of a method that waits for no expression, or has none yet.       *)
LEMMA GoesOn ==
  ASSUME IInv, outcome = "running", UNCHANGED <<source, outcome>>,
         pos' \in DOMAIN source, Good(frames'),
         (Top.at \notin Sides \cup ExpressionUsers /\ value' = value) \/ value' = None
  PROVE  IInv'
<1>1. value' = None
  BY DEF IInv, HaveValue
<1>2. ~HaveValue'
  BY <1>1 DEF HaveValue
<1>3. QED
  BY <1>2, StepKeeps

(* A step that leaves an expression where a method waits for it.           *)
LEMMA Yields ==
  ASSUME IInv, outcome = "running", UNCHANGED <<source, outcome>>,
         pos' \in DOMAIN source, Good(frames'), Top'.at \in Sides \cup ExpressionUsers
  PROVE  IInv'
<1>1. (HaveValue => Top.at \in Sides \cup ExpressionUsers)'
  BY DEF Sides, ExpressionUsers
<1>2. QED
  BY <1>1, StepKeeps

(* A step to the next token, or to the one after that.                     *)
LEMMA Positions ==
  ASSUME IInv
  PROVE  /\ pos \in DOMAIN source
         /\ Next1 # "eof" => pos + 1 \in DOMAIN source
         /\ After # "eof" => pos + 2 \in DOMAIN source
         /\ At(pos + 2) # "eof" => pos + 3 \in DOMAIN source
<1>1. pos \in Nat /\ pos + 1 \in Nat /\ pos + 2 \in Nat
  BY RunFacts
<1>2. pos + 1 + 1 = pos + 2 /\ pos + 2 + 1 = pos + 3
  BY <1>1
<1>3. QED
  BY <1>1, <1>2, Ahead DEF IInv, Next1, After

LEMMA TokensGoOn == "eof" \notin Names \cup Layers \cup MizanHeads \cup ListFields
BY DEF Names, Layers, MizanHeads, ListFields, BismillahFields

-----------------------------------------------------------------------------
(* The steps within function bodies.                                       *)
LEMMA StatementKeeps == IInv /\ Statement => IInv'
<1> SUFFICES ASSUME IInv, Statement PROVE IInv'
  OBVIOUS
<1>1. CASE NoStatement
  BY <1>1, Resting DEF NoStatement, Reject, AtStatement, Running
<1>2. ASSUME AtStatement
      PROVE  /\ \A m \in {"return", "if", "path"} : Lies(Top.at, m)
             /\ Top.at \notin Sides \cup ExpressionUsers
             /\ outcome = "running" /\ pos + 1 \in DOMAIN source
  BY <1>2, Positions, Callers DEF AtStatement, InBlock, Running, Blocks, Sides, ExpressionUsers
<1>3. \A m \in {"return", "if"} : IsFrame([at |-> m]) /\ Lies(m, "left") /\ m \notin Arms
  BY Callers DEF IsFrame, ExpressionUsers, Arms
<1>4. IsFrame([at |-> "left"])
  BY DEF IsFrame
<1>5. CASE StartReturn
  <2>1. Good(frames')
    BY <1>2, <1>3, <1>4, <1>5, PushTwo DEF StartReturn
  <2>2. QED
    BY <1>2, <1>5, <2>1, GoesOn DEF StartReturn, Advance
<1>6. CASE StartIf
  <2>1. Good(frames')
    BY <1>2, <1>3, <1>4, <1>6, PushTwo DEF StartIf
  <2>2. QED
    BY <1>2, <1>6, <2>1, GoesOn DEF StartIf, Advance
<1>7. CASE StartCall
  <2> DEFINE f == [at |-> "path", path |-> <<Next1>>, start |-> pos]
  <2>1. IsFrame(f) /\ f.at = "path"
    BY DEF IsFrame
  <2>2. frames' = Append(frames, f) /\ ~TooDeep
    BY <1>7 DEF StartCall, Push
  <2> HIDE DEF f
  <2>3. Good(frames')
    BY <1>2, <1>7, <2>1, <2>2, PushOn DEF StartCall
  <2>4. QED
    BY <1>2, <1>7, <2>3, GoesOn DEF StartCall, Advance
<1>8. QED
  BY <1>1, <1>5, <1>6, <1>7 DEF Statement

LEMMA CallKeeps == IInv /\ Call => IInv'
<1> SUFFICES ASSUME IInv, Call PROVE IInv'
  OBVIOUS
<1> USE DEF Push, Advance, Running
<1>1. CASE NoPath \/ ArgStray
  BY <1>1, Resting DEF NoPath, ArgStray, Reject
<1>2. ASSUME Top.at \in {"path", "args", "opaque"}
      PROVE  Top.at # "module" /\ Top.at \notin Sides \cup ExpressionUsers
  BY <1>2 DEF Sides, ExpressionUsers
<1>3. CASE PathStep
  <2>1. CASE Next1 = "." /\ After \in Names \cup Layers
    <3>1. Good(frames')
      BY <1>2, <1>3, <2>1, ChangeTop DEF PathStep
    <3>2. pos + 2 \in DOMAIN source
      BY <2>1, Positions, TokensGoOn
    <3>3. QED
      BY <1>2, <1>3, <2>1, <3>1, <3>2, GoesOn DEF PathStep
  <2>2. CASE ~(Next1 = "." /\ After \in Names \cup Layers)
    <3> DEFINE f == [at |-> "args", path |-> Top.path, start |-> Top.start, parens |-> 1,
                     found |-> << >>]
    <3>1. IsFrame(f) /\ \A b : Lies(b, "path") => Lies(b, f.at)
      BY Callers DEF IsFrame
    <3>2. frames' = Append(Under, f) /\ Next1 = "(" /\ Top.at = "path"
      BY <1>3, <2>2 DEF PathStep
    <3> HIDE DEF f
    <3>3. Good(frames')
      BY <1>2, <3>1, <3>2, ReplaceTop
    <3>4. QED
      BY <1>2, <1>3, <2>2, <3>2, <3>3, Positions, GoesOn DEF PathStep
  <2>3. QED
    BY <2>1, <2>2
<1>4. CASE ArgOpen
  <2>1. Good(frames')
    BY <1>2, <1>4, ChangeTop DEF ArgOpen
  <2>2. QED
    BY <1>2, <1>4, <2>1, Positions, GoesOn DEF ArgOpen
<1>5. CASE ArgClose
  <2>1. Good(frames')
    BY <1>2, <1>5, ChangeTop DEF ArgClose
  <2>2. QED
    BY <1>2, <1>5, <2>1, Positions, GoesOn DEF ArgClose
<1>6. CASE ArgAccess
  <2>1. Good(frames')
    BY <1>2, <1>6, ChangeTop DEF ArgAccess
  <2>2. pos + 3 \in DOMAIN source
    BY <1>6, Positions, TokensGoOn DEF ArgAccess, IsAccess
  <2>3. QED
    BY <1>2, <1>6, <2>1, <2>2, GoesOn DEF ArgAccess
<1>7. CASE ArgSkip
  <2>1. Good(frames')
    BY <1>7, RunFacts DEF ArgSkip
  <2>2. QED
    BY <1>2, <1>7, <2>1, Positions, GoesOn DEF ArgSkip
<1>8. CASE EndCall
  <2>1. Good(frames')
    BY <1>2, <1>8, PopAndUpdate DEF EndCall, WithStatement
  <2>2. QED
    BY <1>2, <1>8, <2>1, Positions, GoesOn DEF EndCall
<1>9. QED
  BY <1>1, <1>3, <1>4, <1>5, <1>6, <1>7, <1>8 DEF Call

LEMMA PrimaryKeeps == IInv /\ Primary => IInv'
<1> SUFFICES ASSUME IInv, Primary PROVE IInv'
  OBVIOUS
<1> USE DEF Push, Advance, Running
<1>1. CASE NoNumber \/ NoExpression
  BY <1>1, Resting DEF NoNumber, NoExpression, Reject
<1>2. ASSUME InPrimary
      PROVE  /\ Top.at \in Sides /\ Top.at \notin Arms /\ value = None
             /\ \A m \in {"not", "number", "opaque", "fields"} : Lies(Top.at, m)
  BY <1>2, Callers DEF InPrimary, Sides, Arms
<1>3. CASE ParseNot
  <2>1. /\ IsFrame([at |-> "not"]) /\ IsFrame([at |-> "left"]) /\ "not" \notin Arms
        /\ Lies("not", "left")
    BY Callers DEF IsFrame, Arms, ExpressionUsers
  <2>2. Good(frames')
    BY <1>2, <1>3, <2>1, PushTwo DEF ParseNot
  <2>3. QED
    BY <1>2, <1>3, <2>2, Positions, GoesOn DEF ParseNot
<1>4. CASE ParseLiteral
  <2>1. Good(frames') /\ Top' = Top
    BY <1>4, RunFacts DEF ParseLiteral, Top
  <2>2. QED
    BY <1>2, <1>4, <2>1, Positions, Yields DEF ParseLiteral
<1>5. CASE StartNumber
  <2> DEFINE f == [at |-> "number", parts |-> 1]
  <2>1. IsFrame(f) /\ f.at = "number" /\ frames' = Append(frames, f)
    BY <1>5 DEF IsFrame, StartNumber
  <2> HIDE DEF f
  <2>2. Good(frames')
    BY <1>2, <1>5, <2>1, PushOn DEF StartNumber
  <2>3. QED
    BY <1>2, <1>5, <2>2, Positions, GoesOn DEF StartNumber
<1>6. CASE InNumber
  <2>1. CASE Next1 = "."
    <3>1. Good(frames')
      BY <1>6, <2>1, ChangeTop DEF InNumber
    <3>2. QED
      BY <1>6, <2>1, <3>1, Positions, GoesOn DEF InNumber, Sides, ExpressionUsers
  <2>2. CASE Next1 # "."
    <3>1. Good(frames') /\ Top'.at \in Sides
      BY <1>6, <2>2, PopTop, Callers DEF InNumber
    <3>2. QED
      BY <1>6, <2>2, <3>1, Positions, Yields DEF InNumber
  <2>3. QED
    BY <2>1, <2>2
<1>7. CASE ParseName
  <2>1. CASE After = "("
    <3> DEFINE f == [at |-> "opaque", parens |-> 1, name |-> Next1]
    <3>1. IsFrame(f) /\ f.at = "opaque" /\ frames' = Append(frames, f)
      BY <1>7, <2>1 DEF IsFrame, ParseName
    <3> HIDE DEF f
    <3>2. Good(frames')
      BY <1>2, <1>7, <3>1, PushOn DEF ParseName
    <3>3. QED
      BY <1>2, <1>7, <2>1, <3>2, Positions, GoesOn DEF ParseName
  <2>2. CASE After # "("
    <3>1. Good(frames') /\ Top' = Top
      BY <1>7, <2>2, RunFacts DEF ParseName, Top
    <3>2. pos + 1 \in DOMAIN source
      BY <1>7, Positions, TokensGoOn DEF ParseName
    <3>3. QED
      BY <1>2, <1>7, <2>2, <3>1, <3>2, Yields DEF ParseName
  <2>3. QED
    BY <2>1, <2>2
<1>8. CASE EndOpaque
  <2>1. Good(frames') /\ Top'.at \in Sides
    BY <1>8, PopTop, Callers DEF EndOpaque
  <2>2. pos' \in DOMAIN source
    <3>1. CASE Next1 = "eof"
      BY <1>8, <3>1, Positions, RunFacts DEF EndOpaque
    <3>2. CASE Next1 # "eof"
      BY <1>8, <3>2, Positions, RunFacts DEF EndOpaque
    <3>3. QED
      BY <3>1, <3>2
  <2>3. QED
    BY <1>8, <2>1, <2>2, Yields DEF EndOpaque
<1>9. QED
  BY <1>1, <1>3, <1>4, <1>5, <1>6, <1>7, <1>8 DEF Primary

LEMMA IncompleteKeeps == IInv /\ Incomplete => IInv'
<1> SUFFICES ASSUME IInv, Incomplete PROVE IInv'
  OBVIOUS
<1> USE DEF Push, Advance, Running
<1>1. CASE NoPart \/ NoField
  BY <1>1, Resting DEF NoPart, NoField, Reject
<1>2. ASSUME Top.at \in {"fields", "parts"}
      PROVE  /\ Top.at # "module" /\ Top.at \notin Sides \cup ExpressionUsers
             /\ Top.at \notin Arms
  BY <1>2 DEF Sides, ExpressionUsers, Arms
<1>3. ASSUME NEW i \in Nat, i \in DOMAIN source PROVE PastComma(i) \in DOMAIN source
  BY <1>3, Ahead DEF PastComma
<1>4. CASE OpenIncomplete
  <2> DEFINE f == [at |-> "fields", fields |-> << >>]
  <2>1. IsFrame(f) /\ Lies(Top.at, f.at) /\ Top.at \notin Arms
    BY <1>4, Callers DEF IsFrame, OpenIncomplete, InPrimary, Sides, Arms
  <2>2. frames' = Append(frames, f) /\ pos + 2 \in DOMAIN source
    BY <1>4, Positions DEF OpenIncomplete, IsIncomplete
  <2> HIDE DEF f
  <2>3. Good(frames')
    BY <2>1, <2>2, PushOn
  <2>4. QED
    BY <1>4, <2>2, <2>3, GoesOn DEF OpenIncomplete, InPrimary
<1>5. CASE ReasonField
  <2>1. Good(frames')
    BY <1>5, UpdateTop DEF ReasonField, WithField
  <2>2. pos' \in DOMAIN source
    BY <1>3, <1>5, Positions, RunFacts DEF ReasonField
  <2>3. QED
    BY <1>2, <1>5, <2>1, <2>2, GoesOn DEF ReasonField
<1>6. CASE StartParts
  <2> DEFINE f == [at |-> "parts", items |-> <<At(pos + 2)>>]
  <2>1. IsFrame(f) /\ f.at = "parts" /\ frames' = Append(frames, f)
    BY <1>6 DEF IsFrame, StartParts
  <2> HIDE DEF f
  <2>2. Good(frames')
    BY <1>2, <1>6, <2>1, PushOn, Callers DEF StartParts
  <2>3. pos + 3 \in DOMAIN source
    BY <1>6, Positions, TokensGoOn DEF StartParts
  <2>4. QED
    BY <1>2, <1>6, <2>2, <2>3, GoesOn DEF StartParts
<1>7. CASE InParts
  <2>1. CASE Next1 = ","
    <3>1. Good(frames')
      BY <1>2, <1>7, <2>1, ChangeTop DEF InParts
    <3>2. pos + 2 \in DOMAIN source
      BY <1>7, <2>1, Positions, TokensGoOn DEF InParts
    <3>3. QED
      BY <1>2, <1>7, <2>1, <3>1, <3>2, GoesOn DEF InParts
  <2>2. CASE Next1 # ","
    <3>1. Good(frames')
      BY <1>2, <1>7, <2>2, PopAndUpdate DEF InParts, WithField
    <3>2. QED
      BY <1>2, <1>7, <2>2, <3>1, Positions, GoesOn DEF InParts
  <2>3. QED
    BY <2>1, <2>2
<1>8. CASE OtherField
  <2> DEFINE f == [at |-> "field", name |-> Next1]
             g == [at |-> "left"]
  <2>1. /\ IsFrame(f) /\ IsFrame(g) /\ f.at \notin Arms
        /\ Lies(f.at, g.at) /\ Lies("fields", f.at)
    BY Callers DEF IsFrame, Arms, ExpressionUsers
  <2>2. frames' = frames \o <<f, g>> /\ Top.at = "fields" /\ pos + 2 \in DOMAIN source
    BY <1>8, Positions DEF OtherField
  <2> HIDE DEF f, g
  <2>3. Good(frames')
    BY <1>2, <2>1, <2>2, PushTwo
  <2>4. QED
    BY <1>2, <1>8, <2>2, <2>3, GoesOn DEF OtherField
<1>9. CASE EndIncomplete
  <2>1. Good(frames') /\ Top'.at \in Sides
    BY <1>9, PopTop, Callers DEF EndIncomplete
  <2>2. QED
    BY <1>9, <2>1, Positions, Yields DEF EndIncomplete
<1>10. QED
  BY <1>1, <1>4, <1>5, <1>6, <1>7, <1>8, <1>9 DEF Incomplete

LEMMA ExpressionKeeps == IInv /\ Expression => IInv'
<1> SUFFICES ASSUME IInv, Expression PROVE IInv'
  OBVIOUS
<1> USE DEF Push, Advance, Running
<1>1. CASE Chained \/ NoThen
  BY <1>1, Resting DEF Chained, NoThen, Reject
<1>2. CASE StartRight
  <2> DEFINE f == [at |-> "right", left |-> value]
  <2>1. IsFrame(f) /\ \A b : Lies(b, "left") => Lies(b, f.at)
    BY Callers DEF IsFrame
  <2>2. frames' = Append(Under, f)
    BY <1>2 DEF StartRight
  <2> HIDE DEF f
  <2>3. Good(frames')
    BY <1>2, <2>1, <2>2, ReplaceTop DEF StartRight
  <2>4. QED
    BY <1>2, <2>3, Positions, GoesOn DEF StartRight
<1>3. CASE EndExpression
  <2>1. Good(frames') /\ Top'.at \in ExpressionUsers
    BY <1>3, PopTop, Callers DEF EndExpression
  <2>2. QED
    BY <1>3, <2>1, Positions, Yields DEF EndExpression
<1>4. CASE EndNot
  <2>1. Good(frames') /\ Top'.at \in Sides
    BY <1>4, PopTop, Callers DEF EndNot
  <2>2. QED
    BY <1>4, <2>1, Positions, Yields DEF EndNot
<1>5. CASE EndField
  <2>1. Good(frames')
    BY <1>5, PopAndUpdate DEF EndField, WithField
  <2>2. pos' \in DOMAIN source
    BY <1>5, Positions, RunFacts, Ahead DEF EndField, PastComma, Next1
  <2>3. QED
    BY <1>5, <2>1, <2>2, GoesOn DEF EndField
<1>6. CASE EndReturn
  <2>1. Good(frames')
    BY <1>6, PopAndUpdate DEF EndReturn, WithStatement
  <2>2. QED
    BY <1>6, <2>1, Positions, GoesOn DEF EndReturn
<1>7. CASE OpenThen
  <2> DEFINE f == [at |-> "then", cond |-> value, stmts |-> << >>]
  <2>1. IsFrame(f) /\ \A b : Lies(b, "if") => Lies(b, f.at)
    BY Callers DEF IsFrame
  <2>2. frames' = Append(Under, f)
    BY <1>7 DEF OpenThen
  <2> HIDE DEF f
  <2>3. Good(frames')
    BY <1>7, <2>1, <2>2, ReplaceTop DEF OpenThen
  <2>4. QED
    BY <1>7, <2>3, Positions, GoesOn DEF OpenThen
<1>8. QED
  BY <1>1, <1>2, <1>3, <1>4, <1>5, <1>6, <1>7 DEF Expression

LEMMA BlockEndKeeps == IInv /\ BlockEnd => IInv'
<1> SUFFICES ASSUME IInv, BlockEnd PROVE IInv'
  OBVIOUS
<1> USE DEF Push, Advance, Running
<1>1. CASE NoElse \/ NoEnd
  BY <1>1, Resting DEF NoElse, NoEnd, Reject
<1>2. ASSUME Top.at \in Arms
      PROVE  Top.at # "module" /\ Top.at \notin Sides \cup ExpressionUsers
  BY <1>2 DEF Sides, ExpressionUsers, Arms
<1>3. CASE EndThen
  <2>1. Good(frames')
    BY <1>2, <1>3, PopAndUpdate DEF EndThen, WithStatement
  <2>2. QED
    BY <1>2, <1>3, <2>1, Positions, GoesOn DEF EndThen, Arms
<1>4. CASE OpenElse
  <2> DEFINE f == [at |-> "else", cond |-> Top.cond, then |-> Top.stmts, stmts |-> << >>]
  <2>1. IsFrame(f) /\ \A b : Lies(b, "then") => Lies(b, f.at)
    BY Callers DEF IsFrame
  <2>2. frames' = Append(Under, f)
    BY <1>4 DEF OpenElse
  <2> HIDE DEF f
  <2>3. Good(frames')
    BY <1>4, <2>1, <2>2, ReplaceTop DEF OpenElse
  <2>4. QED
    BY <1>2, <1>4, <2>3, Positions, GoesOn DEF OpenElse, Arms
<1>5. CASE EndElse
  <2>1. Good(frames')
    BY <1>2, <1>5, PopAndUpdate DEF EndElse, WithStatement
  <2>2. QED
    BY <1>2, <1>5, <2>1, Positions, GoesOn DEF EndElse, Arms
<1>6. QED
  BY <1>1, <1>3, <1>4, <1>5 DEF BlockEnd

-----------------------------------------------------------------------------
(* The loops over items: whose items they are, and where they end.         *)
LEMMA PatternEnd ==
  ASSUME IInv, NEW i \in Nat, NEW n \in Nat \ {0}, NEW pattern, DOMAIN pattern = 1 .. n,
         Matches(i, pattern), "eof" \notin pattern[n]
  PROVE  i + n \in DOMAIN source
<1>1. At(i + n - 1) \in pattern[n]
  BY DEF Matches
<1>2. i + n - 1 \in Nat /\ i + n - 1 + 1 = i + n
  OBVIOUS
<1>3. i + n - 1 + 1 \in DOMAIN source
  BY <1>1, <1>2, Ahead
<1>4. QED
  BY <1>2, <1>3

LEMMA HeadEnds ==
  ASSUME IInv, NEW n \in Nat \ {0}, NEW pattern, DOMAIN pattern = 1 .. n,
         Matches(pos + 1, pattern), "eof" \notin pattern[n]
  PROVE  pos + 1 + n \in DOMAIN source
<1> DEFINE i == pos + 1
<1>1. i \in Nat /\ Matches(i, pattern)
  BY RunFacts
<1> HIDE DEF i
<1>2. i + n \in DOMAIN source
  BY <1>1, PatternEnd
<1>3. QED
  BY <1>2 DEF i

LEMMA Heads ==
  /\ DOMAIN BlockHead = 1 .. 2 /\ "eof" \notin BlockHead[2]
  /\ DOMAIN FunctionHead = 1 .. 2 /\ "eof" \notin FunctionHead[2]
  /\ DOMAIN TypeHead = 1 .. 4 /\ "eof" \notin TypeHead[4]
  /\ DOMAIN AdditiveHead = 1 .. 5 /\ "eof" \notin AdditiveHead[5]
<1>1. \A a, b : DOMAIN <<a, b>> = 1 .. 2 /\ <<a, b>>[2] = b
  OBVIOUS
<1>2. \A a, b, c, d : DOMAIN <<a, b, c, d>> = 1 .. 4 /\ <<a, b, c, d>>[4] = d
  OBVIOUS
<1>3. DOMAIN AdditiveHead = 1 .. 5 /\ "eof" \notin AdditiveHead[5]
  BY DEF AdditiveHead
<1>4. "eof" \notin {"{"} /\ "eof" \notin {"("}
  BY Zenon
<1>5. DOMAIN BlockHead = 1 .. 2 /\ BlockHead[2] = {"{"}
  BY <1>1, Zenon DEF BlockHead
<1>6. DOMAIN FunctionHead = 1 .. 2 /\ FunctionHead[2] = {"("}
  BY <1>1, Zenon DEF FunctionHead
<1>7. DOMAIN TypeHead = 1 .. 4 /\ TypeHead[4] = {"{"}
  BY <1>2, Zenon DEF TypeHead
<1>8. QED
  BY <1>3, <1>4, <1>5, <1>6, <1>7, Zenon

LEMMA ItemPatterns ==
  ASSUME NEW field
  PROVE  LET pattern == <<{":"}>> \o ItemPattern(field)
         IN  /\ Len(ItemPattern(field)) \in {1, 3}
             /\ DOMAIN ItemPattern(field) = 1 .. Len(ItemPattern(field))
             /\ ItemPattern(field)[Len(ItemPattern(field))] = Names
             /\ DOMAIN pattern = 1 .. (1 + Len(ItemPattern(field)))
             /\ pattern[1 + Len(ItemPattern(field))] = Names
<1>1. \A a, b, c : /\ <<b, c, b>> \in Seq({b, c}) /\ Len(<<b, c, b>>) = 3 /\ <<b, c, b>>[3] = b
                   /\ Len(<<a>> \o <<b, c, b>>) = 4 /\ DOMAIN (<<a>> \o <<b, c, b>>) = 1 .. 4
                   /\ (<<a>> \o <<b, c, b>>)[4] = b
  OBVIOUS
<1>2. \A a, b : /\ Len(<<b>>) = 1 /\ <<b>>[1] = b
                /\ Len(<<a>> \o <<b>>) = 2 /\ DOMAIN (<<a>> \o <<b>>) = 1 .. 2
                /\ (<<a>> \o <<b>>)[2] = b
  OBVIOUS
<1>3. CASE field = "renames"
  BY <1>1, <1>3 DEF ItemPattern
<1>4. CASE field # "renames"
  BY <1>2, <1>4 DEF ItemPattern
<1>5. QED
  BY <1>3, <1>4

LEMMA TypeEnds ==
  ASSUME IInv, NEW i \in Nat, IsType(i)
  PROVE  TypeEnd(i) \in DOMAIN source
<1>1. i + 1 \in Nat /\ i + 2 \in Nat /\ i + 2 + 1 = i + 3
  OBVIOUS
<1>2. CASE At(i + 1) = "."
  BY <1>1, <1>2, Ahead, TokensGoOn DEF IsType, TypeEnd
<1>3. CASE At(i + 1) # "."
  BY <1>1, <1>3, Ahead, TokensGoOn DEF IsType, TypeEnd
<1>4. QED
  BY <1>2, <1>3

LEMMA LoopFacts ==
  ASSUME InLoop
  PROVE  Top.at \notin Sides \cup ExpressionUsers /\ Top.at \notin Arms
BY DEF InLoop, Sides, ExpressionUsers, Arms

LEMMA ItemFacts ==
  ASSUME NEW keywords, Item(keywords)
  PROVE  /\ Next1 \in keywords /\ outcome = "running" /\ InLoop /\ WellBegun
         /\ Next1 \in {"bismillah", "fn", "type", "additive_only", "mizan", "tanzil"}
              => Top.at = "module"
         /\ Next1 \in BismillahFields => Top.at = "bismillah"
         /\ Next1 \in {"export", "bump"} => Top.at = "exports"
         /\ Next1 \in {"removes", "renames"} => Top.at = "bump"
         /\ Next1 \in MizanHeads => Top.at = "mizan"
         /\ Next1 = "depends_on" => Top.at = "tanzil"
<1>1. Next1 \in keywords /\ outcome = "running" /\ InLoop /\ WellBegun /\ Next1 \in Accepted
  BY DEF Item, Running
<1>2. \/ Top.at = "module" /\ Next1 \in {"fn", "type", "additive_only", "mizan", "tanzil", "bismillah"}
      \/ Top.at = "bismillah" /\ Next1 \in BismillahFields
      \/ Top.at = "exports" /\ Next1 \in {"export", "bump"}
      \/ Top.at = "bump" /\ Next1 \in {"removes", "renames"}
      \/ Top.at = "mizan" /\ Next1 \in MizanHeads
      \/ Top.at = "tanzil" /\ Next1 = "depends_on"
  BY <1>1 DEF InLoop, Accepted, ModuleItems, SurfaceItems
<1>3. QED
  BY <1>1, <1>2 DEF BismillahFields, MizanHeads

LEMMA ItemEnds ==
  ASSUME IInv, NEW keywords, Item(keywords)
  PROVE  /\ Next1 \in {"bismillah", "mizan", "tanzil", "fn", "depends_on"} => pos + 3 \in DOMAIN source
         /\ Next1 \in {"bump"} \cup MizanHeads => pos + 2 \in DOMAIN source
         /\ Next1 = "type" => pos + 5 \in DOMAIN source
         /\ Next1 = "additive_only" => pos + 6 \in DOMAIN source
         /\ Next1 = "export" => TypeEnd(pos + 3) \in DOMAIN source
         /\ Next1 \in ListFields => pos + (2 + Len(ItemPattern(Next1))) \in DOMAIN source
<1>1. pos \in Nat /\ WellBegun /\ {2, 4, 5} \subseteq Nat \ {0}
  BY RunFacts, ItemFacts
<1>2. CASE Next1 \in {"bismillah", "mizan", "tanzil"}
  <2>1. Matches(pos + 1, BlockHead)
    BY <1>1, <1>2, ZenonT(30) DEF WellBegun, MizanHeads
  <2>2. pos + 1 + 2 \in DOMAIN source
    BY <1>1, <2>1, HeadEnds, Heads, Zenon
  <2>3. QED
    BY <1>1, <1>2, <2>2 DEF MizanHeads, ListFields, BismillahFields
<1>3. CASE Next1 = "fn"
  <2>1. Matches(pos + 1, FunctionHead)
    BY <1>1, <1>3, ZenonT(30) DEF WellBegun, MizanHeads
  <2>2. pos + 1 + 2 \in DOMAIN source
    BY <1>1, <2>1, HeadEnds, Heads, Zenon
  <2>3. QED
    BY <1>1, <1>3, <2>2 DEF MizanHeads, ListFields, BismillahFields
<1>4. CASE Next1 = "type"
  <2>1. Matches(pos + 1, TypeHead)
    BY <1>1, <1>4, ZenonT(30) DEF WellBegun, MizanHeads
  <2>2. pos + 1 + 4 \in DOMAIN source
    BY <1>1, <2>1, HeadEnds, Heads, Zenon
  <2>3. QED
    BY <1>1, <1>4, <2>2 DEF MizanHeads, ListFields, BismillahFields
<1>5. CASE Next1 = "additive_only"
  <2>1. Matches(pos + 1, AdditiveHead)
    BY <1>1, <1>5, ZenonT(30) DEF WellBegun, MizanHeads
  <2>2. pos + 1 + 5 \in DOMAIN source
    BY <1>1, <2>1, HeadEnds, Heads, Zenon
  <2>3. QED
    BY <1>1, <1>5, <2>2 DEF MizanHeads, ListFields, BismillahFields
<1>6. CASE Next1 \in {"bump"} \cup MizanHeads
  <2>1. After \in {"{", ":"}
    BY <1>1, <1>6 DEF WellBegun, MizanHeads
  <2>2. QED
    BY <1>6, <2>1, Positions DEF MizanHeads, ListFields, BismillahFields
<1>7. CASE Next1 = "export"
  <2>1. IsType(pos + 3)
    BY <1>1, <1>7, ZenonT(30) DEF WellBegun, MizanHeads
  <2>2. QED
    BY <1>1, <1>7, <2>1, TypeEnds DEF MizanHeads, ListFields, BismillahFields
<1>8. CASE Next1 \in ListFields \cup {"depends_on"}
  <2> DEFINE n == Len(ItemPattern(Next1))
             pattern == <<{":"}>> \o ItemPattern(Next1)
  <2>1. Matches(pos + 1, pattern)
    BY <1>1, <1>8, ZenonT(30) DEF WellBegun, ListFields, BismillahFields, MizanHeads
  <2>2. n \in {1, 3} /\ DOMAIN pattern = 1 .. (1 + n) /\ pattern[1 + n] = Names
    BY ItemPatterns
  <2>3. Next1 = "depends_on" => n = 1
    BY DEF ItemPattern
  <2> HIDE DEF n, pattern
  <2>4. pos + 1 + (1 + n) \in DOMAIN source
    BY <1>1, <2>1, <2>2, PatternEnd, TokensGoOn
  <2>5. pos + (2 + n) = pos + 1 + (1 + n) /\ (n = 1 => pos + 3 = pos + (2 + n))
    BY <1>1, <2>2
  <2>6. QED
    BY <1>8, <2>3, <2>4, <2>5 DEF n, ListFields, BismillahFields, MizanHeads
<1>9. QED
  BY <1>2, <1>3, <1>4, <1>5, <1>6, <1>7, <1>8

LEMMA OpenKeeps ==
  ASSUME IInv, NEW keywords, Item(keywords), NEW count, pos + count \in DOMAIN source,
         NEW frame, IsFrame(frame), Lies(Top.at, frame.at), Open(count, frame)
  PROVE  IInv'
<1>1. Top.at \notin Sides \cup ExpressionUsers /\ Top.at \notin Arms /\ outcome = "running"
  BY ItemFacts, LoopFacts
<1>2. Good(frames')
  BY <1>1, PushOn DEF Open, Push
<1>3. QED
  BY <1>1, <1>2, GoesOn DEF Open, Advance

LEMMA GoOnKeeps ==
  ASSUME IInv, outcome = "running", Top.at \notin Sides \cup ExpressionUsers,
         NEW to \in DOMAIN source, NEW stack, GoOn(to, stack), Good(frames')
  PROVE  IInv'
BY GoesOn DEF GoOn

-----------------------------------------------------------------------------
(* The steps of the declarations.                                          *)
LEMMA BismillahKeeps == IInv /\ Bismillah => IInv'
<1> SUFFICES ASSUME IInv, Bismillah PROVE IInv'
  OBVIOUS
<1> USE DEF Push, Running
<1>1. CASE NoMore \/ MissingField
  BY <1>1, Resting DEF NoMore, MissingField, EndOf, Reject
<1>2. ASSUME Top.at \in {"list", "bismillah"}
      PROVE  Top.at # "module" /\ Top.at \notin Sides \cup ExpressionUsers
  BY <1>2 DEF Sides, ExpressionUsers
<1>3. CASE OpenBismillah
  <2> DEFINE f == [at |-> "bismillah", name |-> After, fields |-> << >>]
  <2>1. IsFrame(f) /\ Lies("module", f.at)
    BY Callers DEF IsFrame
  <2>2. Item({"bismillah"}) /\ Open(3, f)
    BY <1>3 DEF OpenBismillah
  <2> HIDE DEF f
  <2>3. QED
    BY <2>1, <2>2, ItemFacts, ItemEnds, OpenKeeps
<1>4. CASE StartList
  <2> DEFINE f == [at |-> "list", of |-> Next1, items |-> <<Entry(Next1, pos + 2)>>]
             count == 2 + Len(ItemPattern(Next1))
  <2>1. Item(ListFields) /\ Open(count, f)
    BY <1>4 DEF StartList, ListFields
  <2>2. Next1 \in ListFields /\ pos + count \in DOMAIN source
    BY <2>1, ItemFacts, ItemEnds
  <2>3. IsFrame(f)
    BY <2>2 DEF IsFrame
  <2>4. Lies(Top.at, f.at)
    BY <2>1, <2>2, ItemFacts, Callers DEF ListFields
  <2> HIDE DEF f, count
  <2>5. QED
    BY <2>1, <2>2, <2>3, <2>4, OpenKeeps
<1>5. CASE MoreOfName
  <2>1. Good(frames')
    BY <1>2, <1>5, ChangeTop DEF MoreOfName, GoOn
  <2>2. pos + 2 \in DOMAIN source
    BY <1>5, Positions, TokensGoOn DEF MoreOfName
  <2>3. QED
    BY <1>2, <1>5, <2>1, <2>2, GoOnKeeps DEF MoreOfName
<1>6. CASE MoreItems
  <2>1. Good(frames')
    BY <1>2, <1>6, ChangeTop DEF MoreItems, GoOn
  <2> DEFINE pattern == ItemPattern(Top.of)
             n == Len(pattern)
  <2>2. n \in {1, 3} /\ DOMAIN pattern = 1 .. n /\ pattern[n] = Names /\ Matches(pos + 1, pattern)
    BY <1>6, ItemPatterns DEF MoreItems
  <2> HIDE DEF pattern, n
  <2>3. pos + 1 + n \in DOMAIN source
    BY <2>2, HeadEnds, TokensGoOn
  <2>4. QED
    BY <1>2, <1>6, <2>1, <2>3, GoOnKeeps DEF MoreItems, pattern, n
<1>7. CASE EndList
  <2>1. Top.at = "list" /\ outcome = "running" /\ Top.of \in ListFields
    BY <1>7, RunFacts DEF EndList, IsFrame
  <2>2. Good(frames')
    <3>1. CASE Top.of \in BismillahFields
      <4>1. \E x : frames' = [Under EXCEPT ![Len(Under)].fields = x]
        BY <1>7, <3>1 DEF EndList, GoOn, WithList
      <4>2. QED
        BY <1>2, <2>1, <4>1, PopAndUpdate
    <3>2. CASE Top.of \notin BismillahFields
      <4>1. \E x : frames' = [Under EXCEPT ![Len(Under)][Top.of] = x]
        BY <1>7, <3>2 DEF EndList, GoOn, WithList
      <4>2. Top.of \notin {"at", "of"}
        BY <2>1 DEF ListFields, BismillahFields
      <4>3. QED
        BY <1>2, <2>1, <4>1, <4>2, PopAndUpdate
    <3>3. QED
      BY <3>1, <3>2
  <2>3. QED
    BY <1>2, <1>7, <2>1, <2>2, Positions, GoOnKeeps DEF EndList
<1>8. CASE EndBismillah
  <2>1. Good(frames')
    BY <1>2, <1>8, UnderFacts, PopAndUpdateAt DEF EndBismillah, EndOf, GoOn
  <2>2. QED
    BY <1>2, <1>8, <2>1, Positions, GoOnKeeps DEF EndBismillah, EndOf
<1>9. QED
  BY <1>1, <1>3, <1>4, <1>5, <1>6, <1>7, <1>8 DEF Bismillah

LEMMA CompoundTypeKeeps == IInv /\ CompoundType => IInv'
<1> SUFFICES ASSUME IInv, CompoundType PROVE IInv'
  OBVIOUS
<1> USE DEF Push, Running
<1>1. CASE NoLayer
  BY <1>1, Resting DEF NoLayer, Reject
<1>2. ASSUME Top.at \in Layers
      PROVE  Top.at # "module" /\ Top.at \notin Sides \cup ExpressionUsers
  BY <1>2 DEF Layers, Sides, ExpressionUsers
<1>3. CASE OpenType
  <2> DEFINE f == [at |-> "zahir", name |-> After, fields |-> << >>]
  <2>1. IsFrame(f) /\ Lies("module", f.at)
    BY Callers DEF IsFrame
  <2>2. Item({"type"}) /\ Open(5, f)
    BY <1>3 DEF OpenType
  <2> HIDE DEF f
  <2>3. QED
    BY <2>1, <2>2, ItemFacts, ItemEnds, OpenKeeps
<1>4. CASE FieldDecl
  <2>1. Good(frames')
    BY <1>4, UpdateTop DEF FieldDecl, GoOn, WithItem
  <2>2. pos + 3 \in DOMAIN source
    <3> DEFINE pattern == <<Names, {":"}, Names>>
    <3>1. DOMAIN pattern = 1 .. 3 /\ pattern[3] = Names /\ Matches(pos, pattern)
      BY <1>4 DEF FieldDecl, IsField
    <3> HIDE DEF pattern
    <3>2. pos \in Nat /\ 3 \in Nat \ {0}
      BY RunFacts
    <3>3. QED
      BY <3>1, <3>2, PatternEnd, TokensGoOn
  <2>3. QED
    BY <1>2, <1>4, <2>1, <2>2, GoOnKeeps DEF FieldDecl
<1>5. CASE OpenBatin
  <2> DEFINE f == [at |-> "batin", name |-> Top.name, zahir |-> Top.fields, fields |-> << >>]
  <2>1. IsFrame(f) /\ \A b : Lies(b, "zahir") => Lies(b, f.at)
    BY Callers DEF IsFrame
  <2>2. frames' = Append(Under, f) /\ Top.at = "zahir"
    BY <1>5 DEF OpenBatin, EndOf, GoOn
  <2> HIDE DEF f
  <2>3. Good(frames')
    BY <2>1, <2>2, ReplaceTop
  <2>4. pos + 3 \in DOMAIN source
    <3>1. DOMAIN <<{"batin"}, {"{"}>> = 1 .. 2 /\ <<{"batin"}, {"{"}>>[2] = {"{"}
      <4>1. \A a, b : DOMAIN <<a, b>> = 1 .. 2 /\ <<a, b>>[2] = b
        OBVIOUS
      <4>2. QED
        BY <4>1, Zenon
    <3>2. 2 \in Nat \ {0} /\ pos + 1 + 2 = pos + 3
      BY RunFacts
    <3>3. "eof" \notin {"{"}
      BY Zenon
    <3>4. pos + 1 + 2 \in DOMAIN source
      BY <1>5, <3>1, <3>2, <3>3, HeadEnds, Zenon DEF OpenBatin
    <3>5. QED
      BY <3>2, <3>4
  <2>5. QED
    BY <1>2, <1>5, <2>2, <2>3, <2>4, GoOnKeeps DEF OpenBatin, EndOf, Layers
<1>6. CASE EndType
  <2>1. Good(frames')
    BY <1>6, PopAndUpdate DEF EndType, EndOf, GoOn, WithItem
  <2>2. QED
    BY <1>2, <1>6, <2>1, Positions, GoOnKeeps DEF EndType, EndOf, Layers
<1>7. QED
  BY <1>1, <1>3, <1>4, <1>5, <1>6 DEF CompoundType

LEMMA AdditiveOnlyKeeps == IInv /\ AdditiveOnly => IInv'
<1> SUFFICES ASSUME IInv, AdditiveOnly PROVE IInv'
  OBVIOUS
<1> USE DEF Push, Running
<1>1. CASE NoVersion
  BY <1>1, Resting DEF NoVersion, Reject
<1>2. ASSUME Top.at \in {"version", "exports", "bump"}
      PROVE  Top.at # "module" /\ Top.at \notin Sides \cup ExpressionUsers
  BY <1>2 DEF Sides, ExpressionUsers
<1>3. CASE OpenAdditive
  <2> DEFINE f == [at |-> "version", name |-> At(pos + 2), parts |-> 2]
  <2>1. IsFrame(f) /\ Lies("module", f.at)
    BY Callers DEF IsFrame
  <2>2. Item({"additive_only"}) /\ Open(6, f)
    BY <1>3 DEF OpenAdditive
  <2> HIDE DEF f
  <2>3. QED
    BY <2>1, <2>2, ItemFacts, ItemEnds, OpenKeeps
<1>4. CASE InVersion
  <2>1. Good(frames')
    BY <1>2, <1>4, ChangeTop DEF InVersion, GoOn
  <2>2. QED
    BY <1>2, <1>4, <2>1, Positions, GoOnKeeps DEF InVersion
<1>5. CASE OpenExports
  <2> DEFINE f == [at |-> "exports", name |-> Top.name, parts |-> Top.parts, exports |-> << >>,
                   bump |-> None]
  <2>1. IsFrame(f) /\ \A b : Lies(b, "version") => Lies(b, f.at)
    BY Callers DEF IsFrame
  <2>2. frames' = Append(Under, f) /\ Top.at = "version" /\ pos + 1 \in DOMAIN source
    BY <1>5, Positions DEF OpenExports, GoOn
  <2> HIDE DEF f
  <2>3. Good(frames')
    BY <2>1, <2>2, ReplaceTop
  <2>4. QED
    BY <1>2, <1>5, <2>2, <2>3, GoOnKeeps DEF OpenExports
<1>6. CASE ExportDecl
  <2>1. Item({"export"})
    BY <1>6 DEF ExportDecl
  <2>2. Top.at = "exports" /\ outcome = "running" /\ TypeEnd(pos + 3) \in DOMAIN source
    BY <2>1, ItemFacts, ItemEnds
  <2>3. Good(frames')
    BY <1>6, UpdateTop DEF ExportDecl, GoOn, WithItem
  <2>4. QED
    BY <1>2, <1>6, <2>2, <2>3, GoOnKeeps DEF ExportDecl
<1>7. CASE OpenBump
  <2> DEFINE f == [at |-> "bump", removes |-> << >>, renames |-> << >>]
  <2>1. IsFrame(f) /\ Lies("exports", f.at)
    BY Callers DEF IsFrame
  <2>2. Item({"bump"}) /\ Open(2, f)
    BY <1>7 DEF OpenBump
  <2> HIDE DEF f
  <2>3. QED
    BY <2>1, <2>2, ItemFacts, ItemEnds, OpenKeeps
<1>8. CASE EndBump
  <2>1. Good(frames')
    BY <1>2, <1>8, PopAndUpdate DEF EndBump, EndOf, GoOn
  <2>2. QED
    BY <1>2, <1>8, <2>1, Positions, GoOnKeeps DEF EndBump, EndOf
<1>9. CASE EndAdditive
  <2>1. Good(frames')
    BY <1>2, <1>9, PopAndUpdate DEF EndAdditive, EndOf, GoOn, WithItem
  <2>2. QED
    BY <1>2, <1>9, <2>1, Positions, GoOnKeeps DEF EndAdditive, EndOf
<1>10. QED
  BY <1>1, <1>3, <1>4, <1>5, <1>6, <1>7, <1>8, <1>9 DEF AdditiveOnly

LEMMA MizanKeeps == IInv /\ Mizan => IInv'
<1> SUFFICES ASSUME IInv, Mizan PROVE IInv'
  OBVIOUS
<1> USE DEF Push, Running
<1>1. CASE OpenMizan
  <2> DEFINE f == [at |-> "mizan", name |-> After, fields |-> << >>]
  <2>1. IsFrame(f) /\ Lies("module", f.at)
    BY Callers DEF IsFrame
  <2>2. Item({"mizan"}) /\ Open(3, f)
    BY <1>1 DEF OpenMizan
  <2> HIDE DEF f
  <2>3. QED
    BY <2>1, <2>2, ItemFacts, ItemEnds, OpenKeeps
<1>2. CASE StartBound
  <2> DEFINE f == [at |-> "bound", name |-> Next1]
             g == [at |-> "left"]
  <2>1. /\ IsFrame(f) /\ IsFrame(g) /\ f.at \notin Arms
        /\ Lies(f.at, g.at) /\ Lies("mizan", f.at)
    BY Callers DEF IsFrame, Arms, ExpressionUsers
  <2>2. Item(MizanHeads) /\ frames' = frames \o <<f, g>>
    BY <1>2 DEF StartBound
  <2>3. Top.at = "mizan" /\ InLoop /\ outcome = "running" /\ pos + 2 \in DOMAIN source
    BY <2>2, ItemFacts, ItemEnds
  <2> HIDE DEF f, g
  <2>4. Good(frames')
    BY <2>1, <2>2, <2>3, LoopFacts, PushTwo
  <2>5. QED
    BY <1>2, <2>3, <2>4, LoopFacts, GoesOn DEF StartBound, Advance
<1>3. CASE EndBound
  <2>1. Good(frames')
    BY <1>3, PopAndUpdate DEF EndBound, WithField
  <2>2. pos' \in DOMAIN source
    BY <1>3, Positions, RunFacts, Ahead DEF EndBound, PastComma, Next1
  <2>3. QED
    BY <1>3, <2>1, <2>2, GoesOn DEF EndBound
<1>4. CASE EndMizan
  <2>1. Good(frames')
    BY <1>4, PopAndUpdate DEF EndMizan, EndOf, GoOn, WithItem
  <2>2. QED
    BY <1>4, <2>1, Positions, GoOnKeeps DEF EndMizan, EndOf, Sides, ExpressionUsers
<1>5. QED
  BY <1>1, <1>2, <1>3, <1>4 DEF Mizan

LEMMA TanzilKeeps == IInv /\ Tanzil => IInv'
<1> SUFFICES ASSUME IInv, Tanzil PROVE IInv'
  OBVIOUS
<1> USE DEF Push, Running
<1>1. CASE OpenTanzil
  <2> DEFINE f == [at |-> "tanzil", name |-> After, dependencies |-> << >>]
  <2>1. IsFrame(f) /\ Lies("module", f.at)
    BY Callers DEF IsFrame
  <2>2. Item({"tanzil"}) /\ Open(3, f)
    BY <1>1 DEF OpenTanzil
  <2> HIDE DEF f
  <2>3. QED
    BY <2>1, <2>2, ItemFacts, ItemEnds, OpenKeeps
<1>2. CASE DependencyEntry
  <2>1. Item({"depends_on"})
    BY <1>2 DEF DependencyEntry
  <2>2. InLoop /\ outcome = "running" /\ pos + 3 \in DOMAIN source
    BY <2>1, ItemFacts, ItemEnds
  <2>3. Good(frames')
    BY <1>2, UpdateTop DEF DependencyEntry, GoOn, WithItem
  <2>4. QED
    BY <1>2, <2>2, <2>3, LoopFacts, GoOnKeeps DEF DependencyEntry
<1>3. CASE EndTanzil
  <2>1. Good(frames')
    BY <1>3, PopAndUpdate DEF EndTanzil, EndOf, GoOn, WithItem
  <2>2. QED
    BY <1>3, <2>1, Positions, GoOnKeeps DEF EndTanzil, EndOf, Sides, ExpressionUsers
<1>4. QED
  BY <1>1, <1>2, <1>3 DEF Tanzil

LEMMA FunctionKeeps == IInv /\ Function => IInv'
<1> SUFFICES ASSUME IInv, Function PROVE IInv'
  OBVIOUS
<1> USE DEF Push, Running
<1>1. CASE NoParam \/ NoSignature
  BY <1>1, Resting DEF NoParam, NoSignature, Reject
<1>2. ASSUME Top.at \in {"params", "signature", "fn"}
      PROVE  Top.at # "module" /\ Top.at \notin Sides \cup ExpressionUsers
  BY <1>2 DEF Sides, ExpressionUsers
<1>3. CASE OpenFunction
  <2> DEFINE f == [at |-> "params", name |-> After, params |-> << >>]
  <2>1. IsFrame(f) /\ Lies("module", f.at)
    BY Callers DEF IsFrame
  <2>2. Item({"fn"}) /\ Open(3, f)
    BY <1>3 DEF OpenFunction
  <2> HIDE DEF f
  <2>3. QED
    BY <2>1, <2>2, ItemFacts, ItemEnds, OpenKeeps
<1>4. CASE Param
  <2>1. Good(frames')
    BY <1>4, UpdateTop DEF Param, GoOn, WithItem
  <2>2. IsType(ParamAt + 2) /\ ParamAt + 2 \in Nat
    BY <1>4, RunFacts DEF Param, IsParam, ParamAt
  <2>3. TypeEnd(ParamAt + 2) \in DOMAIN source
    BY <2>2, TypeEnds
  <2>4. QED
    BY <1>2, <1>4, <2>1, <2>3, GoOnKeeps DEF Param
<1>5. CASE EndParams
  <2> DEFINE f == [at |-> "signature", name |-> Top.name, params |-> Top.params,
                   returns |-> << >>]
  <2>1. IsFrame(f) /\ \A b : Lies(b, "params") => Lies(b, f.at)
    BY Callers DEF IsFrame
  <2>2. frames' = Append(Under, f) /\ Top.at = "params"
    BY <1>5 DEF EndParams, GoOn
  <2> HIDE DEF f
  <2>3. Good(frames')
    BY <2>1, <2>2, ReplaceTop
  <2>4. QED
    BY <1>2, <1>5, <2>3, Positions, GoOnKeeps DEF EndParams
<1>6. CASE ReturnArm
  <2>1. Good(frames')
    BY <1>6, UpdateTop DEF ReturnArm, GoOn, WithItem
  <2>2. TypeEnd(pos + 1) \in DOMAIN source
    BY <1>6, RunFacts, TypeEnds DEF ReturnArm
  <2>3. QED
    BY <1>2, <1>6, <2>1, <2>2, GoOnKeeps DEF ReturnArm
<1>7. CASE OpenBody
  <2> DEFINE f == [at |-> "fn", name |-> Top.name, params |-> Top.params,
                   returns |-> Top.returns, stmts |-> << >>]
  <2>1. IsFrame(f) /\ \A b : Lies(b, "signature") => Lies(b, f.at)
    BY Callers DEF IsFrame
  <2>2. frames' = Append(Under, f) /\ Top.at = "signature" /\ pos + 1 \in DOMAIN source
    BY <1>7, Positions DEF OpenBody
  <2> HIDE DEF f
  <2>3. Good(frames')
    BY <2>1, <2>2, ReplaceTop
  <2>4. QED
    BY <1>2, <1>7, <2>2, <2>3, GoesOn DEF OpenBody, Advance
<1>8. CASE EndBody
  <2>1. Good(frames')
    BY <1>8, PopAndUpdate DEF EndBody, EndOf, GoOn, WithItem
  <2>2. QED
    BY <1>2, <1>8, <2>1, Positions, GoOnKeeps DEF EndBody, EndOf
<1>9. QED
  BY <1>1, <1>3, <1>4, <1>5, <1>6, <1>7, <1>8 DEF Function

-----------------------------------------------------------------------------
LEMMA InitInv == Init => IInv
<1> SUFFICES ASSUME Init PROVE IInv
  OBVIOUS
<1>1. frames = <<EmptyModule>> /\ EmptyModule.at = "module" /\ IsFrame(EmptyModule)
  BY DEF Init, EmptyModule, IsFrame
<1>2. Len(frames) = 1 /\ DOMAIN frames = {1} /\ frames[1] = EmptyModule /\ frames # << >>
      /\ frames \in Seq({frames[i] : i \in DOMAIN frames})
  BY <1>1
<1>3. WellNested(frames)
  BY <1>1, <1>2 DEF WellNested
<1>4. DepthKept(frames)
  <2>1. {i \in DOMAIN frames : frames[i].at \in Arms} = {}
    BY <1>1, <1>2 DEF Arms
  <2>2. Count(frames, Arms) = 0
    BY <2>1, FS_EmptySet DEF Count
  <2>3. QED
    BY <1>1, <1>2, <2>2, LimitsAssumption DEF DepthKept, Arms
<1>5. 1 \in DOMAIN source
  <2>1. source \in Seq({source[i] : i \in DOMAIN source}) /\ source # << >>
    BY SourcesAssumption DEF Init
  <2>2. QED
    BY <2>1
<1>6. QED
  BY <1>3, <1>4, <1>5 DEF Init, IInv, HaveValue

LEMMA NextInv == IInv /\ [Next]_vars => IInv'
<1> SUFFICES ASSUME IInv, [Next]_vars PROVE IInv'
  OBVIOUS
<1>1. CASE NoItem
  BY <1>1, Resting DEF NoItem, Reject
<1>2. CASE EndModule
  BY <1>2, Resting DEF EndModule
<1>3. CASE Overflow
  BY <1>3, Resting DEF Overflow
<1>4. CASE UNCHANGED vars
  <2>1. UNCHANGED <<source, pos, frames, value, outcome>>
    BY <1>4 DEF vars
  <2>2. QED
    BY <2>1 DEF IInv, HaveValue, Top
<1>5. QED
  BY <1>1, <1>2, <1>3, <1>4, StatementKeeps, CallKeeps, PrimaryKeeps, IncompleteKeeps,
     ExpressionKeeps, BlockEndKeeps, BismillahKeeps, CompoundTypeKeeps, AdditiveOnlyKeeps,
     MizanKeeps, TanzilKeeps, FunctionKeeps
     DEF Next

(* The invariant holds of every step of the parser.                        *)
THEOREM Invariance == Spec => []IInv
<1>1. Init => IInv
  BY InitInv
<1>2. IInv /\ [Next]_vars => IInv'
  BY NextInv
<1>3. QED
  BY <1>1, <1>2, PTL DEF Spec

(* The methods in progress nest as the grammar does, the position is among *)
(* the tokens, and no expression is left over, whatever the tokens are.    *)
THEOREM TypeCorrect == Spec => []TypeOK
<1>1. IInv => TypeOK
  <2> SUFFICES ASSUME IInv PROVE TypeOK
    OBVIOUS
  <2>1. /\ Len(frames) \in Nat \ {0} /\ DOMAIN frames = 1 .. Len(frames)
        /\ frames[1].at = "module"
        /\ \A i \in 2 .. Len(frames) : Lies(frames[i - 1].at, frames[i].at)
    BY RunFacts DEF WellNested
  <2>2. ASSUME NEW i \in DOMAIN frames
        PROVE  IF i = 1 THEN frames[i].at = "module"
               ELSE frames[i - 1].at \in MayCall[frames[i].at]
    <3>1. CASE i = 1
      BY <2>1, <3>1
    <3>2. CASE i # 1
      <4>1. i \in 2 .. Len(frames)
        BY <2>1, <3>2
      <4>2. QED
        BY <2>1, <3>2, <4>1 DEF Lies
    <3>3. QED
      BY <3>1, <3>2
  <2>3. ASSUME outcome = "accepted" PROVE Len(frames) = 1 /\ ~HaveValue
    <3>1. Top.at = "module"
      BY <2>3 DEF IInv
    <3>2. ~(Len(frames) \in 2 .. Len(frames))
      <4>1. ~Lies(frames[Len(frames) - 1].at, "module")
        BY Callers
      <4>2. QED
        BY <2>1, <3>1, <4>1 DEF Top
    <3>3. ~HaveValue
      BY <3>1 DEF IInv, Sides, ExpressionUsers
    <3>4. QED
      BY <2>1, <3>2, <3>3
  <2>4. QED
    BY <2>2, <2>3 DEF TypeOK, IInv
<1>2. QED
  BY <1>1, Invariance, PTL

(* Blocks, statements and declarations keep to MaxDepth + 5 calls: what    *)
(* overflows a higher stack is nested expressions, which nothing limits.   *)
THEOREM OverflowNeedsExpressionsHolds == Spec => []OverflowNeedsExpressions
<1>1. IInv => OverflowNeedsExpressions
  <2> SUFFICES ASSUME IInv, outcome = "overflow"
               PROVE  3 * NestedExpressions > StackLimit - (MaxDepth + 5)
    BY DEF OverflowNeedsExpressions
  <2> DEFINE h == Len(frames)
             e == NestedExpressions
             d == Count(frames, Arms)
  <2>1. e = Count(frames, Nests)
    BY DEF NestedExpressions, Count, Nests
  <2>2. h \in Nat /\ e \in Nat /\ d \in Nat /\ MaxDepth \in Nat /\ StackLimit \in Nat
    BY <2>1, RunFacts, StackFacts, LimitsAssumption
  <2>3. h > StackLimit
    BY DEF IInv
  <2>4. h <= Height(Top.at) + 3 * e + d
    BY <2>1, RunFacts, StackIsLow
  <2>5. Height(Top.at) + d <= MaxDepth + 5
    <3>1. CASE Top.at \in Arms
      <4>1. Height(Top.at) = 2
        BY <3>1 DEF Arms, Height
      <4>2. d <= MaxDepth + 1
        BY <3>1 DEF IInv, DepthKept, Top
      <4> HIDE DEF d
      <4>3. QED
        BY <2>2, <4>1, <4>2
    <3>2. CASE Top.at \notin Arms
      <4>1. Height(Top.at) \in 1 .. 5
        BY DEF Height
      <4>2. d <= MaxDepth
        BY <2>2, <3>2 DEF IInv, DepthKept, Top
      <4> HIDE DEF d
      <4>3. QED
        BY <2>2, <4>1, <4>2
    <3>3. QED
      BY <3>1, <3>2
  <2>6. Height(Top.at) \in Nat
    BY DEF Height
  <2> HIDE DEF h, d
  <2>7. 3 * e > StackLimit - (MaxDepth + 5)
    <3> HIDE DEF e
    <3>1. QED
      BY <2>2, <2>3, <2>4, <2>5, <2>6
  <2>8. QED
    BY <2>7
<1>2. QED
  BY <1>1, Invariance, PTL

-----------------------------------------------------------------------------
(* Unfolding the ifs of a list of statements.                              *)
IsList(s) == IsSeq(s) /\ \A i \in 1 .. Len(s) : IsSeq(Opened(s[i]))

Openings(s) == [i \in DOMAIN s |-> Opened(s[i])]

LEMMA OpeningsSeqs ==
  ASSUME NEW s, IsList(s)
  PROVE  AllSeqs(Openings(s)) /\ Len(Openings(s)) = Len(s)
<1> DEFINE o == Openings(s)
<1>1. Len(s) \in Nat /\ DOMAIN s = 1 .. Len(s)
  BY SeqShape DEF IsList
<1>2. DOMAIN o = 1 .. Len(s) /\ o = [i \in DOMAIN o |-> o[i]] /\ \A i \in 1 .. Len(s) : o[i] = Opened(s[i])
  BY <1>1 DEF Openings
<1> HIDE DEF o
<1>3. IsSeq(o) /\ Len(o) = Len(s)
  BY <1>1, <1>2, SeqMade
<1>4. QED
  BY <1>2, <1>3 DEF o, AllSeqs, IsList

LEMMA UnfoldEmpty == Unfold(<< >>) = << >> /\ IsList(<< >>)
<1>1. Openings(<< >>) = << >>
  BY DEF Openings
<1>2. QED
  BY <1>1, FlattenEmpty, EmptyIsSeq DEF Unfold, Openings, IsList

LEMMA UnfoldIsSeq == ASSUME NEW s, IsList(s) PROVE IsSeq(Unfold(s))
BY OpeningsSeqs, FlattenIsSeq DEF Unfold, Openings

LEMMA UnfoldAppend ==
  ASSUME NEW s, NEW x, IsList(s), IsSeq(Opened(x))
  PROVE  IsList(Append(s, x)) /\ Unfold(Append(s, x)) = Unfold(s) \o Opened(x)
<1> DEFINE t == Append(s, x)
           n == Len(s)
<1>1. /\ n \in Nat /\ IsSeq(t) /\ Len(t) = n + 1 /\ t[n + 1] = x
      /\ \A i \in 1 .. n : t[i] = s[i]
      /\ DOMAIN t = 1 .. (n + 1) /\ DOMAIN s = 1 .. n
  <2>1. IsSeq(s)
    BY DEF IsList
  <2>2. Len(s) \in Nat /\ DOMAIN s = 1 .. Len(s)
    BY <2>1, SeqShape
  <2>3. /\ IsSeq(Append(s, x)) /\ Len(Append(s, x)) = Len(s) + 1
        /\ Append(s, x)[Len(s) + 1] = x
        /\ \A i \in 1 .. Len(s) : Append(s, x)[i] = s[i]
        /\ DOMAIN Append(s, x) = 1 .. (Len(s) + 1)
    BY <2>1, AppendSeq
  <2>4. QED
    BY <2>2, <2>3
<1> HIDE DEF t
<1>2. \A i \in 1 .. (n + 1) : i = n + 1 \/ i \in 1 .. n
  BY <1>1
<1>3. IsList(t)
  <2> HIDE DEF n
  <2>1. QED
    BY <1>1, <1>2 DEF IsList, n
<1>4. Openings(t) = Append(Openings(s), Opened(x))
  <2> DEFINE o == Openings(s)
             u == Append(o, Opened(x))
  <2>1. IsSeq(o) /\ Len(o) = n
    BY OpeningsSeqs DEF AllSeqs
  <2>2. IsSeq(u) /\ Len(u) = n + 1 /\ u[n + 1] = Opened(x) /\ \A i \in 1 .. n : u[i] = o[i]
    <3> HIDE DEF o, n
    <3>1. QED
      BY <2>1, AppendSeq
  <2>3. IsSeq(Openings(t)) /\ Len(Openings(t)) = n + 1
    BY <1>1, <1>3, OpeningsSeqs DEF AllSeqs
  <2>4. \A i \in 1 .. n : o[i] = Opened(s[i])
    BY <1>1 DEF Openings
  <2>5. \A i \in 1 .. (n + 1) : Openings(t)[i] = Opened(t[i])
    BY <1>1 DEF Openings
  <2> HIDE DEF o, u, n
  <2>6. \A i \in 1 .. (n + 1) : Openings(t)[i] = u[i]
    <3> SUFFICES ASSUME NEW i \in 1 .. (n + 1) PROVE Openings(t)[i] = u[i]
      OBVIOUS
    <3>1. CASE i = n + 1
      BY <1>1, <2>2, <2>5, <3>1
    <3>2. CASE i \in 1 .. n
      BY <1>1, <2>2, <2>4, <2>5, <3>2
    <3>3. QED
      BY <1>2, <3>1, <3>2
  <2>7. Openings(t) = u
    BY <2>2, <2>3, <2>6, SameSeq
  <2>8. QED
    BY <2>7 DEF o, u
<1>5. FlattenSeq(Append(Openings(s), Opened(x))) = FlattenSeq(Openings(s)) \o Opened(x)
  BY OpeningsSeqs, FlattenAppend
<1>6. Unfold(t) = Unfold(s) \o Opened(x)
  BY <1>4, <1>5 DEF Unfold, Openings
<1>7. QED
  BY <1>3, <1>6 DEF t

LEMMA AppendToConcat ==
  ASSUME NEW a, NEW b, NEW x, IsSeq(a), IsSeq(b)
  PROVE  a \o Append(b, x) = Append(a \o b, x)
<1>1. Append(b, x) = b \o <<x>> /\ IsSeq(<<x>>)
  BY AppendJoins
<1>2. IsSeq(a \o b)
  BY ConcatSeq
<1>3. Append(a \o b, x) = (a \o b) \o <<x>>
  BY <1>2, AppendSeq
<1>4. QED
  BY <1>1, <1>3, ConcatThree

(* The front of a list is a list.                                          *)
LEMMA ListFront ==
  ASSUME NEW b, IsList(b), b # << >>
  PROVE  /\ IsList(Front(b)) /\ Len(Front(b)) = Len(b) - 1
         /\ b = Append(Front(b), b[Len(b)]) /\ IsSeq(Opened(b[Len(b)]))
<1> DEFINE n == Len(b)
<1>1. /\ b = Append(Front(b), b[n]) /\ IsSeq(Front(b)) /\ Len(Front(b)) = n - 1
      /\ \A i \in 1 .. (n - 1) : Front(b)[i] = b[i]
  BY FrontLast DEF IsList
<1>2. n \in Nat \ {0}
  BY SeqShape DEF IsList
<1>3. \A i \in 1 .. n : IsSeq(Opened(b[i]))
  BY DEF IsList
<1> HIDE DEF n
<1>4. n \in 1 .. n /\ \A i \in 1 .. (n - 1) : i \in 1 .. n
  BY <1>2
<1>5. IsList(Front(b))
  BY <1>1, <1>3, <1>4 DEF IsList
<1>6. QED
  BY <1>1, <1>3, <1>4, <1>5 DEF n

LEMMA UnfoldConcat ==
  ASSUME NEW a, NEW b, IsList(a), IsList(b)
  PROVE  IsList(a \o b) /\ Unfold(a \o b) = Unfold(a) \o Unfold(b)
<1> DEFINE Holds(t) == IsList(a \o t) /\ Unfold(a \o t) = Unfold(a) \o Unfold(t)
           Numbers == {n \in Nat : \A t : IsList(t) /\ Len(t) = n => Holds(t)}
<1>1. 0 \in Numbers
  <2>1. \A t : IsList(t) /\ Len(t) = 0 => t = << >>
    BY SeqShape DEF IsList
  <2>2. a \o << >> = a
    BY ConcatSeq DEF IsList
  <2>3. Unfold(a) \o << >> = Unfold(a)
    BY UnfoldIsSeq, ConcatSeq
  <2>4. Holds(<< >>)
    BY <2>2, <2>3, UnfoldEmpty
  <2> HIDE DEF Holds
  <2>5. QED
    BY <2>1, <2>4
<1>2. ASSUME NEW n \in Nat, n \in Numbers PROVE n + 1 \in Numbers
  <2>1. ASSUME NEW t, IsList(t), Len(t) = n + 1 PROVE Holds(t)
    <3> DEFINE u == Front(t)
               x == t[Len(t)]
    <3>1. t # << >>
      BY <2>1, SeqShape DEF IsList
    <3>2. IsList(u) /\ Len(u) = Len(t) - 1 /\ t = Append(u, x) /\ IsSeq(Opened(x))
      BY <2>1, <3>1, ListFront
    <3> HIDE DEF u, x
    <3>3. Len(u) = n
      BY <2>1, <3>2
    <3>4. Holds(u)
      BY <1>2, <3>2, <3>3
    <3>5. a \o t = Append(a \o u, x)
      BY <3>2, AppendToConcat DEF IsList
    <3>6. /\ IsList(a \o t) /\ Unfold(a \o t) = (Unfold(a) \o Unfold(u)) \o Opened(x)
          /\ Unfold(t) = Unfold(u) \o Opened(x)
      BY <3>2, <3>4, <3>5, UnfoldAppend
    <3>7. IsSeq(Unfold(a)) /\ IsSeq(Unfold(u))
      BY <3>2, UnfoldIsSeq
    <3>8. QED
      BY <3>2, <3>6, <3>7, ConcatThree
  <2> HIDE DEF Holds
  <2>2. QED
    BY <2>1
<1> HIDE DEF Numbers
<1>3. Nat \subseteq Numbers
  BY <1>1, <1>2, SetInduction
<1>4. Len(b) \in Nat
  BY SeqShape DEF IsList
<1>5. QED
  BY <1>3, <1>4 DEF Numbers

AllCalls(s) == IsSeq(s) /\ \A i \in 1 .. Len(s) : s[i].op = "call"

(* A list of nothing but calls stays as it is.                             *)
LEMMA UnfoldCalls ==
  ASSUME NEW s, AllCalls(s)
  PROVE  IsList(s) /\ Unfold(s) = s
<1> DEFINE Numbers == {n \in Nat : \A t : AllCalls(t) /\ Len(t) = n => Unfold(t) = t}
<1>1. \A t : AllCalls(t) => IsList(t)
  <2>1. \A x : x.op = "call" => Opened(x) = <<x>>
    BY DEF Opened
  <2>2. \A x : IsSeq(<<x>>)
    BY EmptyIsSeq, AppendJoins
  <2>3. QED
    BY <2>1, <2>2 DEF AllCalls, IsList
<1>2. 0 \in Numbers
  <2>1. \A t : AllCalls(t) /\ Len(t) = 0 => t = << >>
    BY SeqShape DEF AllCalls
  <2>2. QED
    BY <2>1, UnfoldEmpty
<1>3. ASSUME NEW n \in Nat, n \in Numbers PROVE n + 1 \in Numbers
  <2>1. ASSUME NEW t, AllCalls(t), Len(t) = n + 1 PROVE Unfold(t) = t
    <3> DEFINE u == Front(t)
               x == t[Len(t)]
    <3>1. t # << >> /\ IsSeq(t)
      BY <2>1, SeqShape DEF AllCalls
    <3>2. /\ t = Append(u, x) /\ IsSeq(u) /\ Len(u) = Len(t) - 1
          /\ \A i \in 1 .. (Len(t) - 1) : u[i] = t[i]
      BY <3>1, FrontLast
    <3>3. x.op = "call"
      BY <2>1 DEF AllCalls
    <3> HIDE DEF u, x
    <3>4. Len(u) = n /\ Len(t) - 1 = n /\ \A i \in 1 .. n : i \in 1 .. Len(t)
      BY <2>1, <3>2
    <3>5. AllCalls(u)
      BY <2>1, <3>2, <3>4 DEF AllCalls
    <3>6. Unfold(u) = u /\ IsList(u)
      BY <1>1, <1>3, <3>4, <3>5
    <3>7. Opened(x) = <<x>> /\ IsSeq(<<x>>) /\ Append(u, x) = u \o <<x>>
      BY <3>2, <3>3, AppendJoins DEF Opened
    <3>8. QED
      BY <3>2, <3>6, <3>7, UnfoldAppend
  <2>2. QED
    BY <2>1
<1> HIDE DEF Numbers
<1>4. Nat \subseteq Numbers
  BY <1>2, <1>3, SetInduction
<1>5. Len(s) \in Nat
  BY SeqShape DEF AllCalls
<1>6. QED
  BY <1>1, <1>4, <1>5 DEF Numbers

-----------------------------------------------------------------------------
(* Levels: that the recursive function exists, and what it is.             *)
Stepped(s, n, f) == IF n = 0 THEN s ELSE Unfold(f[n - 1])

Staged(s, k, f) == \A n \in 0 .. k : f[n] = Stepped(s, n, f)

LEMMA StagesExist ==
  ASSUME NEW s
  PROVE  \A k \in Nat : \E f : Staged(s, k, f)
<1> DEFINE Numbers == {k \in Nat : \E f : Staged(s, k, f)}
<1>1. 0 \in Numbers
  <2> DEFINE f == [n \in {0} |-> s]
  <2>1. \A n \in 0 .. 0 : n = 0 /\ f[n] = s
    OBVIOUS
  <2> HIDE DEF f
  <2>2. Staged(s, 0, f)
    BY <2>1 DEF Staged, Stepped
  <2>3. QED
    BY <2>2
<1>2. ASSUME NEW k \in Nat, k \in Numbers PROVE k + 1 \in Numbers
  <2>1. PICK f : Staged(s, k, f)
    BY <1>2
  <2> DEFINE g == [n \in 0 .. (k + 1) |-> Stepped(s, n, f)]
  <2>2. \A n \in 0 .. (k + 1) : g[n] = Stepped(s, n, f)
    OBVIOUS
  <2> HIDE DEF g
  <2>3. \A n \in 0 .. k : g[n] = f[n]
    BY <2>1, <2>2 DEF Staged
  <2>4. \A n \in 0 .. (k + 1) : n # 0 => n - 1 \in 0 .. k
    OBVIOUS
  <2>5. \A n \in 0 .. (k + 1) : Stepped(s, n, f) = Stepped(s, n, g)
    BY <2>3, <2>4 DEF Stepped
  <2>6. Staged(s, k + 1, g)
    BY <2>2, <2>5 DEF Staged
  <2>7. QED
    BY <2>6
<1> HIDE DEF Numbers
<1>3. Nat \subseteq Numbers
  BY <1>1, <1>2, SetInduction
<1>4. QED
  BY <1>3 DEF Numbers

LEMMA StagesAgree ==
  ASSUME NEW s, NEW k \in Nat, NEW f, NEW g, Staged(s, k, f), Staged(s, k, g)
  PROVE  f[k] = g[k]
<1> DEFINE Numbers == {n \in Nat : n \in 0 .. k => f[n] = g[n]}
<1>1. 0 \in Numbers
  BY DEF Staged, Stepped
<1>2. ASSUME NEW n \in Nat, n \in Numbers PROVE n + 1 \in Numbers
  <2>1. SUFFICES ASSUME n + 1 \in 0 .. k PROVE f[n + 1] = g[n + 1]
    OBVIOUS
  <2> DEFINE m == n + 1
  <2>2. m # 0 /\ m - 1 = n /\ n \in 0 .. k /\ m \in 0 .. k
    BY <2>1
  <2> HIDE DEF m
  <2>3. f[n] = g[n]
    BY <1>2, <2>2
  <2>4. f[m] = g[m]
    BY <2>2, <2>3 DEF Staged, Stepped
  <2>5. QED
    BY <2>4 DEF m
<1> HIDE DEF Numbers
<1>3. Nat \subseteq Numbers
  BY <1>1, <1>2, SetInduction
<1>4. QED
  BY <1>3 DEF Numbers

LEMMA LevelsAre ==
  ASSUME NEW s
  PROVE  /\ Levels(s)[0] = s
         /\ \A n \in Nat : Levels(s)[n + 1] = Unfold(Levels(s)[n])
<1> DEFINE Stage(k) == CHOOSE f : Staged(s, k, f)
           level == [n \in Nat |-> Stage(n)[n]]
           l == CHOOSE f : f = [n \in Nat |-> IF n = 0 THEN s ELSE Unfold(f[n - 1])]
<1>1. \A k \in Nat : Staged(s, k, Stage(k))
  BY StagesExist
<1> HIDE DEF Stage
<1>2. \A n \in Nat : level[n] = Stepped(s, n, level)
  <2> SUFFICES ASSUME NEW n \in Nat PROVE level[n] = Stepped(s, n, level)
    OBVIOUS
  <2>1. level[n] = Stepped(s, n, Stage(n))
    BY <1>1 DEF Staged
  <2>2. CASE n = 0
    BY <2>1, <2>2 DEF Stepped
  <2>3. CASE n # 0
    <3> DEFINE m == n - 1
    <3>1. m \in Nat /\ m \in 0 .. n /\ \A i \in 0 .. m : i \in 0 .. n
      BY <2>3
    <3> HIDE DEF m
    <3>2. Staged(s, m, Stage(n)) /\ Staged(s, m, Stage(m))
      BY <1>1, <3>1 DEF Staged
    <3>3. Stage(n)[m] = level[m]
      BY <3>1, <3>2, StagesAgree
    <3> HIDE DEF level
    <3>4. QED
      BY <2>1, <2>3, <3>3 DEF Stepped, m
  <2>4. QED
    BY <2>2, <2>3
<1>3. level = [n \in Nat |-> IF n = 0 THEN s ELSE Unfold(level[n - 1])]
  <2>1. level = [n \in Nat |-> level[n]]
    OBVIOUS
  <2> HIDE DEF level
  <2>2. QED
    BY <1>2, <2>1 DEF Stepped
<1> HIDE DEF level
<1>4. l = [n \in Nat |-> IF n = 0 THEN s ELSE Unfold(l[n - 1])]
  BY <1>3
<1>5. Levels(s) = l
  BY DEF Levels
<1> HIDE DEF l
<1>6. ASSUME NEW n \in Nat PROVE l[n + 1] = Unfold(l[n])
  <2> DEFINE m == n + 1
  <2>1. m \in Nat /\ m # 0 /\ m - 1 = n
    OBVIOUS
  <2> HIDE DEF m
  <2>2. l[m] = Unfold(l[n])
    BY <1>4, <2>1
  <2>3. QED
    BY <2>2 DEF m
<1>7. l[0] = s
  BY <1>4
<1>8. QED
  BY <1>5, <1>6, <1>7

-----------------------------------------------------------------------------
(* Nothing but calls is left of s after n steps, and every step is one.    *)
Deep(n, s) == (\A k \in 0 .. n : IsList(Levels(s)[k])) /\ AllCalls(Levels(s)[n])

LEMMA LevelShift ==
  ASSUME NEW s, NEW n \in Nat
  PROVE  Levels(s)[n + 1] = Levels(Unfold(s))[n]
<1> DEFINE Numbers == {k \in Nat : Levels(s)[k + 1] = Levels(Unfold(s))[k]}
<1>1. 0 \in Numbers
  BY LevelsAre
<1>2. ASSUME NEW k \in Nat, k \in Numbers PROVE k + 1 \in Numbers
  <2>1. k + 1 \in Nat
    OBVIOUS
  <2>2. Levels(s)[k + 1 + 1] = Unfold(Levels(s)[k + 1])
    BY <2>1, LevelsAre
  <2>3. Levels(Unfold(s))[k + 1] = Unfold(Levels(Unfold(s))[k])
    BY LevelsAre
  <2>4. QED
    BY <1>2, <2>1, <2>2, <2>3
<1> HIDE DEF Numbers
<1>3. Nat \subseteq Numbers
  BY <1>1, <1>2, SetInduction
<1>4. QED
  BY <1>3 DEF Numbers

LEMMA LevelsConcat ==
  ASSUME NEW n \in Nat, NEW a, NEW b,
         \A k \in 0 .. n : IsList(Levels(a)[k]), \A k \in 0 .. n : IsList(Levels(b)[k])
  PROVE  \A k \in 0 .. n : /\ Levels(a \o b)[k] = Levels(a)[k] \o Levels(b)[k]
                           /\ IsList(Levels(a \o b)[k])
<1> DEFINE H(k) == Levels(a \o b)[k] = Levels(a)[k] \o Levels(b)[k]
           Numbers == {k \in Nat : k \in 0 .. n => H(k)}
<1>1. H(0)
  BY LevelsAre
<1>2. ASSUME NEW k \in Nat, k \in 0 .. n, H(k) PROVE H(k + 1)
  <2>1. Unfold(Levels(a \o b)[k]) = Unfold(Levels(a)[k]) \o Unfold(Levels(b)[k])
    BY <1>2, UnfoldConcat
  <2>2. QED
    BY <2>1, LevelsAre
<1> HIDE DEF H
<1>3. 0 \in Numbers
  BY <1>1
<1>4. ASSUME NEW k \in Nat, k \in Numbers PROVE k + 1 \in Numbers
  <2>1. k + 1 \in 0 .. n => k \in 0 .. n
    OBVIOUS
  <2>2. QED
    BY <1>2, <1>4, <2>1
<1> HIDE DEF Numbers
<1>5. Nat \subseteq Numbers
  BY <1>3, <1>4, SetInduction
<1>6. \A k \in 0 .. n : k \in Nat /\ H(k)
  BY <1>5 DEF Numbers
<1>7. QED
  BY <1>6, UnfoldConcat DEF H

LEMMA AllCallsConcat ==
  ASSUME NEW a, NEW b, AllCalls(a), AllCalls(b)
  PROVE  AllCalls(a \o b)
<1>1. /\ IsSeq(a \o b) /\ Len(a \o b) = Len(a) + Len(b)
      /\ \A i \in 1 .. Len(a \o b) : (a \o b)[i] = IF i <= Len(a) THEN a[i] ELSE b[i - Len(a)]
  BY ConcatSeq DEF AllCalls
<1>2. Len(a) \in Nat /\ Len(b) \in Nat
  BY SeqShape DEF AllCalls
<1> DEFINE c == a \o b
<1> HIDE DEF c
<1>3. ASSUME NEW i \in 1 .. (Len(a) + Len(b)) PROVE c[i].op = "call"
  <2>1. CASE i <= Len(a)
    <3>1. i \in 1 .. Len(a)
      BY <1>2, <2>1
    <3>2. QED
      BY <1>1, <2>1, <3>1 DEF AllCalls, c
  <2>2. CASE ~(i <= Len(a))
    <3>1. i - Len(a) \in 1 .. Len(b)
      BY <1>2, <2>2
    <3>2. QED
      BY <1>1, <2>2, <3>1 DEF AllCalls, c
  <2>3. QED
    BY <2>1, <2>2
<1>4. QED
  BY <1>1, <1>3 DEF AllCalls, c

LEMMA DeepConcat ==
  ASSUME NEW n \in Nat, NEW a, NEW b, Deep(n, a), Deep(n, b)
  PROVE  Deep(n, a \o b) /\ Levels(a \o b)[n] = Levels(a)[n] \o Levels(b)[n]
<1>1. \A k \in 0 .. n : /\ Levels(a \o b)[k] = Levels(a)[k] \o Levels(b)[k]
                        /\ IsList(Levels(a \o b)[k])
  BY LevelsConcat DEF Deep
<1>2. n \in 0 .. n
  OBVIOUS
<1>3. QED
  BY <1>1, <1>2, AllCallsConcat DEF Deep

(* Once there are only calls nothing changes any more.                     *)
LEMMA DeepMore ==
  ASSUME NEW n \in Nat, NEW m \in Nat, n <= m, NEW s, Deep(n, s)
  PROVE  Deep(m, s) /\ Levels(s)[m] = Levels(s)[n]
<1> DEFINE Numbers == {d \in Nat : Deep(n + d, s) /\ Levels(s)[n + d] = Levels(s)[n]}
<1>1. 0 \in Numbers
  <2>1. n + 0 = n
    OBVIOUS
  <2>2. QED
    BY <2>1
<1>2. ASSUME NEW d \in Nat, d \in Numbers PROVE d + 1 \in Numbers
  <2> DEFINE k == n + d
  <2>1. k \in Nat /\ n + (d + 1) = k + 1
    OBVIOUS
  <2>2. Deep(k, s) /\ Levels(s)[k] = Levels(s)[n]
    BY <1>2
  <2> HIDE DEF k
  <2>3. Levels(s)[k + 1] = Levels(s)[k]
    BY <2>1, <2>2, LevelsAre, UnfoldCalls DEF Deep
  <2>4. \A i \in 0 .. (k + 1) : i \in 0 .. k \/ i = k + 1
    BY <2>1
  <2>5. Deep(k + 1, s)
    BY <2>2, <2>3, <2>4, UnfoldCalls DEF Deep
  <2>6. QED
    BY <2>1, <2>2, <2>3, <2>5
<1> HIDE DEF Numbers
<1>3. Nat \subseteq Numbers
  BY <1>1, <1>2, SetInduction
<1>4. m - n \in Nat /\ n + (m - n) = m
  OBVIOUS
<1>5. QED
  BY <1>3, <1>4 DEF Numbers

LEMMA DeepOpened ==
  ASSUME NEW n \in Nat, NEW s, IsList(s), Deep(n, Unfold(s))
  PROVE  Deep(n + 1, s) /\ Levels(s)[n + 1] = Levels(Unfold(s))[n]
<1>1. Levels(s)[n + 1] = Levels(Unfold(s))[n]
  BY LevelShift
<1>2. ASSUME NEW k \in 0 .. (n + 1) PROVE IsList(Levels(s)[k])
  <2>1. CASE k = 0
    BY <2>1, LevelsAre
  <2>2. CASE k # 0
    <3> DEFINE j == k - 1
    <3>1. j \in 0 .. n /\ j \in Nat /\ k = j + 1
      BY <2>2
    <3> HIDE DEF j
    <3>2. QED
      BY <3>1, LevelShift DEF Deep
  <2>3. QED
    BY <2>1, <2>2
<1>3. QED
  BY <1>1, <1>2 DEF Deep

LEMMA DeepCalls ==
  ASSUME NEW n \in Nat, NEW s, AllCalls(s)
  PROVE  Deep(n, s) /\ Levels(s)[n] = s
<1>1. \A k \in 0 .. 0 : k = 0
  OBVIOUS
<1>2. Deep(0, s)
  BY <1>1, LevelsAre, UnfoldCalls DEF Deep
<1>3. QED
  BY <1>2, DeepMore, LevelsAre

LEMMA DeepEmpty ==
  ASSUME NEW n \in Nat
  PROVE  Deep(n, << >>) /\ Levels(<< >>)[n] = << >>
BY DeepCalls, EmptyIsSeq DEF AllCalls

-----------------------------------------------------------------------------
(* The three statements a block may take, and the calls there are in it.   *)
Entries(s) == [i \in DOMAIN s |-> [path |-> s[i].path, start |-> s[i].start]]

Room == 0 .. (MaxDepth + 1)

LEMMA EntriesSeq ==
  ASSUME NEW s, IsSeq(s)
  PROVE  IsSeq(Entries(s)) /\ Len(Entries(s)) = Len(s)
<1> DEFINE e == Entries(s)
<1>1. Len(s) \in Nat /\ DOMAIN s = 1 .. Len(s)
  BY SeqShape
<1>2. DOMAIN e = 1 .. Len(s) /\ e = [i \in DOMAIN e |-> e[i]]
  BY <1>1 DEF Entries
<1> HIDE DEF e
<1>3. QED
  BY <1>1, <1>2, SeqMade DEF e

LEMMA EntriesConcat ==
  ASSUME NEW s, NEW t, IsSeq(s), IsSeq(t)
  PROVE  Entries(s \o t) = Entries(s) \o Entries(t)
<1> DEFINE u == s \o t
           d == Entries(s) \o Entries(t)
           E(x) == [path |-> x.path, start |-> x.start]
<1>1. /\ IsSeq(u) /\ Len(u) = Len(s) + Len(t) /\ Len(s) \in Nat /\ Len(t) \in Nat
      /\ \A i \in 1 .. (Len(s) + Len(t)) : u[i] = IF i <= Len(s) THEN s[i] ELSE t[i - Len(s)]
  BY ConcatSeq, SeqShape
<1>2. /\ IsSeq(d) /\ Len(d) = Len(s) + Len(t)
      /\ \A i \in 1 .. (Len(s) + Len(t)) :
           d[i] = IF i <= Len(s) THEN Entries(s)[i] ELSE Entries(t)[i - Len(s)]
  <2>1. /\ IsSeq(Entries(s)) /\ IsSeq(Entries(t))
        /\ Len(Entries(s)) = Len(s) /\ Len(Entries(t)) = Len(t)
    BY EntriesSeq
  <2>2. QED
    BY <2>1, ConcatSeq
<1>3. /\ \A i \in 1 .. Len(s) : Entries(s)[i] = E(s[i])
      /\ \A i \in 1 .. Len(t) : Entries(t)[i] = E(t[i])
  BY SeqShape DEF Entries
<1>4. IsSeq(Entries(u)) /\ Len(Entries(u)) = Len(u) /\ \A i \in 1 .. Len(u) : Entries(u)[i] = E(u[i])
  <2> HIDE DEF u
  <2>1. DOMAIN u = 1 .. Len(u)
    BY <1>1, SeqShape
  <2>2. QED
    BY <1>1, <2>1, EntriesSeq DEF Entries
<1> HIDE DEF u, d, E
<1>5. ASSUME NEW i \in 1 .. (Len(s) + Len(t)) PROVE Entries(u)[i] = d[i]
  <2>1. CASE i <= Len(s)
    <3>1. i \in 1 .. Len(s)
      BY <1>1, <2>1
    <3>2. QED
      BY <1>1, <1>2, <1>3, <1>4, <2>1, <3>1
  <2>2. CASE ~(i <= Len(s))
    <3>1. i - Len(s) \in 1 .. Len(t)
      BY <1>1, <2>2
    <3>2. QED
      BY <1>1, <1>2, <1>3, <1>4, <2>2, <3>1
  <2>3. QED
    BY <2>1, <2>2
<1>6. Entries(u) = d
  BY <1>1, <1>2, <1>4, <1>5, SameSeq
<1>7. QED
  BY <1>6 DEF u, d

LEMMA DeepCallsIn ==
  ASSUME NEW n \in Room, NEW s, Deep(n, s)
  PROVE  /\ CallsIn(s) = Entries(Levels(s)[n]) /\ IsSeq(CallsIn(s))
         /\ IsSeq(s)
<1>1. n \in Nat /\ MaxDepth + 1 \in Nat /\ n <= MaxDepth + 1 /\ 0 \in 0 .. n
  BY LimitsAssumption DEF Room
<1>2. CallsIn(s) = Entries(Levels(s)[MaxDepth + 1])
  BY DEF CallsIn, Entries
<1>3. Levels(s)[MaxDepth + 1] = Levels(s)[n]
  BY <1>1, DeepMore
<1>4. IsSeq(Levels(s)[n]) /\ IsList(Levels(s)[0])
  BY <1>1 DEF Deep, AllCalls
<1>5. QED
  BY <1>2, <1>3, <1>4, EntriesSeq, LevelsAre DEF IsList

LEMMA CallsInConcat ==
  ASSUME NEW n \in Room, NEW s, NEW t, Deep(n, s), Deep(n, t)
  PROVE  Deep(n, s \o t) /\ CallsIn(s \o t) = CallsIn(s) \o CallsIn(t)
<1>1. n \in Nat
  BY LimitsAssumption DEF Room
<1>2. Deep(n, s \o t) /\ Levels(s \o t)[n] = Levels(s)[n] \o Levels(t)[n]
  BY <1>1, DeepConcat
<1>3. IsSeq(Levels(s)[n]) /\ IsSeq(Levels(t)[n])
  BY DEF Deep, AllCalls
<1>4. /\ CallsIn(s) = Entries(Levels(s)[n]) /\ CallsIn(t) = Entries(Levels(t)[n])
      /\ CallsIn(s \o t) = Entries(Levels(s \o t)[n])
  BY <1>2, DeepCallsIn
<1>5. Entries(Levels(s)[n] \o Levels(t)[n]) = Entries(Levels(s)[n]) \o Entries(Levels(t)[n])
  BY <1>3, EntriesConcat
<1>6. QED
  BY <1>2, <1>4, <1>5

LEMMA NoCalls ==
  ASSUME NEW n \in Room
  PROVE  Deep(n, << >>) /\ CallsIn(<< >>) = << >>
<1>1. n \in Nat
  BY LimitsAssumption DEF Room
<1>2. Entries(<< >>) = << >>
  BY DEF Entries
<1>3. QED
  BY <1>1, <1>2, DeepEmpty, DeepCallsIn

LEMMA CallAdded ==
  ASSUME NEW n \in Room, NEW s, Deep(n, s), NEW p, NEW q
  PROVE  LET c == [op |-> "call", path |-> p, start |-> q]
         IN  /\ Deep(n, Append(s, c))
             /\ CallsIn(Append(s, c)) = Append(CallsIn(s), [path |-> p, start |-> q])
<1> DEFINE c == [op |-> "call", path |-> p, start |-> q]
           e == [path |-> p, start |-> q]
<1>1. n \in Nat
  BY LimitsAssumption DEF Room
<1>2. AllCalls(<<c>>)
  BY EmptyIsSeq, AppendJoins DEF AllCalls
<1>3. Deep(n, <<c>>) /\ Levels(<<c>>)[n] = <<c>>
  BY <1>1, <1>2, DeepCalls
<1>4. CallsIn(<<c>>) = <<e>>
  <2>1. Entries(<<c>>) = <<e>>
    BY DEF Entries
  <2> HIDE DEF c, e
  <2>2. QED
    BY <1>3, <2>1, DeepCallsIn
<1> HIDE DEF c, e
<1>5. Append(s, c) = s \o <<c>> /\ Append(CallsIn(s), e) = CallsIn(s) \o <<e>>
  BY DeepCallsIn, AppendJoins
<1>6. Deep(n, s \o <<c>>) /\ CallsIn(s \o <<c>>) = CallsIn(s) \o CallsIn(<<c>>)
  BY <1>3, CallsInConcat
<1>7. Deep(n, Append(s, c)) /\ CallsIn(Append(s, c)) = Append(CallsIn(s), e)
  BY <1>4, <1>5, <1>6
<1>8. QED
  BY <1>7 DEF c, e

LEMMA ReturnAdded ==
  ASSUME NEW n \in Room, n # 0, NEW s, Deep(n, s), NEW v
  PROVE  LET c == [op |-> "return", value |-> v]
         IN  Deep(n, Append(s, c)) /\ CallsIn(Append(s, c)) = CallsIn(s)
<1> DEFINE c == [op |-> "return", value |-> v]
           m == n - 1
<1>1. m \in Nat /\ m \in Room /\ m + 1 = n
  BY LimitsAssumption DEF Room
<1>2. IsList(<<c>>) /\ Unfold(<<c>>) = << >>
  <2>1. Opened(c) = << >>
    BY DEF Opened
  <2>2. << >> \o << >> = << >> /\ Append(<< >>, c) = <<c>>
    BY EmptyIsSeq, ConcatSeq
  <2> HIDE DEF c
  <2>3. QED
    BY <2>1, <2>2, UnfoldAppend, UnfoldEmpty, EmptyIsSeq
<1> HIDE DEF c, m
<1>3. Deep(m, << >>) /\ Levels(<< >>)[m] = << >>
  BY <1>1, DeepEmpty
<1>4. Deep(n, <<c>>) /\ Levels(<<c>>)[n] = << >>
  BY <1>1, <1>2, <1>3, DeepOpened
<1>5. CallsIn(<<c>>) = << >>
  <2>1. Entries(<< >>) = << >>
    BY DEF Entries
  <2>2. QED
    BY <1>4, <2>1, DeepCallsIn
<1>6. Append(s, c) = s \o <<c>> /\ CallsIn(s) \o << >> = CallsIn(s)
  BY DeepCallsIn, AppendSeq, ConcatSeq, EmptyIsSeq
<1>7. Deep(n, s \o <<c>>) /\ CallsIn(s \o <<c>>) = CallsIn(s) \o CallsIn(<<c>>)
  BY <1>4, CallsInConcat
<1>8. Deep(n, Append(s, c)) /\ CallsIn(Append(s, c)) = CallsIn(s)
  BY <1>5, <1>6, <1>7
<1>9. QED
  BY <1>8 DEF c

IfFits(n, m, s, body, orelse) ==
  /\ n \in Room /\ m \in Room /\ m = n - 1
  /\ Deep(n, s) /\ Deep(m, body) /\ Deep(m, orelse)

LEMMA IfAdded ==
  ASSUME NEW n, NEW m, NEW s, NEW body, NEW orelse, IfFits(n, m, s, body, orelse), NEW v
  PROVE  /\ Deep(n, Append(s, If(v, body, orelse)))
         /\ CallsIn(Append(s, If(v, body, orelse))) = CallsIn(s) \o (CallsIn(body) \o CallsIn(orelse))
<1> DEFINE c == If(v, body, orelse)
<1>0. /\ n \in Room /\ m \in Room /\ m = n - 1
      /\ Deep(n, s) /\ Deep(m, body) /\ Deep(m, orelse)
  BY DEF IfFits
<1>1. m \in Nat /\ m + 1 = n
  BY <1>0, LimitsAssumption DEF Room
<1>2. IsSeq(body) /\ IsSeq(orelse) /\ IsSeq(body \o orelse)
  BY <1>0, DeepCallsIn, ConcatSeq
<1>3. IsList(<<c>>) /\ Unfold(<<c>>) = body \o orelse
  <2>1. Opened(c) = body \o orelse
    BY DEF Opened, If
  <2>2. << >> \o (body \o orelse) = body \o orelse /\ Append(<< >>, c) = <<c>>
    BY <1>0, <1>2, EmptyIsSeq, ConcatSeq
  <2> HIDE DEF c
  <2>3. QED
    BY <1>0, <1>2, <2>1, <2>2, UnfoldAppend, UnfoldEmpty, EmptyIsSeq
<1> HIDE DEF c
<1>4. Deep(m, body \o orelse) /\ CallsIn(body \o orelse) = CallsIn(body) \o CallsIn(orelse)
  BY <1>0, CallsInConcat
<1>5. Deep(n, <<c>>) /\ Levels(<<c>>)[n] = Levels(body \o orelse)[m]
  BY <1>0, <1>1, <1>3, <1>4, DeepOpened
<1>6. CallsIn(<<c>>) = CallsIn(body) \o CallsIn(orelse)
  BY <1>0, <1>4, <1>5, DeepCallsIn
<1>7. Append(s, c) = s \o <<c>>
  BY <1>0, DeepCallsIn, AppendSeq
<1>8. Deep(n, s \o <<c>>) /\ CallsIn(s \o <<c>>) = CallsIn(s) \o CallsIn(<<c>>)
  BY <1>0, <1>5, CallsInConcat
<1>9. /\ Deep(n, Append(s, c))
      /\ CallsIn(Append(s, c)) = CallsIn(s) \o (CallsIn(body) \o CallsIn(orelse))
  BY <1>0, <1>6, <1>7, <1>8
<1>10. QED
  BY <1>0, <1>9 DEF c

-----------------------------------------------------------------------------
(* The calls that are in the trees on the stack, from the bottom up.       *)
Part(f) ==
  IF f.at = "else" THEN CallsIn(f.then) \o CallsIn(f.stmts)
  ELSE IF f.at \in {"fn", "then"} THEN CallsIn(f.stmts) ELSE << >>

Parts(stack) == [i \in DOMAIN stack |-> Part(stack[i])]
Recounted(stack) == FlattenSeq(Parts(stack))

(* An arm takes one step of unfolding from what is below it.               *)
RoomAt(stack, i) == MaxDepth + 1 - Cardinality({j \in 1 .. i : stack[j].at \in Arms})

FrameRight(f, room) ==
  /\ f.at = "module" => "functions" \in DOMAIN f /\ IsSeq(f.functions)
  /\ f.at \in Blocks => "stmts" \in DOMAIN f /\ room \in Room /\ Deep(room, f.stmts)
  /\ f.at = "else" => "then" \in DOMAIN f /\ Deep(room, f.then)

TreesRight(stack) == \A i \in DOMAIN stack : FrameRight(stack[i], RoomAt(stack, i))

InFn(stack) == \E i \in DOMAIN stack : stack[i].at = "fn"

Stack(s) == IsSeq(s) /\ s # << >>
Plain(f) == f.at \notin Blocks \cup {"module"}

LEMMA StackShape ==
  ASSUME NEW s, Stack(s)
  PROVE  Len(s) \in Nat \ {0} /\ DOMAIN s = 1 .. Len(s) /\ 1 \in DOMAIN s /\ Len(s) \in DOMAIN s
<1>1. Len(s) \in Nat /\ Len(s) # 0 /\ DOMAIN s = 1 .. Len(s)
  BY SeqShape DEF Stack
<1>2. QED
  BY <1>1

LEMMA PartIsSeq ==
  ASSUME NEW f, NEW room, FrameRight(f, room)
  PROVE  IsSeq(Part(f))
<1>1. CASE f.at = "else"
  BY <1>1, DeepCallsIn, ConcatSeq DEF FrameRight, Part, Blocks
<1>2. CASE f.at \in {"fn", "then"}
  BY <1>2, DeepCallsIn DEF FrameRight, Part, Blocks
<1>3. CASE f.at \notin Blocks
  BY <1>3, EmptyIsSeq DEF Part, Blocks
<1>4. QED
  BY <1>1, <1>2, <1>3 DEF Blocks

LEMMA PartsSeqs ==
  ASSUME NEW s, IsSeq(s), TreesRight(s)
  PROVE  AllSeqs(Parts(s)) /\ Len(Parts(s)) = Len(s) /\ IsSeq(Recounted(s))
<1> DEFINE p == Parts(s)
<1>1. Len(s) \in Nat /\ DOMAIN s = 1 .. Len(s)
  BY SeqShape
<1>2. DOMAIN p = 1 .. Len(s) /\ p = [i \in DOMAIN p |-> p[i]] /\ \A i \in 1 .. Len(s) : p[i] = Part(s[i])
  BY <1>1 DEF Parts
<1> HIDE DEF p
<1>3. IsSeq(p) /\ Len(p) = Len(s)
  BY <1>1, <1>2, SeqMade
<1>4. \A i \in 1 .. Len(s) : IsSeq(Part(s[i]))
  BY <1>1, PartIsSeq DEF TreesRight
<1>5. AllSeqs(p)
  BY <1>2, <1>3, <1>4 DEF AllSeqs
<1>6. QED
  BY <1>3, <1>5, FlattenIsSeq DEF p, Recounted

(* One more frame on a stack.                                              *)
LEMMA FrameOn ==
  ASSUME NEW s, NEW f, IsSeq(s), TreesRight(s),
         FrameRight(f, RoomAt(Append(s, f), Len(s) + 1))
  PROVE  /\ Stack(Append(s, f)) /\ TreesRight(Append(s, f))
         /\ Recounted(Append(s, f)) = Recounted(s) \o Part(f)
         /\ InFn(Append(s, f)) <=> InFn(s) \/ f.at = "fn"
<1> DEFINE t == Append(s, f)
           n == Len(s)
<1>1. /\ n \in Nat /\ DOMAIN s = 1 .. n /\ IsSeq(t) /\ Len(t) = n + 1 /\ DOMAIN t = 1 .. (n + 1)
      /\ t[n + 1] = f /\ \A i \in 1 .. n : t[i] = s[i]
  <2>1. Len(s) \in Nat /\ DOMAIN s = 1 .. Len(s)
    BY SeqShape
  <2>2. /\ IsSeq(Append(s, f)) /\ Len(Append(s, f)) = Len(s) + 1
        /\ DOMAIN Append(s, f) = 1 .. (Len(s) + 1) /\ Append(s, f)[Len(s) + 1] = f
        /\ \A i \in 1 .. Len(s) : Append(s, f)[i] = s[i]
    BY AppendSeq
  <2>3. QED
    BY <2>1, <2>2
<1>2. FrameRight(f, RoomAt(t, n + 1))
  OBVIOUS
<1> HIDE DEF t
<1>3. \A i \in 1 .. (n + 1) : i = n + 1 \/ i \in 1 .. n
  BY <1>1
<1>4. Stack(t)
  BY <1>1, SeqShape DEF Stack
<1>5. ASSUME NEW i \in 1 .. n PROVE RoomAt(t, i) = RoomAt(s, i)
  <2>1. \A j \in 1 .. i : t[j] = s[j]
    BY <1>1
  <2>2. {j \in 1 .. i : t[j].at \in Arms} = {j \in 1 .. i : s[j].at \in Arms}
    BY <2>1
  <2>3. QED
    BY <2>2 DEF RoomAt
<1>6. TreesRight(t)
  <2> HIDE DEF n
  <2>1. QED
    BY <1>1, <1>2, <1>3, <1>5 DEF TreesRight
<1>7. InFn(t) <=> InFn(s) \/ f.at = "fn"
  <2>1. n + 1 \in 1 .. (n + 1) /\ \A i \in 1 .. n : i \in 1 .. (n + 1)
    BY <1>1
  <2> HIDE DEF n
  <2>2. QED
    BY <1>1, <1>3, <2>1 DEF InFn
<1>8. Parts(t) = Append(Parts(s), Part(f))
  <2> DEFINE u == Append(Parts(s), Part(f))
  <2>1. IsSeq(Parts(s)) /\ Len(Parts(s)) = n
    BY PartsSeqs DEF AllSeqs
  <2>2. IsSeq(u) /\ Len(u) = n + 1 /\ u[n + 1] = Part(f) /\ \A i \in 1 .. n : u[i] = Parts(s)[i]
    <3> HIDE DEF n
    <3>1. QED
      BY <2>1, AppendSeq
  <2>3. IsSeq(Parts(t)) /\ Len(Parts(t)) = n + 1
    BY <1>1, <1>6, PartsSeqs DEF AllSeqs
  <2>4. \A i \in 1 .. n : Parts(s)[i] = Part(s[i])
    BY <1>1 DEF Parts
  <2>5. \A i \in 1 .. (n + 1) : Parts(t)[i] = Part(t[i])
    BY <1>1 DEF Parts
  <2> HIDE DEF u, n
  <2>6. \A i \in 1 .. (n + 1) : Parts(t)[i] = u[i]
    <3> SUFFICES ASSUME NEW i \in 1 .. (n + 1) PROVE Parts(t)[i] = u[i]
      OBVIOUS
    <3>1. CASE i = n + 1
      BY <1>1, <2>2, <2>5, <3>1
    <3>2. CASE i \in 1 .. n
      BY <1>1, <2>2, <2>4, <2>5, <3>2
    <3>3. QED
      BY <1>3, <3>1, <3>2
  <2>7. Parts(t) = u
    BY <2>2, <2>3, <2>6, SameSeq
  <2>8. QED
    BY <2>7 DEF u
<1>9. Recounted(t) = Recounted(s) \o Part(f)
  <2>1. AllSeqs(Parts(s)) /\ IsSeq(Part(f))
    BY <1>2, PartsSeqs, PartIsSeq
  <2>2. QED
    BY <1>8, <2>1, FlattenAppend DEF Recounted
<1>10. QED
  BY <1>4, <1>6, <1>7, <1>9 DEF t

(* One frame less.                                                         *)
LEMMA FrameOff ==
  ASSUME NEW s, Stack(s), Len(s) # 1, TreesRight(s)
  PROVE  /\ Stack(Front(s)) /\ TreesRight(Front(s))
         /\ s = Append(Front(s), s[Len(s)]) /\ Front(s)[1] = s[1]
         /\ FrameRight(s[Len(s)], RoomAt(s, Len(s)))
         /\ Recounted(s) = Recounted(Front(s)) \o Part(s[Len(s)])
         /\ InFn(s) <=> InFn(Front(s)) \/ s[Len(s)].at = "fn"
<1> DEFINE t == Front(s)
           n == Len(s)
           f == s[n]
<1>1. n \in Nat \ {0} /\ n # 1 /\ DOMAIN s = 1 .. n
  BY StackShape
<1>2. s = Append(t, f) /\ IsSeq(t) /\ Len(t) = n - 1 /\ \A i \in 1 .. (n - 1) : t[i] = s[i]
  BY FrontLast DEF Stack
<1>3. FrameRight(f, RoomAt(s, n))
  BY <1>1 DEF TreesRight
<1> HIDE DEF t, f, n
<1>4. Len(t) + 1 = n /\ DOMAIN t = 1 .. (n - 1) /\ t # << >> /\ 1 \in 1 .. (n - 1)
      /\ \A i \in 1 .. (n - 1) : i \in 1 .. n
  BY <1>1, <1>2, SeqShape
<1>5. ASSUME NEW i \in 1 .. (n - 1) PROVE RoomAt(t, i) = RoomAt(s, i)
  <2>1. \A j \in 1 .. i : t[j] = s[j]
    BY <1>1, <1>2
  <2>2. {j \in 1 .. i : t[j].at \in Arms} = {j \in 1 .. i : s[j].at \in Arms}
    BY <2>1
  <2>3. QED
    BY <2>2 DEF RoomAt
<1>6. TreesRight(t)
  BY <1>1, <1>2, <1>4, <1>5 DEF TreesRight
<1>7. FrameRight(f, RoomAt(Append(t, f), Len(t) + 1))
  BY <1>2, <1>3, <1>4
<1>8. /\ Recounted(Append(t, f)) = Recounted(t) \o Part(f)
      /\ InFn(Append(t, f)) <=> InFn(t) \/ f.at = "fn"
  BY <1>2, <1>6, <1>7, FrameOn
<1>9. /\ Recounted(s) = Recounted(t) \o Part(f)
      /\ InFn(s) <=> InFn(t) \/ f.at = "fn"
  BY <1>2, <1>8
<1>10. Stack(t) /\ t[1] = s[1]
  BY <1>2, <1>4 DEF Stack
<1>11. QED
  BY <1>2, <1>3, <1>6, <1>9, <1>10 DEF t, f, n

-----------------------------------------------------------------------------
(* A change of the stack that leaves the trees, and what is recorded in    *)
(* the module of functions, as they are.                                   *)
Kept(s, t) ==
  /\ Stack(t) /\ t[1].at = s[1].at
  /\ TreesRight(s) =>
       /\ TreesRight(t) /\ Recounted(t) = Recounted(s)
       /\ InFn(t) <=> InFn(s)
       /\ s[1].at = "module" => t[1].functions = s[1].functions

LEMMA KeptTwice ==
  ASSUME NEW s, NEW t, NEW u, Kept(s, t), Kept(t, u)
  PROVE  Kept(s, u)
BY DEF Kept

LEMMA KeptPush ==
  ASSUME NEW s, Stack(s), NEW f, Plain(f)
  PROVE  Kept(s, Append(s, f))
<1>1. \A room : FrameRight(f, room)
  BY DEF FrameRight, Plain, Blocks
<1>2. Part(f) = << >> /\ f.at # "fn"
  BY DEF Part, Plain, Blocks
<1>3. Stack(Append(s, f)) /\ Append(s, f)[1] = s[1]
  <2>1. 1 \in 1 .. Len(s) /\ IsSeq(s)
    BY StackShape DEF Stack
  <2>2. IsSeq(Append(s, f)) /\ Len(Append(s, f)) = Len(s) + 1 /\ Append(s, f)[1] = s[1]
    <3>1. IsSeq(Append(s, f)) /\ Len(Append(s, f)) = Len(s) + 1
          /\ \A i \in 1 .. Len(s) : Append(s, f)[i] = s[i]
      BY <2>1, AppendSeq
    <3>2. QED
      BY <2>1, <3>1
  <2>3. Len(Append(s, f)) # 0
    BY <2>2, StackShape
  <2>4. QED
    BY <2>2, <2>3, SeqShape DEF Stack
<1>4. ASSUME TreesRight(s)
      PROVE  /\ TreesRight(Append(s, f)) /\ Recounted(Append(s, f)) = Recounted(s)
             /\ InFn(Append(s, f)) <=> InFn(s)
  <2>1. IsSeq(Recounted(s)) /\ IsSeq(s)
    BY <1>4, PartsSeqs DEF Stack
  <2>2. Recounted(s) \o << >> = Recounted(s)
    BY <2>1, ConcatSeq
  <2>3. QED
    BY <1>1, <1>2, <1>4, <2>1, <2>2, FrameOn
<1>5. QED
  BY <1>3, <1>4 DEF Kept

LEMMA KeptPop ==
  ASSUME NEW s, Stack(s), Len(s) # 1, Plain(s[Len(s)])
  PROVE  Kept(s, Front(s))
<1> DEFINE f == s[Len(s)]
           t == Front(s)
<1>1. Part(f) = << >> /\ f.at # "fn"
  BY DEF Part, Plain, Blocks
<1>2. Stack(t) /\ t[1] = s[1]
  <2>1. IsSeq(t) /\ Len(t) = Len(s) - 1 /\ \A i \in 1 .. (Len(s) - 1) : t[i] = s[i]
    BY FrontLast DEF Stack
  <2>2. Len(s) - 1 # 0 /\ 1 \in 1 .. (Len(s) - 1)
    BY StackShape
  <2> HIDE DEF t
  <2>3. QED
    BY <2>1, <2>2, SeqShape DEF Stack
<1>3. ASSUME TreesRight(s)
      PROVE  TreesRight(t) /\ Recounted(t) = Recounted(s) /\ (InFn(t) <=> InFn(s))
  <2>1. /\ TreesRight(t) /\ Recounted(s) = Recounted(t) \o Part(f)
        /\ InFn(s) <=> InFn(t) \/ f.at = "fn"
    BY <1>3, FrameOff
  <2> HIDE DEF f, t
  <2>2. IsSeq(Recounted(t))
    BY <1>2, <2>1, PartsSeqs DEF Stack
  <2>3. Recounted(t) \o << >> = Recounted(t)
    BY <2>2, ConcatSeq
  <2>4. QED
    BY <1>1, <2>1, <2>3
<1>4. QED
  BY <1>2, <1>3 DEF Kept

Trees == {"at", "of", "functions", "stmts", "then"}

LEMMA KeptUpdate ==
  ASSUME NEW s, Stack(s), \A i \in DOMAIN s : "at" \in DOMAIN s[i],
         NEW j \in DOMAIN s, NEW field, field \notin Trees, NEW x, s[j].at # "else"
  PROVE  Kept(s, [s EXCEPT ![j][field] = x])
<1> DEFINE g == [s[j] EXCEPT ![field] = x]
           t == [s EXCEPT ![j] = g]
           n == Len(s)
<1>1. n \in Nat \ {0} /\ DOMAIN s = 1 .. n
  BY StackShape
<1>2. /\ DOMAIN g = DOMAIN s[j] /\ g.at = s[j].at
      /\ \A y \in {"functions", "stmts"} : y \in DOMAIN s[j] => g[y] = s[j][y]
  BY DEF Trees
<1> HIDE DEF g
<1>3. DOMAIN t = 1 .. n /\ t = [i \in DOMAIN t |-> t[i]] /\ \A i \in 1 .. n : t[i] = IF i = j THEN g ELSE s[i]
  BY <1>1
<1> HIDE DEF t
<1>4. IsSeq(t) /\ Len(t) = n /\ Stack(t)
  <2>1. IsSeq(t) /\ Len(t) = n
    BY <1>1, <1>3, SeqMade
  <2>2. QED
    BY <1>1, <2>1, SeqShape DEF Stack
<1>5. \A i \in 1 .. n : t[i].at = s[i].at
  BY <1>2, <1>3
<1>6. \A i \in 1 .. n : RoomAt(t, i) = RoomAt(s, i)
  <2> SUFFICES ASSUME NEW i \in 1 .. n PROVE RoomAt(t, i) = RoomAt(s, i)
    OBVIOUS
  <2>1. \A k \in 1 .. i : k \in 1 .. n
    BY <1>1
  <2>2. {k \in 1 .. i : t[k].at \in Arms} = {k \in 1 .. i : s[k].at \in Arms}
    BY <1>5, <2>1
  <2>3. QED
    BY <2>2 DEF RoomAt
<1>7. \A room : FrameRight(s[j], room) => FrameRight(g, room) /\ Part(g) = Part(s[j])
  BY <1>2 DEF FrameRight, Part, Blocks
<1>8. InFn(t) <=> InFn(s)
  BY <1>1, <1>3, <1>5 DEF InFn
<1>9. ASSUME TreesRight(s) PROVE TreesRight(t) /\ Recounted(t) = Recounted(s)
  <2>1. TreesRight(t)
    BY <1>1, <1>3, <1>6, <1>7, <1>9 DEF TreesRight
  <2>2. \A i \in 1 .. n : Part(t[i]) = Part(s[i])
    BY <1>1, <1>3, <1>7, <1>9 DEF TreesRight
  <2>3. Parts(t) = Parts(s)
    BY <1>1, <1>3, <2>2 DEF Parts
  <2>4. QED
    BY <2>1, <2>3 DEF Recounted
<1>10. ASSUME TreesRight(s), s[1].at = "module" PROVE t[1].functions = s[1].functions
  <2>1. "functions" \in DOMAIN s[1] /\ 1 \in 1 .. n
    BY <1>1, <1>10 DEF TreesRight, FrameRight
  <2>2. QED
    BY <1>2, <1>3, <2>1
<1>11. t = [s EXCEPT ![j][field] = x]
  BY DEF t, g
<1>12. QED
  BY <1>1, <1>4, <1>5, <1>8, <1>9, <1>10, <1>11 DEF Kept

-----------------------------------------------------------------------------
(* The records of the function under construction.                         *)
Calling == {"path", "args"}

(* The parenthesis at o is open, n deep, before token p.                   *)
Scanned(o, p, n) ==
  /\ o \in Nat \ {0} /\ p \in Nat /\ o < p /\ At(o) = "(" /\ n \in Nat \ {0}
  /\ HowMany("(", o, p - 1) = HowMany(")", o, p - 1) + n
  /\ \A k \in o .. p - 1 : ~Balanced(o, k) /\ At(k) \notin Braces

(* A list of accesses that says all of some places, in order.              *)
Tells(a, places) ==
  IsSeq(a) /\ {a[i] : i \in DOMAIN a} = {AccessAt(i) : i \in places} /\ Ascending(a)

ReadsTo(o, p) == {i \in o .. p - 1 : IsRead(i)}

(* The call statement on top of the stack, before token p.                 *)
CallRight(f, p) ==
  /\ f.at \in Calling =>
       /\ {"path", "start"} \subseteq DOMAIN f
       /\ IsSeq(f.path) /\ f.path # << >> /\ f.start \in Nat
  /\ f.at = "path" => OpenOf(f) = p
  /\ f.at = "args" =>
       /\ {"parens", "found"} \subseteq DOMAIN f
       /\ Scanned(OpenOf(f), p, f.parens)
       /\ Tells(f.found, ReadsTo(OpenOf(f), p))

(* Both lists say what is in the text of the function before token h.      *)
LedgerRight(stack, c, a, h) ==
  /\ c = Recounted(stack)
  /\ Ascending(c) /\ \A i \in DOMAIN c : c[i].start \in Nat /\ c[i].start < h
  /\ Tells(a, Reads(c)) /\ \A i \in DOMAIN a : a[i].start < h

(* Where the statement begins that is being read.                          *)
Horizon(f, p) == IF f.at \in Calling THEN f.start ELSE p

(* A function that has been read.                                          *)
Entered(fn) == Recorded(fn) /\ IsSeq(fn.accesses)

RecordsRight(stack, p, c, a) ==
  /\ \A k \in DOMAIN stack[1].functions : Entered(stack[1].functions[k])
  /\ TreesRight(stack)
  /\ CallRight(stack[Len(stack)], p)
  /\ InFn(stack) => LedgerRight(stack, c, a, Horizon(stack[Len(stack)], p))

RecordInv == RecordsRight(frames, pos, calls, accesses)

(* All this speaks of the tokens, which stay.                              *)
LEMMA TokensStay ==
  ASSUME source' = source
  PROVE  \A stack, p, c, a : (RecordsRight(stack, p, c, a))' <=> RecordsRight(stack, p, c, a)
<1>1. \A i : (At(i))' = At(i)
  BY DEF At
<1>2. \A t, i, j : (HowMany(t, i, j))' = HowMany(t, i, j)
  BY <1>1 DEF HowMany
<1>3. \A i, j : (Balanced(i, j))' <=> Balanced(i, j)
  BY <1>2 DEF Balanced
<1>4. \A i : (Arguments(i))' = Arguments(i)
  BY <1>1, <1>3 DEF Arguments
<1>5. \A i : ((IsRead(i))' <=> IsRead(i)) /\ (AccessAt(i))' = AccessAt(i)
  BY <1>1 DEF IsRead, AccessAt, Matches
<1>6. \A c : (ReadsOf(c))' = ReadsOf(c)
  BY <1>4, <1>5 DEF ReadsOf
<1>7. \A list : (Reads(list))' = Reads(list)
  BY <1>6 DEF Reads
<1>8. \A f : (Entered(f))' <=> Entered(f)
  BY <1>5, <1>7 DEF Recorded, Entered
<1>9. \A o, p, n : (Scanned(o, p, n))' <=> Scanned(o, p, n)
  BY <1>1, <1>2, <1>3 DEF Scanned
<1>10. \A a, places : (Tells(a, places))' <=> Tells(a, places)
  BY <1>5 DEF Tells
<1>11. \A o, p : (ReadsTo(o, p))' = ReadsTo(o, p)
  BY <1>5 DEF ReadsTo
<1>12. \A f, p : (CallRight(f, p))' <=> CallRight(f, p)
  BY <1>9, <1>10, <1>11 DEF CallRight
<1>13. \A s, c, a, h : (LedgerRight(s, c, a, h))' <=> LedgerRight(s, c, a, h)
  BY <1>7, <1>10 DEF LedgerRight
<1>14. QED
  BY <1>8, <1>12, <1>13 DEF RecordsRight

LEMMA RecordsStep ==
  ASSUME source' = source, RecordsRight(frames', pos', calls', accesses')
  PROVE  RecordInv'
BY TokensStay DEF RecordInv

-----------------------------------------------------------------------------
(* Steps that leave the trees and the records alone.                       *)
LEMMA StartsNat ==
  ASSUME DOMAIN source \subseteq Nat, NEW c, NEW a, Tells(a, Reads(c))
  PROVE  \A i \in DOMAIN a : a[i].start \in Nat
<1> SUFFICES ASSUME NEW i \in DOMAIN a PROVE a[i].start \in Nat
  OBVIOUS
<1>1. a[i] \in {AccessAt(j) : j \in Reads(c)}
  BY DEF Tells
<1>2. PICK j \in Reads(c) : a[i] = AccessAt(j)
  BY <1>1
<1>3. j \in Nat
  BY DEF Reads, ReadsOf
<1>4. QED
  BY <1>2, <1>3 DEF AccessAt

LEMMA QuietChange ==
  ASSUME DOMAIN source \subseteq Nat, NEW s, NEW t, NEW p \in Nat, NEW q \in Nat, p <= q, NEW c, NEW a,
         RecordsRight(s, p, c, a), s[1].at = "module", Kept(s, t),
         s[Len(s)].at \notin Calling, t[Len(t)].at \notin Calling
  PROVE  RecordsRight(t, q, c, a)
<1>1. TreesRight(s) /\ (InFn(s) => LedgerRight(s, c, a, p))
  BY DEF RecordsRight, Horizon
<1>2. /\ TreesRight(t) /\ Recounted(t) = Recounted(s) /\ (InFn(t) <=> InFn(s))
      /\ t[1].functions = s[1].functions
  BY <1>1 DEF Kept
<1>3. CallRight(t[Len(t)], q) /\ Horizon(t[Len(t)], q) = q
  BY DEF CallRight, Calling, Horizon
<1>4. Tells(a, Reads(c)) => \A i \in DOMAIN a : a[i].start \in Nat
  BY StartsNat
<1>5. LedgerRight(s, c, a, p) => LedgerRight(t, c, a, q)
  <2> SUFFICES ASSUME LedgerRight(s, c, a, p) PROVE LedgerRight(t, c, a, q)
    OBVIOUS
  <2>1. \A x \in Nat : x < p => x < q
    OBVIOUS
  <2>2. QED
    BY <1>2, <1>4, <2>1 DEF LedgerRight
<1>6. QED
  BY <1>1, <1>2, <1>3, <1>5 DEF RecordsRight

Quiet == UNCHANGED <<source, calls, accesses>> /\ pos' >= pos /\ Top.at \notin Calling

Before == IInv /\ RecordInv

LEMMA BeforeFacts ==
  ASSUME Before
  PROVE  /\ Stack(frames) /\ frames[1].at = "module" /\ Top = frames[Len(frames)]
         /\ Under = Front(frames) /\ "at" \in DOMAIN Top
         /\ DOMAIN source \subseteq Nat /\ pos \in Nat
         /\ RecordsRight(frames, pos, calls, accesses)
         /\ \A i \in DOMAIN frames : "at" \in DOMAIN frames[i]
         /\ (Top.at # "module") => Len(frames) # 1
<1>1. WellNested(frames) /\ pos \in Nat
  BY RunFacts DEF Before
<1>2. DOMAIN source \subseteq Nat
  <2>1. source \in Seq({source[i] : i \in DOMAIN source})
    BY SourcesAssumption DEF Before, IInv
  <2>2. QED
    BY <2>1
<1>3. Under = Front(frames)
  BY DEF Under, Front
<1>4. Stack(frames) /\ \A i \in DOMAIN frames : "at" \in DOMAIN frames[i]
  BY <1>1 DEF WellNested, IsFrame, Stack, IsSeq
<1>5. Len(frames) \in DOMAIN frames
  BY <1>4, StackShape
<1>6. QED
  BY <1>1, <1>2, <1>3, <1>4, <1>5 DEF WellNested, Top, Before, RecordInv

LEMMA QuietStep ==
  ASSUME Before, Quiet, pos' \in Nat, Kept(frames, frames'), Top'.at \notin Calling
  PROVE  RecordInv'
<1>1. Top' = frames'[Len(frames')]
  BY DEF Top
<1>2. RecordsRight(frames', pos', calls, accesses)
  BY <1>1, BeforeFacts, QuietChange DEF Quiet
<1>3. QED
  BY <1>2, RecordsStep DEF Quiet

(* One lemma for each way to change the stack.                             *)
Silent(f) == Plain(f) /\ f.at \notin Calling

LEMMA QuietPush ==
  ASSUME Before, Quiet, pos' \in Nat, NEW f, Silent(f), frames' = Append(frames, f)
  PROVE  RecordInv'
<1>1. Kept(frames, frames')
  BY BeforeFacts, KeptPush DEF Silent
<1>2. Top' = f
  BY BeforeFacts, AppendSeq DEF Top, Stack
<1>3. QED
  BY <1>1, <1>2, QuietStep DEF Silent

LEMMA QuietPushTwo ==
  ASSUME Before, Quiet, pos' \in Nat, NEW f, Silent(f), NEW g, Silent(g),
         frames' = frames \o <<f, g>>
  PROVE  RecordInv'
<1> DEFINE t == Append(frames, f)
<1>1. Kept(frames, t) /\ Stack(t)
  BY BeforeFacts, KeptPush DEF Silent, Kept
<1>2. frames' = Append(t, g)
  <2>1. PICK S : frames \in Seq(S)
    BY BeforeFacts DEF Stack, IsSeq
  <2>2. frames \in Seq(S \cup {f, g})
    BY <2>1, SeqMonotonic
  <2>3. QED
    BY <2>2
<1> HIDE DEF t
<1>3. Kept(t, frames')
  BY <1>1, <1>2, KeptPush DEF Silent
<1>4. Top' = g
  BY <1>1, <1>2, AppendSeq DEF Top, Stack
<1>5. QED
  BY <1>1, <1>3, <1>4, KeptTwice, QuietStep DEF Silent

LEMMA QuietReplace ==
  ASSUME Before, Quiet, pos' \in Nat, Plain(Top), NEW f, Silent(f),
         frames' = Append(Under, f)
  PROVE  RecordInv'
<1>1. Kept(frames, Under) /\ Stack(Under)
  BY BeforeFacts, KeptPop DEF Plain, Kept
<1>2. Kept(Under, frames')
  BY <1>1, KeptPush DEF Silent
<1>3. Top' = f
  BY <1>1, AppendSeq DEF Top, Stack
<1>4. QED
  BY <1>1, <1>2, <1>3, KeptTwice, QuietStep DEF Silent

LEMMA QuietTopChange ==
  ASSUME Before, Quiet, pos' \in Nat, Plain(Top), NEW field, field # "at", NEW x,
         frames' = Append(Under, [Top EXCEPT ![field] = x])
  PROVE  RecordInv'
<1> DEFINE f == [Top EXCEPT ![field] = x]
<1>1. f.at = Top.at
  BY BeforeFacts
<1> HIDE DEF f
<1>2. Silent(f)
  BY <1>1 DEF Silent, Plain, Quiet
<1>3. QED
  BY <1>2, QuietReplace DEF f

(* What is under a frame is never a call.                                  *)
LEMMA UnderIsNoCall ==
  ASSUME Before, Top.at # "module"
  PROVE  /\ Under[Len(Under)].at \notin Calling /\ Stack(Under)
         /\ Under[1].at = "module" /\ Len(Under) \in DOMAIN Under
         /\ \A i \in DOMAIN Under : "at" \in DOMAIN Under[i]
<1>1. WellNested(Under) /\ Lies(Under[Len(Under)].at, Top.at)
  BY RunFacts, FrontFacts DEF Before
<1>2. Under[Len(Under)].at \notin Calling
  BY <1>1, Callers DEF Calling, Blocks, ExpressionUsers, Sides
<1>3. Stack(Under) /\ Under[1].at = "module" /\ \A i \in DOMAIN Under : "at" \in DOMAIN Under[i]
  BY <1>1 DEF WellNested, IsFrame, Stack, IsSeq
<1>4. QED
  BY <1>2, <1>3, StackShape

LEMMA QuietPop ==
  ASSUME Before, Quiet, pos' \in Nat, Plain(Top), frames' = Under
  PROVE  RecordInv'
<1>1. Kept(frames, Under) /\ Top' = Under[Len(Under)]
  BY BeforeFacts, KeptPop DEF Plain, Top
<1>2. QED
  BY <1>1, UnderIsNoCall, QuietStep DEF Plain

LEMMA QuietUpdate ==
  ASSUME Before, Quiet, pos' \in Nat, Top.at # "else", NEW field, field \notin Trees, NEW x,
         frames' = [frames EXCEPT ![Len(frames)][field] = x]
  PROVE  RecordInv'
<1> DEFINE n == Len(frames)
           t == [frames EXCEPT ![n][field] = x]
<1>1. n \in DOMAIN frames
  BY BeforeFacts, StackShape
<1>2. Kept(frames, t)
  BY <1>1, BeforeFacts, KeptUpdate
<1>3. Len(t) = n /\ t[n].at = Top.at
  <2>1. PICK S : frames \in Seq(S)
    BY BeforeFacts DEF Stack, IsSeq
  <2>2. Len(t) = n
    BY <2>1
  <2>3. t[n].at = Top.at
    BY <1>1, BeforeFacts DEF Trees
  <2>4. QED
    BY <2>2, <2>3
<1>4. Top'.at = Top.at
  BY <1>3 DEF Top
<1>5. QED
  BY <1>2, <1>4, QuietStep DEF Quiet

LEMMA QuietPopAndUpdate ==
  ASSUME Before, Quiet, pos' \in Nat, Plain(Top), NEW field, field \notin Trees, NEW x,
         NEW j \in DOMAIN Under, Under[j].at # "else", frames' = [Under EXCEPT ![j][field] = x]
  PROVE  RecordInv'
<1>1. Kept(frames, Under)
  BY BeforeFacts, KeptPop DEF Plain
<1>2. Top.at # "module"
  BY DEF Plain
<1>3. Kept(Under, frames')
  BY <1>2, UnderIsNoCall, KeptUpdate
<1>4. Top'.at = Under[Len(Under)].at
  <2> DEFINE n == Len(Under)
             t == [Under EXCEPT ![j][field] = x]
  <2>1. PICK S : Under \in Seq(S)
    BY <1>2, UnderIsNoCall DEF Stack, IsSeq
  <2>2. Len(t) = n
    BY <2>1
  <2>3. n \in DOMAIN Under
    BY <1>2, UnderIsNoCall
  <2>4. t[n].at = Under[n].at
    BY <1>2, <2>3, UnderIsNoCall DEF Trees
  <2>5. QED
    BY <2>2, <2>4 DEF Top
<1>5. QED
  BY <1>1, <1>2, <1>3, <1>4, KeptTwice, UnderIsNoCall, QuietStep

-----------------------------------------------------------------------------
(* Parentheses, counted token by token.                                    *)
LEMMA HowManyNone ==
  ASSUME NEW t, NEW i \in Nat \ {0}
  PROVE  HowMany(t, i, i - 1) = 0
<1>1. {k \in i .. (i - 1) : At(k) = t} = {}
  OBVIOUS
<1>2. QED
  BY <1>1, FS_EmptySet DEF HowMany

LEMMA HowManyStep ==
  ASSUME NEW t, NEW i \in Nat \ {0}, NEW j \in Nat, i <= j
  PROVE  /\ HowMany(t, i, j - 1) \in Nat
         /\ HowMany(t, i, j) = HowMany(t, i, j - 1) + (IF At(j) = t THEN 1 ELSE 0)
<1> DEFINE S == {k \in i .. (j - 1) : At(k) = t}
           T == {k \in i .. j : At(k) = t}
<1>1. IsFiniteSet(S) /\ j \notin S
  <2>1. S \subseteq i .. (j - 1) /\ IsFiniteSet(i .. (j - 1))
    BY FS_Interval
  <2>2. QED
    BY <2>1, FS_Subset
<1>2. T = S \cup (IF At(j) = t THEN {j} ELSE {})
  OBVIOUS
<1>3. Cardinality(S) \in Nat /\ Cardinality(S \cup {j}) = Cardinality(S) + 1
  BY <1>1, FS_AddElement, FS_CardinalityType
<1>4. HowMany(t, i, j - 1) = Cardinality(S) /\ HowMany(t, i, j) = Cardinality(T)
  BY DEF HowMany
<1> HIDE DEF S, T
<1>5. CASE At(j) = t
  BY <1>2, <1>3, <1>4, <1>5
<1>6. CASE At(j) # t
  <2>1. T = S
    BY <1>2, <1>6
  <2>2. QED
    BY <1>3, <1>4, <1>6, <2>1
<1>7. QED
  BY <1>5, <1>6

LEMMA ParensAreNoBraces == "(" \notin Braces /\ ")" \notin Braces
BY Zenon DEF Braces

LEMMA ScanStart ==
  ASSUME NEW o \in Nat \ {0}, At(o) = "("
  PROVE  Scanned(o, o + 1, 1)
<1> DEFINE p == o + 1
           m == p - 1
<1>1. m = o /\ o .. m = {o} /\ o < p /\ p \in Nat
  OBVIOUS
<1>2. HowMany("(", o, o) = 1 /\ HowMany(")", o, o) = 0
  <2>1. \A t : HowMany(t, o, o) = 0 + (IF At(o) = t THEN 1 ELSE 0)
    <3> SUFFICES ASSUME NEW t PROVE HowMany(t, o, o) = 0 + (IF At(o) = t THEN 1 ELSE 0)
      OBVIOUS
    <3>1. HowMany(t, o, o - 1) = 0 /\ o \in Nat /\ o <= o
      BY HowManyNone
    <3>2. QED
      BY <3>1, HowManyStep
  <2>2. QED
    BY <2>1
<1>3. ~Balanced(o, o) /\ At(o) \notin Braces
  BY <1>2, ParensAreNoBraces DEF Balanced
<1>4. HowMany("(", o, m) = HowMany(")", o, m) + 1
  BY <1>1, <1>2
<1>5. \A k \in o .. m : ~Balanced(o, k) /\ At(k) \notin Braces
  BY <1>1, <1>3
<1>6. QED
  BY <1>1, <1>4, <1>5 DEF Scanned

LEMMA ScanStep ==
  ASSUME NEW o, NEW p, NEW n, Scanned(o, p, n), At(p) \notin Braces, NEW m \in Nat \ {0},
         At(p) = "(" => m = n + 1,
         At(p) = ")" => m = n - 1,
         At(p) \notin {"(", ")"} => m = n
  PROVE  Scanned(o, p + 1, m)
<1> DEFINE q == p + 1
           l == q - 1
           a == HowMany("(", o, p - 1)
           b == HowMany(")", o, p - 1)
           c == HowMany("(", o, p)
           d == HowMany(")", o, p)
<1>1. o \in Nat \ {0} /\ p \in Nat /\ o < p /\ At(o) = "(" /\ n \in Nat \ {0}
  BY DEF Scanned
<1>2. l = p /\ o < q /\ q \in Nat
  BY <1>1
<1>3. /\ a \in Nat /\ b \in Nat /\ a = b + n
      /\ c = a + (IF At(p) = "(" THEN 1 ELSE 0) /\ d = b + (IF At(p) = ")" THEN 1 ELSE 0)
  BY <1>1, HowManyStep DEF Scanned
<1> HIDE DEF a, b
<1>4. c = d + m
  <2> HIDE DEF c, d
  <2>1. QED
    BY <1>1, <1>3
<1>5. ~Balanced(o, p)
  <2>1. c # d
    <3> HIDE DEF c
    <3>1. d \in Nat
      BY <1>3
    <3> HIDE DEF d
    <3>2. QED
      BY <1>4, <3>1
  <2>2. QED
    BY <2>1 DEF Balanced
<1>6. \A k \in o .. p : k = p \/ k \in o .. p - 1
  BY <1>1
<1>7. \A k \in o .. p : ~Balanced(o, k) /\ At(k) \notin Braces
  BY <1>5, <1>6 DEF Scanned
<1>8. /\ HowMany("(", o, l) = HowMany(")", o, l) + m
      /\ \A k \in o .. l : ~Balanced(o, k) /\ At(k) \notin Braces
  BY <1>2, <1>4, <1>7
<1> HIDE DEF l
<1>9. Scanned(o, q, m)
  BY <1>1, <1>2, <1>8 DEF Scanned, l
<1>10. QED
  BY <1>9

(* The parenthesis that closes the one at o.                               *)
LEMMA ScanEnd ==
  ASSUME NEW o, NEW p, Scanned(o, p, 1), At(p) = ")", p <= Len(source), Len(source) \in Nat
  PROVE  Arguments(o) = {p + 1}
<1>1. o \in Nat \ {0} /\ p \in Nat /\ o < p /\ At(o) = "("
      /\ \A k \in o .. p - 1 : ~Balanced(o, k) /\ At(k) \notin Braces
  BY DEF Scanned
<1>2. Balanced(o, p)
  <2> DEFINE a == HowMany("(", o, p - 1)
             b == HowMany(")", o, p - 1)
  <2>1. /\ a \in Nat /\ b \in Nat /\ a = b + 1
        /\ HowMany("(", o, p) = a + 0 /\ HowMany(")", o, p) = b + 1
    BY <1>1, HowManyStep DEF Scanned
  <2> HIDE DEF a, b
  <2>2. QED
    BY <2>1 DEF Balanced
<1> DEFINE Ends == {j \in o + 1 .. Len(source) :
                      /\ At(o) = "(" /\ Balanced(o, j)
                      /\ \A k \in o .. j - 1 : ~Balanced(o, k) /\ At(k) \notin Braces}
<1>3. p \in Ends
  BY <1>1, <1>2
<1>4. ASSUME NEW j \in Ends PROVE j = p
  <2>1. ~(j < p)
    <3>1. j < p => j \in o .. p - 1
      BY <1>1
    <3>2. QED
      BY <1>1, <3>1
  <2>2. ~(p < j)
    <3>1. p < j => p \in o .. j - 1
      BY <1>1
    <3>2. QED
      BY <1>2, <3>1
  <2>3. QED
    BY <1>1, <2>1, <2>2
<1>5. Ends = {p}
  BY <1>3, <1>4
<1>6. Arguments(o) = {j + 1 : j \in Ends}
  BY Zenon DEF Arguments
<1> HIDE DEF Ends
<1>7. QED
  BY <1>5, <1>6

-----------------------------------------------------------------------------
(* Reads of layers.                                                        *)
LEMMA ReadIs ==
  ASSUME NEW i \in Nat
  PROVE  IsRead(i) <=> At(i) \in Names /\ At(i + 1) = "." /\ At(i + 2) \in Layers
<1> DEFINE pattern == <<Names, {"."}, Layers>>
<1>1. DOMAIN pattern = 1 .. 3 /\ pattern[1] = Names /\ pattern[2] = {"."} /\ pattern[3] = Layers
  OBVIOUS
<1> HIDE DEF pattern
<1>2. /\ i + 1 - 1 = i /\ i + 2 - 1 = i + 1 /\ i + 3 - 1 = i + 2
      /\ 1 .. 3 = {1, 2, 3}
  OBVIOUS
<1>3. Matches(i, pattern) <=> /\ At(i + 1 - 1) \in pattern[1]
                              /\ At(i + 2 - 1) \in pattern[2]
                              /\ At(i + 3 - 1) \in pattern[3]
  BY <1>1, <1>2 DEF Matches
<1>4. QED
  BY <1>1, <1>2, <1>3 DEF IsRead, pattern

LEMMA ReadsAfter ==
  ASSUME NEW o \in Nat, NEW p \in Nat, o <= p
  PROVE  /\ ~IsRead(p) => ReadsTo(o, p + 1) = ReadsTo(o, p)
         /\ IsRead(p) => ReadsTo(o, p + 3) = ReadsTo(o, p) \cup {p}
<1>1. /\ \A i \in o .. p + 1 - 1 : i \in o .. p - 1 \/ i = p
      /\ \A i \in o .. p - 1 : i \in o .. p + 1 - 1 /\ i \in o .. p + 3 - 1
      /\ \A i \in o .. p + 3 - 1 : i \in o .. p - 1 \/ i = p \/ i = p + 1 \/ i = p + 2
      /\ p \in o .. p + 3 - 1
  OBVIOUS
<1>2. IsRead(p) => ~IsRead(p + 1) /\ ~IsRead(p + 2)
  <2>1. p + 1 \in Nat /\ p + 2 \in Nat /\ p + 1 + 1 = p + 2
    OBVIOUS
  <2>2. "." \notin Names /\ \A x \in Layers : x # "." /\ x \notin Names
    BY DEF Names, Layers
  <2>3. QED
    BY <2>1, <2>2, ReadIs
<1>3. QED
  BY <1>1, <1>2 DEF ReadsTo

LEMMA ReadsOfScanned ==
  ASSUME DOMAIN source = 1 .. Len(source), Len(source) \in Nat,
         NEW call, NEW p, Scanned(OpenOf(call), p, 1), At(p) = ")", p <= Len(source)
  PROVE  ReadsOf(call) = ReadsTo(OpenOf(call), p)
<1> DEFINE o == OpenOf(call)
<1>1. Arguments(o) = {p + 1} /\ o \in Nat \ {0} /\ p \in Nat /\ o < p
  BY ScanEnd DEF Scanned
<1>2. ReadsOf(call) = {i \in DOMAIN source : IsRead(i) /\ \E j \in Arguments(o) : i \in o .. j - 1}
  BY DEF ReadsOf
<1> HIDE DEF o
<1>3. ~IsRead(p)
  BY <1>1, ReadIs DEF Names
<1>4. \A i \in o .. p - 1 : IsRead(i) => i \in DOMAIN source
  BY <1>1, ReadIs, TokensGoOn DEF At
<1>5. /\ \A i \in o .. p + 1 - 1 : i \in o .. p - 1 \/ i = p
      /\ \A i \in o .. p - 1 : i \in o .. p + 1 - 1
  BY <1>1
<1>6. QED
  BY <1>1, <1>2, <1>3, <1>4, <1>5 DEF ReadsTo, o

-----------------------------------------------------------------------------
(* Lists of records that go on.                                            *)
LEMMA RecordsJoin ==
  ASSUME NEW a, NEW b, IsSeq(a), IsSeq(b), Ascending(a), Ascending(b), NEW h \in Nat,
         \A i \in DOMAIN a : a[i].start \in Nat /\ a[i].start < h,
         \A i \in DOMAIN b : b[i].start \in Nat /\ b[i].start >= h
  PROVE  /\ IsSeq(a \o b) /\ Ascending(a \o b)
         /\ Held(a \o b) = Held(a) \cup Held(b)
<1> DEFINE c == a \o b
           m == Len(a)
           n == Len(b)
<1>1. /\ m \in Nat /\ n \in Nat /\ DOMAIN a = 1 .. m /\ DOMAIN b = 1 .. n
      /\ IsSeq(c) /\ Len(c) = m + n
      /\ \A i \in 1 .. Len(c) : c[i] = IF i <= m THEN a[i] ELSE b[i - m]
  BY SeqShape, ConcatSeq
<1> HIDE DEF c, m, n
<1>2. DOMAIN c = 1 .. (m + n)
  BY <1>1, SeqShape
<1>3. /\ \A i \in 1 .. (m + n) : \/ (i \in 1 .. m /\ c[i] = a[i])
                                   \/ (i > m /\ i - m \in 1 .. n /\ c[i] = b[i - m])
      /\ \A i \in 1 .. m : i \in 1 .. (m + n) /\ c[i] = a[i]
      /\ \A i \in 1 .. n : i + m \in 1 .. (m + n) /\ c[i + m] = b[i]
  <2>1. \A i \in 1 .. n : i + m - m = i /\ ~(i + m <= m) /\ i + m \in 1 .. (m + n)
    BY <1>1
  <2>2. \A i \in 1 .. (m + n) : IF i <= m THEN i \in 1 .. m ELSE i > m /\ i - m \in 1 .. n
    BY <1>1
  <2>3. \A i \in 1 .. m : i \in 1 .. (m + n) /\ i <= m
    BY <1>1
  <2>4. QED
    BY <1>1, <2>1, <2>2, <2>3
<1>4. Held(c) = Held(a) \cup Held(b)
  <2>1. \A i \in DOMAIN c : (\E k \in DOMAIN a : c[i] = a[k]) \/ (\E k \in DOMAIN b : c[i] = b[k])
    BY <1>1, <1>2, <1>3
  <2>2. \A i \in DOMAIN a : \E k \in DOMAIN c : a[i] = c[k]
    BY <1>1, <1>2, <1>3
  <2>3. \A i \in DOMAIN b : \E k \in DOMAIN c : b[i] = c[k]
    BY <1>1, <1>2, <1>3
  <2>4. QED
    BY <2>1, <2>2, <2>3 DEF Held
<1>5. ASSUME NEW i \in DOMAIN c, NEW j \in DOMAIN c, i < j PROVE c[i].start < c[j].start
  <2>1. i \in 1 .. (m + n) /\ j \in 1 .. (m + n)
    BY <1>2
  <2>2. CASE i \in 1 .. m /\ j \in 1 .. m
    BY <1>1, <1>3, <1>5, <2>2 DEF Ascending
  <2>3. CASE i \in 1 .. m /\ j > m
    <3>1. c[i] = a[i] /\ a[i].start \in Nat /\ a[i].start < h
      BY <1>1, <1>3, <2>3
    <3>2. j - m \in DOMAIN b /\ c[j] = b[j - m]
      BY <1>1, <1>3, <2>1, <2>3
    <3>3. b[j - m].start \in Nat /\ b[j - m].start >= h
      BY <3>2
    <3>4. \A x, y \in Nat : x < h /\ y >= h => x < y
      OBVIOUS
    <3>5. QED
      BY <3>1, <3>2, <3>3, <3>4
  <2>4. CASE i > m
    <3>1. j > m /\ i - m < j - m
      BY <1>1, <1>5, <2>1, <2>4
    <3>2. i - m \in DOMAIN b /\ c[i] = b[i - m] /\ j - m \in DOMAIN b /\ c[j] = b[j - m]
      BY <1>1, <1>3, <2>1, <2>4, <3>1
    <3>3. QED
      BY <3>1, <3>2 DEF Ascending
  <2>5. QED
    BY <1>1, <2>1, <2>2, <2>3, <2>4
<1>6. Ascending(c)
  BY <1>5 DEF Ascending
<1>7. QED
  BY <1>1, <1>4, <1>6 DEF c

LEMMA OneRecord ==
  ASSUME NEW e
  PROVE  IsSeq(<<e>>) /\ Ascending(<<e>>) /\ DOMAIN <<e>> = {1} /\ <<e>>[1] = e
<1>1. DOMAIN <<e>> = {1} /\ <<e>>[1] = e /\ ~(1 < 1)
  OBVIOUS
<1>2. IsSeq(<<e>>)
  BY EmptyIsSeq, AppendJoins
<1>3. Ascending(<<e>>)
  BY <1>1 DEF Ascending
<1>4. QED
  BY <1>1, <1>2, <1>3

LEMMA TellsNothing == Tells(<< >>, {})
<1>1. DOMAIN << >> = {}
  OBVIOUS
<1>2. QED
  BY <1>1, EmptyIsSeq DEF Tells, Ascending

LEMMA AccessStart == \A i : AccessAt(i).start = i
BY DEF AccessAt

LEMMA TellsJoin ==
  ASSUME NEW a, NEW P, Tells(a, P), NEW b, NEW Q, Tells(b, Q), NEW h \in Nat,
         \A i \in P : i \in Nat, \A i \in DOMAIN a : a[i].start < h,
         \A i \in Q : i \in Nat /\ i >= h
  PROVE  Tells(a \o b, P \cup Q)
<1>1. \A i \in DOMAIN a : a[i].start \in Nat
  <2>1. \A i \in DOMAIN a : \E j \in P : a[i] = AccessAt(j)
    BY DEF Tells
  <2>2. QED
    BY <2>1, AccessStart
<1>2. \A i \in DOMAIN b : b[i].start \in Nat /\ b[i].start >= h
  <2>1. \A i \in DOMAIN b : \E j \in Q : b[i] = AccessAt(j)
    BY DEF Tells
  <2>2. QED
    BY <2>1, AccessStart
<1>3. /\ IsSeq(a \o b) /\ Ascending(a \o b)
      /\ Held(a \o b) = Held(a) \cup Held(b)
  <2>1. IsSeq(a) /\ IsSeq(b) /\ Ascending(a) /\ Ascending(b)
    BY DEF Tells
  <2>2. \A i \in DOMAIN a : a[i].start \in Nat /\ a[i].start < h
    BY <1>1
  <2>3. QED
    BY <1>2, <2>1, <2>2, RecordsJoin
<1>4. {AccessAt(i) : i \in P \cup Q} = {AccessAt(i) : i \in P} \cup {AccessAt(i) : i \in Q}
  OBVIOUS
<1>5. QED
  BY <1>3, <1>4 DEF Tells, Held

LEMMA TellsOne ==
  ASSUME NEW a, NEW P, Tells(a, P), NEW p \in Nat, \A i \in P : i \in Nat /\ i < p
  PROVE  Tells(Append(a, AccessAt(p)), P \cup {p})
<1>1. Tells(<<AccessAt(p)>>, {p})
  <2> DEFINE e == AccessAt(p)
  <2>1. IsSeq(<<e>>) /\ Ascending(<<e>>) /\ DOMAIN <<e>> = {1} /\ <<e>>[1] = e
    BY OneRecord
  <2>2. QED
    BY <2>1 DEF Tells
<1>2. \A i \in DOMAIN a : a[i].start < p
  <2>1. \A i \in DOMAIN a : \E j \in P : a[i] = AccessAt(j)
    BY DEF Tells
  <2>2. QED
    BY <2>1, AccessStart
<1>3. p >= p
  OBVIOUS
<1>4. Tells(a \o <<AccessAt(p)>>, P \cup {p})
  BY <1>1, <1>2, <1>3, TellsJoin
<1>5. QED
  <2>1. IsSeq(a)
    BY DEF Tells
  <2>2. Append(a, AccessAt(p)) = a \o <<AccessAt(p)>>
    BY <2>1, AppendSeq
  <2>3. QED
    BY <1>4, <2>2

-----------------------------------------------------------------------------
(* A step that goes on with a call statement, or begins one.               *)
LEMMA CallingStep ==
  ASSUME Before, UNCHANGED <<source, calls, accesses>>, Kept(frames, frames'),
         Top'.at \in Calling, CallRight(Top', pos'), Top'.start = Horizon(Top, pos)
  PROVE  RecordInv'
<1> DEFINE s == frames
           t == frames'
<1>1. /\ RecordsRight(s, pos, calls, accesses) /\ s[1].at = "module"
      /\ Top = s[Len(s)] /\ Top' = t[Len(t)]
  BY BeforeFacts DEF Top
<1>2. TreesRight(s) /\ (InFn(s) => LedgerRight(s, calls, accesses, Horizon(Top, pos)))
      /\ \A k \in DOMAIN s[1].functions : Entered(s[1].functions[k])
  BY <1>1 DEF RecordsRight
<1>3. /\ TreesRight(t) /\ Recounted(t) = Recounted(s) /\ (InFn(t) <=> InFn(s))
      /\ t[1].functions = s[1].functions
  BY <1>1, <1>2 DEF Kept
<1>4. Horizon(t[Len(t)], pos') = Horizon(Top, pos) /\ CallRight(t[Len(t)], pos')
  BY <1>1 DEF Horizon
<1>5. LedgerRight(s, calls, accesses, Horizon(Top, pos))
        => LedgerRight(t, calls, accesses, Horizon(Top, pos))
  BY <1>3 DEF LedgerRight
<1>6. RecordsRight(t, pos', calls, accesses)
  BY <1>2, <1>3, <1>4, <1>5 DEF RecordsRight
<1>7. QED
  BY <1>6, RecordsStep

LEMMA CallingReplace ==
  ASSUME Before, UNCHANGED <<source, calls, accesses>>, Top.at \in Calling,
         NEW g, frames' = Append(Under, g), g.at \in Calling, CallRight(g, pos'),
         g.start = Top.start
  PROVE  RecordInv'
<1>1. Plain(Top) /\ Plain(g)
  BY DEF Calling, Plain, Blocks
<1>2. Kept(frames, Under) /\ Stack(Under)
  BY <1>1, BeforeFacts, KeptPop DEF Plain, Kept
<1>3. Kept(Under, frames')
  BY <1>1, <1>2, KeptPush
<1>4. Top' = g
  BY <1>2, AppendSeq DEF Top, Stack
<1>5. QED
  BY <1>2, <1>3, <1>4, KeptTwice, CallingStep DEF Horizon

LEMMA CallFacts ==
  ASSUME Before
  PROVE  CallRight(Top, pos) /\ pos \in Nat /\ DOMAIN source = 1 .. Len(source)
         /\ Len(source) \in Nat /\ pos \in DOMAIN source
<1>1. source \in Seq({source[i] : i \in DOMAIN source})
  BY SourcesAssumption DEF Before, IInv
<1>2. QED
  BY <1>1, BeforeFacts DEF RecordsRight, Before, IInv

LEMMA StartCallRecords == Before /\ StartCall => RecordInv'
<1> SUFFICES ASSUME Before, StartCall PROVE RecordInv'
  OBVIOUS
<1> DEFINE g == [at |-> "path", path |-> <<Next1>>, start |-> pos]
<1>1. /\ frames' = Append(frames, g) /\ pos' = pos + 1
      /\ UNCHANGED <<source, calls, accesses>> /\ Top.at \in Blocks
  BY DEF StartCall, Push, Advance, AtStatement, InBlock, Blocks
<1>2. g.at = "path" /\ g.start = pos /\ g.path = <<Next1>> /\ {"path", "start"} \subseteq DOMAIN g
  OBVIOUS
<1>3. CallRight(g, pos')
  <2>1. IsSeq(<<Next1>>) /\ <<Next1>> # << >> /\ Len(<<Next1>>) = 1
    BY OneRecord
  <2>2. OpenOf(g) = pos + 1
    BY <1>2, <2>1, CallFacts DEF OpenOf
  <2> HIDE DEF g
  <2>3. QED
    BY <1>1, <1>2, <2>1, <2>2, CallFacts DEF CallRight
<1> HIDE DEF g
<1>4. Plain(g) /\ g.at \in Calling /\ Top.at \notin Calling
  BY <1>1, <1>2 DEF Plain, Calling, Blocks
<1>5. Kept(frames, frames')
  BY <1>1, <1>4, BeforeFacts, KeptPush
<1>6. Top' = g
  BY <1>1, BeforeFacts, AppendSeq DEF Top, Stack
<1>7. QED
  BY <1>1, <1>2, <1>3, <1>4, <1>5, <1>6, CallingStep DEF Horizon

LEMMA PathStepRecords == Before /\ PathStep => RecordInv'
<1> SUFFICES ASSUME Before, PathStep PROVE RecordInv'
  OBVIOUS
<1>1. Top.at = "path" /\ UNCHANGED <<source, calls, accesses>> /\ Top.at \in Calling
  BY DEF PathStep, Calling
<1>2. /\ {"path", "start"} \subseteq DOMAIN Top /\ OpenOf(Top) = pos
      /\ IsSeq(Top.path) /\ Top.path # << >> /\ Top.start \in Nat
  BY <1>1, CallFacts DEF CallRight
<1>3. pos \in Nat /\ Len(Top.path) \in Nat \ {0} /\ Top.start + 2 * Len(Top.path) - 1 = pos
  BY <1>2, CallFacts, SeqShape DEF OpenOf
<1>4. CASE Next1 = "." /\ After \in Names \cup Layers
  <2> DEFINE p == Append(Top.path, After)
             g == [Top EXCEPT !.path = p]
  <2>1. frames' = Append(Under, g) /\ pos' = pos + 2
    BY <1>4 DEF PathStep, Push, Advance
  <2>2. IsSeq(p) /\ Len(p) = Len(Top.path) + 1
    BY <1>2, AppendSeq
  <2> HIDE DEF p
  <2>3. g.at = "path" /\ g.path = p /\ g.start = Top.start /\ DOMAIN g = DOMAIN Top
    BY <1>1, <1>2, BeforeFacts
  <2> HIDE DEF g
  <2>4. p # << >>
    BY <1>3, <2>2, SeqShape
  <2>5. OpenOf(g) = pos'
    <3> DEFINE n == Len(Top.path)
               o == Top.start
    <3>1. OpenOf(g) = o + 2 * (n + 1) - 1 /\ o + 2 * n - 1 = pos /\ o \in Nat /\ n \in Nat
      BY <1>2, <1>3, <2>2, <2>3 DEF OpenOf
    <3> HIDE DEF n, o
    <3>2. QED
      BY <1>3, <2>1, <3>1
  <2>6. CallRight(g, pos')
    BY <1>2, <2>2, <2>3, <2>4, <2>5 DEF CallRight
  <2>7. QED
    BY <1>1, <2>1, <2>3, <2>6, CallingReplace
<1>5. CASE ~(Next1 = "." /\ After \in Names \cup Layers)
  <2> DEFINE g == [at |-> "args", path |-> Top.path, start |-> Top.start, parens |-> 1,
                   found |-> << >>]
  <2>1. frames' = Append(Under, g) /\ pos' = pos + 1 /\ Next1 = "("
    BY <1>5 DEF PathStep, Push, Advance
  <2>2. /\ g.at = "args" /\ g.path = Top.path /\ g.start = Top.start /\ g.parens = 1
        /\ g.found = << >> /\ {"path", "start", "parens", "found"} \subseteq DOMAIN g
    OBVIOUS
  <2> HIDE DEF g
  <2>3. OpenOf(g) = pos /\ At(pos) = "(" /\ pos \in Nat \ {0}
    BY <1>2, <2>1, <2>2, RunFacts DEF OpenOf, Next1, Before
  <2>4. Scanned(pos, pos + 1, 1)
    BY <2>3, ScanStart
  <2>5. ReadsTo(pos, pos + 1) = {}
    <3>1. ~IsRead(pos) /\ pos <= pos
      BY <1>3, <2>3, ReadIs DEF Names
    <3>2. ReadsTo(pos, pos) = {}
      BY <1>3 DEF ReadsTo
    <3>3. QED
      BY <1>3, <3>1, <3>2, ReadsAfter
  <2>6. CallRight(g, pos')
    BY <1>2, <2>1, <2>2, <2>3, <2>4, <2>5, TellsNothing DEF CallRight
  <2>7. QED
    BY <1>1, <2>1, <2>2, <2>6, CallingReplace DEF Calling
<1>6. QED
  BY <1>4, <1>5

-----------------------------------------------------------------------------
(* The steps over the arguments of a call.                                 *)
LEMMA ArgsFacts ==
  ASSUME Before, Top.at = "args"
  PROVE  /\ Scanned(OpenOf(Top), pos, Top.parens)
         /\ Tells(Top.found, ReadsTo(OpenOf(Top), pos))
         /\ {"at", "path", "start", "parens", "found"} \subseteq DOMAIN Top
         /\ IsSeq(Top.path) /\ Top.path # << >> /\ Top.start \in Nat
         /\ OpenOf(Top) \in Nat \ {0} /\ OpenOf(Top) < pos /\ Top.parens \in Nat \ {0}
         /\ Top.start < OpenOf(Top)
<1>1. CallRight(Top, pos) /\ "at" \in DOMAIN Top /\ Top.at \in Calling
  BY CallFacts, BeforeFacts DEF Calling
<1>2. /\ Scanned(OpenOf(Top), pos, Top.parens)
      /\ Tells(Top.found, ReadsTo(OpenOf(Top), pos))
      /\ {"path", "start", "parens", "found"} \subseteq DOMAIN Top
      /\ IsSeq(Top.path) /\ Top.path # << >> /\ Top.start \in Nat
  BY <1>1 DEF CallRight
<1>3. OpenOf(Top) \in Nat \ {0} /\ OpenOf(Top) < pos /\ Top.parens \in Nat \ {0}
  BY <1>2 DEF Scanned
<1>4. Top.start < OpenOf(Top)
  <2>1. Len(Top.path) \in Nat \ {0}
    BY <1>2, SeqShape
  <2>2. QED
    BY <1>2, <2>1 DEF OpenOf
<1>5. QED
  BY <1>1, <1>2, <1>3, <1>4

(* What a step over the arguments must keep.                               *)
LEMMA ArgsGoOn ==
  ASSUME Before, Top.at = "args", NEW g, NEW p \in Nat,
         {"path", "start", "parens", "found"} \subseteq DOMAIN g,
         g.at = "args", g.path = Top.path, g.start = Top.start,
         Scanned(OpenOf(Top), p, g.parens), Tells(g.found, ReadsTo(OpenOf(Top), p))
  PROVE  CallRight(g, p)
<1>1. OpenOf(g) = OpenOf(Top)
  BY DEF OpenOf
<1>2. IsSeq(g.path) /\ g.path # << >> /\ g.start \in Nat
  BY ArgsFacts
<1>3. QED
  BY <1>1, <1>2 DEF CallRight

LEMMA ArgParens ==
  ASSUME Before, Top.at = "args", UNCHANGED <<source, calls, accesses>>,
         At(pos) \in {"(", ")"}, pos' = pos + 1, NEW m \in Nat \ {0},
         m = IF At(pos) = "(" THEN Top.parens + 1 ELSE Top.parens - 1,
         frames' = Append(Under, [Top EXCEPT !.parens = m])
  PROVE  RecordInv'
<1> DEFINE g == [Top EXCEPT !.parens = m]
           o == OpenOf(Top)
<1>1. /\ g.at = "args" /\ g.path = Top.path /\ g.start = Top.start /\ g.parens = m
      /\ g.found = Top.found /\ DOMAIN g = DOMAIN Top
  BY ArgsFacts
<1>2. Scanned(o, pos + 1, m)
  <2>1. At(pos) \notin Braces
    BY ParensAreNoBraces
  <2>2. Scanned(o, pos, Top.parens)
    BY ArgsFacts
  <2> HIDE DEF o
  <2>3. QED
    BY <2>1, <2>2, ScanStep
<1>3. ReadsTo(o, pos + 1) = ReadsTo(o, pos)
  <2>1. pos \in Nat /\ o \in Nat /\ o <= pos
    BY ArgsFacts, CallFacts
  <2>2. ~IsRead(pos)
    BY <2>1, ReadIs DEF Names
  <2> HIDE DEF o
  <2>3. QED
    BY <2>1, <2>2, ReadsAfter
<1>4. pos + 1 \in Nat /\ {"path", "start", "parens", "found"} \subseteq DOMAIN g
  BY <1>1, ArgsFacts, CallFacts
<1>5. Tells(g.found, ReadsTo(o, pos + 1))
  BY <1>1, <1>3, ArgsFacts
<1> HIDE DEF g
<1>6. CallRight(g, pos')
  BY <1>1, <1>2, <1>4, <1>5, ArgsGoOn
<1>7. QED
  BY <1>1, <1>6, CallingReplace DEF Calling, g

LEMMA ArgOpenRecords == Before /\ ArgOpen => RecordInv'
<1> SUFFICES ASSUME Before, ArgOpen PROVE RecordInv'
  OBVIOUS
<1> DEFINE m == Top.parens + 1
<1>1. /\ frames' = Append(Under, [Top EXCEPT !.parens = m]) /\ pos' = pos + 1
      /\ UNCHANGED <<source, calls, accesses>> /\ At(pos) = "("
      /\ Top.at \in {"args", "opaque"} /\ pos \in Nat
  BY BeforeFacts DEF ArgOpen, Push, Advance, Next1
<1>2. CASE Top.at = "args"
  <2>1. m \in Nat \ {0}
    BY <1>2, ArgsFacts
  <2>2. m = IF At(pos) = "(" THEN Top.parens + 1 ELSE Top.parens - 1
    BY <1>1
  <2> HIDE DEF m
  <2>3. QED
    BY <1>1, <1>2, <2>1, <2>2, ArgParens
<1>3. CASE Top.at = "opaque"
  <2> HIDE DEF m
  <2>1. Quiet /\ Plain(Top) /\ pos' \in Nat
    BY <1>1, <1>3 DEF Quiet, Plain, Blocks, Calling
  <2>2. QED
    BY <1>1, <2>1, QuietTopChange
<1>4. QED
  BY <1>1, <1>2, <1>3

LEMMA ArgCloseRecords == Before /\ ArgClose => RecordInv'
<1> SUFFICES ASSUME Before, ArgClose PROVE RecordInv'
  OBVIOUS
<1> DEFINE m == Top.parens - 1
<1>1. /\ frames' = Append(Under, [Top EXCEPT !.parens = m]) /\ pos' = pos + 1
      /\ UNCHANGED <<source, calls, accesses>> /\ At(pos) = ")"
      /\ Top.at \in {"args", "opaque"} /\ pos \in Nat /\ Top.parens > 1
  BY BeforeFacts DEF ArgClose, Push, Advance, Next1
<1>2. CASE Top.at = "args"
  <2>1. m \in Nat \ {0}
    BY <1>1, <1>2, ArgsFacts
  <2>2. m = IF At(pos) = "(" THEN Top.parens + 1 ELSE Top.parens - 1
    BY <1>1
  <2> HIDE DEF m
  <2>3. QED
    BY <1>1, <1>2, <2>1, <2>2, ArgParens
<1>3. CASE Top.at = "opaque"
  <2> HIDE DEF m
  <2>1. Quiet /\ Plain(Top) /\ pos' \in Nat
    BY <1>1, <1>3 DEF Quiet, Plain, Blocks, Calling
  <2>2. QED
    BY <1>1, <2>1, QuietTopChange
<1>4. QED
  BY <1>1, <1>2, <1>3

LEMMA NoSigns ==
  /\ \A x \in Names \cup Layers \cup {"."} : x \notin Braces /\ x \notin {"(", ")"}
<1>1. \A x \in Names \cup Layers \cup {"."} : x \notin {"(", ")"}
  BY DEF Names, Layers
<1>2. \A x \in Names \cup Layers \cup {"."} : x \notin Braces
  BY Zenon DEF Names, Layers, Braces
<1>3. QED
  BY <1>1, <1>2

LEMMA ArgAccessRecords == Before /\ ArgAccess => RecordInv'
<1> SUFFICES ASSUME Before, ArgAccess PROVE RecordInv'
  OBVIOUS
<1> DEFINE a == Append(Top.found, Access)
           g == [Top EXCEPT !.found = a]
           o == OpenOf(Top)
<1>1. /\ frames' = Append(Under, g) /\ pos' = pos + 3
      /\ UNCHANGED <<source, calls, accesses>> /\ Top.at = "args"
      /\ At(pos) \in Names /\ At(pos + 1) = "." /\ At(pos + 2) \in Layers
  BY DEF ArgAccess, IsAccess, Push, Advance, Next1, After
<1>2. /\ g.at = "args" /\ g.path = Top.path /\ g.start = Top.start /\ g.parens = Top.parens
      /\ g.found = a /\ DOMAIN g = DOMAIN Top
  BY <1>1, ArgsFacts
<1>3. pos \in Nat /\ o \in Nat /\ o <= pos /\ Top.parens \in Nat \ {0}
      /\ Scanned(o, pos, Top.parens) /\ Tells(Top.found, ReadsTo(o, pos))
  BY <1>1, ArgsFacts, CallFacts
<1> HIDE DEF g, o
<1>4. Scanned(o, pos + 1, Top.parens)
  BY <1>1, <1>3, NoSigns, ScanStep
<1>5. Scanned(o, (pos + 1) + 1, Top.parens)
  BY <1>1, <1>3, <1>4, NoSigns, ScanStep
<1>6. (pos + 1) + 1 = pos + 2 /\ (pos + 2) + 1 = pos + 3 /\ pos + 3 \in Nat
  BY <1>3
<1>7. Scanned(o, pos + 2, Top.parens)
  BY <1>5, <1>6
<1>8. Scanned(o, (pos + 2) + 1, Top.parens)
  BY <1>1, <1>3, <1>7, NoSigns, ScanStep
<1>9. Scanned(o, pos + 3, Top.parens)
  BY <1>6, <1>8
<1>10. Tells(a, ReadsTo(o, pos) \cup {pos})
  <2>1. Access = AccessAt(pos)
    BY DEF Access, AccessAt, Next1
  <2>2. \A i \in ReadsTo(o, pos) : i \in Nat /\ i < pos
    BY <1>3 DEF ReadsTo
  <2>3. QED
    BY <1>3, <2>1, <2>2, TellsOne
<1>11. ReadsTo(o, pos + 3) = ReadsTo(o, pos) \cup {pos}
  BY <1>1, <1>3, ReadIs, ReadsAfter
<1> HIDE DEF a
<1>12. {"path", "start", "parens", "found"} \subseteq DOMAIN g
  BY <1>1, <1>2, ArgsFacts
<1>13. /\ Scanned(OpenOf(Top), pos', g.parens) /\ Tells(g.found, ReadsTo(OpenOf(Top), pos'))
       /\ pos' \in Nat
  BY <1>1, <1>2, <1>6, <1>9, <1>10, <1>11 DEF o
<1>14. CallRight(g, pos')
  BY <1>1, <1>2, <1>12, <1>13, ArgsGoOn
<1>15. QED
  BY <1>1, <1>2, <1>14, CallingReplace DEF Calling

LEMMA ArgSkipRecords == Before /\ ArgSkip => RecordInv'
<1> SUFFICES ASSUME Before, ArgSkip PROVE RecordInv'
  OBVIOUS
<1>1. /\ pos' = pos + 1 /\ pos \in Nat /\ pos' \in Nat
      /\ UNCHANGED <<source, frames, calls, accesses>>
      /\ Top.at \in {"args", "opaque"} /\ ~(Top.at = "args" /\ IsAccess)
  <2>1. /\ pos' = pos + 1 /\ UNCHANGED <<source, frames, calls, accesses>>
        /\ Top.at \in {"args", "opaque"} /\ ~(Top.at = "args" /\ IsAccess)
    BY Zenon DEF ArgSkip, Advance
  <2>2. QED
    BY <2>1, BeforeFacts
<1>2. At(pos) \notin {"(", ")"} /\ At(pos) \notin Braces
  BY Zenon DEF ArgSkip, Next1, Braces
<1>3. Kept(frames, frames')
  BY <1>1, BeforeFacts DEF Kept
<1>4. Top' = Top
  BY <1>1 DEF Top
<1>5. CASE Top.at = "args"
  <2> DEFINE o == OpenOf(Top)
  <2>1. o \in Nat /\ o <= pos /\ Top.parens \in Nat \ {0}
        /\ Scanned(o, pos, Top.parens) /\ Tells(Top.found, ReadsTo(o, pos))
    BY <1>1, <1>5, ArgsFacts
  <2>2. ~IsRead(pos)
    BY <1>1, <1>5, ReadIs DEF IsAccess, Next1, After
  <2> HIDE DEF o
  <2>3. Scanned(o, pos + 1, Top.parens)
    BY <1>2, <2>1, ScanStep
  <2>4. ReadsTo(o, pos + 1) = ReadsTo(o, pos)
    BY <1>1, <2>1, <2>2, ReadsAfter
  <2>5. Scanned(OpenOf(Top), pos', Top.parens) /\ Tells(Top.found, ReadsTo(OpenOf(Top), pos'))
    BY <1>1, <2>1, <2>3, <2>4 DEF o
  <2>6. CallRight(Top, pos')
    BY <1>1, <1>5, <2>5, ArgsFacts, ArgsGoOn
  <2>7. QED
    BY <1>1, <1>3, <1>4, <1>5, <2>6, CallingStep DEF Calling, Horizon
<1>6. CASE Top.at = "opaque"
  <2>1. Quiet /\ Top'.at \notin Calling
    BY <1>1, <1>4, <1>6 DEF Quiet, Calling
  <2>2. QED
    BY <1>1, <1>3, <2>1, QuietStep
<1>7. QED
  BY <1>1, <1>5, <1>6

-----------------------------------------------------------------------------
(* How much unfolding a block may need.                                    *)
LEMMA RoomOnTop ==
  ASSUME NEW t, WellNested(t)
  PROVE  /\ RoomAt(t, Len(t)) = MaxDepth + 1 - Count(t, Arms)
         /\ \A f : RoomAt(Append(t, f), Len(t) + 1)
                     = RoomAt(t, Len(t)) - (IF f.at \in Arms THEN 1 ELSE 0)
<1>1. Len(t) \in Nat \ {0} /\ DOMAIN t = 1 .. Len(t) /\ Count(t, Arms) \in Nat /\ IsSeq(t)
      /\ MaxDepth \in Nat
  BY StackFacts, LimitsAssumption DEF WellNested, IsSeq
<1>2. RoomAt(t, Len(t)) = MaxDepth + 1 - Count(t, Arms)
  BY <1>1 DEF RoomAt, Count
<1>3. ASSUME NEW f
      PROVE  RoomAt(Append(t, f), Len(t) + 1) = RoomAt(t, Len(t)) - (IF f.at \in Arms THEN 1 ELSE 0)
  <2> DEFINE u == Append(t, f)
             n == Len(t)
  <2>1. DOMAIN u = 1 .. (n + 1) /\ (\A i \in 1 .. n : u[i] = t[i]) /\ u[n + 1] = f
    BY <1>1, AppendSeq
  <2> HIDE DEF u
  <2>2. Count(u, Arms) = Count(t, Arms) + (IF f.at \in Arms THEN 1 ELSE 0)
    BY <2>1, CountOnTop
  <2>3. RoomAt(u, n + 1) = MaxDepth + 1 - Count(u, Arms)
    BY <2>1 DEF RoomAt, Count
  <2>4. QED
    BY <1>1, <1>2, <2>2, <2>3 DEF u
<1>4. QED
  BY <1>2, <1>3

LEMMA RoomLeft ==
  ASSUME NEW t, Calm(t)
  PROVE  /\ RoomAt(t, Len(t)) \in Room /\ RoomAt(t, Len(t)) # 0
         /\ RoomAt(t, Len(t)) - 1 \in Room
<1>1. WellNested(t) /\ Count(t, Arms) \in Nat /\ Count(t, Arms) <= MaxDepth /\ MaxDepth \in Nat
  BY StackFacts, LimitsAssumption DEF Calm
<1>2. RoomAt(t, Len(t)) = MaxDepth + 1 - Count(t, Arms)
  BY <1>1, RoomOnTop
<1>3. QED
  BY <1>1, <1>2 DEF Room

(* A block on top of the stack gets more statements, and more calls.       *)
Grows(t, ss, d, s) ==
  /\ WellNested(t) /\ TreesRight(t) /\ t[Len(t)].at \in Blocks
  /\ IsSeq(d) /\ Deep(RoomAt(t, Len(t)), ss)
  /\ CallsIn(ss) = CallsIn(t[Len(t)].stmts) \o d
  /\ s = [t EXCEPT ![Len(t)].stmts = ss]

LEMMA BlockGrows ==
  ASSUME NEW t, NEW ss, NEW d, NEW s, Grows(t, ss, d, s)
  PROVE  /\ Stack(s) /\ TreesRight(s) /\ Recounted(s) = Recounted(t) \o d
         /\ InFn(s) <=> InFn(t)
         /\ s[1] = t[1] /\ s[Len(s)].at = t[Len(t)].at
<1> DEFINE n == Len(t)
           u == Front(t)
           f == t[n]
           g == [f EXCEPT !.stmts = ss]
           room == RoomAt(t, n)
<1>0. /\ WellNested(t) /\ TreesRight(t) /\ f.at \in Blocks /\ IsSeq(d) /\ Deep(room, ss)
      /\ CallsIn(ss) = CallsIn(f.stmts) \o d /\ s = [t EXCEPT ![n].stmts = ss]
  BY DEF Grows
<1>1. /\ n \in Nat \ {0} /\ DOMAIN t = 1 .. n /\ IsSeq(t) /\ Stack(t) /\ t[1].at = "module"
      /\ IsFrame(f)
  BY <1>0, StackFacts DEF WellNested, IsSeq, Stack
<1>2. n # 1 /\ f.at # "module"
  BY <1>0, <1>1 DEF Blocks
<1>3. WellNested(u) /\ Len(u) = n - 1
  BY <1>0, <1>2, FrontFacts
<1>4. /\ Stack(u) /\ TreesRight(u) /\ t = Append(u, f) /\ u[1] = t[1] /\ FrameRight(f, room)
      /\ Recounted(t) = Recounted(u) \o Part(f)
      /\ InFn(t) <=> InFn(u) \/ f.at = "fn"
  BY <1>0, <1>1, <1>2, FrameOff
<1>5. /\ "stmts" \in DOMAIN f /\ room \in Room /\ Deep(room, f.stmts) /\ Deep(room, ss)
      /\ f.at = "else" => "then" \in DOMAIN f /\ Deep(room, f.then)
  BY <1>0, <1>4 DEF FrameRight
<1>6. /\ g.at = f.at /\ g.stmts = ss /\ DOMAIN g = DOMAIN f
      /\ f.at = "else" => g.then = f.then
  BY <1>0, <1>1, <1>5 DEF IsFrame
<1>7. s = [i \in 1 .. n |-> IF i = n THEN g ELSE t[i]]
  BY <1>0, <1>1
<1> HIDE DEF g
<1>8. IsSeq(s) /\ Len(s) = n /\ s[n] = g /\ \A i \in 1 .. (n - 1) : s[i] = t[i]
  <2> DEFINE m == n
  <2>1. m \in Nat /\ DOMAIN s = 1 .. m /\ s = [i \in DOMAIN s |-> s[i]]
    BY <1>0, <1>1, <1>7
  <2>2. IsSeq(s) /\ Len(s) = m
    <3> HIDE DEF m
    <3>1. QED
      BY <1>0, <2>1, SeqMade
  <2>3. QED
    BY <1>0, <1>1, <1>7, <2>2
<1>9. s = Append(u, g)
  <2> DEFINE v == Append(u, g)
  <2>1. IsSeq(u) /\ \A i \in 1 .. (n - 1) : u[i] = t[i]
    BY <1>0, <1>1, FrontLast DEF Stack
  <2>2. IsSeq(v) /\ Len(v) = Len(u) + 1 /\ v[Len(u) + 1] = g /\ \A i \in 1 .. Len(u) : v[i] = u[i]
    <3> HIDE DEF u
    <3>1. QED
      BY <1>0, <2>1, AppendSeq
  <2> HIDE DEF v, u
  <2>3. Len(u) + 1 = n /\ Len(v) = n
    BY <1>0, <1>1, <1>3, <2>2
  <2>4. \A i \in 1 .. n : i = n \/ i \in 1 .. (n - 1)
    BY <1>0, <1>1
  <2>5. \A i \in 1 .. n : s[i] = v[i]
    BY <1>0, <1>3, <1>8, <2>1, <2>2, <2>3, <2>4
  <2>6. s = v
    BY <1>0, <1>8, <2>2, <2>3, <2>5, SameSeq
  <2>7. QED
    BY <1>0, <2>6 DEF v
<1>10. RoomAt(Append(u, g), Len(u) + 1) = room
  <2>1. Len(u) + 1 = n
    BY <1>0, <1>1, <1>3
  <2>2. room = RoomAt(Append(u, f), Len(u) + 1)
    BY <1>0, <1>4, <2>1
  <2>3. /\ RoomAt(Append(u, f), Len(u) + 1) = RoomAt(u, Len(u)) - (IF f.at \in Arms THEN 1 ELSE 0)
        /\ RoomAt(Append(u, g), Len(u) + 1) = RoomAt(u, Len(u)) - (IF g.at \in Arms THEN 1 ELSE 0)
    BY <1>0, <1>3, RoomOnTop
  <2> HIDE DEF room, u, f
  <2>4. QED
    BY <1>0, <1>6, <2>2, <2>3
<1>11. FrameRight(g, room)
  BY <1>0, <1>2, <1>5, <1>6 DEF FrameRight
<1>12. Part(g) = Part(f) \o d
  <2>1. IsSeq(CallsIn(f.stmts)) /\ (f.at = "else" => IsSeq(CallsIn(f.then)))
    BY <1>0, <1>5, DeepCallsIn
  <2>2. CallsIn(g.stmts) = CallsIn(f.stmts) \o d
    BY <1>0, <1>6
  <2> HIDE DEF f
  <2>3. CASE f.at = "else"
    <3> DEFINE x == CallsIn(f.then)
               y == CallsIn(f.stmts)
    <3>1. Part(f) = x \o y /\ Part(g) = x \o (y \o d)
      BY <1>0, <1>6, <2>2, <2>3 DEF Part
    <3>2. IsSeq(x) /\ IsSeq(y)
      BY <1>0, <2>1, <2>3
    <3> HIDE DEF x, y
    <3>3. (x \o y) \o d = x \o (y \o d)
      BY <1>0, <3>2, ConcatThree
    <3>4. QED
      BY <1>0, <3>1, <3>3
  <2>4. CASE f.at \in {"fn", "then"}
    BY <1>0, <1>6, <2>1, <2>2, <2>4 DEF Part
  <2>5. QED
    BY <1>0, <2>3, <2>4 DEF Blocks, f
<1>13. /\ TreesRight(s) /\ Recounted(s) = Recounted(u) \o Part(g)
       /\ InFn(s) <=> InFn(u) \/ g.at = "fn"
  <2>1. IsSeq(u)
    BY <1>0, <1>4 DEF Stack
  <2>2. TreesRight(u) /\ FrameRight(g, RoomAt(Append(u, g), Len(u) + 1))
    BY <1>0, <1>4, <1>10, <1>11
  <2> HIDE DEF u, room
  <2>3. /\ TreesRight(Append(u, g)) /\ Recounted(Append(u, g)) = Recounted(u) \o Part(g)
        /\ InFn(Append(u, g)) <=> InFn(u) \/ g.at = "fn"
    BY <1>0, <2>1, <2>2, FrameOn
  <2>4. QED
    BY <1>0, <1>9, <2>3
<1>14. Recounted(s) = Recounted(t) \o d
  <2>1. IsSeq(Recounted(u)) /\ IsSeq(Part(f))
    BY <1>0, <1>4, PartsSeqs, PartIsSeq DEF Stack
  <2>2. Recounted(t) = Recounted(u) \o Part(f) /\ Recounted(s) = Recounted(u) \o (Part(f) \o d)
    BY <1>0, <1>4, <1>12, <1>13
  <2> HIDE DEF u, f
  <2>3. (Recounted(u) \o Part(f)) \o d = Recounted(u) \o (Part(f) \o d)
    BY <1>0, <2>1, ConcatThree
  <2>4. QED
    BY <1>0, <2>2, <2>3
<1>15. s[1] = t[1] /\ Stack(s)
  <2>1. 1 \in 1 .. (n - 1) /\ n # 0
    BY <1>0, <1>1, <1>2
  <2>2. QED
    BY <1>0, <1>8, <2>1, SeqShape DEF Stack
<1>16. QED
  BY <1>0, <1>4, <1>6, <1>8, <1>13, <1>14, <1>15

-----------------------------------------------------------------------------
(* The steps that build the trees.                                         *)
LEMMA TreeFacts ==
  ASSUME Before, Top.at # "module"
  PROVE  /\ TreesRight(frames) /\ WellNested(Under) /\ Stack(Under) /\ TreesRight(Under)
         /\ Calm(Under) /\ IsSeq(Part(Top))
         /\ frames = Append(Under, Top) /\ Under[1] = frames[1]
         /\ FrameRight(Top, RoomAt(frames, Len(frames)))
         /\ Recounted(frames) = Recounted(Under) \o Part(Top)
         /\ InFn(frames) <=> InFn(Under) \/ Top.at = "fn"
         /\ RoomAt(frames, Len(frames))
              = RoomAt(Under, Len(Under)) - (IF Top.at \in Arms THEN 1 ELSE 0)
         /\ Lies(Under[Len(Under)].at, Top.at)
<1>1. /\ Stack(frames) /\ Len(frames) # 1 /\ Top = frames[Len(frames)] /\ Under = Front(frames)
      /\ TreesRight(frames)
  BY BeforeFacts DEF RecordsRight
<1>2. WellNested(Under) /\ Calm(Under) /\ Lies(Under[Len(Under)].at, Top.at)
      /\ Len(Under) = Len(frames) - 1 /\ Len(frames) \in Nat
  BY <1>1, RunFacts, FrontFacts, FrontKeeps DEF Before
<1>3. /\ Stack(Under) /\ TreesRight(Under)
      /\ frames = Append(Under, Top) /\ Under[1] = frames[1]
      /\ FrameRight(Top, RoomAt(frames, Len(frames)))
      /\ Recounted(frames) = Recounted(Under) \o Part(Top)
      /\ InFn(frames) <=> InFn(Under) \/ Top.at = "fn"
  BY <1>1, FrameOff
<1>4. RoomAt(frames, Len(frames)) = RoomAt(Under, Len(Under)) - (IF Top.at \in Arms THEN 1 ELSE 0)
  <2>1. RoomAt(Append(Under, Top), Len(Under) + 1)
          = RoomAt(Under, Len(Under)) - (IF Top.at \in Arms THEN 1 ELSE 0)
    BY <1>2, RoomOnTop
  <2>2. Len(Under) + 1 = Len(frames)
    BY <1>2
  <2>3. QED
    BY <1>3, <2>1, <2>2
<1>5. IsSeq(Part(Top))
  BY <1>3, PartIsSeq
<1>6. QED
  BY <1>1, <1>2, <1>3, <1>4, <1>5

(* A method is replaced by one that opens a block, or another block.       *)
LEMMA BlockOpens ==
  ASSUME Before, Quiet, pos' \in Nat, Top.at \notin {"module", "fn"},
         NEW g, g.at \in Arms, frames' = Append(Under, g),
         FrameRight(g, RoomAt(Append(Under, g), Len(Under) + 1)), Part(g) = Part(Top)
  PROVE  RecordInv'
<1>1. /\ Stack(frames') /\ TreesRight(frames') /\ Recounted(frames') = Recounted(Under) \o Part(g)
      /\ InFn(frames') <=> InFn(Under) \/ g.at = "fn"
  BY TreeFacts, FrameOn DEF Stack
<1>2. g.at # "fn" /\ g.at \notin Calling /\ g.at # "module"
  BY DEF Arms, Calling
<1>3. frames'[1] = frames[1] /\ Top' = g
  <2>1. IsSeq(Under) /\ 1 \in 1 .. Len(Under) /\ Under[1] = frames[1]
    BY TreeFacts, StackShape DEF Stack
  <2>2. QED
    BY <2>1, AppendSeq DEF Top
<1>4. Kept(frames, frames')
  BY <1>1, <1>2, <1>3, TreeFacts DEF Kept
<1>5. QED
  BY <1>2, <1>3, <1>4, QuietStep

(* A method hands over one more statement of the block below it.           *)
LEMMA StatementAdded ==
  ASSUME Before, Quiet, pos' \in Nat, Top.at \notin {"module", "fn"},
         Under[Len(Under)].at \in Blocks, NEW c, frames' = WithStatement(Under, c),
         LET ss == Append(Under[Len(Under)].stmts, c)
         IN  /\ Deep(RoomAt(Under, Len(Under)), ss)
             /\ CallsIn(ss) = CallsIn(Under[Len(Under)].stmts) \o Part(Top)
  PROVE  RecordInv'
<1> DEFINE ss == Append(Under[Len(Under)].stmts, c)
<1>1. frames' = [Under EXCEPT ![Len(Under)].stmts = ss]
  <2>1. Len(Under) \in DOMAIN Under
    BY TreeFacts, StackShape
  <2>2. FrameRight(Under[Len(Under)], RoomAt(Under, Len(Under)))
    BY <2>1, TreeFacts DEF TreesRight
  <2>3. "stmts" \in DOMAIN Under[Len(Under)]
    BY <2>2 DEF FrameRight
  <2>4. QED
    BY <2>1, <2>3 DEF WithStatement
<1>2. /\ Deep(RoomAt(Under, Len(Under)), ss)
      /\ CallsIn(ss) = CallsIn(Under[Len(Under)].stmts) \o Part(Top)
  OBVIOUS
<1> HIDE DEF ss
<1>3. /\ Stack(frames') /\ TreesRight(frames') /\ Recounted(frames') = Recounted(Under) \o Part(Top)
      /\ InFn(frames') <=> InFn(Under)
      /\ frames'[1] = Under[1] /\ frames'[Len(frames')].at = Under[Len(Under)].at
  <2> DEFINE s == frames'
             d == Part(Top)
             n == Len(Under)
  <2>1. s = [Under EXCEPT ![n].stmts = ss] /\ Deep(RoomAt(Under, n), ss)
        /\ CallsIn(ss) = CallsIn(Under[n].stmts) \o d /\ Under[n].at \in Blocks
    BY <1>1, <1>2
  <2>2. IsSeq(d) /\ WellNested(Under) /\ TreesRight(Under)
    BY TreeFacts
  <2> HIDE DEF s, d
  <2>3. Grows(Under, ss, d, s)
    BY <2>1, <2>2 DEF Grows
  <2>4. /\ Stack(s) /\ TreesRight(s) /\ Recounted(s) = Recounted(Under) \o d
        /\ InFn(s) <=> InFn(Under)
        /\ s[1] = Under[1] /\ s[Len(s)].at = Under[n].at
    BY <2>3, BlockGrows
  <2>5. QED
    BY <2>4 DEF s, d
<1>4. Kept(frames, frames')
  BY <1>3, TreeFacts DEF Kept
<1>5. Top'.at \notin Calling
  BY <1>3 DEF Top, Calling, Blocks
<1>6. QED
  BY <1>4, <1>5, QuietStep

LEMMA BlockBelow ==
  ASSUME Before, Top.at \in {"return", "if", "then", "else", "path", "args"}
  PROVE  /\ Under[Len(Under)].at \in Blocks
         /\ RoomAt(Under, Len(Under)) \in Room /\ RoomAt(Under, Len(Under)) # 0
         /\ RoomAt(Under, Len(Under)) - 1 \in Room
         /\ Deep(RoomAt(Under, Len(Under)), Under[Len(Under)].stmts)
         /\ IsSeq(CallsIn(Under[Len(Under)].stmts))
<1>1. Under[Len(Under)].at \in Blocks
  BY TreeFacts, Callers
<1>2. RoomAt(Under, Len(Under)) \in Room /\ RoomAt(Under, Len(Under)) # 0
      /\ RoomAt(Under, Len(Under)) - 1 \in Room
  BY TreeFacts, RoomLeft
<1>3. Len(Under) \in DOMAIN Under
  BY TreeFacts, StackShape
<1>4. FrameRight(Under[Len(Under)], RoomAt(Under, Len(Under)))
  BY <1>3, TreeFacts DEF TreesRight
<1>5. Deep(RoomAt(Under, Len(Under)), Under[Len(Under)].stmts)
  BY <1>1, <1>4 DEF FrameRight
<1>6. QED
  BY <1>1, <1>2, <1>5, DeepCallsIn

LEMMA EndReturnRecords == Before /\ EndReturn => RecordInv'
<1> SUFFICES ASSUME Before, EndReturn PROVE RecordInv'
  OBVIOUS
<1> DEFINE c == [op |-> "return", value |-> value]
           n == RoomAt(Under, Len(Under))
           s == Under[Len(Under)].stmts
<1>1. /\ frames' = WithStatement(Under, c) /\ Top.at = "return" /\ pos' = pos
      /\ UNCHANGED <<source, calls, accesses>>
  BY DEF EndReturn
<1>2. Quiet /\ pos' \in Nat /\ Part(Top) = << >>
  BY <1>1, BeforeFacts DEF Quiet, Calling, Part
<1>3. n \in Room /\ n # 0 /\ Deep(n, s) /\ IsSeq(CallsIn(s)) /\ Under[Len(Under)].at \in Blocks
  BY <1>1, BlockBelow
<1>4. Deep(n, Append(s, c)) /\ CallsIn(Append(s, c)) = CallsIn(s)
  <2> HIDE DEF n, s
  <2>1. QED
    BY <1>3, ReturnAdded
<1>5. CallsIn(Append(s, c)) = CallsIn(s) \o Part(Top)
  <2> HIDE DEF s
  <2>1. QED
    BY <1>2, <1>3, <1>4, ConcatSeq
<1> HIDE DEF c
<1>6. QED
  BY <1>1, <1>2, <1>3, <1>4, <1>5, StatementAdded

LEMMA OpenThenRecords == Before /\ OpenThen => RecordInv'
<1> SUFFICES ASSUME Before, OpenThen PROVE RecordInv'
  OBVIOUS
<1> DEFINE g == [at |-> "then", cond |-> value, stmts |-> << >>]
           n == RoomAt(Under, Len(Under))
<1>1. /\ frames' = Append(Under, g) /\ Top.at = "if" /\ pos' = pos + 1
      /\ UNCHANGED <<source, calls, accesses>>
  BY Zenon DEF OpenThen, Push, Advance
<1>2. Quiet /\ pos' \in Nat /\ Part(Top) = << >>
  BY <1>1, BeforeFacts DEF Quiet, Calling, Part
<1>3. g.at = "then" /\ g.stmts = << >> /\ "stmts" \in DOMAIN g
  OBVIOUS
<1> HIDE DEF g
<1>4. n - 1 \in Room
  BY <1>1, BlockBelow
<1>5. RoomAt(Append(Under, g), Len(Under) + 1) = n - 1
  BY <1>1, <1>3, TreeFacts, RoomOnTop DEF Arms
<1>6. Deep(n - 1, << >>) /\ CallsIn(<< >>) = << >>
  <2> DEFINE m == n - 1
  <2>1. m \in Room
    BY <1>4
  <2> HIDE DEF m
  <2>2. Deep(m, << >>) /\ CallsIn(<< >>) = << >>
    BY <2>1, NoCalls
  <2>3. QED
    BY <2>2 DEF m
<1>7. FrameRight(g, n - 1) /\ Part(g) = << >>
  BY <1>3, <1>4, <1>6 DEF FrameRight, Part, Blocks
<1>8. g.at \in Arms /\ Top.at \notin {"module", "fn"}
  BY <1>1, <1>3 DEF Arms
<1>9. FrameRight(g, RoomAt(Append(Under, g), Len(Under) + 1)) /\ Part(g) = Part(Top)
  BY <1>2, <1>5, <1>7
<1>10. QED
  BY <1>1, <1>2, <1>8, <1>9, BlockOpens

LEMMA ArmFacts ==
  ASSUME Before, Top.at \in Arms
  PROVE  /\ RoomAt(Under, Len(Under)) - 1 \in Room
         /\ RoomAt(frames, Len(frames)) = RoomAt(Under, Len(Under)) - 1
         /\ Deep(RoomAt(Under, Len(Under)) - 1, Top.stmts) /\ IsSeq(CallsIn(Top.stmts))
         /\ Top.at = "else" =>
              Deep(RoomAt(Under, Len(Under)) - 1, Top.then) /\ IsSeq(CallsIn(Top.then))
<1>1. Top.at # "module" /\ Top.at \in {"then", "else"} /\ Top.at \in Blocks
  BY DEF Arms, Blocks
<1>2. RoomAt(frames, Len(frames)) = RoomAt(Under, Len(Under)) - 1
  BY <1>1, TreeFacts
<1>3. RoomAt(Under, Len(Under)) - 1 \in Room
  BY <1>1, BlockBelow
<1>4. FrameRight(Top, RoomAt(Under, Len(Under)) - 1)
  BY <1>1, <1>2, TreeFacts
<1>5. /\ Deep(RoomAt(Under, Len(Under)) - 1, Top.stmts)
      /\ Top.at = "else" => Deep(RoomAt(Under, Len(Under)) - 1, Top.then)
  BY <1>1, <1>4 DEF FrameRight
<1>6. QED
  BY <1>2, <1>3, <1>5, DeepCallsIn

LEMMA OpenElseRecords == Before /\ OpenElse => RecordInv'
<1> SUFFICES ASSUME Before, OpenElse PROVE RecordInv'
  OBVIOUS
<1> DEFINE g == [at |-> "else", cond |-> Top.cond, then |-> Top.stmts, stmts |-> << >>]
           n == RoomAt(Under, Len(Under))
<1>1. /\ frames' = Append(Under, g) /\ Top.at = "then" /\ pos' = pos + 3
      /\ UNCHANGED <<source, calls, accesses>>
  BY Zenon DEF OpenElse, Push, Advance
<1>2. Quiet /\ pos' \in Nat /\ Part(Top) = CallsIn(Top.stmts)
  BY <1>1, BeforeFacts DEF Quiet, Calling, Part
<1>3. g.at = "else" /\ g.stmts = << >> /\ g.then = Top.stmts /\ {"stmts", "then"} \subseteq DOMAIN g
  OBVIOUS
<1> HIDE DEF g
<1>4. Top.at \in Arms /\ Top.at # "module"
  BY <1>1 DEF Arms
<1>5. n - 1 \in Room /\ Deep(n - 1, Top.stmts) /\ IsSeq(CallsIn(Top.stmts))
  BY <1>4, ArmFacts
<1>6. RoomAt(Append(Under, g), Len(Under) + 1) = n - 1
  BY <1>3, <1>4, TreeFacts, RoomOnTop DEF Arms
<1>7. Deep(n - 1, << >>) /\ CallsIn(<< >>) = << >>
  <2> DEFINE m == n - 1
  <2>1. m \in Room
    BY <1>5
  <2> HIDE DEF m
  <2>2. Deep(m, << >>) /\ CallsIn(<< >>) = << >>
    BY <2>1, NoCalls
  <2>3. QED
    BY <2>2 DEF m
<1>8. FrameRight(g, n - 1)
  BY <1>3, <1>5, <1>7 DEF FrameRight
<1>9. Part(g) = Part(Top)
  <2>1. Part(g) = CallsIn(Top.stmts) \o << >>
    BY <1>3, <1>7 DEF Part
  <2>2. QED
    BY <1>2, <1>5, <2>1, ConcatSeq
<1>10. g.at \in Arms /\ Top.at \notin {"module", "fn"}
  BY <1>1, <1>3 DEF Arms
<1>11. FrameRight(g, RoomAt(Append(Under, g), Len(Under) + 1))
  BY <1>6, <1>8
<1>12. QED
  BY <1>1, <1>2, <1>9, <1>10, <1>11, BlockOpens

LEMMA IfEnds ==
  ASSUME Before, Quiet, pos' \in Nat, Top.at \in Arms, NEW v, NEW body, NEW orelse,
         Deep(RoomAt(Under, Len(Under)) - 1, body), Deep(RoomAt(Under, Len(Under)) - 1, orelse),
         Part(Top) = CallsIn(body) \o CallsIn(orelse),
         frames' = WithStatement(Under, If(v, body, orelse))
  PROVE  RecordInv'
<1> DEFINE n == RoomAt(Under, Len(Under))
           m == n - 1
           s == Under[Len(Under)].stmts
           c == If(v, body, orelse)
<1>1. Top.at \in {"then", "else"}
  BY DEF Arms
<1>2. n \in Room /\ Deep(n, s) /\ Under[Len(Under)].at \in Blocks /\ m \in Room
  BY <1>1, BlockBelow
<1>3. Deep(m, body) /\ Deep(m, orelse) /\ m = n - 1
  OBVIOUS
<1>4. /\ Deep(n, Append(s, c))
      /\ CallsIn(Append(s, c)) = CallsIn(s) \o (CallsIn(body) \o CallsIn(orelse))
  <2>1. IfFits(n, m, s, body, orelse)
    BY <1>2, <1>3 DEF IfFits
  <2> HIDE DEF n, m, s
  <2>2. QED
    BY <2>1, IfAdded
<1>5. CallsIn(Append(s, c)) = CallsIn(s) \o Part(Top)
  BY <1>4
<1> HIDE DEF c
<1>6. frames' = WithStatement(Under, c)
  BY DEF c
<1>7. QED
  BY <1>1, <1>2, <1>4, <1>5, <1>6, StatementAdded

LEMMA EndThenRecords == Before /\ EndThen => RecordInv'
<1> SUFFICES ASSUME Before, EndThen PROVE RecordInv'
  OBVIOUS
<1> DEFINE m == RoomAt(Under, Len(Under)) - 1
<1>1. /\ frames' = WithStatement(Under, If(Top.cond, Top.stmts, << >>))
      /\ Top.at = "then" /\ pos' = pos + 1 /\ UNCHANGED <<source, calls, accesses>>
  BY Zenon DEF EndThen, Advance
<1>2. Quiet /\ pos' \in Nat /\ Top.at \in Arms /\ Part(Top) = CallsIn(Top.stmts)
  BY <1>1, BeforeFacts DEF Quiet, Calling, Part, Arms
<1>3. m \in Room /\ Deep(m, Top.stmts) /\ IsSeq(CallsIn(Top.stmts))
  BY <1>2, ArmFacts
<1>4. Deep(m, << >>) /\ CallsIn(<< >>) = << >>
  <2> HIDE DEF m
  <2>1. QED
    BY <1>3, NoCalls
<1>5. Part(Top) = CallsIn(Top.stmts) \o CallsIn(<< >>)
  BY <1>2, <1>3, <1>4, ConcatSeq
<1>6. QED
  BY <1>1, <1>2, <1>3, <1>4, <1>5, IfEnds

LEMMA EndElseRecords == Before /\ EndElse => RecordInv'
<1> SUFFICES ASSUME Before, EndElse PROVE RecordInv'
  OBVIOUS
<1> DEFINE m == RoomAt(Under, Len(Under)) - 1
<1>1. /\ frames' = WithStatement(Under, If(Top.cond, Top.then, Top.stmts))
      /\ Top.at = "else" /\ pos' = pos + 1 /\ UNCHANGED <<source, calls, accesses>>
  BY Zenon DEF EndElse, Advance
<1>2. Quiet /\ pos' \in Nat /\ Top.at \in Arms
      /\ Part(Top) = CallsIn(Top.then) \o CallsIn(Top.stmts)
  BY <1>1, BeforeFacts DEF Quiet, Calling, Part, Arms
<1>3. Deep(m, Top.stmts) /\ Deep(m, Top.then)
  BY <1>1, <1>2, ArmFacts
<1>4. QED
  BY <1>1, <1>2, <1>3, IfEnds

-----------------------------------------------------------------------------
(* The beginning of a function body, where nothing is recorded, and its    *)
(* end, where the records are handed over.                                 *)
LEMMA BottomFacts ==
  ASSUME Before, Top.at \in {"signature", "fn"}
  PROVE  /\ Len(Under) = 1 /\ Under[1].at = "module" /\ Under[1] = frames[1]
         /\ DOMAIN Under = {1} /\ Recounted(Under) = << >> /\ ~InFn(Under)
<1>1. WellNested(Under) /\ Lies(Under[Len(Under)].at, Top.at) /\ Under[1] = frames[1]
  BY TreeFacts
<1>2. Under[Len(Under)].at = "module" /\ Len(Under) \in Nat \ {0} /\ DOMAIN Under = 1 .. Len(Under)
  BY <1>1, Callers, StackFacts
<1>3. Len(Under) = 1
  <2>1. Len(Under) \in 2 .. Len(Under) => Lies(Under[Len(Under) - 1].at, "module")
    BY <1>1, <1>2 DEF WellNested
  <2>2. \A b : ~Lies(b, "module")
    BY Callers
  <2>3. QED
    BY <1>2, <2>1, <2>2
<1>4. DOMAIN Under = {1}
  BY <1>2, <1>3
<1>5. Parts(Under) = <<(<< >>)>>
  <2>1. Part(Under[1]) = << >>
    BY <1>2, <1>3 DEF Part
  <2>2. QED
    BY <1>2, <1>3, <2>1 DEF Parts
<1>6. Recounted(Under) = << >>
  <2>1. AllSeqs(<< >>)
    BY EmptyIsSeq DEF AllSeqs
  <2>2. FlattenSeq(Append(<< >>, << >>)) = FlattenSeq(<< >>) \o << >>
    BY <2>1, EmptyIsSeq, FlattenAppend
  <2>3. Append(<< >>, << >>) = <<(<< >>)>>
    OBVIOUS
  <2>4. << >> \o << >> = << >>
    BY EmptyIsSeq, ConcatSeq
  <2>5. QED
    BY <1>5, <2>2, <2>3, <2>4, FlattenEmpty DEF Recounted
<1>7. ~InFn(Under)
  BY <1>2, <1>3, <1>4 DEF InFn
<1>8. QED
  BY <1>1, <1>2, <1>3, <1>4, <1>6, <1>7

LEMMA OpenBodyRecords == Before /\ OpenBody => RecordInv'
<1> SUFFICES ASSUME Before, OpenBody PROVE RecordInv'
  OBVIOUS
<1> DEFINE g == [at |-> "fn", name |-> Top.name, params |-> Top.params,
                 returns |-> Top.returns, stmts |-> << >>]
           room == RoomAt(Append(Under, g), Len(Under) + 1)
<1>1. /\ frames' = Append(Under, g) /\ Top.at = "signature" /\ source' = source
      /\ calls' = << >> /\ accesses' = << >>
  BY Zenon DEF OpenBody, Push
<1>2. g.at = "fn" /\ g.stmts = << >> /\ "stmts" \in DOMAIN g
  OBVIOUS
<1> HIDE DEF g
<1>3. FrameRight(g, room) /\ Part(g) = << >>
  <2>1. room = RoomAt(Under, Len(Under)) - 0
    BY <1>1, <1>2, TreeFacts, RoomOnTop DEF Arms
  <2>2. RoomAt(Under, Len(Under)) \in Room
    BY <1>1, TreeFacts, RoomLeft
  <2>3. room \in Room
    BY <2>1, <2>2, LimitsAssumption DEF Room
  <2> HIDE DEF room
  <2>4. Deep(room, << >>) /\ CallsIn(<< >>) = << >>
    BY <2>3, NoCalls
  <2>5. QED
    BY <1>2, <2>3, <2>4 DEF FrameRight, Part
<1>4. /\ Stack(frames') /\ TreesRight(frames')
      /\ Recounted(frames') = Recounted(Under) \o Part(g)
  BY <1>1, <1>3, TreeFacts, FrameOn DEF Stack
<1>5. Recounted(frames') = << >>
  BY <1>1, <1>3, <1>4, BottomFacts, EmptyIsSeq, ConcatSeq
<1>6. frames'[1] = frames[1] /\ frames'[Len(frames')] = g
  <2>1. IsSeq(Under) /\ 1 \in 1 .. Len(Under) /\ Under[1] = frames[1]
    BY <1>1, TreeFacts, StackShape DEF Stack
  <2>2. QED
    BY <1>1, <2>1, AppendSeq
<1>7. LedgerRight(frames', << >>, << >>, pos')
  <2>1. DOMAIN << >> = {}
    OBVIOUS
  <2>2. Reads(<< >>) = {}
    BY <2>1 DEF Reads
  <2>3. QED
    BY <1>5, <2>1, <2>2, TellsNothing DEF LedgerRight, Ascending
<1>8. CallRight(g, pos') /\ Horizon(g, pos') = pos'
  BY <1>2 DEF CallRight, Horizon, Calling
<1>9. RecordsRight(frames', pos', << >>, << >>)
  BY <1>4, <1>6, <1>7, <1>8, BeforeFacts DEF RecordsRight
<1>10. QED
  BY <1>1, <1>9, RecordsStep

LEMMA EndBodyRecords == Before /\ EndBody => RecordInv'
<1> SUFFICES ASSUME Before, EndBody PROVE RecordInv'
  OBVIOUS
<1> DEFINE fn == [name |-> Top.name, params |-> Top.params, returns |-> Top.returns,
                  statements |-> Top.stmts, calls |-> calls, accesses |-> accesses]
           fs == Append(Under[1].functions, fn)
<1>1. /\ frames' = WithItem(Under, "functions", fn) /\ Top.at = "fn"
      /\ UNCHANGED <<source, calls, accesses>>
  BY Zenon DEF EndBody, EndOf, GoOn
<1>2. fn.statements = Top.stmts /\ fn.calls = calls /\ fn.accesses = accesses
  OBVIOUS
<1> HIDE DEF fn
<1>3. Top.at # "module" /\ Len(Under) = 1 /\ DOMAIN Under = {1} /\ Under[1] = frames[1]
      /\ Under[1].at = "module" /\ Recounted(Under) = << >> /\ IsSeq(Under)
  BY <1>1, BottomFacts, TreeFacts DEF Stack
<1>4. "functions" \in DOMAIN Under[1] /\ IsSeq(Under[1].functions)
  BY <1>3, TreeFacts DEF TreesRight, FrameRight
<1>5. Entered(fn)
  <2>1. InFn(frames)
    BY <1>1, TreeFacts
  <2>2. LedgerRight(frames, calls, accesses, pos)
    BY <1>1, <2>1, BeforeFacts DEF RecordsRight, Horizon, Calling
  <2>3. calls = CallsIn(Top.stmts)
    <3>1. Part(Top) = CallsIn(Top.stmts) /\ IsSeq(Part(Top))
      BY <1>1, TreeFacts DEF Part
    <3>2. calls = << >> \o Part(Top)
      BY <1>3, <2>2, TreeFacts DEF LedgerRight
    <3>3. QED
      BY <3>1, <3>2, ConcatSeq
  <2>4. QED
    BY <1>2, <2>2, <2>3 DEF LedgerRight, Recorded, Entered, Tells
<1>6. /\ frames' = [Under EXCEPT ![1].functions = fs] /\ Len(frames') = 1
      /\ DOMAIN frames' = {1} /\ frames'[1].functions = fs /\ frames'[1].at = "module"
      /\ "functions" \in DOMAIN frames'[1]
  <2>1. frames' = [Under EXCEPT ![1].functions = fs]
    BY <1>1, <1>3, <1>4 DEF WithItem
  <2> HIDE DEF fs
  <2>2. PICK S : Under \in Seq(S)
    BY <1>3 DEF IsSeq
  <2>3. Len(frames') = 1
    BY <1>3, <2>1, <2>2
  <2>4. QED
    BY <1>3, <1>4, <2>1, <2>3
<1>7. IsSeq(fs) /\ \A k \in DOMAIN fs : Entered(fs[k])
  <2> DEFINE gs == Under[1].functions
  <2>1. \A k \in DOMAIN gs : Entered(gs[k])
    BY <1>3, BeforeFacts DEF RecordsRight
  <2>2. IsSeq(gs) /\ DOMAIN gs = 1 .. Len(gs) /\ Len(gs) \in Nat
    BY <1>4, SeqShape
  <2>3. /\ IsSeq(fs) /\ DOMAIN fs = 1 .. (Len(gs) + 1) /\ fs[Len(gs) + 1] = fn
        /\ \A k \in 1 .. Len(gs) : fs[k] = gs[k]
    BY <2>2, AppendSeq
  <2> HIDE DEF fs, gs
  <2>4. \A k \in 1 .. (Len(gs) + 1) : k = Len(gs) + 1 \/ k \in 1 .. Len(gs)
    BY <2>2
  <2>5. QED
    BY <1>5, <2>1, <2>2, <2>3, <2>4
<1> HIDE DEF fs
<1>8. TreesRight(frames') /\ ~InFn(frames')
  BY <1>6, <1>7 DEF TreesRight, FrameRight, Blocks, InFn
<1>9. CallRight(frames'[Len(frames')], pos')
  BY <1>6 DEF CallRight, Calling
<1>10. RecordsRight(frames', pos', calls', accesses')
  BY <1>6, <1>7, <1>8, <1>9 DEF RecordsRight
<1>11. QED
  BY <1>1, <1>10, RecordsStep

-----------------------------------------------------------------------------
(* The end of a call statement, where it is recorded.                      *)
LEMMA EndCallRecords == Before /\ EndCall => RecordInv'
<1> SUFFICES ASSUME Before, EndCall PROVE RecordInv'
  OBVIOUS
<1> DEFINE c == [op |-> "call", path |-> Top.path, start |-> Top.start]
           e == [path |-> Top.path, start |-> Top.start]
           o == OpenOf(Top)
           h == Top.start
           n == RoomAt(Under, Len(Under))
           ss == Under[Len(Under)].stmts
<1>1. /\ frames' = WithStatement(Under, c) /\ calls' = Append(calls, e)
      /\ accesses' = accesses \o Top.found /\ pos' = pos + 1 /\ source' = source
      /\ Top.at = "args" /\ At(pos) = ")" /\ Top.parens = 1
  BY DEF EndCall, Advance, Next1
<1>2. e.start = h /\ e.path = Top.path /\ OpenOf(e) = o
  BY DEF OpenOf
<1>3. /\ Scanned(o, pos, 1) /\ Tells(Top.found, ReadsTo(o, pos)) /\ h \in Nat
      /\ o \in Nat \ {0} /\ o < pos /\ h < o /\ pos \in Nat
  BY <1>1, ArgsFacts, CallFacts
<1>4. n \in Room /\ Deep(n, ss) /\ IsSeq(CallsIn(ss)) /\ Under[Len(Under)].at \in Blocks
  BY <1>1, BlockBelow
<1>5. Deep(n, Append(ss, c)) /\ CallsIn(Append(ss, c)) = CallsIn(ss) \o <<e>>
  <2>1. Deep(n, Append(ss, c)) /\ CallsIn(Append(ss, c)) = Append(CallsIn(ss), e)
    <3> HIDE DEF n, ss
    <3>1. QED
      BY <1>4, CallAdded
  <2> HIDE DEF n, ss, c, e
  <2>2. QED
    BY <1>4, <2>1, AppendSeq
<1>6. frames' = [Under EXCEPT ![Len(Under)].stmts = Append(ss, c)]
  <2>1. Top.at # "module"
    BY <1>1
  <2>2. Len(Under) \in DOMAIN Under
    BY <2>1, TreeFacts, StackShape
  <2>3. FrameRight(Under[Len(Under)], RoomAt(Under, Len(Under)))
    BY <2>1, <2>2, TreeFacts DEF TreesRight
  <2>4. "stmts" \in DOMAIN Under[Len(Under)]
    BY <1>4, <2>3 DEF FrameRight
  <2>5. QED
    BY <1>1, <2>2, <2>4 DEF WithStatement
<1>7. Grows(Under, Append(ss, c), <<e>>, frames')
  <2>1. WellNested(Under) /\ TreesRight(Under) /\ IsSeq(<<e>>)
    BY <1>1, TreeFacts, OneRecord
  <2> HIDE DEF c, e
  <2>2. QED
    BY <1>4, <1>5, <1>6, <2>1 DEF Grows
<1> HIDE DEF c, e, o, h, n, ss
<1>8. /\ TreesRight(frames') /\ Recounted(frames') = Recounted(Under) \o <<e>>
      /\ InFn(frames') <=> InFn(Under)
      /\ frames'[1] = Under[1] /\ frames'[Len(frames')].at = Under[Len(Under)].at
  BY <1>7, BlockGrows
<1>9. Recounted(frames) = Recounted(Under) /\ (InFn(frames) <=> InFn(Under)) /\ Under[1] = frames[1]
  <2>1. /\ Recounted(frames) = Recounted(Under) \o Part(Top) /\ Under[1] = frames[1]
        /\ InFn(frames) <=> InFn(Under) \/ Top.at = "fn"
        /\ Stack(Under) /\ TreesRight(Under)
    BY <1>1, TreeFacts
  <2>2. Part(Top) = << >> /\ IsSeq(Recounted(Under))
    BY <1>1, <2>1, PartsSeqs DEF Part, Stack
  <2>3. QED
    BY <1>1, <2>1, <2>2, ConcatSeq
<1>10. ASSUME InFn(frames') PROVE LedgerRight(frames', calls', accesses', pos')
  <2>1. LedgerRight(frames, calls, accesses, h)
    BY <1>1, <1>8, <1>9, <1>10, BeforeFacts DEF RecordsRight, Horizon, Calling, h
  <2>2. /\ calls = Recounted(frames) /\ Ascending(calls)
        /\ \A i \in DOMAIN calls : calls[i].start \in Nat /\ calls[i].start < h
        /\ Tells(accesses, Reads(calls)) /\ \A i \in DOMAIN accesses : accesses[i].start < h
    BY <2>1 DEF LedgerRight
  <2>3. IsSeq(calls)
    BY <2>2, BeforeFacts, PartsSeqs DEF RecordsRight, Stack
  <2>4. IsSeq(<<e>>) /\ Ascending(<<e>>) /\ DOMAIN <<e>> = {1} /\ <<e>>[1] = e
    BY OneRecord
  <2>5. calls' = calls \o <<e>>
    BY <1>1, <2>3, AppendSeq
  <2>6. calls' = Recounted(frames')
    BY <1>8, <1>9, <2>2, <2>5
  <2>7. Ascending(calls') /\ Held(calls') = Held(calls) \cup {e} /\ IsSeq(calls')
    <3>1. \A i \in DOMAIN <<e>> : <<e>>[i].start \in Nat /\ <<e>>[i].start >= h
      BY <1>2, <1>3, <2>4
    <3>2. Held(<<e>>) = {e}
      BY <2>4 DEF Held
    <3>3. /\ IsSeq(calls \o <<e>>) /\ Ascending(calls \o <<e>>)
          /\ Held(calls \o <<e>>) = Held(calls) \cup Held(<<e>>)
      BY <1>3, <2>2, <2>3, <2>4, <3>1, RecordsJoin
    <3>4. QED
      BY <2>5, <3>2, <3>3
  <2>8. h < pos' /\ \A x \in Nat : x < h => x < pos'
    BY <1>1, <1>3
  <2>9. \A i \in DOMAIN calls' : calls'[i].start \in Nat /\ calls'[i].start < pos'
    <3>1. \A i \in DOMAIN calls' : calls'[i] = e \/ \E k \in DOMAIN calls : calls'[i] = calls[k]
      BY <2>7 DEF Held
    <3>2. QED
      BY <1>2, <1>3, <2>2, <2>8, <3>1
  <2>10. Reads(calls') = Reads(calls) \cup ReadsTo(o, pos)
    <3>1. \A list : Reads(list) = UNION {ReadsOf(x) : x \in Held(list)}
      BY DEF Reads, Held
    <3>2. UNION {ReadsOf(x) : x \in Held(calls) \cup {e}}
            = (UNION {ReadsOf(x) : x \in Held(calls)}) \cup ReadsOf(e)
      OBVIOUS
    <3>3. ReadsOf(e) = ReadsTo(OpenOf(e), pos)
      BY <1>1, <1>2, <1>3, CallFacts, ReadsOfScanned
    <3>4. QED
      BY <1>2, <2>7, <3>1, <3>2, <3>3
  <2>11. \A i \in Reads(calls) : i \in Nat
    BY CallFacts DEF Reads, ReadsOf
  <2>12. \A i \in ReadsTo(o, pos) : i \in Nat /\ i >= h /\ i < pos'
    BY <1>1, <1>3 DEF ReadsTo
  <2>13. Tells(accesses', Reads(calls'))
    <3> DEFINE P == Reads(calls)
               Q == ReadsTo(o, pos)
    <3>1. Tells(accesses, P) /\ Tells(Top.found, Q) /\ \A i \in DOMAIN accesses : accesses[i].start < h
      BY <1>3, <2>2
    <3>2. (\A i \in P : i \in Nat) /\ \A i \in Q : i \in Nat /\ i >= h
      BY <2>11, <2>12
    <3> HIDE DEF P, Q
    <3>3. Tells(accesses \o Top.found, P \cup Q)
      BY <1>3, <3>1, <3>2, TellsJoin
    <3>4. QED
      BY <1>1, <2>10, <3>3 DEF P, Q
  <2>14. \A i \in DOMAIN accesses' : accesses'[i].start < pos'
    <3>1. \A i \in DOMAIN accesses' : \E j \in Reads(calls') : accesses'[i] = AccessAt(j)
      BY <2>13 DEF Tells
    <3>2. \A j \in Reads(calls) : j < h
      <4>1. \A j \in Reads(calls) : \E i \in DOMAIN accesses : accesses[i] = AccessAt(j)
        BY <2>2 DEF Tells
      <4>2. QED
        BY <2>2, <4>1, AccessStart
    <3>3. \A j \in Reads(calls') : j < pos'
      BY <2>8, <2>10, <2>11, <2>12, <3>2
    <3>4. QED
      BY <3>1, <3>3, AccessStart
  <2>15. QED
    BY <2>6, <2>7, <2>9, <2>13, <2>14 DEF LedgerRight
<1>11. /\ CallRight(frames'[Len(frames')], pos')
       /\ Horizon(frames'[Len(frames')], pos') = pos'
  BY <1>4, <1>8 DEF CallRight, Horizon, Calling, Blocks
<1>12. \A k \in DOMAIN frames'[1].functions : Entered(frames'[1].functions[k])
  BY <1>8, <1>9, BeforeFacts DEF RecordsRight
<1>13. RecordsRight(frames', pos', calls', accesses')
  BY <1>8, <1>10, <1>11, <1>12 DEF RecordsRight
<1>14. QED
  BY <1>1, <1>13, RecordsStep

-----------------------------------------------------------------------------
(* The steps that neither read a call statement nor build the trees.       *)
LEMMA SilentIs ==
  ASSUME NEW f
  PROVE  /\ Silent(f) <=> f.at \notin {"module", "fn", "then", "else", "path", "args"}
         /\ Plain(f) <=> f.at \notin {"module", "fn", "then", "else"}
BY DEF Silent, Plain, Blocks, Calling

LEMMA QuietMove ==
  ASSUME Before, IInv', UNCHANGED <<source, calls, accesses>>, Top.at \notin Calling,
         pos' = pos \/ \E k \in Nat : pos' = pos + k
  PROVE  Quiet /\ pos' \in Nat
BY BeforeFacts DEF Quiet

LEMMA StillRecords ==
  ASSUME Before, UNCHANGED <<source, pos, frames, calls, accesses>>
  PROVE  RecordInv'
<1>1. RecordsRight(frames', pos', calls', accesses')
  BY BeforeFacts
<1>2. QED
  BY <1>1, RecordsStep

LEMMA QuietSame ==
  ASSUME Before, Quiet, pos' \in Nat, frames' = frames
  PROVE  RecordInv'
<1>1. Kept(frames, frames') /\ Top' = Top
  BY BeforeFacts DEF Kept, Top
<1>2. QED
  BY <1>1, QuietStep DEF Quiet

(* A method hands over something else than a statement.                    *)
LEMMA QuietPopAndUpdateTop ==
  ASSUME Before, Quiet, pos' \in Nat,
         Top.at \notin {"module", "fn", "then", "else", "return", "if", "path", "args"},
         NEW field, field \notin Trees, NEW x,
         frames' = [Under EXCEPT ![Len(Under)][field] = x]
  PROVE  RecordInv'
<1>1. Plain(Top)
  BY SilentIs
<1>2. Under[Len(Under)].at # "else" /\ Len(Under) \in DOMAIN Under
  <2>1. Lies(Under[Len(Under)].at, Top.at) /\ Stack(Under)
    BY TreeFacts
  <2>2. QED
    BY <2>1, StackShape, Callers DEF Blocks, Sides, ExpressionUsers
<1>3. QED
  BY <1>1, <1>2, QuietPopAndUpdate

LEMMA StatementRecords == Before /\ IInv' /\ Statement => RecordInv'
<1> SUFFICES ASSUME Before, IInv', Statement PROVE RecordInv'
  OBVIOUS
<1>1. CASE NoStatement
  <2>1. UNCHANGED <<source, pos, frames, calls, accesses>>
    BY <1>1, Zenon DEF NoStatement, Reject
  <2>2. QED
    BY <2>1, StillRecords
<1>2. CASE StartReturn \/ StartIf
  <2>1. PICK m \in {"return", "if"} : frames' = frames \o <<[at |-> m], [at |-> "left"]>>
    BY <1>2, Zenon DEF StartReturn, StartIf
  <2>2. /\ pos' = pos + 1 /\ UNCHANGED <<source, calls, accesses>>
        /\ Top.at \in {"fn", "then", "else"}
    BY <1>2, Zenon DEF StartReturn, StartIf, Advance, AtStatement, InBlock
  <2>3. Quiet /\ pos' \in Nat
    BY <2>2, QuietMove DEF Calling
  <2>4. Silent([at |-> m]) /\ Silent([at |-> "left"])
    BY SilentIs
  <2>5. QED
    BY <2>1, <2>3, <2>4, QuietPushTwo
<1>3. QED
  BY <1>1, <1>2, StartCallRecords DEF Statement

LEMMA CallRecords == Before /\ IInv' /\ Call => RecordInv'
<1> SUFFICES ASSUME Before, IInv', Call PROVE RecordInv'
  OBVIOUS
<1>1. CASE NoPath \/ ArgStray
  <2>1. UNCHANGED <<source, pos, frames, calls, accesses>>
    BY <1>1, Zenon DEF NoPath, ArgStray, Reject
  <2>2. QED
    BY <2>1, StillRecords
<1>2. QED
  BY <1>1, PathStepRecords, ArgOpenRecords, ArgCloseRecords, ArgAccessRecords, ArgSkipRecords,
     EndCallRecords DEF Call

LEMMA PrimaryRecords == Before /\ IInv' /\ Primary => RecordInv'
<1> SUFFICES ASSUME Before, IInv', Primary PROVE RecordInv'
  OBVIOUS
<1> USE DEF Push, Advance
<1>1. CASE NoNumber \/ NoExpression
  BY <1>1, StillRecords DEF NoNumber, NoExpression, Reject
<1>2. CASE ParseNot
  <2>1. Quiet /\ pos' \in Nat
    BY <1>2, QuietMove DEF ParseNot, InPrimary, Calling
  <2>2. Silent([at |-> "not"]) /\ Silent([at |-> "left"])
    BY SilentIs
  <2>3. QED
    BY <1>2, <2>1, <2>2, QuietPushTwo DEF ParseNot
<1>3. CASE ParseLiteral
  <2>1. Quiet /\ pos' \in Nat
    BY <1>3, QuietMove DEF ParseLiteral, InPrimary, Calling
  <2>2. QED
    BY <1>3, <2>1, QuietSame DEF ParseLiteral
<1>4. CASE StartNumber
  <2> DEFINE f == [at |-> "number", parts |-> 1]
  <2>1. Quiet /\ pos' \in Nat
    BY <1>4, QuietMove DEF StartNumber, InPrimary, Calling
  <2>2. Silent(f) /\ frames' = Append(frames, f)
    BY <1>4, SilentIs DEF StartNumber
  <2> HIDE DEF f
  <2>3. QED
    BY <2>1, <2>2, QuietPush
<1>5. CASE InNumber
  <2>1. Plain(Top) /\ Top.at \notin Calling
    BY <1>5, SilentIs DEF InNumber, Calling
  <2>2. Quiet /\ pos' \in Nat
    BY <1>5, <2>1, QuietMove DEF InNumber
  <2>3. CASE Next1 = "."
    BY <1>5, <2>1, <2>2, <2>3, QuietTopChange DEF InNumber
  <2>4. CASE Next1 # "."
    BY <1>5, <2>1, <2>2, <2>4, QuietPop DEF InNumber
  <2>5. QED
    BY <2>3, <2>4
<1>6. CASE ParseName
  <2>1. /\ UNCHANGED <<source, calls, accesses>> /\ Top.at \in {"left", "right"}
        /\ IF After = "(" THEN frames' = Append(frames, [at |-> "opaque", parens |-> 1, name |-> Next1])
                               /\ pos' = pos + 2
           ELSE frames' = frames /\ pos' = pos + 1
    BY <1>6, Zenon DEF ParseName, InPrimary
  <2>2. Quiet /\ pos' \in Nat
    BY <2>1, QuietMove DEF Calling
  <2>3. CASE After = "("
    <3> DEFINE f == [at |-> "opaque", parens |-> 1, name |-> Next1]
    <3>1. Silent(f) /\ frames' = Append(frames, f)
      BY <2>1, <2>3, SilentIs
    <3> HIDE DEF f
    <3>2. QED
      BY <2>2, <3>1, QuietPush
  <2>4. CASE After # "("
    BY <2>1, <2>2, <2>4, QuietSame
  <2>5. QED
    BY <2>3, <2>4
<1>7. CASE EndOpaque
  <2>1. Plain(Top) /\ Top.at \notin Calling
    BY <1>7, SilentIs DEF EndOpaque, Calling
  <2>2. Quiet /\ pos' \in Nat
    BY <1>7, <2>1, QuietMove DEF EndOpaque
  <2>3. QED
    BY <1>7, <2>1, <2>2, QuietPop DEF EndOpaque
<1>8. QED
  BY <1>1, <1>2, <1>3, <1>4, <1>5, <1>6, <1>7 DEF Primary

LEMMA PastCommaMoves == \A i : PastComma(i) = i \/ PastComma(i) = i + 1
BY DEF PastComma

LEMMA IncompleteRecords == Before /\ IInv' /\ Incomplete => RecordInv'
<1> SUFFICES ASSUME Before, IInv', Incomplete PROVE RecordInv'
  OBVIOUS
<1> USE DEF Push, Advance
<1>1. CASE NoPart \/ NoField
  <2>1. UNCHANGED <<source, pos, frames, calls, accesses>>
    BY <1>1, Zenon DEF NoPart, NoField, Reject
  <2>2. QED
    BY <2>1, StillRecords
<1>2. CASE OpenIncomplete
  <2> DEFINE f == [at |-> "fields", fields |-> << >>]
  <2>1. frames' = Append(frames, f) /\ pos' = pos + 2 /\ Top.at \in {"left", "right"}
        /\ UNCHANGED <<source, calls, accesses>>
    BY <1>2, Zenon DEF OpenIncomplete, InPrimary
  <2>2. Quiet /\ pos' \in Nat /\ Silent(f)
    BY <2>1, QuietMove, SilentIs DEF Calling
  <2> HIDE DEF f
  <2>3. QED
    BY <2>1, <2>2, QuietPush
<1>3. CASE ReasonField
  <2>1. pos' = pos + 3 \/ pos' = pos + 4
    BY <1>3, PastCommaMoves, BeforeFacts DEF ReasonField
  <2>2. Quiet /\ pos' \in Nat /\ Top.at # "else"
    BY <1>3, <2>1, QuietMove DEF ReasonField, Calling
  <2>3. QED
    BY <1>3, <2>2, QuietUpdate DEF ReasonField, WithField, Trees
<1>4. CASE StartParts
  <2> DEFINE f == [at |-> "parts", items |-> <<At(pos + 2)>>]
  <2>1. Quiet /\ pos' \in Nat
    BY <1>4, QuietMove DEF StartParts, Calling
  <2>2. Silent(f) /\ frames' = Append(frames, f)
    BY <1>4, SilentIs DEF StartParts
  <2> HIDE DEF f
  <2>3. QED
    BY <2>1, <2>2, QuietPush
<1>5. CASE InParts
  <2>1. Plain(Top) /\ Top.at = "parts" /\ Top.at \notin Calling
    BY <1>5, SilentIs DEF InParts, Calling
  <2>2. Quiet /\ pos' \in Nat
    BY <1>5, <2>1, QuietMove DEF InParts
  <2>3. CASE Next1 = ","
    BY <1>5, <2>1, <2>2, <2>3, QuietTopChange DEF InParts
  <2>4. CASE Next1 # ","
    BY <1>5, <2>1, <2>2, <2>4, QuietPopAndUpdateTop DEF InParts, WithField, Trees
  <2>5. QED
    BY <2>3, <2>4
<1>6. CASE OtherField
  <2> DEFINE f == [at |-> "field", name |-> Next1]
             g == [at |-> "left"]
  <2>1. Quiet /\ pos' \in Nat
    BY <1>6, QuietMove DEF OtherField, Calling
  <2>2. Silent(f) /\ Silent(g) /\ frames' = frames \o <<f, g>>
    BY <1>6, SilentIs DEF OtherField
  <2> HIDE DEF f, g
  <2>3. QED
    BY <2>1, <2>2, QuietPushTwo
<1>7. CASE EndIncomplete
  <2>1. frames' = Under /\ pos' = pos + 1 /\ Top.at = "fields"
        /\ UNCHANGED <<source, calls, accesses>>
    BY <1>7, Zenon DEF EndIncomplete
  <2>2. Quiet /\ pos' \in Nat /\ Plain(Top)
    BY <2>1, QuietMove, SilentIs DEF Calling
  <2>3. QED
    BY <2>1, <2>2, QuietPop
<1>8. QED
  BY <1>1, <1>2, <1>3, <1>4, <1>5, <1>6, <1>7 DEF Incomplete

LEMMA ExpressionRecords == Before /\ IInv' /\ Expression => RecordInv'
<1> SUFFICES ASSUME Before, IInv', Expression PROVE RecordInv'
  OBVIOUS
<1> USE DEF Push, Advance
<1>1. CASE Chained \/ NoThen
  <2>1. UNCHANGED <<source, pos, frames, calls, accesses>>
    BY <1>1, Zenon DEF Chained, NoThen, Reject
  <2>2. QED
    BY <2>1, StillRecords
<1>2. CASE StartRight
  <2> DEFINE f == [at |-> "right", left |-> value]
  <2>1. Quiet /\ pos' \in Nat /\ Plain(Top)
    BY <1>2, QuietMove, SilentIs DEF StartRight, Calling
  <2>2. Silent(f) /\ frames' = Append(Under, f)
    BY <1>2, SilentIs DEF StartRight
  <2> HIDE DEF f
  <2>3. QED
    BY <2>1, <2>2, QuietReplace
<1>3. CASE EndExpression
  <2>1. Quiet /\ pos' \in Nat /\ Plain(Top)
    BY <1>3, QuietMove, SilentIs DEF EndExpression, Calling
  <2>2. QED
    BY <1>3, <2>1, QuietPop DEF EndExpression
<1>4. CASE EndNot
  <2>1. Quiet /\ pos' \in Nat /\ Plain(Top)
    BY <1>4, QuietMove, SilentIs DEF EndNot, Calling
  <2>2. QED
    BY <1>4, <2>1, QuietPop DEF EndNot
<1>5. CASE EndField
  <2>1. Quiet /\ pos' \in Nat
    BY <1>5, PastCommaMoves, QuietMove DEF EndField, Calling
  <2>2. QED
    BY <1>5, <2>1, QuietPopAndUpdateTop DEF EndField, WithField, Trees
<1>6. QED
  BY <1>1, <1>2, <1>3, <1>4, <1>5, EndReturnRecords, OpenThenRecords DEF Expression

LEMMA BlockEndRecords == Before /\ IInv' /\ BlockEnd => RecordInv'
<1> SUFFICES ASSUME Before, IInv', BlockEnd PROVE RecordInv'
  OBVIOUS
<1>1. CASE NoElse \/ NoEnd
  <2>1. UNCHANGED <<source, pos, frames, calls, accesses>>
    BY <1>1, Zenon DEF NoElse, NoEnd, Reject
  <2>2. QED
    BY <2>1, StillRecords
<1>2. QED
  BY <1>1, EndThenRecords, OpenElseRecords, EndElseRecords DEF BlockEnd

-----------------------------------------------------------------------------
(* The same for the declarations.                                          *)
LEMMA Onward ==
  ASSUME Before, IInv', Top.at \notin Calling, NEW to, to >= pos, NEW stack, GoOn(to, stack)
  PROVE  Quiet /\ pos' \in Nat /\ frames' = stack
<1>1. pos' = to /\ frames' = stack /\ UNCHANGED <<source, calls, accesses>>
  BY DEF GoOn
<1>2. pos' \in DOMAIN source'
  BY DEF IInv
<1>3. QED
  BY <1>1, <1>2, BeforeFacts DEF Quiet

LEMMA Opens ==
  ASSUME Before, IInv', NEW keywords, Item(keywords), NEW count \in Nat, NEW frame,
         Silent(frame), Open(count, frame)
  PROVE  RecordInv'
<1>1. Top.at \notin Calling
  BY ItemFacts DEF InLoop, Calling
<1>2. Quiet /\ pos' \in Nat
  BY <1>1, QuietMove DEF Open, Advance
<1>3. QED
  BY <1>2, QuietPush DEF Open, Push

LEMMA TurnsInto ==
  ASSUME Before, IInv', Silent(Top), NEW to, to >= pos, NEW frame, Silent(frame),
         GoOn(to, Append(Under, frame))
  PROVE  RecordInv'
BY Onward, QuietReplace DEF Silent

LEMMA Gathers ==
  ASSUME Before, IInv', Top.at \notin {"path", "args", "else"}, NEW to, to >= pos,
         NEW field, field \notin Trees, NEW item, GoOn(to, WithItem(frames, field, item))
  PROVE  RecordInv'
<1>1. Quiet /\ pos' \in Nat /\ frames' = WithItem(frames, field, item)
  BY Onward DEF Calling
<1>2. QED
  BY <1>1, QuietUpdate DEF WithItem

LEMMA HandsOver ==
  ASSUME Before, IInv',
         Top.at \notin {"module", "fn", "then", "else", "return", "if", "path", "args"},
         NEW to, to >= pos, NEW field, field \notin Trees, NEW item,
         GoOn(to, WithItem(Under, field, item))
  PROVE  RecordInv'
BY Onward, QuietPopAndUpdateTop DEF WithItem, Calling

LEMMA TypeGoesOn ==
  ASSUME NEW i \in Nat
  PROVE  TypeEnd(i) >= i
BY DEF TypeEnd

LEMMA BismillahRecords == Before /\ IInv' /\ Bismillah => RecordInv'
<1> SUFFICES ASSUME Before, IInv', Bismillah PROVE RecordInv'
  OBVIOUS
<1> USE DEF Push
<1>0. pos \in Nat
  BY BeforeFacts
<1>1. CASE NoMore \/ MissingField
  <2>1. UNCHANGED <<source, pos, frames, calls, accesses>>
    BY <1>1, Zenon DEF NoMore, MissingField, Reject
  <2>2. QED
    BY <2>1, StillRecords
<1>2. CASE OpenBismillah
  <2> DEFINE f == [at |-> "bismillah", name |-> After, fields |-> << >>]
  <2>1. Item({"bismillah"}) /\ Open(3, f) /\ Silent(f)
    BY <1>2, SilentIs DEF OpenBismillah
  <2> HIDE DEF f
  <2>2. QED
    BY <2>1, Opens
<1>3. CASE StartList
  <2> DEFINE f == [at |-> "list", of |-> Next1, items |-> <<Entry(Next1, pos + 2)>>]
             count == 2 + Len(ItemPattern(Next1))
  <2>1. Item(ListFields) /\ Open(count, f) /\ Silent(f)
    BY <1>3, SilentIs DEF StartList, ListFields
  <2>2. count \in Nat
    BY ItemPatterns
  <2> HIDE DEF f, count
  <2>3. QED
    BY <2>1, <2>2, Opens
<1>4. CASE MoreOfName
  <2>1. Top.at = "list" /\ Plain(Top) /\ Top.at \notin Calling
    BY <1>4, SilentIs DEF MoreOfName, Calling
  <2>2. Quiet /\ pos' \in Nat
    <3>1. pos + 2 >= pos /\ \E stack : GoOn(pos + 2, stack)
      BY <1>0, <1>4 DEF MoreOfName
    <3>2. QED
      BY <2>1, <3>1, Onward
  <2>3. QED
    BY <1>4, <2>1, <2>2, QuietTopChange DEF MoreOfName, GoOn
<1>5. CASE MoreItems
  <2>1. Top.at = "list" /\ Plain(Top) /\ Top.at \notin Calling
    BY <1>5, SilentIs DEF MoreItems, Calling
  <2>2. Quiet /\ pos' \in Nat
    <3> DEFINE to == pos + 1 + Len(ItemPattern(Top.of))
    <3>1. to >= pos
      BY <1>0, ItemPatterns
    <3> HIDE DEF to
    <3>2. \E stack : GoOn(to, stack)
      BY <1>5 DEF MoreItems, to
    <3>3. QED
      BY <2>1, <3>1, <3>2, Onward
  <2>3. QED
    BY <1>5, <2>1, <2>2, QuietTopChange DEF MoreItems, GoOn
<1>6. CASE EndList
  <2>1. Top.at = "list" /\ Top.of \in ListFields /\ Top.at \notin Calling
    BY <1>6, RunFacts DEF EndList, IsFrame, Calling, Before
  <2>2. Quiet /\ pos' \in Nat
    <3>1. pos >= pos
      BY <1>0
    <3>2. GoOn(pos, WithList(Under, Top.of, Top.items))
      BY <1>6, Zenon DEF EndList
    <3>3. QED
      BY <2>1, <3>1, <3>2, Onward
  <2>3. CASE Top.of \in BismillahFields
    <3>1. \E x : frames' = [Under EXCEPT ![Len(Under)].fields = x]
      BY <1>6, <2>3 DEF EndList, GoOn, WithList
    <3>2. QED
      BY <2>1, <2>2, <3>1, QuietPopAndUpdateTop DEF Trees
  <2>4. CASE Top.of \notin BismillahFields
    <3>1. \E x : frames' = [Under EXCEPT ![Len(Under)][Top.of] = x]
      BY <1>6, <2>4 DEF EndList, GoOn, WithList
    <3>2. Top.of \notin Trees
      BY <2>1 DEF ListFields, BismillahFields, Trees
    <3>3. QED
      BY <2>1, <2>2, <3>1, <3>2, QuietPopAndUpdateTop
  <2>5. QED
    BY <2>3, <2>4
<1>7. CASE EndBismillah
  <2>1. Top.at = "bismillah" /\ \E x : GoOn(pos + 1, [Under EXCEPT ![1].bismillah = x])
    BY <1>7, Zenon DEF EndBismillah, EndOf
  <2>2. PICK x : GoOn(pos + 1, [Under EXCEPT ![1].bismillah = x])
    BY <2>1
  <2>3. Quiet /\ pos' \in Nat /\ frames' = [Under EXCEPT ![1].bismillah = x]
    BY <1>0, <2>1, <2>2, Onward DEF Calling
  <2>4. Plain(Top) /\ 1 \in DOMAIN Under /\ Under[1].at # "else"
    BY <2>1, SilentIs, TreeFacts, StackShape, UnderIsNoCall
  <2>5. QED
    BY <2>3, <2>4, QuietPopAndUpdate DEF Trees
<1>8. QED
  BY <1>1, <1>2, <1>3, <1>4, <1>5, <1>6, <1>7 DEF Bismillah

LEMMA CompoundTypeRecords == Before /\ IInv' /\ CompoundType => RecordInv'
<1> SUFFICES ASSUME Before, IInv', CompoundType PROVE RecordInv'
  OBVIOUS
<1>0. pos \in Nat /\ \A k \in Nat : pos + k >= pos
  BY BeforeFacts
<1>1. CASE NoLayer
  <2>1. UNCHANGED <<source, pos, frames, calls, accesses>>
    BY <1>1, Zenon DEF NoLayer, Reject
  <2>2. QED
    BY <2>1, StillRecords
<1>2. CASE OpenType
  <2> DEFINE f == [at |-> "zahir", name |-> After, fields |-> << >>]
  <2>1. Item({"type"}) /\ Open(5, f) /\ Silent(f)
    BY <1>2, SilentIs DEF OpenType
  <2> HIDE DEF f
  <2>2. QED
    BY <2>1, Opens
<1>3. CASE FieldDecl
  <2>1. Top.at \in Layers /\ \E x : GoOn(pos + 3, WithItem(frames, "fields", x))
    BY <1>3 DEF FieldDecl
  <2>2. QED
    BY <1>0, <2>1, Gathers DEF Layers, Trees
<1>4. CASE OpenBatin
  <2> DEFINE f == [at |-> "batin", name |-> Top.name, zahir |-> Top.fields, fields |-> << >>]
  <2>1. GoOn(pos + 3, Append(Under, f)) /\ Top.at = "zahir"
    BY <1>4, Zenon DEF OpenBatin, EndOf, Push
  <2>2. Silent(f) /\ Silent(Top)
    BY <2>1, SilentIs
  <2> HIDE DEF f
  <2>3. QED
    BY <1>0, <2>1, <2>2, TurnsInto
<1>5. CASE EndType
  <2>1. Top.at = "batin" /\ \E x : GoOn(pos + 2, WithItem(Under, "compound_types", x))
    BY <1>5, Zenon DEF EndType, EndOf
  <2>2. QED
    BY <1>0, <2>1, HandsOver DEF Trees
<1>6. QED
  BY <1>1, <1>2, <1>3, <1>4, <1>5 DEF CompoundType

LEMMA AdditiveOnlyRecords == Before /\ IInv' /\ AdditiveOnly => RecordInv'
<1> SUFFICES ASSUME Before, IInv', AdditiveOnly PROVE RecordInv'
  OBVIOUS
<1>0. pos \in Nat /\ \A k \in Nat : pos + k >= pos
  BY BeforeFacts
<1>1. CASE NoVersion
  <2>1. UNCHANGED <<source, pos, frames, calls, accesses>>
    BY <1>1, Zenon DEF NoVersion, Reject
  <2>2. QED
    BY <2>1, StillRecords
<1>2. CASE OpenAdditive
  <2> DEFINE f == [at |-> "version", name |-> At(pos + 2), parts |-> 2]
  <2>1. Item({"additive_only"}) /\ Open(6, f) /\ Silent(f)
    BY <1>2, SilentIs DEF OpenAdditive
  <2> HIDE DEF f
  <2>2. QED
    BY <2>1, Opens
<1>3. CASE InVersion
  <2>1. Top.at = "version" /\ Plain(Top) /\ Top.at \notin Calling
    BY <1>3, SilentIs DEF InVersion, Calling
  <2>2. Quiet /\ pos' \in Nat
    BY <1>0, <1>3, <2>1, Onward DEF InVersion
  <2>3. QED
    BY <1>3, <2>1, <2>2, QuietTopChange DEF InVersion, GoOn, Push
<1>4. CASE OpenExports
  <2> DEFINE f == [at |-> "exports", name |-> Top.name, parts |-> Top.parts,
                   exports |-> << >>, bump |-> None]
  <2>1. GoOn(pos + 1, Append(Under, f)) /\ Top.at = "version"
    BY <1>4, Zenon DEF OpenExports, Push
  <2>2. Silent(f) /\ Silent(Top)
    BY <2>1, SilentIs
  <2> HIDE DEF f
  <2>3. QED
    BY <1>0, <2>1, <2>2, TurnsInto
<1>5. CASE ExportDecl
  <2>1. Item({"export"}) /\ \E x : GoOn(TypeEnd(pos + 3), WithItem(frames, "exports", x))
    BY <1>5 DEF ExportDecl
  <2>2. Top.at = "exports"
    BY <2>1, ItemFacts
  <2>3. TypeEnd(pos + 3) >= pos
    BY <1>0 DEF TypeEnd
  <2>4. QED
    BY <2>1, <2>2, <2>3, Gathers DEF Trees
<1>6. CASE OpenBump
  <2> DEFINE f == [at |-> "bump", removes |-> << >>, renames |-> << >>]
  <2>1. Item({"bump"}) /\ Open(2, f) /\ Silent(f)
    BY <1>6, SilentIs DEF OpenBump
  <2> HIDE DEF f
  <2>2. QED
    BY <2>1, Opens
<1>7. CASE EndBump
  <2>1. Top.at = "bump" /\ \E x : GoOn(pos + 1, [Under EXCEPT ![Len(Under)].bump = x])
    BY <1>7, Zenon DEF EndBump, EndOf
  <2>2. PICK x : GoOn(pos + 1, [Under EXCEPT ![Len(Under)].bump = x])
    BY <2>1
  <2>3. Quiet /\ pos' \in Nat /\ frames' = [Under EXCEPT ![Len(Under)].bump = x]
    BY <1>0, <2>1, <2>2, Onward DEF Calling
  <2>4. QED
    BY <2>1, <2>3, QuietPopAndUpdateTop DEF Trees
<1>8. CASE EndAdditive
  <2>1. Top.at = "exports" /\ \E x : GoOn(pos + 1, WithItem(Under, "additive_only_modules", x))
    BY <1>8, Zenon DEF EndAdditive, EndOf
  <2>2. QED
    BY <1>0, <2>1, HandsOver DEF Trees
<1>9. QED
  BY <1>1, <1>2, <1>3, <1>4, <1>5, <1>6, <1>7, <1>8 DEF AdditiveOnly

LEMMA MizanRecords == Before /\ IInv' /\ Mizan => RecordInv'
<1> SUFFICES ASSUME Before, IInv', Mizan PROVE RecordInv'
  OBVIOUS
<1>0. pos \in Nat /\ \A k \in Nat : pos + k >= pos
  BY BeforeFacts
<1>1. CASE OpenMizan
  <2> DEFINE f == [at |-> "mizan", name |-> After, fields |-> << >>]
  <2>1. Item({"mizan"}) /\ Open(3, f) /\ Silent(f)
    BY <1>1, SilentIs DEF OpenMizan
  <2> HIDE DEF f
  <2>2. QED
    BY <2>1, Opens
<1>2. CASE StartBound
  <2> DEFINE f == [at |-> "bound", name |-> Next1]
             g == [at |-> "left"]
  <2>1. /\ Item(MizanHeads) /\ frames' = frames \o <<f, g>> /\ pos' = pos + 2
        /\ UNCHANGED <<source, calls, accesses>>
    BY <1>2 DEF StartBound, Advance
  <2>2. Silent(f) /\ Silent(g) /\ Top.at \notin Calling
    BY <2>1, SilentIs, ItemFacts DEF InLoop, Calling
  <2> HIDE DEF f, g
  <2>3. Quiet /\ pos' \in Nat
    BY <2>1, <2>2, QuietMove
  <2>4. QED
    BY <2>1, <2>2, <2>3, QuietPushTwo
<1>3. CASE EndBound
  <2>1. Quiet /\ pos' \in Nat
    BY <1>3, PastCommaMoves, QuietMove DEF EndBound, Calling
  <2>2. QED
    BY <1>3, <2>1, QuietPopAndUpdateTop DEF EndBound, WithField, Trees
<1>4. CASE EndMizan
  <2>1. Top.at = "mizan" /\ \E x : GoOn(pos + 1, WithItem(Under, "mizan_decls", x))
    BY <1>4, Zenon DEF EndMizan, EndOf
  <2>2. QED
    BY <1>0, <2>1, HandsOver DEF Trees
<1>5. QED
  BY <1>1, <1>2, <1>3, <1>4 DEF Mizan

LEMMA TanzilRecords == Before /\ IInv' /\ Tanzil => RecordInv'
<1> SUFFICES ASSUME Before, IInv', Tanzil PROVE RecordInv'
  OBVIOUS
<1>0. pos \in Nat /\ \A k \in Nat : pos + k >= pos
  BY BeforeFacts
<1>1. CASE OpenTanzil
  <2> DEFINE f == [at |-> "tanzil", name |-> After, dependencies |-> << >>]
  <2>1. Item({"tanzil"}) /\ Open(3, f) /\ Silent(f)
    BY <1>1, SilentIs DEF OpenTanzil
  <2> HIDE DEF f
  <2>2. QED
    BY <2>1, Opens
<1>2. CASE DependencyEntry
  <2>1. Item({"depends_on"}) /\ \E x : GoOn(pos + 3, WithItem(frames, "dependencies", x))
    BY <1>2 DEF DependencyEntry
  <2>2. Top.at = "tanzil"
    BY <2>1, ItemFacts
  <2>3. QED
    BY <1>0, <2>1, <2>2, Gathers DEF Trees
<1>3. CASE EndTanzil
  <2>1. Top.at = "tanzil" /\ \E x : GoOn(pos + 1, WithItem(Under, "tanzil_decls", x))
    BY <1>3, Zenon DEF EndTanzil, EndOf
  <2>2. QED
    BY <1>0, <2>1, HandsOver DEF Trees
<1>4. QED
  BY <1>1, <1>2, <1>3 DEF Tanzil

LEMMA FunctionRecords == Before /\ IInv' /\ Function => RecordInv'
<1> SUFFICES ASSUME Before, IInv', Function PROVE RecordInv'
  OBVIOUS
<1>0. pos \in Nat /\ \A k \in Nat : pos + k >= pos
  BY BeforeFacts
<1>1. CASE NoParam \/ NoSignature
  <2>1. UNCHANGED <<source, pos, frames, calls, accesses>>
    BY <1>1, Zenon DEF NoParam, NoSignature, Reject
  <2>2. QED
    BY <2>1, StillRecords
<1>2. CASE OpenFunction
  <2> DEFINE f == [at |-> "params", name |-> After, params |-> << >>]
  <2>1. Item({"fn"}) /\ Open(3, f) /\ Silent(f)
    BY <1>2, SilentIs DEF OpenFunction
  <2> HIDE DEF f
  <2>2. QED
    BY <2>1, Opens
<1>3. CASE Param
  <2>1. Top.at = "params" /\ \E x : GoOn(TypeEnd(ParamAt + 2), WithItem(frames, "params", x))
    BY <1>3 DEF Param
  <2>2. TypeEnd(ParamAt + 2) >= pos
    BY <1>0 DEF TypeEnd, ParamAt
  <2>3. QED
    BY <2>1, <2>2, Gathers DEF Trees
<1>4. CASE EndParams
  <2> DEFINE f == [at |-> "signature", name |-> Top.name, params |-> Top.params,
                   returns |-> << >>]
  <2>1. GoOn(pos + 1, Append(Under, f)) /\ Top.at = "params"
    BY <1>4, Zenon DEF EndParams, Push
  <2>2. Silent(f) /\ Silent(Top)
    BY <2>1, SilentIs
  <2> HIDE DEF f
  <2>3. QED
    BY <1>0, <2>1, <2>2, TurnsInto
<1>5. CASE ReturnArm
  <2>1. Top.at = "signature" /\ \E x : GoOn(TypeEnd(pos + 1), WithItem(frames, "returns", x))
    BY <1>5, Zenon DEF ReturnArm
  <2>2. TypeEnd(pos + 1) >= pos
    BY <1>0 DEF TypeEnd
  <2>3. QED
    BY <2>1, <2>2, Gathers DEF Trees
<1>6. QED
  BY <1>1, <1>2, <1>3, <1>4, <1>5, OpenBodyRecords, EndBodyRecords DEF Function

-----------------------------------------------------------------------------
LEMMA InitRecords == Init => RecordInv
<1> SUFFICES ASSUME Init PROVE RecordInv
  OBVIOUS
<1>1. /\ frames = <<EmptyModule>> /\ EmptyModule.at = "module"
      /\ EmptyModule.functions = << >> /\ "functions" \in DOMAIN EmptyModule
  BY DEF Init, EmptyModule
<1>2. Len(frames) = 1 /\ DOMAIN frames = {1} /\ frames[1] = EmptyModule
  BY <1>1
<1>3. TreesRight(frames) /\ ~InFn(frames)
  BY <1>1, <1>2, EmptyIsSeq DEF TreesRight, FrameRight, Blocks, InFn
<1>4. CallRight(frames[Len(frames)], pos) /\ DOMAIN << >> = {}
  BY <1>1, <1>2 DEF CallRight, Calling
<1>5. QED
  BY <1>1, <1>2, <1>3, <1>4 DEF RecordInv, RecordsRight

LEMMA NextRecords == IInv /\ RecordInv /\ [Next]_vars => RecordInv'
<1> SUFFICES ASSUME Before, [Next]_vars PROVE RecordInv'
  BY DEF Before
<1>1. IInv'
  BY NextInv DEF Before
<1>2. CASE NoItem \/ EndModule \/ Overflow \/ UNCHANGED vars
  <2>1. UNCHANGED <<source, pos, frames, calls, accesses>>
    BY <1>2, Zenon DEF NoItem, EndModule, Overflow, Reject, vars
  <2>2. QED
    BY <2>1, StillRecords
<1>3. QED
  BY <1>1, <1>2, StatementRecords, CallRecords, PrimaryRecords, IncompleteRecords,
     ExpressionRecords, BlockEndRecords, BismillahRecords, CompoundTypeRecords,
     AdditiveOnlyRecords, MizanRecords, TanzilRecords, FunctionRecords DEF Next

(* The flat lists of calls and of reads of layers agree with the tree and  *)
(* the text of every function, however the statements nest.                *)
THEOREM CallsRecordedHolds == Spec => []CallsRecorded
<1>1. Init => IInv /\ RecordInv
  BY InitInv, InitRecords
<1>2. IInv /\ RecordInv /\ [Next]_vars => (IInv /\ RecordInv)'
  BY NextInv, NextRecords
<1>3. RecordInv => CallsRecorded
  BY DEF RecordInv, RecordsRight, Entered, CallsRecorded, Module
<1>4. QED
  BY <1>1, <1>2, <1>3, PTL DEF Spec

-----------------------------------------------------------------------------
(* The declarations so far, against the tokens before p: what is done of a *)
(* kind, what is begun, and of a mizan block the field being read.         *)
Kinds == {"fn", "type", "mizan"}

Begun(f) ==
  CASE f.at \in {"params", "signature"} -> [kind |-> "fn", part |-> "head", name |-> f.name,
                                            params |-> f.params]
    [] f.at = "fn"      -> [kind |-> "fn", part |-> "body", name |-> f.name, params |-> f.params]
    [] f.at \in Layers  -> [kind |-> "type", name |-> f.name]
    [] f.at = "mizan"   -> [kind |-> "mizan", fields |-> f.fields]
    [] OTHER            -> None

BegunOf(stack) == Begun(IF Len(stack) > 1 THEN stack[2] ELSE stack[1])
BoundOf(stack) == IF Len(stack) > 2 /\ stack[3].at = "bound" THEN <<stack[3].name>> ELSE << >>

DoneOf(stack, kind) ==
  CASE kind = "fn"    -> stack[1].functions
    [] kind = "type"  -> stack[1].compound_types
    [] kind = "mizan" -> stack[1].mizan_decls

Upto(S, p) == {i \in S : i < p}
ColonsUpto(head, p) == {i \in ParamsOf(head) : i + 1 < p}

ParamAtPlace(i) == [name |-> At(i), type_path |-> TypePath(i + 2)]

ParamsRight(params, S) ==
  /\ IsSeq(params) /\ Held(params) = {ParamAtPlace(i) : i \in S}
  /\ \A i \in DOMAIN params : LayerKnown(params[i].type_path.layer)

FieldsRight(fields, bound, head, p) ==
  IsSeq(fields) /\ FieldNames(fields) \o bound = Chosen(source, Upto(FieldsOf(head), p))

DoneRight(kind, head, d, p) ==
  /\ kind \in {"fn", "type"} => d.name = At(head + 1)
  /\ kind = "fn"    => ParamsRight(d.params, ParamsOf(head))
  /\ kind = "mizan" => FieldsRight(d.fields, << >>, head, p)

NoBrace(head, p) == \A k \in head .. p - 1 : At(k) # "{"

BegunRight(kind, head, d, bound, p) ==
  /\ kind \in {"fn", "type"} => d.name = At(head + 1)
  /\ kind = "fn" /\ d.part = "body" => ParamsRight(d.params, ParamsOf(head))
  /\ kind = "fn" /\ d.part = "head" =>
       ParamsRight(d.params, ColonsUpto(head, p)) /\ NoBrace(head, p)
  /\ kind = "mizan" => FieldsRight(d.fields, bound, head, p)

HeadsUpto(kind, p) == InOrder(Upto(HeadsOf(kind), p))

Begins(d, kind) == IF d.kind = kind THEN 1 ELSE 0

KindRight(kind, done, d, bound, p) ==
  LET heads == HeadsUpto(kind, p)
  IN /\ IsSeq(done) /\ Len(heads) = Len(done) + Begins(d, kind)
     /\ \A k \in DOMAIN done : DoneRight(kind, heads[k], done[k], p)
     /\ d.kind = kind => BegunRight(kind, heads[Len(heads)], d, bound, p)

(* So many parentheses are open before token p.                            *)
Nested(p, n) ==
  /\ p \in Nat \ {0} /\ n \in Nat
  /\ HowMany("(", 1, p - 1) = HowMany(")", 1, p - 1) + n

Parens(f) == IF f.at \in {"args", "opaque"} THEN f.parens ELSE IF f.at = "params" THEN 1 ELSE 0

(* A token that says nothing of the declarations of a kind.                *)
Missed(kind, d, k) ==
  /\ At(k) = kind => ~Balanced(1, k)
  /\ kind = "mizan" /\ At(k) \in MizanHeads => ~Balanced(1, k)
  /\ d.kind = kind /\ kind = "fn" /\ d.part = "head" => At(k) # ":" /\ At(k) # "{"

-----------------------------------------------------------------------------
LEMMA SourceIs ==
  ASSUME IInv
  PROVE  /\ Len(source) \in Nat /\ DOMAIN source = 1 .. Len(source) /\ At(Len(source)) = "eof"
         /\ \A i \in DOMAIN source : i \in Nat \ {0}
         /\ \A i : At(i) # "eof" => i \in DOMAIN source
<1>1. /\ source \in Seq({source[j] : j \in DOMAIN source}) /\ source # << >>
      /\ \A j \in DOMAIN source : source[j] = "eof" <=> j = Len(source)
  BY SourcesAssumption DEF IInv
<1>2. DOMAIN source = 1 .. Len(source) /\ Len(source) \in Nat
  BY <1>1
<1>3. Len(source) \in DOMAIN source
  BY <1>1, <1>2
<1>4. QED
  BY <1>1, <1>2, <1>3 DEF At

LEMMA UptoPlaces ==
  ASSUME IInv, NEW S, S \subseteq DOMAIN source, NEW p
  PROVE  Places(Upto(S, p)) /\ Upto(S, p) \subseteq S
<1>1. Upto(S, p) \subseteq 1 .. Len(source) /\ Len(source) \in Nat
  BY SourceIs DEF Upto
<1>2. QED
  BY <1>1, PlacesWithin DEF Upto

LEMMA HeadPlaces ==
  ASSUME IInv, NEW kind, NEW p
  PROVE  LET H == Upto(HeadsOf(kind), p)
             heads == HeadsUpto(kind, p)
         IN /\ Places(H) /\ IsSeq(heads) /\ Len(heads) = Cardinality(H) /\ Len(heads) \in Nat
            /\ DOMAIN heads = 1 .. Len(heads)
            /\ \A k \in DOMAIN heads : heads[k] \in H
            /\ \A i \in H : \E k \in DOMAIN heads : heads[k] = i
            /\ \A j, k \in DOMAIN heads : j < k => heads[j] < heads[k]
<1>1. Places(Upto(HeadsOf(kind), p))
  BY UptoPlaces DEF HeadsOf
<1>2. QED
  BY <1>1, InOrderIs, InOrderFacts DEF InRanks, HeadsUpto

LEMMA FieldPlaces ==
  ASSUME IInv, NEW head, NEW p
  PROVE  Places(Upto(FieldsOf(head), p))
BY UptoPlaces DEF FieldsOf

-----------------------------------------------------------------------------
(* Parentheses, token by token and over a run of others.                   *)
LEMMA NestedRun ==
  ASSUME NEW p, NEW n, Nested(p, n), NEW q \in Nat, p <= q,
         \A k \in p .. q - 1 : At(k) \notin {"(", ")"}
  PROVE  Nested(q, n)
<1>1. p \in Nat \ {0} /\ n \in Nat /\ q \in Nat \ {0}
  BY DEF Nested
<1>2. ASSUME NEW t \in {"(", ")"} PROVE HowMany(t, 1, q - 1) = HowMany(t, 1, p - 1)
  <2>1. \A k \in 1 .. q - 1 : k \in 1 .. p - 1 \/ k \in p .. q - 1
    BY <1>1
  <2>2. \A k \in 1 .. p - 1 : k \in 1 .. q - 1
    BY <1>1
  <2>3. {k \in 1 .. q - 1 : At(k) = t} = {k \in 1 .. p - 1 : At(k) = t}
    BY <2>1, <2>2
  <2>4. QED
    BY <2>3 DEF HowMany
<1>3. QED
  BY <1>1, <1>2 DEF Nested

LEMMA NestedStep ==
  ASSUME NEW p, NEW n, Nested(p, n)
  PROVE  /\ At(p) = "(" => Nested(p + 1, n + 1)
         /\ At(p) = ")" /\ n # 0 => Nested(p + 1, n - 1)
         /\ At(p) \notin {"(", ")"} => (Balanced(1, p) <=> n = 0)
<1>1. p \in Nat \ {0} /\ n \in Nat /\ HowMany("(", 1, p - 1) = HowMany(")", 1, p - 1) + n
  BY DEF Nested
<1>2. \A t : /\ HowMany(t, 1, p - 1) \in Nat
             /\ HowMany(t, 1, p) = HowMany(t, 1, p - 1) + (IF At(p) = t THEN 1 ELSE 0)
  BY <1>1, HowManyStep
<1>3. p + 1 - 1 = p /\ p + 1 \in Nat \ {0} /\ "(" # ")"
  BY <1>1
<1>4. CASE At(p) = "("
  <2>1. HowMany("(", 1, p) = HowMany("(", 1, p - 1) + 1 /\ HowMany(")", 1, p) = HowMany(")", 1, p - 1)
    BY <1>2, <1>3, <1>4
  <2>2. QED
    BY <1>1, <1>2, <1>3, <1>4, <2>1 DEF Nested
<1>5. CASE At(p) = ")"
  <2>1. HowMany(")", 1, p) = HowMany(")", 1, p - 1) + 1 /\ HowMany("(", 1, p) = HowMany("(", 1, p - 1)
    BY <1>2, <1>3, <1>5
  <2>2. QED
    BY <1>1, <1>2, <1>3, <1>5, <2>1 DEF Nested
<1>6. CASE At(p) \notin {"(", ")"}
  <2>1. HowMany(")", 1, p) = HowMany(")", 1, p - 1) /\ HowMany("(", 1, p) = HowMany("(", 1, p - 1)
    BY <1>2, <1>6
  <2>2. QED
    BY <1>1, <1>2, <1>6, <2>1 DEF Balanced
<1>7. QED
  BY <1>4, <1>5, <1>6

-----------------------------------------------------------------------------
(* What tokens change of that, whatever the step.                          *)
LEMMA KindFacts ==
  ASSUME IInv, NEW kind, NEW done, NEW d, NEW bound, NEW p, KindRight(kind, done, d, bound, p)
  PROVE  LET heads == HeadsUpto(kind, p)
         IN /\ IsSeq(done) /\ Len(done) \in Nat /\ DOMAIN done = 1 .. Len(done)
            /\ Len(heads) = Len(done) + Begins(d, kind)
            /\ \A k \in DOMAIN done : k \in DOMAIN heads /\ DoneRight(kind, heads[k], done[k], p)
            /\ d.kind = kind => /\ Len(heads) \in DOMAIN heads
                                /\ BegunRight(kind, heads[Len(heads)], d, bound, p)
<1> DEFINE heads == HeadsUpto(kind, p)
<1>1. /\ IsSeq(done) /\ Len(heads) = Len(done) + Begins(d, kind)
      /\ \A k \in DOMAIN done : DoneRight(kind, heads[k], done[k], p)
      /\ d.kind = kind => BegunRight(kind, heads[Len(heads)], d, bound, p)
  BY DEF KindRight
<1>2. Len(done) \in Nat /\ DOMAIN done = 1 .. Len(done)
  BY <1>1, SeqShape
<1>3. Len(heads) \in Nat /\ DOMAIN heads = 1 .. Len(heads)
  BY HeadPlaces
<1> HIDE DEF heads
<1>4. DOMAIN done \subseteq DOMAIN heads /\ (d.kind = kind => Len(heads) \in DOMAIN heads)
  BY <1>1, <1>2, <1>3 DEF Begins
<1>5. QED
  BY <1>1, <1>2, <1>4 DEF heads

LEMMA SignsDiffer ==
  /\ ":" \notin Kinds /\ ":" \notin MizanHeads /\ Kinds \cap MizanHeads = {}
  /\ "{" \notin Kinds /\ "{" \notin MizanHeads /\ ":" # "{" /\ "eof" # "{" /\ "(" # "{" /\ ")" # "{"
<1>1. "{" \notin Kinds /\ "{" \notin MizanHeads /\ ":" # "{" /\ "eof" # "{" /\ "(" # "{" /\ ")" # "{"
  BY Zenon DEF Kinds, MizanHeads
<1>2. QED
  BY <1>1 DEF Kinds, MizanHeads

LEMMA ParamsOfIs ==
  ASSUME IInv, NEW head, NEW i
  PROVE  i \in ParamsOf(head) <=>
           i \in DOMAIN source /\ At(i + 1) = ":" /\ i >= head /\ NoBrace(head, i + 1)
<1>1. i \in DOMAIN source => (i + 1) - 1 = i
  BY SourceIs
<1>2. ASSUME i \in DOMAIN source PROVE NoBrace(head, i + 1) <=> \A k \in head .. i : At(k) # "{"
  <2> DEFINE j == (i + 1) - 1
  <2>1. NoBrace(head, i + 1) <=> \A k \in head .. j : At(k) # "{"
    BY Zenon DEF NoBrace
  <2>2. j = i
    BY <1>1, <1>2
  <2> HIDE DEF j
  <2>3. QED
    BY <2>1, <2>2, Zenon
<1>3. QED
  BY <1>2, Zenon DEF ParamsOf

LEMMA HeadsStay ==
  ASSUME IInv, NEW kind, NEW p \in Nat, NEW q \in Nat, p <= q,
         \A k \in p .. q - 1 : At(k) = kind => ~Balanced(1, k)
  PROVE  HeadsUpto(kind, q) = HeadsUpto(kind, p)
<1>1. \A i \in HeadsOf(kind) : i \in Nat /\ At(i) = kind /\ Balanced(1, i)
  BY SourceIs DEF HeadsOf
<1>2. \A i \in Nat : i < q <=> i < p \/ i \in p .. q - 1
  OBVIOUS
<1>3. Upto(HeadsOf(kind), q) = Upto(HeadsOf(kind), p)
  BY <1>1, <1>2 DEF Upto
<1>4. QED
  BY <1>3 DEF HeadsUpto

(* The tokens from p on say nothing of the declarations of this kind.      *)
LEMMA UnseenKeeps ==
  ASSUME IInv, NEW kind \in Kinds, NEW done, NEW d, NEW bound, NEW p \in Nat, NEW q \in Nat, p <= q,
         KindRight(kind, done, d, bound, p), \A k \in p .. q - 1 : Missed(kind, d, k)
  PROVE  KindRight(kind, done, d, bound, q)
<1> DEFINE heads == HeadsUpto(kind, p)
<1>1. \A i \in DOMAIN source : i < q => i < p \/ i \in p .. q - 1
  BY SourceIs
<1>2. HeadsUpto(kind, q) = heads
  BY HeadsStay DEF Missed
<1>3. kind = "mizan" => \A h : Upto(FieldsOf(h), q) = Upto(FieldsOf(h), p)
  <2> SUFFICES ASSUME kind = "mizan", NEW h PROVE Upto(FieldsOf(h), q) = Upto(FieldsOf(h), p)
    OBVIOUS
  <2>1. \A i \in FieldsOf(h) : i \in DOMAIN source /\ At(i) \in MizanHeads /\ Balanced(1, i)
    BY DEF FieldsOf
  <2>2. \A i \in FieldsOf(h) : i < q <=> i < p
    BY <1>1, <2>1, SourceIs DEF Missed
  <2>3. QED
    BY <2>2 DEF Upto
<1>4. \A h, fields, b : kind = "mizan" =>
        (FieldsRight(fields, b, h, q) <=> FieldsRight(fields, b, h, p))
  BY <1>3 DEF FieldsRight
<1>5. \A h, x : DoneRight(kind, h, x, p) => DoneRight(kind, h, x, q)
  BY <1>4 DEF DoneRight
<1>6. ASSUME d.kind = kind, NEW h, BegunRight(kind, h, d, bound, p)
      PROVE  BegunRight(kind, h, d, bound, q)
  <2>1. CASE kind = "fn" /\ d.part = "head"
    <3>1. \A k \in p .. q - 1 : At(k) # ":" /\ At(k) # "{"
      BY <1>6, <2>1 DEF Missed
    <3>2. NoBrace(h, p) /\ d.name = At(h + 1) /\ ParamsRight(d.params, ColonsUpto(h, p))
      BY <1>6, <2>1 DEF BegunRight
    <3>3. NoBrace(h, q)
      <4>1. \A k \in h .. q - 1 : k \in Int => k \in h .. p - 1 \/ k \in p .. q - 1
        OBVIOUS
      <4>2. \A k \in h .. q - 1 : k \in Int
        OBVIOUS
      <4>3. QED
        BY <3>1, <3>2, <4>1, <4>2, Zenon DEF NoBrace
    <3>4. ColonsUpto(h, q) = ColonsUpto(h, p)
      <4>1. ASSUME NEW i \in ParamsOf(h) PROVE i + 1 < q <=> i + 1 < p
        <5>1. i \in Nat /\ At(i + 1) = ":"
          BY ParamsOfIs, SourceIs
        <5>2. i + 1 < q => i + 1 < p \/ i + 1 \in p .. q - 1
          BY <5>1
        <5>3. i + 1 < p => i + 1 < q
          BY <5>1
        <5>4. QED
          BY <3>1, <5>1, <5>2, <5>3
      <4>2. QED
        BY <4>1 DEF ColonsUpto
    <3>5. QED
      BY <2>1, <3>2, <3>3, <3>4 DEF BegunRight
  <2>2. CASE ~(kind = "fn" /\ d.part = "head")
    BY <1>4, <1>6, <2>2 DEF BegunRight
  <2>3. QED
    BY <2>1, <2>2
<1>7. QED
  BY <1>2, <1>5, <1>6 DEF KindRight

(* What is begun of another kind does not matter.                          *)
LEMMA OtherKind ==
  ASSUME NEW kind, NEW done, NEW d, NEW bound, NEW p, KindRight(kind, done, d, bound, p),
         d.kind # kind, NEW e, e.kind # kind, NEW b
  PROVE  KindRight(kind, done, e, b, p)
BY DEF KindRight, Begins

(* A declaration begins with the token p.                                  *)
LEMMA HeadBegins ==
  ASSUME IInv, NEW kind \in Kinds, NEW done, NEW none, none.kind # kind, NEW p \in Nat,
         KindRight(kind, done, none, << >>, p), At(p) = kind, Balanced(1, p),
         NEW d, d.kind = kind,
         kind \in {"fn", "type"} => d.name = At(p + 1),
         kind = "fn" => d.part = "head" /\ d.params = << >>,
         kind = "mizan" => d.fields = << >>
  PROVE  KindRight(kind, done, d, << >>, p + 1)
<1> DEFINE heads == HeadsUpto(kind, p)
           n == Len(done)
<1>1. /\ IsSeq(done) /\ n \in Nat /\ DOMAIN done = 1 .. n /\ Len(heads) = n /\ IsSeq(heads)
      /\ \A k \in 1 .. n : DoneRight(kind, heads[k], done[k], p)
  <2>1. Len(heads) = n + 0 /\ n \in Nat
    BY KindFacts DEF Begins
  <2>2. QED
    BY <2>1, KindFacts, HeadPlaces
<1>2. p \in DOMAIN source /\ p \in HeadsOf(kind)
  <2>1. At(p) # "eof"
    BY DEF Kinds
  <2>2. QED
    BY <2>1, SourceIs DEF HeadsOf
<1>3. /\ HeadsUpto(kind, p + 1) = Append(heads, p) /\ IsSeq(Append(heads, p))
      /\ Len(Append(heads, p)) = n + 1 /\ Append(heads, p)[n + 1] = p
      /\ \A k \in 1 .. n : Append(heads, p)[k] = heads[k]
  <2>1. Upto(HeadsOf(kind), p + 1) = Upto(HeadsOf(kind), p) \cup {p}
    <3>1. \A i \in HeadsOf(kind) : i < p + 1 <=> i < p \/ i = p
      BY SourceIs DEF HeadsOf
    <3>2. QED
      BY <1>2, <3>1 DEF Upto
  <2>2. Places(Upto(HeadsOf(kind), p)) /\ \A i \in Upto(HeadsOf(kind), p) : i < p
    BY HeadPlaces DEF Upto
  <2>3. InOrder(Upto(HeadsOf(kind), p) \cup {p}) = Append(InOrder(Upto(HeadsOf(kind), p)), p)
    BY <2>2, InOrderAppend
  <2>4. HeadsUpto(kind, p + 1) = Append(heads, p)
    BY <2>1, <2>3 DEF HeadsUpto
  <2>5. Len(heads) = n /\ IsSeq(heads)
    BY <1>1
  <2> HIDE DEF heads, n
  <2>6. /\ IsSeq(Append(heads, p)) /\ Len(Append(heads, p)) = Len(heads) + 1
        /\ \A k \in 1 .. Len(heads) : Append(heads, p)[k] = heads[k]
        /\ Append(heads, p)[Len(heads) + 1] = p
    BY <2>5, AppendSeq
  <2>7. QED
    BY <2>4, <2>5, <2>6
<1> HIDE DEF heads, n
<1>4. ASSUME kind = "mizan", NEW h
      PROVE  Upto(FieldsOf(h), p + 1) = Upto(FieldsOf(h), p) /\ Upto(FieldsOf(p), p + 1) = {}
  <2>1. \A i \in FieldsOf(h) : i \in Nat /\ i # p
    BY <1>4, SourceIs DEF FieldsOf, MizanHeads
  <2>2. \A i \in FieldsOf(h) : i < p + 1 <=> i < p
    BY <2>1
  <2>3. \A i \in FieldsOf(p) : i \in Nat /\ i # p /\ i >= p
    BY <1>4, SourceIs DEF FieldsOf, MizanHeads
  <2>4. \A i \in FieldsOf(p) : ~(i < p + 1)
    BY <2>3
  <2>5. QED
    BY <2>2, <2>4 DEF Upto
<1>5. \A h, x : DoneRight(kind, h, x, p) => DoneRight(kind, h, x, p + 1)
  BY <1>4 DEF DoneRight, FieldsRight
<1>6. BegunRight(kind, p, d, << >>, p + 1)
  <2>1. kind = "fn" => ParamsRight(<< >>, ColonsUpto(p, p + 1)) /\ NoBrace(p, p + 1)
    <3>1. \A i \in ParamsOf(p) : ~(i + 1 < p + 1)
      BY ParamsOfIs, SourceIs
    <3>2. ColonsUpto(p, p + 1) = {}
      BY <3>1 DEF ColonsUpto
    <3>3. ParamsRight(<< >>, {})
      BY EmptyIsSeq DEF ParamsRight, Held
    <3>4. p .. (p + 1) - 1 = {p}
      OBVIOUS
    <3>5. kind = "fn" => NoBrace(p, p + 1)
      <4>1. kind # "{"
        BY SignsDiffer
      <4>2. QED
        BY <3>4, <4>1, Zenon DEF NoBrace
    <3>6. QED
      BY <3>2, <3>3, <3>5
  <2>2. kind = "mizan" => FieldsRight(<< >>, << >>, p, p + 1)
    <3>1. FieldNames(<< >>) = << >> /\ << >> \o << >> = << >>
      BY EmptyIsSeq, ConcatSeq DEF FieldNames
    <3>2. Places({}) /\ Chosen(source, {}) = << >>
      BY InOrderNone, ChosenIs
    <3>3. QED
      BY <1>4, <3>1, <3>2, EmptyIsSeq DEF FieldsRight
  <2>3. QED
    BY <2>1, <2>2 DEF BegunRight
<1>7. QED
  <2>1. n + 1 = n + Begins(d, kind)
    BY DEF Begins
  <2>2. \A k \in DOMAIN done : DoneRight(kind, HeadsUpto(kind, p + 1)[k], done[k], p + 1)
    BY <1>1, <1>3, <1>5
  <2>3. BegunRight(kind, HeadsUpto(kind, p + 1)[Len(HeadsUpto(kind, p + 1))], d, << >>, p + 1)
    BY <1>3, <1>6
  <2>4. IsSeq(done) /\ Len(HeadsUpto(kind, p + 1)) = Len(done) + Begins(d, kind)
    BY <1>1, <1>3, <2>1 DEF n
  <2>5. QED
    BY <2>2, <2>3, <2>4 DEF KindRight

(* It is complete, and joins the others.                                   *)
LEMMA PartEnds ==
  ASSUME IInv, NEW kind \in Kinds, NEW done, NEW d, NEW bound, NEW p \in Nat,
         KindRight(kind, done, d, bound, p), d.kind = kind, NEW none, none.kind # kind, NEW x,
         \A h : BegunRight(kind, h, d, bound, p) => DoneRight(kind, h, x, p)
  PROVE  KindRight(kind, Append(done, x), none, << >>, p)
<1> DEFINE heads == HeadsUpto(kind, p)
           n == Len(done)
           all == Append(done, x)
<1>1. /\ IsSeq(done) /\ n \in Nat /\ DOMAIN done = 1 .. n /\ Len(heads) = n + 1
      /\ \A k \in 1 .. n : DoneRight(kind, heads[k], done[k], p)
      /\ BegunRight(kind, heads[n + 1], d, bound, p)
  <2>1. Len(heads) = n + 1
    BY KindFacts DEF Begins
  <2>2. QED
    BY <2>1, KindFacts
<1>2. /\ IsSeq(all) /\ Len(all) = n + 1 /\ DOMAIN all = 1 .. (n + 1) /\ all[n + 1] = x
      /\ \A k \in 1 .. n : all[k] = done[k]
  BY <1>1, AppendSeq
<1>3. DoneRight(kind, heads[n + 1], x, p)
  BY <1>1
<1> HIDE DEF heads, all, n
<1>4. \A k \in 1 .. (n + 1) : k = n + 1 \/ k \in 1 .. n
  BY <1>1
<1>5. \A k \in DOMAIN all : DoneRight(kind, heads[k], all[k], p)
  BY <1>1, <1>2, <1>3, <1>4
<1>6. Len(heads) = Len(all) + Begins(none, kind)
  <2>1. n + 1 + 0 = n + 1
    BY <1>1
  <2>2. QED
    BY <1>1, <1>2, <2>1 DEF Begins
<1>7. QED
  BY <1>2, <1>5, <1>6 DEF KindRight, heads, all

(* What is begun goes on, over tokens that may matter to it.               *)
LEMMA BegunChanges ==
  ASSUME IInv, NEW kind, NEW done, NEW d, NEW bound, NEW p, NEW q,
         KindRight(kind, done, d, bound, p), d.kind = kind, HeadsUpto(kind, q) = HeadsUpto(kind, p),
         NEW e, e.kind = kind, NEW b,
         \A k \in DOMAIN done : DoneRight(kind, HeadsUpto(kind, p)[k], done[k], q),
         \A h \in Upto(HeadsOf(kind), p) : BegunRight(kind, h, d, bound, p) => BegunRight(kind, h, e, b, q)
  PROVE  KindRight(kind, done, e, b, q)
<1> DEFINE heads == HeadsUpto(kind, p)
<1>1. heads[Len(heads)] \in Upto(HeadsOf(kind), p) /\ BegunRight(kind, heads[Len(heads)], d, bound, p)
  BY KindFacts, HeadPlaces
<1>2. IsSeq(done) /\ Len(heads) = Len(done) + Begins(d, kind) /\ Begins(e, kind) = Begins(d, kind)
  BY KindFacts DEF Begins
<1>3. BegunRight(kind, heads[Len(heads)], e, b, q)
  BY <1>1
<1>4. QED
  BY <1>2, <1>3 DEF KindRight

(* One more parameter, whose name is at i.                                 *)
LEMMA ParamsGrow ==
  ASSUME NEW params, NEW S, ParamsRight(params, S), NEW i, NEW x, x = ParamAtPlace(i),
         LayerKnown(x.type_path.layer)
  PROVE  ParamsRight(Append(params, x), S \cup {i})
<1> DEFINE n == Len(params)
           all == Append(params, x)
<1>1. /\ IsSeq(params) /\ n \in Nat /\ DOMAIN params = 1 .. n
      /\ Held(params) = {ParamAtPlace(j) : j \in S}
      /\ \A j \in 1 .. n : LayerKnown(params[j].type_path.layer)
  BY SeqShape DEF ParamsRight
<1>2. /\ IsSeq(all) /\ DOMAIN all = 1 .. (n + 1) /\ all[n + 1] = x /\ \A j \in 1 .. n : all[j] = params[j]
  <2>1. IsSeq(params)
    BY <1>1
  <2>2. /\ IsSeq(Append(params, x)) /\ DOMAIN Append(params, x) = 1 .. (Len(params) + 1)
        /\ Append(params, x)[Len(params) + 1] = x
        /\ \A j \in 1 .. Len(params) : Append(params, x)[j] = params[j]
    BY ONLY <2>1, AppendSeq
  <2>3. QED
    BY <2>2
<1> HIDE DEF n, all
<1>3. 1 .. (n + 1) = 1 .. n \cup {n + 1}
  BY <1>1
<1>4. \A j \in DOMAIN all : LayerKnown(all[j].type_path.layer)
  BY <1>1, <1>2, <1>3
<1>5. Held(all) = Held(params) \cup {x}
  BY <1>1, <1>2, <1>3 DEF Held
<1>6. Held(all) = {ParamAtPlace(j) : j \in S \cup {i}}
  BY <1>1, <1>5
<1>7. QED
  BY <1>2, <1>4, <1>6 DEF ParamsRight, all

LEMMA ParamAdded ==
  ASSUME IInv, NEW done, NEW d, NEW bound, NEW p \in Nat, NEW q \in Nat, p <= q,
         KindRight("fn", done, d, bound, p), d.kind = "fn", d.part = "head",
         NEW i \in Nat, p <= i, i + 1 < q, At(i) # "eof",
         NoBrace(p, q), \A k \in p .. q - 1 : At(k) # "fn" /\ (At(k) = ":" <=> k = i + 1),
         NEW e, e.kind = "fn", e.part = "head", e.name = d.name, NEW x,
         e.params = Append(d.params, x), x = ParamAtPlace(i), LayerKnown(x.type_path.layer), NEW b
  PROVE  KindRight("fn", done, e, b, q)
<1>1. i + 1 \in p .. q - 1
  OBVIOUS
<1>2. HeadsUpto("fn", q) = HeadsUpto("fn", p)
  BY <1>1, HeadsStay
<1>3. \A k \in DOMAIN done : DoneRight("fn", HeadsUpto("fn", p)[k], done[k], q)
  BY KindFacts DEF DoneRight
<1>4. ASSUME NEW h \in Upto(HeadsOf("fn"), p), BegunRight("fn", h, d, bound, p)
      PROVE  BegunRight("fn", h, e, b, q)
  <2>1. /\ d.name = At(h + 1) /\ ParamsRight(d.params, ColonsUpto(h, p)) /\ NoBrace(h, p)
        /\ h \in Nat /\ h < p
    BY <1>4, SourceIs DEF BegunRight, Upto, HeadsOf
  <2>2. NoBrace(h, q)
    <3>1. \A k \in h .. q - 1 : k \in h .. p - 1 \/ k \in p .. q - 1
      BY <2>1
    <3>2. QED
      BY <2>1, <3>1, Zenon DEF NoBrace
  <2>3. i \in ParamsOf(h)
    <3>1. \A k \in h .. (i + 1) - 1 : k \in h .. q - 1
      BY <2>1
    <3>2. NoBrace(h, i + 1)
      BY <2>2, <3>1, Zenon DEF NoBrace
    <3>3. i \in DOMAIN source /\ At(i + 1) = ":" /\ i >= h
      BY <1>1, <2>1, SourceIs
    <3>4. QED
      BY <3>2, <3>3, ParamsOfIs
  <2>4. ColonsUpto(h, q) = ColonsUpto(h, p) \cup {i}
    <3>1. \A j \in ParamsOf(h) : j \in Nat /\ At(j + 1) = ":"
      BY ParamsOfIs, SourceIs
    <3>2. ASSUME NEW j \in ParamsOf(h) PROVE j + 1 < q <=> j + 1 < p \/ j = i
      <4>1. j \in Nat
        BY <3>1
      <4>2. j + 1 < q => j + 1 < p \/ j + 1 \in p .. q - 1
        BY <4>1
      <4>3. j + 1 \in p .. q - 1 => j + 1 = i + 1
        BY <3>1
      <4>4. j + 1 = i + 1 => j = i
        BY <4>1
      <4>5. j + 1 < p => j + 1 < q
        BY <4>1
      <4>6. QED
        BY <4>2, <4>3, <4>4, <4>5
    <3>3. QED
      BY <2>3, <3>2 DEF ColonsUpto
  <2>5. ParamsRight(e.params, ColonsUpto(h, q))
    BY <2>1, <2>4, ParamsGrow
  <2>6. QED
    BY <2>1, <2>2, <2>5 DEF BegunRight
<1>5. QED
  BY <1>2, <1>3, <1>4, BegunChanges

(* The body opens with the token p.                                        *)
Opening(p) == At(p) = "{"

LEMMA BodyOpens ==
  ASSUME IInv, NEW done, NEW d, NEW bound, NEW p \in Nat,
         KindRight("fn", done, d, bound, p), d.kind = "fn", d.part = "head", Opening(p),
         NEW e, e.kind = "fn", e.part = "body", e.name = d.name, e.params = d.params, NEW b
  PROVE  KindRight("fn", done, e, b, p)
<1>1. \A k \in DOMAIN done : DoneRight("fn", HeadsUpto("fn", p)[k], done[k], p)
  BY KindFacts
<1>2. ASSUME NEW h \in Upto(HeadsOf("fn"), p), BegunRight("fn", h, d, bound, p)
      PROVE  BegunRight("fn", h, e, b, p)
  <2>1. /\ d.name = At(h + 1) /\ ParamsRight(d.params, ColonsUpto(h, p)) /\ h \in Nat /\ h < p
    BY <1>2, SourceIs DEF BegunRight, Upto, HeadsOf
  <2>2. ASSUME NEW j \in ParamsOf(h) PROVE j + 1 < p
    <3>1. j \in Nat /\ At(j + 1) = ":" /\ NoBrace(h, j + 1)
      BY ParamsOfIs, SourceIs
    <3>2. p \notin h .. (j + 1) - 1
      BY <3>1, Zenon DEF NoBrace, Opening
    <3>3. At(j + 1) # At(p)
      BY <3>1, SignsDiffer, Zenon DEF Opening
    <3>4. j + 1 # p
      BY <3>3
    <3>5. QED
      BY <2>1, <3>1, <3>2, <3>4
  <2>3. ColonsUpto(h, p) = ParamsOf(h)
    BY <2>2 DEF ColonsUpto
  <2>4. QED
    BY <2>1, <2>3 DEF BegunRight
<1>3. QED
  BY <1>1, <1>2, BegunChanges

-----------------------------------------------------------------------------
(* The fields of a mizan block.                                            *)
LEMMA NamesGrow ==
  ASSUME NEW fields, IsSeq(fields), NEW f
  PROVE  /\ IsSeq(FieldNames(fields)) /\ IsSeq(Append(fields, f))
         /\ FieldNames(Append(fields, f)) = FieldNames(fields) \o <<f.name>>
<1> DEFINE n == Len(fields)
           a == FieldNames(fields)
           all == Append(fields, f)
           b == FieldNames(all)
<1>1. n \in Nat /\ DOMAIN fields = 1 .. n
  BY SeqShape
<1>2. /\ IsSeq(all) /\ DOMAIN all = 1 .. (n + 1) /\ all[n + 1] = f /\ \A j \in 1 .. n : all[j] = fields[j]
  BY <1>1, AppendSeq
<1>3. IsSeq(a) /\ Len(a) = n /\ \A j \in 1 .. n : a[j] = fields[j].name
  <2>1. DOMAIN a = 1 .. n /\ a = [j \in DOMAIN a |-> a[j]] /\ \A j \in 1 .. n : a[j] = fields[j].name
    BY <1>1 DEF FieldNames
  <2> HIDE DEF a, n
  <2>2. QED
    BY <1>1, <2>1, SeqMade
<1> HIDE DEF all
<1>4. IsSeq(b) /\ Len(b) = n + 1 /\ \A j \in 1 .. (n + 1) : b[j] = all[j].name
  <2>1. DOMAIN b = 1 .. (n + 1) /\ b = [j \in DOMAIN b |-> b[j]] /\ \A j \in 1 .. (n + 1) : b[j] = all[j].name
    BY <1>2 DEF FieldNames
  <2>2. n + 1 \in Nat
    BY <1>1
  <2> HIDE DEF b, n
  <2>3. QED
    BY <2>1, <2>2, SeqMade
<1> HIDE DEF a, b, n
<1> DEFINE c == Append(a, f.name)
<1>5. /\ IsSeq(c) /\ Len(c) = n + 1 /\ c[n + 1] = f.name /\ \A j \in 1 .. n : c[j] = a[j]
      /\ c = a \o <<f.name>>
  <2>1. /\ IsSeq(c) /\ Len(c) = Len(a) + 1 /\ c[Len(a) + 1] = f.name /\ \A j \in 1 .. Len(a) : c[j] = a[j]
        /\ c = a \o <<f.name>>
    BY <1>3, AppendSeq
  <2> HIDE DEF c
  <2>2. QED
    BY <1>3, <2>1
<1> HIDE DEF c
<1>6. \A j \in 1 .. (n + 1) : b[j] = c[j]
  <2>1. \A j \in 1 .. (n + 1) : j = n + 1 \/ j \in 1 .. n
    BY <1>1
  <2>2. b[n + 1] = c[n + 1]
    <3>1. n + 1 \in 1 .. (n + 1)
      BY <1>1
    <3>2. b[n + 1] = all[n + 1].name
      BY <1>4, <3>1, Zenon
    <3>3. all[n + 1] = f /\ c[n + 1] = f.name
      BY <1>2, <1>5
    <3>4. QED
      BY ONLY <3>2, <3>3
  <2>3. ASSUME NEW j \in 1 .. n PROVE b[j] = c[j]
    <3>1. j \in 1 .. (n + 1)
      BY <1>1
    <3>2. b[j] = all[j].name
      BY <1>4, <3>1, Zenon
    <3>3. all[j] = fields[j] /\ a[j] = fields[j].name /\ c[j] = a[j]
      BY <1>2, <1>3, <1>5, Zenon
    <3>4. QED
      BY ONLY <3>2, <3>3
  <2>4. QED
    BY <2>1, <2>2, <2>3
<1>7. b = c
  BY <1>4, <1>5, <1>6, SameSeq
<1>8. QED
  BY <1>2, <1>3, <1>5, <1>7 DEF a, b, all

LEMMA BoundStarts ==
  ASSUME IInv, NEW done, NEW d, NEW p \in Nat,
         KindRight("mizan", done, d, << >>, p), d.kind = "mizan",
         At(p) \in MizanHeads, Balanced(1, p)
  PROVE  KindRight("mizan", done, d, <<At(p)>>, p + 1)
<1> DEFINE heads == HeadsUpto("mizan", p)
           n == Len(done)
           last == heads[n + 1]
<1>1. /\ n \in Nat /\ DOMAIN done = 1 .. n /\ Len(heads) = n + 1
      /\ \A k \in 1 .. n : DoneRight("mizan", heads[k], done[k], p)
  BY KindFacts DEF Begins
<1>2. /\ DOMAIN heads = 1 .. (n + 1) /\ last \in Upto(HeadsOf("mizan"), p)
      /\ \A i \in Upto(HeadsOf("mizan"), p) : i <= last
      /\ \A k \in 1 .. n : heads[k] \in Nat /\ heads[k] < last
      /\ \A k \in 1 .. (n + 1) : heads[k] \in Nat
  <2>1. /\ DOMAIN heads = 1 .. (n + 1)
        /\ \A k \in DOMAIN heads : heads[k] \in Upto(HeadsOf("mizan"), p)
        /\ \A i \in Upto(HeadsOf("mizan"), p) : \E k \in DOMAIN heads : heads[k] = i
        /\ \A j, k \in DOMAIN heads : j < k => heads[j] < heads[k]
    <3>1. DOMAIN heads = 1 .. Len(heads)
      BY HeadPlaces
    <3>2. QED
      BY <1>1, <3>1, HeadPlaces
  <2>2. \A i \in Upto(HeadsOf("mizan"), p) : i \in Nat
    BY SourceIs DEF Upto, HeadsOf
  <2> HIDE DEF heads, n
  <2>10. n \in Nat
    BY <1>1
  <2>3. n + 1 \in 1 .. (n + 1) /\ \A k \in 1 .. (n + 1) : k = n + 1 \/ (k \in 1 .. n /\ k < n + 1)
    BY <1>1
  <2>4. \A k \in 1 .. n : k \in 1 .. (n + 1)
    BY <1>1
  <2>5. \A k \in 1 .. (n + 1) : heads[k] \in Upto(HeadsOf("mizan"), p) /\ heads[k] \in Nat
    BY <2>1, <2>2
  <2>7. \A k \in 1 .. n : heads[k] < last
    <3> SUFFICES ASSUME NEW k \in 1 .. n PROVE heads[k] < heads[n + 1]
      OBVIOUS
    <3>1. k \in DOMAIN heads /\ n + 1 \in DOMAIN heads /\ k < n + 1
      BY <2>1, <2>3, <2>4, <2>10
    <3>2. QED
      BY <2>1, <3>1
  <2>8. \A i \in Upto(HeadsOf("mizan"), p) : i <= last
    <3> SUFFICES ASSUME NEW i \in Upto(HeadsOf("mizan"), p) PROVE i <= last
      OBVIOUS
    <3>1. PICK k \in 1 .. (n + 1) : heads[k] = i
      BY <2>1
    <3>2. CASE k = n + 1
      BY <2>2, <3>1, <3>2
    <3>3. CASE k \in 1 .. n
      BY <2>2, <2>3, <2>5, <2>7, <3>1, <3>3
    <3>4. QED
      BY <2>3, <3>2, <3>3
  <2>9. QED
    BY <2>1, <2>3, <2>4, <2>5, <2>7, <2>8
<1> HIDE DEF heads, n, last
<1>3. p \in DOMAIN source /\ At(p) # "mizan" /\ source[p] = At(p) /\ At(p) # "eof"
  <2>1. At(p) # "mizan" /\ At(p) # "eof"
    BY DEF MizanHeads
  <2>2. QED
    BY <2>1, SourceIs DEF At
<1>4. HeadsUpto("mizan", p + 1) = heads
  <2>1. p .. (p + 1) - 1 = {p} /\ p + 1 \in Nat /\ p <= p + 1
    OBVIOUS
  <2>2. QED
    BY <1>3, <2>1, HeadsStay DEF heads
<1>5. \A h : \A i \in FieldsOf(h) : i \in Nat /\ (i < p + 1 <=> i < p \/ i = p)
  BY SourceIs DEF FieldsOf
<1>6. p \in FieldsOf(last)
  <2>1. last < p /\ last \in Nat
    BY <1>2, SourceIs DEF Upto, HeadsOf
  <2>2. \A h \in HeadsOf("mizan") : h \in Nat /\ h # p
    BY <1>3, SourceIs DEF HeadsOf
  <2>3. \A h \in HeadsOf("mizan") : h <= p => h <= last
    BY <1>2, <2>2 DEF Upto
  <2>4. QED
    BY <1>3, <2>1, <2>3 DEF FieldsOf
<1>7. ASSUME NEW k \in 1 .. n PROVE p \notin FieldsOf(heads[k])
  <2>1. last \in HeadsOf("mizan") /\ last < p /\ last \in Nat /\ heads[k] \in Nat /\ heads[k] < last
    BY <1>2, SourceIs DEF Upto, HeadsOf
  <2>2. last <= p /\ ~(last <= heads[k])
    BY <2>1
  <2>3. QED
    BY <2>1, <2>2 DEF FieldsOf
<1>8. ASSUME NEW k \in 1 .. n PROVE DoneRight("mizan", heads[k], done[k], p + 1)
  <2>1. Upto(FieldsOf(heads[k]), p + 1) = Upto(FieldsOf(heads[k]), p)
    BY <1>5, <1>7 DEF Upto
  <2>2. QED
    BY <1>1, <2>1 DEF DoneRight, FieldsRight
<1>9. BegunRight("mizan", last, d, <<At(p)>>, p + 1)
  <2> DEFINE S == Upto(FieldsOf(last), p)
             names == FieldNames(d.fields)
  <2>1. FieldsRight(d.fields, << >>, last, p)
    <3>1. BegunRight("mizan", last, d, << >>, p)
      BY <1>1, KindFacts DEF last, heads
    <3>2. QED
      BY <3>1 DEF BegunRight
  <2>2. IsSeq(d.fields) /\ IsSeq(names) /\ names = Chosen(source, S)
    <3>1. IsSeq(d.fields) /\ names \o << >> = Chosen(source, S)
      BY <2>1 DEF FieldsRight
    <3>2. IsSeq(names)
      BY <3>1, NamesGrow
    <3>3. QED
      BY <3>1, <3>2, ConcatSeq
  <2>3. Upto(FieldsOf(last), p + 1) = S \cup {p}
    BY <1>5, <1>6 DEF Upto
  <2>4. Places(S) /\ \A i \in S : i < p
    BY FieldPlaces DEF Upto
  <2> HIDE DEF S, names
  <2>5. Chosen(source, S \cup {p}) = Append(Chosen(source, S), source[p])
    BY <2>4, ChosenAppend
  <2>6. Append(names, At(p)) = names \o <<At(p)>>
    BY <2>2, AppendSeq
  <2>7. QED
    BY <1>3, <2>2, <2>3, <2>5, <2>6 DEF BegunRight, FieldsRight, names
<1>10. QED
  <2>1. IsSeq(done) /\ Len(heads) = Len(done) + Begins(d, "mizan") /\ Len(heads) = n + 1
    BY <1>1, KindFacts DEF heads
  <2>2. QED
    BY <1>1, <1>4, <1>8, <1>9, <2>1 DEF KindRight, last

LEMMA BoundEnds ==
  ASSUME IInv, NEW done, NEW d, NEW name, NEW p,
         KindRight("mizan", done, d, <<name>>, p), d.kind = "mizan",
         NEW f, f.name = name, NEW e, e.kind = "mizan", e.fields = Append(d.fields, f)
  PROVE  KindRight("mizan", done, e, << >>, p)
<1>1. \A k \in DOMAIN done : DoneRight("mizan", HeadsUpto("mizan", p)[k], done[k], p)
  BY KindFacts
<1>2. ASSUME NEW h, BegunRight("mizan", h, d, <<name>>, p)
      PROVE  BegunRight("mizan", h, e, << >>, p)
  <2>1. IsSeq(d.fields) /\ FieldNames(d.fields) \o <<name>> = Chosen(source, Upto(FieldsOf(h), p))
    BY <1>2 DEF BegunRight, FieldsRight
  <2>2. IsSeq(e.fields) /\ FieldNames(e.fields) = FieldNames(d.fields) \o <<name>>
    BY <2>1, NamesGrow
  <2>3. IsSeq(FieldNames(e.fields))
    BY <2>2, NamesGrow
  <2>4. FieldNames(e.fields) \o << >> = FieldNames(e.fields)
    BY <2>3, ConcatSeq
  <2>5. QED
    BY <2>1, <2>2, <2>4 DEF BegunRight, FieldsRight
<1>3. QED
  BY <1>1, <1>2, BegunChanges

-----------------------------------------------------------------------------
(* Changes of the stack that leave what it says of the declarations.       *)
HeadFrames == {"params", "signature", "fn", "zahir", "batin", "mizan"}
Aside(f) == f.at \notin HeadFrames \cup {"module", "bound"}

(* The local variables that matter.                                        *)
Shaped(f) ==
  /\ f.at = "module" => {"functions", "compound_types", "mizan_decls"} \subseteq DOMAIN f
  /\ f.at \in {"params", "signature", "fn"} => {"name", "params"} \subseteq DOMAIN f
  /\ f.at \in Layers \cup {"bound"} => "name" \in DOMAIN f
  /\ f.at = "mizan" => "fields" \in DOMAIN f
  /\ f.at \in {"args", "opaque"} => "parens" \in DOMAIN f

Shape(stack) == \A i \in DOMAIN stack : Shaped(stack[i])

Alike(s, t) ==
  /\ Stack(t) /\ t[1].at = "module"
  /\ Shape(s) =>
       /\ Shape(t) /\ \A kind \in Kinds : DoneOf(t, kind) = DoneOf(s, kind)
       /\ BegunOf(t) = BegunOf(s) /\ BoundOf(t) = BoundOf(s)

LEMMA AlikeTwice ==
  ASSUME NEW s, NEW t, NEW u, Alike(s, t), Alike(t, u)
  PROVE  Alike(s, u)
BY DEF Alike

LEMMA AsideIs ==
  ASSUME NEW f, Aside(f) \/ f.at = "module"
  PROVE  Begun(f) = None /\ (Aside(f) => f.at # "bound")
<1>1. /\ f.at \notin {"params", "signature"} /\ f.at # "fn" /\ f.at \notin Layers /\ f.at # "mizan"
      /\ Aside(f) => f.at # "bound"
  BY DEF Aside, HeadFrames, Layers
<1>2. QED
  BY <1>1 DEF Begun

LEMMA OneMore ==
  ASSUME NEW s, Stack(s), s[1].at = "module", NEW f, Aside(f), Shaped(f)
  PROVE  LET t == Append(s, f)
         IN /\ Stack(t) /\ t[1] = s[1] /\ t[Len(t)] = f /\ Len(t) = Len(s) + 1
            /\ Shape(t) <=> Shape(s)
            /\ \A kind \in Kinds : DoneOf(t, kind) = DoneOf(s, kind)
            /\ BegunOf(t) = BegunOf(s) /\ BoundOf(t) = BoundOf(s)
<1> DEFINE t == Append(s, f)
           n == Len(s)
<1>1. n \in Nat \ {0} /\ DOMAIN s = 1 .. n /\ IsSeq(s)
  BY StackShape DEF Stack
<1>2. /\ IsSeq(t) /\ Len(t) = n + 1 /\ DOMAIN t = 1 .. (n + 1) /\ t[n + 1] = f
      /\ \A i \in 1 .. n : t[i] = s[i]
  <2>0. IsSeq(s)
    BY <1>1
  <2>1. /\ IsSeq(Append(s, f)) /\ Len(Append(s, f)) = Len(s) + 1
        /\ DOMAIN Append(s, f) = 1 .. (Len(s) + 1) /\ Append(s, f)[Len(s) + 1] = f
        /\ \A i \in 1 .. Len(s) : Append(s, f)[i] = s[i]
    BY ONLY <2>0, AppendSeq
  <2>2. QED
    BY <2>1
<1> HIDE DEF t, n
<1>3. Stack(t) /\ t[1] = s[1] /\ 1 \in 1 .. n
  <2>1. n + 1 # 0
    BY <1>1
  <2>2. QED
    BY <1>1, <1>2, <2>1, SeqShape DEF Stack
<1>4. 1 .. (n + 1) = 1 .. n \cup {n + 1}
  BY <1>1
<1>5. Shape(t) <=> Shape(s)
  BY <1>1, <1>2, <1>4 DEF Shape
<1>6. \A kind \in Kinds : DoneOf(t, kind) = DoneOf(s, kind)
  BY <1>3 DEF DoneOf, Kinds
<1>7. Begun(f) = None /\ f.at # "bound" /\ Begun(s[1]) = None
  BY AsideIs
<1>8. BegunOf(t) = BegunOf(s)
  <2>1. CASE n = 1
    BY <1>2, <1>7, <2>1 DEF BegunOf, n
  <2>2. CASE n > 1
    <3>1. n + 1 > 1 /\ 2 \in 1 .. n
      BY <1>1, <2>2
    <3>2. QED
      BY <1>2, <2>2, <3>1 DEF BegunOf, n
  <2>3. QED
    BY <1>1, <2>1, <2>2
<1>9. BoundOf(t) = BoundOf(s)
  <2>1. CASE n = 1
    <3>1. ~(n > 2) /\ ~(n + 1 > 2)
      BY <2>1
    <3>2. QED
      BY <1>2, <3>1 DEF BoundOf, n
  <2>2. CASE n = 2
    <3>1. ~(n > 2) /\ n + 1 = 3
      BY <2>2
    <3>2. QED
      BY <1>2, <1>7, <3>1 DEF BoundOf, n
  <2>3. CASE n > 2
    <3>1. n + 1 > 2 /\ 3 \in 1 .. n
      BY <1>1, <2>3
    <3>2. QED
      BY <1>2, <2>3, <3>1 DEF BoundOf, n
  <2>4. QED
    BY <1>1, <2>1, <2>2, <2>3
<1>10. QED
  BY <1>2, <1>3, <1>5, <1>6, <1>8, <1>9 DEF t, n

LEMMA AlikePush ==
  ASSUME NEW s, Stack(s), s[1].at = "module", NEW f, Aside(f), Shaped(f)
  PROVE  Alike(s, Append(s, f))
BY OneMore DEF Alike

LEMMA AlikePop ==
  ASSUME NEW s, Stack(s), Len(s) # 1, s[1].at = "module", Aside(s[Len(s)])
  PROVE  Alike(s, Front(s))
<1> DEFINE t == Front(s)
           f == s[Len(s)]
<1>1. s = Append(t, f) /\ IsSeq(t) /\ Len(t) = Len(s) - 1 /\ \A i \in 1 .. (Len(s) - 1) : t[i] = s[i]
  BY FrontLast DEF Stack
<1>2. Len(s) \in Nat \ {0} /\ DOMAIN s = 1 .. Len(s)
  BY StackShape
<1> HIDE DEF t, f
<1>3. Len(s) - 1 # 0 /\ 1 \in 1 .. (Len(s) - 1)
  BY <1>2
<1>4. Stack(t) /\ t[1] = s[1]
  BY <1>1, <1>3, SeqShape DEF Stack
<1>5. Shape(s) => Shaped(f)
  BY <1>2 DEF Shape, f
<1>6. ASSUME Shape(s)
      PROVE  /\ Shape(t) /\ \A kind \in Kinds : DoneOf(t, kind) = DoneOf(s, kind)
             /\ BegunOf(t) = BegunOf(s) /\ BoundOf(t) = BoundOf(s)
  <2>1. Aside(f) /\ Shaped(f) /\ t[1].at = "module"
    BY <1>4, <1>5, <1>6 DEF f
  <2>2. QED
    BY <1>1, <1>4, <1>6, <2>1, OneMore
<1>7. QED
  BY <1>4, <1>6 DEF Alike, t

Telling == {"at", "name", "params", "functions", "compound_types", "mizan_decls"}

LEMMA AlikeUpdate ==
  ASSUME NEW s, Stack(s), \A i \in DOMAIN s : "at" \in DOMAIN s[i], s[1].at = "module",
         NEW j \in DOMAIN s, NEW field, field \notin Telling, s[j].at = "mizan" => field # "fields", NEW x
  PROVE  Alike(s, [s EXCEPT ![j][field] = x])
<1> DEFINE g == [s[j] EXCEPT ![field] = x]
           t == [s EXCEPT ![j] = g]
           n == Len(s)
<1>1. n \in Nat \ {0} /\ DOMAIN s = 1 .. n /\ 1 \in 1 .. n
  BY StackShape
<1>2. /\ DOMAIN g = DOMAIN s[j] /\ g.at = s[j].at
      /\ \A y \in DOMAIN g : y # field => g[y] = s[j][y]
  BY DEF Telling
<1> HIDE DEF g
<1>3. DOMAIN t = 1 .. n /\ t = [i \in DOMAIN t |-> t[i]] /\ \A i \in 1 .. n : t[i] = IF i = j THEN g ELSE s[i]
  BY <1>1
<1> HIDE DEF t
<1>4. IsSeq(t) /\ Len(t) = n /\ Stack(t)
  <2>1. IsSeq(t) /\ Len(t) = n
    BY <1>1, <1>3, SeqMade
  <2>2. QED
    BY <1>1, <2>1, SeqShape DEF Stack
<1>5. \A i \in 1 .. n : t[i].at = s[i].at
  BY <1>2, <1>3
<1>6. Shaped(s[j]) => Shaped(g)
  BY <1>2 DEF Shaped
<1>7. Shape(s) => Shape(t)
  BY <1>1, <1>3, <1>6 DEF Shape
<1>8. ASSUME Shaped(s[j]) PROVE Begun(g) = Begun(s[j])
  <2>1. /\ s[j].at \in {"params", "signature", "fn"} => g.name = s[j].name /\ g.params = s[j].params
        /\ s[j].at \in Layers => g.name = s[j].name
        /\ s[j].at = "mizan" => g.fields = s[j].fields
    BY <1>2, <1>8 DEF Shaped, Telling
  <2>2. QED
    BY <1>2, <2>1 DEF Begun
<1>9. ASSUME Shape(s)
      PROVE  /\ \A kind \in Kinds : DoneOf(t, kind) = DoneOf(s, kind)
             /\ BegunOf(t) = BegunOf(s) /\ BoundOf(t) = BoundOf(s)
  <2>1. Shaped(s[j]) /\ Shaped(s[1])
    BY <1>1, <1>9 DEF Shape
  <2>2. \A i \in 1 .. n : Begun(t[i]) = Begun(s[i])
    BY <1>3, <1>8, <2>1
  <2>3. BegunOf(t) = BegunOf(s)
    <3>1. n > 1 => 2 \in 1 .. n
      BY <1>1
    <3>2. QED
      BY <1>1, <1>4, <2>2, <3>1 DEF BegunOf, n
  <2>4. \A kind \in Kinds : DoneOf(t, kind) = DoneOf(s, kind)
    <3>1. /\ t[1].functions = s[1].functions /\ t[1].compound_types = s[1].compound_types
          /\ t[1].mizan_decls = s[1].mizan_decls
      BY <1>1, <1>2, <1>3, <2>1 DEF Shaped, Telling
    <3>2. QED
      BY <3>1 DEF DoneOf, Kinds
  <2>5. BoundOf(t) = BoundOf(s)
    <3>1. n > 2 => 3 \in 1 .. n
      BY <1>1
    <3>2. ASSUME n > 2, s[3].at = "bound" PROVE t[3].name = s[3].name
      <4>1. Shaped(s[3])
        BY <1>1, <1>9, <3>1, <3>2 DEF Shape
      <4>2. QED
        BY <1>2, <1>3, <3>1, <3>2, <4>1 DEF Shaped, Telling
    <3>3. QED
      BY <1>4, <1>5, <3>1, <3>2 DEF BoundOf, n
  <2>6. QED
    BY <2>3, <2>4, <2>5
<1>10. t = [s EXCEPT ![j][field] = x]
  BY DEF t, g
<1>11. QED
  BY <1>1, <1>4, <1>5, <1>7, <1>9, <1>10 DEF Alike

-----------------------------------------------------------------------------
(* The invariant: the declarations, done or begun, are those of the tokens *)
(* read, and as many parentheses are open as the method on top knows of.   *)
Enclosed(f, p) ==
  /\ f.at \in {"args", "opaque"} => f.parens \in Nat \ {0}
  /\ At(p) # "eof" => Nested(p, Parens(f))

HeadsRight(stack, p) ==
  /\ Shape(stack)
  /\ Enclosed(stack[Len(stack)], p)
  /\ \A kind \in Kinds :
       KindRight(kind, DoneOf(stack, kind), BegunOf(stack), BoundOf(stack), p)

HeadInv == HeadsRight(frames, pos)

Prior == IInv /\ HeadInv

LEMMA TextStays ==
  ASSUME source' = source
  PROVE  \A stack, p : (HeadsRight(stack, p))' <=> HeadsRight(stack, p)
<1>1. \A i : (At(i))' = At(i)
  BY DEF At
<1>2. \A t, i, j : (HowMany(t, i, j))' = HowMany(t, i, j)
  BY <1>1 DEF HowMany
<1>3. \A i, j : (Balanced(i, j))' <=> Balanced(i, j)
  BY <1>2 DEF Balanced
<1>4. \A kind : (HeadsOf(kind))' = HeadsOf(kind)
  BY <1>1, <1>3 DEF HeadsOf
<1>5. \A h : (ParamsOf(h))' = ParamsOf(h)
  BY <1>1, Zenon DEF ParamsOf
<1>6. \A h : (FieldsOf(h))' = FieldsOf(h)
  BY <1>1, <1>3, <1>4 DEF FieldsOf
<1>7. \A h, p : ((NoBrace(h, p))' <=> NoBrace(h, p)) /\ (ColonsUpto(h, p))' = ColonsUpto(h, p)
  BY <1>1, <1>5, Zenon DEF NoBrace, ColonsUpto
<1>8. \A i : (ParamAtPlace(i))' = ParamAtPlace(i)
  BY <1>1 DEF ParamAtPlace, TypePath
<1>9. \A params, S : (ParamsRight(params, S))' <=> ParamsRight(params, S)
  BY <1>8 DEF ParamsRight
<1>10. \A fields, b, h, p : (FieldsRight(fields, b, h, p))' <=> FieldsRight(fields, b, h, p)
  BY <1>6 DEF FieldsRight
<1>11. \A kind, h, d, p : (DoneRight(kind, h, d, p))' <=> DoneRight(kind, h, d, p)
  BY <1>1, <1>5, <1>9, <1>10 DEF DoneRight
<1>12. \A kind, h, d, b, p : (BegunRight(kind, h, d, b, p))' <=> BegunRight(kind, h, d, b, p)
  BY <1>1, <1>5, <1>7, <1>9, <1>10 DEF BegunRight
<1>13. \A kind, p : (HeadsUpto(kind, p))' = HeadsUpto(kind, p)
  BY <1>4 DEF HeadsUpto
<1>14. \A kind, done, d, b, p : (KindRight(kind, done, d, b, p))' <=> KindRight(kind, done, d, b, p)
  BY <1>11, <1>12, <1>13 DEF KindRight
<1>15. \A f, p : (Enclosed(f, p))' <=> Enclosed(f, p)
  BY <1>1, <1>2 DEF Enclosed, Nested
<1>16. QED
  BY <1>14, <1>15 DEF HeadsRight

LEMMA HeadsStep ==
  ASSUME source' = source, HeadsRight(frames', pos')
  PROVE  HeadInv'
BY TextStays DEF HeadInv

-----------------------------------------------------------------------------
LEMMA PriorFacts ==
  ASSUME Prior
  PROVE  /\ Stack(frames) /\ frames[1].at = "module" /\ Top = frames[Len(frames)]
         /\ Len(frames) \in DOMAIN frames /\ 1 \in DOMAIN frames
         /\ Under = Front(frames) /\ "at" \in DOMAIN Top /\ Shaped(Top) /\ Shape(frames)
         /\ pos \in Nat \ {0} /\ Enclosed(Top, pos) /\ HeadsRight(frames, pos)
         /\ \A i \in DOMAIN frames : "at" \in DOMAIN frames[i]
         /\ (Top.at # "module") => Len(frames) # 1
         /\ IInv
<1>1. WellNested(frames) /\ pos \in Nat \ {0} /\ Under = Front(frames)
  BY RunFacts DEF Prior
<1>2. Stack(frames) /\ \A i \in DOMAIN frames : "at" \in DOMAIN frames[i]
  BY <1>1 DEF WellNested, IsFrame, Stack, IsSeq
<1>3. Len(frames) \in DOMAIN frames /\ 1 \in DOMAIN frames
  BY <1>2, StackShape
<1>4. QED
  BY <1>1, <1>2, <1>3 DEF WellNested, Top, Prior, HeadInv, HeadsRight, Shape

(* Whom a method calls for, and who calls for a method.                    *)
Open0(f) == f.at \notin {"args", "opaque", "params"}

LEMMA UnderPrior ==
  ASSUME Prior, Top.at # "module"
  PROVE  /\ Stack(Under) /\ Under[1] = frames[1] /\ Under[1].at = "module"
         /\ frames = Append(Under, Top) /\ Len(Under) = Len(frames) - 1
         /\ Len(Under) \in DOMAIN Under /\ 1 \in DOMAIN Under
         /\ \A i \in DOMAIN Under : "at" \in DOMAIN Under[i]
         /\ Lies(Under[Len(Under)].at, Top.at) /\ Open0(Under[Len(Under)])
         /\ Under[Len(Under)].at # "signature"
<1>1. WellNested(Under) /\ Lies(Under[Len(Under)].at, Top.at)
  BY RunFacts, FrontFacts DEF Prior
<1>2. Under[Len(Under)].at \notin {"args", "opaque", "params", "signature"}
  BY <1>1, Callers DEF Blocks, ExpressionUsers, Sides
<1>3. Stack(Under) /\ Under[1].at = "module" /\ \A i \in DOMAIN Under : "at" \in DOMAIN Under[i]
  BY <1>1 DEF WellNested, IsFrame, Stack, IsSeq
<1>4. Len(Under) \in Nat \ {0} /\ Len(Under) \in DOMAIN Under /\ 1 \in DOMAIN Under
  BY <1>3, StackShape
<1>5. frames = Append(Under, Top) /\ Len(Under) = Len(frames) - 1
      /\ \A i \in 1 .. (Len(frames) - 1) : Under[i] = frames[i]
  BY PriorFacts, FrontLast DEF Stack
<1>6. Under[1] = frames[1]
  <2>1. Len(frames) - 1 \in Nat \ {0}
    BY <1>4, <1>5
  <2>2. 1 \in 1 .. (Len(frames) - 1)
    BY <2>1
  <2>3. QED
    BY <1>5, <2>2
<1>7. QED
  BY <1>1, <1>2, <1>3, <1>4, <1>5, <1>6 DEF Open0

LEMMA BegunIs ==
  ASSUME NEW f
  PROVE  /\ f.at = "fn" => Begun(f).part = "body"
         /\ f.at \notin {"params", "signature", "fn"} => Begun(f).kind # "fn"
<1>1. CASE f.at = "fn"
  BY <1>1 DEF Begun, Layers
<1>2. CASE f.at \notin {"params", "signature", "fn"}
  <2>1. CASE f.at \in Layers
    <3>1. Begun(f) = [kind |-> "type", name |-> f.name]
      BY <1>2, <2>1 DEF Begun, Layers
    <3>2. QED
      BY <1>2, <3>1
  <2>2. CASE f.at = "mizan"
    <3>1. Begun(f) = [kind |-> "mizan", fields |-> f.fields]
      BY <1>2, <2>2 DEF Begun, Layers
    <3>2. QED
      BY <1>2, <3>1
  <2>3. CASE f.at \notin Layers /\ f.at # "mizan"
    <3>1. Begun(f) = None
      BY <1>2, <2>3 DEF Begun
    <3>2. QED
      BY <1>2, <3>1 DEF None
  <2>4. QED
    BY <2>1, <2>2, <2>3
<1>3. QED
  BY <1>1, <1>2

(* Nothing lies on a head, so a head is on top, or there is none.          *)
LEMMA NoOpenHead ==
  ASSUME Prior, Top.at \notin {"params", "signature"}
  PROVE  ~(BegunOf(frames).kind = "fn" /\ BegunOf(frames).part = "head")
<1>1. Len(frames) \in Nat \ {0} /\ DOMAIN frames = 1 .. Len(frames) /\ WellNested(frames)
  BY RunFacts DEF Prior
<1> DEFINE f == IF Len(frames) > 1 THEN frames[2] ELSE frames[1]
<1>2. f.at \notin {"params", "signature"}
  <2>1. CASE Len(frames) = 1
    BY <1>1, <2>1 DEF Top
  <2>2. CASE Len(frames) = 2
    BY <2>2 DEF Top
  <2>3. CASE Len(frames) > 2
    <3>1. 3 \in 2 .. Len(frames) /\ 3 - 1 = 2
      BY <1>1, <2>3
    <3>2. Lies(frames[2].at, frames[3].at)
      BY <1>1, <3>1 DEF WellNested
    <3>3. QED
      BY <2>3, <3>2, Callers DEF Blocks, ExpressionUsers, Sides
  <2>4. QED
    BY <1>1, <2>1, <2>2, <2>3
<1>3. BegunOf(frames) = Begun(f)
  BY DEF BegunOf
<1> HIDE DEF f
<1>4. f.at = "fn" => Begun(f).part = "body"
  BY BegunIs
<1>5. f.at # "fn" => Begun(f).kind # "fn"
  BY <1>2, BegunIs
<1>6. QED
  BY <1>3, <1>4, <1>5

-----------------------------------------------------------------------------
(* Steps that say nothing of declarations.                                 *)
Loud == Kinds \cup MizanHeads \cup {"(", ")", "eof"}
Soft(p, q) == \A k \in p .. q - 1 : At(k) \notin Loud

Lull ==
  /\ Prior /\ source' = source /\ pos' \in Nat /\ pos <= pos' /\ Soft(pos, pos')
  /\ Top.at \notin {"params", "signature"}

LEMMA HeadStep ==
  ASSUME Prior, source' = source, pos' \in Nat, pos <= pos', Alike(frames, frames'),
         \A kind \in Kinds : \A k \in pos .. pos' - 1 : Missed(kind, BegunOf(frames), k),
         Enclosed(frames'[Len(frames')], pos')
  PROVE  HeadInv'
<1>1. /\ Shape(frames') /\ \A kind \in Kinds : DoneOf(frames', kind) = DoneOf(frames, kind)
      /\ BegunOf(frames') = BegunOf(frames) /\ BoundOf(frames') = BoundOf(frames)
  BY PriorFacts DEF Alike
<1>2. ASSUME NEW kind \in Kinds
      PROVE  KindRight(kind, DoneOf(frames', kind), BegunOf(frames'), BoundOf(frames'), pos')
  <2>1. KindRight(kind, DoneOf(frames, kind), BegunOf(frames), BoundOf(frames), pos)
    BY PriorFacts DEF HeadsRight
  <2>2. pos \in Nat /\ IInv
    BY PriorFacts
  <2>3. KindRight(kind, DoneOf(frames, kind), BegunOf(frames), BoundOf(frames), pos')
    BY <2>1, <2>2, UnseenKeeps
  <2>4. QED
    BY <1>1, <2>3
<1>3. QED
  BY <1>1, <1>2, HeadsStep DEF HeadsRight

LEMMA SoftNested ==
  ASSUME NEW p \in Nat, NEW q \in Nat, p <= q, Soft(p, q), NEW n, At(p) # "eof" => Nested(p, n)
  PROVE  At(q) # "eof" => Nested(q, n)
<1>1. CASE p = q
  BY <1>1
<1>2. CASE p # q
  <2>1. p \in p .. q - 1
    BY <1>2
  <2>2. At(p) # "eof"
    BY <2>1 DEF Soft, Loud
  <2>3. \A k \in p .. q - 1 : At(k) \notin {"(", ")"}
    BY DEF Soft, Loud
  <2>4. QED
    BY <2>2, <2>3, NestedRun
<1>3. QED
  BY <1>1, <1>2

LEMMA LullStep ==
  ASSUME Lull, Alike(frames, frames'),
         Parens(frames'[Len(frames')]) = Parens(Top),
         frames'[Len(frames')].at \in {"args", "opaque"} => frames'[Len(frames')].parens \in Nat \ {0}
  PROVE  HeadInv'
<1>1. /\ Prior /\ source' = source /\ pos' \in Nat /\ pos \in Nat /\ pos <= pos' /\ Soft(pos, pos')
      /\ Enclosed(Top, pos)
  BY PriorFacts DEF Lull
<1>2. ASSUME NEW kind \in Kinds, NEW k \in pos .. pos' - 1
      PROVE  Missed(kind, BegunOf(frames), k)
  <2>1. At(k) \notin Kinds \cup MizanHeads
    BY <1>1 DEF Soft, Loud
  <2>2. ~(BegunOf(frames).kind = "fn" /\ BegunOf(frames).part = "head")
    BY NoOpenHead DEF Lull
  <2>3. QED
    BY <2>1, <2>2 DEF Missed
<1>3. Enclosed(frames'[Len(frames')], pos')
  <2>1. At(pos) # "eof" => Nested(pos, Parens(Top))
    BY <1>1 DEF Enclosed
  <2>2. At(pos') # "eof" => Nested(pos', Parens(Top))
    BY <1>1, <2>1, SoftNested
  <2>3. QED
    BY <2>2 DEF Enclosed
<1>4. QED
  BY <1>1, <1>2, <1>3, HeadStep

LEMMA Outer == ASSUME NEW f, Open0(f) PROVE Parens(f) = 0 /\ f.at \notin {"args", "opaque"}
BY DEF Open0, Parens

(* The same, where no method is concerned that counts parentheses.         *)
LEMMA LullOuter ==
  ASSUME Lull, Alike(frames, frames'), Open0(Top), Open0(frames'[Len(frames')])
  PROVE  HeadInv'
BY Outer, LullStep

LEMMA LullSame ==
  ASSUME Lull, frames' = frames
  PROVE  HeadInv'
<1>1. Alike(frames, frames') /\ frames'[Len(frames')] = Top
  BY PriorFacts DEF Alike, Lull
<1>2. Top.at \in {"args", "opaque"} => Top.parens \in Nat \ {0}
  BY PriorFacts DEF Lull, Enclosed
<1>3. QED
  BY <1>1, <1>2, LullStep

-----------------------------------------------------------------------------
(* One lemma for each way to change the stack, for frames that tell        *)
(* nothing of the declarations and count no parentheses.                   *)
Inert(f) == f.at \notin HeadFrames \cup {"module", "bound", "args", "opaque"}

LEMMA InertIs ==
  ASSUME NEW f, Inert(f)
  PROVE  /\ Aside(f) /\ Shaped(f) /\ Open0(f)
         /\ f.at \notin {"params", "signature", "module"}
BY DEF Inert, Aside, Shaped, Open0, HeadFrames, Layers

LEMMA InertExcept ==
  ASSUME NEW f, "at" \in DOMAIN f, Inert(f), NEW field, field # "at", NEW x
  PROVE  Inert([f EXCEPT ![field] = x])
BY DEF Inert

LEMMA LastPushed ==
  ASSUME NEW s, Stack(s), NEW f
  PROVE  Append(s, f)[Len(Append(s, f))] = f
<1>1. IsSeq(s)
  BY DEF Stack
<1>2. Len(Append(s, f)) = Len(s) + 1 /\ Append(s, f)[Len(s) + 1] = f
  BY ONLY <1>1, AppendSeq
<1>3. QED
  BY <1>2

LEMMA LastUpdated ==
  ASSUME NEW s, Stack(s), Len(s) \in DOMAIN s, \A i \in DOMAIN s : "at" \in DOMAIN s[i],
         NEW j \in DOMAIN s, NEW field, field # "at", NEW x
  PROVE  LET t == [s EXCEPT ![j][field] = x]
         IN  Len(t) = Len(s) /\ t[Len(t)].at = s[Len(s)].at
<1> DEFINE t == [s EXCEPT ![j][field] = x]
<1>1. PICK S : s \in Seq(S)
  BY DEF Stack, IsSeq
<1>2. Len(t) = Len(s)
  BY <1>1
<1>3. t[Len(s)].at = s[Len(s)].at
  OBVIOUS
<1>4. QED
  BY <1>2, <1>3

LEMMA OpenStill ==
  ASSUME NEW f, NEW g, f.at = g.at, Open0(f)
  PROVE  Open0(g)
BY DEF Open0

LEMMA AlikeReplace ==
  ASSUME Prior, Aside(Top), NEW f, Aside(f), Shaped(f)
  PROVE  Alike(frames, Append(Under, f)) /\ Append(Under, f)[Len(Append(Under, f))] = f
<1>1. Top.at # "module"
  BY DEF Aside
<1>2. Alike(frames, Under)
  BY <1>1, PriorFacts, AlikePop
<1>3. Stack(Under) /\ Under[1].at = "module"
  BY <1>1, UnderPrior
<1>4. Alike(Under, Append(Under, f))
  BY <1>3, AlikePush
<1>5. QED
  BY <1>2, <1>3, <1>4, AlikeTwice, LastPushed

LEMMA LullPush ==
  ASSUME Lull, Open0(Top), NEW f, Inert(f), frames' = Append(frames, f)
  PROVE  HeadInv'
<1>1. Stack(frames) /\ frames[1].at = "module" /\ Aside(f) /\ Shaped(f) /\ Open0(f)
  BY PriorFacts, InertIs DEF Lull
<1>2. Alike(frames, frames') /\ frames'[Len(frames')] = f
  BY <1>1, AlikePush, LastPushed
<1>3. QED
  BY <1>1, <1>2, LullOuter

LEMMA LullPushTwo ==
  ASSUME Lull, Open0(Top), NEW f, Aside(f), Shaped(f), NEW g, Inert(g), frames' = frames \o <<f, g>>
  PROVE  HeadInv'
<1> DEFINE t == Append(frames, f)
<1>1. Stack(frames) /\ frames[1].at = "module" /\ Aside(g) /\ Shaped(g) /\ Open0(g)
  BY PriorFacts, InertIs DEF Lull
<1>2. Alike(frames, t) /\ Stack(t) /\ t[1].at = "module"
  BY <1>1, AlikePush DEF Alike
<1>3. frames' = Append(t, g)
  <2>1. PICK S : frames \in Seq(S)
    BY <1>1 DEF Stack, IsSeq
  <2>2. frames \in Seq(S \cup {f, g})
    BY <2>1, SeqMonotonic
  <2>3. QED
    BY <2>2
<1> HIDE DEF t
<1>4. Alike(t, frames') /\ frames'[Len(frames')] = g
  BY <1>1, <1>2, <1>3, AlikePush, LastPushed
<1>5. Alike(frames, frames')
  BY <1>2, <1>4, AlikeTwice
<1>6. QED
  BY <1>1, <1>4, <1>5, LullOuter

LEMMA LullReplace ==
  ASSUME Lull, Inert(Top), NEW f, Inert(f), frames' = Append(Under, f)
  PROVE  HeadInv'
<1>1. Prior /\ Aside(Top) /\ Open0(Top) /\ Aside(f) /\ Shaped(f) /\ Open0(f)
  BY InertIs DEF Lull
<1>2. Alike(frames, frames') /\ frames'[Len(frames')] = f
  BY <1>1, AlikeReplace
<1>3. QED
  BY <1>1, <1>2, LullOuter

LEMMA LullTopChange ==
  ASSUME Lull, Inert(Top), NEW field, field # "at", NEW x,
         frames' = Append(Under, [Top EXCEPT ![field] = x])
  PROVE  HeadInv'
<1> DEFINE f == [Top EXCEPT ![field] = x]
<1>1. Inert(f)
  BY PriorFacts, InertExcept DEF Lull
<1> HIDE DEF f
<1>2. QED
  BY <1>1, LullReplace DEF f

LEMMA LullPop ==
  ASSUME Lull, Inert(Top), frames' = Under
  PROVE  HeadInv'
<1>1. Prior /\ Aside(Top) /\ Open0(Top) /\ Top.at # "module"
  BY InertIs DEF Lull
<1>2. Alike(frames, frames')
  BY <1>1, PriorFacts, AlikePop
<1>3. Open0(frames'[Len(frames')])
  BY <1>1, UnderPrior
<1>4. QED
  BY <1>1, <1>2, <1>3, LullOuter

LEMMA LullUpdate ==
  ASSUME Lull, Open0(Top), NEW field, field \notin Telling, Top.at = "mizan" => field # "fields", NEW x,
         frames' = [frames EXCEPT ![Len(frames)][field] = x]
  PROVE  HeadInv'
<1> DEFINE n == Len(frames)
<1>1. /\ Stack(frames) /\ frames[1].at = "module" /\ Top = frames[n] /\ n \in DOMAIN frames
      /\ \A i \in DOMAIN frames : "at" \in DOMAIN frames[i]
  BY PriorFacts DEF Lull
<1>2. field # "at"
  BY DEF Telling
<1> HIDE DEF n
<1>3. Alike(frames, [frames EXCEPT ![n][field] = x])
  BY <1>1, AlikeUpdate
<1>4. frames'[Len(frames')].at = Top.at
  BY <1>1, <1>2, LastUpdated DEF n
<1>5. Open0(frames'[Len(frames')])
  BY <1>4, OpenStill
<1>6. QED
  BY <1>3, <1>5, LullOuter DEF n

LEMMA LullPopAndUpdate ==
  ASSUME Lull, Inert(Top), NEW j \in DOMAIN Under, NEW field, field \notin Telling,
         Under[j].at = "mizan" => field # "fields", NEW x, frames' = [Under EXCEPT ![j][field] = x]
  PROVE  HeadInv'
<1>1. Prior /\ Aside(Top) /\ Open0(Top) /\ Top.at # "module"
  BY InertIs DEF Lull
<1>2. Alike(frames, Under)
  BY <1>1, PriorFacts, AlikePop
<1>3. /\ Stack(Under) /\ Under[1].at = "module" /\ Len(Under) \in DOMAIN Under
      /\ \A i \in DOMAIN Under : "at" \in DOMAIN Under[i]
      /\ Open0(Under[Len(Under)])
  BY <1>1, UnderPrior
<1>4. field # "at"
  BY DEF Telling
<1>5. Alike(Under, frames')
  BY <1>3, AlikeUpdate
<1>6. frames'[Len(frames')].at = Under[Len(Under)].at
  BY <1>3, <1>4, LastUpdated
<1>7. Open0(frames'[Len(frames')])
  BY <1>3, <1>6, OpenStill
<1>8. Alike(frames, frames')
  BY <1>2, <1>5, AlikeTwice
<1>9. QED
  BY <1>1, <1>7, <1>8, LullOuter

LEMMA LullPopAndUpdateTop ==
  ASSUME Lull, Inert(Top), NEW field, field \notin Telling, NEW x,
         field = "fields" => Under[Len(Under)].at # "mizan",
         frames' = [Under EXCEPT ![Len(Under)][field] = x]
  PROVE  HeadInv'
<1>1. Len(Under) \in DOMAIN Under
  BY UnderPrior, InertIs DEF Lull
<1>2. QED
  BY <1>1, LullPopAndUpdate

-----------------------------------------------------------------------------
(* Runs of tokens that say nothing of declarations.                        *)
Gentle == {".", ",", ":", "->", "<", "num", "str", "not", "return", "if", "else", "module",
           "bismillah", "tanzil", "additive_only", "export", "bump", "depends_on"}

LEMMA SoftTokens == \A t \in Names \cup Layers \cup ListFields \cup Gentle : t \notin Loud
BY DEF Names, Layers, ListFields, BismillahFields, Gentle, Loud, Kinds, MizanHeads

LEMMA SoftBraces == \A t : t \in {"{", "}", "|"} => t \notin Loud
BY ZenonT(30) DEF Loud, Kinds, MizanHeads

LEMMA SoftRuns ==
  ASSUME NEW p \in Nat
  PROVE  /\ Soft(p, p)
         /\ At(p) \notin Loud => Soft(p, p + 1)
         /\ At(p) \notin Loud /\ At(p + 1) \notin Loud => Soft(p, p + 2)
         /\ At(p) \notin Loud /\ At(p + 1) \notin Loud /\ At(p + 2) \notin Loud => Soft(p, p + 3)
<1>1. /\ p .. p - 1 = {} /\ p .. (p + 1) - 1 = {p} /\ p .. (p + 2) - 1 = {p, p + 1}
      /\ p .. (p + 3) - 1 = {p, p + 1, p + 2}
  OBVIOUS
<1>2. QED
  BY <1>1 DEF Soft

LEMMA SoftJoin ==
  ASSUME NEW p \in Nat, NEW q \in Nat, NEW r \in Nat, Soft(p, q), Soft(q, r)
  PROVE  Soft(p, r)
<1>1. \A k \in p .. r - 1 : k \in p .. q - 1 \/ k \in q .. r - 1
  OBVIOUS
<1>2. QED
  BY <1>1 DEF Soft

LEMMA SoftMatches ==
  ASSUME NEW i \in Nat, NEW n \in Nat, NEW pattern, DOMAIN pattern = 1 .. n, Matches(i, pattern),
         \A k \in 1 .. n : \A t \in pattern[k] : t \notin Loud
  PROVE  Soft(i, i + n)
<1> SUFFICES ASSUME NEW k \in i .. (i + n) - 1 PROVE At(k) \notin Loud
  BY DEF Soft
<1> DEFINE j == (k - i) + 1
<1>1. j \in 1 .. n /\ i + j - 1 = k
  OBVIOUS
<1> HIDE DEF j
<1>2. At(i + j - 1) \in pattern[j]
  BY <1>1 DEF Matches
<1>3. QED
  BY <1>1, <1>2

LEMMA SoftType ==
  ASSUME NEW i \in Nat, IsType(i)
  PROVE  TypeEnd(i) \in Nat /\ i <= TypeEnd(i) /\ Soft(i, TypeEnd(i))
<1>1. At(i) \notin Loud /\ (At(i + 1) = "." => At(i + 1) \notin Loud /\ At(i + 2) \notin Loud)
  BY SoftTokens DEF IsType, Gentle
<1>0. /\ At(i) \notin Loud => Soft(i, i + 1)
      /\ At(i) \notin Loud /\ At(i + 1) \notin Loud /\ At(i + 2) \notin Loud => Soft(i, i + 3)
  BY SoftRuns
<1>2. CASE At(i + 1) = "."
  BY <1>0, <1>1, <1>2 DEF TypeEnd
<1>3. CASE At(i + 1) # "."
  BY <1>0, <1>1, <1>3 DEF TypeEnd
<1>4. QED
  BY <1>2, <1>3

LEMMA SoftComma ==
  ASSUME NEW i \in Nat
  PROVE  PastComma(i) \in Nat /\ i <= PastComma(i) /\ Soft(i, PastComma(i))
<1>1. At(i) = "," => At(i) \notin Loud
  BY SoftTokens DEF Gentle
<1>2. Soft(i, i) /\ (At(i) \notin Loud => Soft(i, i + 1))
  BY SoftRuns
<1>3. PastComma(i) = i \/ (PastComma(i) = i + 1 /\ At(i) \notin Loud)
  <2>1. \A j : PastComma(j) = j \/ (PastComma(j) = j + 1 /\ At(j) = ",")
    BY DEF PastComma
  <2>2. QED
    BY <1>1, <2>1
<1>4. QED
  BY <1>2, <1>3

LEMMA LullTo ==
  ASSUME Prior, source' = source, Top.at \notin {"params", "signature"},
         NEW to \in Nat, pos <= to, Soft(pos, to), pos' = to
  PROVE  Lull
BY DEF Lull

LEMMA LullMove ==
  ASSUME Prior, source' = source, Top.at \notin {"params", "signature"},
         \/ pos' = pos
         \/ pos' = pos + 1 /\ Next1 \notin Loud
         \/ pos' = pos + 2 /\ Next1 \notin Loud /\ After \notin Loud
         \/ pos' = pos + 3 /\ Next1 \notin Loud /\ After \notin Loud /\ At(pos + 2) \notin Loud
  PROVE  Lull
<1>1. pos \in Nat
  BY PriorFacts
<1>2. pos' \in Nat /\ pos <= pos' /\ Soft(pos, pos')
  BY <1>1, SoftRuns DEF Next1, After
<1>3. QED
  BY <1>2 DEF Lull

(* What the items of the loops leave behind.                               *)
SoftSet(S) == \A t \in S : t \notin Loud

SoftList(pattern, n) == DOMAIN pattern = 1 .. n /\ \A k \in 1 .. n : SoftSet(pattern[k])

LEMMA SoftLists ==
  ASSUME NEW a, NEW b, NEW c, NEW d, NEW e, SoftSet(a), SoftSet(b), SoftSet(c), SoftSet(d), SoftSet(e)
  PROVE  SoftList(<<a, b>>, 2) /\ SoftList(<<a, b, c, d>>, 4) /\ SoftList(<<a, b, c, d, e>>, 5)
<1>1. DOMAIN <<a, b>> = 1 .. 2 /\ \A k \in 1 .. 2 : <<a, b>>[k] \in {a, b}
  OBVIOUS
<1>2. DOMAIN <<a, b, c, d>> = 1 .. 4 /\ \A k \in 1 .. 4 : <<a, b, c, d>>[k] \in {a, b, c, d}
  OBVIOUS
<1>3. DOMAIN <<a, b, c, d, e>> = 1 .. 5
      /\ \A k \in 1 .. 5 : <<a, b, c, d, e>>[k] \in {a, b, c, d, e}
  OBVIOUS
<1>4. QED
  BY <1>1, <1>2, <1>3 DEF SoftList

LEMMA SoftHeads == SoftList(BlockHead, 2) /\ SoftList(TypeHead, 4) /\ SoftList(AdditiveHead, 5)
<1>1. SoftSet(Names) /\ SoftSet({"module"}) /\ SoftSet({"v1"}) /\ SoftSet({"."})
      /\ SoftSet({"num"}) /\ SoftSet({"zahir"})
  BY SoftTokens DEF SoftSet, Names, Gentle, Layers
<1>2. SoftSet({"{"})
  BY SoftBraces, Zenon DEF SoftSet
<1>3. SoftList(BlockHead, 2)
  BY <1>1, <1>2, SoftLists, Zenon DEF BlockHead
<1>4. SoftList(TypeHead, 4)
  BY <1>1, <1>2, SoftLists, Zenon DEF TypeHead
<1>5. SoftList(AdditiveHead, 5)
  BY <1>1, SoftLists DEF AdditiveHead
<1>6. QED
  BY <1>3, <1>4, <1>5

LEMMA SoftPattern ==
  ASSUME NEW field
  PROVE  LET pattern == ItemPattern(field)
         IN  Len(pattern) \in {1, 3} /\ SoftList(<<{":"}>> \o pattern, 1 + Len(pattern))
<1>1. SoftSet(Names) /\ SoftSet({"->"}) /\ SoftSet({":"})
  BY SoftTokens DEF SoftSet, Gentle
<1>2. \A a, b, c, d : /\ Len(<<b, c, d>>) = 3 /\ DOMAIN (<<a>> \o <<b, c, d>>) = 1 .. (1 + 3)
                      /\ \A k \in 1 .. (1 + 3) : (<<a>> \o <<b, c, d>>)[k] \in {a, b, c, d}
  OBVIOUS
<1>3. \A a, b : /\ Len(<<b>>) = 1 /\ DOMAIN (<<a>> \o <<b>>) = 1 .. (1 + 1)
                /\ \A k \in 1 .. (1 + 1) : (<<a>> \o <<b>>)[k] \in {a, b}
  OBVIOUS
<1>4. CASE field = "renames"
  BY <1>1, <1>2, <1>4 DEF ItemPattern, SoftList
<1>5. CASE field # "renames"
  BY <1>1, <1>3, <1>5 DEF ItemPattern, SoftList
<1>6. QED
  BY <1>4, <1>5

LEMMA SoftBehind ==
  ASSUME NEW i \in Nat, NEW n \in Nat, NEW pattern, SoftList(pattern, n), Matches(i, pattern)
  PROVE  Soft(i, i + n)
BY SoftMatches DEF SoftList, SoftSet

-----------------------------------------------------------------------------
(* The argument lists, whose parentheses are counted.                      *)
LEMMA StillHeads ==
  ASSUME Prior, UNCHANGED <<source, pos, frames>>
  PROVE  HeadInv'
<1>1. HeadsRight(frames', pos')
  BY PriorFacts
<1>2. QED
  BY <1>1, HeadsStep

LEMMA MissedHere ==
  ASSUME Prior, Top.at \notin {"params", "signature"}, NEW k,
         At(k) \notin Kinds \cup MizanHeads \/ ~Balanced(1, k)
  PROVE  \A kind \in Kinds : Missed(kind, BegunOf(frames), k)
<1>1. ~(BegunOf(frames).kind = "fn" /\ BegunOf(frames).part = "head")
  BY NoOpenHead
<1>2. QED
  BY <1>1 DEF Missed

LEMMA HeadOne ==
  ASSUME Prior, source' = source, pos' = pos + 1, Top.at \notin {"params", "signature"},
         Next1 \notin Kinds \cup MizanHeads \/ ~Balanced(1, pos), Alike(frames, frames'),
         Enclosed(frames'[Len(frames')], pos')
  PROVE  HeadInv'
<1>1. pos \in Nat /\ pos' \in Nat /\ pos <= pos'
  BY PriorFacts
<1>2. \A k \in pos .. pos' - 1 : k = pos
  BY <1>1
<1>3. \A kind \in Kinds : Missed(kind, BegunOf(frames), pos)
  BY MissedHere DEF Next1
<1>4. \A kind \in Kinds : \A k \in pos .. pos' - 1 : Missed(kind, BegunOf(frames), k)
  BY <1>2, <1>3
<1>5. QED
  BY <1>1, <1>4, HeadStep

LEMMA NestedHere ==
  ASSUME Prior, Next1 # "eof"
  PROVE  Nested(pos, Parens(Top)) /\ (Top.at \in {"args", "opaque"} => Parens(Top) \in Nat \ {0})
BY PriorFacts DEF Enclosed, Next1, Parens

LEMMA ParensSigns == {"(", ")"} \cap (Kinds \cup MizanHeads) = {} /\ "(" # ")" /\ "eof" \notin {"(", ")"}
BY DEF Kinds, MizanHeads

LEMMA AlikePopAndUpdate ==
  ASSUME Prior, Aside(Top), NEW j \in DOMAIN Under, NEW field, field \notin Telling,
         Under[j].at = "mizan" => field # "fields", NEW x
  PROVE  LET t == [Under EXCEPT ![j][field] = x]
         IN  Alike(frames, t) /\ Open0(t[Len(t)])
<1> DEFINE t == [Under EXCEPT ![j][field] = x]
<1>1. Top.at # "module"
  BY DEF Aside
<1>2. Alike(frames, Under)
  BY <1>1, PriorFacts, AlikePop
<1>3. /\ Stack(Under) /\ Under[1].at = "module" /\ Len(Under) \in DOMAIN Under
      /\ \A i \in DOMAIN Under : "at" \in DOMAIN Under[i]
      /\ Open0(Under[Len(Under)])
  BY <1>1, UnderPrior
<1>4. field # "at"
  BY DEF Telling
<1>5. Alike(Under, t)
  BY <1>3, AlikeUpdate
<1>6. t[Len(t)].at = Under[Len(Under)].at
  BY <1>3, <1>4, LastUpdated
<1> HIDE DEF t
<1>7. Open0(t[Len(t)])
  BY <1>3, <1>6, OpenStill
<1>8. Alike(frames, t)
  BY <1>2, <1>5, AlikeTwice
<1>9. QED
  BY <1>7, <1>8 DEF t

LEMMA PathStepHeads == Prior /\ PathStep => HeadInv'
<1> SUFFICES ASSUME Prior, PathStep PROVE HeadInv'
  OBVIOUS
<1>1. Top.at = "path" /\ source' = source /\ Inert(Top)
  BY DEF PathStep, Inert, HeadFrames
<1>2. CASE Next1 = "." /\ After \in Names \cup Layers
  <2>1. /\ frames' = Append(Under, [Top EXCEPT !.path = Append(@, After)]) /\ pos' = pos + 2
        /\ Next1 \notin Loud /\ After \notin Loud
    BY <1>2, SoftTokens DEF PathStep, Push, Advance, Gentle
  <2>2. Lull
    BY <1>1, <2>1, LullMove
  <2>3. QED
    BY <1>1, <2>1, <2>2, LullTopChange
<1>3. CASE ~(Next1 = "." /\ After \in Names \cup Layers)
  <2> DEFINE f == [at |-> "args", path |-> Top.path, start |-> Top.start, parens |-> 1, found |-> << >>]
  <2>1. Next1 = "(" /\ frames' = Append(Under, f) /\ pos' = pos + 1
    BY <1>3 DEF PathStep, Push, Advance
  <2>2. f.at = "args" /\ f.parens = 1 /\ "parens" \in DOMAIN f
    OBVIOUS
  <2> HIDE DEF f
  <2>3. Aside(f) /\ Shaped(f) /\ Parens(f) = 1
    BY <2>2 DEF Aside, Shaped, HeadFrames, Layers, Parens
  <2>4. Aside(Top) /\ Top.at \notin {"params", "signature"} /\ Parens(Top) = 0
    BY <1>1, InertIs DEF Parens
  <2>5. Alike(frames, frames') /\ frames'[Len(frames')] = f
    BY <2>1, <2>3, <2>4, AlikeReplace
  <2>6. Nested(pos, 0) /\ At(pos) = "("
    BY <2>1, <2>4, NestedHere, ParensSigns DEF Next1
  <2>7. Nested(pos + 1, 0 + 1)
    BY <2>6, NestedStep
  <2>8. Enclosed(f, pos')
    BY <2>1, <2>2, <2>3, <2>7 DEF Enclosed
  <2>9. QED
    BY <1>1, <2>1, <2>4, <2>5, <2>8, ParensSigns, HeadOne
<1>4. QED
  BY <1>2, <1>3

(* A list of arguments, with another count of parentheses.                 *)
LEMMA ParensChange ==
  ASSUME Prior, Top.at \in {"args", "opaque"}, source' = source, pos' = pos + 1,
         Next1 \in {"(", ")"}, NEW n, n \in Nat \ {0}, Nested(pos + 1, n),
         frames' = Append(Under, [Top EXCEPT !.parens = n])
  PROVE  HeadInv'
<1> DEFINE f == [Top EXCEPT !.parens = n]
<1>1. "at" \in DOMAIN Top /\ "parens" \in DOMAIN Top
  BY PriorFacts DEF Shaped
<1>2. f.at = Top.at /\ f.parens = n /\ "parens" \in DOMAIN f
  BY <1>1
<1>3. frames' = Append(Under, f)
  OBVIOUS
<1> HIDE DEF f
<1>4. Aside(Top) /\ Aside(f) /\ Shaped(f) /\ Parens(f) = n
  BY <1>2 DEF Aside, Shaped, HeadFrames, Layers, Parens
<1>5. Alike(frames, frames') /\ frames'[Len(frames')] = f
  BY <1>3, <1>4, AlikeReplace
<1>6. Enclosed(f, pos')
  BY <1>2, <1>4 DEF Enclosed
<1>7. QED
  BY <1>5, <1>6, ParensSigns, HeadOne

LEMMA ArgOpenHeads == Prior /\ ArgOpen => HeadInv'
<1> SUFFICES ASSUME Prior, ArgOpen PROVE HeadInv'
  OBVIOUS
<1> DEFINE n == Top.parens + 1
<1>1. /\ Top.at \in {"args", "opaque"} /\ source' = source /\ pos' = pos + 1 /\ Next1 = "("
      /\ frames' = Append(Under, [Top EXCEPT !.parens = n])
  BY DEF ArgOpen, Push, Advance
<1>2. Nested(pos, Top.parens) /\ Top.parens \in Nat \ {0} /\ At(pos) = "("
  BY <1>1, NestedHere, ParensSigns DEF Parens, Next1
<1>3. Nested(pos + 1, n)
  BY <1>2, NestedStep
<1>4. n \in Nat \ {0}
  BY <1>2
<1> HIDE DEF n
<1>5. QED
  BY <1>1, <1>3, <1>4, ParensChange

LEMMA ArgCloseHeads == Prior /\ ArgClose => HeadInv'
<1> SUFFICES ASSUME Prior, ArgClose PROVE HeadInv'
  OBVIOUS
<1> DEFINE n == Top.parens - 1
<1>1. /\ Top.at \in {"args", "opaque"} /\ source' = source /\ pos' = pos + 1 /\ Next1 = ")"
      /\ Top.parens > 1 /\ frames' = Append(Under, [Top EXCEPT !.parens = n])
  BY DEF ArgClose, Push, Advance
<1>2. Nested(pos, Top.parens) /\ Top.parens \in Nat \ {0} /\ At(pos) = ")"
  BY <1>1, NestedHere, ParensSigns DEF Parens, Next1
<1>3. Nested(pos + 1, n)
  BY <1>2, NestedStep
<1>4. n \in Nat \ {0}
  BY <1>1, <1>2
<1> HIDE DEF n
<1>5. QED
  BY <1>1, <1>3, <1>4, ParensChange

LEMMA ArgAccessHeads == Prior /\ ArgAccess => HeadInv'
<1> SUFFICES ASSUME Prior, ArgAccess PROVE HeadInv'
  OBVIOUS
<1> DEFINE f == [Top EXCEPT !.found = Append(@, Access)]
<1>1. /\ Top.at = "args" /\ source' = source /\ pos' = pos + 3 /\ frames' = Append(Under, f)
      /\ Next1 \notin Loud /\ After \notin Loud /\ At(pos + 2) \notin Loud
  BY SoftTokens DEF ArgAccess, Push, Advance, IsAccess, Gentle
<1>2. "at" \in DOMAIN Top /\ "parens" \in DOMAIN Top
  BY <1>1, PriorFacts DEF Shaped
<1>3. f.at = Top.at /\ f.parens = Top.parens /\ "parens" \in DOMAIN f
  BY <1>2
<1> HIDE DEF f
<1>4. Aside(Top) /\ Aside(f) /\ Shaped(f) /\ Parens(f) = Parens(Top)
  BY <1>1, <1>3 DEF Aside, Shaped, HeadFrames, Layers, Parens
<1>5. Alike(frames, frames') /\ frames'[Len(frames')] = f
  BY <1>1, <1>4, AlikeReplace
<1>6. Lull
  BY <1>1, LullMove
<1>7. f.parens \in Nat \ {0}
  BY <1>1, <1>3, PriorFacts DEF Enclosed
<1>8. QED
  BY <1>4, <1>5, <1>6, <1>7, LullStep

LEMMA ArgSkipHeads == Prior /\ ArgSkip => HeadInv'
<1> SUFFICES ASSUME Prior, ArgSkip PROVE HeadInv'
  OBVIOUS
<1>1. /\ Top.at \in {"args", "opaque"} /\ source' = source /\ pos' = pos + 1 /\ frames' = frames
      /\ Next1 \notin {"(", ")"} /\ Next1 # "eof"
  BY Zenon DEF ArgSkip, Advance
<1> DEFINE n == Parens(Top)
<1>2. Nested(pos, n) /\ n \in Nat \ {0} /\ At(pos) \notin {"(", ")"} /\ pos \in Nat
  BY <1>1, NestedHere, PriorFacts DEF Next1
<1> HIDE DEF n
<1>3. ~Balanced(1, pos)
  BY <1>2, NestedStep
<1>4. pos + 1 \in Nat /\ pos <= pos + 1 /\ \A k \in pos .. (pos + 1) - 1 : k = pos
  BY <1>2
<1>5. Nested(pos + 1, n)
  <2>1. \A k \in pos .. (pos + 1) - 1 : At(k) \notin {"(", ")"}
    BY <1>2, <1>4
  <2>2. QED
    BY <1>2, <1>4, <2>1, NestedRun
<1>6. Alike(frames, frames') /\ frames'[Len(frames')] = Top
  BY <1>1, PriorFacts DEF Alike
<1>7. Top.parens \in Nat \ {0}
  BY <1>1, PriorFacts DEF Enclosed
<1>8. Enclosed(Top, pos')
  BY <1>1, <1>5, <1>7 DEF Enclosed, n
<1>9. Top.at \notin {"params", "signature"}
  BY <1>1
<1>10. QED
  BY <1>1, <1>3, <1>6, <1>8, <1>9, HeadOne

(* The parenthesis that ends a list of arguments.                          *)
LEMMA LastParen ==
  ASSUME Prior, Top.at \in {"args", "opaque"}, Next1 = ")", Top.parens = 1, NEW f, Open0(f)
  PROVE  Enclosed(f, pos + 1)
<1>1. Nested(pos, 1) /\ At(pos) = ")"
  BY NestedHere, ParensSigns DEF Parens, Next1
<1>2. Nested(pos + 1, 1 - 1)
  BY <1>1, NestedStep
<1>3. QED
  BY <1>2, Outer DEF Enclosed

LEMMA EndCallHeads == Prior /\ EndCall => HeadInv'
<1> SUFFICES ASSUME Prior, EndCall PROVE HeadInv'
  OBVIOUS
<1>1. /\ Top.at = "args" /\ source' = source /\ pos' = pos + 1 /\ Next1 = ")" /\ Top.parens = 1
      /\ \E x : frames' = [Under EXCEPT ![Len(Under)].stmts = x]
  BY DEF EndCall, Advance, WithStatement
<1>2. PICK x : frames' = [Under EXCEPT ![Len(Under)].stmts = x]
  BY <1>1
<1>3. Aside(Top) /\ Top.at \notin {"params", "signature", "module"}
  BY <1>1 DEF Aside, HeadFrames
<1>4. Len(Under) \in DOMAIN Under /\ "stmts" \notin Telling
  BY <1>3, UnderPrior DEF Telling
<1>5. Alike(frames, frames') /\ Open0(frames'[Len(frames')])
  BY <1>2, <1>3, <1>4, AlikePopAndUpdate
<1>6. Enclosed(frames'[Len(frames')], pos')
  BY <1>1, <1>5, LastParen
<1>7. QED
  BY <1>1, <1>3, <1>5, <1>6, ParensSigns, HeadOne

LEMMA EndOpaqueHeads == Prior /\ EndOpaque => HeadInv'
<1> SUFFICES ASSUME Prior, EndOpaque PROVE HeadInv'
  OBVIOUS
<1>1. /\ Top.at = "opaque" /\ source' = source /\ frames' = Under
      /\ \/ Next1 = "eof" /\ pos' = pos + 0
         \/ Next1 = ")" /\ Top.parens = 1 /\ pos' = pos + 1
  BY DEF EndOpaque, Advance
<1>2. Aside(Top) /\ Top.at \notin {"params", "signature", "module"}
  BY <1>1 DEF Aside, HeadFrames
<1>3. Alike(frames, frames') /\ Open0(frames'[Len(frames')])
  BY <1>1, <1>2, PriorFacts, AlikePop, UnderPrior
<1>4. CASE Next1 = ")"
  <2>1. pos' = pos + 1 /\ Top.parens = 1
    BY <1>1, <1>4
  <2>2. Enclosed(frames'[Len(frames')], pos')
    BY <1>1, <1>3, <1>4, <2>1, LastParen
  <2>3. QED
    BY <1>1, <1>2, <1>3, <1>4, <2>1, <2>2, ParensSigns, HeadOne
<1>5. CASE Next1 = "eof"
  <2>1. pos' = pos /\ pos \in Nat /\ pos <= pos' /\ At(pos') = "eof"
    BY <1>1, <1>5, PriorFacts DEF Next1
  <2>2. Enclosed(frames'[Len(frames')], pos')
    BY <1>3, <2>1, Outer DEF Enclosed
  <2>3. \A kind \in Kinds : \A k \in pos .. pos' - 1 : Missed(kind, BegunOf(frames), k)
    BY <2>1
  <2>4. QED
    BY <1>1, <1>3, <2>1, <2>2, <2>3, HeadStep
<1>6. QED
  BY <1>1, <1>4, <1>5

(* The call form of a name.                                                *)
LEMMA OpaqueHeads ==
  ASSUME Prior, Open0(Top), Top.at # "signature", Next1 \in Names, After = "(",
         source' = source, pos' = pos + 2,
         NEW f, f.at = "opaque", "parens" \in DOMAIN f, f.parens = 1, frames' = Append(frames, f)
  PROVE  HeadInv'
<1>1. Aside(f) /\ Shaped(f) /\ Parens(f) = 1 /\ Parens(Top) = 0
      /\ Top.at \notin {"params", "signature"}
  BY DEF Aside, Shaped, HeadFrames, Layers, Parens, Open0
<1>2. Alike(frames, frames') /\ frames'[Len(frames')] = f
  BY <1>1, PriorFacts, AlikePush, LastPushed
<1>3. pos \in Nat /\ pos' \in Nat /\ pos <= pos' /\ \A k \in pos .. pos' - 1 : k \in {pos, pos + 1}
  BY PriorFacts
<1>4. Next1 # "eof" /\ Next1 \notin {"(", ")"} /\ Next1 \notin Kinds \cup MizanHeads
  BY SoftTokens DEF Loud
<1>5. Nested(pos + 1, 0)
  <2>1. Nested(pos, 0)
    BY <1>1, <1>4, NestedHere
  <2>2. pos + 1 \in Nat /\ pos <= pos + 1 /\ \A k \in pos .. (pos + 1) - 1 : k = pos
    BY <1>3
  <2>3. \A k \in pos .. (pos + 1) - 1 : At(k) \notin {"(", ")"}
    BY <1>4, <2>2 DEF Next1
  <2>4. QED
    BY <2>1, <2>2, <2>3, NestedRun
<1>6. Nested((pos + 1) + 1, 0 + 1)
  BY <1>5, NestedStep DEF After
<1>7. (pos + 1) + 1 = pos' /\ 0 + 1 = 1
  BY <1>3
<1>8. Enclosed(f, pos')
  BY <1>1, <1>6, <1>7 DEF Enclosed
<1>9. /\ \A kind \in Kinds : Missed(kind, BegunOf(frames), pos)
      /\ \A kind \in Kinds : Missed(kind, BegunOf(frames), pos + 1)
  BY <1>1, <1>4, MissedHere, ParensSigns DEF Next1, After
<1>10. \A kind \in Kinds : \A k \in pos .. pos' - 1 : Missed(kind, BegunOf(frames), k)
  BY <1>3, <1>9
<1>11. QED
  BY <1>2, <1>3, <1>8, <1>10, HeadStep

-----------------------------------------------------------------------------
(* The steps of statements and expressions.                                *)
LEMMA InertAt ==
  ASSUME NEW f
  PROVE  /\ Inert(f) <=> f.at \notin {"params", "signature", "fn", "zahir", "batin", "mizan", "module",
                                      "bound", "args", "opaque"}
         /\ Open0(f) <=> f.at \notin {"args", "opaque", "params"}
BY DEF Inert, Open0, HeadFrames

LEMMA StatementHeads == Prior /\ Statement => HeadInv'
<1> SUFFICES ASSUME Prior, Statement PROVE HeadInv'
  OBVIOUS
<1>1. CASE NoStatement
  <2>1. UNCHANGED <<source, pos, frames>>
    BY <1>1, Zenon DEF NoStatement, Reject
  <2>2. QED
    BY <2>1, StillHeads
<1>2. CASE StartReturn \/ StartIf
  <2>1. PICK m \in {"return", "if"} : frames' = frames \o <<[at |-> m], [at |-> "left"]>> /\ Next1 = m
    BY <1>2, Zenon DEF StartReturn, StartIf
  <2>2. /\ pos' = pos + 1 /\ source' = source /\ Top.at \in {"fn", "then", "else"}
    BY <1>2, Zenon DEF StartReturn, StartIf, Advance, AtStatement, InBlock
  <2>3. Lull /\ Open0(Top)
    BY <2>1, <2>2, LullMove, SoftTokens, InertAt DEF Gentle
  <2>4. Inert([at |-> m]) /\ Inert([at |-> "left"])
    BY InertAt
  <2>5. Aside([at |-> m]) /\ Shaped([at |-> m])
    BY <2>4, InertIs
  <2>6. QED
    BY <2>1, <2>3, <2>4, <2>5, LullPushTwo
<1>3. CASE StartCall
  <2> DEFINE f == [at |-> "path", path |-> <<Next1>>, start |-> pos]
  <2>1. /\ pos' = pos + 1 /\ source' = source /\ Top.at \in {"fn", "then", "else"}
        /\ Next1 \in Names /\ frames' = Append(frames, f)
    BY <1>3, Zenon DEF StartCall, Advance, AtStatement, InBlock, Push
  <2>2. Inert(f)
    BY InertAt
  <2> HIDE DEF f
  <2>3. Lull /\ Open0(Top)
    BY <2>1, LullMove, SoftTokens, InertAt
  <2>4. QED
    BY <2>1, <2>2, <2>3, LullPush
<1>4. QED
  BY <1>1, <1>2, <1>3 DEF Statement

LEMMA CallHeads == Prior /\ Call => HeadInv'
<1> SUFFICES ASSUME Prior, Call PROVE HeadInv'
  OBVIOUS
<1>1. CASE NoPath \/ ArgStray
  <2>1. UNCHANGED <<source, pos, frames>>
    BY <1>1, Zenon DEF NoPath, ArgStray, Reject
  <2>2. QED
    BY <2>1, StillHeads
<1>2. QED
  BY <1>1, PathStepHeads, ArgOpenHeads, ArgCloseHeads, ArgAccessHeads, ArgSkipHeads, EndCallHeads
     DEF Call

LEMMA PrimaryHeads == Prior /\ Primary => HeadInv'
<1> SUFFICES ASSUME Prior, Primary PROVE HeadInv'
  OBVIOUS
<1> USE DEF Push, Advance
<1>1. CASE NoNumber \/ NoExpression
  BY <1>1, StillHeads DEF NoNumber, NoExpression, Reject
<1>2. CASE ParseNot
  <2>1. Lull /\ Open0(Top)
    BY <1>2, LullMove, SoftTokens, InertAt DEF ParseNot, InPrimary, Gentle
  <2>2. Inert([at |-> "not"]) /\ Inert([at |-> "left"])
    BY InertAt
  <2>3. Aside([at |-> "not"]) /\ Shaped([at |-> "not"])
    BY <2>2, InertIs
  <2>4. QED
    BY <1>2, <2>1, <2>2, <2>3, LullPushTwo DEF ParseNot
<1>3. CASE ParseLiteral
  <2>1. Next1 \notin Loud
    BY <1>3, SoftTokens DEF ParseLiteral, Gentle, Names
  <2>2. Lull
    BY <1>3, <2>1, LullMove DEF ParseLiteral, InPrimary
  <2>3. QED
    BY <1>3, <2>2, LullSame DEF ParseLiteral
<1>4. CASE StartNumber
  <2> DEFINE f == [at |-> "number", parts |-> 1]
  <2>1. Lull /\ Open0(Top)
    BY <1>4, LullMove, SoftTokens, InertAt DEF StartNumber, InPrimary, Gentle
  <2>2. Inert(f) /\ frames' = Append(frames, f)
    BY <1>4, InertAt DEF StartNumber
  <2> HIDE DEF f
  <2>3. QED
    BY <2>1, <2>2, LullPush
<1>5. CASE InNumber
  <2>1. Inert(Top) /\ Top.at \notin {"params", "signature"} /\ source' = source
    BY <1>5, InertAt DEF InNumber
  <2>2. CASE Next1 = "."
    <3>1. Lull
      BY <1>5, <2>1, <2>2, LullMove, SoftTokens DEF InNumber, Gentle
    <3>2. QED
      BY <1>5, <2>1, <2>2, <3>1, LullTopChange DEF InNumber
  <2>3. CASE Next1 # "."
    <3>1. Lull /\ frames' = Under
      BY <1>5, <2>1, <2>3, LullMove DEF InNumber
    <3>2. QED
      BY <2>1, <3>1, LullPop
  <2>4. QED
    BY <2>2, <2>3
<1>6. CASE ParseName
  <2>1. /\ source' = source /\ Top.at \in {"left", "right"} /\ Next1 \in Names
        /\ IF After = "(" THEN frames' = Append(frames, [at |-> "opaque", parens |-> 1, name |-> Next1])
                               /\ pos' = pos + 2
           ELSE frames' = frames /\ pos' = pos + 1
    BY <1>6, Zenon DEF ParseName, InPrimary
  <2>2. CASE After = "("
    <3> DEFINE f == [at |-> "opaque", parens |-> 1, name |-> Next1]
    <3>1. frames' = Append(frames, f) /\ pos' = pos + 2
      BY <2>1, <2>2
    <3>2. f.at = "opaque" /\ "parens" \in DOMAIN f /\ f.parens = 1
      OBVIOUS
    <3> HIDE DEF f
    <3>3. Open0(Top) /\ Top.at # "signature"
      BY <2>1, InertAt
    <3>4. QED
      BY <2>1, <2>2, <3>1, <3>2, <3>3, OpaqueHeads
  <2>3. CASE After # "("
    <3>1. Lull
      BY <2>1, <2>3, LullMove, SoftTokens
    <3>2. QED
      BY <2>1, <2>3, <3>1, LullSame
  <2>4. QED
    BY <2>2, <2>3
<1>7. QED
  BY <1>1, <1>2, <1>3, <1>4, <1>5, <1>6, EndOpaqueHeads DEF Primary

LEMMA UnderFields ==
  ASSUME Prior, Top.at \in {"field", "parts"}
  PROVE  Inert(Top) /\ Under[Len(Under)].at # "mizan"
<1>1. Lies(Under[Len(Under)].at, Top.at)
  BY UnderPrior
<1>2. QED
  BY <1>1, Callers, InertAt

LEMMA IncompleteHeads == Prior /\ Incomplete => HeadInv'
<1> SUFFICES ASSUME Prior, Incomplete PROVE HeadInv'
  OBVIOUS
<1> USE DEF Push, Advance
<1>0. pos \in Nat
  BY PriorFacts
<1>1. CASE NoPart \/ NoField
  <2>1. UNCHANGED <<source, pos, frames>>
    BY <1>1, Zenon DEF NoPart, NoField, Reject
  <2>2. QED
    BY <2>1, StillHeads
<1>2. CASE OpenIncomplete
  <2> DEFINE f == [at |-> "fields", fields |-> << >>]
  <2>1. /\ frames' = Append(frames, f) /\ pos' = pos + 2 /\ Top.at \in {"left", "right"}
        /\ source' = source /\ Next1 = "Incomplete" /\ After \notin Loud
    BY <1>2, SoftBraces, Zenon DEF OpenIncomplete, InPrimary, IsIncomplete
  <2>2. Inert(f) /\ Open0(Top)
    BY <2>1, InertAt
  <2> HIDE DEF f
  <2>3. Lull
    BY <2>1, LullMove, SoftTokens DEF Names
  <2>4. QED
    BY <2>1, <2>2, <2>3, LullPush
<1>3. CASE ReasonField
  <2> DEFINE q == pos + 3
  <2>1. /\ Top.at = "fields" /\ source' = source /\ pos' = PastComma(q)
        /\ At(pos) \notin Loud /\ At(pos + 1) \notin Loud /\ At(pos + 2) \notin Loud
    BY <1>3, SoftTokens DEF ReasonField, Names, Gentle, Next1, After
  <2>2. Soft(pos, q) /\ q \in Nat /\ pos <= q
    BY <1>0, <2>1, SoftRuns
  <2> HIDE DEF q
  <2>3. PastComma(q) \in Nat /\ q <= PastComma(q) /\ Soft(q, PastComma(q))
    BY <2>2, SoftComma
  <2>4. Soft(pos, PastComma(q)) /\ pos <= PastComma(q)
    BY <1>0, <2>2, <2>3, SoftJoin
  <2>5. Top.at \notin {"params", "signature"} /\ Open0(Top) /\ Top.at # "mizan"
    BY <2>1, InertAt
  <2>6. Lull
    BY <2>1, <2>3, <2>4, <2>5, LullTo
  <2>7. QED
    BY <1>3, <2>5, <2>6, LullUpdate DEF ReasonField, WithField, Telling
<1>4. CASE StartParts
  <2> DEFINE f == [at |-> "parts", items |-> <<At(pos + 2)>>]
  <2>1. /\ Top.at = "fields" /\ source' = source /\ pos' = pos + 3 /\ frames' = Append(frames, f)
        /\ Next1 \notin Loud /\ After \notin Loud /\ At(pos + 2) \notin Loud
    BY <1>4, SoftTokens DEF StartParts, Names, Gentle
  <2>2. Inert(f) /\ Open0(Top)
    BY <2>1, InertAt
  <2> HIDE DEF f
  <2>3. Lull
    BY <2>1, LullMove
  <2>4. QED
    BY <2>1, <2>2, <2>3, LullPush
<1>5. CASE InParts
  <2>1. Top.at = "parts" /\ source' = source /\ Inert(Top) /\ Under[Len(Under)].at # "mizan"
    BY <1>5, UnderFields DEF InParts
  <2>2. CASE Next1 = ","
    <3>1. Next1 \notin Loud /\ After \notin Loud
      BY <1>5, <2>2, SoftTokens DEF InParts, Gentle
    <3>2. pos' = pos + 2
      BY <1>5, <2>2 DEF InParts
    <3>3. Lull
      BY <2>1, <3>1, <3>2, LullMove
    <3>4. QED
      BY <1>5, <2>1, <2>2, <3>3, LullTopChange DEF InParts
  <2>3. CASE Next1 # ","
    <3>1. Lull
      BY <1>5, <2>1, <2>3, LullMove DEF InParts
    <3>2. PICK x : frames' = [Under EXCEPT ![Len(Under)].fields = x]
      BY <1>5, <2>3 DEF InParts, WithField
    <3>3. QED
      BY <2>1, <3>1, <3>2, LullPopAndUpdateTop DEF Telling
  <2>4. QED
    BY <2>2, <2>3
<1>6. CASE OtherField
  <2> DEFINE f == [at |-> "field", name |-> Next1]
             g == [at |-> "left"]
  <2>1. /\ Top.at = "fields" /\ source' = source /\ pos' = pos + 2 /\ frames' = frames \o <<f, g>>
        /\ Next1 \notin Loud /\ After \notin Loud
    BY <1>6, SoftTokens DEF OtherField, Gentle
  <2>2. Inert(f) /\ Inert(g) /\ Open0(Top)
    BY <2>1, InertAt
  <2> HIDE DEF f, g
  <2>3. Lull
    BY <2>1, LullMove
  <2>4. QED
    BY <2>1, <2>2, <2>3, InertIs, LullPushTwo
<1>7. CASE EndIncomplete
  <2>1. frames' = Under /\ pos' = pos + 1 /\ Top.at = "fields" /\ source' = source /\ Next1 \notin Loud
    BY <1>7, SoftBraces, Zenon DEF EndIncomplete
  <2>2. Lull /\ Inert(Top)
    BY <2>1, LullMove, InertAt
  <2>3. QED
    BY <2>1, <2>2, LullPop
<1>8. QED
  BY <1>1, <1>2, <1>3, <1>4, <1>5, <1>6, <1>7 DEF Incomplete

LEMMA LullComma ==
  ASSUME Prior, source' = source, Top.at \notin {"params", "signature"}, pos' = PastComma(pos)
  PROVE  Lull
<1>1. pos \in Nat
  BY PriorFacts
<1>2. PastComma(pos) \in Nat /\ pos <= PastComma(pos) /\ Soft(pos, PastComma(pos))
  BY <1>1, SoftComma
<1>3. QED
  BY <1>2, LullTo

LEMMA ExpressionHeads == Prior /\ Expression => HeadInv'
<1> SUFFICES ASSUME Prior, Expression PROVE HeadInv'
  OBVIOUS
<1> USE DEF Push, Advance
<1>1. CASE Chained \/ NoThen
  <2>1. UNCHANGED <<source, pos, frames>>
    BY <1>1, Zenon DEF Chained, NoThen, Reject
  <2>2. QED
    BY <2>1, StillHeads
<1>2. CASE StartRight
  <2> DEFINE f == [at |-> "right", left |-> value]
  <2>1. /\ Top.at = "left" /\ source' = source /\ pos' = pos + 1 /\ frames' = Append(Under, f)
        /\ Next1 \notin Loud
    BY <1>2, SoftTokens DEF StartRight, Gentle
  <2>2. Lull /\ Inert(Top) /\ Inert(f)
    BY <2>1, LullMove, InertAt
  <2> HIDE DEF f
  <2>3. QED
    BY <2>1, <2>2, LullReplace
<1>3. CASE EndExpression \/ EndNot
  <2>1. Top.at \in {"left", "right", "not"} /\ source' = source /\ pos' = pos /\ frames' = Under
    BY <1>3 DEF EndExpression, EndNot
  <2>2. Lull /\ Inert(Top)
    BY <2>1, LullMove, InertAt
  <2>3. QED
    BY <2>1, <2>2, LullPop
<1>4. CASE EndField
  <2>1. /\ Top.at = "field" /\ source' = source /\ pos' = PastComma(pos)
        /\ \E x : frames' = [Under EXCEPT ![Len(Under)].fields = x]
    BY <1>4 DEF EndField, WithField
  <2>2. PICK x : frames' = [Under EXCEPT ![Len(Under)].fields = x]
    BY <2>1
  <2>3. Lull /\ Inert(Top) /\ Under[Len(Under)].at # "mizan"
    BY <2>1, UnderFields, LullComma
  <2>4. QED
    BY <2>2, <2>3, LullPopAndUpdateTop DEF Telling
<1>5. CASE EndReturn
  <2>1. /\ Top.at = "return" /\ source' = source /\ pos' = pos
        /\ \E x : frames' = [Under EXCEPT ![Len(Under)].stmts = x]
    BY <1>5 DEF EndReturn, WithStatement
  <2>2. PICK x : frames' = [Under EXCEPT ![Len(Under)].stmts = x]
    BY <2>1
  <2>3. Lull /\ Inert(Top)
    BY <2>1, LullMove, InertAt
  <2>4. QED
    BY <2>2, <2>3, LullPopAndUpdateTop DEF Telling
<1>6. CASE OpenThen
  <2> DEFINE f == [at |-> "then", cond |-> value, stmts |-> << >>]
  <2>1. /\ Top.at = "if" /\ source' = source /\ pos' = pos + 1 /\ frames' = Append(Under, f)
        /\ Next1 \notin Loud
    BY <1>6, SoftBraces, Zenon DEF OpenThen
  <2>2. Lull /\ Inert(Top) /\ Inert(f)
    BY <2>1, LullMove, InertAt
  <2> HIDE DEF f
  <2>3. QED
    BY <2>1, <2>2, LullReplace
<1>7. QED
  BY <1>1, <1>2, <1>3, <1>4, <1>5, <1>6 DEF Expression

LEMMA BlockEndHeads == Prior /\ BlockEnd => HeadInv'
<1> SUFFICES ASSUME Prior, BlockEnd PROVE HeadInv'
  OBVIOUS
<1> USE DEF Push, Advance
<1>1. CASE NoElse \/ NoEnd
  <2>1. UNCHANGED <<source, pos, frames>>
    BY <1>1, Zenon DEF NoElse, NoEnd, Reject
  <2>2. QED
    BY <2>1, StillHeads
<1>2. CASE EndThen \/ EndElse
  <2>1. /\ Top.at \in {"then", "else"} /\ source' = source /\ pos' = pos + 1 /\ Next1 \notin Loud
        /\ \E s : frames' = WithStatement(Under, s)
    BY <1>2, SoftBraces, Zenon DEF EndThen, EndElse
  <2>2. PICK x : frames' = [Under EXCEPT ![Len(Under)].stmts = x]
    BY <2>1 DEF WithStatement
  <2>3. Lull /\ Inert(Top)
    BY <2>1, LullMove, InertAt
  <2>4. QED
    BY <2>2, <2>3, LullPopAndUpdateTop DEF Telling
<1>3. CASE OpenElse
  <2> DEFINE f == [at |-> "else", cond |-> Top.cond, then |-> Top.stmts, stmts |-> << >>]
  <2>1. /\ Top.at = "then" /\ source' = source /\ pos' = pos + 3 /\ frames' = Append(Under, f)
        /\ Next1 \notin Loud /\ After = "else" /\ At(pos + 2) \notin Loud
    BY <1>3, SoftBraces, Zenon DEF OpenElse
  <2>2. Lull /\ Inert(Top) /\ Inert(f)
    BY <2>1, LullMove, InertAt, SoftTokens DEF Gentle
  <2> HIDE DEF f
  <2>3. QED
    BY <2>1, <2>2, LullReplace
<1>4. QED
  BY <1>1, <1>2, <1>3 DEF BlockEnd

-----------------------------------------------------------------------------
(* The loops over items.                                                   *)
LEMMA ItemSoft ==
  ASSUME Prior, NEW keywords, Item(keywords)
  PROVE  /\ Next1 \in {"bismillah", "mizan", "tanzil"} => Soft(pos + 1, pos + 3)
         /\ Next1 = "type" => Soft(pos + 1, pos + 5)
         /\ Next1 = "additive_only" => Soft(pos + 1, pos + 6)
         /\ Next1 \in {"bump"} \cup MizanHeads => After \notin Loud
         /\ Next1 = "fn" => After \in Names /\ At(pos + 2) = "("
         /\ Next1 = "export" => Soft(pos + 1, pos + 3) /\ IsType(pos + 3)
         /\ Next1 \in ListFields \cup {"depends_on"} =>
              Soft(pos + 1, pos + (2 + Len(ItemPattern(Next1))))
<1>1. pos \in Nat /\ pos + 1 \in Nat /\ WellBegun /\ {2, 4, 5} \subseteq Nat
  BY PriorFacts, ItemFacts
<1>2. CASE Next1 \in {"bismillah", "mizan", "tanzil"}
  <2>1. Matches(pos + 1, BlockHead)
    BY <1>1, <1>2, ZenonT(30) DEF WellBegun, MizanHeads
  <2>2. Soft(pos + 1, (pos + 1) + 2)
    BY <1>1, <2>1, SoftBehind, SoftHeads
  <2>3. (pos + 1) + 2 = pos + 3
    BY <1>1
  <2>4. QED
    BY <1>1, <1>2, <2>2, <2>3 DEF MizanHeads, ListFields, BismillahFields
<1>3. CASE Next1 = "fn"
  <2>1. Matches(pos + 1, FunctionHead)
    BY <1>1, <1>3, ZenonT(30) DEF WellBegun, MizanHeads
  <2>2. \A a, b : <<a, b>>[1] = a /\ <<a, b>>[2] = b /\ DOMAIN <<a, b>> = {1, 2}
    OBVIOUS
  <2>3. At(pos + 1 + 1 - 1) \in Names /\ At(pos + 1 + 2 - 1) \in {"("}
    BY <2>1, <2>2 DEF Matches, FunctionHead
  <2>4. pos + 1 + 1 - 1 = pos + 1 /\ pos + 1 + 2 - 1 = pos + 2
    BY <1>1
  <2>5. After \in Names /\ At(pos + 2) = "("
    BY <2>3, <2>4 DEF After
  <2>6. QED
    BY <1>3, <2>5 DEF MizanHeads, ListFields, BismillahFields
<1>4. CASE Next1 = "type"
  <2>1. Matches(pos + 1, TypeHead)
    BY <1>1, <1>4, ZenonT(30) DEF WellBegun, MizanHeads
  <2>2. Soft(pos + 1, (pos + 1) + 4)
    BY <1>1, <2>1, SoftBehind, SoftHeads
  <2>3. (pos + 1) + 4 = pos + 5
    BY <1>1
  <2>4. QED
    BY <1>1, <1>4, <2>2, <2>3 DEF MizanHeads, ListFields, BismillahFields
<1>5. CASE Next1 = "additive_only"
  <2>1. Matches(pos + 1, AdditiveHead)
    BY <1>1, <1>5, ZenonT(30) DEF WellBegun, MizanHeads
  <2>2. Soft(pos + 1, (pos + 1) + 5)
    BY <1>1, <2>1, SoftBehind, SoftHeads
  <2>3. (pos + 1) + 5 = pos + 6
    BY <1>1
  <2>4. QED
    BY <1>1, <1>5, <2>2, <2>3 DEF MizanHeads, ListFields, BismillahFields
<1>6. CASE Next1 \in {"bump"} \cup MizanHeads
  <2>1. After = "{" \/ After = ":"
    BY <1>1, <1>6 DEF WellBegun, MizanHeads
  <2>2. After \notin Loud
    <3>1. ":" \in Gentle
      BY DEF Gentle
    <3>2. QED
      BY <2>1, <3>1, SoftBraces, SoftTokens, Zenon
  <2> QED
    BY <1>6, <2>2 DEF MizanHeads, ListFields, BismillahFields
<1>7. CASE Next1 = "export"
  <2>1. Matches(pos + 1, <<Names, {":"}>>) /\ IsType(pos + 3)
    BY <1>1, <1>7, ZenonT(30) DEF WellBegun, MizanHeads
  <2>2. SoftSet(Names) /\ SoftSet({":"})
    BY SoftTokens DEF SoftSet, Gentle
  <2>3. SoftList(<<Names, {":"}>>, 2)
    BY <2>2, SoftLists
  <2>4. Soft(pos + 1, (pos + 1) + 2)
    BY <1>1, <2>1, <2>3, SoftBehind
  <2>5. (pos + 1) + 2 = pos + 3
    BY <1>1
  <2>6. QED
    BY <1>1, <1>7, <2>1, <2>4, <2>5 DEF MizanHeads, ListFields, BismillahFields
<1>8. CASE Next1 \in ListFields \cup {"depends_on"}
  <2> DEFINE n == Len(ItemPattern(Next1))
             pattern == <<{":"}>> \o ItemPattern(Next1)
  <2>1. Matches(pos + 1, pattern)
    BY <1>1, <1>8, ZenonT(30) DEF WellBegun, ListFields, BismillahFields, MizanHeads
  <2>2. n \in {1, 3} /\ SoftList(pattern, 1 + n)
    BY SoftPattern
  <2>3. 1 + n \in Nat
    BY <2>2
  <2> HIDE DEF n, pattern
  <2>4. Soft(pos + 1, (pos + 1) + (1 + n))
    BY <1>1, <2>1, <2>2, <2>3, SoftBehind
  <2>5. (pos + 1) + (1 + n) = pos + (2 + n)
    BY <1>1, <2>2
  <2>6. QED
    BY <1>8, <2>4, <2>5 DEF n, ListFields, BismillahFields, MizanHeads
<1>9. QED
  BY <1>2, <1>3, <1>4, <1>5, <1>6, <1>7, <1>8

(* An item whose tokens say nothing of functions, types and mizan blocks.  *)
LEMMA LullItem ==
  ASSUME Prior, NEW keywords, Item(keywords), NEW to \in Nat, pos < to, Soft(pos + 1, to),
         Next1 \in Gentle \cup ListFields, pos' = to, source' = source
  PROVE  Lull /\ Open0(Top)
<1>1. pos \in Nat /\ InLoop
  BY PriorFacts, ItemFacts
<1>2. Top.at \notin {"params", "signature"} /\ Open0(Top)
  BY <1>1 DEF InLoop, Open0
<1>3. Soft(pos, pos + 1)
  BY <1>1, SoftRuns, SoftTokens DEF Next1
<1>4. Soft(pos, to) /\ pos <= to
  BY <1>1, <1>3, SoftJoin
<1>5. QED
  BY <1>2, <1>4, LullTo

LEMMA OpensSoft ==
  ASSUME Prior, NEW keywords, Item(keywords), NEW count \in Nat \ {0}, NEW frame, Inert(frame),
         Open(count, frame), Soft(pos + 1, pos + count), Next1 \in Gentle \cup ListFields
  PROVE  HeadInv'
<1> DEFINE to == pos + count
<1>1. to \in Nat /\ pos < to /\ Soft(pos + 1, to)
  BY PriorFacts
<1>2. pos' = to /\ source' = source /\ frames' = Append(frames, frame)
  BY DEF Open, Push, Advance
<1> HIDE DEF to
<1>3. Lull /\ Open0(Top)
  BY <1>1, <1>2, LullItem
<1>4. QED
  BY <1>2, <1>3, LullPush

LEMMA GoOnIs ==
  ASSUME NEW to, NEW stack, GoOn(to, stack)
  PROVE  pos' = to /\ frames' = stack /\ source' = source
BY DEF GoOn

(* The end of a block: the brace, and the caller takes what was made.      *)
LEMMA ClosesSoft ==
  ASSUME Prior, Inert(Top), Next1 = "}", NEW j \in DOMAIN Under, NEW field,
         field \notin Telling \cup {"fields"},
         NEW x, GoOn(pos + 1, [Under EXCEPT ![j][field] = x])
  PROVE  HeadInv'
<1>1. Next1 \notin Loud /\ field \notin Telling /\ field # "fields"
  BY SoftBraces, Zenon
<1>2. Lull
  BY <1>1, GoOnIs, InertIs, LullMove
<1>3. frames' = [Under EXCEPT ![j][field] = x]
  BY GoOnIs
<1>4. Inert(Top)
  OBVIOUS
<1>5. QED
  BY <1>1, <1>2, <1>3, <1>4, LullPopAndUpdate

LEMMA UnderPlaces ==
  ASSUME Prior, Top.at # "module"
  PROVE  Len(Under) \in DOMAIN Under /\ 1 \in DOMAIN Under
BY UnderPrior

-----------------------------------------------------------------------------
LEMMA ListsAre ==
  ASSUME Prior, Top.at = "list"
  PROVE  Inert(Top) /\ Top.of \in ListFields /\ Top.at \notin {"params", "signature"}
BY RunFacts, InertAt DEF IsFrame, Prior

LEMMA BismillahHeads == Prior /\ Bismillah => HeadInv'
<1> SUFFICES ASSUME Prior, Bismillah PROVE HeadInv'
  OBVIOUS
<1> USE DEF Push
<1>0. pos \in Nat
  BY PriorFacts
<1>1. CASE NoMore \/ MissingField
  <2>1. UNCHANGED <<source, pos, frames>>
    BY <1>1, Zenon DEF NoMore, MissingField, Reject
  <2>2. QED
    BY <2>1, StillHeads
<1>2. CASE OpenBismillah
  <2> DEFINE f == [at |-> "bismillah", name |-> After, fields |-> << >>]
  <2>1. Item({"bismillah"}) /\ Open(3, f) /\ Inert(f)
    BY <1>2, InertAt DEF OpenBismillah
  <2> HIDE DEF f
  <2>2. Next1 = "bismillah" /\ Next1 \in Gentle
    BY <2>1, ItemFacts DEF Gentle
  <2>3. Soft(pos + 1, pos + 3)
    BY <2>1, <2>2, ItemSoft
  <2>4. QED
    BY <2>1, <2>2, <2>3, OpensSoft
<1>3. CASE StartList
  <2> DEFINE f == [at |-> "list", of |-> Next1, items |-> <<Entry(Next1, pos + 2)>>]
             count == 2 + Len(ItemPattern(Next1))
  <2>1. Item(ListFields) /\ Open(count, f) /\ Inert(f)
    BY <1>3, InertAt DEF StartList, ListFields
  <2>2. count \in Nat \ {0}
    BY ItemPatterns
  <2> HIDE DEF f
  <2>3. Next1 \in ListFields
    BY <2>1, ItemFacts
  <2>4. Soft(pos + 1, pos + count)
    BY <2>1, <2>3, ItemSoft
  <2> HIDE DEF count
  <2>5. QED
    BY <2>1, <2>2, <2>3, <2>4, OpensSoft
<1>4. CASE MoreOfName
  <2>1. Top.at = "list" /\ Next1 = "." /\ After \in Names \cup Layers
    BY <1>4 DEF MoreOfName, AtDot
  <2>2. pos' = pos + 2 /\ source' = source
    BY <1>4 DEF MoreOfName, GoOn
  <2>3. Next1 \notin Loud /\ After \notin Loud
    BY <2>1, SoftTokens DEF Gentle
  <2>4. Lull /\ Inert(Top)
    BY <2>1, <2>2, <2>3, ListsAre, LullMove
  <2>5. QED
    BY <1>4, <2>4, LullTopChange DEF MoreOfName, GoOn
<1>5. CASE MoreItems
  <2> DEFINE n == Len(ItemPattern(Top.of))
             to == pos + 1 + n
  <2>1. Top.at = "list" /\ Next1 = "," /\ Matches(pos + 1, ItemPattern(Top.of))
    BY <1>5 DEF MoreItems
  <2>2. pos' = to /\ source' = source
    BY <1>5 DEF MoreItems, GoOn
  <2>3. n \in Nat /\ SoftList(ItemPattern(Top.of), n)
    <3>1. \A a, c : /\ Len(<<a>>) = 1 /\ DOMAIN <<a>> = 1 .. 1 /\ <<a>>[1] = a
                     /\ Len(<<a, c, a>>) = 3 /\ DOMAIN <<a, c, a>> = 1 .. 3
                     /\ \A k \in 1 .. 3 : <<a, c, a>>[k] \in {a, c}
      OBVIOUS
    <3>0. SoftSet(Names) /\ SoftSet({"->"})
      BY SoftTokens DEF SoftSet, Gentle
    <3>2. CASE Top.of = "renames"
      BY <3>0, <3>1, <3>2 DEF ItemPattern, SoftList
    <3>3. CASE Top.of # "renames"
      BY <3>0, <3>1, <3>3 DEF ItemPattern, SoftList
    <3>4. QED
      BY <3>2, <3>3
  <2> HIDE DEF n
  <2>4. pos + 1 \in Nat /\ to \in Nat /\ pos <= to /\ to = (pos + 1) + n
    BY <1>0, <2>3
  <2>5. Soft(pos + 1, (pos + 1) + n)
    BY <2>1, <2>3, <2>4, SoftBehind
  <2>6. Soft(pos, pos + 1)
    BY <1>0, <2>1, SoftRuns, SoftTokens DEF Gentle, Next1
  <2> HIDE DEF to
  <2>7. Soft(pos, to)
    BY <1>0, <2>4, <2>5, <2>6, SoftJoin
  <2>8. Lull /\ Inert(Top)
    BY <2>1, <2>2, <2>4, <2>7, ListsAre, LullTo
  <2>9. QED
    BY <1>5, <2>8, LullTopChange DEF MoreItems, GoOn
<1>6. CASE EndList
  <2>1. Top.at = "list" /\ GoOn(pos, WithList(Under, Top.of, Top.items))
    BY <1>6, Zenon DEF EndList
  <2>2. Inert(Top) /\ Top.of \in ListFields /\ Lull
    BY <2>1, ListsAre, LullMove, GoOnIs
  <2>3. Lies(Under[Len(Under)].at, "list")
    BY <2>1, UnderPrior
  <2>4. Under[Len(Under)].at # "mizan"
    BY <2>3, Callers
  <2>5. CASE Top.of \in BismillahFields
    <3>1. PICK x : frames' = [Under EXCEPT ![Len(Under)].fields = x]
      BY <2>1, <2>5 DEF GoOn, WithList
    <3>2. QED
      BY <2>2, <2>4, <3>1, LullPopAndUpdateTop DEF Telling
  <2>6. CASE Top.of \notin BismillahFields
    <3>1. PICK x : frames' = [Under EXCEPT ![Len(Under)][Top.of] = x]
      BY <2>1, <2>6 DEF GoOn, WithList
    <3>2. Top.of \notin Telling
      BY <2>2 DEF ListFields, BismillahFields, Telling
    <3>3. QED
      BY <2>2, <2>4, <3>1, <3>2, LullPopAndUpdateTop
  <2>7. QED
    BY <2>5, <2>6
<1>7. CASE EndBismillah
  <2>1. /\ Top.at = "bismillah" /\ Next1 = "}"
        /\ \E x : GoOn(pos + 1, [Under EXCEPT ![1].bismillah = x])
    BY <1>7, Zenon DEF EndBismillah, EndOf
  <2>2. PICK x : GoOn(pos + 1, [Under EXCEPT ![1].bismillah = x])
    BY <2>1, Zenon
  <2>3. Top.at = "bismillah"
    BY <2>1, Zenon
  <2>4. Inert(Top) /\ 1 \in DOMAIN Under /\ "bismillah" \notin Telling \cup {"fields"}
    BY <2>3, InertAt, UnderPlaces DEF Telling
  <2>5. QED
    BY <2>1, <2>2, <2>4, ClosesSoft, Zenon
<1>8. QED
  BY <1>1, <1>2, <1>3, <1>4, <1>5, <1>6, <1>7 DEF Bismillah

LEMMA AdditiveOnlyHeads == Prior /\ AdditiveOnly => HeadInv'
<1> SUFFICES ASSUME Prior, AdditiveOnly PROVE HeadInv'
  OBVIOUS
<1>0. pos \in Nat
  BY PriorFacts
<1>1. CASE NoVersion
  <2>1. UNCHANGED <<source, pos, frames>>
    BY <1>1, Zenon DEF NoVersion, Reject
  <2>2. QED
    BY <2>1, StillHeads
<1>2. CASE OpenAdditive
  <2> DEFINE f == [at |-> "version", name |-> At(pos + 2), parts |-> 2]
  <2>1. Item({"additive_only"}) /\ Open(6, f) /\ Inert(f)
    BY <1>2, InertAt DEF OpenAdditive
  <2> HIDE DEF f
  <2>2. Next1 = "additive_only" /\ Next1 \in Gentle
    BY <2>1, ItemFacts DEF Gentle
  <2>3. Soft(pos + 1, pos + 6)
    BY <2>1, <2>2, ItemSoft
  <2>4. QED
    BY <2>1, <2>2, <2>3, OpensSoft
<1>3. CASE InVersion
  <2>1. /\ Top.at = "version" /\ Next1 = "." /\ After = "num" /\ pos' = pos + 2 /\ source' = source
    BY <1>3 DEF InVersion, GoOn
  <2>2. Lull /\ Inert(Top)
    BY <2>1, LullMove, InertAt, SoftTokens DEF Gentle
  <2>3. QED
    BY <1>3, <2>2, LullTopChange DEF InVersion, GoOn, Push
<1>4. CASE OpenExports
  <2> DEFINE f == [at |-> "exports", name |-> Top.name, parts |-> Top.parts,
                   exports |-> << >>, bump |-> None]
  <2>1. GoOn(pos + 1, Append(Under, f)) /\ Top.at = "version" /\ Next1 \notin Loud
    BY <1>4, SoftBraces, Zenon DEF OpenExports, Push
  <2>2. Inert(f) /\ Inert(Top)
    BY <2>1, InertAt
  <2> HIDE DEF f
  <2>3. Lull /\ frames' = Append(Under, f)
    BY <2>1, GoOnIs, LullMove
  <2>4. QED
    BY <2>2, <2>3, LullReplace
<1>5. CASE ExportDecl
  <2>1. Item({"export"}) /\ \E x : GoOn(TypeEnd(pos + 3), WithItem(frames, "exports", x))
    BY <1>5 DEF ExportDecl
  <2>2. Top.at = "exports" /\ Next1 = "export" /\ Next1 \in Gentle
    BY <2>1, ItemFacts DEF Gentle
  <2>3. Soft(pos + 1, pos + 3) /\ IsType(pos + 3)
    BY <2>1, <2>2, ItemSoft
  <2>4. pos + 3 \in Nat /\ pos + 1 \in Nat /\ pos < pos + 3
    BY <1>0
  <2> DEFINE to == TypeEnd(pos + 3)
  <2>5. to \in Nat /\ pos + 3 <= to /\ Soft(pos + 3, to)
    BY <2>3, <2>4, SoftType
  <2> HIDE DEF to
  <2>6. Soft(pos + 1, to) /\ pos < to
    BY <1>0, <2>3, <2>4, <2>5, SoftJoin
  <2>7. PICK x : GoOn(to, WithItem(frames, "exports", x))
    BY <2>1 DEF to
  <2>8. Lull /\ Open0(Top)
    BY <2>1, <2>2, <2>5, <2>6, <2>7, GoOnIs, LullItem
  <2>9. QED
    BY <2>2, <2>7, <2>8, LullUpdate DEF GoOn, WithItem, Telling
<1>6. CASE OpenBump
  <2> DEFINE f == [at |-> "bump", removes |-> << >>, renames |-> << >>]
  <2>1. Item({"bump"}) /\ Open(2, f) /\ Inert(f)
    BY <1>6, InertAt DEF OpenBump
  <2> HIDE DEF f
  <2>2. Next1 = "bump" /\ Next1 \in Gentle
    BY <2>1, ItemFacts DEF Gentle
  <2>3. After \notin Loud
    BY <2>1, <2>2, ItemSoft
  <2>4. pos + 1 \in Nat /\ (pos + 1) + 1 = pos + 2
    BY <1>0
  <2>5. Soft(pos + 1, (pos + 1) + 1)
    BY <2>3, <2>4, SoftRuns DEF After
  <2>6. QED
    BY <2>1, <2>2, <2>4, <2>5, OpensSoft
<1>7. CASE EndBump
  <2>1. /\ Top.at = "bump" /\ Next1 = "}"
        /\ \E x : GoOn(pos + 1, [Under EXCEPT ![Len(Under)].bump = x])
    BY <1>7, Zenon DEF EndBump, EndOf
  <2>2. PICK x : GoOn(pos + 1, [Under EXCEPT ![Len(Under)].bump = x])
    BY <2>1, Zenon
  <2>3. Top.at = "bump"
    BY <2>1, Zenon
  <2>4. Inert(Top) /\ Len(Under) \in DOMAIN Under /\ "bump" \notin Telling \cup {"fields"}
    BY <2>3, InertAt, UnderPlaces DEF Telling
  <2>5. QED
    BY <2>1, <2>2, <2>4, ClosesSoft, Zenon
<1>8. CASE EndAdditive
  <2>1. /\ Top.at = "exports" /\ Next1 = "}"
        /\ \E x : GoOn(pos + 1, WithItem(Under, "additive_only_modules", x))
    BY <1>8, Zenon DEF EndAdditive, EndOf
  <2>2. PICK x : GoOn(pos + 1, WithItem(Under, "additive_only_modules", x))
    BY <2>1, Zenon
  <2>3. Top.at = "exports"
    BY <2>1, Zenon
  <2>4. Inert(Top) /\ Len(Under) \in DOMAIN Under /\ "additive_only_modules" \notin Telling \cup {"fields"}
    BY <2>3, InertAt, UnderPlaces DEF Telling
  <2>5. PICK y : GoOn(pos + 1, [Under EXCEPT ![Len(Under)]["additive_only_modules"] = y])
    BY <2>2 DEF WithItem
  <2>6. QED
    BY <2>1, <2>5, <2>4, ClosesSoft, Zenon
<1>9. QED
  BY <1>1, <1>2, <1>3, <1>4, <1>5, <1>6, <1>7, <1>8 DEF AdditiveOnly

LEMMA TanzilHeads == Prior /\ Tanzil => HeadInv'
<1> SUFFICES ASSUME Prior, Tanzil PROVE HeadInv'
  OBVIOUS
<1>0. pos \in Nat
  BY PriorFacts
<1>1. CASE OpenTanzil
  <2> DEFINE f == [at |-> "tanzil", name |-> After, dependencies |-> << >>]
  <2>1. Item({"tanzil"}) /\ Open(3, f) /\ Inert(f)
    BY <1>1, InertAt DEF OpenTanzil
  <2> HIDE DEF f
  <2>2. Next1 = "tanzil" /\ Next1 \in Gentle
    BY <2>1, ItemFacts DEF Gentle
  <2>3. Soft(pos + 1, pos + 3)
    BY <2>1, <2>2, ItemSoft
  <2>4. QED
    BY <2>1, <2>2, <2>3, OpensSoft
<1>2. CASE DependencyEntry
  <2>1. Item({"depends_on"}) /\ \E x : GoOn(pos + 3, WithItem(frames, "dependencies", x))
    BY <1>2 DEF DependencyEntry
  <2>2. Top.at = "tanzil" /\ Next1 = "depends_on" /\ Next1 \in Gentle
    BY <2>1, ItemFacts DEF Gentle
  <2>3. Len(ItemPattern(Next1)) = 1
    BY <2>2 DEF ItemPattern
  <2>4. Soft(pos + 1, pos + (2 + 1))
    BY <2>1, <2>2, <2>3, ItemSoft
  <2>5. pos + (2 + 1) = pos + 3 /\ pos + 3 \in Nat /\ pos < pos + 3
    BY <1>0
  <2>6. PICK x : GoOn(pos + 3, WithItem(frames, "dependencies", x))
    BY <2>1
  <2>7. Lull /\ Open0(Top)
    BY <2>1, <2>2, <2>4, <2>5, <2>6, GoOnIs, LullItem
  <2>8. QED
    BY <2>2, <2>6, <2>7, LullUpdate DEF GoOn, WithItem, Telling
<1>3. CASE EndTanzil
  <2>1. /\ Top.at = "tanzil" /\ Next1 = "}"
        /\ \E x : GoOn(pos + 1, WithItem(Under, "tanzil_decls", x))
    BY <1>3, Zenon DEF EndTanzil, EndOf
  <2>2. PICK x : GoOn(pos + 1, WithItem(Under, "tanzil_decls", x))
    BY <2>1, Zenon
  <2>3. Top.at = "tanzil"
    BY <2>1, Zenon
  <2>4. Inert(Top) /\ Len(Under) \in DOMAIN Under /\ "tanzil_decls" \notin Telling \cup {"fields"}
    BY <2>3, InertAt, UnderPlaces DEF Telling
  <2>5. PICK y : GoOn(pos + 1, [Under EXCEPT ![Len(Under)]["tanzil_decls"] = y])
    BY <2>2 DEF WithItem
  <2>6. QED
    BY <2>1, <2>5, <2>4, ClosesSoft, Zenon
<1>4. QED
  BY <1>1, <1>2, <1>3 DEF Tanzil

-----------------------------------------------------------------------------
(* The stack when a declaration opens, goes on and ends.                   *)
LEMMA HeadMove ==
  ASSUME source' = source, Shape(frames'), Enclosed(frames'[Len(frames')], pos'),
         \A kind \in Kinds :
           KindRight(kind, DoneOf(frames', kind), BegunOf(frames'), BoundOf(frames'), pos')
  PROVE  HeadInv'
<1>1. HeadsRight(frames', pos')
  BY DEF HeadsRight
<1>2. QED
  BY <1>1, HeadsStep

LEMMA NoneIs == None.kind = "none" /\ None.kind \notin Kinds
BY DEF None, Kinds

LEMMA ModuleOnly ==
  ASSUME NEW s, WellNested(s), s[Len(s)].at = "module"
  PROVE  Len(s) = 1 /\ DOMAIN s = {1} /\ Stack(s)
<1>1. Stack(s)
  BY DEF WellNested, Stack, IsSeq
<1>2. Len(s) \in Nat \ {0} /\ DOMAIN s = 1 .. Len(s)
  BY <1>1, StackShape
<1>3. Len(s) = 1
  <2> SUFFICES ASSUME Len(s) # 1 PROVE FALSE
    OBVIOUS
  <2>1. Len(s) \in 2 .. Len(s)
    BY <1>2
  <2>2. Lies(s[Len(s) - 1].at, "module")
    BY <2>1 DEF WellNested
  <2>3. QED
    BY <2>2, Callers
<1>4. QED
  BY <1>1, <1>2, <1>3

LEMMA ModuleTop ==
  ASSUME Prior, Top.at = "module"
  PROVE  /\ Len(frames) = 1 /\ Top = frames[1]
         /\ BegunOf(frames) = None /\ BoundOf(frames) = << >>
<1>1. Len(frames) = 1 /\ Top = frames[1]
  <2>1. WellNested(frames) /\ Top = frames[Len(frames)]
    BY RunFacts DEF Prior
  <2>2. Len(frames) = 1
    BY <2>1, ModuleOnly
  <2>3. QED
    BY <2>1, <2>2
<1>2. Begun(frames[1]) = None
  BY <1>1, AsideIs
<1>3. ~(Len(frames) > 1) /\ ~(Len(frames) > 2)
  BY <1>1
<1>4. QED
  BY <1>1, <1>2, <1>3 DEF BegunOf, BoundOf

LEMMA DeclTop ==
  ASSUME Prior, Top.at \in HeadFrames
  PROVE  /\ Len(frames) = 2 /\ Top = frames[2] /\ Top.at # "module"
         /\ Len(Under) = 1 /\ DOMAIN Under = {1} /\ Under[1] = frames[1]
         /\ Under[1].at = "module" /\ Stack(Under)
         /\ BegunOf(frames) = Begun(Top) /\ BoundOf(frames) = << >>
<1>1. Top.at # "module"
  BY DEF HeadFrames
<1>2. WellNested(Under) /\ Lies(Under[Len(Under)].at, Top.at) /\ Len(Under) = Len(frames) - 1
      /\ Under[1] = frames[1]
  BY <1>1, RunFacts, FrontFacts, UnderPrior DEF Prior
<1>3. Under[Len(Under)].at = "module"
  BY <1>2, Callers DEF HeadFrames
<1>4. Len(Under) = 1 /\ DOMAIN Under = {1} /\ Stack(Under)
  BY <1>2, <1>3, ModuleOnly
<1>5. Len(frames) = 2 /\ Top = frames[2]
  <2> DEFINE n == Len(frames)
             m == Len(Under)
  <2>1. n \in Nat /\ m = n - 1 /\ m = 1
    BY <1>2, <1>4, RunFacts DEF Prior
  <2> HIDE DEF n, m
  <2>0. n = 2
    BY <2>1
  <2>2. Len(frames) = 2
    BY <2>0 DEF n
  <2>3. QED
    BY <2>2, RunFacts DEF Prior
<1>6. QED
  BY <1>1, <1>2, <1>3, <1>4, <1>5 DEF BegunOf, BoundOf

(* A frame f on the module, alone.                                         *)
LEMMA OnModule ==
  ASSUME NEW s, Stack(s), Len(s) = 1, Shaped(s[1]), NEW f, Shaped(f)
  PROVE  LET t == Append(s, f)
         IN  /\ Shape(t) /\ t[Len(t)] = f
             /\ BegunOf(t) = Begun(f) /\ BoundOf(t) = << >>
             /\ \A kind \in Kinds : DoneOf(t, kind) = DoneOf(s, kind)
<1> DEFINE t == Append(s, f)
<1>0. IsSeq(s)
  BY DEF Stack
<1>1. /\ Len(Append(s, f)) = Len(s) + 1 /\ DOMAIN Append(s, f) = 1 .. (Len(s) + 1)
      /\ Append(s, f)[Len(s) + 1] = f
      /\ \A i \in 1 .. Len(s) : Append(s, f)[i] = s[i]
  BY ONLY <1>0, AppendSeq
<1>2. Len(t) = 2 /\ DOMAIN t = 1 .. 2 /\ t[2] = f /\ t[1] = s[1]
  BY <1>1
<1> HIDE DEF t
<1>3. Shape(t)
  <2>1. \A i \in 1 .. 2 : i = 1 \/ i = 2
    OBVIOUS
  <2>2. QED
    BY <1>2, <2>1 DEF Shape
<1>4. BegunOf(t) = Begun(f) /\ BoundOf(t) = << >>
  BY <1>2 DEF BegunOf, BoundOf
<1>5. \A kind \in Kinds : DoneOf(t, kind) = DoneOf(s, kind)
  BY <1>2 DEF DoneOf, Kinds
<1>6. QED
  BY <1>2, <1>3, <1>4, <1>5 DEF t

LEMMA DeclOpens ==
  ASSUME Prior, Top.at = "module", NEW f, Shaped(f)
  PROVE  LET t == Append(frames, f)
         IN  /\ Shape(t) /\ t[Len(t)] = f
             /\ BegunOf(t) = Begun(f) /\ BoundOf(t) = << >>
             /\ \A kind \in Kinds : DoneOf(t, kind) = DoneOf(frames, kind)
BY PriorFacts, ModuleTop, OnModule DEF Shape

LEMMA DeclTurns ==
  ASSUME Prior, Top.at \in HeadFrames, NEW f, Shaped(f)
  PROVE  LET t == Append(Under, f)
         IN  /\ Shape(t) /\ t[Len(t)] = f
             /\ BegunOf(t) = Begun(f) /\ BoundOf(t) = << >>
             /\ \A kind \in Kinds : DoneOf(t, kind) = DoneOf(frames, kind)
<1>1. Stack(Under) /\ Len(Under) = 1 /\ Under[1] = frames[1]
  BY DeclTop
<1>2. Shaped(Under[1])
  BY <1>1, PriorFacts DEF Shape
<1>3. \A kind \in Kinds : DoneOf(Under, kind) = DoneOf(frames, kind)
  BY <1>1 DEF DoneOf, Kinds
<1>4. QED
  BY <1>1, <1>2, <1>3, OnModule

FieldFor(kind) ==
  IF kind = "fn" THEN "functions" ELSE IF kind = "type" THEN "compound_types" ELSE "mizan_decls"

LEMMA DoneIs ==
  ASSUME NEW s, NEW kind \in Kinds
  PROVE  DoneOf(s, kind) = s[1][FieldFor(kind)]
BY DEF DoneOf, Kinds, FieldFor

LEMMA DeclEnds ==
  ASSUME Prior, Top.at \in HeadFrames, NEW kind \in Kinds, NEW item
  PROVE  LET t == WithItem(Under, FieldFor(kind), item)
         IN  /\ Shape(t) /\ t[Len(t)].at = "module"
             /\ BegunOf(t) = None /\ BoundOf(t) = << >>
             /\ DoneOf(t, kind) = Append(DoneOf(frames, kind), item)
             /\ \A other \in Kinds \ {kind} : DoneOf(t, other) = DoneOf(frames, other)
<1> DEFINE t == WithItem(Under, FieldFor(kind), item)
           m == Under[1]
           g == [m EXCEPT ![FieldFor(kind)] = Append(@, item)]
<1>1. Stack(Under) /\ Len(Under) = 1 /\ DOMAIN Under = {1} /\ Under[1] = frames[1] /\ m.at = "module"
  BY DeclTop
<1>2. Shaped(m) /\ "at" \in DOMAIN m
  BY <1>1, PriorFacts DEF Shape
<1>3. {"functions", "compound_types", "mizan_decls"} \subseteq DOMAIN m
  BY <1>1, <1>2 DEF Shaped
<1>4. t = [Under EXCEPT ![1] = g]
  BY <1>1 DEF WithItem
<1>5. t[1] = g /\ DOMAIN t = {1}
  BY <1>1, <1>4
<1>6. Len(t) = 1
  <2>1. PICK S : Under \in Seq(S)
    BY <1>1 DEF Stack, IsSeq
  <2>2. QED
    BY <1>1, <1>4, <2>1
<1>7. /\ DOMAIN g = DOMAIN m /\ g.at = "module"
      /\ g[FieldFor(kind)] = Append(m[FieldFor(kind)], item)
      /\ \A y \in DOMAIN m : y # FieldFor(kind) => g[y] = m[y]
  BY <1>1, <1>2, <1>3 DEF FieldFor, Kinds
<1> HIDE DEF t, g, m
<1>8. Shaped(g)
  BY <1>3, <1>7 DEF Shaped, Layers
<1>9. Shape(t)
  BY <1>5, <1>8 DEF Shape
<1>10. BegunOf(t) = None /\ BoundOf(t) = << >>
  <2>1. Begun(g) = None
    BY <1>7, AsideIs
  <2>2. ~(Len(t) > 1) /\ ~(Len(t) > 2)
    BY <1>6
  <2>3. QED
    BY <1>5, <2>1, <2>2 DEF BegunOf, BoundOf
<1>11. DoneOf(t, kind) = Append(DoneOf(frames, kind), item)
  BY <1>1, <1>5, <1>7, DoneIs DEF m
<1>12. ASSUME NEW other \in Kinds \ {kind} PROVE DoneOf(t, other) = DoneOf(frames, other)
  <2>1. FieldFor(other) # FieldFor(kind) /\ FieldFor(other) \in DOMAIN m
    BY <1>3 DEF FieldFor, Kinds
  <2>2. t[1][FieldFor(other)] = frames[1][FieldFor(other)]
    BY <1>1, <1>5, <1>7, <2>1 DEF m
  <2>3. QED
    BY <2>2, DoneIs
<1>13. QED
  BY <1>5, <1>6, <1>7, <1>9, <1>10, <1>11, <1>12 DEF t

-----------------------------------------------------------------------------
(* The declarations of a kind, while another is read.                      *)
Unsaid(kind, k) == At(k) # kind /\ (kind = "mizan" => At(k) \notin MizanHeads)

LEMMA SoftUnsaid ==
  ASSUME NEW kind \in Kinds, NEW p, NEW q, Soft(p, q)
  PROVE  \A k \in p .. q - 1 : Unsaid(kind, k)
BY DEF Soft, Loud, Unsaid

LEMMA UnsaidMissed ==
  ASSUME NEW kind, NEW k, Unsaid(kind, k), NEW d, ~(d.kind = "fn" /\ d.part = "head") \/ d.kind # kind
  PROVE  Missed(kind, d, k)
BY Zenon DEF Missed, Unsaid

LEMMA UnsaidKeeps ==
  ASSUME IInv, NEW kind \in Kinds, NEW done, NEW d, NEW bound, NEW p \in Nat, NEW q \in Nat, p <= q,
         KindRight(kind, done, d, bound, p), ~(d.kind = "fn" /\ d.part = "head") \/ d.kind # kind,
         \A k \in p .. q - 1 : Unsaid(kind, k)
  PROVE  KindRight(kind, done, d, bound, q)
<1>1. \A k \in p .. q - 1 : Missed(kind, d, k)
  BY UnsaidMissed
<1>2. QED
  BY <1>1, UnseenKeeps

LEMMA OthersKeep ==
  ASSUME IInv, NEW kind \in Kinds, NEW done, NEW d, NEW bound, NEW p \in Nat, NEW q \in Nat, p <= q,
         KindRight(kind, done, d, bound, p), d.kind # kind, NEW e, e.kind # kind, NEW b,
         \A k \in p .. q - 1 : Unsaid(kind, k)
  PROVE  KindRight(kind, done, e, b, q)
<1>1. KindRight(kind, done, d, bound, q)
  BY UnsaidKeeps
<1>2. QED
  BY <1>1, OtherKind

LEMMA KindNow ==
  ASSUME Prior, NEW kind \in Kinds
  PROVE  KindRight(kind, DoneOf(frames, kind), BegunOf(frames), BoundOf(frames), pos)
BY PriorFacts DEF HeadsRight

-----------------------------------------------------------------------------
(* How a declaration opens and ends, whatever its kind.                    *)
LEMMA BalancedHere ==
  ASSUME Prior, Parens(Top) = 0, Next1 \in Kinds \cup MizanHeads
  PROVE  Balanced(1, pos) /\ Nested(pos, 0) /\ At(pos) \notin {"(", ")"} /\ Nested(pos + 1, 0)
<1>1. Next1 # "eof" /\ At(pos) = Next1 /\ Next1 \notin {"(", ")"} /\ pos \in Nat
  BY PriorFacts DEF Kinds, MizanHeads, Next1
<1>2. Nested(pos, 0)
  BY <1>1, NestedHere
<1>3. Balanced(1, pos)
  BY <1>1, <1>2, NestedStep
<1>4. pos + 1 \in Nat /\ pos <= pos + 1 /\ \A k \in pos .. (pos + 1) - 1 : k = pos
  BY <1>1
<1>5. \A k \in pos .. (pos + 1) - 1 : At(k) \notin {"(", ")"}
  BY <1>1, <1>4
<1>6. Nested(pos + 1, 0)
  BY <1>1, <1>2, <1>4, <1>5, NestedRun
<1>7. QED
  BY <1>1, <1>2, <1>3, <1>6

(* A record for a declaration of which only the head is read.              *)
Fresh(d, kind) ==
  /\ d.kind = kind
  /\ kind \in {"fn", "type"} => d.name = After
  /\ kind = "fn" => d.part = "head" /\ d.params = << >>
  /\ kind = "mizan" => d.fields = << >>

LEMMA DeclBegins ==
  ASSUME Prior, Top.at = "module", NEW kind \in Kinds, Next1 = kind,
         NEW f, Shaped(f), Fresh(Begun(f), kind), NEW to \in Nat, pos < to, Enclosed(f, to),
         \A k \in pos + 1 .. to - 1 : Missed(kind, Begun(f), k),
         \A other \in Kinds \ {kind} : \A k \in pos + 1 .. to - 1 : Unsaid(other, k),
         source' = source, pos' = to, frames' = Append(frames, f)
  PROVE  HeadInv'
<1>1. /\ Shape(frames') /\ frames'[Len(frames')] = f
      /\ BegunOf(frames') = Begun(f) /\ BoundOf(frames') = << >>
      /\ \A k \in Kinds : DoneOf(frames', k) = DoneOf(frames, k)
  BY DeclOpens
<1>2. BegunOf(frames) = None /\ BoundOf(frames) = << >> /\ Parens(Top) = 0
  BY ModuleTop DEF Parens
<1>3. pos \in Nat /\ IInv /\ pos + 1 \in Nat /\ pos <= to /\ pos + 1 <= to
  BY PriorFacts
<1>4. Balanced(1, pos) /\ At(pos) = kind
  BY <1>2, BalancedHere DEF Next1
<1>5. KindRight(kind, DoneOf(frames, kind), Begun(f), << >>, to)
  <2> DEFINE done == DoneOf(frames, kind)
             d == Begun(f)
  <2>1. KindRight(kind, done, None, << >>, pos)
    BY <1>2, KindNow
  <2>2. /\ d.kind = kind
        /\ kind \in {"fn", "type"} => d.name = At(pos + 1)
        /\ kind = "fn" => d.part = "head" /\ d.params = << >>
        /\ kind = "mizan" => d.fields = << >>
    BY DEF Fresh, After
  <2>3. None.kind # kind
    BY NoneIs
  <2>0. \A k \in pos + 1 .. to - 1 : Missed(kind, d, k)
    OBVIOUS
  <2> HIDE DEF done, d
  <2>4. KindRight(kind, done, d, << >>, pos + 1)
    BY <1>3, <1>4, <2>1, <2>2, <2>3, HeadBegins
  <2>5. KindRight(kind, done, d, << >>, to)
    BY <1>3, <2>0, <2>4, UnseenKeeps
  <2>6. QED
    BY <2>5 DEF done, d
<1>6. ASSUME NEW other \in Kinds \ {kind}
      PROVE  KindRight(other, DoneOf(frames, other), Begun(f), << >>, to)
  <2> DEFINE done == DoneOf(frames, other)
             d == Begun(f)
  <2>1. KindRight(other, done, None, << >>, pos)
    BY <1>2, KindNow
  <2>2. d.kind # other /\ None.kind # other
    BY NoneIs DEF Fresh
  <2>3. \A k \in pos .. to - 1 : Unsaid(other, k)
    <3>1. Unsaid(other, pos)
      <4>1. kind \notin MizanHeads
        BY DEF Kinds, MizanHeads
      <4>2. QED
        BY <1>4, <4>1 DEF Unsaid
    <3>2. \A k \in pos .. to - 1 : k = pos \/ k \in pos + 1 .. to - 1
      BY <1>3
    <3>3. QED
      BY <3>1, <3>2
  <2> HIDE DEF done, d
  <2>4. KindRight(other, done, d, << >>, to)
    BY <1>3, <2>1, <2>2, <2>3, OthersKeep
  <2>5. QED
    BY <2>4 DEF done, d
<1>7. \A k \in Kinds : KindRight(k, DoneOf(frames, k), Begun(f), << >>, to)
  BY <1>5, <1>6
<1>8. \A k \in Kinds : KindRight(k, DoneOf(frames', k), BegunOf(frames'), BoundOf(frames'), pos')
  BY <1>1, <1>7
<1>9. Enclosed(frames'[Len(frames')], pos')
  BY <1>1
<1>10. QED
  BY <1>1, <1>8, <1>9, HeadMove

LEMMA DeclDone ==
  ASSUME Prior, Top.at \in HeadFrames, Parens(Top) = 0, NEW kind \in Kinds, Begun(Top).kind = kind,
         ~(kind = "fn" /\ Begun(Top).part = "head"),
         NEW to \in Nat, pos <= to, Soft(pos, to), NEW item,
         \A h : BegunRight(kind, h, Begun(Top), << >>, to) => DoneRight(kind, h, item, to),
         GoOn(to, WithItem(Under, FieldFor(kind), item))
  PROVE  HeadInv'
<1>0. pos' = to /\ source' = source /\ frames' = WithItem(Under, FieldFor(kind), item)
  BY GoOnIs
<1>1. /\ Shape(frames') /\ frames'[Len(frames')].at = "module"
      /\ BegunOf(frames') = None /\ BoundOf(frames') = << >>
      /\ DoneOf(frames', kind) = Append(DoneOf(frames, kind), item)
      /\ \A other \in Kinds \ {kind} : DoneOf(frames', other) = DoneOf(frames, other)
  BY <1>0, DeclEnds
<1>2. BegunOf(frames) = Begun(Top) /\ BoundOf(frames) = << >>
  BY DeclTop
<1>3. pos \in Nat /\ IInv
  BY PriorFacts
<1>4. KindRight(kind, Append(DoneOf(frames, kind), item), None, << >>, to)
  <2> DEFINE done == DoneOf(frames, kind)
             d == Begun(Top)
  <2>1. KindRight(kind, done, d, << >>, pos)
    BY <1>2, KindNow
  <2>2. \A k \in pos .. to - 1 : Unsaid(kind, k)
    BY SoftUnsaid
  <2>3. \A h : BegunRight(kind, h, d, << >>, to) => DoneRight(kind, h, item, to)
    OBVIOUS
  <2>4. None.kind # kind /\ d.kind = kind /\ (~(d.kind = "fn" /\ d.part = "head") \/ d.kind # kind)
    BY NoneIs
  <2> HIDE DEF done, d
  <2>5. KindRight(kind, done, d, << >>, to)
    BY <1>3, <2>1, <2>2, <2>4, UnsaidKeeps
  <2>6. KindRight(kind, Append(done, item), None, << >>, to)
    BY <1>3, <2>3, <2>4, <2>5, PartEnds
  <2>7. QED
    BY <2>6 DEF done
<1>5. ASSUME NEW other \in Kinds \ {kind}
      PROVE  KindRight(other, DoneOf(frames, other), None, << >>, to)
  <2> DEFINE done == DoneOf(frames, other)
             d == Begun(Top)
  <2>1. KindRight(other, done, d, << >>, pos)
    BY <1>2, KindNow
  <2>2. \A k \in pos .. to - 1 : Unsaid(other, k)
    BY SoftUnsaid
  <2>3. None.kind # other /\ d.kind # other
    BY NoneIs
  <2> HIDE DEF done, d
  <2>4. KindRight(other, done, None, << >>, to)
    BY <1>3, <2>1, <2>2, <2>3, OthersKeep
  <2>5. QED
    BY <2>4 DEF done
<1>6. \A k \in Kinds : KindRight(k, DoneOf(frames', k), BegunOf(frames'), BoundOf(frames'), pos')
  BY <1>0, <1>1, <1>4, <1>5
<1>7. Enclosed(frames'[Len(frames')], pos')
  <2>1. At(pos) # "eof" => Nested(pos, 0)
    BY PriorFacts DEF Enclosed
  <2>2. At(to) # "eof" => Nested(to, 0)
    BY <1>3, <2>1, SoftNested
  <2>3. Parens(frames'[Len(frames')]) = 0 /\ frames'[Len(frames')].at \notin {"args", "opaque"}
    BY <1>1 DEF Parens
  <2>4. QED
    BY <1>0, <2>2, <2>3 DEF Enclosed
<1>8. QED
  BY <1>0, <1>1, <1>6, <1>7, HeadMove

LEMMA AlikeTurns ==
  ASSUME Prior, Top.at \in HeadFrames, NEW f, Shaped(f), Begun(f) = Begun(Top)
  PROVE  Alike(frames, Append(Under, f)) /\ Append(Under, f)[Len(Append(Under, f))] = f
<1> DEFINE t == Append(Under, f)
<1>1. /\ Shape(t) /\ t[Len(t)] = f
      /\ BegunOf(t) = Begun(f) /\ BoundOf(t) = << >>
      /\ \A kind \in Kinds : DoneOf(t, kind) = DoneOf(frames, kind)
  BY DeclTurns
<1>2. BegunOf(frames) = Begun(Top) /\ BoundOf(frames) = << >> /\ Stack(Under)
      /\ Under[1].at = "module" /\ 1 \in 1 .. Len(Under)
  BY DeclTop
<1>3. Stack(t) /\ t[1].at = "module"
  <2>1. IsSeq(Under)
    BY <1>2 DEF Stack
  <2>2. /\ Len(Append(Under, f)) = Len(Under) + 1 /\ IsSeq(Append(Under, f))
        /\ \A i \in 1 .. Len(Under) : Append(Under, f)[i] = Under[i]
    BY ONLY <2>1, AppendSeq
  <2>3. Len(Under) = 1
    BY DeclTop
  <2>4. Len(t) = 2 /\ IsSeq(t) /\ t[1] = Under[1]
    BY <1>2, <2>2, <2>3
  <2> HIDE DEF t
  <2>5. t # << >>
    BY <2>4, EmptyIsSeq
  <2>6. QED
    BY <1>2, <2>4, <2>5 DEF Stack
<1> HIDE DEF t
<1>4. QED
  BY <1>1, <1>2, <1>3 DEF Alike, t

-----------------------------------------------------------------------------
LEMMA BegunValues ==
  ASSUME NEW f
  PROVE  /\ f.at \in {"params", "signature"} =>
              Begun(f) = [kind |-> "fn", part |-> "head", name |-> f.name, params |-> f.params]
         /\ f.at = "fn" =>
              Begun(f) = [kind |-> "fn", part |-> "body", name |-> f.name, params |-> f.params]
         /\ f.at \in Layers => Begun(f) = [kind |-> "type", name |-> f.name]
         /\ f.at = "mizan" => Begun(f) = [kind |-> "mizan", fields |-> f.fields]
<1>1. CASE f.at \in {"params", "signature"}
  BY <1>1 DEF Begun, Layers
<1>2. CASE f.at = "fn"
  BY <1>2 DEF Begun, Layers
<1>3. CASE f.at \in Layers
  BY <1>3 DEF Begun, Layers
<1>4. CASE f.at = "mizan"
  BY <1>4 DEF Begun, Layers
<1>5. QED
  BY <1>1, <1>2, <1>3, <1>4

(* A declaration opens, and the rest of its head is of no matter.          *)
LEMMA OpensDecl ==
  ASSUME Prior, NEW kind \in {"type", "mizan"}, Item({kind}), NEW f, Shaped(f), Open0(f),
         Fresh(Begun(f), kind), NEW count \in Nat \ {0}, Open(count, f), Soft(pos + 1, pos + count)
  PROVE  HeadInv'
<1> DEFINE to == pos + count
<1>1. to \in Nat /\ pos < to /\ pos + 1 \in Nat /\ pos + 1 <= to /\ Soft(pos + 1, to)
  BY PriorFacts
<1>2. pos' = to /\ source' = source /\ frames' = Append(frames, f)
  BY DEF Open, Push, Advance
<1> HIDE DEF to
<1>3. Next1 = kind /\ Top.at = "module" /\ kind \in Kinds
  BY ItemFacts DEF Kinds
<1>4. Begun(f).kind = kind /\ kind # "fn"
  BY DEF Fresh
<1>5. \A other \in Kinds : \A k \in pos + 1 .. to - 1 : Unsaid(other, k)
  BY <1>1, SoftUnsaid
<1>6. \A k \in pos + 1 .. to - 1 : Missed(kind, Begun(f), k)
  BY <1>3, <1>4, <1>5, UnsaidMissed
<1>7. Enclosed(f, to)
  <2>1. Parens(Top) = 0
    BY <1>3 DEF Parens
  <2>2. Nested(pos + 1, 0)
    BY <1>3, <2>1, BalancedHere
  <2>3. At(to) # "eof" => Nested(to, 0)
    BY <1>1, <2>2, SoftNested
  <2>4. QED
    BY <2>3, Outer DEF Enclosed
<1>8. QED
  BY <1>1, <1>2, <1>3, <1>5, <1>6, <1>7, DeclBegins

LEMMA CompoundTypeHeads == Prior /\ CompoundType => HeadInv'
<1> SUFFICES ASSUME Prior, CompoundType PROVE HeadInv'
  OBVIOUS
<1>0. pos \in Nat
  BY PriorFacts
<1>1. CASE NoLayer
  <2>1. UNCHANGED <<source, pos, frames>>
    BY <1>1, Zenon DEF NoLayer, Reject
  <2>2. QED
    BY <2>1, StillHeads
<1>2. CASE OpenType
  <2> DEFINE f == [at |-> "zahir", name |-> After, fields |-> << >>]
  <2>1. Item({"type"}) /\ Open(5, f)
    BY <1>2 DEF OpenType
  <2>2. f.at = "zahir" /\ f.name = After /\ "name" \in DOMAIN f
    OBVIOUS
  <2> HIDE DEF f
  <2>3. Shaped(f) /\ Open0(f) /\ Fresh(Begun(f), "type")
    <3>1. Begun(f) = [kind |-> "type", name |-> f.name]
      BY <2>2, BegunValues DEF Layers
    <3>2. QED
      BY <2>2, <3>1 DEF Shaped, Open0, Fresh
  <2>4. Next1 = "type"
    BY <2>1, ItemFacts
  <2>5. Soft(pos + 1, pos + 5)
    BY <2>1, <2>4, ItemSoft
  <2>6. QED
    BY <2>1, <2>3, <2>5, OpensDecl
<1>3. CASE FieldDecl
  <2>1. Top.at \in Layers /\ IsField /\ \E x : GoOn(pos + 3, WithItem(frames, "fields", x))
    BY <1>3 DEF FieldDecl
  <2>2. PICK x : GoOn(pos + 3, WithItem(frames, "fields", x))
    BY <2>1
  <2>3. Soft(pos, pos + 3)
    <3>1. \A a, b : /\ DOMAIN <<a, b, a>> = 1 .. 3 /\ \A k \in 1 .. 3 : <<a, b, a>>[k] \in {a, b}
      OBVIOUS
    <3>2. SoftSet(Names) /\ SoftSet({":"})
      BY SoftTokens DEF SoftSet, Gentle
    <3>3. SoftList(<<Names, {":"}, Names>>, 3)
      BY <3>1, <3>2 DEF SoftList
    <3>4. QED
      BY <1>0, <2>1, <3>3, SoftBehind DEF IsField
  <2>4. Open0(Top) /\ Top.at \notin {"params", "signature", "mizan"}
    BY <2>1, InertAt DEF Layers
  <2>5. pos + 3 \in Nat /\ pos <= pos + 3
    BY <1>0
  <2>6. Lull
    BY <2>2, <2>3, <2>4, <2>5, GoOnIs, LullTo
  <2>7. QED
    BY <2>2, <2>4, <2>6, LullUpdate DEF GoOn, WithItem, Telling
<1>4. CASE OpenBatin
  <2> DEFINE f == [at |-> "batin", name |-> Top.name, zahir |-> Top.fields, fields |-> << >>]
  <2>1. GoOn(pos + 3, Append(Under, f)) /\ Top.at = "zahir" /\ Next1 \notin Loud
        /\ Matches(pos + 1, <<{"batin"}, {"{"}>>)
    BY <1>4, SoftBraces, Zenon DEF OpenBatin, EndOf, Push
  <2>2. f.at = "batin" /\ f.name = Top.name /\ "name" \in DOMAIN f
    OBVIOUS
  <2> HIDE DEF f
  <2>3. Begun(f) = Begun(Top) /\ Shaped(f) /\ Open0(f) /\ Open0(Top)
    <3>1. Begun(f) = [kind |-> "type", name |-> Top.name] /\ Begun(Top) = [kind |-> "type", name |-> Top.name]
      BY <2>1, <2>2, BegunValues DEF Layers
    <3>2. QED
      BY <2>1, <2>2, <3>1 DEF Shaped, Open0
  <2>4. Alike(frames, frames') /\ frames'[Len(frames')] = f
    <3>1. Top.at \in HeadFrames /\ frames' = Append(Under, f)
      BY <2>1, GoOnIs DEF HeadFrames
    <3>2. QED
      BY <2>3, <3>1, AlikeTurns
  <2>5. Soft(pos, pos + 3)
    <3>1. SoftSet({"batin"})
      BY SoftTokens DEF SoftSet, Layers
    <3>2. SoftSet({"{"})
      BY SoftBraces, Zenon DEF SoftSet
    <3>3. SoftList(<<{"batin"}, {"{"}>>, 2)
      BY <3>1, <3>2, SoftLists, Zenon
    <3>4. pos + 1 \in Nat /\ pos + 3 \in Nat /\ 2 \in Nat /\ (pos + 1) + 2 = pos + 3
      BY <1>0
    <3>5. Soft(pos + 1, (pos + 1) + 2)
      BY <2>1, <3>3, <3>4, SoftBehind, Zenon
    <3>6. Soft(pos, pos + 1) /\ Soft(pos + 1, pos + 3)
      <4>1. Next1 \notin Loud
        BY <2>1
      <4>2. QED
        BY <1>0, <3>4, <3>5, <4>1, SoftRuns DEF Next1
    <3>7. QED
      BY <1>0, <3>4, <3>6, SoftJoin
  <2>6. Lull
    <3>1. Top.at \notin {"params", "signature"} /\ pos' = pos + 3 /\ source' = source
      BY <2>1, GoOnIs
    <3>2. pos + 3 \in Nat /\ pos <= pos + 3
      BY <1>0
    <3>3. QED
      BY <2>5, <3>1, <3>2, LullTo
  <2>7. QED
    BY <2>3, <2>4, <2>6, LullOuter
<1>5. CASE EndType
  <2> DEFINE x == [name |-> Top.name, zahir |-> Top.zahir, batin |-> Top.fields]
  <2>1. /\ Top.at = "batin" /\ Next1 \notin Loud /\ After \notin Loud
        /\ GoOn(pos + 2, WithItem(Under, "compound_types", x))
    BY <1>5, SoftBraces, Zenon DEF EndType, EndOf
  <2>2. x.name = Top.name
    OBVIOUS
  <2> HIDE DEF x
  <2>3. Begun(Top) = [kind |-> "type", name |-> Top.name] /\ Parens(Top) = 0 /\ Top.at \in HeadFrames
    BY <2>1, BegunValues DEF Layers, Parens, HeadFrames
  <2>4. pos + 2 \in Nat /\ pos <= pos + 2 /\ Soft(pos, pos + 2)
    BY <1>0, <2>1, SoftRuns DEF Next1, After
  <2>5. FieldFor("type") = "compound_types" /\ "type" \in Kinds /\ Begun(Top).kind = "type"
    BY <2>3 DEF FieldFor, Kinds
  <2>6. ASSUME NEW h, BegunRight("type", h, Begun(Top), << >>, pos + 2)
        PROVE  DoneRight("type", h, x, pos + 2)
    <3>1. Begun(Top).name = At(h + 1)
      BY <2>6, Zenon DEF BegunRight
    <3>2. QED
      BY <2>2, <2>3, <3>1 DEF DoneRight
  <2>7. GoOn(pos + 2, WithItem(Under, FieldFor("type"), x))
    BY <2>1, <2>5
  <2>8. QED
    BY <2>3, <2>4, <2>5, <2>6, <2>7, DeclDone
<1>6. QED
  BY <1>1, <1>2, <1>3, <1>4, <1>5 DEF CompoundType

-----------------------------------------------------------------------------
LEMMA PushedTwo ==
  ASSUME NEW S, NEW s \in Seq(S), Len(s) = 2, NEW f \in S, NEW g \in S
  PROVE  LET t == s \o <<f, g>>
         IN  /\ Len(t) = 4 /\ DOMAIN t = 1 .. 4
             /\ t[1] = s[1] /\ t[2] = s[2] /\ t[3] = f /\ t[4] = g
<1> DEFINE t == Append(s, f)
           u == Append(t, g)
<1>1. s \o <<f, g>> = u
  OBVIOUS
<1>2. IsSeq(s)
  BY DEF IsSeq
<1>3. /\ IsSeq(t) /\ Len(t) = Len(s) + 1
      /\ \A i \in 1 .. Len(s) : t[i] = s[i]
      /\ t[Len(s) + 1] = f
  BY ONLY <1>2, AppendSeq
<1> HIDE DEF t
<1>4. Len(t) = 3 /\ t[1] = s[1] /\ t[2] = s[2] /\ t[3] = f
  BY <1>3
<1>5. /\ Len(u) = Len(t) + 1 /\ DOMAIN u = 1 .. (Len(t) + 1)
      /\ \A i \in 1 .. Len(t) : u[i] = t[i]
      /\ u[Len(t) + 1] = g
  BY ONLY <1>3, AppendSeq
<1> HIDE DEF u
<1>6. Len(u) = 4 /\ DOMAIN u = 1 .. 4 /\ u[1] = t[1] /\ u[2] = t[2] /\ u[3] = t[3] /\ u[4] = g
  BY <1>4, <1>5
<1>7. QED
  BY <1>1, <1>4, <1>6

(* The bounds of a mizan block.                                            *)
LEMMA BoundPushed ==
  ASSUME Prior, Top.at = "mizan", NEW f, f.at = "bound", Shaped(f), NEW g, Shaped(g)
  PROVE  LET t == frames \o <<f, g>>
         IN  /\ Shape(t) /\ t[Len(t)] = g
             /\ BegunOf(t) = Begun(Top) /\ BoundOf(t) = <<f.name>>
             /\ \A kind \in Kinds : DoneOf(t, kind) = DoneOf(frames, kind)
<1> DEFINE t == frames \o <<f, g>>
<1>1. Len(frames) = 2 /\ Top = frames[2]
  BY DeclTop DEF HeadFrames
<1>2. /\ Len(t) = 4 /\ DOMAIN t = 1 .. 4 /\ t[1] = frames[1] /\ t[2] = frames[2] /\ t[3] = f /\ t[4] = g
  <2>1. PICK S : frames \in Seq(S)
    BY PriorFacts DEF Stack, IsSeq
  <2>2. frames \in Seq(S \cup {f, g})
    BY <2>1, SeqMonotonic
  <2>3. f \in S \cup {f, g} /\ g \in S \cup {f, g} /\ Len(frames) = 2
    BY <1>1
  <2>4. QED
    BY <1>1, <2>2, <2>3, PushedTwo
<1>3. Shaped(frames[1]) /\ Shaped(frames[2])
  <2>1. 1 \in DOMAIN frames /\ 2 \in DOMAIN frames
    BY <1>1, PriorFacts
  <2>2. QED
    BY <2>1, PriorFacts DEF Shape
<1> HIDE DEF t
<1>4. Shape(t)
  <2>1. \A i \in 1 .. 4 : i = 1 \/ i = 2 \/ i = 3 \/ i = 4
    OBVIOUS
  <2>2. QED
    BY <1>2, <1>3, <2>1 DEF Shape
<1>5. BegunOf(t) = Begun(Top) /\ BoundOf(t) = <<f.name>>
  BY <1>1, <1>2 DEF BegunOf, BoundOf
<1>6. \A kind \in Kinds : DoneOf(t, kind) = DoneOf(frames, kind)
  BY <1>2 DEF DoneOf, Kinds
<1>7. QED
  BY <1>2, <1>4, <1>5, <1>6 DEF t

LEMMA StartBoundHeads == Prior /\ StartBound => HeadInv'
<1> SUFFICES ASSUME Prior, StartBound PROVE HeadInv'
  OBVIOUS
<1> DEFINE f == [at |-> "bound", name |-> Next1]
           g == [at |-> "left"]
<1>1. Item(MizanHeads) /\ frames' = frames \o <<f, g>> /\ pos' = pos + 2 /\ source' = source
  BY DEF StartBound, Advance
<1>2. f.at = "bound" /\ f.name = Next1 /\ "name" \in DOMAIN f /\ g.at = "left"
  OBVIOUS
<1> HIDE DEF f, g
<1>3. Next1 \in MizanHeads /\ Top.at = "mizan" /\ At(pos) = Next1
  BY <1>1, ItemFacts DEF Next1
<1>4. Shaped(f) /\ Shaped(g) /\ Open0(g) /\ Parens(Top) = 0
  BY <1>2, <1>3 DEF Shaped, Open0, Parens, Layers
<1>5. /\ Shape(frames') /\ frames'[Len(frames')] = g
      /\ BegunOf(frames') = Begun(Top) /\ BoundOf(frames') = <<Next1>>
      /\ \A kind \in Kinds : DoneOf(frames', kind) = DoneOf(frames, kind)
  BY <1>1, <1>2, <1>3, <1>4, BoundPushed
<1>6. BegunOf(frames) = Begun(Top) /\ BoundOf(frames) = << >> /\ Begun(Top).kind = "mizan"
  <2>1. Begun(Top) = [kind |-> "mizan", fields |-> Top.fields]
    BY <1>3, BegunValues
  <2>2. QED
    BY <1>3, <2>1, DeclTop DEF HeadFrames
<1>7. pos \in Nat /\ pos + 1 \in Nat /\ pos + 2 \in Nat /\ (pos + 1) + 1 = pos + 2 /\ pos + 1 <= pos + 2
      /\ pos <= pos + 2 /\ IInv
  BY PriorFacts
<1>8. Balanced(1, pos) /\ Nested(pos + 1, 0)
  BY <1>3, <1>4, BalancedHere
<1>9. Soft(pos + 1, pos + 2)
  <2>1. After \notin Loud
    BY <1>1, <1>3, ItemSoft
  <2>2. Soft(pos + 1, (pos + 1) + 1)
    BY <1>7, <2>1, SoftRuns DEF After
  <2>3. QED
    BY <1>7, <2>2
<1>10. KindRight("mizan", DoneOf(frames, "mizan"), Begun(Top), <<Next1>>, pos + 2)
  <2> DEFINE done == DoneOf(frames, "mizan")
             d == Begun(Top)
  <2>1. KindRight("mizan", done, d, << >>, pos) /\ d.kind = "mizan" /\ "mizan" \in Kinds /\ "mizan" # "fn"
    BY <1>6, KindNow DEF Kinds
  <2> HIDE DEF done, d
  <2>2. At(pos) \in MizanHeads
    BY <1>3
  <2>3. KindRight("mizan", done, d, <<At(pos)>>, pos + 1)
    BY <1>7, <1>8, <2>1, <2>2, BoundStarts
  <2>4. \A k \in pos + 1 .. (pos + 2) - 1 : Unsaid("mizan", k)
    BY <1>9, <2>1, SoftUnsaid
  <2>5. KindRight("mizan", done, d, <<At(pos)>>, pos + 2)
    BY <1>7, <2>1, <2>3, <2>4, UnsaidKeeps
  <2>6. QED
    BY <1>3, <2>5 DEF done, d
<1>11. ASSUME NEW other \in Kinds, other # "mizan"
       PROVE  KindRight(other, DoneOf(frames, other), Begun(Top), <<Next1>>, pos + 2)
  <2> DEFINE done == DoneOf(frames, other)
             d == Begun(Top)
  <2>1. KindRight(other, done, d, << >>, pos) /\ d.kind # other
    BY <1>6, <1>11, KindNow
  <2> HIDE DEF done, d
  <2>2. \A k \in pos .. (pos + 2) - 1 : k = pos \/ k \in pos + 1 .. (pos + 2) - 1
    BY <1>7
  <2>3. Unsaid(other, pos)
    BY <1>3, <1>11 DEF Unsaid, Kinds, MizanHeads
  <2>4. \A k \in pos + 1 .. (pos + 2) - 1 : Unsaid(other, k)
    BY <1>9, SoftUnsaid
  <2>5. \A k \in pos .. (pos + 2) - 1 : Unsaid(other, k)
    BY <2>2, <2>3, <2>4
  <2>6. KindRight(other, done, d, <<Next1>>, pos + 2)
    BY <1>7, <2>1, <2>5, OthersKeep
  <2>7. QED
    BY <2>6 DEF done, d
<1>12. \A k \in Kinds : KindRight(k, DoneOf(frames', k), BegunOf(frames'), BoundOf(frames'), pos')
  BY <1>1, <1>5, <1>10, <1>11
<1>13. Enclosed(frames'[Len(frames')], pos')
  <2>1. At(pos + 2) # "eof" => Nested(pos + 2, 0)
    BY <1>7, <1>8, <1>9, SoftNested
  <2>2. Enclosed(g, pos + 2)
    BY <1>4, <2>1, Outer DEF Enclosed
  <2>3. QED
    BY <1>1, <1>5, <2>2
<1>14. QED
  BY <1>1, <1>5, <1>12, <1>13, HeadMove

(* A bound on its mizan block, on the module.                              *)
LEMMA BoundTop ==
  ASSUME Prior, Top.at = "bound"
  PROVE  /\ Len(frames) = 3 /\ Top = frames[3]
         /\ Len(Under) = 2 /\ DOMAIN Under = 1 .. 2 /\ Stack(Under)
         /\ Under[1] = frames[1] /\ Under[2] = frames[2] /\ frames[2].at = "mizan"
         /\ frames[1].at = "module"
         /\ BegunOf(frames) = Begun(frames[2]) /\ BoundOf(frames) = <<Top.name>>
<1>1. WellNested(Under) /\ Lies(Under[Len(Under)].at, Top.at) /\ Len(Under) = Len(frames) - 1
  BY RunFacts, FrontFacts DEF Prior
<1>2. Under[Len(Under)].at = "mizan"
  BY <1>1, Callers
<1> DEFINE s == Under
           u == Front(s)
<1>3. WellNested(u) /\ Len(u) = Len(s) - 1 /\ Lies(u[Len(u)].at, "mizan")
  BY <1>1, <1>2, FrontFacts
<1> HIDE DEF u
<1>4. Len(u) = 1
  BY <1>3, Callers, ModuleOnly
<1>5. Len(Under) = 2 /\ DOMAIN Under = 1 .. 2 /\ Stack(Under)
  <2>1. Stack(Under)
    BY <1>1 DEF WellNested, Stack, IsSeq
  <2> DEFINE n == Len(Under)
             m == Len(u)
  <2>2. n \in Nat /\ DOMAIN Under = 1 .. n /\ m = n - 1 /\ m = 1
    BY <1>3, <1>4, <2>1, StackShape
  <2> HIDE DEF n, m
  <2>3. n = 2
    BY <2>2
  <2>4. QED
    BY <2>1, <2>2, <2>3 DEF n
<1>6. Len(frames) = 3 /\ Top = frames[3]
  <2> DEFINE n == Len(frames)
             m == Len(Under)
  <2>1. n \in Nat /\ m = n - 1 /\ m = 2 /\ Top = frames[n]
    BY <1>1, <1>5, RunFacts DEF Prior
  <2> HIDE DEF n, m
  <2>2. n = 3
    BY <2>1
  <2>3. QED
    BY <2>1, <2>2 DEF n
<1>7. \A i \in 1 .. 2 : Under[i] = frames[i]
  <2>1. \A i \in 1 .. (Len(frames) - 1) : Front(frames)[i] = frames[i]
    BY PriorFacts, FrontLast DEF Stack
  <2>2. Under = Front(frames) /\ Len(frames) - 1 = 2
    BY <1>6, PriorFacts
  <2>3. QED
    BY <2>1, <2>2
<1>8. 1 \in 1 .. 2 /\ 2 \in 1 .. 2
  OBVIOUS
<1>9. QED
  BY <1>2, <1>5, <1>6, <1>7, <1>8, PriorFacts DEF BegunOf, BoundOf

LEMMA EndBoundHeads == Prior /\ EndBound => HeadInv'
<1> SUFFICES ASSUME Prior, EndBound PROVE HeadInv'
  OBVIOUS
<1> DEFINE item == [name |-> Top.name, value |-> value]
           to == PastComma(pos)
           m == frames[2]
           g == [m EXCEPT !.fields = Append(@, item)]
           t == frames'
<1>1. Top.at = "bound" /\ frames' = WithField(Under, item) /\ pos' = to /\ source' = source
  BY DEF EndBound
<1>2. /\ Len(Under) = 2 /\ DOMAIN Under = 1 .. 2 /\ Stack(Under)
      /\ Under[1] = frames[1] /\ Under[2] = m /\ m.at = "mizan" /\ frames[1].at = "module"
      /\ Len(frames) = 3
      /\ BegunOf(frames) = Begun(m) /\ BoundOf(frames) = <<Top.name>>
  BY <1>1, BoundTop
<1>3. pos \in Nat /\ to \in Nat /\ pos <= to /\ Soft(pos, to) /\ IInv
  BY SoftComma, PriorFacts
<1>4. item.name = Top.name
  OBVIOUS
<1> HIDE DEF item
<1>5. t = [Under EXCEPT ![2] = g]
  BY <1>1, <1>2 DEF WithField
<1>6. /\ DOMAIN t = 1 .. 2 /\ t[1] = frames[1] /\ t[2] = g /\ Len(t) = 2
  <2>1. PICK S : Under \in Seq(S)
    BY <1>2 DEF Stack, IsSeq
  <2>2. Len(t) = Len(Under) /\ DOMAIN t = DOMAIN Under
    BY <1>5, <2>1
  <2>3. QED
    BY <1>2, <1>5, <2>2
<1>7. Shaped(m) /\ Shaped(frames[1]) /\ "at" \in DOMAIN m
  <2>1. 1 \in DOMAIN frames /\ 2 \in DOMAIN frames
    BY <1>2, PriorFacts, StackShape
  <2>2. QED
    BY <2>1, PriorFacts DEF Shape
<1>8. "fields" \in DOMAIN m
  BY <1>2, <1>7 DEF Shaped
<1>9. g.at = "mizan" /\ g.fields = Append(m.fields, item) /\ DOMAIN g = DOMAIN m
  BY <1>2, <1>7, <1>8
<1> HIDE DEF t, g, m
<1>10. Shaped(g) /\ Open0(g)
  BY <1>8, <1>9 DEF Shaped, Open0, Layers
<1>11. Shape(t)
  <2>1. \A i \in 1 .. 2 : i = 1 \/ i = 2
    OBVIOUS
  <2>2. QED
    BY <1>6, <1>7, <1>10, <2>1 DEF Shape
<1>12. BegunOf(t) = Begun(g) /\ BoundOf(t) = << >> /\ \A k \in Kinds : DoneOf(t, k) = DoneOf(frames, k)
  BY <1>6 DEF BegunOf, BoundOf, DoneOf, Kinds
<1>13. /\ Begun(m).kind = "mizan" /\ Begun(m).fields = m.fields
       /\ Begun(g).kind = "mizan" /\ Begun(g).fields = Append(m.fields, item)
  <2>1. Begun(m) = [kind |-> "mizan", fields |-> m.fields]
       /\ Begun(g) = [kind |-> "mizan", fields |-> g.fields]
    BY <1>2, <1>9, BegunValues
  <2>2. QED
    BY <1>9, <2>1
<1>14. KindRight("mizan", DoneOf(frames, "mizan"), Begun(g), << >>, to)
  <2> DEFINE done == DoneOf(frames, "mizan")
             d == Begun(m)
             e == Begun(g)
  <2>1. KindRight("mizan", done, d, <<Top.name>>, pos) /\ "mizan" \in Kinds /\ "mizan" # "fn"
    BY <1>2, KindNow DEF Kinds
  <2>2. d.kind = "mizan" /\ e.kind = "mizan" /\ e.fields = Append(d.fields, item)
    BY <1>13
  <2> HIDE DEF done, d, e
  <2>3. KindRight("mizan", done, e, << >>, pos)
    BY <1>3, <1>4, <2>1, <2>2, BoundEnds
  <2>4. \A k \in pos .. to - 1 : Unsaid("mizan", k)
    BY <1>3, <2>1, SoftUnsaid
  <2> HIDE DEF to
  <2>5. KindRight("mizan", done, e, << >>, to)
    BY <1>3, <2>1, <2>2, <2>3, <2>4, UnsaidKeeps
  <2>6. QED
    BY <2>5 DEF done, e
<1> HIDE DEF to
<1>15. ASSUME NEW other \in Kinds, other # "mizan"
       PROVE  KindRight(other, DoneOf(frames, other), Begun(g), << >>, to)
  <2> DEFINE done == DoneOf(frames, other)
             d == Begun(m)
             e == Begun(g)
  <2>1. KindRight(other, done, d, <<Top.name>>, pos) /\ d.kind # other /\ e.kind # other
    BY <1>2, <1>13, <1>15, KindNow
  <2> HIDE DEF done, d, e
  <2>2. \A k \in pos .. to - 1 : Unsaid(other, k)
    BY <1>3, SoftUnsaid
  <2>3. KindRight(other, done, e, << >>, to)
    BY <1>3, <2>1, <2>2, OthersKeep
  <2>4. QED
    BY <2>3 DEF done, e
<1>16. \A k \in Kinds : KindRight(k, DoneOf(t, k), BegunOf(t), BoundOf(t), to)
  BY <1>12, <1>14, <1>15
<1>17. Enclosed(t[Len(t)], to)
  <2>1. Top.at \notin {"args", "opaque", "params"}
    BY <1>1
  <2>2. At(pos) # "eof" => Nested(pos, 0)
    BY <2>1, PriorFacts DEF Enclosed, Parens
  <2>3. At(to) # "eof" => Nested(to, 0)
    BY <1>3, <2>2, SoftNested
  <2>4. Enclosed(g, to)
    BY <1>10, <2>3, Outer DEF Enclosed
  <2>5. QED
    BY <1>6, <2>4
<1>18. QED
  BY <1>1, <1>11, <1>16, <1>17, HeadMove DEF t

LEMMA BlockHeads == Prior /\ Mizan => HeadInv'
<1> SUFFICES ASSUME Prior, Mizan PROVE HeadInv'
  OBVIOUS
<1>0. pos \in Nat
  BY PriorFacts
<1>1. CASE OpenMizan
  <2> DEFINE f == [at |-> "mizan", name |-> After, fields |-> << >>]
  <2>1. Item({"mizan"}) /\ Open(3, f)
    BY <1>1 DEF OpenMizan
  <2>2. f.at = "mizan" /\ f.fields = << >> /\ "fields" \in DOMAIN f
    OBVIOUS
  <2> HIDE DEF f
  <2>3. Shaped(f) /\ Open0(f) /\ Fresh(Begun(f), "mizan")
    <3>1. Begun(f) = [kind |-> "mizan", fields |-> f.fields]
      BY <2>2, BegunValues
    <3>2. QED
      BY <2>2, <3>1 DEF Shaped, Open0, Fresh, Layers
  <2>4. Next1 = "mizan"
    BY <2>1, ItemFacts
  <2>5. Soft(pos + 1, pos + 3)
    BY <2>1, <2>4, ItemSoft
  <2>6. QED
    BY <2>1, <2>3, <2>5, OpensDecl
<1>2. CASE EndMizan
  <2> DEFINE x == [name |-> Top.name, fields |-> Top.fields]
  <2>1. /\ Top.at = "mizan" /\ Next1 \notin Loud
        /\ GoOn(pos + 1, WithItem(Under, "mizan_decls", x))
    BY <1>2, SoftBraces, Zenon DEF EndMizan, EndOf
  <2>2. x.fields = Top.fields
    OBVIOUS
  <2> HIDE DEF x
  <2>3. Begun(Top) = [kind |-> "mizan", fields |-> Top.fields] /\ Parens(Top) = 0 /\ Top.at \in HeadFrames
    BY <2>1, BegunValues DEF Parens, HeadFrames
  <2>4. pos + 1 \in Nat /\ pos <= pos + 1 /\ Soft(pos, pos + 1)
    BY <1>0, <2>1, SoftRuns DEF Next1
  <2>5. FieldFor("mizan") = "mizan_decls" /\ "mizan" \in Kinds /\ "mizan" # "fn" /\ Begun(Top).kind = "mizan"
    BY <2>3 DEF FieldFor, Kinds
  <2>6. ASSUME NEW h, BegunRight("mizan", h, Begun(Top), << >>, pos + 1)
        PROVE  DoneRight("mizan", h, x, pos + 1)
    <3>1. FieldsRight(Begun(Top).fields, << >>, h, pos + 1)
      BY <2>6, Zenon DEF BegunRight
    <3>2. QED
      BY <2>2, <2>3, <3>1 DEF DoneRight
  <2>7. GoOn(pos + 1, WithItem(Under, FieldFor("mizan"), x))
    BY <2>1, <2>5
  <2>8. QED
    BY <2>3, <2>4, <2>5, <2>6, <2>7, DeclDone
<1>3. QED
  BY <1>1, <1>2, StartBoundHeads, EndBoundHeads DEF Mizan

-----------------------------------------------------------------------------
(* The head of a function.                                                 *)
Mild(p, q) == \A k \in p .. q - 1 : At(k) \in Names \cup Layers \cup {".", ",", "->", "(", ")"}

LEMMA MildSigns ==
  \A t \in Names \cup Layers \cup {".", ",", "->", "(", ")", ":"} :
    t # "{" /\ t \notin Kinds \cup MizanHeads \cup {"eof"} /\ (t = ":" => t \notin Names)
BY Zenon DEF Names, Layers, Kinds, MizanHeads

LEMMA TypeTokens ==
  ASSUME NEW i \in Nat, IsType(i)
  PROVE  /\ TypeEnd(i) \in Nat /\ i < TypeEnd(i) /\ LayerKnown(TypePath(i).layer)
         /\ \A k \in i .. TypeEnd(i) - 1 : At(k) \in Names \cup Layers \cup {"."}
<1>1. CASE At(i + 1) = "."
  <2>1. TypeEnd(i) = i + 3 /\ At(i) \in Names /\ At(i + 2) \in Layers /\ TypePath(i).layer = At(i + 2)
    BY <1>1 DEF IsType, TypeEnd, TypePath
  <2>2. \A k \in i .. (i + 3) - 1 : k = i \/ k = i + 1 \/ k = i + 2
    OBVIOUS
  <2>3. QED
    BY SameWords, <1>1, <2>1, <2>2 DEF LayerKnown
<1>2. CASE At(i + 1) # "."
  <2>1. TypeEnd(i) = i + 1 /\ At(i) \in Names /\ TypePath(i).layer = "none"
    BY <1>2 DEF IsType, TypeEnd, TypePath
  <2>2. \A k \in i .. (i + 1) - 1 : k = i
    OBVIOUS
  <2>3. QED
    BY SameWords, <2>1, <2>2 DEF LayerKnown
<1>3. QED
  BY <1>1, <1>2

LEMMA MildMissed ==
  ASSUME NEW k, At(k) \in Names \cup Layers \cup {".", ",", "->", "(", ")"}, NEW kind \in Kinds, NEW d
  PROVE  Missed(kind, d, k)
<1>1. At(k) # "{" /\ At(k) \notin Kinds /\ At(k) \notin MizanHeads
  BY MildSigns, Zenon
<1>2. At(k) # ":"
  BY DEF Names, Layers
<1>3. At(k) # kind
  BY <1>1, Zenon
<1>4. QED
  BY <1>1, <1>2, <1>3, Zenon DEF Missed

LEMMA OpenFunctionHeads == Prior /\ OpenFunction => HeadInv'
<1> SUFFICES ASSUME Prior, OpenFunction PROVE HeadInv'
  OBVIOUS
<1> DEFINE f == [at |-> "params", name |-> After, params |-> << >>]
           to == pos + 3
<1>1. Item({"fn"}) /\ Open(3, f)
  BY DEF OpenFunction
<1>2. f.at = "params" /\ f.name = After /\ f.params = << >> /\ "name" \in DOMAIN f /\ "params" \in DOMAIN f
  OBVIOUS
<1> HIDE DEF f
<1>3. Next1 = "fn" /\ Top.at = "module" /\ "fn" \in Kinds
  BY <1>1, ItemFacts DEF Kinds
<1>4. At(pos + 1) \in Names /\ At(pos + 2) = "("
  BY <1>1, <1>3, ItemSoft DEF After
<1>5. Shaped(f) /\ Fresh(Begun(f), "fn")
  <2>1. Begun(f) = [kind |-> "fn", part |-> "head", name |-> f.name, params |-> f.params]
    BY <1>2, BegunValues
  <2>2. QED
    BY <1>2, <2>1 DEF Shaped, Fresh, Layers
<1>6. pos' = to /\ frames' = Append(frames, f) /\ source' = source
  BY <1>1 DEF Open, Push, Advance
<1>7. pos \in Nat /\ to \in Nat /\ pos < to /\ pos + 1 \in Nat /\ pos + 2 \in Nat
      /\ (pos + 1) + 1 = pos + 2 /\ (pos + 2) + 1 = to /\ pos + 1 <= pos + 2
      /\ (\A k \in pos + 1 .. to - 1 : k = pos + 1 \/ k = pos + 2)
      /\ \A k \in pos + 1 .. (pos + 2) - 1 : k = pos + 1
  BY PriorFacts
<1> HIDE DEF to
<1>8. \A k \in pos + 1 .. to - 1 : At(k) \in Names \cup Layers \cup {".", ",", "->", "(", ")"}
  BY <1>4, <1>7
<1>9. \A k \in pos + 1 .. to - 1 : Missed("fn", Begun(f), k)
  BY <1>3, <1>8, MildMissed
<1>10. \A other \in Kinds \ {"fn"} : \A k \in pos + 1 .. to - 1 : Unsaid(other, k)
  <2> SUFFICES ASSUME NEW other \in Kinds \ {"fn"}, NEW k \in pos + 1 .. to - 1 PROVE Unsaid(other, k)
    OBVIOUS
  <2>1. At(k) \notin Kinds /\ At(k) \notin MizanHeads
    BY <1>8, MildSigns, Zenon
  <2>2. QED
    BY <2>1, Zenon DEF Unsaid
<1>11. Enclosed(f, to)
  <2>1. Parens(Top) = 0 /\ Next1 \in Kinds \cup MizanHeads
    BY <1>3 DEF Parens
  <2>2. Nested(pos + 1, 0)
    BY <2>1, BalancedHere
  <2>3. At(pos + 1) \notin {"(", ")"}
    BY <1>4 DEF Names
  <2>4. Nested(pos + 2, 0)
    BY <1>7, <2>2, <2>3, NestedRun
  <2>5. Nested((pos + 2) + 1, 0 + 1)
    BY <1>4, <2>4, NestedStep
  <2>6. Nested(to, 1)
    BY <1>7, <2>5
  <2>7. QED
    BY <1>2, <2>6 DEF Enclosed, Parens
<1>12. QED
  BY <1>3, <1>5, <1>6, <1>7, <1>9, <1>10, <1>11, DeclBegins

LEMMA PairMatches ==
  ASSUME NEW i \in Nat, NEW A, NEW B, Matches(i, <<A, B>>)
  PROVE  At(i) \in A /\ At(i + 1) \in B
<1>1. DOMAIN <<A, B>> = {1, 2} /\ <<A, B>>[1] = A /\ <<A, B>>[2] = B
  OBVIOUS
<1>2. (i + 1) - 1 = i /\ (i + 2) - 1 = i + 1
  OBVIOUS
<1>3. At((i + 1) - 1) \in A /\ At((i + 2) - 1) \in B
  BY <1>1 DEF Matches
<1>4. QED
  BY <1>2, <1>3

(* Where the tokens of a parameter are.                                    *)
LEMMA ParamTokens ==
  ASSUME Prior, Param
  PROVE  LET i == ParamAt
             to == TypeEnd(ParamAt + 2)
         IN  /\ i \in Nat /\ to \in Nat /\ pos <= i /\ i + 1 < to /\ At(i) # "eof"
             /\ At(i + 1) = ":" /\ LayerKnown(TypePath(i + 2).layer) /\ Soft(pos, to)
             /\ \A k \in pos .. to - 1 :
                  k = i + 1 \/ At(k) \in Names \cup Layers \cup {".", ","}
<1> DEFINE i == ParamAt
           to == TypeEnd(i + 2)
<1>0. pos \in Nat /\ MoreParams
  BY PriorFacts DEF Param
<1>1. Matches(i, <<Names, {":"}>>) /\ IsType(i + 2)
  BY DEF Param, IsParam
<1>2. \/ i = pos
      \/ i = pos + 1 /\ At(pos) = ","
  BY <1>0 DEF ParamAt, MoreParams, Next1
<1>3. i \in Nat /\ i + 2 \in Nat /\ pos <= i
  <2>1. i = pos \/ i = pos + 1
    BY <1>2
  <2>2. QED
    BY <1>0, <2>1
<1> HIDE DEF i
<1>4. At(i) \in Names /\ At(i + 1) = ":"
  <2>1. At(i) \in Names /\ At(i + 1) \in {":"}
    BY <1>1, <1>3, PairMatches, Zenon
  <2>2. QED
    BY <2>1
<1>5. /\ to \in Nat /\ i + 2 < to /\ LayerKnown(TypePath(i + 2).layer)
      /\ \A k \in i + 2 .. to - 1 : At(k) \in Names \cup Layers \cup {"."}
  <2>1. IsType(i + 2)
    BY <1>1
  <2>2. QED
    BY <1>3, <2>1, TypeTokens
<1> HIDE DEF to
<1>6. \A k \in pos .. to - 1 : k = pos \/ k = i \/ k = i + 1 \/ k \in i + 2 .. to - 1
  <2>1. i = pos \/ i = pos + 1
    BY <1>2
  <2>2. to \in Nat /\ i + 2 < to
    BY <1>5
  <2>3. QED
    BY <1>0, <1>3, <2>1, <2>2
<1>7. \A k \in pos .. to - 1 : k = i + 1 \/ At(k) \in Names \cup Layers \cup {".", ","}
  BY <1>2, <1>4, <1>5, <1>6
<1>8. At(i) # "eof" /\ i + 1 < to
  BY <1>3, <1>4, <1>5 DEF Names
<1>9. Soft(pos, to)
  <2>1. \A k \in pos .. to - 1 : At(k) \in Names \cup Layers \cup {":", ".", ","}
    BY <1>4, <1>7
  <2>2. {":", ".", ","} \subseteq Gentle
    BY DEF Gentle
  <2>3. QED
    BY <2>1, <2>2, SoftTokens DEF Soft
<1>10. QED
  BY <1>3, <1>4, <1>5, <1>7, <1>8, <1>9 DEF i, to

LEMMA ParamHeads == Prior /\ Param => HeadInv'
<1> SUFFICES ASSUME Prior, Param PROVE HeadInv'
  OBVIOUS
<1> DEFINE i == ParamAt
           to == TypeEnd(ParamAt + 2)
           x == ParamAtPlace(i)
           f == frames[2]
           g == [f EXCEPT !.params = Append(@, x)]
           t == frames'
<1>1. /\ i \in Nat /\ to \in Nat /\ pos <= i /\ i + 1 < to /\ At(i) # "eof"
      /\ At(i + 1) = ":" /\ LayerKnown(TypePath(i + 2).layer) /\ Soft(pos, to)
      /\ \A k \in pos .. to - 1 :
           k = i + 1 \/ At(k) \in Names \cup Layers \cup {".", ","}
  BY ParamTokens
<1>2. /\ Top.at = "params" /\ pos' = to /\ source' = source
      /\ t = [frames EXCEPT ![Len(frames)].params = Append(@, x)]
  BY DEF Param, GoOn, WithItem, ParamAtPlace
<1>3. pos \in Nat /\ pos <= to /\ IInv /\ Stack(frames)
  <2>1. pos <= i /\ i + 1 < to /\ i \in Nat /\ to \in Nat
    BY <1>1, Zenon
  <2> HIDE DEF i, to
  <2>2. QED
    BY <2>1, PriorFacts
<1>4. /\ Len(frames) = 2 /\ Top = f /\ frames[1].at = "module"
      /\ BegunOf(frames) = Begun(f) /\ BoundOf(frames) = << >>
  BY <1>2, DeclTop, PriorFacts DEF HeadFrames
<1>5. x = ParamAtPlace(i) /\ x.type_path.layer = TypePath(i + 2).layer
  BY DEF ParamAtPlace
<1> HIDE DEF x, i, to
<1>6. /\ DOMAIN t = 1 .. 2 /\ Len(t) = 2 /\ t[1] = frames[1] /\ t[2] = g
  <2>1. t = [frames EXCEPT ![2] = g]
    BY <1>2, <1>4
  <2>2. PICK S : frames \in Seq(S)
    BY <1>3 DEF Stack, IsSeq
  <2>3. DOMAIN frames = 1 .. 2
    BY <1>4, <2>2
  <2>4. QED
    BY <1>4, <2>1, <2>2, <2>3
<1>7. Shaped(f) /\ Shaped(frames[1]) /\ "at" \in DOMAIN f
  BY <1>4, PriorFacts DEF Shape
<1>8. {"name", "params"} \subseteq DOMAIN f /\ f.at = "params"
  BY <1>2, <1>4, <1>7 DEF Shaped
<1>9. g.at = "params" /\ g.name = f.name /\ g.params = Append(f.params, x) /\ DOMAIN g = DOMAIN f
  BY <1>7, <1>8
<1> HIDE DEF f, g, t
<1>10. Shape(t)
  <2>1. Shaped(g)
    BY <1>8, <1>9 DEF Shaped, Layers
  <2>2. \A j \in 1 .. 2 : j = 1 \/ j = 2
    OBVIOUS
  <2>3. QED
    BY <1>6, <1>7, <2>1, <2>2 DEF Shape
<1>11. BegunOf(t) = Begun(g) /\ BoundOf(t) = << >> /\ \A k \in Kinds : DoneOf(t, k) = DoneOf(frames, k)
  BY <1>6 DEF BegunOf, BoundOf, DoneOf, Kinds
<1>12. /\ Begun(f) = [kind |-> "fn", part |-> "head", name |-> f.name, params |-> f.params]
       /\ Begun(g) = [kind |-> "fn", part |-> "head", name |-> f.name, params |-> Append(f.params, x)]
  BY <1>8, <1>9, BegunValues
<1>13. \A k \in pos .. to - 1 : At(k) # "{" /\ At(k) \notin Kinds \cup MizanHeads
       /\ (At(k) = ":" <=> k = i + 1)
  <2> SUFFICES ASSUME NEW k \in pos .. to - 1
               PROVE  At(k) # "{" /\ At(k) \notin Kinds \cup MizanHeads /\ (At(k) = ":" <=> k = i + 1)
    BY Zenon
  <2>1. CASE k = i + 1
    <3>1. At(k) = ":"
      BY <1>1, <2>1
    <3>2. QED
      BY <2>1, <3>1, MildSigns, Zenon
  <2>2. CASE k # i + 1
    <3>1. At(k) \in Names \cup Layers \cup {".", ","}
      BY <1>1, <2>2
    <3>2. At(k) # ":"
      BY <3>1 DEF Names, Layers
    <3>3. QED
      BY <2>2, <3>1, <3>2, MildSigns, Zenon
  <2>3. QED
    BY <2>1, <2>2, Zenon
<1>14. NoBrace(pos, to)
  BY <1>13, Zenon DEF NoBrace
<1>15. \A k \in pos .. to - 1 : At(k) \notin Kinds \cup MizanHeads /\ (At(k) = ":" <=> k = i + 1)
  BY <1>13, Zenon
<1>16. KindRight("fn", DoneOf(frames, "fn"), Begun(g), << >>, to)
  <2> DEFINE done == DoneOf(frames, "fn")
             d == Begun(f)
             e == Begun(g)
  <2>1. KindRight("fn", done, d, << >>, pos)
    BY <1>4, KindNow DEF Kinds
  <2>2. /\ d.kind = "fn" /\ d.part = "head" /\ e.kind = "fn" /\ e.part = "head" /\ e.name = d.name
        /\ e.params = Append(d.params, x)
    BY <1>12
  <2>3. \A k \in pos .. to - 1 : At(k) # "fn" /\ (At(k) = ":" <=> k = i + 1)
    BY <1>15 DEF Kinds
  <2>4. LayerKnown(x.type_path.layer)
    BY <1>1, <1>5
  <2> HIDE DEF done, d, e
  <2>5. KindRight("fn", done, e, << >>, to)
    BY <1>1, <1>3, <1>5, <1>14, <2>1, <2>2, <2>3, <2>4, ParamAdded
  <2>6. QED
    BY <2>5 DEF done, e
<1>17. ASSUME NEW other \in Kinds, other # "fn"
       PROVE  KindRight(other, DoneOf(frames, other), Begun(g), << >>, to)
  <2> DEFINE done == DoneOf(frames, other)
             d == Begun(f)
             e == Begun(g)
  <2>1. KindRight(other, done, d, << >>, pos)
    BY <1>4, KindNow
  <2>2. d.kind # other /\ e.kind # other
    BY <1>12, <1>17
  <2>3. \A k \in pos .. to - 1 : Unsaid(other, k)
    BY <1>15 DEF Unsaid
  <2> HIDE DEF done, d, e
  <2>4. KindRight(other, done, e, << >>, to)
    BY <1>1, <1>3, <2>1, <2>2, <2>3, OthersKeep
  <2>5. QED
    BY <2>4 DEF done, e
<1>18. \A k \in Kinds : KindRight(k, DoneOf(t, k), BegunOf(t), BoundOf(t), to)
  BY <1>11, <1>16, <1>17
<1>19. Enclosed(t[Len(t)], to)
  <2>1. At(pos) # "eof" => Nested(pos, 1)
    BY <1>2, PriorFacts DEF Enclosed, Parens
  <2>2. At(to) # "eof" => Nested(to, 1)
    BY <1>1, <1>3, <2>1, SoftNested
  <2>3. QED
    BY <1>6, <1>9, <2>2 DEF Enclosed, Parens
<1>20. QED
  BY <1>2, <1>10, <1>18, <1>19, HeadMove DEF t

-----------------------------------------------------------------------------
LEMMA EndParamsHeads == Prior /\ EndParams => HeadInv'
<1> SUFFICES ASSUME Prior, EndParams PROVE HeadInv'
  OBVIOUS
<1> DEFINE f == [at |-> "signature", name |-> Top.name, params |-> Top.params, returns |-> << >>]
<1>1. Top.at = "params" /\ Next1 = ")" /\ GoOn(pos + 1, Append(Under, f))
  BY DEF EndParams, Push
<1>2. f.at = "signature" /\ f.name = Top.name /\ f.params = Top.params
      /\ "name" \in DOMAIN f /\ "params" \in DOMAIN f
  OBVIOUS
<1> HIDE DEF f
<1>3. pos' = pos + 1 /\ source' = source /\ frames' = Append(Under, f) /\ pos \in Nat
  BY <1>1, GoOnIs, PriorFacts
<1>4. Shaped(f) /\ Begun(f) = Begun(Top)
  <2>1. /\ Begun(f) = [kind |-> "fn", part |-> "head", name |-> f.name, params |-> f.params]
        /\ Begun(Top) = [kind |-> "fn", part |-> "head", name |-> Top.name, params |-> Top.params]
    BY <1>1, <1>2, BegunValues
  <2>2. QED
    BY <1>2, <2>1 DEF Shaped, Layers
<1>5. Alike(frames, frames') /\ frames'[Len(frames')] = f
  BY <1>1, <1>3, <1>4, AlikeTurns DEF HeadFrames
<1>6. \A kind \in Kinds : \A k \in pos .. pos' - 1 : Missed(kind, BegunOf(frames), k)
  <2>1. \A k \in pos .. pos' - 1 : k = pos
    BY <1>3
  <2>2. At(pos) \in Names \cup Layers \cup {".", ",", "->", "(", ")"}
    BY <1>1 DEF Next1
  <2>3. QED
    BY <2>1, <2>2, MildMissed, Zenon
<1>7. Enclosed(f, pos')
  <2>1. Nested(pos, 1)
    BY <1>1, NestedHere DEF Parens
  <2>2. Nested(pos + 1, 1 - 1)
    BY <1>1, <2>1, NestedStep DEF Next1
  <2>3. QED
    BY <1>2, <1>3, <2>2 DEF Enclosed, Parens
<1>8. QED
  BY <1>3, <1>5, <1>6, <1>7, HeadStep

LEMMA BarMissed ==
  ASSUME NEW k, NEW kind \in Kinds, NEW d
  PROVE  At(k) = "|" => Missed(kind, d, k)
BY Zenon DEF Missed, Kinds, MizanHeads

LEMMA ReturnArmHeads == Prior /\ ReturnArm => HeadInv'
<1> SUFFICES ASSUME Prior, ReturnArm PROVE HeadInv'
  OBVIOUS
<1> DEFINE to == TypeEnd(pos + 1)
           x == Append(Top.returns, TypePath(pos + 1))
<1>0. pos \in Nat /\ pos + 1 \in Nat /\ Stack(frames) /\ Top = frames[Len(frames)]
      /\ Len(frames) \in DOMAIN frames /\ frames[1].at = "module"
      /\ \A i \in DOMAIN frames : "at" \in DOMAIN frames[i]
  BY PriorFacts
<1>1. Top.at = "signature" /\ IsType(pos + 1) /\ GoOn(to, WithItem(frames, "returns", TypePath(pos + 1)))
  BY Zenon DEF ReturnArm
<1>2. pos' = to /\ source' = source /\ frames' = [frames EXCEPT ![Len(frames)].returns = x]
  BY <1>0, <1>1, GoOnIs DEF WithItem
<1>3. /\ to \in Nat /\ pos + 1 < to
      /\ \A k \in pos + 1 .. to - 1 : At(k) \in Names \cup Layers \cup {"."}
  BY <1>0, <1>1, TypeTokens
<1>4. Soft(pos, to)
  <2>1. At(pos) = "->" \/ At(pos) = "|"
    BY Zenon DEF ReturnArm, ArmMark, Next1
  <2>2. "->" \notin Loud
    BY SoftTokens DEF Gentle
  <2>3. At(pos) \notin Loud
    BY <2>1, <2>2, SoftBraces, Zenon
  <2>4. Soft(pos, pos + 1) /\ Soft(pos + 1, to)
    BY <1>0, <1>1, <2>3, SoftRuns, SoftType
  <2>5. QED
    BY <1>0, <1>3, <2>4, SoftJoin
<1>5. \A kind \in Kinds : \A k \in pos .. to - 1 : Missed(kind, BegunOf(frames), k)
  <2>1. \A k \in pos .. to - 1 : k = pos \/ k \in pos + 1 .. to - 1
    BY <1>0, <1>3
  <2>2. ASSUME NEW kind \in Kinds PROVE Missed(kind, BegunOf(frames), pos)
    <3>1. At(pos) = "->" \/ At(pos) = "|"
      BY Zenon DEF ReturnArm, ArmMark, Next1
    <3>2. "->" \in Names \cup Layers \cup {".", ",", "->", "(", ")"}
      OBVIOUS
    <3>3. CASE At(pos) = "->"
      BY <3>2, <3>3, MildMissed, Zenon
    <3>4. CASE At(pos) = "|"
      BY <3>4, BarMissed, Zenon
    <3>5. QED
      BY <3>1, <3>3, <3>4, Zenon
  <2>3. ASSUME NEW kind \in Kinds, NEW k \in pos + 1 .. to - 1 PROVE Missed(kind, BegunOf(frames), k)
    <3>1. At(k) \in Names \cup Layers \cup {".", ",", "->", "(", ")"}
      BY <1>3
    <3>2. QED
      BY <3>1, MildMissed, Zenon
  <2>4. QED
    BY <2>1, <2>2, <2>3, Zenon
<1> HIDE DEF to, x
<1>6. /\ Alike(frames, [frames EXCEPT ![Len(frames)].returns = x])
      /\ LET t == [frames EXCEPT ![Len(frames)].returns = x] IN t[Len(t)].at = Top.at
  <2>1. "returns" \notin Telling /\ "returns" # "at" /\ "returns" # "fields"
    BY DEF Telling
  <2>2. QED
    BY <1>0, <2>1, AlikeUpdate, LastUpdated
<1>7. Enclosed(frames'[Len(frames')], pos')
  <2>1. At(pos) # "eof" => Nested(pos, 0)
    BY <1>1, PriorFacts DEF Enclosed, Parens
  <2>2. pos <= to
    BY <1>0, <1>3
  <2>3. At(to) # "eof" => Nested(to, 0)
    BY <1>0, <1>3, <1>4, <2>1, <2>2, SoftNested
  <2>4. frames'[Len(frames')].at = "signature"
    BY <1>1, <1>2, <1>6
  <2>5. QED
    BY <1>2, <2>3, <2>4 DEF Enclosed, Parens
<1>8. pos' \in Nat /\ pos <= pos'
  BY <1>0, <1>2, <1>3
<1>9. \A kind \in Kinds : \A k \in pos .. pos' - 1 : Missed(kind, BegunOf(frames), k)
  BY <1>2, <1>5
<1>10. Alike(frames, frames') /\ source' = source
  BY <1>2, <1>6
<1>11. QED
  BY <1>7, <1>8, <1>9, <1>10, HeadStep

LEMMA OpenBodyHeads == Prior /\ OpenBody => HeadInv'
<1> SUFFICES ASSUME Prior, OpenBody PROVE HeadInv'
  OBVIOUS
<1> DEFINE f == [at |-> "fn", name |-> Top.name, params |-> Top.params, returns |-> Top.returns,
                 stmts |-> << >>]
<1>1. Top.at = "signature" /\ Opening(pos) /\ frames' = Append(Under, f) /\ source' = source /\ pos' = pos + 1
  BY Zenon DEF OpenBody, Opening, Next1, Push, Advance
<1>2. f.at = "fn" /\ f.name = Top.name /\ f.params = Top.params /\ "name" \in DOMAIN f
       /\ "params" \in DOMAIN f
  OBVIOUS
<1> HIDE DEF f
<1>3. Shaped(f) /\ Open0(f)
  BY <1>2 DEF Shaped, Open0, Layers
<1>4. /\ Begun(f) = [kind |-> "fn", part |-> "body", name |-> Top.name, params |-> Top.params]
      /\ Begun(Top) = [kind |-> "fn", part |-> "head", name |-> Top.name, params |-> Top.params]
  BY <1>1, <1>2, BegunValues
<1>5. Top.at \in HeadFrames /\ BegunOf(frames) = Begun(Top) /\ BoundOf(frames) = << >>
  BY <1>1, DeclTop DEF HeadFrames
<1>6. /\ Shape(frames') /\ frames'[Len(frames')] = f
      /\ BegunOf(frames') = Begun(f) /\ BoundOf(frames') = << >>
      /\ \A kind \in Kinds : DoneOf(frames', kind) = DoneOf(frames, kind)
  BY <1>1, <1>3, <1>5, DeclTurns
<1>7. pos \in Nat /\ pos + 1 \in Nat /\ pos <= pos + 1 /\ IInv
  BY PriorFacts
<1>8. Soft(pos, pos + 1)
  <2>1. At(pos) \notin Loud
    BY <1>1, SoftBraces, Zenon DEF Opening
  <2>2. QED
    BY <1>7, <2>1, SoftRuns
<1>9. ASSUME NEW kind \in Kinds
      PROVE  KindRight(kind, DoneOf(frames, kind), Begun(f), << >>, pos + 1)
  <2> DEFINE done == DoneOf(frames, kind)
             d == Begun(Top)
             e == Begun(f)
  <2>1. KindRight(kind, done, d, << >>, pos)
    BY <1>5, KindNow
  <2>2. /\ d.kind = "fn" /\ d.part = "head" /\ e.kind = "fn" /\ e.part = "body" /\ e.name = d.name
        /\ e.params = d.params /\ e.part # "head"
    BY <1>4
  <2>3. \A k \in pos .. (pos + 1) - 1 : Unsaid(kind, k)
    BY <1>8, SoftUnsaid
  <2> HIDE DEF done, d, e
  <2>4. CASE kind = "fn"
    <3>1. KindRight("fn", done, d, << >>, pos)
      BY <2>1, <2>4
    <3>2. KindRight("fn", done, e, << >>, pos)
      BY <1>1, <1>7, <2>2, <3>1, BodyOpens
    <3>3. KindRight(kind, done, e, << >>, pos)
      BY <2>4, <3>2
    <3>4. KindRight(kind, done, e, << >>, pos + 1)
      BY <1>7, <2>2, <2>3, <3>3, UnsaidKeeps
    <3>5. QED
      BY <3>4 DEF done, e
  <2>5. CASE kind # "fn"
    <3>1. d.kind # kind /\ e.kind # kind
      BY <2>2, <2>5
    <3>2. KindRight(kind, done, e, << >>, pos + 1)
      BY <1>7, <2>1, <2>3, <3>1, OthersKeep
    <3>3. QED
      BY <3>2 DEF done, e
  <2>6. QED
    BY <2>4, <2>5
<1>10. \A k \in Kinds : KindRight(k, DoneOf(frames', k), BegunOf(frames'), BoundOf(frames'), pos')
  BY <1>1, <1>6, <1>9
<1>11. Enclosed(frames'[Len(frames')], pos')
  <2>1. At(pos) # "eof" => Nested(pos, 0)
    <3>1. Top.at = "signature"
      BY <1>1
    <3>2. QED
      BY <3>1, PriorFacts DEF Enclosed, Parens
  <2>2. At(pos + 1) # "eof" => Nested(pos + 1, 0)
    BY <1>7, <1>8, <2>1, SoftNested
  <2>3. pos' = pos + 1
    BY <1>1
  <2>4. QED
    BY <1>3, <1>6, <2>2, <2>3, Outer DEF Enclosed
<1>12. source' = source
  BY <1>1
<1>13. QED
  BY <1>6, <1>10, <1>11, <1>12, HeadMove

LEMMA EndBodyHeads == Prior /\ EndBody => HeadInv'
<1> SUFFICES ASSUME Prior, EndBody PROVE HeadInv'
  OBVIOUS
<1> DEFINE x == [name |-> Top.name, params |-> Top.params, returns |-> Top.returns,
                 statements |-> Top.stmts, calls |-> calls, accesses |-> accesses]
<1>0. pos \in Nat
  BY PriorFacts
<1>1. Top.at = "fn" /\ Next1 \notin Loud /\ GoOn(pos + 1, WithItem(Under, "functions", x))
  BY SoftBraces, Zenon DEF EndBody, EndOf
<1>2. x.name = Top.name /\ x.params = Top.params
  OBVIOUS
<1> HIDE DEF x
<1>3. /\ Begun(Top) = [kind |-> "fn", part |-> "body", name |-> Top.name, params |-> Top.params]
      /\ Parens(Top) = 0 /\ Top.at \in HeadFrames
  BY <1>1, BegunValues DEF Parens, HeadFrames
<1>4. pos + 1 \in Nat /\ pos <= pos + 1 /\ Soft(pos, pos + 1)
  BY <1>0, <1>1, SoftRuns DEF Next1
<1>5. FieldFor("fn") = "functions" /\ "fn" \in Kinds /\ Begun(Top).kind = "fn"
      /\ ~("fn" = "fn" /\ Begun(Top).part = "head")
  BY <1>3 DEF FieldFor, Kinds
<1>6. ASSUME NEW h, BegunRight("fn", h, Begun(Top), << >>, pos + 1)
      PROVE  DoneRight("fn", h, x, pos + 1)
  <2> DEFINE d == Begun(Top)
  <2>1. d.name = x.name /\ d.params = x.params /\ d.part = "body"
    BY <1>2, <1>3
  <2>2. BegunRight("fn", h, d, << >>, pos + 1)
    BY <1>6
  <2> HIDE DEF d
  <2>3. d.name = At(h + 1) /\ ParamsRight(d.params, ParamsOf(h))
    BY <2>1, <2>2, Zenon DEF BegunRight
  <2>4. QED
    BY <2>1, <2>3 DEF DoneRight
<1>7. GoOn(pos + 1, WithItem(Under, FieldFor("fn"), x))
  BY <1>1, <1>5
<1>8. QED
  BY <1>3, <1>4, <1>5, <1>6, <1>7, DeclDone

LEMMA FunctionHeads == Prior /\ Function => HeadInv'
<1>1. Prior /\ (NoParam \/ NoSignature) => HeadInv'
  <2>1. NoParam \/ NoSignature => UNCHANGED <<source, pos, frames>>
    BY Zenon DEF NoParam, NoSignature, Reject
  <2>2. QED
    BY <2>1, StillHeads
<1>2. QED
  BY <1>1, OpenFunctionHeads, ParamHeads, EndParamsHeads, ReturnArmHeads, OpenBodyHeads, EndBodyHeads
     DEF Function

-----------------------------------------------------------------------------
LEMMA InitHeads == Init => HeadInv
<1> SUFFICES ASSUME Init PROVE HeadInv
  OBVIOUS
<1>1. /\ frames = <<EmptyModule>> /\ EmptyModule.at = "module" /\ pos = 1
      /\ EmptyModule.functions = << >> /\ EmptyModule.compound_types = << >>
      /\ EmptyModule.mizan_decls = << >>
      /\ {"functions", "compound_types", "mizan_decls"} \subseteq DOMAIN EmptyModule
  BY DEF Init, EmptyModule
<1>2. Len(frames) = 1 /\ DOMAIN frames = {1} /\ frames[1] = EmptyModule
  BY <1>1
<1>3. IInv
  BY InitInv
<1>4. Shape(frames)
  BY <1>1, <1>2 DEF Shape, Shaped, Layers
<1>5. Enclosed(frames[Len(frames)], pos)
  <2>1. \A t : HowMany(t, 1, 0) = 0
    <3>1. \A t : {k \in 1 .. 0 : At(k) = t} = {}
      OBVIOUS
    <3>2. QED
      BY <3>1, FS_EmptySet DEF HowMany
  <2>2. Nested(1, 0)
    BY <2>1 DEF Nested
  <2>3. QED
    BY <1>1, <1>2, <2>2 DEF Enclosed, Parens
<1>6. BegunOf(frames) = None /\ BoundOf(frames) = << >>
  <2>1. Begun(frames[1]) = None
    BY <1>1, <1>2, AsideIs
  <2>2. ~(Len(frames) > 1) /\ ~(Len(frames) > 2)
    BY <1>2
  <2>3. QED
    BY <2>1, <2>2 DEF BegunOf, BoundOf
<1>7. ASSUME NEW kind \in Kinds PROVE KindRight(kind, << >>, None, << >>, 1)
  <2>1. Upto(HeadsOf(kind), 1) = {}
    BY <1>3, SourceIs DEF Upto, HeadsOf
  <2>2. HeadsUpto(kind, 1) = << >>
    BY <2>1, InOrderNone DEF HeadsUpto
  <2>3. None.kind # kind
    BY NoneIs
  <2>4. DOMAIN << >> = {} /\ Len(<< >>) = 0
    OBVIOUS
  <2>5. QED
    BY <2>2, <2>3, <2>4, EmptyIsSeq DEF KindRight, Begins
<1>8. \A kind \in Kinds : DoneOf(frames, kind) = << >>
  BY <1>1, <1>2 DEF DoneOf, Kinds
<1>9. QED
  BY <1>1, <1>4, <1>5, <1>6, <1>7, <1>8 DEF HeadInv, HeadsRight

LEMMA NextHeads == IInv /\ HeadInv /\ [Next]_vars => HeadInv'
<1> SUFFICES ASSUME Prior, [Next]_vars PROVE HeadInv'
  BY DEF Prior
<1>1. CASE NoItem \/ EndModule \/ Overflow \/ UNCHANGED vars
  <2>1. UNCHANGED <<source, pos, frames>>
    BY <1>1, Zenon DEF NoItem, EndModule, Overflow, Reject, vars
  <2>2. QED
    BY <2>1, StillHeads
<1>2. QED
  BY <1>1, StatementHeads, CallHeads, PrimaryHeads, IncompleteHeads,
     ExpressionHeads, BlockEndHeads, BismillahHeads, CompoundTypeHeads,
     AdditiveOnlyHeads, BlockHeads, TanzilHeads, FunctionHeads DEF Next

-----------------------------------------------------------------------------
(* A module is accepted at the end of the tokens, and nowhere else.        *)
AtEnd == outcome = "accepted" => Next1 = "eof"

GoesOnOrFails == outcome' # "accepted"

LEMMA StatementFails == Statement => GoesOnOrFails
BY Zenon DEF Statement, NoStatement, StartReturn, StartIf, StartCall, AtStatement, Running,
     Reject, GoesOnOrFails

LEMMA CallFails == Call => GoesOnOrFails
BY Zenon DEF Call, PathStep, NoPath, ArgOpen, ArgClose, ArgAccess, ArgSkip, ArgStray, EndCall,
   Running, Reject, GoesOnOrFails

LEMMA PrimaryFails == Primary => GoesOnOrFails
BY Zenon DEF Primary, ParseNot, ParseLiteral, StartNumber, InNumber, NoNumber, ParseName, EndOpaque,
   NoExpression, Running, Reject, GoesOnOrFails

LEMMA IncompleteFails == Incomplete => GoesOnOrFails
BY Zenon DEF Incomplete, OpenIncomplete, ReasonField, StartParts, InParts, NoPart, OtherField, NoField,
   EndIncomplete, Running, Reject, GoesOnOrFails

LEMMA ExpressionFails == Expression => GoesOnOrFails
BY Zenon DEF Expression, StartRight, EndExpression, Chained, EndNot, EndField, EndReturn, OpenThen, NoThen,
   Running, Reject, GoesOnOrFails

LEMMA BlockEndFails == BlockEnd => GoesOnOrFails
BY Zenon DEF BlockEnd, EndThen, OpenElse, NoElse, EndElse, NoEnd, Running, Reject, GoesOnOrFails

LEMMA GoOnFails ==
  ASSUME Running
  PROVE  /\ \A to, stack : GoOn(to, stack) => GoesOnOrFails
         /\ \A count, frame : Open(count, frame) => GoesOnOrFails
         /\ Reject => GoesOnOrFails
BY Zenon DEF Running, GoOn, Open, Reject, GoesOnOrFails

LEMMA BismillahFails == Bismillah => GoesOnOrFails
BY GoOnFails, Zenon DEF Bismillah, OpenBismillah, StartList, MoreOfName, MoreItems, NoMore, EndList,
   EndBismillah, MissingField, Item, EndOf

LEMMA CompoundTypeFails == CompoundType => GoesOnOrFails
BY GoOnFails, Zenon DEF CompoundType, OpenType, FieldDecl, OpenBatin, EndType, NoLayer, Item, EndOf

LEMMA AdditiveOnlyFails == AdditiveOnly => GoesOnOrFails
BY GoOnFails, Zenon DEF AdditiveOnly, OpenAdditive, InVersion, OpenExports, NoVersion, ExportDecl,
   OpenBump, EndBump, EndAdditive, Item, EndOf

LEMMA MizanFails == Mizan => GoesOnOrFails
BY GoOnFails, Zenon DEF Mizan, OpenMizan, StartBound, EndBound, EndMizan, Item, EndOf, Running, GoesOnOrFails

LEMMA TanzilFails == Tanzil => GoesOnOrFails
BY GoOnFails, Zenon DEF Tanzil, OpenTanzil, DependencyEntry, EndTanzil, Item, EndOf

LEMMA FunctionFails == Function => GoesOnOrFails
BY GoOnFails, Zenon DEF Function, OpenFunction, Param, EndParams, NoParam, ReturnArm, OpenBody,
   NoSignature, EndBody, Item, EndOf, Running, GoesOnOrFails

LEMMA OthersFail == NoItem \/ Overflow => GoesOnOrFails
BY Zenon DEF NoItem, Overflow, Reject, GoesOnOrFails

LEMMA NextAtEnd == AtEnd /\ [Next]_vars => AtEnd'
<1> SUFFICES ASSUME AtEnd, [Next]_vars PROVE AtEnd'
  OBVIOUS
<1>1. CASE GoesOnOrFails
  BY <1>1 DEF GoesOnOrFails, AtEnd
<1>2. CASE EndModule
  <2>1. source' = source /\ pos' = pos /\ Next1 = "eof"
    BY <1>2 DEF EndModule
  <2>2. QED
    BY <2>1 DEF AtEnd, Next1, At
<1>3. CASE UNCHANGED vars
  <2>1. source' = source /\ pos' = pos /\ outcome' = outcome
    BY <1>3 DEF vars
  <2>2. QED
    BY <2>1 DEF AtEnd, Next1, At
<1>4. QED
  BY <1>1, <1>2, <1>3, StatementFails, CallFails, PrimaryFails, IncompleteFails,
     ExpressionFails, BlockEndFails, BismillahFails, CompoundTypeFails, AdditiveOnlyFails,
     MizanFails, TanzilFails, FunctionFails, OthersFail DEF Next

-----------------------------------------------------------------------------
(* What has been read of an accepted module.                               *)
LEMMA AllRead ==
  ASSUME Prior, AtEnd, outcome = "accepted"
  PROVE  /\ Top.at = "module" /\ pos = Len(source)
         /\ \A S \in SUBSET (DOMAIN source) : (\A i \in S : At(i) # "eof") => Upto(S, pos) = S
<1>1. Top.at = "module" /\ At(pos) = "eof" /\ pos \in DOMAIN source /\ IInv
  BY DEF Prior, IInv, AtEnd, Next1
<1>2. /\ DOMAIN source = 1 .. Len(source) /\ Len(source) \in Nat
      /\ source[pos] = "eof"
  BY <1>1, SourceIs DEF At
<1>3. pos = Len(source)
  BY <1>1, <1>2, SourcesAssumption DEF IInv
<1>4. ASSUME NEW S \in SUBSET (DOMAIN source), \A i \in S : At(i) # "eof"
      PROVE  Upto(S, pos) = S
  <2>1. \A i \in S : i # pos /\ i \in 1 .. pos
    BY <1>1, <1>2, <1>3, <1>4
  <2>2. \A i \in S : i < pos
    BY <1>2, <1>3, <2>1
  <2>3. QED
    BY <2>2 DEF Upto
<1>5. QED
  BY <1>1, <1>3, <1>4

LEMMA AcceptedDone ==
  ASSUME Prior, AtEnd, outcome = "accepted", NEW kind \in Kinds
  PROVE  LET done == DoneOf(frames, kind)
             heads == InOrder(HeadsOf(kind))
         IN  /\ DOMAIN done = DOMAIN heads
             /\ \A k \in DOMAIN done : /\ heads[k] \in HeadsOf(kind)
                                       /\ DoneRight(kind, heads[k], done[k], pos)
             /\ \A h \in HeadsOf(kind) : \E k \in DOMAIN heads : heads[k] = h
<1> DEFINE done == DoneOf(frames, kind)
           heads == InOrder(HeadsOf(kind))
<1>1. IInv /\ BegunOf(frames) = None /\ BoundOf(frames) = << >>
  BY AllRead, ModuleTop, PriorFacts
<1>2. Upto(HeadsOf(kind), pos) = HeadsOf(kind)
  <2>1. HeadsOf(kind) \in SUBSET (DOMAIN source) /\ \A i \in HeadsOf(kind) : At(i) = kind
    BY DEF HeadsOf
  <2>2. kind # "eof"
    BY DEF Kinds
  <2>3. QED
    BY <2>1, <2>2, AllRead
<1>3. HeadsUpto(kind, pos) = heads
  BY <1>2 DEF HeadsUpto
<1>4. KindRight(kind, done, None, << >>, pos)
  BY <1>1, KindNow
<1>5. None.kind # kind
  BY NoneIs
<1> HIDE DEF done
<1>6. /\ Len(heads) = Len(done) + 0 /\ Len(done) \in Nat /\ DOMAIN done = 1 .. Len(done)
      /\ \A k \in DOMAIN done : k \in DOMAIN heads /\ DoneRight(kind, heads[k], done[k], pos)
  BY <1>1, <1>3, <1>4, <1>5, KindFacts DEF Begins
<1>7. /\ DOMAIN heads = 1 .. Len(heads)
      /\ \A k \in DOMAIN heads : heads[k] \in HeadsOf(kind)
      /\ \A i \in HeadsOf(kind) : \E k \in DOMAIN heads : heads[k] = i
  BY <1>1, <1>2, <1>3, HeadPlaces
<1> HIDE DEF heads
<1>8. DOMAIN done = DOMAIN heads
  BY <1>6, <1>7
<1>9. QED
  BY <1>6, <1>7, <1>8 DEF done, heads

(* A field of a mizan block for each of the heads in it.                   *)
LEMMA FieldsAccepted ==
  ASSUME Prior, AtEnd, outcome = "accepted", NEW head, NEW fields, FieldsRight(fields, << >>, head, pos)
  PROVE  IsFields(fields) /\ FieldNames(fields) = Chosen(source, FieldsOf(head))
<1> DEFINE S == FieldsOf(head)
<1>1. S \in SUBSET (DOMAIN source) /\ \A i \in S : At(i) \in MizanHeads
  BY DEF FieldsOf
<1>2. "eof" \notin MizanHeads
  BY DEF MizanHeads
<1>3. Upto(S, pos) = S
  BY <1>1, <1>2, AllRead
<1>4. IsSeq(fields) /\ FieldNames(fields) \o << >> = Chosen(source, S)
  BY <1>3 DEF FieldsRight
<1>5. IsSeq(FieldNames(fields)) /\ DOMAIN FieldNames(fields) = DOMAIN fields
      /\ \A i \in DOMAIN fields : FieldNames(fields)[i] = fields[i].name
  BY <1>4, NamesGrow DEF FieldNames
<1>6. FieldNames(fields) = Chosen(source, S)
  <2> DEFINE names == FieldNames(fields)
  <2>1. IsSeq(names)
    BY <1>5
  <2> HIDE DEF names
  <2>2. names \o << >> = names
    BY <2>1, ConcatSeq
  <2>3. QED
    BY <1>4, <2>2 DEF names
<1>7. Places(S)
  <2>1. Places(Upto(S, pos))
    BY <1>1, PriorFacts, UptoPlaces
  <2>2. QED
    BY <1>3, <2>1
<1> HIDE DEF S
<1>8. \A k \in DOMAIN Chosen(source, S) : Chosen(source, S)[k] \in MizanHeads
  <2> SUFFICES ASSUME NEW k \in DOMAIN Chosen(source, S) PROVE Chosen(source, S)[k] \in MizanHeads
    OBVIOUS
  <2>1. Chosen(source, S)[k] = source[InOrder(S)[k]] /\ InOrder(S)[k] \in S
    BY <1>7, ChosenIs
  <2>2. At(InOrder(S)[k]) = source[InOrder(S)[k]] /\ At(InOrder(S)[k]) \in MizanHeads
    BY <1>1, <2>1 DEF At
  <2>3. QED
    BY <2>1, <2>2
<1>9. IsFields(fields)
  BY SameWords, <1>4, <1>5, <1>6, <1>8 DEF IsFields
<1>10. QED
  BY <1>6, <1>9 DEF S

LEMMA MizanAccepted ==
  ASSUME Prior, AtEnd
  PROVE  MizanJudged
<1> SUFFICES ASSUME outcome = "accepted", NEW k \in DOMAIN Module.mizan_decls
             PROVE  WellJudged(Chosen(source, FieldsOf(InOrder(HeadsOf("mizan"))[k])),
                           MizanMarads(Module.mizan_decls[k]))
  BY DEF MizanJudged
<1> DEFINE decl == Module.mizan_decls[k]
           head == InOrder(HeadsOf("mizan"))[k]
<1>1. DoneOf(frames, "mizan") = Module.mizan_decls /\ "mizan" \in Kinds
  BY DEF DoneOf, Module, Kinds
<1>2. DoneRight("mizan", head, decl, pos)
  BY <1>1, AcceptedDone
<1> HIDE DEF decl, head
<1>3. FieldsRight(decl.fields, << >>, head, pos)
  BY <1>2 DEF DoneRight
<1>4. IsFields(decl.fields) /\ FieldNames(decl.fields) = Chosen(source, FieldsOf(head))
  BY <1>3, FieldsAccepted
<1>5. WellJudged(FieldNames(decl.fields), MizanMarads(decl))
  BY <1>4, Verdict
<1>6. WellJudged(Chosen(source, FieldsOf(head)), MizanMarads(decl))
  BY <1>4, <1>5
<1>7. QED
  BY <1>6 DEF decl, head

(* In every module that the parser accepts, the checker of mizan blocks    *)
(* passes exactly those with their three fields in order, reports each     *)
(* absent field once and each repetition once, and faults the order only   *)
(* when none is absent.                                                    *)
THEOREM MizanJudgedHolds == Spec => []MizanJudged
<1>1. Init => IInv /\ HeadInv /\ AtEnd
  BY InitInv, InitHeads DEF Init, AtEnd
<1>2. IInv /\ HeadInv /\ AtEnd /\ [Next]_vars => (IInv /\ HeadInv /\ AtEnd)'
  BY NextInv, NextHeads, NextAtEnd
<1>3. IInv /\ HeadInv /\ AtEnd => MizanJudged
  BY MizanAccepted DEF Prior
<1>4. QED
  BY <1>1, <1>2, <1>3, PTL DEF Spec

-----------------------------------------------------------------------------
LEMMA TypesNamed ==
  ASSUME Prior, AtEnd, outcome = "accepted"
  PROVE  CompoundTypeNames(Module) = {At(h + 1) : h \in HeadsOf("type")}
<1> DEFINE done == Module.compound_types
           heads == InOrder(HeadsOf("type"))
<1>1. DoneOf(frames, "type") = done /\ "type" \in Kinds
  BY DEF DoneOf, Module, Kinds
<1>2. /\ DOMAIN done = DOMAIN heads
      /\ \A k \in DOMAIN done : /\ heads[k] \in HeadsOf("type")
                                /\ DoneRight("type", heads[k], done[k], pos)
      /\ \A h \in HeadsOf("type") : \E k \in DOMAIN heads : heads[k] = h
  BY <1>1, AcceptedDone
<1>3. CompoundTypeNames(Module) = {done[k].name : k \in DOMAIN done}
  BY DEF CompoundTypeNames
<1> HIDE DEF done, heads
<1>4. \A k \in DOMAIN done : done[k].name = At(heads[k] + 1)
  BY <1>2 DEF DoneRight
<1>5. QED
  BY <1>2, <1>3, <1>4

LEMMA ParamsListed ==
  ASSUME NEW module, NEW fn, NEW S, S \subseteq Nat, ParamsRight(fn.params, S)
  PROVE  LET P == Qualified(module, fn)
             R == {i \in S : At(i + 2) \in CompoundTypeNames(module)}
         IN  /\ NamesOf(P) = {At(i) : i \in R}
             /\ \A n : DeclaredIn(P, n) = {IF At(i + 3) = "." THEN At(i + 4) ELSE "none" :
                                             i \in {i \in R : At(i) = n}}
<1> DEFINE T == CompoundTypeNames(module)
           P == Qualified(module, fn)
           R == {i \in S : At(i + 2) \in T}
           layer(i) == IF At(i + 3) = "." THEN At(i + 4) ELSE "none"
<1>1. Held(fn.params) = {ParamAtPlace(i) : i \in S}
  BY DEF ParamsRight
<1>2. P = {p \in Held(fn.params) : p.type_path.base \in T}
  BY DEF Qualified, Held
<1> HIDE DEF T
<1>3. \A i \in S : /\ ParamAtPlace(i).name = At(i) /\ ParamAtPlace(i).type_path.base = At(i + 2)
                   /\ ParamAtPlace(i).type_path.layer = layer(i)
  <2> SUFFICES ASSUME NEW i \in S
               PROVE  /\ ParamAtPlace(i).name = At(i) /\ ParamAtPlace(i).type_path.base = At(i + 2)
                      /\ ParamAtPlace(i).type_path.layer = layer(i)
    OBVIOUS
  <2>1. (i + 2) + 1 = i + 3 /\ (i + 2) + 2 = i + 4
    OBVIOUS
  <2>2. /\ ParamAtPlace(i).name = At(i) /\ ParamAtPlace(i).type_path.base = At(i + 2)
        /\ ParamAtPlace(i).type_path.layer = IF At((i + 2) + 1) = "." THEN At((i + 2) + 2) ELSE "none"
    BY DEF ParamAtPlace, TypePath
  <2>3. QED
    BY <2>1, <2>2
<1>4. P = {ParamAtPlace(i) : i \in R}
  <2>1. \A i \in S : ParamAtPlace(i).type_path.base = At(i + 2)
    BY <1>3
  <2>2. \A i \in S : ParamAtPlace(i) \in Held(fn.params)
    BY <1>1
  <2>3. \A p \in Held(fn.params) : \E i \in S : p = ParamAtPlace(i)
    BY <1>1
  <2> HIDE DEF P, layer
  <2>4. \A i \in R : ParamAtPlace(i) \in P
    BY <1>2, <2>1, <2>2
  <2>5. \A p \in P : \E i \in R : p = ParamAtPlace(i)
    BY <1>2, <2>1, <2>3
  <2> HIDE DEF R
  <2>6. QED
    BY <2>4, <2>5
<1>5. R \subseteq S
  OBVIOUS
<1> HIDE DEF P, R, layer
<1>6. NamesOf(P) = {At(i) : i \in R}
  BY <1>3, <1>4, <1>5 DEF NamesOf
<1>7. ASSUME NEW n PROVE DeclaredIn(P, n) = {layer(i) : i \in {i \in R : At(i) = n}}
  <2>1. ASSUME NEW y \in DeclaredIn(P, n) PROVE y \in {layer(i) : i \in {i \in R : At(i) = n}}
    <3>1. PICK p \in P : p.name = n /\ y = p.type_path.layer
      BY DEF DeclaredIn
    <3>2. PICK i \in R : p = ParamAtPlace(i)
      BY <1>4
    <3>3. QED
      BY <1>3, <1>5, <3>1, <3>2
  <2>2. ASSUME NEW i \in R, At(i) = n PROVE layer(i) \in DeclaredIn(P, n)
    <3>1. ParamAtPlace(i) \in P /\ ParamAtPlace(i).name = n /\ ParamAtPlace(i).type_path.layer = layer(i)
      BY <1>3, <1>4, <1>5, <2>2
    <3>2. QED
      BY <3>1 DEF DeclaredIn
  <2>3. QED
    BY <2>1, <2>2
<1>8. QED
  BY <1>6, <1>7 DEF P, R, T, layer

LEMMA TripleMatches ==
  ASSUME NEW i \in Nat, NEW A, NEW B, NEW C, Matches(i, <<A, B, C>>)
  PROVE  At(i + 2) \in C
<1>1. DOMAIN <<A, B, C>> = {1, 2, 3} /\ <<A, B, C>>[3] = C
  OBVIOUS
<1>2. (i + 3) - 1 = i + 2
  OBVIOUS
<1>3. At((i + 3) - 1) \in C
  BY <1>1 DEF Matches
<1>4. QED
  BY <1>2, <1>3

LEMMA ReadsListed ==
  ASSUME IInv, NEW fn, Recorded(fn)
  PROVE  /\ \A n : ReadIn(Held(fn.accesses), n) = {At(i + 2) : i \in {i \in Reads(fn.calls) : At(i) = n}}
         /\ \A i \in DOMAIN fn.accesses : fn.accesses[i].layer \in Layers
<1> DEFINE R == Reads(fn.calls)
           A == Held(fn.accesses)
<1>1. A = {AccessAt(i) : i \in R}
  BY DEF Recorded, Held
<1>2. \A i \in R : At(i + 2) \in Layers
  <2> SUFFICES ASSUME NEW i \in R PROVE At(i + 2) \in Layers
    OBVIOUS
  <2>1. IsRead(i) /\ i \in DOMAIN source
    BY DEF Reads, ReadsOf
  <2>2. i \in Nat
    BY <2>1, SourceIs
  <2>3. Matches(i, <<Names, {"."}, Layers>>)
    BY <2>1 DEF IsRead
  <2>4. QED
    BY <2>2, <2>3, TripleMatches, Zenon
<1>3. \A i : AccessAt(i).param_name = At(i) /\ AccessAt(i).layer = At(i + 2)
  BY DEF AccessAt
<1> HIDE DEF R
<1>4. \A i \in DOMAIN fn.accesses : fn.accesses[i].layer \in Layers
  <2> SUFFICES ASSUME NEW i \in DOMAIN fn.accesses PROVE fn.accesses[i].layer \in Layers
    OBVIOUS
  <2>1. fn.accesses[i] \in A
    BY DEF Held
  <2> HIDE DEF A
  <2>2. PICK j \in R : fn.accesses[i] = AccessAt(j)
    BY <1>1, <2>1
  <2>3. QED
    BY <1>2, <1>3, <2>2
<1> HIDE DEF A
<1>5. ASSUME NEW n PROVE ReadIn(A, n) = {At(i + 2) : i \in {i \in R : At(i) = n}}
  <2>1. ASSUME NEW y \in ReadIn(A, n) PROVE y \in {At(i + 2) : i \in {i \in R : At(i) = n}}
    <3>1. PICK a \in A : a.param_name = n /\ y = a.layer
      BY DEF ReadIn
    <3>2. PICK i \in R : a = AccessAt(i)
      BY <1>1
    <3>3. QED
      BY <1>3, <3>1, <3>2
  <2>2. ASSUME NEW i \in R, At(i) = n PROVE At(i + 2) \in ReadIn(A, n)
    <3>1. AccessAt(i) \in A /\ AccessAt(i).param_name = n /\ AccessAt(i).layer = At(i + 2)
      BY <1>1, <1>3, <2>2
    <3>2. QED
      BY <3>1 DEF ReadIn
  <2>3. QED
    BY <2>1, <2>2
<1>6. QED
  BY <1>4, <1>5 DEF A, R

LEMMA LayersAccepted ==
  ASSUME Prior, AtEnd, RecordInv
  PROVE  LayersKept
<1> SUFFICES ASSUME outcome = "accepted", NEW k \in DOMAIN Module.functions
    PROVE
    LET fn == Module.functions[k]
        clean == LayerMarads(Module, fn) = << >>
        head == InOrder(HeadsOf("fn"))[k]
        compound == {At(h + 1) : h \in HeadsOf("type")}
        params == {i \in ParamsOf(head) : At(i + 2) \in compound}
        declared(n) == {IF At(i + 3) = "." THEN At(i + 4) ELSE "none" :
                          i \in {i \in params : At(i) = n}}
        read(n) == {At(i + 2) : i \in {i \in Reads(fn.calls) : At(i) = n}}
        verify == At(head + 1) = "verify"
        names == {At(i) : i \in params}
    IN IF clean
       THEN \A n \in names :
              IF "none" \in declared(n) THEN verify
              ELSE Cardinality(read(n)) <= 1 /\ read(n) \subseteq declared(n)
       ELSE \E n \in names : \/ "none" \in declared(n) /\ ~verify
                             \/ Layers \subseteq declared(n) \cup read(n)
  BY Zenon DEF LayersKept
<1> DEFINE fn == Module.functions[k]
           head == InOrder(HeadsOf("fn"))[k]
           P == Qualified(Module, fn)
           A == Held(fn.accesses)
           params == {i \in ParamsOf(head) : At(i + 2) \in {At(h + 1) : h \in HeadsOf("type")}}
           declared(n) == {IF At(i + 3) = "." THEN At(i + 4) ELSE "none" :
                             i \in {i \in params : At(i) = n}}
           read(n) == {At(i + 2) : i \in {i \in Reads(fn.calls) : At(i) = n}}
           names == {At(i) : i \in params}
<1>1. DoneOf(frames, "fn") = Module.functions /\ "fn" \in Kinds
  BY DEF DoneOf, Module, Kinds
<1>2. DoneRight("fn", head, fn, pos)
  BY <1>1, AcceptedDone
<1>3. Entered(fn)
  BY DEF RecordInv, RecordsRight, Module
<1> HIDE DEF fn, head
<1>4. fn.name = At(head + 1) /\ ParamsRight(fn.params, ParamsOf(head))
  BY <1>2 DEF DoneRight
<1>5. IsFunction(fn)
  BY SameWords, <1>3, <1>4, PriorFacts, ReadsListed DEF IsFunction, Entered, ParamsRight
<1>6. ParamsOf(head) \subseteq Nat
  <2>1. ParamsOf(head) \subseteq DOMAIN source
    BY Zenon DEF ParamsOf
  <2>2. QED
    BY <2>1, PriorFacts, SourceIs
<1>7. CompoundTypeNames(Module) = {At(h + 1) : h \in HeadsOf("type")}
  BY TypesNamed
<1>8. NamesOf(P) = names /\ \A n : DeclaredIn(P, n) = declared(n)
  <2> DEFINE R == {i \in ParamsOf(head) : At(i + 2) \in CompoundTypeNames(Module)}
             shown(n) == {IF At(i + 3) = "." THEN At(i + 4) ELSE "none" :
                            i \in {i \in R : At(i) = n}}
  <2>1. NamesOf(P) = {At(i) : i \in R} /\ \A n : DeclaredIn(P, n) = shown(n)
    BY <1>4, <1>6, ParamsListed
  <2>2. R = params
    BY <1>7
  <2> HIDE DEF R, params, P
  <2>3. QED
    BY <2>1, <2>2
<1>9. \A n : ReadIn(A, n) = read(n)
  BY <1>3, PriorFacts, ReadsListed DEF Entered
<1>10. IF LayerMarads(Module, fn) = << >>
       THEN \A n \in NamesOf(P) :
              IF "none" \in DeclaredIn(P, n) THEN fn.name = "verify"
              ELSE Cardinality(ReadIn(A, n)) <= 1 /\ ReadIn(A, n) \subseteq DeclaredIn(P, n)
       ELSE \E n \in NamesOf(P) : \/ "none" \in DeclaredIn(P, n) /\ fn.name # "verify"
                                  \/ Layers \subseteq DeclaredIn(P, n) \cup ReadIn(A, n)
  BY SameWords, <1>5, LayersJudged
<1> HIDE DEF P, A, declared, read, names
<1>11. IF LayerMarads(Module, fn) = << >>
       THEN \A n \in names :
              IF "none" \in declared(n) THEN At(head + 1) = "verify"
              ELSE Cardinality(read(n)) <= 1 /\ read(n) \subseteq declared(n)
       ELSE \E n \in names : \/ "none" \in declared(n) /\ ~(At(head + 1) = "verify")
                             \/ Layers \subseteq declared(n) \cup read(n)
  BY <1>4, <1>8, <1>9, <1>10
<1>12. QED
  BY <1>11, Zenon DEF declared, read, names, fn, head

(* In every module that the parser accepts, the checker of layers lets a   *)
(* function pass only if each qualified parameter is read in one layer,    *)
(* which its name is declared with, and faults it only if two layers are   *)
(* declared or read under one name, or a compound type has no layer.       *)
THEOREM LayersKeptHolds == Spec => []LayersKept
<1>1. Init => IInv /\ RecordInv /\ HeadInv /\ AtEnd
  BY InitInv, InitRecords, InitHeads DEF Init, AtEnd
<1>2. IInv /\ RecordInv /\ HeadInv /\ AtEnd /\ [Next]_vars => (IInv /\ RecordInv /\ HeadInv /\ AtEnd)'
  BY NextInv, NextRecords, NextHeads, NextAtEnd
<1>3. IInv /\ RecordInv /\ HeadInv /\ AtEnd => LayersKept
  BY LayersAccepted DEF Prior
<1>4. QED
  BY <1>1, <1>2, <1>3, PTL DEF Spec
=============================================================================
