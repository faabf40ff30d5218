-------------------------- MODULE FunctionRunProofs --------------------------
(***************************************************************************)
(* Proofs about the checkers of function bodies: what their findings say   *)
(* of every module whose functions run, whatever their bodies.             *)
(***************************************************************************)
EXTENDS FunctionRun, Functions, DataProofs, SequenceTheorems, TLAPS

(* A body is a list of statements, and the arms of its ifs are bodies      *)
(* nested less deeply.                                                     *)
LEMMA BodyFacts ==
  ASSUME NEW b \in Body, NEW i \in DOMAIN b
  PROVE  /\ b[i] \in Statement
         /\ b[i].op \in {"call", "return", "if"}
         /\ b[i].op = "if" =>
              /\ b[i].nots \in Nat
              /\ b[i].body \in Body /\ Nesting[b[i].body] < Nesting[b]
              /\ b[i].orelse \in Body /\ Nesting[b[i].orelse] < Nesting[b]
<1>1. b[i] \in Statement
  BY DEF Statement
<1>2. QED
  BY <1>1, BodyAssumption

-----------------------------------------------------------------------------
(* Each walk over a body is what its recursive definition says.            *)
LEMMA CallsAt ==
  ASSUME NEW b \in Body
  PROVE  Calls(b) = {b[i].head : i \in At(b, "call")}
                    \cup UNION {Calls(b[i].body) \cup Calls(b[i].orelse) : i \in At(b, "if")}
<1> DEFINE Whole(f, c) == {c[i].head : i \in At(c, "call")}
                          \cup UNION {f[c[i].body] \cup f[c[i].orelse] : i \in At(c, "if")}
           V == SUBSET {s.head : s \in Statement}
           Step == [f \in [Body -> V] |-> [c \in Body |-> Whole(f, c)]]
           calls == CHOOSE f : f = [c \in Body |-> Whole(f, c)]
<1>1. ASSUME NEW f \in [Body -> V], NEW c \in Body PROVE Whole(f, c) \in V
  BY BodyFacts DEF At
<1>2. ASSUME NEW f \in [Body -> V], NEW g \in [Body -> V], NEW c \in Body,
             \A d \in Body : Nesting[d] < Nesting[c] => f[d] = g[d]
      PROVE  Whole(f, c) = Whole(g, c)
  <2>1. \A i \in At(c, "if") : f[c[i].body] = g[c[i].body] /\ f[c[i].orelse] = g[c[i].orelse]
    BY <1>2, BodyFacts DEF At
  <2>2. QED
    BY <2>1
<1>3. \E f : f = [c \in Body |-> Whole(f, c)]
  <2> HIDE DEF Whole, V
  <2>1. [Body -> V] # {}
    <3>1. [c \in Body |-> {}] \in [Body -> V]
      BY DEF V
    <3>2. QED
      BY <3>1
  <2>2. Step \in [[Body -> V] -> [Body -> V]]
    BY <1>1
  <2>3. \A f, g \in [Body -> V] : \A c \in Body :
          (\A d \in Body : Nesting[d] < Nesting[c] => f[d] = g[d]) => Step[f][c] = Step[g][c]
    BY <1>2
  <2>4. LooksDown(Step, Body, V, Nesting)
    BY <2>1, <2>2, <2>3, NestingAssumption DEF LooksDown
  <2> HIDE DEF Step
  <2>5. PICK f \in [Body -> V] : Step[f] = f
    BY <2>4, RankRecursion
  <2>6. QED
    BY <2>5 DEF Step
<1>4. calls = [c \in Body |-> Whole(calls, c)]
  <2> HIDE DEF Whole
  <2>1. QED
    BY <1>3
<1>5. \A c : Calls(c) = calls[c]
  BY DEF Calls
<1>6. Calls(b) = Whole(calls, b)
  <2> HIDE DEF Whole, calls
  <2>1. QED
    BY <1>4, <1>5
<1>7. QED
  <2> HIDE DEF calls
  <2>1. QED
    BY <1>5, <1>6

TracedReturn ==
  [value : {s.value : s \in Statement}, guards : SUBSET {"negated", "non-negated"}]

LEMMA GuardedTyped ==
  ASSUME NEW returns \in SUBSET TracedReturn
  PROVE  /\ Guarded(returns, "negated") \subseteq TracedReturn
         /\ Guarded(returns, "non-negated") \subseteq TracedReturn
BY DEF Guarded, TracedReturn

(* A run may get past a statement; a run may end at it with a value.       *)
MayFall(s) == \/ s.op = "call"
              \/ s.op = "if" /\ "fell" \in Ends(s.body) \cup Ends(s.orelse)
MayGive(s) == \/ s.op = "return"
              \/ s.op = "if" /\ "value" \in Ends(s.body) \cup Ends(s.orelse)

LEMMA ReturnExistsAt ==
  ASSUME NEW b \in Body
  PROVE  ReturnExists(b) <=>
           \/ At(b, "return") # {}
           \/ \E i \in At(b, "if") : ReturnExists(b[i].body) \/ ReturnExists(b[i].orelse)
<1> DEFINE Whole(f, c) == \/ At(c, "return") # {}
                           \/ \E i \in At(c, "if") : f[c[i].body] \/ f[c[i].orelse]
           V == BOOLEAN
           Step == [f \in [Body -> V] |-> [c \in Body |-> Whole(f, c)]]
           exists == CHOOSE f : f = [c \in Body |-> Whole(f, c)]
<1>1. ASSUME NEW f \in [Body -> V], NEW c \in Body PROVE Whole(f, c) \in V
  OBVIOUS
<1>2. ASSUME NEW f \in [Body -> V], NEW g \in [Body -> V], NEW c \in Body,
             \A d \in Body : Nesting[d] < Nesting[c] => f[d] = g[d]
      PROVE  Whole(f, c) = Whole(g, c)
  <2>1. \A i \in At(c, "if") : f[c[i].body] = g[c[i].body] /\ f[c[i].orelse] = g[c[i].orelse]
    BY <1>2, BodyFacts DEF At
  <2>2. QED
    BY <2>1, Zenon
<1>3. \E f : f = [c \in Body |-> Whole(f, c)]
  <2> HIDE DEF Whole, V
  <2>1. [Body -> V] # {}
    <3>1. [c \in Body |-> FALSE] \in [Body -> V]
      BY DEF V
    <3>2. QED
      BY <3>1
  <2>2. Step \in [[Body -> V] -> [Body -> V]]
    BY <1>1
  <2>3. \A f, g \in [Body -> V] : \A c \in Body :
          (\A d \in Body : Nesting[d] < Nesting[c] => f[d] = g[d]) => Step[f][c] = Step[g][c]
    BY <1>2
  <2>4. LooksDown(Step, Body, V, Nesting)
    BY <2>1, <2>2, <2>3, NestingAssumption DEF LooksDown
  <2> HIDE DEF Step
  <2>5. PICK f \in [Body -> V] : Step[f] = f
    BY <2>4, RankRecursion
  <2>6. QED
    BY <2>5 DEF Step
<1>4. exists = [c \in Body |-> Whole(exists, c)]
  <2> HIDE DEF Whole
  <2>1. QED
    BY <1>3
<1>5. \A c : ReturnExists(c) = exists[c]
  BY DEF ReturnExists
<1>6. ReturnExists(b) = Whole(exists, b)
  <2> HIDE DEF Whole, exists
  <2>1. QED
    BY <1>4, <1>5
<1>7. QED
  <2> HIDE DEF exists
  <2>1. QED
    BY <1>5, <1>6

LEMMA AllPathsReturnAt ==
  ASSUME NEW b \in Body
  PROVE  AllPathsReturn(b) <=>
           \/ At(b, "return") # {}
           \/ \E i \in At(b, "if") :
                b[i].orelse # << >> /\ AllPathsReturn(b[i].body) /\ AllPathsReturn(b[i].orelse)
<1> DEFINE Whole(f, c) == \/ At(c, "return") # {}
                           \/ \E i \in At(c, "if") :
                                c[i].orelse # << >> /\ f[c[i].body] /\ f[c[i].orelse]
           V == BOOLEAN
           Step == [f \in [Body -> V] |-> [c \in Body |-> Whole(f, c)]]
           returns == CHOOSE f : f = [c \in Body |-> Whole(f, c)]
<1>1. ASSUME NEW f \in [Body -> V], NEW c \in Body PROVE Whole(f, c) \in V
  OBVIOUS
<1>2. ASSUME NEW f \in [Body -> V], NEW g \in [Body -> V], NEW c \in Body,
             \A d \in Body : Nesting[d] < Nesting[c] => f[d] = g[d]
      PROVE  Whole(f, c) = Whole(g, c)
  <2>1. \A i \in At(c, "if") : f[c[i].body] = g[c[i].body] /\ f[c[i].orelse] = g[c[i].orelse]
    BY <1>2, BodyFacts DEF At
  <2>2. QED
    BY <2>1, Zenon
<1>3. \E f : f = [c \in Body |-> Whole(f, c)]
  <2> HIDE DEF Whole, V
  <2>1. [Body -> V] # {}
    <3>1. [c \in Body |-> FALSE] \in [Body -> V]
      BY DEF V
    <3>2. QED
      BY <3>1
  <2>2. Step \in [[Body -> V] -> [Body -> V]]
    BY <1>1
  <2>3. \A f, g \in [Body -> V] : \A c \in Body :
          (\A d \in Body : Nesting[d] < Nesting[c] => f[d] = g[d]) => Step[f][c] = Step[g][c]
    BY <1>2
  <2>4. LooksDown(Step, Body, V, Nesting)
    BY <2>1, <2>2, <2>3, NestingAssumption DEF LooksDown
  <2> HIDE DEF Step
  <2>5. PICK f \in [Body -> V] : Step[f] = f
    BY <2>4, RankRecursion
  <2>6. QED
    BY <2>5 DEF Step
<1>4. returns = [c \in Body |-> Whole(returns, c)]
  <2> HIDE DEF Whole
  <2>1. QED
    BY <1>3
<1>5. \A c : AllPathsReturn(c) = returns[c]
  BY DEF AllPathsReturn
<1>6. AllPathsReturn(b) = Whole(returns, b)
  <2> HIDE DEF Whole, returns
  <2>1. QED
    BY <1>4, <1>5
<1>7. QED
  <2> HIDE DEF returns
  <2>1. QED
    BY <1>5, <1>6

LEMMA ReturnsAt ==
  ASSUME NEW b \in Body
  PROVE  Returns(b) =
           {Return(b[i].value) : i \in At(b, "return")}
           \cup UNION {Guarded(Returns(b[i].body), Polarity(Negated(b[i])))
                       \cup Guarded(Returns(b[i].orelse), Polarity(~Negated(b[i])))
                       : i \in At(b, "if")}
<1> DEFINE Whole(f, c) == {Return(c[i].value) : i \in At(c, "return")}
                          \cup UNION {Guarded(f[c[i].body], Polarity(Negated(c[i])))
                                      \cup Guarded(f[c[i].orelse], Polarity(~Negated(c[i])))
                                      : i \in At(c, "if")}
           V == SUBSET TracedReturn
           Step == [f \in [Body -> V] |-> [c \in Body |-> Whole(f, c)]]
           returns == CHOOSE f : f = [c \in Body |-> Whole(f, c)]
<1>1. ASSUME NEW f \in [Body -> V], NEW c \in Body PROVE Whole(f, c) \in V
  <2>1. \A i \in At(c, "return") : Return(c[i].value) \in TracedReturn
    BY BodyFacts DEF At, Return, TracedReturn
  <2>2. \A i \in At(c, "if") : f[c[i].body] \subseteq TracedReturn /\ f[c[i].orelse] \subseteq TracedReturn
    BY BodyFacts DEF At
  <2>3. \A i \in At(c, "if") :
          /\ Guarded(f[c[i].body], Polarity(Negated(c[i]))) \subseteq TracedReturn
          /\ Guarded(f[c[i].orelse], Polarity(~Negated(c[i]))) \subseteq TracedReturn
    <3>1. \A n : Polarity(n) \in {"negated", "non-negated"}
      BY DEF Polarity
    <3>2. \A rs \in SUBSET TracedReturn : \A p \in {"negated", "non-negated"} :
            Guarded(rs, p) \subseteq TracedReturn
      BY GuardedTyped
    <3>3. QED
      BY <2>2, <3>1, <3>2
  <2>4. QED
    BY <2>1, <2>3
<1>2. ASSUME NEW f \in [Body -> V], NEW g \in [Body -> V], NEW c \in Body,
             \A d \in Body : Nesting[d] < Nesting[c] => f[d] = g[d]
      PROVE  Whole(f, c) = Whole(g, c)
  <2>1. \A i \in At(c, "if") : f[c[i].body] = g[c[i].body] /\ f[c[i].orelse] = g[c[i].orelse]
    BY <1>2, BodyFacts DEF At
  <2>2. QED
    BY <2>1
<1>3. \E f : f = [c \in Body |-> Whole(f, c)]
  <2> HIDE DEF Whole, V
  <2>1. [Body -> V] # {}
    <3>1. [c \in Body |-> {}] \in [Body -> V]
      BY DEF V
    <3>2. QED
      BY <3>1
  <2>2. Step \in [[Body -> V] -> [Body -> V]]
    BY <1>1
  <2>3. \A f, g \in [Body -> V] : \A c \in Body :
          (\A d \in Body : Nesting[d] < Nesting[c] => f[d] = g[d]) => Step[f][c] = Step[g][c]
    BY <1>2
  <2>4. LooksDown(Step, Body, V, Nesting)
    BY <2>1, <2>2, <2>3, NestingAssumption DEF LooksDown
  <2> HIDE DEF Step
  <2>5. PICK f \in [Body -> V] : Step[f] = f
    BY <2>4, RankRecursion
  <2>6. QED
    BY <2>5 DEF Step
<1>4. returns = [c \in Body |-> Whole(returns, c)]
  <2> HIDE DEF Whole
  <2>1. QED
    BY <1>3
<1>5. \A c : Returns(c) = returns[c]
  BY DEF Returns
<1>6. Returns(b) = Whole(returns, b)
  <2> HIDE DEF Whole, returns
  <2>1. QED
    BY <1>4, <1>5
<1>7. QED
  <2> HIDE DEF returns
  <2>1. QED
    BY <1>5, <1>6

LEMMA EndsAt ==
  ASSUME NEW b \in Body
  PROVE  Ends(b) =
           (IF \A i \in DOMAIN b : MayFall(b[i]) THEN {"fell"} ELSE {})
           \cup (IF \E i \in DOMAIN b : MayGive(b[i]) /\ \A j \in 1 .. (i - 1) : MayFall(b[j])
                 THEN {"value"} ELSE {})
<1> DEFINE Whole(f, c) == (IF \A i \in DOMAIN c : Falls(c[i], f) THEN {"fell"} ELSE {})
                          \cup (IF \E i \in DOMAIN c : Gives(c[i], f) /\ \A j \in 1 .. (i - 1) : Falls(c[j], f)
                                THEN {"value"} ELSE {})
           V == SUBSET {"fell", "value"}
           Step == [f \in [Body -> V] |-> [c \in Body |-> Whole(f, c)]]
           ends == CHOOSE f : f = [c \in Body |-> Whole(f, c)]
<1>1. ASSUME NEW f \in [Body -> V], NEW c \in Body PROVE Whole(f, c) \in V
  OBVIOUS
<1>2. ASSUME NEW f \in [Body -> V], NEW g \in [Body -> V], NEW c \in Body,
             \A d \in Body : Nesting[d] < Nesting[c] => f[d] = g[d]
      PROVE  Whole(f, c) = Whole(g, c)
  <2>1. \A i \in At(c, "if") : f[c[i].body] = g[c[i].body] /\ f[c[i].orelse] = g[c[i].orelse]
    BY <1>2, BodyFacts DEF At
  <2>2. QED
    <3>1. \A i \in DOMAIN c : Falls(c[i], f) <=> Falls(c[i], g)
      BY <2>1 DEF At, Falls
    <3>2. \A i \in DOMAIN c : Gives(c[i], f) <=> Gives(c[i], g)
      BY <2>1 DEF At, Gives
    <3>3. \A i \in DOMAIN c : \A j \in 1 .. (i - 1) : j \in DOMAIN c
      BY BodyAssumption
    <3>4. QED
      BY <3>1, <3>2, <3>3
<1>3. \E f : f = [c \in Body |-> Whole(f, c)]
  <2> HIDE DEF Whole, V
  <2>1. [Body -> V] # {}
    <3>1. [c \in Body |-> {}] \in [Body -> V]
      BY DEF V
    <3>2. QED
      BY <3>1
  <2>2. Step \in [[Body -> V] -> [Body -> V]]
    BY <1>1
  <2>3. \A f, g \in [Body -> V] : \A c \in Body :
          (\A d \in Body : Nesting[d] < Nesting[c] => f[d] = g[d]) => Step[f][c] = Step[g][c]
    BY <1>2
  <2>4. LooksDown(Step, Body, V, Nesting)
    BY <2>1, <2>2, <2>3, NestingAssumption DEF LooksDown
  <2> HIDE DEF Step
  <2>5. PICK f \in [Body -> V] : Step[f] = f
    BY <2>4, RankRecursion
  <2>6. QED
    BY <2>5 DEF Step
<1>4. ends = [c \in Body |-> Whole(ends, c)]
  <2> HIDE DEF Whole
  <2>1. QED
    BY <1>3
<1>5. \A c : Ends(c) = ends[c]
  BY DEF Ends
<1>6. Ends(b) = Whole(ends, b)
  <2> HIDE DEF Whole, ends
  <2>1. QED
    BY <1>4, <1>5
<1>7. QED
  <2> HIDE DEF ends
  <2>1. \A i \in DOMAIN b : Falls(b[i], ends) <=> MayFall(b[i])
    BY <1>5 DEF Falls, MayFall
  <2>2. \A i \in DOMAIN b : Gives(b[i], ends) <=> MayGive(b[i])
    BY <1>5 DEF Gives, MayGive
  <2>3. \A i \in DOMAIN b : \A j \in 1 .. (i - 1) : j \in DOMAIN b
    BY BodyAssumption
  <2>4. QED
    BY <1>6, <2>1, <2>2, <2>3

-----------------------------------------------------------------------------
(* The two walks that look for returns agree with the ways a run of the    *)
(* body can end, however deeply its ifs are nested.                        *)
Exact(b) ==
  /\ Ends(b) # {}
  /\ Ends(b) \subseteq {"fell", "value"}
  /\ AllPathsReturn(b) <=> "fell" \notin Ends(b)
  /\ ReturnExists(b) <=> "value" \in Ends(b)

LEMMA ExactStep ==
  ASSUME NEW b \in Body,
         \A i \in At(b, "if") : Exact(b[i].body) /\ Exact(b[i].orelse)
  PROVE  Exact(b)
<1>1. /\ Ends(b) \subseteq {"fell", "value"}
      /\ "fell" \in Ends(b) <=> \A i \in DOMAIN b : MayFall(b[i])
      /\ "value" \in Ends(b) <=>
           \E i \in DOMAIN b : MayGive(b[i]) /\ \A j \in 1 .. (i - 1) : MayFall(b[j])
  BY EndsAt
<1>2. ASSUME NEW i \in DOMAIN b
      PROVE  /\ MayFall(b[i]) \/ MayGive(b[i])
             /\ ~MayFall(b[i]) <=>
                  \/ i \in At(b, "return")
                  \/ i \in At(b, "if") /\ AllPathsReturn(b[i].body) /\ AllPathsReturn(b[i].orelse)
             /\ MayGive(b[i]) <=>
                  \/ i \in At(b, "return")
                  \/ i \in At(b, "if") /\ (ReturnExists(b[i].body) \/ ReturnExists(b[i].orelse))
  <2>1. CASE b[i].op = "if"
    <3>1. i \in At(b, "if") /\ i \notin At(b, "return")
      BY <2>1 DEF At
    <3>2. Exact(b[i].body) /\ Exact(b[i].orelse)
      BY <3>1
    <3>3. QED
      BY <2>1, <3>1, <3>2 DEF Exact, MayFall, MayGive
  <2>2. CASE b[i].op = "return"
    BY <2>2 DEF At, MayFall, MayGive
  <2>3. CASE b[i].op = "call"
    BY <2>3 DEF At, MayFall, MayGive
  <2>4. QED
    BY <2>1, <2>2, <2>3, BodyFacts
<1>3. DOMAIN b = 1 .. Len(b) /\ Len(b) \in Nat
  BY BodyAssumption
<1>4. ~AllPathsReturn(<< >>) \/ << >> \notin Body
  BY AllPathsReturnAt DEF At
<1>5. AllPathsReturn(b) <=> "fell" \notin Ends(b)
  <2>1. AllPathsReturn(b) <=> \E i \in DOMAIN b : ~MayFall(b[i])
    <3>1. ASSUME NEW i \in At(b, "if") PROVE b[i].orelse \in Body /\ i \in DOMAIN b
      BY BodyFacts DEF At
    <3>2. \A i \in At(b, "return") : i \in DOMAIN b
      BY DEF At
    <3>3. QED
      BY <1>2, <1>4, <3>1, <3>2, AllPathsReturnAt
  <2>2. QED
    BY <1>1, <2>1
<1>6. ReturnExists(b) <=> \E i \in DOMAIN b : MayGive(b[i])
  <2>1. (\A i \in At(b, "if") : i \in DOMAIN b) /\ (\A i \in At(b, "return") : i \in DOMAIN b)
    BY DEF At
  <2>2. QED
    BY <1>2, <2>1, ReturnExistsAt
(* The first statement that a run cannot get past, or that may end it,     *)
(* is one that a run gets to.                                              *)
<1>7. ASSUME NEW S \in SUBSET DOMAIN b, S # {}
      PROVE  \E i \in S : \A j \in 1 .. (i - 1) : j \in DOMAIN b /\ j \notin S
  <2>1. S \in SUBSET Nat
    BY <1>3
  <2>2. PICK i \in S : \A j \in S : i <= j
    BY <1>7, <2>1, LeastNumber
  <2>3. \A j \in 1 .. (i - 1) : j \in DOMAIN b /\ j \notin S
    BY <1>3, <2>2
  <2>4. QED
    BY <2>3
<1>8. (\E i \in DOMAIN b : MayGive(b[i])) => "value" \in Ends(b)
  <2> DEFINE S == {i \in DOMAIN b : MayGive(b[i])}
  <2>1. SUFFICES ASSUME S # {} PROVE "value" \in Ends(b)
    OBVIOUS
  <2>2. PICK i \in S : \A j \in 1 .. (i - 1) : j \in DOMAIN b /\ j \notin S
    BY <1>7, <2>1
  <2>3. \A j \in 1 .. (i - 1) : MayFall(b[j])
    BY <1>2, <2>2
  <2>4. QED
    BY <1>1, <2>2, <2>3
<1>9. Ends(b) # {}
  <2> DEFINE S == {i \in DOMAIN b : ~MayFall(b[i])}
  <2>1. CASE S = {}
    BY <1>1, <2>1
  <2>2. CASE S # {}
    BY <1>2, <1>8, <2>2
  <2>3. QED
    BY <2>1, <2>2
<1>10. QED
  BY <1>1, <1>5, <1>6, <1>8, <1>9 DEF Exact

LEMMA EveryBodyIsExact ==
  ASSUME NEW b \in Body
  PROVE  Exact(b)
<1> DEFINE S == {n \in Nat : \A c \in Body : Nesting[c] < n => Exact(c)}
<1>1. 0 \in S
  BY NestingAssumption
<1>2. ASSUME NEW n \in Nat, n \in S PROVE n + 1 \in S
  <2>1. ASSUME NEW c \in Body, Nesting[c] < n + 1 PROVE Exact(c)
    <3>1. ASSUME NEW i \in At(c, "if") PROVE Exact(c[i].body) /\ Exact(c[i].orelse)
      <4>1. /\ c[i].body \in Body /\ Nesting[c[i].body] < Nesting[c]
            /\ c[i].orelse \in Body /\ Nesting[c[i].orelse] < Nesting[c]
        BY BodyFacts DEF At
      <4>2. /\ Nesting[c] \in Nat /\ Nesting[c[i].body] \in Nat /\ Nesting[c[i].orelse] \in Nat
        BY <4>1, NestingAssumption
      <4>3. Nesting[c[i].body] < n /\ Nesting[c[i].orelse] < n
        BY <2>1, <4>1, <4>2
      <4>4. QED
        BY <1>2, <4>1, <4>3
    <3>2. QED
      BY <3>1, ExactStep
  <2>2. QED
    BY <2>1
<1> HIDE DEF S
<1>3. Nat \subseteq S
  BY <1>1, <1>2, SetInduction
<1>4. Nesting[b] + 1 \in Nat /\ Nesting[b] < Nesting[b] + 1
  BY NestingAssumption
<1>5. QED
  BY <1>3, <1>4 DEF S

-----------------------------------------------------------------------------
(* What is ahead of a running function: statements of its body, of arms it *)
(* took, and the handing on of a value it waits for.                       *)
Pending == Statement \cup {[op |-> "handOn"]}

Frames(p) == [fn : DOMAIN p, todo : Seq(Pending), ruledOut : BOOLEAN]

(* A run that gets to such a statement does not get past it.               *)
Sure(s) ==
  \/ s.op \in {"return", "handOn"}
  \/ s.op = "if" /\ AllPathsReturn(s.body) /\ AllPathsReturn(s.orelse)

(* What the walks find in one statement.                                   *)
CallsIn(s) ==
  IF s.op = "call" THEN {s.head}
  ELSE IF s.op = "if" THEN Calls(s.body) \cup Calls(s.orelse)
  ELSE {}

ReturnsIn(s) ==
  IF s.op = "return" THEN {Return(s.value)}
  ELSE IF s.op = "if"
    THEN Guarded(Returns(s.body), Polarity(Negated(s)))
         \cup Guarded(Returns(s.orelse), Polarity(~Negated(s)))
  ELSE {}

(* No condition is negated twice: the outermost operator tells whether the *)
(* then-arm is taken where the predicate is false.                         *)
NegatedOnce == \A s \in Statement : s.op = "if" => (Negated(s) <=> s.nots % 2 = 1)

(* A return the walk found in the body, with this value; where it is found *)
(* under a negated guard, this one is too, or a predicate was false.       *)
FoundIn(b, r, ruledOut) ==
  \E t \in Returns(b) :
    /\ t.value = r.value
    /\ NegatedOnce /\ "negated" \in t.guards => "negated" \in r.guards \/ ruledOut

(* CallsAreStatements of a program.                                        *)
OnlyStatementsCall(p) ==
  \A n \in DOMAIN p : \A r \in Returns(p[n].body) : r.value.kind # "call"

FrameKept(p, frame) ==
  LET b == p[frame.fn].body
      ahead == Range(frame.todo)
  IN  /\ AllPathsReturn(b) => \E s \in ahead : Sure(s)
      /\ \A s \in ahead : CallsIn(s) \subseteq Calls(b)
      /\ \A s \in ahead : \A r \in ReturnsIn(s) : FoundIn(b, r, frame.ruledOut)
      /\ OnlyStatementsCall(p) => \A s \in ahead : s.op # "handOn"

StackKept(p, frames) ==
  /\ frames \in Seq(Frames(p))
  /\ Len(frames) <= MaxDepth
  /\ \A i \in DOMAIN frames : FrameKept(p, frames[i])
  /\ OnlyStatementsCall(p) =>
       \A i \in 1 .. (Len(frames) - 1) : frames[i + 1].fn \in Calls(p[frames[i].fn].body)

OutcomeKept(p, end) ==
  /\ end.how \in {"none", "value", "fell"}
  /\ end.how # "none" => end.fn \in DOMAIN p
  /\ end.how = "fell" => ~AllPathsReturn(p[end.fn].body)
  /\ end.how = "value" /\ OnlyStatementsCall(p) =>
       FoundIn(p[end.fn].body, Return(end.value), end.ruledOut)

CalledKept(p, names) ==
  /\ names \cap DOMAIN p = {}
  /\ OnlyStatementsCall(p) =>
       \A h \in names : \E n \in DOMAIN p : h \in Calls(p[n].body)

IInv ==
  /\ program \in Programs
  /\ Checked => findings = [n \in Names |-> Findings(program, n, NotScope)]
  /\ ~Checked => stack = << >> /\ outcome = NoOutcome /\ called = {}
  /\ StackKept(program, stack)
  /\ OutcomeKept(program, outcome)
  /\ CalledKept(program, called)

-----------------------------------------------------------------------------
(* What the walks find in a statement of a body they find in the body.     *)
LEMMA WalksCover ==
  ASSUME NEW b \in Body
  PROVE  /\ b \in Seq(Pending)
         /\ Range(b) \subseteq Statement
         /\ AllPathsReturn(b) => \E s \in Range(b) : Sure(s)
         /\ \A s \in Range(b) : CallsIn(s) \subseteq Calls(b)
         /\ \A s \in Range(b) : ReturnsIn(s) \subseteq Returns(b)
         /\ \A s \in Range(b) : s.op \in {"call", "return", "if"}
<1>1. b \in Seq(Statement) /\ b \in Seq(Pending)
  BY BodyAssumption DEF Pending
<1>2. Range(b) \subseteq Statement
  BY <1>1 DEF Range
<1>3. AllPathsReturn(b) => \E s \in Range(b) : Sure(s)
  BY AllPathsReturnAt DEF At, Range, Sure
<1>4. ASSUME NEW s \in Range(b) PROVE CallsIn(s) \subseteq Calls(b) /\ ReturnsIn(s) \subseteq Returns(b)
  <2>1. PICK i \in DOMAIN b : s = b[i]
    BY DEF Range
  <2>2. CASE s.op = "call"
    <3>1. i \in At(b, "call")
      BY <2>1, <2>2 DEF At
    <3>2. QED
      BY <2>1, <2>2, <3>1, CallsAt DEF CallsIn, ReturnsIn
  <2>3. CASE s.op = "return"
    <3>1. i \in At(b, "return")
      BY <2>1, <2>3 DEF At
    <3>2. QED
      BY <2>1, <2>3, <3>1, ReturnsAt DEF CallsIn, ReturnsIn
  <2>4. CASE s.op = "if"
    <3>1. i \in At(b, "if")
      BY <2>1, <2>4 DEF At
    <3>2. Calls(s.body) \cup Calls(s.orelse) \subseteq Calls(b)
      BY <2>1, <3>1, CallsAt
    <3>3. Guarded(Returns(s.body), Polarity(Negated(s)))
          \cup Guarded(Returns(s.orelse), Polarity(~Negated(s))) \subseteq Returns(b)
      BY <2>1, <3>1, ReturnsAt
    <3>4. QED
      BY <2>4, <3>2, <3>3 DEF CallsIn, ReturnsIn
  <2>5. QED
    BY <2>1, <2>2, <2>3, <2>4, BodyFacts
<1>5. \A s \in Range(b) : s.op \in {"call", "return", "if"}
  BY BodyFacts DEF Range
<1>6. QED
  BY <1>1, <1>2, <1>3, <1>4, <1>5

LEMMA IfFacts ==
  ASSUME NEW s \in Pending, s.op = "if"
  PROVE  s \in Statement /\ s.body \in Body /\ s.orelse \in Body /\ s.nots \in Nat
<1>1. s \in Statement
  BY DEF Pending
<1>2. PICK b \in Body : \E i \in DOMAIN b : s = b[i]
  BY <1>1 DEF Statement
<1>3. QED
  BY <1>1, <1>2, BodyFacts

(* A list is its head and its tail; the elements of two lists.             *)
LEMMA ListFacts ==
  ASSUME NEW list \in Seq(Pending), list # << >>
  PROVE  /\ list[1] \in Pending
         /\ list[1] \in Range(list)
         /\ Tail(list) \in Seq(Pending)
         /\ Range(list) = {list[1]} \cup Range(Tail(list))
<1>1. /\ Len(list) \in Nat \ {0} /\ DOMAIN list = 1 .. Len(list)
      /\ Tail(list) \in Seq(Pending) /\ DOMAIN Tail(list) = 1 .. (Len(list) - 1)
      /\ \A i \in 1 .. (Len(list) - 1) : Tail(list)[i] = list[i + 1]
  OBVIOUS
<1>2. Range(Tail(list)) \subseteq Range(list)
  BY <1>1 DEF Range
<1>3. ASSUME NEW i \in DOMAIN list PROVE list[i] \in {list[1]} \cup Range(Tail(list))
  <2>1. CASE i = 1
    BY <2>1
  <2>2. CASE i # 1
    <3>1. i - 1 \in 1 .. (Len(list) - 1) /\ (i - 1) + 1 = i
      BY <1>1, <2>2
    <3>2. list[i] = Tail(list)[i - 1] /\ i - 1 \in DOMAIN Tail(list)
      BY <1>1, <3>1
    <3>3. QED
      BY <3>2 DEF Range
  <2>3. QED
    BY <2>1, <2>2
<1>4. list[1] \in Range(list) /\ list[1] \in Pending
  BY <1>1 DEF Range
<1>5. Range(list) \subseteq {list[1]} \cup Range(Tail(list))
  BY <1>3 DEF Range
<1>6. QED
  BY <1>1, <1>2, <1>4, <1>5

LEMMA JoinFacts ==
  ASSUME NEW a \in Seq(Pending), NEW c \in Seq(Pending)
  PROVE  a \o c \in Seq(Pending) /\ Range(a \o c) = Range(a) \cup Range(c)
<1>1. /\ DOMAIN (a \o c) = 1 .. (Len(a) + Len(c)) /\ Len(a) \in Nat /\ Len(c) \in Nat
      /\ DOMAIN a = 1 .. Len(a) /\ DOMAIN c = 1 .. Len(c)
      /\ \A i \in 1 .. (Len(a) + Len(c)) :
           (a \o c)[i] = IF i <= Len(a) THEN a[i] ELSE c[i - Len(a)]
  OBVIOUS
<1>2. Range(a) \subseteq Range(a \o c)
  BY <1>1 DEF Range
<1>3. ASSUME NEW i \in DOMAIN c PROVE c[i] \in Range(a \o c)
  <2>1. i + Len(a) \in DOMAIN (a \o c) /\ (a \o c)[i + Len(a)] = c[i]
    BY <1>1
  <2>2. QED
    BY <2>1 DEF Range
<1>4. ASSUME NEW i \in DOMAIN (a \o c) PROVE (a \o c)[i] \in Range(a) \cup Range(c)
  <2>1. CASE i <= Len(a)
    <3>1. i \in DOMAIN a /\ (a \o c)[i] = a[i]
      BY <1>1, <2>1
    <3>2. QED
      BY <3>1 DEF Range
  <2>2. CASE ~(i <= Len(a))
    <3>1. i - Len(a) \in DOMAIN c /\ (a \o c)[i] = c[i - Len(a)]
      BY <1>1, <2>2
    <3>2. QED
      BY <3>1 DEF Range
  <2>3. QED
    BY <2>1, <2>2
<1>5. Range(c) \subseteq Range(a \o c) /\ Range(a \o c) \subseteq Range(a) \cup Range(c)
  BY <1>3, <1>4 DEF Range
<1>6. a \o c \in Seq(Pending)
  OBVIOUS
<1>7. QED
  BY <1>2, <1>5, <1>6

-----------------------------------------------------------------------------
(* What a frame keeps, as it starts and as it goes on.                     *)
LEMMA FrameStarts ==
  ASSUME NEW p \in Programs, NEW n \in DOMAIN p
  PROVE  LET frame == [fn |-> n, todo |-> p[n].body, ruledOut |-> FALSE]
         IN  frame \in Frames(p) /\ FrameKept(p, frame)
<1> DEFINE b == p[n].body
           frame == [fn |-> n, todo |-> b, ruledOut |-> FALSE]
<1>1. b \in Body
  BY ProgramsAssumption
<1>2. frame \in Frames(p)
  BY <1>1, WalksCover DEF Frames
<1>3. \A r \in Returns(b) : FoundIn(b, r, FALSE)
  BY DEF FoundIn
<1>4. FrameKept(p, frame)
  <2> HIDE DEF b
  <2>1. p[frame.fn].body = b /\ frame.todo = b /\ frame.ruledOut = FALSE
    BY DEF b
  <2> HIDE DEF frame
  <2>2. \A s \in Range(b) : s.op # "handOn"
    BY <1>1, WalksCover
  <2>3. QED
    BY <1>1, <1>3, <2>1, <2>2, WalksCover DEF FrameKept
<1>5. QED
  BY <1>2, <1>4

LEMMA FrameGoesOn ==
  ASSUME NEW p, NEW frame \in Frames(p), FrameKept(p, frame),
         frame.todo # << >>, frame.todo[1].op = "call"
  PROVE  Rest(frame) \in Frames(p) /\ FrameKept(p, Rest(frame)) /\ Rest(frame).fn = frame.fn
<1>1. frame.todo \in Seq(Pending)
  BY DEF Frames
<1>2. /\ Tail(frame.todo) \in Seq(Pending)
      /\ Range(frame.todo) = {frame.todo[1]} \cup Range(Tail(frame.todo))
  BY <1>1, ListFacts
<1>3. /\ Rest(frame).fn = frame.fn /\ Rest(frame).ruledOut = frame.ruledOut
      /\ Rest(frame).todo = Tail(frame.todo) /\ Rest(frame) \in Frames(p)
  BY <1>2 DEF Rest, Frames
<1>4. ~Sure(frame.todo[1])
  BY DEF Sure
<1>5. QED
  BY <1>2, <1>3, <1>4 DEF FrameKept

LEMMA FrameHandsOn ==
  ASSUME NEW p, NEW frame \in Frames(p), ~OnlyStatementsCall(p)
  PROVE  LET next == [frame EXCEPT !.todo = << [op |-> "handOn"] >>]
         IN  next \in Frames(p) /\ FrameKept(p, next) /\ next.fn = frame.fn
<1> DEFINE step == [op |-> "handOn"]
           next == [frame EXCEPT !.todo = << step >>]
<1>1. step.op = "handOn" /\ step \in Pending
  BY DEF Pending
<1>2. Sure(step) /\ CallsIn(step) = {} /\ ReturnsIn(step) = {}
  BY <1>1 DEF Sure, CallsIn, ReturnsIn
<1> HIDE DEF step
<1>3. << step >> \in Seq(Pending) /\ Range(<< step >>) = {step}
  BY <1>1 DEF Range
<1>4. next \in Frames(p) /\ next.fn = frame.fn /\ next.todo = << step >>
  BY <1>3 DEF Frames
<1> HIDE DEF next
<1>5. FrameKept(p, next)
  BY <1>2, <1>3, <1>4 DEF FrameKept
<1>6. QED
  BY <1>4, <1>5 DEF next, step

LEMMA FrameBranches ==
  ASSUME NEW p, NEW frame \in Frames(p), FrameKept(p, frame),
         frame.todo # << >>, frame.todo[1].op = "if", NEW predicate \in BOOLEAN
  PROVE  LET if == frame.todo[1]
             holds == IF if.nots % 2 = 0 THEN predicate ELSE ~predicate
             arm == IF holds THEN if.body ELSE if.orelse
             next == [frame EXCEPT !.todo = arm \o Tail(@), !.ruledOut = @ \/ ~predicate]
         IN  next \in Frames(p) /\ FrameKept(p, next) /\ next.fn = frame.fn
<1> DEFINE if == frame.todo[1]
           holds == IF if.nots % 2 = 0 THEN predicate ELSE ~predicate
           arm == IF holds THEN if.body ELSE if.orelse
           after == Tail(frame.todo)
           ruledOut == frame.ruledOut \/ ~predicate
           next == [frame EXCEPT !.todo = arm \o Tail(@), !.ruledOut = @ \/ ~predicate]
           b == p[frame.fn].body
           polarity == IF holds THEN Polarity(Negated(if)) ELSE Polarity(~Negated(if))
<1>1. frame.todo \in Seq(Pending) /\ frame.ruledOut \in BOOLEAN /\ frame.fn \in DOMAIN p
  BY DEF Frames
<1>2. /\ if \in Pending /\ if \in Range(frame.todo) /\ after \in Seq(Pending)
      /\ Range(frame.todo) = {if} \cup Range(after)
  BY <1>1, ListFacts
<1>3. if \in Statement /\ arm \in Body
  BY <1>2, IfFacts
<1>4. arm \o after \in Seq(Pending) /\ Range(arm \o after) = Range(arm) \cup Range(after)
  BY <1>2, <1>3, WalksCover, JoinFacts
<1>5. /\ next \in Frames(p) /\ next.fn = frame.fn
      /\ next.todo = arm \o after /\ next.ruledOut = ruledOut
  <2> HIDE DEF holds, arm
  <2>1. QED
    BY <1>1, <1>4 DEF Frames
<1>6. /\ Calls(arm) \subseteq CallsIn(if)
      /\ Guarded(Returns(arm), polarity) \subseteq ReturnsIn(if)
      /\ Sure(if) => AllPathsReturn(arm)
  BY DEF CallsIn, ReturnsIn, Sure
<1>7. NegatedOnce /\ polarity = "negated" => ~predicate
  <2>1. NegatedOnce => (Negated(if) <=> ~(if.nots % 2 = 0))
    <3>1. if.nots \in Nat
      BY <1>2, IfFacts
    <3>2. if.nots % 2 = 1 <=> ~(if.nots % 2 = 0)
      BY <3>1
    <3>3. QED
      BY <1>3, <3>2 DEF NegatedOnce
  <2>2. QED
    BY <2>1 DEF Polarity
<1> HIDE DEF if, holds, arm, after, ruledOut, next, polarity
<1>8. AllPathsReturn(b) => \E s \in Range(arm \o after) : Sure(s)
  <2>1. SUFFICES ASSUME AllPathsReturn(b) PROVE \E s \in Range(arm \o after) : Sure(s)
    OBVIOUS
  <2>2. PICK s \in Range(frame.todo) : Sure(s)
    BY <2>1 DEF FrameKept
  <2>3. CASE s = if
    <3>1. \E t \in Range(arm) : Sure(t)
      BY <1>3, <1>6, <2>2, <2>3, WalksCover
    <3>2. QED
      BY <1>4, <3>1
  <2>4. CASE s \in Range(after)
    BY <1>4, <2>2, <2>4
  <2>5. QED
    BY <1>2, <2>2, <2>3, <2>4
<1>9. ASSUME NEW s \in Range(arm \o after)
      PROVE  CallsIn(s) \subseteq Calls(b) /\ (OnlyStatementsCall(p) => s.op # "handOn")
  <2>1. CASE s \in Range(arm)
    <3>1. CallsIn(s) \subseteq Calls(arm) /\ s.op # "handOn"
      BY <1>3, <2>1, WalksCover
    <3>2. CallsIn(if) \subseteq Calls(b)
      BY <1>2 DEF FrameKept
    <3>3. QED
      BY <1>6, <3>1, <3>2
  <2>2. CASE s \in Range(after)
    BY <1>2, <2>2 DEF FrameKept
  <2>3. QED
    BY <1>4, <2>1, <2>2
<1>10. ASSUME NEW s \in Range(arm \o after), NEW r \in ReturnsIn(s)
       PROVE  FoundIn(b, r, ruledOut)
  <2>1. CASE s \in Range(arm)
    <3> DEFINE g == [value |-> r.value, guards |-> r.guards \cup {polarity}]
    <3>1. r \in Returns(arm)
      BY <1>3, <2>1, WalksCover
    <3>2. g \in Guarded(Returns(arm), polarity)
      BY <3>1 DEF Guarded
    <3>3. FoundIn(b, g, frame.ruledOut)
      BY <1>2, <1>6, <3>2 DEF FrameKept
    <3>4. g.value = r.value /\ g.guards = r.guards \cup {polarity}
      OBVIOUS
    <3> HIDE DEF g
    <3>5. PICK t \in Returns(b) :
            /\ t.value = g.value
            /\ NegatedOnce /\ "negated" \in t.guards => "negated" \in g.guards \/ frame.ruledOut
      BY <3>3 DEF FoundIn
    <3>6. NegatedOnce /\ "negated" \in t.guards => "negated" \in r.guards \/ ruledOut
      BY <1>7, <3>4, <3>5 DEF ruledOut
    <3>7. QED
      BY <3>4, <3>5, <3>6 DEF FoundIn
  <2>2. CASE s \in Range(after)
    <3>1. FoundIn(b, r, frame.ruledOut)
      BY <1>2, <2>2 DEF FrameKept
    <3>2. QED
      BY <3>1 DEF FoundIn, ruledOut
  <2>3. QED
    BY <1>4, <2>1, <2>2
<1>11. FrameKept(p, next)
  BY <1>5, <1>8, <1>9, <1>10 DEF FrameKept
<1>12. QED
  BY <1>5, <1>11 DEF next, arm, holds, if

-----------------------------------------------------------------------------
(* What the stack keeps as frames come, change and go.                     *)
LEMMA StackPops ==
  ASSUME NEW p, NEW frames, StackKept(p, frames), frames # << >>
  PROVE  LET below == SubSeq(frames, 1, Len(frames) - 1)
             top == frames[Len(frames)]
         IN  /\ StackKept(p, below)
             /\ Len(below) = Len(frames) - 1
             /\ top \in Frames(p) /\ FrameKept(p, top)
             /\ OnlyStatementsCall(p) /\ below # << >> =>
                  top.fn \in Calls(p[below[Len(below)].fn].body)
<1> DEFINE below == SubSeq(frames, 1, Len(frames) - 1)
<1>1. /\ frames \in Seq(Frames(p)) /\ Len(frames) \in Nat \ {0}
      /\ DOMAIN frames = 1 .. Len(frames) /\ Len(frames) <= MaxDepth
  BY DEF StackKept
<1>2. /\ below \in Seq(Frames(p)) /\ Len(below) = Len(frames) - 1
      /\ \A i \in 1 .. (Len(frames) - 1) : below[i] = frames[i]
      /\ DOMAIN below = 1 .. (Len(frames) - 1)
  BY <1>1, SubSeqProperties
<1> HIDE DEF below
<1>3. \A i \in DOMAIN below : i \in DOMAIN frames /\ below[i] = frames[i]
  BY <1>1, <1>2
<1>4. OnlyStatementsCall(p) =>
        \A i \in 1 .. (Len(below) - 1) : below[i + 1].fn \in Calls(p[below[i].fn].body)
  <2>1. ASSUME NEW i \in 1 .. (Len(below) - 1)
        PROVE  i \in 1 .. (Len(frames) - 1) /\ below[i + 1] = frames[i + 1] /\ below[i] = frames[i]
    <3>1. i + 1 \in DOMAIN below /\ i \in DOMAIN below /\ i \in 1 .. (Len(frames) - 1)
      BY <1>1, <1>2
    <3>2. QED
      BY <1>3, <3>1
  <2>2. QED
    BY <2>1 DEF StackKept
<1>5. Len(below) <= MaxDepth
  BY <1>1, <1>2, MaxDepthAssumption
<1>6. StackKept(p, below)
  BY <1>2, <1>3, <1>4, <1>5 DEF StackKept
<1>7. Len(frames) \in DOMAIN frames
  BY <1>1
<1>8. frames[Len(frames)] \in Frames(p) /\ FrameKept(p, frames[Len(frames)])
  BY <1>1, <1>7 DEF StackKept
<1>9. ASSUME OnlyStatementsCall(p), below # << >>
      PROVE  frames[Len(frames)].fn \in Calls(p[below[Len(below)].fn].body)
  <2>1. Len(frames) - 1 # 0
    BY <1>2, <1>9
  <2>2. Len(frames) - 1 \in 1 .. (Len(frames) - 1) /\ (Len(frames) - 1) + 1 = Len(frames)
    BY <1>1, <2>1
  <2>3. QED
    BY <1>2, <1>9, <2>2 DEF StackKept
<1>10. QED
  BY <1>2, <1>6, <1>8, <1>9 DEF below

LEMMA StackPushes ==
  ASSUME NEW p, NEW frames, StackKept(p, frames), Len(frames) < MaxDepth,
         NEW frame \in Frames(p), FrameKept(p, frame),
         OnlyStatementsCall(p) /\ frames # << >> =>
           frame.fn \in Calls(p[frames[Len(frames)].fn].body)
  PROVE  StackKept(p, Append(frames, frame))
<1> DEFINE all == Append(frames, frame)
<1>1. frames \in Seq(Frames(p)) /\ Len(frames) \in Nat /\ DOMAIN frames = 1 .. Len(frames)
  BY DEF StackKept
<1>2. /\ all \in Seq(Frames(p)) /\ Len(all) = Len(frames) + 1
      /\ DOMAIN all = 1 .. (Len(frames) + 1)
      /\ all[Len(frames) + 1] = frame
      /\ \A i \in 1 .. Len(frames) : all[i] = frames[i]
  BY <1>1
<1> HIDE DEF all
<1>3. ASSUME NEW i \in DOMAIN all PROVE FrameKept(p, all[i])
  <2>1. i \in DOMAIN frames \/ i = Len(frames) + 1
    BY <1>1, <1>2
  <2>2. QED
    BY <1>1, <1>2, <2>1 DEF StackKept
<1>4. ASSUME OnlyStatementsCall(p), NEW i \in 1 .. (Len(all) - 1)
      PROVE  all[i + 1].fn \in Calls(p[all[i].fn].body)
  <2>1. i \in 1 .. Len(frames)
    BY <1>1, <1>2
  <2>2. CASE i = Len(frames)
    <3>1. frames # << >>
      BY <1>1, <2>1
    <3>2. QED
      BY <1>2, <1>4, <2>1, <2>2, <3>1
  <2>3. CASE i # Len(frames)
    <3>1. i \in 1 .. (Len(frames) - 1) /\ i + 1 \in 1 .. Len(frames)
      <4> DEFINE n == Len(frames)
      <4>1. n \in Nat /\ i \in 1 .. n /\ i # n
        BY <1>1, <2>1, <2>3
      <4> HIDE DEF n
      <4>2. i \in 1 .. (n - 1) /\ i + 1 \in 1 .. n
        BY <4>1
      <4>3. QED
        BY <4>2 DEF n
    <3>2. all[i] = frames[i] /\ all[i + 1] = frames[i + 1]
      BY <1>2, <2>1, <3>1
    <3>3. QED
      BY <1>4, <3>1, <3>2 DEF StackKept
  <2>4. QED
    BY <2>2, <2>3
<1>5. Len(all) <= MaxDepth
  BY <1>1, <1>2, MaxDepthAssumption
<1>6. StackKept(p, all)
  BY <1>2, <1>3, <1>4, <1>5 DEF StackKept
<1>7. QED
  BY <1>6 DEF all

(* The running frame goes on, in the same function.                        *)
LEMMA StackReplaces ==
  ASSUME NEW p, NEW frames, StackKept(p, frames), frames # << >>,
         NEW frame \in Frames(p), FrameKept(p, frame),
         frame.fn = frames[Len(frames)].fn
  PROVE  StackKept(p, Append(SubSeq(frames, 1, Len(frames) - 1), frame))
<1> DEFINE below == SubSeq(frames, 1, Len(frames) - 1)
<1>1. /\ StackKept(p, below) /\ Len(below) = Len(frames) - 1
      /\ OnlyStatementsCall(p) /\ below # << >> =>
           frame.fn \in Calls(p[below[Len(below)].fn].body)
  BY StackPops
<1>2. Len(frames) \in Nat /\ Len(frames) <= MaxDepth
  BY DEF StackKept
<1>3. Len(below) < MaxDepth
  BY <1>1, <1>2, MaxDepthAssumption
<1> HIDE DEF below
<1>4. StackKept(p, Append(below, frame))
  BY <1>1, <1>3, StackPushes
<1>5. QED
  BY <1>4 DEF below

-----------------------------------------------------------------------------
(* The invariant, action by action.                                        *)
LEMMA InitInv == Init => IInv
<1>1. ASSUME NEW p PROVE StackKept(p, << >>)
  BY MaxDepthAssumption DEF StackKept
<1>2. ASSUME NEW p PROVE OutcomeKept(p, NoOutcome) /\ CalledKept(p, {})
  BY DEF OutcomeKept, NoOutcome, CalledKept
<1>3. QED
  BY <1>1, <1>2 DEF Init, IInv, Checked

(* What IInv says of the running frame.                                    *)
LEMMA RunningFacts ==
  ASSUME IInv, stack # << >>
  PROVE  /\ program \in Programs /\ Checked
         /\ StackKept(program, stack)
         /\ StackKept(program, Below) /\ Len(Below) = Len(stack) - 1
         /\ Len(stack) \in Nat \ {0} /\ Len(stack) <= MaxDepth
         /\ Running \in Frames(program) /\ FrameKept(program, Running)
         /\ Running.fn \in Names /\ Running.todo \in Seq(Pending)
         /\ Running.ruledOut \in BOOLEAN
<1>1. StackKept(program, stack) /\ program \in Programs /\ Checked
  BY DEF IInv
<1>2. /\ StackKept(program, Below) /\ Len(Below) = Len(stack) - 1
      /\ Running \in Frames(program) /\ FrameKept(program, Running)
  BY <1>1, StackPops DEF Below, Running
<1>3. Len(stack) \in Nat \ {0} /\ Len(stack) <= MaxDepth
  BY <1>1 DEF StackKept
<1>4. /\ Running.fn \in Names /\ Running.todo \in Seq(Pending)
      /\ Running.ruledOut \in BOOLEAN
  BY <1>2 DEF Frames, Names
<1>5. QED
  BY <1>1, <1>2, <1>3, <1>4

LEMMA CheckInv == IInv /\ Check => IInv'
<1>1. SUFFICES ASSUME IInv, Check PROVE IInv'
  OBVIOUS
<1>2. /\ program' = program /\ stack' = stack /\ outcome' = outcome /\ called' = called
      /\ findings' = [n \in Names |-> Findings(program, n, NotScope)]
      /\ ~Checked /\ Names' = Names
  BY <1>1 DEF Check, Names
<1>3. QED
  BY <1>1, <1>2 DEF IInv

LEMMA StartInv == ASSUME IInv, NEW n \in Names, Start(n) PROVE IInv'
<1>1. /\ program' = program /\ findings' = findings /\ outcome' = outcome /\ called' = called
      /\ stack' = << Frame(n) >> /\ Names' = Names /\ Checked /\ Checked'
  BY DEF Start, Names, Checked
<1>2. StackKept(program, << >>) /\ program \in Programs
  BY DEF IInv, Start
<1>3. Frame(n) \in Frames(program) /\ FrameKept(program, Frame(n))
  BY <1>2, FrameStarts DEF Frame, Names
<1>4. StackKept(program, Append(<< >>, Frame(n)))
  <2> DEFINE none == << >>
  <2>1. StackKept(program, none) /\ Len(none) < MaxDepth /\ ~(none # << >>)
    BY <1>2, MaxDepthAssumption
  <2> HIDE DEF none
  <2>2. StackKept(program, Append(none, Frame(n)))
    BY <1>3, <2>1, StackPushes
  <2>3. QED
    BY <2>2 DEF none
<1>5. StackKept(program, << Frame(n) >>)
  BY <1>4
<1>6. QED
  BY <1>1, <1>5 DEF IInv

(* A step that puts a stack in place of the old one.                       *)
LEMMA StackStep ==
  ASSUME IInv, Checked, NEW frames, StackKept(program, frames),
         stack' = frames, UNCHANGED <<program, findings, outcome, called>>
  PROVE  IInv'
<1>1. Names' = Names /\ Checked'
  BY DEF Names, Checked
<1>2. QED
  BY <1>1 DEF IInv

LEMMA CallFunctionInv == IInv /\ CallFunction => IInv'
<1>1. SUFFICES ASSUME IInv, CallFunction PROVE IInv'
  OBVIOUS
<1> DEFINE callee == Head1.head
           waiting == Append(Below, Rest(Running))
<1>2. /\ stack # << >> /\ Running.todo # << >> /\ Running.todo[1].op = "call"
      /\ callee \in Names /\ Len(stack) < MaxDepth
      /\ stack' = Append(waiting, Frame(callee))
      /\ UNCHANGED <<program, findings, outcome, called>>
  BY <1>1 DEF CallFunction, Ready, Head1
<1>3. Rest(Running) \in Frames(program) /\ FrameKept(program, Rest(Running)) /\ Rest(Running).fn = Running.fn
  BY <1>1, <1>2, RunningFacts, FrameGoesOn
<1>4. StackKept(program, waiting)
  BY <1>1, <1>2, <1>3, RunningFacts, StackReplaces DEF Below, Running
<1>5. Len(waiting) = Len(stack) /\ waiting # << >> /\ waiting[Len(waiting)] = Rest(Running)
  <2>1. Below \in Seq(Frames(program)) /\ Len(Below) = Len(stack) - 1 /\ Len(stack) \in Nat \ {0}
    BY <1>1, <1>2, RunningFacts DEF StackKept
  <2> HIDE DEF Below
  <2>2. QED
    BY <2>1, <1>3
<1>6. callee \in Calls(program[Running.fn].body)
  <2>1. Head1 \in Range(Running.todo)
    BY <1>1, <1>2, RunningFacts, ListFacts DEF Head1
  <2>2. CallsIn(Head1) \subseteq Calls(program[Running.fn].body)
    BY <1>1, <1>2, <2>1, RunningFacts DEF FrameKept
  <2>3. CallsIn(Head1) = {callee}
    BY <1>2 DEF CallsIn, Head1
  <2>4. QED
    BY <2>2, <2>3
<1>7. Frame(callee) \in Frames(program) /\ FrameKept(program, Frame(callee)) /\ Frame(callee).fn = callee
  BY <1>1, <1>2, RunningFacts, FrameStarts DEF Frame, Names
<1> HIDE DEF waiting, callee
<1>8. StackKept(program, Append(waiting, Frame(callee)))
  BY <1>2, <1>3, <1>4, <1>5, <1>6, <1>7, StackPushes
<1>9. QED
  BY <1>1, <1>2, <1>8, RunningFacts, StackStep

LEMMA CallOutsideInv == IInv /\ CallOutside => IInv'
<1>1. SUFFICES ASSUME IInv, CallOutside PROVE IInv'
  OBVIOUS
<1>2. /\ stack # << >> /\ Running.todo # << >> /\ Running.todo[1].op = "call"
      /\ Head1.head \notin Names /\ called' = called \cup {Head1.head}
      /\ stack' = Append(Below, Rest(Running))
      /\ UNCHANGED <<program, findings, outcome>>
  BY <1>1 DEF CallOutside, Ready, Head1
<1>3. Rest(Running) \in Frames(program) /\ FrameKept(program, Rest(Running)) /\ Rest(Running).fn = Running.fn
  BY <1>1, <1>2, RunningFacts, FrameGoesOn
<1>4. StackKept(program, stack')
  BY <1>1, <1>2, <1>3, RunningFacts, StackReplaces DEF Below, Running
<1>5. Head1.head \in Calls(program[Running.fn].body) /\ Running.fn \in DOMAIN program
  <2>1. Head1 \in Range(Running.todo)
    BY <1>1, <1>2, RunningFacts, ListFacts DEF Head1
  <2>2. CallsIn(Head1) \subseteq Calls(program[Running.fn].body)
    BY <1>1, <1>2, <2>1, RunningFacts DEF FrameKept
  <2>3. CallsIn(Head1) = {Head1.head}
    BY <1>2 DEF CallsIn, Head1
  <2>4. QED
    BY <1>1, <1>2, <2>2, <2>3, RunningFacts DEF Names
<1>6. CalledKept(program, called')
  <2>1. CalledKept(program, called)
    BY <1>1 DEF IInv
  <2>2. QED
    BY <1>2, <1>5, <2>1 DEF CalledKept, Names
<1>7. Names' = Names /\ Checked' /\ Checked
  BY <1>1, <1>2, RunningFacts DEF Names, Checked
<1>8. QED
  BY <1>1, <1>2, <1>4, <1>6, <1>7 DEF IInv

LEMMA BranchInv == ASSUME IInv, NEW predicate \in BOOLEAN, Branch(predicate) PROVE IInv'
<1> DEFINE holds == IF Head1.nots % 2 = 0 THEN predicate ELSE ~predicate
           arm == IF holds THEN Head1.body ELSE Head1.orelse
           next == [Running EXCEPT !.todo = arm \o Tail(@), !.ruledOut = @ \/ ~predicate]
<1>1. /\ stack # << >> /\ Running.todo # << >> /\ Running.todo[1].op = "if"
      /\ stack' = Append(Below, next)
      /\ UNCHANGED <<program, findings, outcome, called>>
  BY DEF Branch, Ready, Head1
<1>2. next \in Frames(program) /\ FrameKept(program, next) /\ next.fn = Running.fn
  BY <1>1, RunningFacts, FrameBranches DEF Head1
<1> HIDE DEF next
<1>3. StackKept(program, Append(Below, next))
  BY <1>1, <1>2, RunningFacts, StackReplaces DEF Below, Running
<1>4. QED
  BY <1>1, <1>3, RunningFacts, StackStep

(* A step that ends the running function.                                  *)
LEMMA EndStep ==
  ASSUME IInv, stack # << >>, stack' = Below, program' = program, findings' = findings,
         OutcomeKept(program, outcome'), CalledKept(program, called')
  PROVE  IInv'
<1>1. Names' = Names /\ Checked' /\ StackKept(program, Below)
  BY RunningFacts DEF Names, Checked
<1>2. QED
  BY <1>1 DEF IInv

LEMMA ReturnFound ==
  ASSUME IInv, Ready("return")
  PROVE  FoundIn(program[Running.fn].body, Return(Head1.value), Running.ruledOut)
<1>1. stack # << >> /\ Running.todo # << >> /\ Head1.op = "return"
  BY DEF Ready
<1>2. Head1 \in Range(Running.todo)
  BY <1>1, RunningFacts, ListFacts DEF Head1
<1>3. Return(Head1.value) \in ReturnsIn(Head1)
  BY <1>1 DEF ReturnsIn
<1>4. QED
  BY <1>1, <1>2, <1>3, RunningFacts DEF FrameKept

LEMMA ReturnValueInv == IInv /\ ReturnValue => IInv'
<1>1. SUFFICES ASSUME IInv, ReturnValue PROVE IInv'
  OBVIOUS
<1>2. /\ stack # << >> /\ stack' = Below /\ program' = program /\ findings' = findings
      /\ called' = called
      /\ outcome' = Value(Running.fn, Head1.value, Running.ruledOut)
  BY <1>1 DEF ReturnValue, Ready
<1>3. FoundIn(program[Running.fn].body, Return(Head1.value), Running.ruledOut)
  BY <1>1, ReturnFound DEF ReturnValue
<1>4. OutcomeKept(program, outcome')
  BY <1>1, <1>2, <1>3, RunningFacts DEF OutcomeKept, Value, Names
<1>5. CalledKept(program, called')
  BY <1>1, <1>2 DEF IInv
<1>6. QED
  BY <1>1, <1>2, <1>4, <1>5, EndStep

(* A function that returns a call is one the checkers do not see through.  *)
LEMMA ReturnedCallIsSeen ==
  ASSUME IInv, Ready("return"), Head1.value.kind = "call"
  PROVE  ~OnlyStatementsCall(program)
<1>1. FoundIn(program[Running.fn].body, Return(Head1.value), Running.ruledOut)
  BY ReturnFound
<1>2. PICK r \in Returns(program[Running.fn].body) : r.value = Return(Head1.value).value
  BY <1>1 DEF FoundIn
<1>3. r.value.kind = "call"
  BY <1>2 DEF Return
<1>4. Running.fn \in DOMAIN program
  BY RunningFacts DEF Ready, Names
<1>5. QED
  BY <1>3, <1>4 DEF OnlyStatementsCall

LEMMA ReturnCallInv == IInv /\ ReturnCall => IInv'
<1>1. SUFFICES ASSUME IInv, ReturnCall PROVE IInv'
  OBVIOUS
<1> DEFINE callee == Head1.value.head
           next == [Running EXCEPT !.todo = << [op |-> "handOn"] >>]
           waiting == Append(Below, next)
<1>2. stack # << >> /\ Len(stack) < MaxDepth /\ program' = program /\ findings' = findings
  BY <1>1 DEF ReturnCall, Ready
<1>3. ~OnlyStatementsCall(program)
  BY <1>1, ReturnedCallIsSeen DEF ReturnCall
<1>4. CASE callee \in Names
  <2>1. stack' = Append(waiting, Frame(callee)) /\ UNCHANGED <<program, findings, outcome, called>>
    BY <1>1, <1>4 DEF ReturnCall
  <2>2. next \in Frames(program) /\ FrameKept(program, next) /\ next.fn = Running.fn
    BY <1>1, <1>2, <1>3, RunningFacts, FrameHandsOn
  <2> HIDE DEF next
  <2>3. StackKept(program, waiting)
    BY <1>1, <1>2, <2>2, RunningFacts, StackReplaces DEF Below, Running
  <2>4. Len(waiting) = Len(stack)
    <3>1. Below \in Seq(Frames(program)) /\ Len(Below) = Len(stack) - 1 /\ Len(stack) \in Nat \ {0}
      BY <1>1, <1>2, RunningFacts DEF StackKept
    <3> HIDE DEF Below
    <3>2. QED
      BY <3>1, <2>2
  <2>5. Frame(callee) \in Frames(program) /\ FrameKept(program, Frame(callee))
    BY <1>1, <1>2, <1>4, RunningFacts, FrameStarts DEF Frame, Names
  <2> HIDE DEF waiting, callee
  <2>6. StackKept(program, Append(waiting, Frame(callee)))
    BY <1>2, <1>3, <2>3, <2>4, <2>5, StackPushes
  <2>7. QED
    BY <1>1, <1>2, <2>1, <2>6, RunningFacts, StackStep
<1>5. CASE callee \notin Names
  <2>1. /\ stack' = Below /\ called' = called \cup {callee}
        /\ outcome' = Value(Running.fn, [kind |-> "name"], Running.ruledOut)
    BY <1>1, <1>5 DEF ReturnCall
  <2>2. OutcomeKept(program, outcome')
    BY <1>1, <1>2, <1>3, <2>1, RunningFacts DEF OutcomeKept, Value, Names
  <2>3. CalledKept(program, called')
    <3>1. CalledKept(program, called)
      BY <1>1 DEF IInv
    <3>2. QED
      BY <1>3, <1>5, <2>1, <3>1 DEF CalledKept, Names
  <2>4. QED
    BY <1>1, <1>2, <2>1, <2>2, <2>3, EndStep
<1>6. QED
  BY <1>4, <1>5

LEMMA HandOnInv == IInv /\ HandOn => IInv'
<1>1. SUFFICES ASSUME IInv, HandOn PROVE IInv'
  OBVIOUS
<1>2. /\ stack # << >> /\ Running.todo # << >> /\ Head1.op = "handOn"
      /\ stack' = Below /\ program' = program /\ findings' = findings /\ called' = called
      /\ outcome'.how = "value" /\ outcome'.fn = Running.fn
  BY <1>1 DEF HandOn, Ready, Value
<1>3. Head1 \in Range(Running.todo)
  BY <1>1, <1>2, RunningFacts, ListFacts DEF Head1
<1>4. ~OnlyStatementsCall(program)
  BY <1>1, <1>2, <1>3, RunningFacts DEF FrameKept
<1>5. OutcomeKept(program, outcome')
  BY <1>1, <1>2, <1>4, RunningFacts DEF OutcomeKept, Names
<1>6. CalledKept(program, called')
  BY <1>1, <1>2 DEF IInv
<1>7. QED
  BY <1>1, <1>2, <1>5, <1>6, EndStep

LEMMA FallThroughInv == IInv /\ FallThrough => IInv'
<1>1. SUFFICES ASSUME IInv, FallThrough PROVE IInv'
  OBVIOUS
<1>2. /\ stack # << >> /\ Running.todo = << >>
      /\ stack' = Below /\ program' = program /\ findings' = findings /\ called' = called
      /\ outcome' = FellThrough(Running.fn)
  BY <1>1 DEF FallThrough
<1>3. ~AllPathsReturn(program[Running.fn].body)
  <2>1. Range(Running.todo) = {}
    BY <1>2 DEF Range
  <2>2. QED
    BY <1>1, <1>2, <2>1, RunningFacts DEF FrameKept
<1>4. OutcomeKept(program, outcome')
  BY <1>1, <1>2, <1>3, RunningFacts DEF OutcomeKept, FellThrough, Names
<1>5. CalledKept(program, called')
  BY <1>1, <1>2 DEF IInv
<1>6. QED
  BY <1>1, <1>2, <1>4, <1>5, EndStep

LEMMA NextInv == IInv /\ [Next]_vars => IInv'
<1>1. SUFFICES ASSUME IInv, [Next]_vars PROVE IInv'
  OBVIOUS
<1>2. CASE UNCHANGED vars
  BY <1>1, <1>2 DEF vars, IInv, Checked, Names
<1>3. CASE Check
  BY <1>1, <1>3, CheckInv
<1>4. CASE \E n \in Names : Start(n)
  BY <1>1, <1>4, StartInv
<1>5. CASE CallFunction
  BY <1>1, <1>5, CallFunctionInv
<1>6. CASE CallOutside
  BY <1>1, <1>6, CallOutsideInv
<1>7. CASE \E predicate \in BOOLEAN : Branch(predicate)
  BY <1>1, <1>7, BranchInv
<1>8. CASE ReturnValue
  BY <1>1, <1>8, ReturnValueInv
<1>9. CASE ReturnCall
  BY <1>1, <1>9, ReturnCallInv
<1>10. CASE HandOn
  BY <1>1, <1>10, HandOnInv
<1>11. CASE FallThrough
  BY <1>1, <1>11, FallThroughInv
<1>12. QED
  BY <1>1, <1>2, <1>3, <1>4, <1>5, <1>6, <1>7, <1>8, <1>9, <1>10, <1>11 DEF Next

(* The invariant of every run of every module.                             *)
THEOREM Invariance == Spec => []IInv
<1>1. Init => IInv
  BY InitInv
<1>2. IInv /\ [Next]_vars => IInv'
  BY NextInv
<1>3. QED
  BY <1>1, <1>2, PTL DEF Spec

-----------------------------------------------------------------------------
(* What the invariant says of the findings.                                *)
LEMMA FindingsMean ==
  ASSUME NEW p, NEW n
  PROVE  /\ Findings(p, n, NotScope) \subseteq {"R3", "P1", "M1", "A", "B", "S1", "S2", "scope"}
         /\ "R3" \in Findings(p, n, NotScope) <=> MissingReturn(p[n])
         /\ "P1" \in Findings(p, n, NotScope) <=> MissingPath(p[n])
         /\ "M1" \in Findings(p, n, NotScope) <=> TypeMismatch(p[n])
         /\ "A" \in Findings(p, n, NotScope) <=> UnguardedIntegrity(p[n])
         /\ "B" \in Findings(p, n, NotScope) <=> MissingFields(p[n])
         /\ "S1" \in Findings(p, n, NotScope) <=> StatusCollapse(p, p[n])
         /\ "S2" \in Findings(p, n, NotScope) <=> StatusDiscard(p, p[n])
         /\ "scope" \in Findings(p, n, NotScope) <=> OutOfScope(p[n], NotScope)
BY DEF Findings

LEMMA CheckedFindings ==
  ASSUME IInv, Checked
  PROVE  /\ DOMAIN findings = Names
         /\ \A n \in Names : findings[n] = Findings(program, n, NotScope)
         /\ \A n \in Names : program[n].body \in Body
BY ProgramsAssumption DEF IInv, Names

LEMMA EndedWasChecked ==
  ASSUME IInv, outcome.how # "none"
  PROVE  Checked
<1>1. NoOutcome.how = "none"
  BY DEF NoOutcome
<1>2. ~Checked => outcome = NoOutcome
  BY DEF IInv
<1>3. QED
  BY <1>1, <1>2

(* TypeOK: the state has its types; in particular the names called outside *)
(* the module are never names of the module, and the stack stays bounded.  *)
THEOREM TypeCorrect == Spec => []TypeOK
<1>1. IInv => TypeOK
  <2>1. SUFFICES ASSUME IInv PROVE TypeOK
    OBVIOUS
  <2>2. Checked => /\ DOMAIN findings = Names
                   /\ \A n \in Names :
                        findings[n] \subseteq {"R3", "P1", "M1", "A", "B", "S1", "S2", "scope"}
    BY <2>1, CheckedFindings, FindingsMean
  <2>3. /\ program \in Programs /\ Len(stack) <= MaxDepth
        /\ stack \in Seq(Frames(program))
        /\ outcome.how \in {"none", "value", "fell"} /\ called \cap Names = {}
    BY <2>1 DEF IInv, StackKept, OutcomeKept, CalledKept, Names
  <2>4. \A i \in DOMAIN stack : stack[i].fn \in Names /\ stack[i].ruledOut \in BOOLEAN
    <3>1. \A i \in DOMAIN stack : stack[i] \in Frames(program)
      BY <2>3
    <3>2. QED
      BY <3>1 DEF Frames, Names
  <2>5. QED
    BY <2>2, <2>3, <2>4 DEF TypeOK
<1>2. QED
  BY <1>1, Invariance, PTL

(* ReturnsEverywhere: whatever the module, a function with a signature     *)
(* that neither ring-close R3 nor P1 reports never runs off its end.       *)
THEOREM ReturnsEverywhereHolds == Spec => []ReturnsEverywhere
<1>1. IInv => ReturnsEverywhere
  <2>1. SUFFICES ASSUME IInv, outcome.how = "fell", Of.returns # {}
                 PROVE  FoundOn(outcome.fn, {"R3", "P1"})
    BY DEF ReturnsEverywhere
  <2>2. outcome.fn \in Names /\ ~AllPathsReturn(Of.body)
    BY <2>1 DEF IInv, OutcomeKept, Names, Of
  <2>3. Checked
    BY <2>1, EndedWasChecked
  <2>4. MissingReturn(program[outcome.fn]) \/ MissingPath(program[outcome.fn])
    BY <2>1, <2>2 DEF Of, MissingReturn, MissingPath
  <2>5. findings[outcome.fn] = Findings(program, outcome.fn, NotScope)
    BY <2>1, <2>2, <2>3, CheckedFindings
  <2>6. QED
    BY <2>4, <2>5, FindingsMean DEF FoundOn
<1>2. QED
  BY <1>1, Invariance, PTL

(* MissingPathIsExact: P1 is reported for a function with a signature if   *)
(* and only if its body can end both with a value and without, at any      *)
(* nesting of ifs, and never together with R3.                             *)
THEOREM MissingPathIsExactHolds == Spec => []MissingPathIsExact
<1>1. IInv => MissingPathIsExact
  <2>1. SUFFICES ASSUME IInv, Checked, NEW n \in Names
                 PROVE  /\ "P1" \in findings[n] <=>
                             program[n].returns # {} /\ Ends(program[n].body) = {"fell", "value"}
                        /\ ~({"R3", "P1"} \subseteq findings[n])
    BY DEF MissingPathIsExact
  <2>2. findings[n] = Findings(program, n, NotScope) /\ program[n].body \in Body
    BY <2>1, CheckedFindings
  <2>3. Exact(program[n].body)
    BY <2>2, EveryBodyIsExact
  <2>4. /\ "P1" \in findings[n] <=> MissingPath(program[n])
        /\ "R3" \in findings[n] <=> MissingReturn(program[n])
    BY <2>2, FindingsMean
  <2>5. ReturnExists(program[n].body) /\ ~AllPathsReturn(program[n].body)
          <=> Ends(program[n].body) = {"fell", "value"}
    BY <2>3 DEF Exact
  <2>6. QED
    BY <2>4, <2>5 DEF MissingPath, MissingReturn
<1>2. QED
  BY <1>1, Invariance, PTL

(* A returned value is one the walk over the body found.                   *)
LEMMA ReturnedIsFound ==
  ASSUME IInv, CallsAreStatements, outcome.how = "value"
  PROVE  /\ Checked /\ outcome.fn \in Names
         /\ findings[outcome.fn] = Findings(program, outcome.fn, NotScope)
         /\ \E r \in Returns(Of.body) :
              /\ r.value = outcome.value
              /\ NegatedOnce /\ "negated" \in r.guards => outcome.ruledOut
<1>1. OnlyStatementsCall(program)
  BY DEF CallsAreStatements, OnlyStatementsCall, Names
<1>2. outcome.fn \in Names /\ FoundIn(Of.body, Return(outcome.value), outcome.ruledOut)
  BY <1>1 DEF IInv, OutcomeKept, Names, Of
<1>3. PICK r \in Returns(Of.body) :
        /\ r.value = Return(outcome.value).value
        /\ NegatedOnce /\ "negated" \in r.guards =>
             "negated" \in Return(outcome.value).guards \/ outcome.ruledOut
  BY <1>2 DEF FoundIn
<1>4. Return(outcome.value).value = outcome.value /\ Return(outcome.value).guards = {}
  BY DEF Return
<1>5. Checked
  BY EndedWasChecked
<1>6. QED
  BY <1>2, <1>3, <1>4, <1>5, CheckedFindings

(* LiteralsKeepSignature: in a module whose calls are statements, a status *)
(* a function returns is one it declares, or M1 or S1 was reported, and an *)
(* Incomplete has the required fields, or case B was reported.             *)
THEOREM LiteralsKeepSignatureHolds == Spec => []LiteralsKeepSignature
<1>1. IInv => LiteralsKeepSignature
  <2>1. SUFFICES ASSUME IInv, CallsAreStatements, outcome.how = "value"
                 PROVE  SignatureKept /\ FieldsKept
    BY DEF LiteralsKeepSignature, SignatureKept, FieldsKept
  <2>2. PICK r \in Returns(Of.body) : r.value = outcome.value
    BY <2>1, ReturnedIsFound
  <2>3. ASSUME outcome.value.kind \in Status, Of.returns # {},
               outcome.value.kind \notin Of.returns
        PROVE  FoundOn(outcome.fn, {"M1", "S1"})
    <3>1. TypeMismatch(program[outcome.fn])
      BY <2>2, <2>3 DEF TypeMismatch, Of
    <3>2. "M1" \in findings[outcome.fn]
      BY <2>1, <3>1, ReturnedIsFound, FindingsMean
    <3>3. QED
      BY <3>2 DEF FoundOn
  <2>4. ASSUME outcome.value.kind = "Incomplete", ~(RequiredFields \subseteq outcome.value.fields)
        PROVE  FoundOn(outcome.fn, {"B"})
    <3>1. MissingFields(program[outcome.fn])
      BY <2>2, <2>4 DEF MissingFields, Of
    <3>2. "B" \in findings[outcome.fn]
      BY <2>1, <3>1, ReturnedIsFound, FindingsMean
    <3>3. QED
      BY <3>2 DEF FoundOn
  <2>5. QED
    BY <2>3, <2>4 DEF SignatureKept, FieldsKept
<1>2. QED
  BY <1>1, Invariance, PTL

(* IntegrityRuledOut: where no condition is negated twice and calls are    *)
(* statements, a producer that case A does not report returns Integrity    *)
(* only after a predicate turned out false.                                *)
THEOREM IntegrityRuledOutHolds ==
  ASSUME NegatedOnce
  PROVE  Spec => []IntegrityRuledOut
<1>1. IInv => IntegrityRuledOut
  <2>1. SUFFICES ASSUME IInv, CallsAreStatements, outcome.how = "value",
                        outcome.value.kind = "Integrity", IsProducer(Of),
                        ~outcome.ruledOut
                 PROVE  FoundOn(outcome.fn, {"A"})
    BY DEF IntegrityRuledOut
  <2>2. PICK r \in Returns(Of.body) : r.value = outcome.value /\ "negated" \notin r.guards
    BY <2>1, NegatedOnce, ReturnedIsFound
  <2>3. UnguardedIntegrity(program[outcome.fn])
    BY <2>1, <2>2 DEF UnguardedIntegrity, Of
  <2>4. "A" \in findings[outcome.fn]
    BY <2>1, <2>3, ReturnedIsFound, FindingsMean
  <2>5. QED
    BY <2>4 DEF FoundOn
<1>2. QED
  BY <1>1, Invariance, PTL

(* NoSilentNarrowing: in any chain of running calls, however long, that    *)
(* gets from a non-producer to a producer, the last non-producer before    *)
(* the producer was reported by S1 or S2.                                  *)
THEOREM NoSilentNarrowingHolds == Spec => []NoSilentNarrowing
<1> DEFINE Producer(k) == IsProducer(program[stack[k].fn])
<1>1. ASSUME IInv, CallsAreStatements, NEW i \in DOMAIN stack, NEW j \in DOMAIN stack,
             i < j, Producer(j), ~Producer(i)
      PROVE  \E k \in i .. (j - 1) : FoundOn(stack[k].fn, {"S1", "S2"})
  <2>1. /\ Len(stack) \in Nat /\ DOMAIN stack = 1 .. Len(stack)
        /\ stack \in Seq(Frames(program)) /\ Checked
    BY <1>1 DEF IInv, StackKept
  <2>2. i \in Nat /\ j \in Nat /\ 1 <= i /\ j <= Len(stack)
    BY <2>1
  <2> DEFINE S == {m \in Nat : i < m /\ m <= j /\ Producer(m)}
  <2>3. j \in S /\ S \in SUBSET Nat
    BY <1>1, <2>2
  <2>4. PICK m \in S : \A l \in S : m <= l
    <3> HIDE DEF S
    <3>1. QED
      BY <2>3, LeastNumber
  <2>5. m \in Nat /\ i < m /\ m <= j /\ Producer(m)
    BY <2>4
  <2> DEFINE k == m - 1
  <2>6. k \in Nat /\ k \in i .. (j - 1) /\ k + 1 = m /\ k \in 1 .. (Len(stack) - 1)
    BY <2>2, <2>5
  <2>7. ~Producer(k)
    <3>1. CASE k = i
      BY <1>1, <3>1
    <3>2. CASE k # i
      <4>1. i < k /\ k <= j /\ ~(m <= k)
        BY <2>2, <2>5, <3>2
      <4>2. k \notin S
        BY <2>4, <4>1
      <4>3. QED
        BY <2>6, <4>1, <4>2
    <3>3. QED
      BY <3>1, <3>2
  <2> HIDE DEF k, S
  <2>8. OnlyStatementsCall(program)
    BY <1>1 DEF CallsAreStatements, OnlyStatementsCall, Names
  <2>9. stack[m].fn \in Calls(program[stack[k].fn].body)
    BY <1>1, <2>6, <2>8 DEF IInv, StackKept
  <2>10. stack[m].fn \in DOMAIN program /\ stack[k].fn \in Names
    <3>1. m \in DOMAIN stack /\ k \in DOMAIN stack
      BY <2>1, <2>2, <2>5, <2>6
    <3>2. stack[m] \in Frames(program) /\ stack[k] \in Frames(program)
      BY <2>1, <3>1
    <3>3. QED
      BY <3>2 DEF Frames, Names
  <2>11. CallsProducer(program, program[stack[k].fn])
    BY <2>5, <2>9, <2>10 DEF CallsProducer
  <2>12. StatusCollapse(program, program[stack[k].fn]) \/ StatusDiscard(program, program[stack[k].fn])
    BY <2>7, <2>11 DEF StatusCollapse, StatusDiscard
  <2>13. FoundOn(stack[k].fn, {"S1", "S2"})
    BY <1>1, <2>1, <2>10, <2>12, CheckedFindings, FindingsMean DEF FoundOn
  <2>14. QED
    BY <2>6, <2>13
<1>2. IInv => NoSilentNarrowing
  BY <1>1 DEF NoSilentNarrowing
<1>3. QED
  BY <1>2, Invariance, PTL

(* ScopeKept: in a module whose calls are statements, no excluded name is  *)
(* called before the scope check has reported one of its functions.        *)
THEOREM ScopeKeptHolds == Spec => []ScopeKept
<1>1. IInv => ScopeKept
  <2>1. SUFFICES ASSUME IInv, CallsAreStatements, called \cap NotScope # {}
                 PROVE  \E n \in Names : FoundOn(n, {"scope"})
    BY DEF ScopeKept
  <2>2. OnlyStatementsCall(program) /\ CalledKept(program, called) /\ Checked
    BY <2>1 DEF CallsAreStatements, OnlyStatementsCall, Names, IInv
  <2>3. PICK h \in called \cap NotScope : TRUE
    BY <2>1
  <2>4. PICK n \in Names : h \in Calls(program[n].body)
    BY <2>2, <2>3 DEF CalledKept, Names
  <2>5. OutOfScope(program[n], NotScope)
    BY <2>3, <2>4 DEF OutOfScope
  <2>6. FoundOn(n, {"scope"})
    BY <2>1, <2>2, <2>4, <2>5, CheckedFindings, FindingsMean DEF FoundOn
  <2>7. QED
    BY <2>4, <2>6
<1>2. QED
  BY <1>1, Invariance, PTL
=============================================================================
