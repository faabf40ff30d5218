------------------------- MODULE CycleSearchProofs --------------------------
(***************************************************************************)
(* Proofs about Project._find_cycle for every project.                     *)
(***************************************************************************)
EXTENDS CycleSearch, SequenceTheorems, TLAPS

Entry == [node : DOMAIN graph, left : SUBSET Name]

Black == {n \in DOMAIN graph : color[n] = "black"}

(* Each module on the stack was reached from the one below, and what is    *)
(* left of it are dependencies of it.                                      *)
StackIsChain ==
  /\ \A i \in DOMAIN stack :
       i < Len(stack) => stack[i + 1].node \in Needs(graph, stack[i].node)
  /\ \A i \in DOMAIN stack : stack[i].left \subseteq DepSet(graph, stack[i].node)

(* A neighbour that was popped is finished, or it is the next on the stack. *)
Explored ==
  phase = "search" =>
    \A i \in DOMAIN stack : \A m \in Needs(graph, stack[i].node) \ stack[i].left :
      m \in Black \/ (i < Len(stack) /\ m = stack[i + 1].node)

(* A module the search has not reached has no parent.                      *)
Fresh == \A n \in White : parent[n] = NoModule

(* No core is all finished: why a cyclic project is never passed.          *)
NoBlackCore == \A S : IsCore(graph, S) => ~(S \subseteq Black)

(* The walk has copied the stack from its top down to position j, behind   *)
(* it the target, and stands at the entry below.                           *)
Walked(j) ==
  /\ Len(path) = Len(stack) - j + 2
  /\ \A i \in 1 .. (Len(stack) - j + 1) : path[i] = stack[j + i - 1].node
  /\ cursor = IF j = 1 THEN NoModule ELSE stack[j - 1].node

(* The target lies further down, unless the top depends on itself.         *)
TargetBelow(j) == Target = Top.node \/ \E k \in 1 .. (j - 1) : Target = stack[k].node

WalkOnStack ==
  phase = "walk" =>
    /\ stack # << >>
    /\ Target \in Needs(graph, Top.node)
    /\ \E j \in DOMAIN stack : Walked(j) /\ TargetBelow(j)

Outcome ==
  /\ phase \in {"walk", "cycle"} => Cyclic(graph)
  /\ phase = "none" => Black = DOMAIN graph
  /\ phase = "idle" => Black = {} /\ stack = << >>

IInv ==
  /\ TypeOK
  /\ GrayIsStack
  /\ BlackClosed
  /\ StackIsChain
  /\ Explored
  /\ Fresh
  /\ NoBlackCore
  /\ WalkOnStack
  /\ Outcome
  /\ ReportIsCycle

-----------------------------------------------------------------------------
(* Dropping the top of the stack leaves the rest as it is.                 *)
LEMMA BelowFacts ==
  ASSUME NEW S, stack \in Seq(S), stack # << >>
  PROVE  /\ Len(stack) \in Nat \ {0} /\ DOMAIN stack = 1 .. Len(stack)
         /\ Len(stack) \in DOMAIN stack
         /\ Below \in Seq(S)
         /\ Len(Below) = Len(stack) - 1 /\ DOMAIN Below = 1 .. (Len(stack) - 1)
         /\ \A i \in 1 .. (Len(stack) - 1) : Below[i] = stack[i]
<1>1. Len(stack) \in Nat \ {0} /\ DOMAIN stack = 1 .. Len(stack) /\ Len(stack) \in DOMAIN stack
  OBVIOUS
<1>2. 1 \in Nat /\ Len(stack) - 1 \in Nat /\ Len(stack) - 1 <= Len(stack)
  BY <1>1
<1>3. /\ Below \in Seq(S) /\ Len(Below) = Len(stack) - 1
      /\ \A i \in 1 .. (Len(stack) - 1) : Below[i] = stack[i]
  BY <1>1, <1>2, SubSeqProperties DEF Below
<1>4. QED
  BY <1>1, <1>2, <1>3

(* Popping a neighbour changes what is left of the top, and nothing else.  *)
LEMMA AdvancedFacts ==
  ASSUME stack \in Seq(Entry), stack # << >>, NEW n
  PROVE  /\ Advanced(n) \in Seq(Entry)
         /\ Len(Advanced(n)) = Len(stack) /\ DOMAIN Advanced(n) = DOMAIN stack
         /\ \A i \in DOMAIN stack : Advanced(n)[i].node = stack[i].node
         /\ \A i \in DOMAIN stack :
              Advanced(n)[i].left = IF i = Len(stack) THEN Top.left \ {n} ELSE stack[i].left
<1> DEFINE new == [node |-> Top.node, left |-> Top.left \ {n}]
<1>1. Top \in Entry
  BY DEF Top
<1>2. new \in Entry /\ new.node = Top.node /\ new.left = Top.left \ {n}
  BY <1>1 DEF Entry
<1>3. /\ Advanced(n) \in Seq(Entry) /\ Len(Advanced(n)) = Len(stack)
      /\ Advanced(n)[Len(stack)] = new
      /\ \A i \in 1 .. (Len(stack) - 1) : Advanced(n)[i] = stack[i]
  <2> HIDE DEF new
  <2>1. Advanced(n) = Append(Below, new)
    BY DEF Advanced, new
  <2>2. QED
    BY <1>2, <2>1, BelowFacts
<1>4. DOMAIN Advanced(n) = DOMAIN stack /\ DOMAIN stack = 1 .. Len(stack) /\ Len(stack) \in Nat
  BY <1>3
<1>5. ASSUME NEW i \in DOMAIN stack
      PROVE  /\ Advanced(n)[i].node = stack[i].node
             /\ Advanced(n)[i].left = IF i = Len(stack) THEN Top.left \ {n} ELSE stack[i].left
  <2>1. CASE i = Len(stack)
    BY <1>2, <1>3, <2>1 DEF Top
  <2>2. CASE i # Len(stack)
    BY <1>3, <1>4, <2>2
  <2>3. QED
    BY <2>1, <2>2
<1>6. QED
  BY <1>3, <1>4, <1>5

(* The modules of a type-correct search.                                   *)
LEMMA SearchFacts ==
  ASSUME IInv
  PROVE  /\ stack \in Seq(Entry)
         /\ \A i \in DOMAIN stack : stack[i].node \in DOMAIN graph
         /\ \A n \in DOMAIN graph : n \in Name /\ n # NoModule
         /\ {n \in DOMAIN graph : color[n] = "gray"} = {stack[i].node : i \in DOMAIN stack}
BY NoModuleAssumption DEF IInv, TypeOK, GrayIsStack, Entry, IsGraph

LEMMA InitHolds == Init => IInv
<1> SUFFICES ASSUME Init PROVE IInv
  OBVIOUS
<1> USE DEF Init
<1>1. TypeOK
  BY GraphsAssumption DEF TypeOK
<1>2. GrayIsStack /\ BlackClosed /\ StackIsChain /\ Black = {}
  BY DEF GrayIsStack, BlackClosed, StackIsChain, Black
<1>3. NoBlackCore
  BY <1>2 DEF NoBlackCore, IsCore
<1>4. QED
  BY <1>1, <1>2, <1>3 DEF IInv, Explored, Fresh, White, WalkOnStack, Outcome, ReportIsCycle

(* A call starts afresh, whatever the search before it left behind.        *)
LEMMA CallEstablishesInv == IsGraph(graph) /\ Call => IInv'
<1> SUFFICES ASSUME IsGraph(graph), Call PROVE IInv'
  OBVIOUS
<1> USE DEF Call
<1>1. TypeOK'
  BY DEF TypeOK, IsGraph
<1>2. GrayIsStack' /\ BlackClosed' /\ StackIsChain' /\ Black' = {}
  BY DEF GrayIsStack, BlackClosed, StackIsChain, Black
<1>3. NoBlackCore'
  BY <1>2 DEF NoBlackCore, IsCore
<1>4. QED
  BY <1>1, <1>2, <1>3 DEF IInv, Explored, Fresh, White, WalkOnStack, Outcome, ReportIsCycle

LEMMA CallKeepsInv == IInv /\ Call => IInv'
BY CallEstablishesInv DEF IInv, TypeOK

LEMMA RootKeepsInv == ASSUME IInv, NEW n, Root(n) PROVE IInv'
<1> USE DEF Root
<1>1. n \in DOMAIN graph /\ color[n] = "white" /\ n \in Name
  BY SearchFacts DEF White, IsLeast
<1>2. /\ color \in [DOMAIN graph -> {"white", "gray", "black"}]
      /\ IsGraph(graph) /\ IsGraph(graph')
  BY DEF IInv, TypeOK, IsGraph
<1>3. Frame(n) \in Entry /\ Frame(n).node = n /\ Frame(n).left = DepSet(graph, n)
  BY <1>1, <1>2 DEF Frame, Entry, DepSet, IsGraph
<1>4. stack' \in Seq(Entry) /\ Len(stack') = 1 /\ stack'[1] = Frame(n) /\ DOMAIN stack' = {1}
  BY <1>3
<1>5. TypeOK'
  BY <1>1, <1>2, <1>4 DEF IInv, TypeOK, Entry
<1>6. Black' = Black
  BY <1>1, <1>2 DEF Black
<1>7. GrayIsStack'
  <2>1. {m \in DOMAIN graph : color[m] = "gray"} = {}
    BY DEF IInv, GrayIsStack
  <2>2. {m \in DOMAIN graph : color'[m] = "gray"} = {n}
    BY <1>1, <1>2, <2>1
  <2>3. parent[n] = NoModule
    BY <1>1 DEF IInv, Fresh, White
  <2>4. QED
    BY <1>3, <1>4, <2>2, <2>3 DEF GrayIsStack
<1>8. BlackClosed'
  BY <1>1, <1>2 DEF IInv, BlackClosed, Needs
<1>9. StackIsChain' /\ Explored'
  BY <1>3, <1>4 DEF StackIsChain, Explored, Needs
<1>10. NoBlackCore'
  BY <1>6 DEF IInv, NoBlackCore
<1>11. Fresh'
  BY <1>2 DEF IInv, Fresh, White
<1>12. QED
  BY <1>5, <1>6, <1>7, <1>8, <1>9, <1>10, <1>11 DEF IInv, WalkOnStack, Outcome, ReportIsCycle

LEMMA ExhaustedKeepsInv == IInv /\ Exhausted => IInv'
<1> SUFFICES ASSUME IInv, Exhausted PROVE IInv'
  OBVIOUS
<1> USE DEF Exhausted
<1>1. {n \in DOMAIN graph : color[n] = "gray"} = {}
  BY SearchFacts
<1>2. Black' = DOMAIN graph
  BY <1>1 DEF IInv, TypeOK, White, Black
<1>3. Black' = Black /\ White' = White
  BY DEF Black, White
<1>4. QED
  BY <1>2, <1>3
  DEF IInv, TypeOK, IsGraph, GrayIsStack, BlackClosed, StackIsChain, Explored, Fresh,
      NoBlackCore, WalkOnStack, Outcome, ReportIsCycle

(* The core of the argument: a core that lies within the finished modules  *)
(* and one more that needs only finished ones lies within the finished.    *)
LEMMA NoCoreByOneMore ==
  ASSUME IInv, NEW n \in (DOMAIN graph) \ Black, Needs(graph, n) \subseteq Black,
         NEW S, IsCore(graph, S)
  PROVE  ~(S \subseteq Black \cup {n})
<1> SUFFICES ASSUME S \subseteq Black \cup {n} PROVE FALSE
  OBVIOUS
<1>1. \A m \in Black : Needs(graph, m) \subseteq Black
  BY DEF IInv, BlackClosed, Black, Needs
<1>2. \A m \in S : Needs(graph, m) \cap (S \ {n}) # {}
  BY <1>1 DEF IsCore
<1>3. IsCore(graph, S \ {n})
  BY <1>2 DEF IsCore
<1>4. S \ {n} \subseteq Black
  OBVIOUS
<1>5. QED
  BY <1>3, <1>4 DEF IInv, NoBlackCore

LEMMA FinishKeepsInv == IInv /\ Finish => IInv'
<1> SUFFICES ASSUME IInv, Finish PROVE IInv'
  OBVIOUS
<1> USE DEF Finish
<1> DEFINE n == Top.node
           last == Len(stack)
<1>1. /\ stack \in Seq(Entry) /\ last \in Nat \ {0} /\ DOMAIN stack = 1 .. last
      /\ last \in DOMAIN stack /\ Top = stack[last]
      /\ stack' \in Seq(Entry) /\ Len(stack') = last - 1
      /\ DOMAIN stack' = 1 .. (last - 1)
      /\ \A i \in 1 .. (last - 1) : stack'[i] = stack[i]
  BY SearchFacts, BelowFacts DEF Top
<1>2. n \in DOMAIN graph /\ color[n] = "gray"
  BY <1>1, SearchFacts
<1>3. color \in [DOMAIN graph -> {"white", "gray", "black"}] /\ IsGraph(graph)
  BY DEF IInv, TypeOK
<1>4. Needs(graph, n) \subseteq Black
  BY <1>1, <1>2 DEF IInv, Explored
<1>5. Black' = Black \cup {n} /\ White' = White
  BY <1>2, <1>3 DEF Black, White
<1>6. TypeOK'
  BY <1>1, <1>2, <1>3 DEF IInv, TypeOK, Entry, IsGraph
<1>7. GrayIsStack'
  <2>1. \A i, j \in DOMAIN stack : stack[i].node = stack[j].node => i = j
    BY DEF IInv, GrayIsStack
  <2>2. {m \in DOMAIN graph : color'[m] = "gray"} = {stack[i].node : i \in DOMAIN stack} \ {n}
    BY <1>2, <1>3, SearchFacts
  <2>3. {stack'[i].node : i \in DOMAIN stack'} = {stack[i].node : i \in DOMAIN stack} \ {n}
    BY <1>1, <2>1
  <2>4. \A i, j \in DOMAIN stack' : stack'[i].node = stack'[j].node => i = j
    BY <1>1, <2>1, SMTT(30)
  <2>5. \A i \in DOMAIN stack' :
          parent'[stack'[i].node] = IF i = 1 THEN NoModule ELSE stack'[i - 1].node
    BY <1>1 DEF IInv, GrayIsStack
  <2>6. QED
    BY <2>2, <2>3, <2>4, <2>5 DEF GrayIsStack
<1>8. BlackClosed'
  BY <1>2, <1>3, <1>4, <1>5 DEF IInv, BlackClosed, Black, Needs
<1>9. StackIsChain'
  BY <1>1 DEF IInv, StackIsChain
<1>10. Explored'
  <2>1. ASSUME NEW i \in DOMAIN stack', NEW m \in Needs(graph, stack'[i].node) \ stack'[i].left
        PROVE  m \in Black' \/ (i < Len(stack') /\ m = stack'[i + 1].node)
    <3>1. m \in Black \/ (i < last /\ m = stack[i + 1].node)
      BY <1>1, <2>1 DEF IInv, Explored
    <3>2. CASE i = last - 1
      BY <1>1, <1>5, <3>1, <3>2
    <3>3. CASE i # last - 1
      BY <1>1, <1>5, <3>1, <3>3
    <3>4. QED
      BY <3>2, <3>3
  <2>2. QED
    BY <2>1 DEF Explored
<1>11. NoBlackCore'
  BY <1>2, <1>4, <1>5, NoCoreByOneMore DEF NoBlackCore, Black
<1>12. Fresh'
  BY <1>5 DEF IInv, Fresh
<1>13. QED
  BY <1>6, <1>7, <1>8, <1>9, <1>10, <1>11, <1>12
  DEF IInv, WalkOnStack, Outcome, ReportIsCycle

(* A step that only pops a neighbour of the top keeps all that is said of  *)
(* the stack and the marks, except which neighbours are explored.          *)
LEMMA PopKeepsMarks ==
  ASSUME IInv, NEW n, PopNeighbour(n), stack' = Advanced(n),
         UNCHANGED <<graph, color, parent>>
  PROVE  /\ stack' \in Seq(Entry) /\ IsGraph(graph')
         /\ Len(stack') = Len(stack) /\ DOMAIN stack' = DOMAIN stack
         /\ \A i \in DOMAIN stack : stack'[i].node = stack[i].node
         /\ GrayIsStack' /\ BlackClosed' /\ StackIsChain'
         /\ Fresh' /\ NoBlackCore'
         /\ Black' = Black
<1> USE DEF PopNeighbour
<1>1. stack \in Seq(Entry) /\ stack # << >> /\ IsGraph(graph)
  BY SearchFacts DEF IInv, TypeOK
<1>2. /\ stack' \in Seq(Entry) /\ Len(stack') = Len(stack) /\ DOMAIN stack' = DOMAIN stack
      /\ \A i \in DOMAIN stack : stack'[i].node = stack[i].node
      /\ \A i \in DOMAIN stack : stack'[i].left \subseteq stack[i].left
  BY <1>1, AdvancedFacts DEF Top
<1>3. Black' = Black /\ White' = White
  BY DEF Black, White
<1>4. \A i \in DOMAIN stack : i # 1 => i - 1 \in DOMAIN stack
  BY <1>1
<1>5. GrayIsStack'
  BY <1>2, <1>4 DEF IInv, GrayIsStack
<1>6. StackIsChain'
  <2>1. \A i \in DOMAIN stack : i < Len(stack) => i + 1 \in DOMAIN stack
    BY <1>1
  <2>2. QED
    BY <1>2, <2>1 DEF IInv, StackIsChain
<1>7. BlackClosed' /\ Fresh' /\ NoBlackCore' /\ IsGraph(graph')
  BY <1>1, <1>3 DEF IInv, BlackClosed, Fresh, NoBlackCore
<1>8. QED
  BY <1>2, <1>3, <1>5, <1>6, <1>7

LEMMA SkipKeepsInv == ASSUME IInv, NEW n, Skip(n) PROVE IInv'
<1> USE DEF Skip
<1>1. PopNeighbour(n) /\ phase = "search" /\ stack # << >>
  BY DEF PopNeighbour
<1>2. /\ stack' \in Seq(Entry) /\ IsGraph(graph')
      /\ Len(stack') = Len(stack) /\ DOMAIN stack' = DOMAIN stack
      /\ \A i \in DOMAIN stack : stack'[i].node = stack[i].node
      /\ GrayIsStack' /\ BlackClosed' /\ StackIsChain'
      /\ Fresh' /\ NoBlackCore'
      /\ Black' = Black
  BY <1>1, PopKeepsMarks
<1>3. TypeOK'
  BY <1>2 DEF IInv, TypeOK, Entry
<1>4. Explored'
  <2>1. ASSUME NEW i \in DOMAIN stack, NEW m \in Needs(graph, stack[i].node) \ stack'[i].left
        PROVE  m \in Black \/ (i < Len(stack) /\ m = stack[i + 1].node)
    <3>1. CASE m = n
      BY <2>1, <3>1 DEF Needs, Black
    <3>2. CASE m # n
      <4>1. m \notin stack[i].left
        BY <1>1, <2>1, <3>2, SearchFacts, AdvancedFacts DEF Top
      <4>2. QED
        BY <1>1, <2>1, <4>1 DEF IInv, Explored
    <3>3. QED
      BY <3>1, <3>2
  <2>2. \A i \in DOMAIN stack : i < Len(stack) => i + 1 \in DOMAIN stack
    BY SearchFacts
  <2>3. QED
    BY <1>2, <2>1, <2>2 DEF Explored
<1>5. QED
  BY <1>1, <1>2, <1>3, <1>4 DEF IInv, WalkOnStack, Outcome, ReportIsCycle

LEMMA DescendKeepsInv == ASSUME IInv, NEW n, Descend(n) PROVE IInv'
<1> USE DEF Descend
<1> DEFINE popped == Advanced(n)
           last == Len(stack)
<1>1. PopNeighbour(n) /\ phase = "search" /\ stack # << >> /\ n \in Top.left
  BY DEF PopNeighbour, IsLeast
<1>2. /\ stack \in Seq(Entry) /\ last \in Nat \ {0} /\ DOMAIN stack = 1 .. last
      /\ last \in DOMAIN stack /\ Top = stack[last]
  BY <1>1, SearchFacts, BelowFacts DEF Top
<1>up. \A i \in 1 .. last : i # last => i + 1 \in 1 .. last /\ i < last
  <2>1. last \in Nat
    BY <1>2
  <2> HIDE DEF last
  <2>2. QED
    BY <2>1
<1>3. /\ color \in [DOMAIN graph -> {"white", "gray", "black"}] /\ IsGraph(graph)
      /\ parent \in [DOMAIN graph -> DOMAIN graph \cup {NoModule}]
  BY DEF IInv, TypeOK
<1>4. n \in DOMAIN graph /\ color[n] = "white" /\ Frame(n) \in Entry
      /\ Frame(n).node = n /\ Frame(n).left = DepSet(graph, n)
  BY <1>3 DEF White, Frame, Entry, DepSet, IsGraph
<1>5. /\ popped \in Seq(Entry) /\ Len(popped) = last /\ DOMAIN popped = 1 .. last
      /\ \A i \in 1 .. last : popped[i].node = stack[i].node
      /\ \A i \in 1 .. last :
           popped[i].left = IF i = last THEN Top.left \ {n} ELSE stack[i].left
  BY <1>1, <1>2, AdvancedFacts
<1>6. /\ stack' \in Seq(Entry) /\ Len(stack') = last + 1 /\ DOMAIN stack' = 1 .. (last + 1)
      /\ stack'[last + 1] = Frame(n)
      /\ \A i \in 1 .. last : stack'[i] = popped[i]
  <2> HIDE DEF popped
  <2>1. stack' = Append(popped, Frame(n))
    BY DEF popped
  <2>2. Frame(n) \in Entry /\ popped \in Seq(Entry) /\ Len(popped) = last /\ last \in Nat
    BY <1>2, <1>4, <1>5
  <2>3. /\ stack' \in Seq(Entry) /\ Len(stack') = Len(popped) + 1
        /\ \A i \in 1 .. (Len(popped) + 1) :
             stack'[i] = IF i <= Len(popped) THEN popped[i] ELSE Frame(n)
    BY <2>1, <2>2, AppendProperties
  <2>4. QED
    BY <2>2, <2>3
<1>7. /\ \A i \in 1 .. last : stack'[i].node = stack[i].node
      /\ stack'[last + 1].node = n
      /\ \A i \in 1 .. last :
           stack'[i].left = IF i = last THEN Top.left \ {n} ELSE stack[i].left
  BY <1>4, <1>5, <1>6
<1> HIDE DEF popped
<1>8. Black' = Black /\ White' = White \ {n}
  BY <1>3, <1>4 DEF Black, White
<1>9. Top.node \in DOMAIN graph
  BY <1>2, SearchFacts
<1>10. TypeOK'
  BY <1>3, <1>4, <1>6, <1>9 DEF IInv, TypeOK, Entry, IsGraph
<1>11. GrayIsStack'
  <2>1. \A i, j \in 1 .. last : stack[i].node = stack[j].node => i = j
    BY <1>2 DEF IInv, GrayIsStack
  <2>2. \A i \in 1 .. last : stack[i].node # n
    BY <1>2, <1>4, SearchFacts
  <2>3. {m \in DOMAIN graph : color'[m] = "gray"} = {stack[i].node : i \in DOMAIN stack} \cup {n}
    BY <1>3, <1>4, SearchFacts
  <2>4. {stack'[i].node : i \in DOMAIN stack'} = {stack[i].node : i \in DOMAIN stack} \cup {n}
    <3>1. DOMAIN stack' = DOMAIN stack \cup {last + 1}
      BY <1>2, <1>6
    <3>2. /\ \A i \in DOMAIN stack : stack'[i].node = stack[i].node
          /\ stack'[last + 1].node = n
      BY <1>2, <1>7
    <3>3. \A i \in DOMAIN stack' : stack'[i].node \in {stack[k].node : k \in DOMAIN stack} \cup {n}
      BY <3>1, <3>2
    <3>4. \A i \in DOMAIN stack : stack[i].node \in {stack'[k].node : k \in DOMAIN stack'}
      BY <3>1, <3>2
    <3>5. n \in {stack'[k].node : k \in DOMAIN stack'}
      BY <3>1, <3>2
    <3>6. QED
      BY <3>3, <3>4, <3>5
  <2>5. \A i, j \in DOMAIN stack' : stack'[i].node = stack'[j].node => i = j
    <3>1. \A i \in DOMAIN stack' : i \in 1 .. last \/ i = last + 1
      BY <1>2, <1>6
    <3>2. QED
      BY <1>7, <2>1, <2>2, <3>1
  <2>6. ASSUME NEW i \in DOMAIN stack'
        PROVE  parent'[stack'[i].node] = IF i = 1 THEN NoModule ELSE stack'[i - 1].node
    <3>1. CASE i = last + 1
      <4>1. i # 1 /\ i - 1 = last
        BY <1>2, <3>1
      <4>2. parent'[n] = stack[last].node
        BY <1>2, <1>3, <1>4
      <4>3. stack'[i - 1].node = stack[last].node /\ stack'[i].node = n
        BY <1>2, <1>7, <3>1, <4>1
      <4>4. QED
        BY <4>1, <4>2, <4>3
    <3>2. CASE i # last + 1
      <4>1. i \in 1 .. last /\ (i # 1 => i - 1 \in 1 .. last)
        BY <1>2, <1>6, <3>2
      <4>2. parent[stack[i].node] = IF i = 1 THEN NoModule ELSE stack[i - 1].node
        BY <1>2, <4>1 DEF IInv, GrayIsStack
      <4>3. parent'[stack[i].node] = parent[stack[i].node]
        BY <1>3, <2>2, <4>1
      <4>4. QED
        BY <1>7, <4>1, <4>2, <4>3
    <3>3. QED
      BY <3>1, <3>2
  <2>7. QED
    BY <2>3, <2>4, <2>5, <2>6 DEF GrayIsStack
<1>12. BlackClosed'
  BY <1>3, <1>4, <1>8 DEF IInv, BlackClosed, Black, Needs
<1>13. n \in Needs(graph, Top.node)
  BY <1>1, <1>2, <1>4 DEF IInv, StackIsChain, Needs
<1>14. StackIsChain'
  <2>1. ASSUME NEW i \in 1 .. last
        PROVE  /\ stack'[i + 1].node \in Needs(graph, stack'[i].node)
               /\ stack'[i].left \subseteq DepSet(graph, stack'[i].node)
    <3>1. CASE i = last
      BY <1>2, <1>7, <1>13, <3>1 DEF IInv, StackIsChain
    <3>2. CASE i # last
      <4>1. i + 1 \in 1 .. last /\ i < last
        BY <1>up, <2>1, <3>2
      <4>2. QED
        BY <1>2, <1>7, <3>2, <4>1 DEF IInv, StackIsChain
    <3>3. QED
      BY <3>1, <3>2
  <2>2. stack'[last + 1].left \subseteq DepSet(graph, stack'[last + 1].node)
    BY <1>4, <1>6
  <2>3. \A i \in DOMAIN stack' : i \in 1 .. last \/ i = last + 1
    BY <1>2, <1>6
  <2>4. QED
    BY <1>2, <1>6, <2>1, <2>2, <2>3 DEF StackIsChain
<1>15. Explored'
  <2>1. ASSUME NEW i \in 1 .. last, NEW m \in Needs(graph, stack'[i].node) \ stack'[i].left
        PROVE  m \in Black \/ m = stack'[i + 1].node
    <3>1. CASE i = last
      <4>1. m = n \/ m \notin stack[i].left
        BY <1>2, <1>7, <2>1, <3>1
      <4>2. m \in Needs(graph, stack[last].node)
        BY <1>2, <1>7, <2>1, <3>1
      <4>3. m \notin stack[last].left => m \in Black
        BY <1>1, <1>2, <4>2 DEF IInv, Explored
      <4>4. QED
        BY <1>7, <3>1, <4>1, <4>3
    <3>2. CASE i # last
      <4>1. i + 1 \in 1 .. last /\ i < last
        BY <1>up, <2>1, <3>2
      <4>2. QED
        BY <1>1, <1>2, <1>7, <2>1, <3>2, <4>1 DEF IInv, Explored
    <3>3. QED
      BY <3>1, <3>2
  <2>2. Needs(graph, stack'[last + 1].node) \ stack'[last + 1].left = {}
    BY <1>4, <1>6 DEF Needs
  <2>3. \A i \in DOMAIN stack' : i \in 1 .. last \/ i = last + 1
    BY <1>2, <1>6
  <2>4. QED
    BY <1>2, <1>6, <1>8, <2>1, <2>2, <2>3 DEF Explored
<1>16. Fresh'
  BY <1>3, <1>8 DEF IInv, Fresh, White
<1>17. NoBlackCore'
  BY <1>8 DEF IInv, NoBlackCore
<1>18. QED
  BY <1>1, <1>10, <1>11, <1>12, <1>14, <1>15, <1>16, <1>17
  DEF IInv, WalkOnStack, Outcome, ReportIsCycle

(* A grey neighbour of the top and what is stacked above it are a core.    *)
LEMMA CloseFindsCore ==
  ASSUME IInv, stack # << >>, NEW k \in DOMAIN stack,
         stack[k].node \in Needs(graph, Top.node)
  PROVE  Cyclic(graph)
<1> DEFINE S == {stack[i].node : i \in k .. Len(stack)}
<1>1. /\ DOMAIN stack = 1 .. Len(stack) /\ Len(stack) \in Nat \ {0}
      /\ k \in 1 .. Len(stack) /\ Top = stack[Len(stack)]
  BY SearchFacts, BelowFacts DEF Top
<1>2. k .. Len(stack) \subseteq DOMAIN stack /\ k \in k .. Len(stack)
  BY <1>1
<1>3. S \subseteq DOMAIN graph /\ stack[k].node \in S
  BY <1>2, SearchFacts
<1>up. \A i \in k .. Len(stack) :
         i # Len(stack) => i + 1 \in k .. Len(stack) /\ i < Len(stack) /\ i \in 1 .. Len(stack)
  <2> DEFINE last == Len(stack)
  <2>1. last \in Nat /\ k \in 1 .. last
    BY <1>1
  <2> HIDE DEF last
  <2>2. \A i \in k .. last : i # last => i + 1 \in k .. last /\ i < last /\ i \in 1 .. last
    BY <2>1
  <2>3. QED
    BY <2>2 DEF last
<1>4. ASSUME NEW i \in k .. Len(stack)
      PROVE  Needs(graph, stack[i].node) \cap S # {}
  <2>1. CASE i = Len(stack)
    BY <1>1, <1>3, <2>1
  <2>2. CASE i # Len(stack)
    <3>1. i + 1 \in k .. Len(stack) /\ i < Len(stack) /\ i \in DOMAIN stack
      BY <1>1, <1>up, <1>4, <2>2
    <3>2. stack[i + 1].node \in Needs(graph, stack[i].node)
      BY <3>1 DEF IInv, StackIsChain
    <3>3. QED
      BY <3>1, <3>2
  <2>3. QED
    BY <2>1, <2>2
<1>5. IsCore(graph, S)
  BY <1>3, <1>4 DEF IsCore
<1>6. QED
  BY <1>3, <1>5 DEF Cyclic

LEMMA CloseKeepsInv == ASSUME IInv, NEW n, Close(n) PROVE IInv'
<1> USE DEF Close
<1> DEFINE last == Len(stack)
<1>1. PopNeighbour(n) /\ phase = "search" /\ stack # << >> /\ n \in Top.left
  BY DEF PopNeighbour, IsLeast
<1>2. /\ stack' \in Seq(Entry) /\ IsGraph(graph')
      /\ Len(stack') = last /\ DOMAIN stack' = DOMAIN stack
      /\ \A i \in DOMAIN stack : stack'[i].node = stack[i].node
      /\ GrayIsStack' /\ BlackClosed' /\ StackIsChain'
      /\ Fresh' /\ NoBlackCore'
      /\ Black' = Black
  BY <1>1, PopKeepsMarks
<1>3. /\ last \in Nat \ {0} /\ DOMAIN stack = 1 .. last
      /\ last \in DOMAIN stack /\ Top = stack[last]
      /\ Top.node \in DOMAIN graph
  BY <1>1, SearchFacts, BelowFacts DEF Top
<1>4. /\ path' = <<Top.node, n>> /\ path' \in Seq(DOMAIN graph) /\ Len(path') = 2
      /\ path'[1] = Top.node /\ path'[2] = n
  BY <1>3
<1>5. parent[Top.node] = IF last = 1 THEN NoModule ELSE stack[last - 1].node
  BY <1>3 DEF IInv, GrayIsStack
<1>6. TypeOK'
  BY <1>2, <1>3, <1>4 DEF IInv, TypeOK, Entry
<1>7. n \in Needs(graph, Top.node)
  BY <1>1, <1>3 DEF IInv, StackIsChain, Needs
<1>8. PICK k \in DOMAIN stack : n = stack[k].node
  BY SearchFacts
<1>9. Cyclic(graph')
  BY <1>1, <1>7, <1>8, CloseFindsCore
<1>10. WalkOnStack'
  <2>1. Target' = n /\ stack' # << >> /\ Top'.node = Top.node
    BY <1>2, <1>3, <1>4 DEF Target, Top
  <2>2. Walked(last)'
    <3>1. last - last + 2 = 2 /\ last - last + 1 = 1
      BY <1>3
    <3>2. \A i \in 1 .. 1 : i = 1 /\ last + i - 1 = last
      BY <1>3
    <3>3. last # 1 => last - 1 \in DOMAIN stack
      BY <1>3
    <3>4. Len(path') = Len(stack') - last + 2
      BY <1>2, <1>4, <3>1
    <3>5. \A i \in 1 .. (Len(stack') - last + 1) : path'[i] = stack'[last + i - 1].node
      BY <1>2, <1>3, <1>4, <3>1, <3>2
    <3>6. cursor' = IF last = 1 THEN NoModule ELSE stack'[last - 1].node
      BY <1>2, <1>5, <3>3
    <3>7. QED
      BY <3>4, <3>5, <3>6 DEF Walked
  <2>3. TargetBelow(last)'
    <3>1. k = last \/ k \in 1 .. (last - 1)
      BY <1>3, <1>8
    <3>2. QED
      BY <1>2, <1>3, <1>8, <2>1, <3>1 DEF TargetBelow
  <2>4. Target' \in Needs(graph', Top'.node)
    BY <1>7, <2>1
  <2>5. QED
    BY <1>2, <1>3, <2>1, <2>2, <2>3, <2>4 DEF WalkOnStack
<1>11. QED
  BY <1>2, <1>6, <1>9, <1>10 DEF IInv, Explored, Outcome, ReportIsCycle

(* Putting an element in front shifts the others by one.                   *)
LEMMA PrependFacts ==
  ASSUME NEW S, NEW s \in Seq(S), NEW x \in S
  PROVE  /\ <<x>> \o s \in Seq(S)
         /\ Len(<<x>> \o s) = Len(s) + 1
         /\ (<<x>> \o s)[1] = x
         /\ \A i \in 1 .. Len(s) : (<<x>> \o s)[i + 1] = s[i]
<1>1. <<x>> \in Seq(S) /\ Len(<<x>>) = 1 /\ <<x>>[1] = x
  OBVIOUS
<1>2. Len(s) \in Nat
  OBVIOUS
<1>3. \A i \in 1 .. Len(s) : i + 1 \in (1 + 1) .. (1 + Len(s)) /\ (i + 1) - 1 = i
  BY <1>2
<1>4. QED
  BY <1>1, <1>2, <1>3, ConcatProperties

(* What the walk knows of a type-correct search.                           *)
LEMMA WalkFacts ==
  ASSUME IInv, phase = "walk"
  PROVE  /\ stack \in Seq(Entry) /\ stack # << >>
         /\ Len(stack) \in Nat \ {0} /\ DOMAIN stack = 1 .. Len(stack)
         /\ Top = stack[Len(stack)]
         /\ Target \in Needs(graph, Top.node)
         /\ path \in Seq(DOMAIN graph) /\ Len(path) \in Nat
         /\ Target \in DOMAIN graph
BY SearchFacts, BelowFacts DEF IInv, TypeOK, WalkOnStack, Top, Needs

LEMMA WalkUpKeepsInv == IInv /\ WalkUp => IInv'
<1> SUFFICES ASSUME IInv, WalkUp PROVE IInv'
  OBVIOUS
<1> USE DEF WalkUp
<1> DEFINE last == Len(stack)
<1>1. PICK j \in DOMAIN stack : Walked(j) /\ TargetBelow(j)
  BY DEF IInv, WalkOnStack
<1>2. /\ cursor \in DOMAIN graph
      /\ parent \in [DOMAIN graph -> DOMAIN graph \cup {NoModule}]
  BY DEF IInv, TypeOK
<1>3. last \in Nat \ {0} /\ DOMAIN stack = 1 .. last /\ path \in Seq(DOMAIN graph)
  BY WalkFacts
<1>4. /\ j # 1 /\ cursor = stack[j - 1].node
      /\ Len(path) = last - j + 2
      /\ \A i \in 1 .. (last - j + 1) : path[i] = stack[j + i - 1].node
  BY <1>1 DEF Walked
<1>5. j \in 1 .. last /\ j - 1 \in 1 .. last /\ last - (j - 1) + 1 = last - j + 2
  BY <1>3, <1>4
<1>6. /\ path' \in Seq(DOMAIN graph) /\ Len(path') = Len(path) + 1
      /\ path'[1] = cursor
      /\ \A i \in 1 .. Len(path) : path'[i + 1] = path[i]
  BY <1>2, <1>3, PrependFacts
<1>7. TypeOK'
  BY <1>2, <1>6 DEF IInv, TypeOK, IsGraph
<1>8. Target' = Target
  BY <1>3, <1>4, <1>5, <1>6 DEF Target
<1>9. Walked(j - 1)'
  <2>1. Len(path') = last - (j - 1) + 2
    BY <1>3, <1>4, <1>5, <1>6
  <2>2. ASSUME NEW i \in 1 .. (last - (j - 1) + 1)
        PROVE  path'[i] = stack[(j - 1) + i - 1].node
    <3>1. CASE i = 1
      BY <1>4, <1>5, <1>6, <3>1
    <3>2. CASE i # 1
      <4>1. /\ i - 1 \in 1 .. (last - j + 1) /\ (i - 1) + 1 = i
            /\ i - 1 \in 1 .. (last - j + 2)
            /\ j + (i - 1) - 1 = (j - 1) + i - 1
        <5>1. last \in Nat /\ j \in 1 .. last /\ i \in 1 .. (last - (j - 1) + 1) /\ i # 1
          BY <1>3, <1>5, <2>2, <3>2
        <5> HIDE DEF last
        <5>2. QED
          BY <5>1
      <4>2. path'[i] = path[i - 1]
        BY <1>4, <1>6, <4>1
      <4>3. path[i - 1] = stack[j + (i - 1) - 1].node
        BY <1>4, <4>1
      <4>4. QED
        BY <4>1, <4>2, <4>3
    <3>3. QED
      BY <3>1, <3>2
  <2>3. cursor' = IF j - 1 = 1 THEN NoModule ELSE stack[(j - 1) - 1].node
    BY <1>3, <1>4, <1>5 DEF IInv, GrayIsStack
  <2>4. QED
    BY <2>1, <2>2, <2>3 DEF Walked
<1>10. TargetBelow(j - 1)'
  <2>1. CASE Target = Top.node
    BY <1>8, <2>1 DEF TargetBelow, Top
  <2>2. ASSUME NEW k \in 1 .. (j - 1), Target = stack[k].node
        PROVE  k \in 1 .. ((j - 1) - 1)
    <3>1. k # j - 1
      BY <1>4, <2>2
    <3>2. QED
      BY <1>3, <1>5, <2>2, <3>1
  <2>3. QED
    BY <1>1, <1>8, <2>1, <2>2 DEF TargetBelow
<1>11. WalkOnStack'
  BY <1>3, <1>5, <1>8, <1>9, <1>10, WalkFacts DEF WalkOnStack, Top
<1>12. Black' = Black /\ White' = White
  BY DEF Black, White
<1>13. QED
  BY <1>7, <1>11, <1>12
  DEF IInv, GrayIsStack, BlackClosed, StackIsChain, Explored, Fresh, NoBlackCore,
      Outcome, ReportIsCycle

(* The finished walk has copied a piece of the stack whose two ends the    *)
(* target joins.                                                           *)
LEMMA ReturnFindsCycle == IInv /\ ReturnCycle => ReportIsCycle'
<1> SUFFICES ASSUME IInv, ReturnCycle PROVE ReportIsCycle'
  OBVIOUS
<1> USE DEF ReturnCycle
<1> DEFINE last == Len(stack)
           long == Len(path)
<1>1. PICK j \in DOMAIN stack : Walked(j) /\ TargetBelow(j)
  BY DEF IInv, WalkOnStack
<1>2. /\ last \in Nat \ {0} /\ j \in 1 .. last /\ DOMAIN stack = 1 .. last
      /\ Top = stack[last]
      /\ long = last - j + 2
      /\ \A i \in 1 .. (last - j + 1) : path[i] = stack[j + i - 1].node
      /\ cursor = IF j = 1 THEN NoModule ELSE stack[j - 1].node
  BY <1>1, WalkFacts DEF Walked
<1>3. /\ path' \in Seq(DOMAIN graph) /\ Len(path') = long + 1
      /\ path'[1] = Target
      /\ \A i \in 1 .. long : path'[i + 1] = path[i]
  BY WalkFacts, PrependFacts
<1>4. /\ long \in Nat /\ long \in 1 .. long /\ long - 1 \in 1 .. long
      /\ long - 1 = last - j + 1 /\ (long - 1) + 1 = long /\ j + (long - 1) - 1 = last
      /\ Len(path') - 1 = long /\ long - 1 \in 1 .. (last - j + 1)
  <2>1. last \in Nat \ {0} /\ j \in 1 .. last /\ long = last - j + 2 /\ Len(path') = long + 1
    BY <1>2, <1>3
  <2> HIDE DEF last, long
  <2>2. QED
    BY <2>1
<1>5. path'[long] = Top.node /\ path'[long + 1] = Target /\ Target' = Target
  <2>1. path'[long] = path[long - 1]
    BY <1>3, <1>4
  <2>2. path[long - 1] = stack[last].node
    BY <1>2, <1>4
  <2>3. path'[long + 1] = path[long]
    BY <1>3, <1>4
  <2>4. QED
    BY <1>2, <1>3, <2>1, <2>2, <2>3 DEF Target
<1>6. Edge(Len(path) - 1)'
  BY <1>3, <1>4, <1>5, WalkFacts DEF Edge
<1>7. ASSUME Top.node # Target
      PROVE  /\ \A i \in 1 .. (Len(path') - 1) : Edge(i)'
             /\ \A i, k \in 1 .. (Len(path') - 1) : path'[i] = path'[k] => i = k
  <2>1. j # 1 /\ Target = stack[j - 1].node
    <3>1. j # 1
      BY <1>1, <1>2, <1>7 DEF TargetBelow
    <3>2. j - 1 \in DOMAIN stack
      BY <1>2, <3>1
    <3>3. cursor # NoModule
      BY <1>2, <3>1, <3>2, SearchFacts
    <3>4. QED
      BY <1>2, <3>1, <3>3
  <2>2. ASSUME NEW i \in 1 .. long
        PROVE  i + (j - 2) \in DOMAIN stack /\ path'[i] = stack[i + (j - 2)].node
    <3>1. i + (j - 2) \in 1 .. last /\ 1 + (j - 2) = j - 1
      <4>1. last \in Nat /\ j \in 1 .. last /\ j # 1 /\ i \in 1 .. long /\ long = last - j + 2
        BY <1>2, <2>1, <2>2
      <4> HIDE DEF last, long
      <4>2. QED
        BY <4>1
    <3>2. CASE i = 1
      BY <1>2, <1>3, <2>1, <3>1, <3>2
    <3>3. CASE i # 1
      <4>1. /\ i - 1 \in 1 .. (last - j + 1) /\ i - 1 \in 1 .. long
            /\ (i - 1) + 1 = i /\ j + (i - 1) - 1 = i + (j - 2)
        <5>1. last \in Nat /\ j \in 1 .. last /\ i \in 1 .. long /\ i # 1 /\ long = last - j + 2
          BY <1>2, <2>2, <3>3
        <5> HIDE DEF last, long
        <5>2. QED
          BY <5>1
      <4>2. path'[i] = path[i - 1]
        BY <1>3, <4>1
      <4>3. path[i - 1] = stack[j + (i - 1) - 1].node
        BY <1>2, <4>1
      <4>4. QED
        BY <1>2, <3>1, <4>1, <4>2, <4>3
    <3>4. QED
      BY <3>2, <3>3
  <2>3. ASSUME NEW i \in 1 .. long
        PROVE  Edge(i)'
    <3>1. CASE i = long
      BY <1>5, <3>1, WalkFacts DEF Edge
    <3>2. CASE i # long
      <4>1. /\ i + 1 \in 1 .. long /\ (i + 1) + (j - 2) = (i + (j - 2)) + 1
            /\ i + (j - 2) < last
        <5>1. last \in Nat /\ j \in 1 .. last /\ i \in 1 .. long /\ i # long /\ long = last - j + 2
          BY <1>2, <2>3, <3>2
        <5> HIDE DEF last, long
        <5>2. QED
          BY <5>1
      <4>2. path'[i] = stack[i + (j - 2)].node /\ i + (j - 2) \in DOMAIN stack
        BY <2>2, <2>3
      <4>3. path'[i + 1] = stack[(i + (j - 2)) + 1].node
        BY <2>2, <4>1
      <4>4. QED
        BY <4>1, <4>2, <4>3 DEF IInv, StackIsChain, Edge
    <3>3. QED
      BY <3>1, <3>2
  <2>4. ASSUME NEW i \in 1 .. long, NEW k \in 1 .. long, path'[i] = path'[k]
        PROVE  i = k
    <3>1. /\ path'[i] = stack[i + (j - 2)].node /\ i + (j - 2) \in DOMAIN stack
          /\ path'[k] = stack[k + (j - 2)].node /\ k + (j - 2) \in DOMAIN stack
      BY <2>2, <2>4
    <3>2. \A a, b \in DOMAIN stack : stack[a].node = stack[b].node => a = b
      BY DEF IInv, GrayIsStack
    <3>3. i + (j - 2) = k + (j - 2)
      BY <2>4, <3>1, <3>2
    <3>4. QED
      BY <1>2, <2>4, <3>3
  <2>5. QED
    BY <1>4, <2>3, <2>4
<1>8. QED
  BY <1>3, <1>4, <1>5, <1>6, <1>7 DEF ReportIsCycle

LEMMA ReturnKeepsInv == IInv /\ ReturnCycle => IInv'
<1> SUFFICES ASSUME IInv, ReturnCycle PROVE IInv'
  OBVIOUS
<1>1. ReportIsCycle'
  BY ReturnFindsCycle
<1> USE DEF ReturnCycle
<1>2. path' \in Seq(DOMAIN graph)
  BY WalkFacts, PrependFacts
<1>3. TypeOK'
  BY <1>2 DEF IInv, TypeOK, IsGraph
<1>4. Black' = Black /\ White' = White
  BY DEF Black, White
<1>5. QED
  BY <1>1, <1>3, <1>4
  DEF IInv, GrayIsStack, BlackClosed, StackIsChain, Explored, Fresh, NoBlackCore,
      WalkOnStack, Outcome

LEMMA StutterKeepsInv == IInv /\ UNCHANGED vars => IInv'
<1> SUFFICES ASSUME IInv, UNCHANGED vars PROVE IInv'
  OBVIOUS
<1> USE DEF vars
<1>1. Black' = Black /\ White' = White /\ Target' = Target /\ Top' = Top
  BY DEF Black, White, Target, Top
<1>2. TypeOK' /\ GrayIsStack' /\ BlackClosed' /\ StackIsChain' /\ Explored' /\ Fresh'
  BY <1>1 DEF IInv, TypeOK, IsGraph, GrayIsStack, BlackClosed, StackIsChain, Explored, Fresh
<1>3. NoBlackCore' /\ WalkOnStack' /\ Outcome' /\ ReportIsCycle'
  BY <1>1 DEF IInv, NoBlackCore, WalkOnStack, Walked, TargetBelow, Outcome, ReportIsCycle, Edge
<1>4. QED
  BY <1>2, <1>3 DEF IInv

(* The inductive invariant of the search.                                  *)
THEOREM Invariance == Spec => []IInv
<1>1. IInv /\ [Next]_vars => IInv'
  BY CallKeepsInv, RootKeepsInv, ExhaustedKeepsInv, FinishKeepsInv, SkipKeepsInv,
     DescendKeepsInv, CloseKeepsInv, WalkUpKeepsInv, ReturnKeepsInv, StutterKeepsInv
  DEF Next
<1>2. QED
  BY <1>1, InitHolds, PTL DEF Spec

-----------------------------------------------------------------------------
(* The state keeps the shape the code's annotations give it: no lookup in  *)
(* color or parent raises, whatever the lists of the modules name.         *)
THEOREM TypeCorrect == Spec => []TypeOK
<1>1. IInv => TypeOK
  BY DEF IInv
<1>2. QED
  BY <1>1, Invariance, PTL

(* The three colours agree with the stack, the parents and the graph.      *)
THEOREM MarksHold == Spec => []MarksAreRight
<1>1. IInv => MarksAreRight
  BY DEF IInv, MarksAreRight
<1>2. QED
  BY <1>1, Invariance, PTL

LEMMA VerdictFromInv == IInv => VerdictIsRight
BY DEF IInv, VerdictIsRight, Outcome, NoBlackCore, Cyclic

(* _find_cycle answers None only for an acyclic project, and a path only   *)
(* for a cyclic one.                                                       *)
THEOREM VerdictHolds == Spec => []VerdictIsRight
BY VerdictFromInv, Invariance, PTL

(* The path _find_cycle returns is a simple cycle of dependencies, or ends *)
(* in a module that depends on itself.                                     *)
THEOREM ReportHolds == Spec => []ReportIsCycle
<1>1. IInv => ReportIsCycle
  BY DEF IInv
<1>2. QED
  BY <1>1, Invariance, PTL
=============================================================================
