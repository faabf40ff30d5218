--------------------------- MODULE KahnSortProofs ---------------------------
(***************************************************************************)
(* Proofs about Project.topological_order for every project.               *)
(***************************************************************************)
EXTENDS KahnSort, DataProofs, FiniteSetTheorems, FunctionTheorems, TLAPS

(* The entries of n's list that resolve to a module not yet ordered.       *)
Undone(n) == {i \in DOMAIN graph[n] : graph[n][i] \in (DOMAIN graph) \ Ordered}

Bookkeeping ==
  /\ \A n \in DOMAIN graph : inDegree[n] >= Cardinality(Undone(n))
  /\ \A n \in DOMAIN graph : inDegree[n] = 0 <=> n \in queue \cup Ordered

ExactCount ==
  \A n \in DOMAIN graph :
    RepeatsNothing(graph, n) => inDegree[n] = Cardinality(Undone(n))

OrderedOnce ==
  /\ queue \cap Ordered = {}
  /\ \A i, j \in DOMAIN order : order[i] = order[j] => i = j

NoCoreOrdered == \A S : IsCore(graph, S) => S \cap Ordered = {}

FinalAnswer == verdict \in {"none", "ordered"} => queue = {} /\ verdict = Answer

IInv ==
  /\ TypeOK
  /\ verdict = "idle" => order = << >>
  /\ verdict # "idle" => Bookkeeping /\ ExactCount /\ OrderedOnce
  /\ DependencyFirst
  /\ NoCoreOrdered
  /\ FinalAnswer

-----------------------------------------------------------------------------
(* An injective sequence over a finite set lists all of it exactly when it *)
(* is as long as the set is large: the length test that ends               *)
(* topological_order tells whether every module was ordered.               *)
LEMMA FullLength ==
  ASSUME NEW D, IsFiniteSet(D), NEW s \in Seq(D),
         \A i, j \in DOMAIN s : s[i] = s[j] => i = j
  PROVE  Len(s) = Cardinality(D) <=> {s[i] : i \in DOMAIN s} = D
<1> DEFINE R == {s[i] : i \in DOMAIN s}
<1>1. Len(s) \in Nat /\ DOMAIN s = 1 .. Len(s)
  OBVIOUS
<1>2. [i \in 1 .. Len(s) |-> s[i]] \in Bijection(1 .. Len(s), R)
  BY <1>1 DEF Bijection, Injection, Surjection, IsInjective
<1>3. Cardinality(R) = Len(s)
  BY <1>1, <1>2, FS_CountingElements DEF ExistsBijection
<1>4. R \in SUBSET D
  BY <1>1
<1>5. QED
  BY <1>3, <1>4, FS_Subset

(* The unresolved entries of a module's list are finitely many.            *)
LEMMA UndoneFinite ==
  ASSUME IsGraph(graph), NEW n \in DOMAIN graph
  PROVE  /\ IsFiniteSet(Undone(n))
         /\ Cardinality(Undone(n)) \in Nat
         /\ Cardinality(Undone(n)) = 0 <=> Undone(n) = {}
<1>1. graph[n] \in Seq(Name)
  BY DEF IsGraph
<1>2. IsFiniteSet(1 .. Len(graph[n]))
  BY <1>1, FS_Interval
<1>3. Undone(n) \in SUBSET (1 .. Len(graph[n]))
  BY <1>1 DEF Undone
<1>4. IsFiniteSet(Undone(n))
  BY <1>2, <1>3, FS_Subset
<1>5. QED
  BY <1>4, FS_EmptySet, FS_CardinalityType

LEMMA InitHolds == Init => IInv
<1> SUFFICES ASSUME Init PROVE IInv
  OBVIOUS
<1>1. TypeOK
  BY GraphsAssumption DEF Init, TypeOK
<1>2. QED
  BY <1>1 DEF Init, IInv, DependencyFirst, NoCoreOrdered, FinalAnswer, Ordered

(* A call starts from nothing but the graph.                               *)
LEMMA CallEstablishesInv == IsGraph(graph) /\ Call => IInv'
<1> SUFFICES ASSUME IsGraph(graph), Call PROVE IInv'
  OBVIOUS
<1> USE DEF Call
<1>1. Ordered' = {} /\ graph' = graph /\ IsGraph(graph)'
  BY DEF Ordered, IsGraph
<1>2. ASSUME NEW n \in DOMAIN graph
      PROVE  /\ InitialDegree(graph, n) = Cardinality(Undone(n)')
             /\ InitialDegree(graph, n) \in Nat
             /\ Cardinality(Undone(n)') = 0 <=> Undone(n)' = {}
  <2>1. Undone(n)' = {i \in DOMAIN graph[n] : graph[n][i] \in DOMAIN graph}
    BY <1>1 DEF Undone
  <2>2. IsFiniteSet(DOMAIN graph[n])
    BY FS_Interval DEF IsGraph
  <2>3. IsFiniteSet(Undone(n)')
    BY <2>1, <2>2, FS_Subset
  <2>4. QED
    BY <2>1, <2>3, FS_CardinalityType, FS_EmptySet DEF InitialDegree
<1>3. TypeOK'
  BY <1>1, <1>2 DEF TypeOK
<1>4. Bookkeeping' /\ ExactCount'
  BY <1>1, <1>2 DEF Bookkeeping, ExactCount
<1>5. QED
  BY <1>1, <1>3, <1>4
  DEF IInv, OrderedOnce, DependencyFirst, NoCoreOrdered, FinalAnswer

LEMMA CallKeepsInv == IInv /\ Call => IInv'
BY CallEstablishesInv DEF IInv, TypeOK

(* What one iteration does to the two bookkeeping sets.                    *)
LEMMA PopStep ==
  ASSUME IInv, NEW p \in queue, Pop(p)
  PROVE  /\ graph' = graph /\ verdict = "running" /\ verdict' = "running"
         /\ Ordered' = Ordered \cup {p}
         /\ p \in DOMAIN graph /\ p \notin Ordered
         /\ Len(order') = Len(order) + 1
         /\ order' \in Seq(DOMAIN graph)
         /\ \A i \in DOMAIN order : order'[i] = order[i]
         /\ order'[Len(order) + 1] = p
         /\ \A m \in DOMAIN graph : Undone(m)' = {i \in Undone(m) : graph[m][i] # p}
<1> USE DEF Pop
<1>1. graph' = graph /\ verdict = "running" /\ verdict' = "running"
  OBVIOUS
<1>2. order \in Seq(DOMAIN graph) /\ p \in DOMAIN graph /\ p \notin Ordered
  BY <1>1 DEF IInv, TypeOK, OrderedOnce
<1>3. /\ Len(order') = Len(order) + 1
      /\ order' \in Seq(DOMAIN graph)
      /\ \A i \in DOMAIN order : order'[i] = order[i]
      /\ order'[Len(order) + 1] = p
  BY <1>2
<1>4. Ordered' = Ordered \cup {p}
  <2>1. DOMAIN order' = DOMAIN order \cup {Len(order) + 1}
    BY <1>2, <1>3
  <2>2. QED
    BY <2>1, <1>3 DEF Ordered
<1>5. \A m \in DOMAIN graph : Undone(m)' = {i \in Undone(m) : graph[m][i] # p}
  BY <1>1, <1>4 DEF Undone
<1>6. QED
  BY <1>1, <1>2, <1>3, <1>4, <1>5

(* An iteration takes at least one entry off the unresolved entries of     *)
(* each consumer, exactly one if its list repeats nothing, and none off    *)
(* those of any other module.                                              *)
LEMMA PopCounts ==
  ASSUME IInv, NEW p \in queue, Pop(p), NEW m \in DOMAIN graph
  PROVE  /\ Cardinality(Undone(m)) \in Nat /\ Cardinality(Undone(m)') \in Nat
         /\ m \in Consumers(p) => Cardinality(Undone(m)') <= Cardinality(Undone(m)) - 1
         /\ m \in Consumers(p) /\ RepeatsNothing(graph, m)
              => Cardinality(Undone(m)') = Cardinality(Undone(m)) - 1
         /\ m \notin Consumers(p) => Undone(m)' = Undone(m)
<1>1. IsGraph(graph)
  BY DEF IInv, TypeOK
<1>2. IsFiniteSet(Undone(m)) /\ Cardinality(Undone(m)) \in Nat
  BY <1>1, UndoneFinite
<1>3. Undone(m)' = {i \in Undone(m) : graph[m][i] # p}
  BY PopStep
<1>4. Cardinality(Undone(m)') \in Nat /\ IsFiniteSet(Undone(m)')
  BY <1>2, <1>3, FS_Subset, FS_CardinalityType
<1>5. m \notin Consumers(p) => Undone(m)' = Undone(m)
  BY <1>3, PopStep DEF Consumers, DepSet, Undone
<1>6. ASSUME m \in Consumers(p)
      PROVE  /\ Cardinality(Undone(m)') <= Cardinality(Undone(m)) - 1
             /\ RepeatsNothing(graph, m)
                  => Cardinality(Undone(m)') = Cardinality(Undone(m)) - 1
  <2>1. PICK e \in DOMAIN graph[m] : graph[m][e] = p
    BY <1>6 DEF Consumers, DepSet
  <2>2. e \in Undone(m)
    BY <2>1, PopStep DEF Undone
  <2>3. /\ IsFiniteSet(Undone(m) \ {e})
        /\ Cardinality(Undone(m) \ {e}) = Cardinality(Undone(m)) - 1
    BY <1>2, <2>2, FS_RemoveElement
  <2>4. Undone(m)' \in SUBSET (Undone(m) \ {e})
    BY <1>3, <2>1
  <2>5. Cardinality(Undone(m)') <= Cardinality(Undone(m) \ {e})
    BY <2>3, <2>4, FS_Subset
  <2>6. RepeatsNothing(graph, m) => Undone(m)' = Undone(m) \ {e}
    BY <1>3, <2>1, <2>2 DEF RepeatsNothing, Undone
  <2>7. QED
    BY <2>3, <2>5, <2>6
<1>7. QED
  BY <1>2, <1>4, <1>5, <1>6

(* The modules an iteration releases wait for nothing else and were        *)
(* neither queued nor ordered.                                             *)
LEMMA ReleasedAreNew ==
  ASSUME IInv, NEW p \in queue, Pop(p)
  PROVE  Released(p) \cap (queue \cup Ordered) = {}
<1>1. \A n \in DOMAIN graph : n \in queue \cup Ordered => inDegree[n] = 0
  BY PopStep DEF IInv, Bookkeeping
<1>2. QED
  BY <1>1 DEF Released, Consumers

LEMMA PopKeepsInv == ASSUME IInv, NEW p \in queue, Pop(p) PROVE IInv'
<1> USE DEF Pop
<1>1. inDegree \in [DOMAIN graph -> Int] /\ queue \subseteq DOMAIN graph
  BY DEF IInv, TypeOK
<1>2. TypeOK'
  BY <1>1, PopStep DEF IInv, TypeOK, Released, Consumers, IsGraph
<1>3. Bookkeeping'
  <2>1. ASSUME NEW n \in DOMAIN graph
        PROVE  inDegree'[n] >= Cardinality(Undone(n)')
    BY <1>1, <2>1, PopStep, PopCounts DEF IInv, Bookkeeping
  <2>2. ASSUME NEW n \in DOMAIN graph
        PROVE  inDegree'[n] = 0 <=> n \in queue' \cup Ordered'
    <3>1. inDegree[n] = 0 <=> n \in queue \cup Ordered
      BY PopStep DEF IInv, Bookkeeping
    <3>2. n \in queue' \cup Ordered' <=> n \in queue \cup Ordered \cup Released(p)
      BY PopStep
    <3>3. CASE n \in Consumers(p)
      <4>1. inDegree[n] # 0
        <5>1. inDegree[n] >= Cardinality(Undone(n))
          BY PopStep DEF IInv, Bookkeeping
        <5>2. Cardinality(Undone(n)) >= 1
          BY <3>3, PopCounts
        <5>3. QED
          BY <1>1, <5>1, <5>2, PopCounts
      <4>2. inDegree'[n] = 0 <=> n \in Released(p)
        BY <3>3 DEF Released
      <4>3. QED
        BY <3>1, <3>2, <4>1, <4>2
    <3>4. CASE n \notin Consumers(p)
      BY <3>1, <3>2, <3>4 DEF Released
    <3>5. QED
      BY <3>3, <3>4
  <2>3. QED
    BY <2>1, <2>2, PopStep DEF Bookkeeping
<1>4. ExactCount'
  <2>1. ASSUME NEW n \in DOMAIN graph, RepeatsNothing(graph, n)
        PROVE  inDegree'[n] = Cardinality(Undone(n)')
    <3>1. inDegree[n] = Cardinality(Undone(n))
      BY <2>1, PopStep DEF IInv, ExactCount
    <3>2. QED
      BY <2>1, <3>1, PopCounts
  <2>2. \A n \in DOMAIN graph : RepeatsNothing(graph, n)' => RepeatsNothing(graph, n)
    BY PopStep DEF RepeatsNothing
  <2>3. QED
    BY <2>1, <2>2, PopStep DEF ExactCount
<1>5. OrderedOnce'
  <2>1. queue \cap Ordered = {} /\ \A i, j \in DOMAIN order : order[i] = order[j] => i = j
    BY PopStep DEF IInv, OrderedOnce
  <2>2. queue' \cap Ordered' = {}
    <3>1. p \notin Released(p)
      BY ReleasedAreNew
    <3>2. QED
      BY <2>1, <3>1, PopStep, ReleasedAreNew
  <2>3. \A i, j \in DOMAIN order' : order'[i] = order'[j] => i = j
    <3>1. DOMAIN order' = DOMAIN order \cup {Len(order) + 1}
      BY PopStep
    <3>2. \A i \in DOMAIN order : order'[i] # p
      BY PopStep DEF Ordered
    <3>3. QED
      BY <2>1, <3>1, <3>2, PopStep
  <2>4. QED
    BY <2>2, <2>3 DEF OrderedOnce
<1>6. Needs(graph, p) \subseteq Ordered
  <2>1. inDegree[p] = 0 /\ inDegree[p] >= Cardinality(Undone(p))
    BY PopStep DEF IInv, Bookkeeping
  <2>2. Undone(p) = {}
    BY <2>1, PopStep, UndoneFinite DEF IInv, TypeOK
  <2>3. QED
    BY <2>2 DEF Undone, Needs, DepSet
<1>7. DependencyFirst'
  <2>1. ASSUME NEW i \in DOMAIN order'
        PROVE  Needs(graph, order'[i]) \subseteq {order'[j] : j \in 1 .. (i - 1)}
    <3>1. order \in Seq(DOMAIN graph) /\ order' \in Seq(DOMAIN graph)
      BY PopStep DEF IInv, TypeOK
    <3>2. CASE i \in DOMAIN order
      <4>1. Needs(graph, order[i]) \subseteq {order[j] : j \in 1 .. (i - 1)}
        BY <3>2 DEF IInv, DependencyFirst
      <4>2. 1 .. (i - 1) \subseteq DOMAIN order
        BY <3>1, <3>2
      <4>3. QED
        BY <3>2, <4>1, <4>2, PopStep
    <3>3. CASE i = Len(order) + 1
      <4>1. 1 .. (i - 1) = DOMAIN order
        BY <3>1, <3>3
      <4>2. {order'[j] : j \in 1 .. (i - 1)} = Ordered
        BY <4>1, PopStep DEF Ordered
      <4>3. QED
        BY <1>6, <3>3, <4>2, PopStep
    <3>4. i \in DOMAIN order \/ i = Len(order) + 1
      BY <3>1, PopStep
    <3>5. QED
      BY <3>2, <3>3, <3>4
  <2>2. QED
    BY <2>1, PopStep DEF DependencyFirst
<1>8. NoCoreOrdered'
  <2>1. ASSUME NEW S, IsCore(graph, S)
        PROVE  S \cap Ordered' = {}
    <3>1. S \cap Ordered = {}
      BY <2>1 DEF IInv, NoCoreOrdered
    <3>2. p \notin S
      BY <1>6, <2>1, <3>1 DEF IsCore
    <3>3. QED
      BY <3>1, <3>2, PopStep
  <2>2. QED
    BY <2>1, PopStep DEF NoCoreOrdered
<1>9. QED
  BY <1>2, <1>3, <1>4, <1>5, <1>7, <1>8, PopStep DEF IInv, FinalAnswer
LEMMA ReturnKeepsInv == IInv /\ Return => IInv'
<1> SUFFICES ASSUME IInv, Return PROVE IInv'
  OBVIOUS
<1> USE DEF Return
<1>1. /\ Ordered' = Ordered /\ Answer' = Answer
      /\ \A n \in DOMAIN graph : Undone(n)' = Undone(n)
  BY DEF Ordered, Answer, Undone
<1>2. verdict' \in {"none", "ordered"}
  BY DEF Answer
<1>3. QED
  BY <1>1, <1>2
  DEF IInv, TypeOK, Bookkeeping, ExactCount, OrderedOnce, DependencyFirst,
      NoCoreOrdered, FinalAnswer, IsGraph

LEMMA StutterKeepsInv == IInv /\ UNCHANGED vars => IInv'
BY DEF vars, IInv, TypeOK, Bookkeeping, ExactCount, OrderedOnce, DependencyFirst,
       NoCoreOrdered, FinalAnswer, IsGraph, Ordered, Answer, Undone

(* The inductive invariant of the sort.                                    *)
THEOREM Invariance == Spec => []IInv
<1>1. IInv /\ [Next]_vars => IInv'
  BY CallKeepsInv, PopKeepsInv, ReturnKeepsInv, StutterKeepsInv DEF Next
<1>2. QED
  BY <1>1, InitHolds, PTL DEF Spec

-----------------------------------------------------------------------------
(* The state keeps the shape the code's annotations give it, whatever      *)
(* modules and dependency lists the project has.                           *)
THEOREM TypeCorrect == Spec => []TypeOK
<1>1. IInv => TypeOK
  BY DEF IInv
<1>2. QED
  BY <1>1, Invariance, PTL

(* Every module topological_order orders comes after everything it needs.  *)
THEOREM DependencyFirstHolds == Spec => []DependencyFirst
<1>1. IInv => DependencyFirst
  BY DEF IInv
<1>2. QED
  BY <1>1, Invariance, PTL

LEMMA OrderIsComplete == IInv => OrdersOnlyAcyclic
<1> SUFFICES ASSUME IInv, verdict = "ordered"
             PROVE  /\ ~Cyclic(graph)
                    /\ Ordered = DOMAIN graph
                    /\ Len(order) = Cardinality(DOMAIN graph)
  BY DEF OrdersOnlyAcyclic
<1>1. Len(order) = Cardinality(DOMAIN graph)
  BY DEF IInv, FinalAnswer, Answer
<1>2. Ordered = DOMAIN graph
  BY <1>1, FullLength DEF IInv, TypeOK, IsGraph, OrderedOnce, Ordered
<1>3. ~Cyclic(graph)
  BY <1>2 DEF IInv, NoCoreOrdered, Cyclic, IsCore
<1>4. QED
  BY <1>1, <1>2, <1>3

(* topological_order returns an order only for an acyclic project, and     *)
(* then one that lists each module once.                                   *)
THEOREM OrdersOnlyAcyclicHolds == Spec => []OrdersOnlyAcyclic
BY OrderIsComplete, Invariance, PTL

(* No module enters the queue twice, or after it was ordered.              *)
THEOREM NoRequeueHolds == Spec => NoRequeue
<1>1. IInv => [\A n \in queue : Pop(n) => Released(n) \cap (queue \cup Ordered) = {}]_vars
  BY ReleasedAreNew
<1>2. QED
  BY <1>1, Invariance, PTL DEF NoRequeue

(* A module left when the queue has run empty waits for another one that   *)
(* is left, unless its list repeats an entry.                              *)
LEMMA StuckWaits ==
  ASSUME IInv, verdict # "idle", queue = {},
         NEW n \in (DOMAIN graph) \ Ordered, RepeatsNothing(graph, n)
  PROVE  Needs(graph, n) \cap ((DOMAIN graph) \ Ordered) # {}
<1>1. inDegree[n] # 0 /\ inDegree[n] = Cardinality(Undone(n))
  BY DEF IInv, Bookkeeping, ExactCount
<1>2. Undone(n) # {}
  BY <1>1, UndoneFinite DEF IInv, TypeOK
<1>3. QED
  BY <1>2 DEF Undone, Needs, DepSet

LEMMA NoneHasCycle == IInv => NoneMeansCycle
<1> SUFFICES ASSUME IInv, NoRepeats(graph), verdict = "none"
             PROVE  Cyclic(graph)
  BY DEF NoneMeansCycle
<1>1. queue = {} /\ Len(order) # Cardinality(DOMAIN graph)
  BY DEF IInv, FinalAnswer, Answer
<1>2. Ordered # DOMAIN graph
  BY <1>1, FullLength DEF IInv, TypeOK, IsGraph, OrderedOnce, Ordered
<1>3. Ordered \subseteq DOMAIN graph
  BY DEF IInv, TypeOK, Ordered
<1>4. IsCore(graph, (DOMAIN graph) \ Ordered)
  BY <1>1, <1>2, <1>3, StuckWaits DEF IsCore, NoRepeats
<1>5. QED
  BY <1>4 DEF Cyclic

(* A project topological_order answers None for has a cycle, unless some   *)
(* dependency list repeats an entry.                                       *)
THEOREM NoneMeansCycleHolds == Spec => []NoneMeansCycle
BY NoneHasCycle, Invariance, PTL

(* What a caller of topological_order may rely on, whatever the project:   *)
(* dependencies come first, a cycle is refused, and nothing else is but a  *)
(* project with a repeated entry.                                          *)
THEOREM OrderIsRightHolds == Spec => []OrderIsRight
BY DependencyFirstHolds, OrdersOnlyAcyclicHolds, NoneMeansCycleHolds, PTL DEF OrderIsRight

-----------------------------------------------------------------------------
(* topological_order is a build order: it builds only what can be built,   *)
(* and refuses only a project in which nothing that is left can be, except *)
(* modules whose lists repeat an entry.                                    *)
THEOREM Refinement == Spec => ImplementsBuildOrder
<1> DEFINE answer == IF verdict \in {"none", "ordered"} THEN verdict ELSE "open"
<1> USE DEF Abs!Buildable, Abs!BuiltSet
<1>0. \A n : Abs!Needs(graph, n) = Needs(graph, n)
  BY DEF Abs!Needs, Needs, Abs!DepSet, DepSet
<1>1. \A n : Abs!RepeatsNothing(graph, n) <=> RepeatsNothing(graph, n)
  BY DEF Abs!RepeatsNothing, RepeatsNothing
<1>2. Init => Abs!Init
  BY DEF Init, Abs!Init
<1>3. IInv /\ [Next]_vars => [Abs!Next]_(Abs!vars)
  <2> SUFFICES ASSUME IInv, [Next]_vars
               PROVE  Abs!Next \/ Abs!vars' = Abs!vars
    OBVIOUS
  <2>1. CASE Call
    BY <2>1 DEF Call, IInv, Abs!vars
  <2>2. ASSUME NEW n \in queue, Pop(n)
        PROVE  Abs!Next
    <3>1. n \notin Ordered /\ n \in DOMAIN graph
      BY <2>2, PopStep
    <3>2. Needs(graph, n) \subseteq Ordered
      <4>1. DependencyFirst' /\ order' \in Seq(DOMAIN graph)
        BY <2>2, PopKeepsInv, PopStep DEF IInv
      <4>2. /\ order'[Len(order) + 1] = n
            /\ Len(order) + 1 \in DOMAIN order'
            /\ DOMAIN order = 1 .. Len(order)
            /\ graph' = graph
        BY <2>2, <4>1, PopStep DEF IInv, TypeOK
      <4>3. Needs(graph, n) \subseteq {order'[j] : j \in 1 .. (Len(order) + 1 - 1)}
        BY <4>1, <4>2 DEF DependencyFirst
      <4>4. (Len(order) + 1) - 1 = Len(order)
        BY DEF IInv, TypeOK
      <4>5. {order'[j] : j \in 1 .. Len(order)} = Ordered
        BY <2>2, <4>2, PopStep DEF Ordered
      <4>6. QED
        BY <4>3, <4>4, <4>5
    <3>3. Abs!Build(n)
      BY <1>0, <2>2, <3>1, <3>2 DEF Pop, Abs!Build, Ordered
    <3>4. QED
      BY <3>1, <3>3 DEF Abs!Next
  <2>3. CASE Return
    <3>1. /\ queue = {} /\ verdict = "running" /\ verdict' = Answer
          /\ UNCHANGED <<graph, order>>
      BY <2>3 DEF Return
    <3>2. Ordered = DOMAIN graph <=> Len(order) = Cardinality(DOMAIN graph)
      BY <3>1, FullLength DEF IInv, TypeOK, IsGraph, OrderedOnce, Ordered
    <3>3. CASE Ordered = DOMAIN graph
      BY <3>1, <3>2, <3>3 DEF Answer, Abs!Next, Abs!Accept, Ordered
    <3>4. CASE Ordered # DOMAIN graph
      <4>1. \A n \in (DOMAIN graph) \ Ordered :
               RepeatsNothing(graph, n) =>
                 Needs(graph, n) \cap ((DOMAIN graph) \ Ordered) # {}
        BY <3>1, StuckWaits
      <4>2. Answer = "none"
        BY <3>2, <3>4 DEF Answer
      <4>3. \A n \in DOMAIN graph : Abs!Buildable(n) => ~Abs!RepeatsNothing(graph, n)
        BY <1>0, <1>1, <4>1 DEF Ordered
      <4>4. Abs!Refuse
        BY <3>1, <3>4, <4>2, <4>3 DEF Abs!Refuse, Ordered
      <4>5. QED
        BY <4>4 DEF Abs!Next
    <3>5. QED
      BY <3>3, <3>4
  <2>4. CASE UNCHANGED vars
    BY <2>4 DEF vars, Abs!vars
  <2>5. QED
    BY <2>1, <2>2, <2>3, <2>4 DEF Next
<1>4. QED
  BY <1>2, <1>3, Invariance, PTL DEF Spec, Abs!Spec, ImplementsBuildOrder

-----------------------------------------------------------------------------
(* Which order is returned.                                                *)

(* The head of the queue is the least of all that could come next.         *)
Greedy ==
  \A k \in DOMAIN order : \A m \in DOMAIN graph :
    LET before == {order[j] : j \in 1 .. (k - 1)}
    IN  RepeatsNothing(graph, m) /\ m \notin before /\ Needs(graph, m) \subseteq before
          => order[k] <= m

(* An entry that occurs twice is counted twice and taken off once.         *)
DoubleCount ==
  verdict # "idle" =>
    \A n \in DOMAIN graph : \A i, j \in DOMAIN graph[n] :
      i # j /\ graph[n][i] = graph[n][j] /\ graph[n][i] \in Ordered
        => inDegree[n] >= Cardinality(Undone(n)) + 1

ChoiceInv == Greedy /\ DoubleCount

LEMMA PopKeepsGreedy == ASSUME IInv, Greedy, NEW p \in queue, Pop(p) PROVE Greedy'
<1>1. /\ order \in Seq(DOMAIN graph) /\ order' \in Seq(DOMAIN graph) /\ graph' = graph
      /\ DOMAIN order = 1 .. Len(order) /\ DOMAIN order' = 1 .. (Len(order) + 1)
      /\ Len(order) \in Nat
  BY PopStep DEF IInv, TypeOK
<1>2. SUFFICES ASSUME NEW k \in DOMAIN order', NEW m \in DOMAIN graph, RepeatsNothing(graph, m),
                      m \notin {order'[j] : j \in 1 .. (k - 1)},
                      Needs(graph, m) \subseteq {order'[j] : j \in 1 .. (k - 1)}
               PROVE  order'[k] <= m
  BY <1>1 DEF Greedy, RepeatsNothing, Needs, DepSet
<1>3. {order'[j] : j \in 1 .. (k - 1)} = {order[j] : j \in 1 .. (k - 1)}
  <2>1. \A j \in 1 .. (k - 1) : order'[j] = order[j]
    BY <1>1, PopStep
  <2>2. QED
    BY <2>1
<1>4. CASE k \in DOMAIN order
  BY <1>2, <1>3, <1>4, PopStep DEF Greedy
<1>5. CASE k = Len(order) + 1
  <2>1. {order[j] : j \in 1 .. (k - 1)} = Ordered
    BY <1>1, <1>5 DEF Ordered
  <2>2. m \notin Ordered /\ Undone(m) = {}
    BY <1>2, <1>3, <2>1 DEF Undone, Needs, DepSet
  <2>3. inDegree[m] = 0
    BY <1>2, <2>2, FS_EmptySet, PopStep DEF IInv, ExactCount
  <2>4. m \in queue
    BY <2>2, <2>3, PopStep DEF IInv, Bookkeeping
  <2>5. QED
    BY <1>5, <2>4, PopStep DEF Pop, IsHead
<1>6. QED
  BY <1>1, <1>4, <1>5

LEMMA PopKeepsDoubleCount ==
  ASSUME IInv, DoubleCount, NEW p \in queue, Pop(p) PROVE DoubleCount'
<1>1. SUFFICES ASSUME NEW n \in DOMAIN graph, NEW i \in DOMAIN graph[n], NEW j \in DOMAIN graph[n],
                      i # j, graph[n][i] = graph[n][j], graph[n][i] \in Ordered'
               PROVE  inDegree'[n] >= Cardinality(Undone(n)') + 1
  BY PopStep DEF DoubleCount
<1>2. /\ inDegree[n] \in Int /\ IsFiniteSet(Undone(n))
      /\ inDegree[n] >= Cardinality(Undone(n))
      /\ Cardinality(Undone(n)) \in Nat /\ Cardinality(Undone(n)') \in Nat
      /\ inDegree'[n] = IF n \in Consumers(p) THEN inDegree[n] - 1 ELSE inDegree[n]
  BY PopStep, PopCounts, UndoneFinite DEF IInv, TypeOK, Bookkeeping, Pop
<1>3. CASE graph[n][i] \in Ordered
  <2>1. inDegree[n] >= Cardinality(Undone(n)) + 1
    BY <1>1, <1>3, PopStep DEF DoubleCount
  <2>2. QED
    BY <1>2, <2>1, PopCounts
<1>4. CASE graph[n][i] = p
  <2>1. n \in Consumers(p) /\ i \in Undone(n) /\ j \in Undone(n) \ {i}
    BY <1>1, <1>4, PopStep DEF Consumers, DepSet, Undone
  <2>2. /\ IsFiniteSet(Undone(n) \ {i})
        /\ Cardinality(Undone(n) \ {i}) = Cardinality(Undone(n)) - 1
    BY <1>2, <2>1, FS_RemoveElement
  <2>3. /\ IsFiniteSet((Undone(n) \ {i}) \ {j})
        /\ Cardinality((Undone(n) \ {i}) \ {j}) = Cardinality(Undone(n) \ {i}) - 1
    BY <2>1, <2>2, FS_RemoveElement
  <2>4. Undone(n)' \in SUBSET ((Undone(n) \ {i}) \ {j})
    <3>1. Undone(n)' = {e \in Undone(n) : graph[n][e] # p}
      BY PopStep
    <3>2. QED
      BY <1>1, <1>4, <3>1
  <2>5. Cardinality(Undone(n)') <= Cardinality((Undone(n) \ {i}) \ {j})
    BY <2>3, <2>4, FS_Subset
  <2>6. QED
    BY <1>2, <2>1, <2>2, <2>3, <2>5
<1>5. QED
  BY <1>1, <1>3, <1>4, PopStep

LEMMA ChoiceKept == IInv /\ ChoiceInv /\ [Next]_vars => ChoiceInv'
<1> USE DEF ChoiceInv
<1>1. ASSUME IInv, ChoiceInv, Call PROVE ChoiceInv'
  BY <1>1 DEF Call, Greedy, DoubleCount, Ordered
<1>2. ASSUME IInv, ChoiceInv, NEW p \in queue, Pop(p) PROVE ChoiceInv'
  BY <1>2, PopKeepsGreedy, PopKeepsDoubleCount
<1>3. ASSUME IInv, ChoiceInv, UNCHANGED <<graph, inDegree, order>>,
             verdict' # "idle" => verdict # "idle"
      PROVE  ChoiceInv'
  BY <1>3 DEF Greedy, DoubleCount, Ordered, Undone, RepeatsNothing, Needs, DepSet
<1>4. QED
  BY <1>1, <1>2, <1>3 DEF Next, Return, vars

(* An order is returned only if no list repeats an entry that resolves.    *)
LEMMA OrderedRepeatsNothing ==
  IInv /\ ChoiceInv /\ verdict = "ordered" => NoRepeats(graph)
<1> SUFFICES ASSUME IInv, ChoiceInv, verdict = "ordered",
                    NEW n \in DOMAIN graph, NEW i \in DOMAIN graph[n], NEW j \in DOMAIN graph[n],
                    i # j, graph[n][i] = graph[n][j], graph[n][i] \in DOMAIN graph
             PROVE  FALSE
  BY DEF NoRepeats, RepeatsNothing
<1>1. Ordered = DOMAIN graph
  BY FullLength DEF IInv, TypeOK, IsGraph, OrderedOnce, Ordered, FinalAnswer, Answer
<1>2. inDegree[n] = 0
  BY <1>1 DEF IInv, Bookkeeping
<1>3. inDegree[n] >= Cardinality(Undone(n)) + 1
  BY <1>1 DEF ChoiceInv, DoubleCount
<1>4. Cardinality(Undone(n)) \in Nat
  BY UndoneFinite DEF IInv, TypeOK
<1>5. QED
  BY <1>2, <1>3, <1>4

(* Where another order first differs, it has a greater module.             *)
LEMMA LeastOrderFromGreedy == IInv /\ ChoiceInv => LeastOrder
<1> SUFFICES ASSUME IInv, ChoiceInv, verdict = "ordered",
                    NEW p \in DependencyFirstOrders(graph), p # order
             PROVE  LexLeq(order, p)
  BY DEF LeastOrder, LexLeq
<1> DEFINE size == Cardinality(DOMAIN graph)
           Differ == {i \in 1 .. size : order[i] # p[i]}
<1>1. /\ order \in Seq(DOMAIN graph) /\ Len(order) = size /\ size \in Nat
      /\ DOMAIN order = 1 .. size
  BY DEF IInv, TypeOK, FinalAnswer, Answer
<1>2. /\ p \in [1 .. size -> DOMAIN graph]
      /\ \A i, j \in 1 .. size : p[i] = p[j] => i = j
      /\ \A i \in 1 .. size : Needs(graph, p[i]) \subseteq {p[j] : j \in 1 .. (i - 1)}
  BY DEF DependencyFirstOrders
<1>3. Differ \in SUBSET Nat /\ Differ # {}
  BY <1>1, <1>2
<1>4. PICK i \in Differ : \A k \in Differ : i <= k
  <2> HIDE DEF Differ
  <2>1. QED
    BY <1>3, LeastNumber
<1>5. \A j \in 1 .. (i - 1) : order[j] = p[j]
  BY <1>1, <1>4
<1>6. {order[j] : j \in 1 .. (i - 1)} = {p[j] : j \in 1 .. (i - 1)}
  BY <1>5
<1>7. /\ i \in 1 .. size /\ p[i] \in DOMAIN graph /\ order[i] \in DOMAIN graph
      /\ p[i] \notin {p[j] : j \in 1 .. (i - 1)}
  BY <1>1, <1>2
<1>8. RepeatsNothing(graph, p[i])
  BY <1>7, OrderedRepeatsNothing DEF NoRepeats
<1>9. order[i] <= p[i]
  BY <1>1, <1>2, <1>6, <1>7, <1>8 DEF ChoiceInv, Greedy
<1>10. order[i] \in Nat /\ p[i] \in Nat /\ order[i] # p[i]
  BY <1>7, NameAssumption DEF IInv, TypeOK, IsGraph
<1>11. QED
  BY <1>1, <1>5, <1>7, <1>9, <1>10 DEF LexLeq

LEMMA ChoiceInvariance == Spec => []ChoiceInv
<1>1. Init => ChoiceInv
  BY DEF Init, ChoiceInv, Greedy, DoubleCount
<1>2. IInv /\ ChoiceInv /\ [Next]_vars => ChoiceInv'
  BY ChoiceKept
<1>3. QED
  BY <1>1, <1>2, Invariance, PTL DEF Spec

(* The answer does not depend on the order in which files were added: of   *)
(* all dependency-first orders topological_order returns the first one     *)
(* alphabetically, whatever the project.                                   *)
THEOREM LeastOrderHolds == Spec => []LeastOrder
BY LeastOrderFromGreedy, Invariance, ChoiceInvariance, PTL

(* What the answer depends on: topological_order returns an order for the  *)
(* projects without a cycle and without a list that repeats an entry, and  *)
(* None for all others.                                                    *)
THEOREM AnswerIsExact ==
  Spec => [](verdict \in {"none", "ordered"} =>
               (verdict = "ordered" <=> ~Cyclic(graph) /\ NoRepeats(graph)))
<1>1. IInv /\ ChoiceInv =>
        (verdict \in {"none", "ordered"} =>
           (verdict = "ordered" <=> ~Cyclic(graph) /\ NoRepeats(graph)))
  BY OrderIsComplete, NoneHasCycle, OrderedRepeatsNothing DEF OrdersOnlyAcyclic, NoneMeansCycle
<1>2. QED
  BY <1>1, Invariance, ChoiceInvariance, PTL
=============================================================================
