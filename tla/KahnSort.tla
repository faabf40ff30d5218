------------------------------ MODULE KahnSort ------------------------------
(***************************************************************************)
(* Project.topological_order: Kahn's algorithm over the dependency graph,  *)
(* one action per iteration of its loop.  The queue of the code is sorted  *)
(* after every iteration and holds no name twice (NoRequeue), so it is a   *)
(* set here and its head is its least element.                             *)
(***************************************************************************)
EXTENDS ProjectGraph, Integers

CONSTANT Graphs

ASSUME GraphsAssumption == \A g \in Graphs : IsGraph(g)

VARIABLES
  graph,      \* the dependency graph, which the sort only reads
  inDegree,   \* in_degree
  queue,      \* the modules that wait to be ordered
  order,      \* the modules ordered so far
  verdict     \* "idle" before the call, "running", then what is returned

vars == <<graph, inDegree, queue, order, verdict>>

Ordered == {order[i] : i \in DOMAIN order}

(* in_degree counts the entries of the dependency list that resolve, a     *)
(* repeated entry once for each time it occurs.                            *)
InitialDegree(g, n) == Cardinality({i \in DOMAIN g[n] : g[n][i] \in DOMAIN g})

(* The consumers of n: the modules whose list contains n.                  *)
Consumers(n) == {m \in DOMAIN graph : n \in DepSet(graph, m)}

(* Faulty variants of Released.                                            *)
ReleasedAlways(n) == Consumers(n)
ReleasedOneEarly(n) == {m \in Consumers(n) : inDegree[m] - 1 <= 1}
ReleasedForward(n) == {m \in Consumers(n) : m > n /\ inDegree[m] - 1 = 0}
ReleasedBackwards(n) == DepSet(graph, n)

(* The consumers whose count reaches zero when n is ordered.               *)
Released(n) == {m \in Consumers(n) : inDegree[m] - 1 = 0}

(* Faulty variant of IsHead.                                               *)
AnyMember(n) == n \in queue

IsHead(n) == n \in queue /\ \A m \in queue : n <= m

Init ==
  /\ graph \in Graphs
  /\ inDegree = [n \in DOMAIN graph |-> 0]
  /\ queue = {}
  /\ order = << >>
  /\ verdict = "idle"

Call ==
  /\ verdict = "idle"
  /\ inDegree' = [n \in DOMAIN graph |-> InitialDegree(graph, n)]
  /\ queue' = {n \in DOMAIN graph : InitialDegree(graph, n) = 0}
  /\ order' = << >>
  /\ verdict' = "running"
  /\ UNCHANGED graph

Pop(n) ==
  /\ verdict = "running"
  /\ IsHead(n)
  /\ order' = Append(order, n)
  /\ inDegree' = [m \in DOMAIN graph |->
                    IF m \in Consumers(n) THEN inDegree[m] - 1 ELSE inDegree[m]]
  /\ queue' = (queue \ {n}) \cup Released(n)
  /\ UNCHANGED <<graph, verdict>>

(* Faulty variant of Answer.                                               *)
AnswerBlind == "ordered"

Answer == IF Len(order) # Cardinality(DOMAIN graph) THEN "none" ELSE "ordered"

(* Faulty variant of Return.                                               *)
ReturnWhenComplete ==
  /\ verdict = "running"
  /\ Len(order) = Cardinality(DOMAIN graph)
  /\ verdict' = Answer
  /\ UNCHANGED <<graph, inDegree, queue, order>>

Return ==
  /\ verdict = "running"
  /\ queue = {}
  /\ verdict' = Answer
  /\ UNCHANGED <<graph, inDegree, queue, order>>

Next == Call \/ (\E n \in queue : Pop(n)) \/ Return

Spec == Init /\ [][Next]_vars

FairSpec == Spec /\ WF_vars(Next)

-----------------------------------------------------------------------------
(* The state always has the shape the code's annotations give it.          *)
TypeOK ==
  /\ IsGraph(graph)
  /\ inDegree \in [DOMAIN graph -> Int]
  /\ queue \subseteq DOMAIN graph
  /\ order \in Seq(DOMAIN graph)
  /\ verdict \in {"idle", "running", "none", "ordered"}

(* Dependency-first (the order topological_order promises): whenever a     *)
(* module has been ordered, everything it needs was ordered before it, for *)
(* every graph, repeated entries, missing targets and cycles included.     *)
DependencyFirst ==
  \A i \in DOMAIN order :
    Needs(graph, order[i]) \subseteq {order[j] : j \in 1 .. (i - 1)}

(* An answered order lists every module of the project exactly once, and   *)
(* a cyclic project never gets one: the length test at the end of          *)
(* topological_order is its only cycle test.                               *)
OrdersOnlyAcyclic ==
  verdict = "ordered" =>
    /\ ~Cyclic(graph)
    /\ Ordered = DOMAIN graph
    /\ Len(order) = Cardinality(DOMAIN graph)

(* "Returns None if the graph contains a cycle" (the docstring, and the    *)
(* reading check_graph and check_all give to None): a refused graph has a  *)
(* cycle, unless some list names a module of the project twice.            *)
NoneMeansCycle == verdict = "none" /\ NoRepeats(graph) => Cyclic(graph)

(* The three together: what a caller of topological_order may rely on.     *)
OrderIsRight == DependencyFirst /\ OrdersOnlyAcyclic /\ NoneMeansCycle

(* All ways to list the modules of g once each, dependencies first.        *)
DependencyFirstOrders(g) ==
  {p \in [1 .. Cardinality(DOMAIN g) -> DOMAIN g] :
     /\ \A i, j \in DOMAIN p : p[i] = p[j] => i = j
     /\ \A i \in DOMAIN p : Needs(g, p[i]) \subseteq {p[j] : j \in 1 .. (i - 1)}}

LexLeq(p, q) ==
  \/ p = q
  \/ \E i \in DOMAIN p : p[i] < q[i] /\ \A j \in 1 .. (i - 1) : p[j] = q[j]

(* Deterministic: "Re-sort the queue to keep iteration deterministic"      *)
(* makes the answer the alphabetically first of all dependency-first       *)
(* orders, whatever order the files were added in.                         *)
LeastOrder ==
  verdict = "ordered" =>
    \A p \in DependencyFirstOrders(graph) : LexLeq(order, p)

(* No module is put into the queue while it is there, or after it has been *)
(* ordered: what lets the queue be a set, and each module be ordered once. *)
NoRequeue ==
  [][\A n \in queue : Pop(n) => Released(n) \cap (queue \cup Ordered) = {}]_vars

(* topological_order returns: each iteration consumes a queued module and  *)
(* none comes back.  The loop is sequential code that runs until it ends.  *)
Termination == <>(verdict \in {"none", "ordered"})

Abs == INSTANCE BuildOrder WITH
         built <- order,
         answer <- IF verdict \in {"none", "ordered"} THEN verdict ELSE "open"

(* The sort implements the abstract build order: it orders only buildable  *)
(* modules, and refuses a project only when no remaining module can be     *)
(* built but such as list a dependency twice.                              *)
ImplementsBuildOrder == Abs!Spec
=============================================================================
