----------------------------- MODULE CycleSearch ----------------------------
(***************************************************************************)
(* Project._find_cycle: a depth-first search with an explicit stack and    *)
(* three colours, one action per iteration of its loops.  The neighbours   *)
(* of a stacked module are popped from the front of a sorted list; popping *)
(* a repeated neighbour again finds it black and does nothing, so they are *)
(* a set here and the front is its least element.                          *)
(***************************************************************************)
EXTENDS ProjectGraph

CONSTANTS Graphs, NoModule

ASSUME GraphsAssumption == \A g \in Graphs : IsGraph(g)
ASSUME NoModuleAssumption == NoModule \notin Name

VARIABLES
  graph,     \* the dependency graph, which the search only reads
  color,     \* the colour of every module of the project
  parent,    \* the module each one was reached from, or NoModule
  stack,     \* pairs of a module and its neighbours not yet visited
  phase,     \* "idle", "search", "walk", then "cycle" or "none"
  cursor,    \* p: where the walk along the parents stands
  path       \* the path built by the walk, already reversed

vars == <<graph, color, parent, stack, phase, cursor, path>>

IsLeast(n, S) == n \in S /\ \A m \in S : n <= m

White == {n \in DOMAIN graph : color[n] = "white"}

Frame(n) == [node |-> n, left |-> DepSet(graph, n)]
Top == stack[Len(stack)]
Below == SubSeq(stack, 1, Len(stack) - 1)

Init ==
  /\ graph \in Graphs
  /\ color = [n \in DOMAIN graph |-> "white"]
  /\ parent = [n \in DOMAIN graph |-> NoModule]
  /\ stack = << >>
  /\ phase = "idle"
  /\ cursor = NoModule
  /\ path = << >>

(* The call: every module is white and has no parent.                      *)
Call ==
  /\ phase = "idle"
  /\ color' = [n \in DOMAIN graph |-> "white"]
  /\ parent' = [n \in DOMAIN graph |-> NoModule]
  /\ stack' = << >>
  /\ phase' = "search"
  /\ cursor' = NoModule
  /\ path' = << >>
  /\ UNCHANGED graph

(* for start in sorted(graph): black modules are passed over, and no       *)
(* module is grey while the stack is empty.                                *)
Root(n) ==
  /\ phase = "search"
  /\ stack = << >>
  /\ IsLeast(n, White)
  /\ color' = [color EXCEPT ![n] = "gray"]
  /\ stack' = <<Frame(n)>>
  /\ UNCHANGED <<graph, parent, phase, cursor, path>>

Exhausted ==
  /\ phase = "search"
  /\ stack = << >>
  /\ White = {}
  /\ phase' = "none"
  /\ UNCHANGED <<graph, color, parent, stack, cursor, path>>

(* Faulty variants of Finish.                                              *)
FinishTurnsWhite ==
  /\ phase = "search"
  /\ stack # << >>
  /\ Top.left = {}
  /\ color' = [color EXCEPT ![Top.node] = "white"]
  /\ stack' = Below
  /\ UNCHANGED <<graph, parent, phase, cursor, path>>

FinishAtOnce ==
  /\ phase = "search"
  /\ stack # << >>
  /\ color' = [color EXCEPT ![Top.node] = "black"]
  /\ stack' = Below
  /\ UNCHANGED <<graph, parent, phase, cursor, path>>

(* The module on top has no neighbour left: it is finished.                *)
Finish ==
  /\ phase = "search"
  /\ stack # << >>
  /\ Top.left = {}
  /\ color' = [color EXCEPT ![Top.node] = "black"]
  /\ stack' = Below
  /\ UNCHANGED <<graph, parent, phase, cursor, path>>

PopNeighbour(n) ==
  /\ phase = "search"
  /\ stack # << >>
  /\ IsLeast(n, Top.left)

Advanced(n) == Append(Below, [node |-> Top.node, left |-> Top.left \ {n}])

(* Faulty variant of Skip.                                                 *)
SkipGrayToo(n) ==
  /\ PopNeighbour(n)
  /\ n \notin White
  /\ stack' = Advanced(n)
  /\ UNCHANGED <<graph, color, parent, phase, cursor, path>>

(* A neighbour outside the project, or already finished.                   *)
Skip(n) ==
  /\ PopNeighbour(n)
  /\ n \notin DOMAIN graph \/ (n \in DOMAIN graph /\ color[n] = "black")
  /\ stack' = Advanced(n)
  /\ UNCHANGED <<graph, color, parent, phase, cursor, path>>

Descend(n) ==
  /\ PopNeighbour(n)
  /\ n \in White
  /\ parent' = [parent EXCEPT ![n] = Top.node]
  /\ color' = [color EXCEPT ![n] = "gray"]
  /\ stack' = Append(Advanced(n), Frame(n))
  /\ UNCHANGED <<graph, phase, cursor, path>>

(* A grey neighbour closes a cycle: the walk starts at the top.            *)
Close(n) ==
  /\ PopNeighbour(n)
  /\ n \in DOMAIN graph
  /\ color[n] = "gray"
  /\ stack' = Advanced(n)
  /\ phase' = "walk"
  /\ path' = <<Top.node, n>>
  /\ cursor' = parent[Top.node]
  /\ UNCHANGED <<graph, color, parent>>

(* The last entry of the path is the neighbour that closed it.             *)
Target == path[Len(path)]

(* Faulty variant of WalkUp.                                               *)
WalkUpToRoot ==
  /\ phase = "walk"
  /\ cursor # NoModule
  /\ path' = <<cursor>> \o path
  /\ cursor' = parent[cursor]
  /\ UNCHANGED <<graph, color, parent, stack, phase>>

WalkUp ==
  /\ phase = "walk"
  /\ cursor \notin {NoModule, Target}
  /\ path' = <<cursor>> \o path
  /\ cursor' = parent[cursor]
  /\ UNCHANGED <<graph, color, parent, stack, phase>>

(* Faulty variant of ReturnCycle.                                          *)
ReturnCursor ==
  /\ phase = "walk"
  /\ cursor \in {NoModule, Target}
  /\ path' = <<cursor>> \o path
  /\ phase' = "cycle"
  /\ UNCHANGED <<graph, color, parent, stack, cursor>>

ReturnCycle ==
  /\ phase = "walk"
  /\ cursor \in {NoModule, Target}
  /\ path' = <<Target>> \o path
  /\ phase' = "cycle"
  /\ UNCHANGED <<graph, color, parent, stack, cursor>>

Next ==
  \/ Call
  \/ \E n \in White : Root(n)
  \/ Exhausted
  \/ Finish
  \/ \E n \in Name : Skip(n) \/ Descend(n) \/ Close(n)
  \/ WalkUp
  \/ ReturnCycle

Spec == Init /\ [][Next]_vars

FairSpec == Spec /\ WF_vars(Next)
-----------------------------------------------------------------------------
(* The state always has the shape the code's annotations give it.          *)
TypeOK ==
  /\ IsGraph(graph)
  /\ color \in [DOMAIN graph -> {"white", "gray", "black"}]
  /\ parent \in [DOMAIN graph -> DOMAIN graph \cup {NoModule}]
  /\ stack \in Seq([node : DOMAIN graph, left : SUBSET Name])
  /\ phase \in {"idle", "search", "walk", "cycle", "none"}
  /\ cursor \in DOMAIN graph \cup {NoModule}
  /\ path \in Seq(DOMAIN graph)

(* The grey modules are those on the stack, each once, and the parents     *)
(* lead from each to the one below: what lets _find_cycle rebuild the path *)
(* from the parents although the stack is what holds the search.           *)
GrayIsStack ==
  /\ {n \in DOMAIN graph : color[n] = "gray"} = {stack[i].node : i \in DOMAIN stack}
  /\ \A i, j \in DOMAIN stack : stack[i].node = stack[j].node => i = j
  /\ \A i \in DOMAIN stack :
       parent[stack[i].node] = IF i = 1 THEN NoModule ELSE stack[i - 1].node

(* A finished module needs only finished modules.                          *)
BlackClosed ==
  \A n \in DOMAIN graph : color[n] = "black" =>
    \A m \in Needs(graph, n) : color[m] = "black"

(* The marks of the search agree with its stack and with the graph, all    *)
(* the way: the white, grey and black that decide every step.              *)
MarksAreRight == GrayIsStack /\ BlackClosed

(* _find_cycle answers None only for an acyclic graph, and a path only for *)
(* a cyclic one.                                                           *)
VerdictIsRight ==
  /\ phase = "none" => ~Cyclic(graph)
  /\ phase = "cycle" => Cyclic(graph)

Edge(i) == path[i + 1] \in Needs(graph, path[i])

(* The returned path is closed and each step along it is a dependency, the *)
(* modules between its ends all different, unless its last step is a       *)
(* module that depends on itself; that step is then still a dependency.    *)
ReportIsCycle ==
  phase = "cycle" =>
    /\ path[1] = Target
    /\ Edge(Len(path) - 1)
    /\ path[Len(path) - 1] # Target =>
         /\ \A i \in 1 .. (Len(path) - 1) : Edge(i)
         /\ \A i, j \in 1 .. (Len(path) - 1) : path[i] = path[j] => i = j

(* The search ends: every step spends a neighbour, a white module or an    *)
(* ancestor.  The loops are sequential code that runs until it ends.       *)
Termination == <>(phase \in {"cycle", "none"})

(* The fix the diagnostic gives, "break the cycle by removing one of the   *)
(* `depends_on:` lines along the chain", takes every step of the chain to  *)
(* be such a line.                                                         *)
ChainIsDependsOnLines ==
  phase = "cycle" => \A i \in 1 .. (Len(path) - 1) : Edge(i)

=============================================================================
