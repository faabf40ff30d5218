------------------------ MODULE DirectoryCheckProofs ------------------------
(***************************************************************************)
(* Proofs about `furqan check <directory>` for every directory.  What the  *)
(* sort and the search do inside it is taken from the theorems about each  *)
(* of them, instantiated here with the dependency graph of the project.    *)
(***************************************************************************)
EXTENDS DirectoryCheck, DataProofs, FiniteSetTheorems, TLAPS

SortProof == INSTANCE KahnSortProofs WITH graph <- DepGraph, Graphs <- {}
SearchProof == INSTANCE CycleSearchProofs WITH graph <- DepGraph, Graphs <- {}

SortInv == SortProof!IInv /\ SortProof!ChoiceInv
SearchInv == SearchProof!IInv

(* The modules are read from the files, each under its own name, and what  *)
(* has been ordered is among them.                                         *)
Shape ==
  /\ files \in Seq(Contents)
  /\ IsFiniteSet(DOMAIN project) /\ DOMAIN project \subseteq Name
  /\ \A n \in DOMAIN project :
       /\ IsModule(project[n]) /\ project[n].name = n
       /\ \E i \in DOMAIN files : files[i] = project[n]
  /\ order \in Seq(DOMAIN project)
  /\ next \in 1 .. (Len(order) + 1)

MachinesRight ==
  /\ verdict # "idle" => SortInv
  /\ phase # "idle" => SearchInv

(* No file was refused, and there are modules.                             *)
AllStored == Len(files) = Cardinality(DOMAIN project)
Loading == AllStored /\ results = << >> /\ next = 1
HasModules == AllStored /\ DOMAIN project # {}

(* The findings of check_graph, whose search answered as the graph is.     *)
Judged ==
  /\ HasModules
  /\ found = MissingDiagnostics \cup CycleDiagnostics \cup OrphanDiagnostics
  /\ phase = "cycle" <=> Cyclic(DepGraph)

Findings(n) == CheckSingleModule(project[n], Imported(n))

(* The results hold findings of the modules under their names, and those   *)
(* of the graph under the key, if no module has it as its name.            *)
ResultsRight ==
  /\ DOMAIN results \subseteq DOMAIN project \cup {GraphKey}
  /\ \A n \in DOMAIN results \ {GraphKey} : results[n] = Findings(n)
  /\ GraphKey \notin Name =>
       /\ found # {} => GraphKey \in DOMAIN results
       /\ GraphKey \in DOMAIN results => results[GraphKey] = found

CheckedSoFar == \A i \in 1 .. (next - 1) : order[i] \in DOMAIN results

(* Which modules were checked: all, or none.                               *)
Coverage ==
  IF graphOnly \/ phase = "cycle"
  THEN DOMAIN results \subseteq {GraphKey}
  ELSE \/ verdict = "ordered" /\ DOMAIN project \subseteq DOMAIN results
       \/ verdict = "none" /\ DOMAIN results \subseteq {GraphKey}

FileChecked ==
  /\ DOMAIN project = {} /\ Len(files) = 1 /\ IsModule(files[1])
  /\ results = Only(files[1].name, CheckSingleModule(files[1], {}))

GraphJudged == Judged /\ results = << >> /\ next = 1
ModulesGoOn ==
  Judged /\ ~graphOnly /\ phase # "cycle" /\ verdict = "ordered" /\ ResultsRight /\ CheckedSoFar
Reportable == Judged /\ ResultsRight /\ Coverage

(* The four ways to end: a file refused, no file, one file, a directory.   *)
Refused == Len(files) = Cardinality(DOMAIN project) + 1 /\ results = << >>
Nothing == files = << >> /\ DOMAIN project = {} /\ results = << >>
Ended ==
  \/ Refused /\ exit \in {1, 2}
  \/ Nothing /\ exit = 0
  \/ FileChecked /\ exit = ExitCode
  \/ Reportable /\ exit = ExitCode

Progress ==
  /\ pc = "load" => Loading /\ verdict = "idle" /\ phase = "idle"
  /\ pc = "fileChecked" => FileChecked
  /\ pc = "graph" => Loading /\ HasModules /\ verdict = "idle" /\ phase = "idle"
  /\ pc = "sort" => /\ Loading /\ HasModules /\ found = MissingDiagnostics
                    /\ verdict # "idle" /\ phase = "idle"
  /\ pc = "search" => /\ Loading /\ HasModules /\ found = MissingDiagnostics
                      /\ phase # "idle"
  /\ pc = "graphChecked" => GraphJudged
  /\ pc = "resort" => GraphJudged /\ ~graphOnly /\ phase # "cycle"
  /\ pc = "modules" => ModulesGoOn
  /\ pc = "report" => Reportable
  /\ pc = "done" => Ended

Stages == {"load", "fileChecked", "graph", "sort", "search", "graphChecked", "resort", "modules",
           "report", "done"}

IInv ==
  /\ Shape
  /\ MachinesRight
  /\ Progress
  /\ pc \in Stages
  /\ exit = Running <=> pc # "done"

-----------------------------------------------------------------------------
(* Concatenating the tanzil blocks of a module gives a list of names.      *)
LEMMA FlattenTyped ==
  ASSUME NEW S, NEW seqs \in Seq(Seq(S))
  PROVE  FlattenSeq(seqs) \in Seq(S)
<1> DEFINE Part(f, i) == IF i = 1 THEN seqs[i] ELSE f[i - 1] \o seqs[i]
           flatten == CHOOSE f : f = [i \in 1 .. Len(seqs) |-> Part(f, i)]
<1>1. \A k \in Nat : \E f : f = [i \in 1 .. k |-> Part(f, i)]
  <2> DEFINE Good == {k \in Nat : \E f : f = [i \in 1 .. k |-> Part(f, i)]}
  <2>1. 0 \in Good
    <3>1. << >> = [i \in 1 .. 0 |-> Part(<< >>, i)]
      OBVIOUS
    <3>2. QED
      BY <3>1
  <2>2. ASSUME NEW k \in Nat, k \in Good PROVE k + 1 \in Good
    <3>1. PICK f : f = [i \in 1 .. k |-> Part(f, i)]
      BY <2>2
    <3> DEFINE g == [i \in 1 .. (k + 1) |-> Part(f, i)]
    <3>2. g = [i \in 1 .. (k + 1) |-> Part(g, i)]
      <4>1. \A i \in 1 .. k : g[i] = f[i]
        <5> HIDE DEF Part
        <5>1. \A i \in 1 .. k : f[i] = Part(f, i)
          BY <3>1
        <5>2. QED
          BY <5>1
      <4>2. \A i \in 1 .. (k + 1) : i # 1 => i - 1 \in 1 .. k
        OBVIOUS
      <4>3. \A i \in 1 .. (k + 1) : Part(f, i) = Part(g, i)
        BY <4>1, <4>2
      <4>4. QED
        BY <4>3
    <3> HIDE DEF g, Part
    <3>3. QED
      BY <3>2
  <2> HIDE DEF Good
  <2>3. Nat \subseteq Good
    BY <2>1, <2>2, SetInduction
  <2>4. QED
    BY <2>3 DEF Good
<1>2. flatten = [i \in 1 .. Len(seqs) |-> Part(flatten, i)]
  <2> HIDE DEF Part
  <2>1. \E f : f = [i \in 1 .. Len(seqs) |-> Part(f, i)]
    BY <1>1
  <2>2. QED
    BY <2>1
<1>3. \A k \in Nat : k \in 1 .. Len(seqs) => flatten[k] \in Seq(S)
  <2> DEFINE Good == {k \in Nat : k \in 1 .. Len(seqs) => flatten[k] \in Seq(S)}
  <2> HIDE DEF flatten
  <2>1. 0 \in Good
    OBVIOUS
  <2>2. ASSUME NEW k \in Nat, k \in Good PROVE k + 1 \in Good
    <3>1. SUFFICES ASSUME k + 1 \in 1 .. Len(seqs) PROVE flatten[k + 1] \in Seq(S)
      OBVIOUS
    <3>2. seqs[k + 1] \in Seq(S) /\ flatten[k + 1] = Part(flatten, k + 1)
      <4>1. flatten[k + 1] = Part(flatten, k + 1)
        <5> HIDE DEF Part
        <5>1. QED
          BY <1>2, <3>1
      <4>2. seqs[k + 1] \in Seq(S)
        BY <3>1
      <4>3. QED
        BY <4>1, <4>2
    <3>3. CASE k = 0
      BY <3>2, <3>3
    <3>4. CASE k # 0
      <4>1. flatten[k] \in Seq(S) /\ (k + 1) - 1 = k /\ k + 1 # 1
        BY <2>2, <3>1, <3>4
      <4>2. QED
        BY <3>2, <4>1
    <3>5. QED
      BY <3>3, <3>4
  <2> HIDE DEF Good
  <2>3. Nat \subseteq Good
    BY <2>1, <2>2, SetInduction
  <2>4. QED
    BY <2>3 DEF Good
<1>4. CASE Len(seqs) = 0
  BY <1>4 DEF FlattenSeq
<1>5. CASE Len(seqs) # 0
  <2>1. FlattenSeq(seqs) = flatten[Len(seqs)]
    BY <1>5 DEF FlattenSeq
  <2> HIDE DEF flatten
  <2>2. QED
    BY <1>3, <1>5, <2>1
<1>6. QED
  BY <1>4, <1>5

(* It holds the names of the blocks, and no other.                         *)
Occurs(s, x) == \E i \in DOMAIN s : s[i] = x

LEMMA OccursInEither ==
  ASSUME NEW S, NEW s \in Seq(S), NEW t \in Seq(S), NEW x
  PROVE  Occurs(s \o t, x) <=> Occurs(s, x) \/ Occurs(t, x)
<1>1. /\ \A i \in 1 .. Len(s) : i \in DOMAIN (s \o t) /\ (s \o t)[i] = s[i]
      /\ \A i \in 1 .. Len(t) : /\ Len(s) + i \in DOMAIN (s \o t)
                               /\ (s \o t)[Len(s) + i] = t[i]
  OBVIOUS
<1>2. ASSUME NEW i \in DOMAIN (s \o t), ~(i \in 1 .. Len(s))
      PROVE  i - Len(s) \in 1 .. Len(t) /\ (s \o t)[i] = t[i - Len(s)]
  BY <1>2
<1>3. DOMAIN s = 1 .. Len(s) /\ DOMAIN t = 1 .. Len(t)
  OBVIOUS
<1>4. Occurs(s \o t, x) => Occurs(s, x) \/ Occurs(t, x)
  BY <1>1, <1>2, <1>3 DEF Occurs
<1>5. Occurs(s, x) \/ Occurs(t, x) => Occurs(s \o t, x)
  BY <1>1, <1>3 DEF Occurs
<1>6. QED
  BY <1>4, <1>5

LEMMA FlattenMembers ==
  ASSUME NEW S, NEW seqs \in Seq(Seq(S)), NEW x
  PROVE  Occurs(FlattenSeq(seqs), x) <=> \E b \in DOMAIN seqs : Occurs(seqs[b], x)
<1>1. CASE Len(seqs) = 0
  <2>1. FlattenSeq(seqs) = seqs /\ DOMAIN seqs = {}
    BY <1>1 DEF FlattenSeq
  <2>2. QED
    BY <2>1 DEF Occurs
<1>2. CASE Len(seqs) # 0
  <2>1. AllSeqs(seqs)
    BY DEF AllSeqs, IsSeq
  <2>2. PICK f : /\ DOMAIN f = 1 .. Len(seqs)
                 /\ \A i \in 1 .. Len(seqs) : f[i] = Joined(seqs, i, f)
                 /\ FlattenSeq(seqs) = f[Len(seqs)]
    BY <1>2, <2>1, FlattenIs
  <2> DEFINE Right(k) == /\ f[k] \in Seq(S)
                         /\ Occurs(f[k], x) <=> \E b \in 1 .. k : Occurs(seqs[b], x)
             Good == {k \in Nat : k \in 1 .. Len(seqs) => Right(k)}
  <2>3. 0 \in Good
    OBVIOUS
  <2>4. ASSUME NEW k \in Nat, k \in Good PROVE k + 1 \in Good
    <3>1. SUFFICES ASSUME k + 1 \in 1 .. Len(seqs) PROVE Right(k + 1)
      OBVIOUS
    <3>2. f[k + 1] = Joined(seqs, k + 1, f) /\ seqs[k + 1] \in Seq(S)
      BY <2>2, <3>1
    <3>3. CASE k = 0
      <4>1. f[k + 1] = seqs[k + 1]
        BY <3>2, <3>3 DEF Joined
      <4>2. \A b \in 1 .. (k + 1) : b = k + 1
        BY <3>3
      <4>3. k + 1 \in 1 .. (k + 1)
        BY <3>3
      <4>4. QED
        BY <3>2, <4>1, <4>2, <4>3
    <3>4. CASE k # 0
      <4>1. (k + 1) - 1 = k /\ k + 1 # 1 /\ k \in 1 .. Len(seqs)
        BY <3>1, <3>4
      <4>2. f[k + 1] = f[k] \o seqs[k + 1]
        BY <3>2, <4>1 DEF Joined
      <4>3. Right(k)
        BY <2>4, <4>1
      <4>4. Occurs(f[k + 1], x) <=> Occurs(f[k], x) \/ Occurs(seqs[k + 1], x)
        <5>1. f[k] \in Seq(S) /\ seqs[k + 1] \in Seq(S)
          BY <3>2, <4>3
        <5>2. Occurs(f[k] \o seqs[k + 1], x) <=> Occurs(f[k], x) \/ Occurs(seqs[k + 1], x)
          BY <5>1, OccursInEither
        <5>3. QED
          BY <4>2, <5>2, Zenon
      <4>5. f[k + 1] \in Seq(S)
        <5>1. f[k] \in Seq(S) /\ seqs[k + 1] \in Seq(S)
          BY <3>2, <4>3
        <5>2. f[k] \o seqs[k + 1] \in Seq(S)
          BY <5>1
        <5>3. QED
          BY <4>2, <5>2, Zenon
      <4>6. /\ \A b \in 1 .. (k + 1) : b = k + 1 \/ b \in 1 .. k
            /\ \A b \in 1 .. k : b \in 1 .. (k + 1)
            /\ k + 1 \in 1 .. (k + 1)
        OBVIOUS
      <4>7. Occurs(f[k + 1], x) <=> \E b \in 1 .. (k + 1) : Occurs(seqs[b], x)
        BY <4>3, <4>4, <4>6
      <4>8. QED
        BY <4>5, <4>7
    <3>5. QED
      BY <3>3, <3>4
  <2> HIDE DEF Good
  <2>5. Nat \subseteq Good
    BY <2>3, <2>4, SetInduction
  <2>6. Len(seqs) \in Good /\ Len(seqs) \in 1 .. Len(seqs) /\ DOMAIN seqs = 1 .. Len(seqs)
    BY <1>2, <2>5
  <2>7. QED
    BY <2>2, <2>6 DEF Good
<1>3. QED
  BY <1>1, <1>2

-----------------------------------------------------------------------------
(* The sort, as the command uses it.                                       *)
LEMMA SameCardinality ==
  \A S : Sort!Cardinality(S) = SortProof!Cardinality(S)
BY DEF Sort!Cardinality, SortProof!Cardinality

LEMMA SortStarts ==
  IsGraph(DepGraph) /\ Sort!Call => SortInv'
<1> SUFFICES ASSUME IsGraph(DepGraph), Sort!Call PROVE SortInv'
  OBVIOUS
<1>1. SortProof!IsGraph(DepGraph)
  BY DEF IsGraph, SortProof!IsGraph, IsFiniteSet, SortProof!IsFiniteSet
<1>2. SortProof!Call
  BY SameCardinality DEF Sort!Call, SortProof!Call, Sort!InitialDegree, SortProof!InitialDegree
<1>3. SortProof!IInv'
  BY <1>1, <1>2, NameAssumption, SortProof!CallEstablishesInv
<1>4. SortProof!ChoiceInv'
  BY <1>2 DEF SortProof!Call, SortProof!ChoiceInv, SortProof!Greedy, SortProof!DoubleCount,
              SortProof!Ordered
<1>5. QED
  BY <1>3, <1>4 DEF SortInv

LEMMA SortGoesOn ==
  SortInv /\ ((\E n \in queue : Sort!Pop(n)) \/ Sort!Return) => SortInv' /\ verdict' # "idle"
<1>1. ASSUME SortInv, NEW n \in queue, Sort!Pop(n) PROVE SortInv' /\ verdict' # "idle"
  <2>1. SortProof!Pop(n)
    BY <1>1 DEF Sort!Pop, SortProof!Pop, Sort!IsHead, SortProof!IsHead, Sort!Consumers,
                SortProof!Consumers, Sort!Released, SortProof!Released, Sort!DepSet,
                SortProof!DepSet
  <2>2. SortProof!Next
    BY <2>1 DEF SortProof!Next
  <2>3. QED
    BY <1>1, <2>1, <2>2, NameAssumption, SortProof!PopKeepsInv, SortProof!ChoiceKept
    DEF SortInv, Sort!Pop
<1>2. ASSUME SortInv, Sort!Return PROVE SortInv' /\ verdict' # "idle"
  <2>1. SortProof!Return
    BY <1>2, SameCardinality DEF Sort!Return, SortProof!Return, Sort!Answer, SortProof!Answer
  <2>2. SortProof!Next
    BY <2>1 DEF SortProof!Next
  <2>3. QED
    BY <1>2, <2>1, <2>2, NameAssumption, SortProof!ReturnKeepsInv, SortProof!ChoiceKept
    DEF SortInv, Sort!Return, Sort!Answer
<1>3. QED
  BY <1>1, <1>2

LEMMA SortRests ==
  SortInv /\ UNCHANGED <<project, sortVars>> => SortInv'
<1> SUFFICES ASSUME SortInv, UNCHANGED <<project, sortVars>> PROVE SortInv'
  OBVIOUS
<1>1. UNCHANGED SortProof!vars
  BY DEF SortProof!vars, sortVars, DepGraph
<1>2. QED
  BY <1>1, NameAssumption, SortProof!StutterKeepsInv, SortProof!ChoiceKept DEF SortInv

(* What the rest of the command relies on.                                 *)
LEMMA SortFacts ==
  ASSUME SortInv
  PROVE  /\ order \in Seq(DOMAIN project)
         /\ verdict \in {"idle", "running", "none", "ordered"}
         /\ \A i \in DOMAIN order :
              Needs(DepGraph, order[i]) \subseteq {order[j] : j \in 1 .. (i - 1)}
         /\ verdict = "ordered" => /\ ~Cyclic(DepGraph)
                                   /\ NoRepeats(DepGraph)
                                   /\ {order[i] : i \in DOMAIN order} = DOMAIN project
         /\ verdict = "none" => Cyclic(DepGraph) \/ ~NoRepeats(DepGraph)
<1>1. DOMAIN DepGraph = DOMAIN project
  BY DEF DepGraph
<1>2. SortProof!OrdersOnlyAcyclic /\ SortProof!NoneMeansCycle
  BY NameAssumption, SortProof!OrderIsComplete, SortProof!NoneHasCycle DEF SortInv
<1>3. verdict = "ordered" => SortProof!NoRepeats(DepGraph)
  BY NameAssumption, SortProof!OrderedRepeatsNothing DEF SortInv
<1>4. Cyclic(DepGraph) <=> SortProof!Cyclic(DepGraph)
  BY DEF Cyclic, SortProof!Cyclic, IsCore, SortProof!IsCore, Needs, SortProof!Needs, DepSet,
         SortProof!DepSet
<1>5. NoRepeats(DepGraph) <=> SortProof!NoRepeats(DepGraph)
  BY DEF NoRepeats, SortProof!NoRepeats, RepeatsNothing, SortProof!RepeatsNothing
<1>6. order \in Seq(DOMAIN project) /\ verdict \in {"idle", "running", "none", "ordered"}
  BY <1>1 DEF SortInv, SortProof!IInv, SortProof!TypeOK
<1>7. \A i \in DOMAIN order :
        Needs(DepGraph, order[i]) \subseteq {order[j] : j \in 1 .. (i - 1)}
  BY DEF SortInv, SortProof!IInv, SortProof!DependencyFirst, Needs, SortProof!Needs, DepSet,
         SortProof!DepSet
<1>8. verdict = "ordered" => /\ ~Cyclic(DepGraph)
                             /\ {order[i] : i \in DOMAIN order} = DOMAIN project
  BY <1>1, <1>2, <1>4 DEF SortProof!OrdersOnlyAcyclic, SortProof!Ordered
<1>9. verdict = "none" => Cyclic(DepGraph) \/ ~NoRepeats(DepGraph)
  BY <1>2, <1>4, <1>5 DEF SortProof!NoneMeansCycle
<1>10. QED
  BY <1>3, <1>5, <1>6, <1>7, <1>8, <1>9

-----------------------------------------------------------------------------
(* The search, as the command uses it.                                     *)
LEMMA SearchStarts ==
  IsGraph(DepGraph) /\ Search!Call => SearchInv'
<1> SUFFICES ASSUME IsGraph(DepGraph), Search!Call PROVE SearchInv'
  OBVIOUS
<1>1. SearchProof!IsGraph(DepGraph)
  BY DEF IsGraph, SearchProof!IsGraph, IsFiniteSet, SearchProof!IsFiniteSet
<1>2. SearchProof!Call
  BY DEF Search!Call, SearchProof!Call
<1>3. QED
  BY <1>1, <1>2, NameAssumption, NoModuleAssumption, SearchProof!CallEstablishesInv DEF SearchInv

LEMMA SearchGoesOn ==
  ASSUME SearchInv, SearchStep
  PROVE  SearchInv' /\ phase' # "idle"
<1> USE NameAssumption, NoModuleAssumption
<1>1. DOMAIN DepGraph = DOMAIN project
  BY DEF DepGraph
<1>2. ASSUME NEW n, Search!Root(n) PROVE SearchInv' /\ phase' # "idle"
  <2>1. SearchProof!Root(n)
    BY <1>2 DEF Search!Root, SearchProof!Root, Search!IsLeast, SearchProof!IsLeast, Search!White,
                SearchProof!White, Search!Frame, SearchProof!Frame, Search!DepSet,
                SearchProof!DepSet
  <2>2. QED
    BY <1>2, <2>1, SearchProof!RootKeepsInv DEF SearchInv, Search!Root
<1>3. ASSUME Search!Exhausted PROVE SearchInv' /\ phase' # "idle"
  <2>1. SearchProof!Exhausted
    BY <1>3 DEF Search!Exhausted, SearchProof!Exhausted, Search!White, SearchProof!White
  <2>2. QED
    BY <1>3, <2>1, SearchProof!ExhaustedKeepsInv DEF SearchInv, Search!Exhausted
<1>4. ASSUME Search!Finish PROVE SearchInv' /\ phase' # "idle"
  <2>1. SearchProof!Finish
    BY <1>4 DEF Search!Finish, SearchProof!Finish, Search!Top, SearchProof!Top, Search!Below,
                SearchProof!Below
  <2>2. QED
    BY <1>4, <2>1, SearchProof!FinishKeepsInv DEF SearchInv, Search!Finish
<1>5. ASSUME NEW n PROVE /\ Search!PopNeighbour(n) => SearchProof!PopNeighbour(n)
                         /\ Search!Advanced(n) = SearchProof!Advanced(n)
                         /\ Search!Top = SearchProof!Top
                         /\ Search!White = SearchProof!White
                         /\ Search!Frame(n) = SearchProof!Frame(n)
  BY DEF Search!PopNeighbour, SearchProof!PopNeighbour, Search!IsLeast, SearchProof!IsLeast,
         Search!Advanced, SearchProof!Advanced, Search!Top, SearchProof!Top, Search!Below,
         SearchProof!Below, Search!White, SearchProof!White, Search!Frame, SearchProof!Frame,
         Search!DepSet, SearchProof!DepSet
<1>6. ASSUME NEW n, Search!Skip(n) PROVE SearchInv' /\ phase' # "idle"
  <2>1. SearchProof!Skip(n)
    BY <1>5, <1>6 DEF Search!Skip, SearchProof!Skip
  <2>2. QED
    BY <1>6, <2>1, SearchProof!SkipKeepsInv DEF SearchInv, Search!Skip, Search!PopNeighbour
<1>7. ASSUME NEW n, Search!Descend(n) PROVE SearchInv' /\ phase' # "idle"
  <2>1. SearchProof!Descend(n)
    BY <1>5, <1>7 DEF Search!Descend, SearchProof!Descend
  <2>2. QED
    BY <1>7, <2>1, SearchProof!DescendKeepsInv DEF SearchInv, Search!Descend, Search!PopNeighbour
<1>8. ASSUME NEW n, Search!Close(n) PROVE SearchInv' /\ phase' # "idle"
  <2>1. SearchProof!Close(n)
    BY <1>5, <1>8 DEF Search!Close, SearchProof!Close
  <2>2. QED
    BY <1>8, <2>1, SearchProof!CloseKeepsInv DEF SearchInv, Search!Close
<1>9. ASSUME Search!WalkUp PROVE SearchInv' /\ phase' # "idle"
  <2>1. SearchProof!WalkUp
    BY <1>9 DEF Search!WalkUp, SearchProof!WalkUp, Search!Target, SearchProof!Target
  <2>2. QED
    BY <1>9, <2>1, SearchProof!WalkUpKeepsInv DEF SearchInv, Search!WalkUp
<1>10. ASSUME Search!ReturnCycle PROVE SearchInv' /\ phase' # "idle"
  <2>1. SearchProof!ReturnCycle
    BY <1>10 DEF Search!ReturnCycle, SearchProof!ReturnCycle, Search!Target, SearchProof!Target
  <2>2. QED
    BY <1>10, <2>1, SearchProof!ReturnKeepsInv DEF SearchInv, Search!ReturnCycle
<1>11. QED
  BY <1>2, <1>3, <1>4, <1>6, <1>7, <1>8, <1>9, <1>10 DEF SearchStep

LEMMA SearchRests ==
  SearchInv /\ UNCHANGED <<project, searchVars>> => SearchInv'
<1> SUFFICES ASSUME SearchInv, UNCHANGED <<project, searchVars>> PROVE SearchInv'
  OBVIOUS
<1>1. UNCHANGED SearchProof!vars
  BY DEF SearchProof!vars, searchVars, DepGraph
<1>2. QED
  BY <1>1, NameAssumption, NoModuleAssumption, SearchProof!StutterKeepsInv DEF SearchInv

LEMMA SearchFacts ==
  ASSUME SearchInv
  PROVE  /\ phase \in {"idle", "search", "walk", "cycle", "none"}
         /\ phase = "none" => ~Cyclic(DepGraph)
         /\ phase = "cycle" => Cyclic(DepGraph)
<1>1. SearchProof!VerdictIsRight
  BY NameAssumption, NoModuleAssumption, SearchProof!VerdictFromInv DEF SearchInv
<1>2. Cyclic(DepGraph) <=> SearchProof!Cyclic(DepGraph)
  BY DEF Cyclic, SearchProof!Cyclic, IsCore, SearchProof!IsCore, Needs, SearchProof!Needs, DepSet,
         SearchProof!DepSet
<1>3. QED
  BY <1>1, <1>2 DEF SearchProof!VerdictIsRight, SearchInv, SearchProof!IInv, SearchProof!TypeOK

-----------------------------------------------------------------------------
(* The dependency graph is well formed, whatever the modules name.         *)
LEMMA GraphWellFormed == Shape => IsGraph(DepGraph)
<1> SUFFICES ASSUME Shape PROVE IsGraph(DepGraph)
  OBVIOUS
<1>1. DOMAIN DepGraph = DOMAIN project
  BY DEF DepGraph
<1>2. ASSUME NEW n \in DOMAIN project PROVE DepGraph[n] \in Seq(Name)
  <2>1. PICK i \in DOMAIN files : files[i] = project[n]
    BY DEF Shape
  <2>2. project[n] \in Contents /\ IsModule(project[n])
    BY <2>1 DEF Shape
  <2>3. project[n].blocks \in Seq(Seq(Name))
    BY <2>2, ContentsAssumption
  <2>4. DepGraph[n] = FlattenSeq(project[n].blocks)
    BY DEF DepGraph, Dependencies
  <2>5. QED
    BY <2>3, <2>4, FlattenTyped
<1>3. QED
  BY <1>1, <1>2 DEF IsGraph, Shape

(* The rules tell the graph's findings apart.                              *)
LEMMA CycleIsReported ==
  Judged => (HasCycleDiagnostic <=> phase = "cycle")
<1> SUFFICES ASSUME Judged PROVE HasCycleDiagnostic <=> phase = "cycle"
  OBVIOUS
<1>1. \A d \in MissingDiagnostics \cup OrphanDiagnostics : d.rule # "G2"
  BY DEF MissingDiagnostics, OrphanDiagnostics, Marad, Advisory
<1>2. \A d \in CycleDiagnostics : phase = "cycle" /\ d.rule = "G2"
  BY DEF CycleDiagnostics, Marad
<1>3. phase = "cycle" => CycleDiagnostics # {}
  BY DEF CycleDiagnostics
<1>4. QED
  BY <1>1, <1>2, <1>3 DEF Judged, HasCycleDiagnostic

LEMMA MachinesRest ==
  MachinesRight /\ UNCHANGED <<project, sortVars, searchVars>> => MachinesRight'
BY SortRests, SearchRests DEF MachinesRight, sortVars, searchVars

LEMMA ShapeRests ==
  Shape /\ UNCHANGED <<files, project, order>> /\ next' \in 1 .. (Len(order) + 1) => Shape'
BY DEF Shape

(* What is said of the project stays true while the project stays.         *)
LEMMA ProjectRests ==
  ASSUME UNCHANGED <<files, project>>
  PROVE  /\ DepGraph' = DepGraph /\ MissingDiagnostics' = MissingDiagnostics
         /\ OrphanDiagnostics' = OrphanDiagnostics
         /\ \A n : Findings(n)' = Findings(n)
         /\ AllStored' = AllStored /\ HasModules' = HasModules
<1>1. DepGraph' = DepGraph
  BY DEF DepGraph
<1>2. QED
  BY <1>1 DEF MissingDiagnostics, OrphanDiagnostics, Findings, Imported, AllStored, HasModules

LEMMA JudgementRests ==
  Judged /\ UNCHANGED <<files, project, found, phase, path>> => Judged'
BY ProjectRests DEF Judged, CycleDiagnostics

-----------------------------------------------------------------------------
LEMMA InitHolds == Init => IInv
<1> SUFFICES ASSUME Init PROVE IInv
  OBVIOUS
<1> USE DEF Init
<1>1. DOMAIN project = {} /\ IsFiniteSet(DOMAIN project) /\ Cardinality(DOMAIN project) = 0
  BY FS_EmptySet
<1>2. Shape
  BY <1>1 DEF Shape
<1>3. MachinesRight
  BY DEF MachinesRight
<1>4. Progress
  BY <1>1 DEF Progress, Loading, AllStored
<1>5. QED
  BY <1>2, <1>3, <1>4 DEF IInv, Stages, Running

LEMMA AddKeepsInv == ASSUME IInv, NEW c \in Contents, AddFile(c) PROVE IInv'
<1>1. /\ Shape /\ MachinesRight /\ AllStored /\ verdict = "idle" /\ phase = "idle"
      /\ results = << >> /\ next = 1 /\ exit = Running
  BY DEF IInv, Progress, Loading, AddFile
<1>2. /\ DOMAIN project' = DOMAIN project \cup {c.name} /\ c.name \notin DOMAIN project
      /\ \A n \in DOMAIN project' : project'[n] = IF n = c.name THEN c ELSE project[n]
      /\ c.name \in Name /\ IsModule(c)
  BY ContentsAssumption DEF AddFile, Store
<1>3. /\ IsFiniteSet(DOMAIN project')
      /\ Cardinality(DOMAIN project') = Cardinality(DOMAIN project) + 1
  <2>1. /\ IsFiniteSet(DOMAIN project \cup {c.name})
        /\ Cardinality(DOMAIN project \cup {c.name}) = Cardinality(DOMAIN project) + 1
    BY <1>1, <1>2, FS_AddElement DEF Shape
  <2>2. QED
    BY <1>2, <2>1
<1>4. /\ files' \in Seq(Contents) /\ Len(files') = Len(files) + 1
      /\ files'[Len(files) + 1] = c
      /\ \A i \in DOMAIN files : files'[i] = files[i] /\ i \in DOMAIN files'
      /\ Len(files) + 1 \in DOMAIN files'
  BY <1>1 DEF AddFile, Shape
<1>5. \A n \in DOMAIN project' :
        /\ IsModule(project'[n]) /\ project'[n].name = n
        /\ \E i \in DOMAIN files' : files'[i] = project'[n]
  <2>1. SUFFICES ASSUME NEW n \in DOMAIN project'
                 PROVE  /\ IsModule(project'[n]) /\ project'[n].name = n
                        /\ \E i \in DOMAIN files' : files'[i] = project'[n]
    OBVIOUS
  <2>2. CASE n = c.name
    BY <1>2, <1>4, <2>2
  <2>3. CASE n # c.name
    BY <1>1, <1>2, <1>4, <2>3 DEF Shape
  <2>4. QED
    BY <2>2, <2>3
<1>6. order' = order /\ next' = next /\ order \in Seq(DOMAIN project')
  BY <1>1, <1>2 DEF AddFile, Shape, sortVars
<1>7. Shape'
  BY <1>1, <1>2, <1>3, <1>4, <1>5, <1>6 DEF Shape
<1>8. MachinesRight'
  BY <1>1 DEF MachinesRight, AddFile, sortVars, searchVars
<1>9. Progress'
  BY <1>1, <1>3, <1>4 DEF Progress, Loading, AllStored, AddFile, sortVars, searchVars
<1>10. QED
  BY <1>1, <1>7, <1>8, <1>9 DEF IInv, Stages, AddFile

(* The steps that only move the command on: the machines rest.             *)
LEMMA StepRests ==
  ASSUME IInv, UNCHANGED <<project, sortVars, searchVars>>, UNCHANGED files,
         next' \in 1 .. (Len(order) + 1)
  PROVE  Shape' /\ MachinesRight'
BY ShapeRests, MachinesRest DEF IInv, sortVars

LEMMA RejectKeepsInv == ASSUME IInv, NEW c \in Contents, RejectFile(c) PROVE IInv'
<1>1. /\ Shape /\ MachinesRight /\ AllStored /\ results = << >> /\ UNCHANGED project
      /\ UNCHANGED <<sortVars, searchVars, order, next, results>>
      /\ files' = Append(files, c) /\ pc' = "done" /\ exit' \in {1, 2}
  BY DEF IInv, Progress, Loading, RejectFile, Stop, FaultCode, sortVars
<1>2. /\ files' \in Seq(Contents) /\ Len(files') = Len(files) + 1
      /\ \A i \in DOMAIN files : files'[i] = files[i] /\ i \in DOMAIN files'
  BY <1>1 DEF Shape
<1>3. Shape'
  BY <1>1, <1>2 DEF Shape
<1>4. MachinesRight'
  BY <1>1, MachinesRest
<1>5. Ended'
  BY <1>1, <1>2 DEF Ended, Refused, AllStored
<1>6. QED
  BY <1>1, <1>3, <1>4, <1>5 DEF IInv, Progress, Stages, Running

LEMMA LoadedKeepsInv == IInv /\ Loaded => IInv'
<1> SUFFICES ASSUME IInv, Loaded PROVE IInv'
  OBVIOUS
<1>1. /\ Shape /\ AllStored /\ results = << >> /\ next = 1 /\ verdict = "idle" /\ phase = "idle"
      /\ exit = Running
  BY DEF IInv, Progress, Loading, Loaded
<1>2. UNCHANGED <<files, project, found, results, next, sortVars, searchVars, verdict, phase>>
  BY DEF Loaded, sortVars, searchVars
<1>3. Shape' /\ MachinesRight'
  BY <1>1, <1>2, StepRests DEF Shape
<1>4. CASE DOMAIN project = {}
  <2>1. pc' = "done" /\ exit' = 0
    BY <1>4 DEF Loaded, Stop
  <2>2. Cardinality(DOMAIN project) = 0
    BY <1>4, FS_EmptySet
  <2>3. files = << >>
    BY <1>1, <2>2 DEF AllStored, Shape
  <2>4. Ended'
    BY <1>1, <1>2, <1>4, <2>1, <2>3 DEF Ended, Nothing
  <2>5. QED
    BY <1>3, <2>1, <2>4 DEF IInv, Progress, Stages, Running
<1>5. CASE DOMAIN project # {}
  <2>1. pc' = "graph" /\ exit' = exit
    BY <1>5 DEF Loaded
  <2>2. Loading' /\ HasModules'
    BY <1>1, <1>2, <1>5 DEF Loading, HasModules, AllStored
  <2>3. QED
    BY <1>1, <1>2, <1>3, <2>1, <2>2 DEF IInv, Progress, Stages
<1>6. QED
  BY <1>4, <1>5

LEMMA CheckFileKeepsInv == ASSUME IInv, NEW c \in Contents, CheckFile(c) PROVE IInv'
<1>1. /\ Shape /\ MachinesRight /\ AllStored /\ exit = Running /\ files = << >>
      /\ UNCHANGED <<project, sortVars, searchVars, order, next, exit>>
      /\ files' = <<c>> /\ pc' = "fileChecked" /\ IsModule(c)
      /\ results' = Only(c.name, CheckSingleModule(c, {}))
  BY DEF IInv, Progress, Loading, CheckFile, sortVars
<1>2. DOMAIN project = {}
  BY <1>1, FS_EmptySet DEF Shape, AllStored
<1>3. files' \in Seq(Contents) /\ Len(files') = 1 /\ files'[1] = c
  BY <1>1
<1>4. Shape'
  BY <1>1, <1>2, <1>3 DEF Shape
<1>5. MachinesRight'
  BY <1>1, MachinesRest
<1>6. FileChecked'
  BY <1>1, <1>2, <1>3 DEF FileChecked
<1>7. QED
  BY <1>1, <1>4, <1>5, <1>6 DEF IInv, Progress, Stages

LEMMA RefuseFileKeepsInv == ASSUME IInv, NEW c \in Contents, RefuseFile(c) PROVE IInv'
<1>1. /\ Shape /\ MachinesRight /\ AllStored /\ files = << >> /\ results = << >>
      /\ UNCHANGED <<project, sortVars, searchVars, order, next, results>>
      /\ files' = <<c>> /\ pc' = "done" /\ exit' \in {1, 2}
  BY DEF IInv, Progress, Loading, RefuseFile, Stop, FaultCode, sortVars
<1>2. DOMAIN project = {} /\ Cardinality(DOMAIN project) = 0
  BY <1>1, FS_EmptySet DEF Shape, AllStored
<1>3. files' \in Seq(Contents) /\ Len(files') = 1
  BY <1>1
<1>4. Shape'
  BY <1>1, <1>2, <1>3 DEF Shape
<1>5. MachinesRight'
  BY <1>1, MachinesRest
<1>6. Ended'
  BY <1>1, <1>2, <1>3 DEF Ended, Refused
<1>7. QED
  BY <1>1, <1>4, <1>5, <1>6 DEF IInv, Progress, Stages, Running

-----------------------------------------------------------------------------
(* check_graph.                                                            *)
LEMMA CheckMissingKeepsInv == IInv /\ CheckMissing => IInv'
<1> SUFFICES ASSUME IInv, CheckMissing PROVE IInv'
  OBVIOUS
<1>1. /\ Shape /\ MachinesRight /\ Loading /\ HasModules /\ phase = "idle" /\ exit = Running
  BY DEF IInv, Progress, CheckMissing
<1>2. /\ UNCHANGED <<files, project, results, next, exit, searchVars, phase>>
      /\ found' = MissingDiagnostics /\ pc' = "sort"
      /\ verdict' = "running" /\ order' = << >>
  BY DEF CheckMissing, Sort!Call, searchVars
<1>3. SortInv'
  BY <1>1, GraphWellFormed, SortStarts DEF CheckMissing
<1>4. Shape'
  BY <1>1, <1>2 DEF Shape, Loading
<1>5. MachinesRight'
  BY <1>1, <1>2, <1>3 DEF MachinesRight
<1>6. Loading' /\ HasModules' /\ found' = MissingDiagnostics'
  BY <1>1, <1>2, ProjectRests DEF Loading, HasModules, AllStored
<1>7. QED
  BY <1>1, <1>2, <1>4, <1>5, <1>6 DEF IInv, Progress, Stages

LEMMA SortStepKeepsInv == IInv /\ SortStep => IInv'
<1> SUFFICES ASSUME IInv, SortStep PROVE IInv'
  OBVIOUS
<1>1. /\ Shape /\ MachinesRight /\ SortInv /\ pc \in {"sort", "resort"} /\ exit = Running
  BY DEF IInv, SortStep, MachinesRight
<1>2. UNCHANGED <<graphOnly, files, project, pc, found, results, next, exit, searchVars, phase, path>>
  BY DEF SortStep, flags, searchVars
<1>3. SortInv' /\ verdict' # "idle"
  BY <1>1, SortGoesOn DEF SortStep
<1>4. order' \in Seq(DOMAIN project)
  <2>1. DOMAIN DepGraph' = DOMAIN project
    BY <1>2 DEF DepGraph
  <2>2. order' \in Seq(DOMAIN DepGraph')
    BY <1>3 DEF SortInv, SortProof!IInv, SortProof!TypeOK
  <2>3. QED
    BY <2>1, <2>2
<1>5. next = 1 /\ next' = 1
  BY <1>1, <1>2 DEF IInv, Progress, Loading, GraphJudged
<1>6. Shape'
  BY <1>1, <1>2, <1>4, <1>5 DEF Shape
<1>7. MachinesRight'
  <2>1. phase # "idle" => SearchInv'
    BY <1>1, <1>2, SearchRests DEF MachinesRight
  <2>2. QED
    BY <1>2, <1>3, <2>1 DEF MachinesRight
<1>8. CASE pc = "sort"
  <2>1. Loading /\ HasModules /\ found = MissingDiagnostics /\ phase = "idle"
    BY <1>8 DEF IInv, Progress
  <2>2. Loading' /\ HasModules' /\ found' = MissingDiagnostics'
    BY <1>2, <2>1, ProjectRests DEF Loading, HasModules, AllStored
  <2>3. QED
    BY <1>1, <1>2, <1>3, <1>6, <1>7, <1>8, <2>1, <2>2 DEF IInv, Progress, Stages
<1>9. CASE pc = "resort"
  <2>1. Judged /\ results = << >> /\ next = 1 /\ ~graphOnly /\ phase # "cycle"
    BY <1>9 DEF IInv, Progress, GraphJudged
  <2>2. Judged'
    BY <1>2, <2>1, JudgementRests
  <2>3. QED
    BY <1>1, <1>2, <1>6, <1>7, <1>9, <2>1, <2>2 DEF IInv, Progress, Stages, GraphJudged
<1>10. QED
  BY <1>1, <1>8, <1>9

LEMMA StartSearchKeepsInv == IInv /\ StartSearch => IInv'
<1> SUFFICES ASSUME IInv, StartSearch PROVE IInv'
  OBVIOUS
<1>1. /\ Shape /\ MachinesRight /\ Loading /\ HasModules /\ found = MissingDiagnostics
      /\ verdict = "none" /\ exit = Running
  BY DEF IInv, Progress, StartSearch
<1>2. /\ UNCHANGED <<files, project, found, results, next, exit, sortVars, order, verdict>>
      /\ pc' = "search" /\ phase' = "search"
  BY DEF StartSearch, Search!Call, sortVars
<1>3. SearchInv'
  BY <1>1, GraphWellFormed, SearchStarts DEF StartSearch
<1>4. Shape'
  BY <1>1, <1>2 DEF Shape
<1>5. MachinesRight'
  BY <1>1, <1>2, <1>3, SortRests DEF MachinesRight
<1>6. Loading' /\ HasModules' /\ found' = MissingDiagnostics'
  BY <1>1, <1>2, ProjectRests DEF Loading, HasModules, AllStored
<1>7. QED
  BY <1>1, <1>2, <1>4, <1>5, <1>6 DEF IInv, Progress, Stages

LEMMA SearchStepKeepsInv == IInv /\ SearchStep => IInv'
<1> SUFFICES ASSUME IInv, SearchStep PROVE IInv'
  OBVIOUS
<1>1. /\ Shape /\ MachinesRight /\ Loading /\ HasModules /\ found = MissingDiagnostics
      /\ phase # "idle" /\ exit = Running
  BY DEF IInv, Progress, SearchStep
<1>2. /\ UNCHANGED <<files, project, pc, found, results, next, exit, sortVars, order, verdict>>
      /\ pc = "search"
  BY DEF SearchStep, sortVars
<1>3. SearchInv' /\ phase' # "idle"
  BY <1>1, SearchGoesOn DEF MachinesRight
<1>4. Shape'
  BY <1>1, <1>2 DEF Shape
<1>5. MachinesRight'
  BY <1>1, <1>2, <1>3, SortRests DEF MachinesRight
<1>6. Loading' /\ HasModules' /\ found' = MissingDiagnostics'
  BY <1>1, <1>2, ProjectRests DEF Loading, HasModules, AllStored
<1>7. QED
  BY <1>1, <1>2, <1>3, <1>4, <1>5, <1>6 DEF IInv, Progress, Stages

LEMMA CheckOrphansKeepsInv == IInv /\ CheckOrphans => IInv'
<1> SUFFICES ASSUME IInv, CheckOrphans PROVE IInv'
  OBVIOUS
<1>1. /\ Shape /\ MachinesRight /\ Loading /\ HasModules /\ found = MissingDiagnostics
      /\ exit = Running
      /\ \/ verdict = "ordered" /\ phase = "idle"
         \/ phase \in {"cycle", "none"}
  BY DEF IInv, Progress, CheckOrphans
<1>2. UNCHANGED <<files, project, results, next, exit, sortVars, searchVars, phase, path>>
  BY DEF CheckOrphans, searchVars
<1>3. found' = MissingDiagnostics \cup CycleDiagnostics \cup OrphanDiagnostics /\ pc' = "graphChecked"
  BY <1>1 DEF CheckOrphans
<1>4. phase = "cycle" <=> Cyclic(DepGraph)
  BY <1>1, SortFacts, SearchFacts DEF MachinesRight
<1>5. Shape' /\ MachinesRight'
  BY <1>1, <1>2, StepRests DEF Shape
<1>6. Judged'
  <2>1. /\ found' = MissingDiagnostics' \cup CycleDiagnostics' \cup OrphanDiagnostics'
        /\ HasModules' /\ (phase' = "cycle" <=> Cyclic(DepGraph'))
    BY <1>1, <1>2, <1>3, <1>4, ProjectRests DEF CycleDiagnostics
  <2>2. QED
    BY <2>1 DEF Judged
<1>7. QED
  BY <1>1, <1>2, <1>3, <1>5, <1>6 DEF IInv, Progress, Stages, GraphJudged, Loading

-----------------------------------------------------------------------------
(* check_all.                                                              *)
LEMMA GraphOnlyKeepsInv == IInv /\ GraphOnly => IInv'
<1> SUFFICES ASSUME IInv, GraphOnly PROVE IInv'
  OBVIOUS
<1>1. Shape /\ Judged /\ next = 1 /\ exit = Running /\ graphOnly
  BY DEF IInv, Progress, GraphJudged, GraphOnly
<1>2. /\ UNCHANGED <<graphOnly, files, project, found, next, exit, sortVars, searchVars, phase, path>>
      /\ results' = GraphResults /\ pc' = "report"
  BY DEF GraphOnly, flags, searchVars
<1>3. Shape' /\ MachinesRight'
  BY <1>1, <1>2, StepRests DEF Shape
<1>4. Judged'
  BY <1>1, <1>2, JudgementRests
<1>5. /\ DOMAIN results' \subseteq {GraphKey}
      /\ found # {} => GraphKey \in DOMAIN results'
      /\ GraphKey \in DOMAIN results' => results'[GraphKey] = found
  BY <1>2 DEF GraphResults, Only
<1>6. ResultsRight' /\ Coverage'
  BY <1>1, <1>2, <1>5 DEF ResultsRight, Coverage
<1>7. QED
  BY <1>1, <1>2, <1>3, <1>4, <1>6 DEF IInv, Progress, Stages, Reportable

LEMMA ShortCircuitKeepsInv == IInv /\ ShortCircuit => IInv'
<1> SUFFICES ASSUME IInv, ShortCircuit PROVE IInv'
  OBVIOUS
<1>1. Shape /\ Judged /\ next = 1 /\ exit = Running
  BY DEF IInv, Progress, GraphJudged, ShortCircuit
<1>2. /\ UNCHANGED <<graphOnly, files, project, found, next, exit, sortVars, searchVars, phase, path>>
      /\ results' = Only(GraphKey, found) /\ pc' = "report"
  BY DEF ShortCircuit, flags, searchVars
<1>3. Shape' /\ MachinesRight'
  BY <1>1, <1>2, StepRests DEF Shape
<1>4. Judged' /\ phase' = "cycle"
  BY <1>1, <1>2, JudgementRests, CycleIsReported DEF ShortCircuit
<1>5. DOMAIN results' = {GraphKey} /\ results'[GraphKey] = found
  BY <1>2 DEF Only
<1>6. ResultsRight' /\ Coverage'
  BY <1>2, <1>4, <1>5 DEF ResultsRight, Coverage
<1>7. QED
  BY <1>1, <1>2, <1>3, <1>4, <1>6 DEF IInv, Progress, Stages, Reportable

LEMMA SortAgainKeepsInv == IInv /\ SortAgain => IInv'
<1> SUFFICES ASSUME IInv, SortAgain PROVE IInv'
  OBVIOUS
<1>1. Shape /\ MachinesRight /\ GraphJudged /\ ~graphOnly /\ phase # "cycle" /\ exit = Running
  BY CycleIsReported DEF IInv, Progress, GraphJudged, SortAgain
<1>2. /\ UNCHANGED <<graphOnly, files, project, found, results, next, exit, order, searchVars,
                     phase, path>>
      /\ verdict' = "idle" /\ pc' = "resort"
  BY DEF SortAgain, flags, searchVars
<1>3. Shape'
  BY <1>1, <1>2 DEF Shape
<1>4. MachinesRight'
  BY <1>1, <1>2, SearchRests DEF MachinesRight
<1>5. GraphJudged'
  BY <1>1, <1>2, JudgementRests DEF GraphJudged
<1>6. QED
  BY <1>1, <1>2, <1>3, <1>4, <1>5 DEF IInv, Progress, Stages

LEMMA CallAgainKeepsInv == IInv /\ CallAgain => IInv'
<1> SUFFICES ASSUME IInv, CallAgain PROVE IInv'
  OBVIOUS
<1>1. Shape /\ MachinesRight /\ GraphJudged /\ ~graphOnly /\ phase # "cycle" /\ exit = Running
  BY DEF IInv, Progress, CallAgain
<1>2. /\ UNCHANGED <<graphOnly, files, project, found, results, next, exit, searchVars, phase, path>>
      /\ verdict' = "running" /\ order' = << >> /\ pc = "resort" /\ pc' = "resort"
  BY DEF CallAgain, Sort!Call, flags, searchVars
<1>3. SortInv'
  BY <1>1, GraphWellFormed, SortStarts DEF CallAgain
<1>4. Shape'
  BY <1>1, <1>2 DEF Shape, GraphJudged
<1>5. MachinesRight'
  BY <1>1, <1>2, <1>3, SearchRests DEF MachinesRight
<1>6. GraphJudged'
  BY <1>1, <1>2, JudgementRests DEF GraphJudged
<1>7. QED
  BY <1>1, <1>2, <1>4, <1>5, <1>6 DEF IInv, Progress, Stages

LEMMA NoOrderKeepsInv == IInv /\ NoOrder => IInv'
<1> SUFFICES ASSUME IInv, NoOrder PROVE IInv'
  OBVIOUS
<1>1. /\ Shape /\ Judged /\ next = 1 /\ ~graphOnly /\ phase # "cycle" /\ exit = Running
      /\ verdict = "none"
  BY DEF IInv, Progress, GraphJudged, NoOrder
<1>2. /\ UNCHANGED <<graphOnly, files, project, found, next, exit, sortVars, verdict, searchVars,
                     phase, path>>
      /\ results' = Only(GraphKey, found) /\ pc' = "report"
  BY DEF NoOrder, flags, sortVars, searchVars
<1>3. Shape' /\ MachinesRight'
  BY <1>1, <1>2, StepRests DEF Shape
<1>4. Judged'
  BY <1>1, <1>2, JudgementRests
<1>5. DOMAIN results' = {GraphKey} /\ results'[GraphKey] = found
  BY <1>2 DEF Only
<1>6. ResultsRight' /\ Coverage'
  BY <1>1, <1>2, <1>5 DEF ResultsRight, Coverage
<1>7. QED
  BY <1>1, <1>2, <1>3, <1>4, <1>6 DEF IInv, Progress, Stages, Reportable

LEMMA StartModulesKeepsInv == IInv /\ StartModules => IInv'
<1> SUFFICES ASSUME IInv, StartModules PROVE IInv'
  OBVIOUS
<1>1. /\ Shape /\ Judged /\ next = 1 /\ ~graphOnly /\ phase # "cycle" /\ exit = Running
      /\ verdict = "ordered"
  BY DEF IInv, Progress, GraphJudged, StartModules
<1>2. /\ UNCHANGED <<graphOnly, files, project, found, exit, sortVars, verdict, searchVars,
                     phase, path>>
      /\ results' = GraphResults /\ pc' = "modules" /\ next' = 1
  BY DEF StartModules, flags, sortVars, searchVars
<1>3. Shape' /\ MachinesRight'
  BY <1>1, <1>2, StepRests DEF Shape
<1>4. Judged'
  BY <1>1, <1>2, JudgementRests
<1>5. /\ DOMAIN results' \subseteq {GraphKey}
      /\ found # {} => GraphKey \in DOMAIN results'
      /\ GraphKey \in DOMAIN results' => results'[GraphKey] = found
  BY <1>2 DEF GraphResults, Only
<1>6. ResultsRight' /\ CheckedSoFar'
  BY <1>2, <1>5 DEF ResultsRight, CheckedSoFar
<1>7. QED
  BY <1>1, <1>2, <1>3, <1>4, <1>6 DEF IInv, Progress, Stages, ModulesGoOn

LEMMA CheckModuleKeepsInv == IInv /\ CheckModule => IInv'
<1> SUFFICES ASSUME IInv, CheckModule PROVE IInv'
  OBVIOUS
<1> DEFINE n == order[next]
<1>1. /\ Shape /\ MachinesRight /\ Judged /\ ~graphOnly /\ phase # "cycle"
      /\ verdict = "ordered" /\ ResultsRight /\ CheckedSoFar /\ exit = Running
  BY DEF IInv, Progress, ModulesGoOn, CheckModule
<1>2. /\ UNCHANGED <<graphOnly, files, project, found, exit, order, sortVars, verdict, searchVars,
                     phase, path>>
      /\ pc' = "modules" /\ next' = next + 1
  BY DEF CheckModule, flags, sortVars, searchVars
<1>3. next \in Nat /\ next \in DOMAIN order /\ next <= Len(order) /\ Len(order) \in Nat
  BY <1>1 DEF Shape, CheckModule
<1>4. n \in DOMAIN project /\ n \in Name
  BY <1>1, <1>3 DEF Shape
<1>5. /\ DOMAIN results' = DOMAIN results \cup {n}
      /\ \A k \in DOMAIN results' : results'[k] = IF k = n THEN Findings(n) ELSE results[k]
  BY DEF CheckModule, SetResult, Findings
<1>6. Shape' /\ MachinesRight'
  BY <1>1, <1>2, <1>3, StepRests DEF Shape
<1>7. Judged'
  BY <1>1, <1>2, JudgementRests
<1>8. \A k \in DOMAIN results' \ {GraphKey} : results'[k] = Findings(k)'
  <2>1. \A k : Findings(k)' = Findings(k)
    BY <1>2, ProjectRests
  <2>2. QED
    BY <1>1, <1>5, <2>1 DEF ResultsRight
<1>9. ResultsRight'
  <2>1. DOMAIN results' \subseteq DOMAIN project' \cup {GraphKey}
    BY <1>1, <1>2, <1>4, <1>5 DEF ResultsRight
  <2>2. GraphKey \notin Name =>
          /\ found' # {} => GraphKey \in DOMAIN results'
          /\ GraphKey \in DOMAIN results' => results'[GraphKey] = found'
    BY <1>1, <1>2, <1>4, <1>5 DEF ResultsRight
  <2>3. QED
    BY <1>8, <2>1, <2>2 DEF ResultsRight
<1>10. CheckedSoFar'
  <2>1. \A i \in 1 .. next : i = next \/ i \in 1 .. (next - 1)
    BY <1>3
  <2>2. \A i \in 1 .. next : order[i] \in DOMAIN results'
    BY <1>1, <1>5, <2>1 DEF CheckedSoFar
  <2>3. (next + 1) - 1 = next
    BY <1>3
  <2>4. QED
    BY <1>2, <2>2, <2>3 DEF CheckedSoFar
<1>11. QED
  BY <1>1, <1>2, <1>6, <1>7, <1>9, <1>10 DEF IInv, Progress, Stages, ModulesGoOn

LEMMA ModulesCheckedKeepsInv == IInv /\ ModulesChecked => IInv'
<1> SUFFICES ASSUME IInv, ModulesChecked PROVE IInv'
  OBVIOUS
<1>1. /\ Shape /\ MachinesRight /\ Judged /\ ~graphOnly /\ phase # "cycle"
      /\ verdict = "ordered" /\ ResultsRight /\ CheckedSoFar /\ exit = Running
  BY DEF IInv, Progress, ModulesGoOn, ModulesChecked
<1>2. /\ UNCHANGED <<graphOnly, files, project, found, results, next, exit, sortVars, verdict,
                     searchVars, phase, path>>
      /\ pc' = "report"
  BY DEF ModulesChecked, flags, sortVars, searchVars
<1>3. Shape' /\ MachinesRight'
  BY <1>1, <1>2, StepRests DEF Shape
<1>4. Judged'
  BY <1>1, <1>2, JudgementRests
<1>5. DOMAIN order = 1 .. (next - 1)
  BY <1>1 DEF Shape, ModulesChecked
<1>6. DOMAIN project \subseteq DOMAIN results
  BY <1>1, <1>5, SortFacts DEF MachinesRight, CheckedSoFar
<1>7. ResultsRight'
  BY <1>1, <1>2, ProjectRests DEF ResultsRight
<1>8. Coverage'
  BY <1>1, <1>2, <1>6 DEF Coverage
<1>9. QED
  BY <1>1, <1>2, <1>3, <1>4, <1>7, <1>8 DEF IInv, Progress, Stages, Reportable

-----------------------------------------------------------------------------
(* The report.                                                             *)
LEMMA ExitCodes == ExitCode \in {0, 1, 3} /\ (ExitCode = 0 <=> Reported = {})
BY DEF ExitCode

LEMMA ReportKeepsInv == IInv /\ Report => IInv'
<1> SUFFICES ASSUME IInv, Report PROVE IInv'
  OBVIOUS
<1>1. Shape /\ Judged /\ ResultsRight /\ Coverage
  BY DEF IInv, Progress, Reportable, Report
<1>2. /\ UNCHANGED <<strict, graphOnly, files, project, found, results, next, sortVars, verdict,
                     searchVars, phase, path>>
      /\ pc' = "done" /\ exit' = ExitCode
  BY DEF Report, Stop, flags, sortVars, searchVars
<1>3. Shape' /\ MachinesRight'
  BY <1>1, <1>2, StepRests DEF Shape
<1>4. Judged'
  BY <1>1, <1>2, JudgementRests
<1>5. ResultsRight' /\ Coverage'
  BY <1>1, <1>2, ProjectRests DEF ResultsRight, Coverage
<1>6. exit' = ExitCode'
  BY <1>2 DEF ExitCode, Reported
<1>7. exit' # Running
  BY <1>2, ExitCodes DEF Running
<1>8. QED
  BY <1>2, <1>3, <1>4, <1>5, <1>6, <1>7 DEF IInv, Progress, Stages, Ended, Reportable

LEMMA ReportFileKeepsInv == IInv /\ ReportFile => IInv'
<1> SUFFICES ASSUME IInv, ReportFile PROVE IInv'
  OBVIOUS
<1>1. Shape /\ FileChecked
  BY DEF IInv, Progress, ReportFile
<1>2. /\ UNCHANGED <<strict, files, project, found, results, next, sortVars, searchVars>>
      /\ pc' = "done" /\ exit' = ExitCode
  BY DEF ReportFile, Stop, flags
<1>3. Shape' /\ MachinesRight'
  BY <1>1, <1>2, StepRests DEF Shape
<1>4. FileChecked'
  BY <1>1, <1>2 DEF FileChecked
<1>5. exit' = ExitCode'
  BY <1>2 DEF ExitCode, Reported
<1>6. exit' # Running
  BY <1>2, ExitCodes DEF Running
<1>7. QED
  BY <1>2, <1>3, <1>4, <1>5, <1>6 DEF IInv, Progress, Stages, Ended

LEMMA StutterKeepsInv == IInv /\ UNCHANGED vars => IInv'
<1> SUFFICES ASSUME IInv, UNCHANGED vars PROVE IInv'
  OBVIOUS
<1>1. UNCHANGED <<strict, graphOnly, files, project, pc, found, results, next, exit, sortVars,
                  order, verdict, searchVars, phase, path>>
  BY DEF vars, flags, sortVars, searchVars
<1>2. Shape' /\ MachinesRight'
  BY <1>1, StepRests DEF IInv, Shape
<1>3. /\ Loading' = Loading /\ HasModules' = HasModules /\ FileChecked' = FileChecked
      /\ MissingDiagnostics' = MissingDiagnostics /\ Nothing' = Nothing /\ Refused' = Refused
      /\ ExitCode' = ExitCode
  BY <1>1, ProjectRests DEF Loading, FileChecked, Nothing, Refused, ExitCode, Reported, AllStored
<1>4. Judged => Judged'
  BY <1>1, JudgementRests
<1>5. ResultsRight => ResultsRight'
  BY <1>1, ProjectRests DEF ResultsRight
<1>6. (Coverage => Coverage') /\ (CheckedSoFar => CheckedSoFar')
  BY <1>1 DEF Coverage, CheckedSoFar
<1>7. Progress'
  BY <1>1, <1>3, <1>4, <1>5, <1>6 DEF IInv, Progress, GraphJudged, ModulesGoOn, Reportable, Ended
<1>8. QED
  BY <1>1, <1>2, <1>7 DEF IInv

(* At every step the command stands where its results say it stands.       *)
THEOREM Invariance == Spec => []IInv
<1>1. Init => IInv
  BY InitHolds
<1>2. IInv /\ [Next]_vars => IInv'
  BY AddKeepsInv, RejectKeepsInv, LoadedKeepsInv, CheckFileKeepsInv, RefuseFileKeepsInv,
     CheckMissingKeepsInv, SortStepKeepsInv, StartSearchKeepsInv, SearchStepKeepsInv,
     CheckOrphansKeepsInv, GraphOnlyKeepsInv, ShortCircuitKeepsInv, SortAgainKeepsInv,
     CallAgainKeepsInv, NoOrderKeepsInv, StartModulesKeepsInv, CheckModuleKeepsInv,
     ModulesCheckedKeepsInv, ReportKeepsInv, ReportFileKeepsInv, StutterKeepsInv DEF Next
<1>3. QED
  BY <1>1, <1>2, PTL DEF Spec

-----------------------------------------------------------------------------
(* The command keeps the shape the code gives its data: the results are    *)
(* kept under names of modules read from the files or under the graph's    *)
(* key, and the walk over the order never leaves it.                       *)
THEOREM TypeCorrect == Spec => []TypeOK
<1>1. IInv => TypeOK
  <2> SUFFICES ASSUME IInv PROVE TypeOK
    OBVIOUS
  <2> DEFINE Read == {files[i].name : i \in {j \in DOMAIN files : IsModule(files[j])}}
  <2>1. Shape /\ Progress /\ pc \in Stages /\ (exit = Running <=> pc # "done")
    BY DEF IInv
  <2>2. \A n \in DOMAIN project : project[n] \in Contents /\ project[n].name = n /\ n \in Read
    BY <2>1 DEF Shape
  <2>3. DOMAIN << >> = {}
    OBVIOUS
  <2>4. ResultsRight => DOMAIN results \subseteq Read \cup {GraphKey}
    BY <2>2 DEF ResultsRight
  <2>5. FileChecked => DOMAIN results \subseteq Read
    <3>1. SUFFICES ASSUME FileChecked PROVE DOMAIN results \subseteq Read
      OBVIOUS
    <3>2. DOMAIN results = {files[1].name} /\ IsModule(files[1])
      BY <3>1 DEF FileChecked, Only
    <3>3. 1 \in DOMAIN files
      BY <2>1, <3>1 DEF FileChecked, Shape
    <3>4. QED
      BY <3>2, <3>3
  <2>6. DOMAIN results \subseteq Read \cup {GraphKey}
    BY <2>1, <2>3, <2>4, <2>5
    DEF Progress, Stages, Loading, GraphJudged, ModulesGoOn, Reportable, Ended, Refused, Nothing
  <2>7. exit \in {Running, 0, 1, 2, 3}
    BY <2>1, ExitCodes DEF Progress, Ended
  <2>8. QED
    BY <2>1, <2>2, <2>6, <2>7 DEF TypeOK, Shape
<1>2. QED
  BY <1>1, Invariance, PTL

(* What a command that got through all its checks leaves behind.           *)
LEMMA CompletedMeans == IInv /\ Completed => Shape /\ Reportable /\ exit = ExitCode
<1> SUFFICES ASSUME IInv, Completed PROVE Shape /\ Reportable /\ exit = ExitCode
  OBVIOUS
<1>1. Shape /\ Ended
  BY DEF IInv, Progress, Completed
<1>2. Len(files) \in Nat /\ Cardinality(DOMAIN project) \in Nat
  BY <1>1, FS_CardinalityType DEF Shape
<1>3. ~Refused /\ ~Nothing
  BY <1>2 DEF Completed, Refused, Nothing
<1>4. ~FileChecked
  BY FS_EmptySet DEF FileChecked, Completed
<1>5. QED
  BY <1>1, <1>3, <1>4 DEF Ended

(* What becomes of the machines when the command is done.                  *)
LEMMA Verdicts ==
  IInv => /\ verdict = "ordered" => NoRepeats(DepGraph)
          /\ verdict = "none" => Cyclic(DepGraph) \/ ~NoRepeats(DepGraph)
          /\ \A i \in DOMAIN order :
               verdict # "idle" =>
                 Needs(DepGraph, order[i]) \subseteq {order[j] : j \in 1 .. (i - 1)}
BY SortFacts DEF IInv, MachinesRight

(* No finding of the graph is lost on the way to the report, unless a      *)
(* module bears the name under which they are kept.                        *)
THEOREM GraphFindingsStandHolds ==
  ASSUME GraphKey \notin Name PROVE Spec => []GraphFindingsStand
<1>1. IInv => GraphFindingsStand
  <2> SUFFICES ASSUME IInv, Completed PROVE found \subseteq UNION {results[k] : k \in DOMAIN results}
    BY DEF GraphFindingsStand
  <2>1. ResultsRight
    BY CompletedMeans DEF Reportable
  <2>2. QED
    BY <2>1 DEF ResultsRight
<1>2. QED
  BY <1>1, Invariance, PTL

(* Every module of a project without a cycle is checked, as long as no     *)
(* module names another one twice.                                         *)
THEOREM CheckedUnlessRepeatedHolds == Spec => []CheckedUnlessRepeated
<1>1. IInv => CheckedUnlessRepeated
  <2> SUFFICES ASSUME IInv, NoRepeats(DepGraph), Completed, ~graphOnly, ~Cyclic(DepGraph)
               PROVE  DOMAIN project \subseteq DOMAIN results
    BY DEF CheckedUnlessRepeated, EveryModuleChecked
  <2>1. Judged /\ Coverage
    BY CompletedMeans DEF Reportable
  <2>2. phase # "cycle" /\ verdict # "none"
    BY <2>1, Verdicts DEF Judged
  <2>3. QED
    BY <2>1, <2>2 DEF Coverage
<1>2. QED
  BY <1>1, Invariance, PTL

(* And only then: in a project without a cycle in which some module names  *)
(* another one twice, no module is checked at all.                         *)
THEOREM RepeatsLeaveAllUnchecked ==
  Spec => [](Completed /\ ~graphOnly /\ ~Cyclic(DepGraph) /\ ~NoRepeats(DepGraph)
               => DOMAIN results \subseteq {GraphKey})
<1>1. IInv => (Completed /\ ~graphOnly /\ ~Cyclic(DepGraph) /\ ~NoRepeats(DepGraph)
                 => DOMAIN results \subseteq {GraphKey})
  <2> SUFFICES ASSUME IInv, Completed, ~graphOnly, ~Cyclic(DepGraph), ~NoRepeats(DepGraph)
               PROVE  DOMAIN results \subseteq {GraphKey}
    OBVIOUS
  <2>1. Judged /\ Coverage
    BY CompletedMeans DEF Reportable
  <2>2. phase # "cycle" /\ verdict # "ordered"
    BY <2>1, Verdicts DEF Judged
  <2>3. QED
    BY <2>1, <2>2 DEF Coverage
<1>2. QED
  BY <1>1, Invariance, PTL

(* The exit code follows from the findings of the graph and those of the   *)
(* modules that were checked, and from nothing else.                       *)
LEMMA ExitDecided ==
  ASSUME IInv, Completed, GraphKey \notin Name
  PROVE  exit = 0 <=> /\ Marads(found) = {}
                      /\ \A n \in DOMAIN results \cap DOMAIN project : Marads(Findings(n)) = {}
<1>1. ResultsRight /\ Shape /\ exit = ExitCode
  BY CompletedMeans DEF Reportable
<1>2. exit = 0 <=> \A k \in DOMAIN results : Marads(results[k]) = {}
  BY <1>1, ExitCodes DEF Reported
<1>3. GraphKey \notin DOMAIN project
  BY <1>1 DEF Shape
<1>4. \A n \in DOMAIN results \cap DOMAIN project : results[n] = Findings(n)
  BY <1>1, <1>3 DEF ResultsRight
<1>5. /\ GraphKey \in DOMAIN results => results[GraphKey] = found
      /\ GraphKey \notin DOMAIN results => found = {}
  BY <1>1 DEF ResultsRight
<1>6. Marads({}) = {}
  BY DEF Marads
<1>7. DOMAIN results \subseteq DOMAIN project \cup {GraphKey}
  BY <1>1 DEF ResultsRight
<1>8. QED
  BY <1>2, <1>4, <1>5, <1>6, <1>7

(* A pass is earned: a project that exits with 0 has no cycle, no missing  *)
(* target and no module that violates a rule, if no module names another   *)
(* one twice and none bears the name of the graph's key.                   *)
THEOREM PassIsEarnedHolds ==
  ASSUME GraphKey \notin Name PROVE Spec => []PassIsEarned
<1>1. IInv => PassIsEarned
  <2> SUFFICES ASSUME IInv, exit = 0 PROVE PassIsEarned
    BY DEF PassIsEarned
  <2>1. ASSUME Completed
        PROVE  /\ ~Cyclic(DepGraph)
               /\ MissingTargets(DepGraph) = {}
               /\ ~graphOnly /\ NoRepeats(DepGraph) =>
                    \A n \in DOMAIN project : Marads(Findings(n)) = {}
    <3>1. Judged /\ Coverage /\ Marads(found) = {}
      BY <2>1, CompletedMeans, ExitDecided DEF Reportable
    <3>2. MissingTargets(DepGraph) = {}
      <4>1. \A edge \in MissingTargets(DepGraph) : Marad("G1", edge) \in Marads(found)
        BY <3>1 DEF Judged, MissingDiagnostics, Marads, Marad
      <4>2. QED
        BY <3>1, <4>1
    <3>3. phase # "cycle"
      <4>1. phase = "cycle" => Marad("G2", path) \in Marads(found)
        BY <3>1 DEF Judged, CycleDiagnostics, Marads, Marad
      <4>2. QED
        BY <3>1, <4>1
    <3>4. ~Cyclic(DepGraph)
      BY <3>1, <3>3 DEF Judged
    <3>5. ASSUME ~graphOnly, NoRepeats(DepGraph), NEW n \in DOMAIN project
          PROVE  Marads(Findings(n)) = {}
      <4>1. n \in DOMAIN results
        BY <3>1, <3>3, <3>4, <3>5, Verdicts DEF Coverage
      <4>2. QED
        BY <2>1, <3>5, <4>1, ExitDecided
    <3>6. QED
      BY <3>2, <3>4, <3>5
  <2>2. ASSUME FileDone PROVE Marads(CheckSingleModule(files[1], {})) = {}
    <3>1. Ended /\ DOMAIN project = {} /\ DOMAIN results # {}
      BY <2>2 DEF FileDone, IInv, Progress
    <3>2. DOMAIN << >> = {}
      OBVIOUS
    <3>3. FileChecked /\ exit = ExitCode
      BY <3>1, <3>2 DEF Ended, Refused, Nothing, Reportable, Judged, HasModules
    <3>4. DOMAIN results = {files[1].name}
          /\ results[files[1].name] = CheckSingleModule(files[1], {})
      BY <3>3 DEF FileChecked, Only
    <3>5. QED
      BY <3>3, <3>4, ExitCodes DEF Reported
  <2>3. QED
    BY <2>1, <2>2 DEF PassIsEarned, Findings
<1>2. QED
  BY <1>1, Invariance, PTL

(* What the graph says a module needs is what its tanzil blocks name.      *)
LEMMA DependencyIsNeed ==
  ASSUME Shape, NEW n \in DOMAIN project
  PROVE  Dependency(n) = Needs(DepGraph, n)
<1>1. PICK i \in DOMAIN files : files[i] = project[n] /\ IsModule(project[n])
  BY DEF Shape
<1>2. project[n] \in Contents
  BY <1>1 DEF Shape
<1>3. project[n].blocks \in Seq(Seq(Name))
  BY <1>1, <1>2, ContentsAssumption
<1>4. DepGraph[n] = FlattenSeq(project[n].blocks) /\ DOMAIN DepGraph = DOMAIN project
  BY DEF DepGraph, Dependencies
<1>5. \A d : Occurs(DepGraph[n], d) <=> \E b \in DOMAIN project[n].blocks :
                                         Occurs(project[n].blocks[b], d)
  BY <1>3, <1>4, FlattenMembers
<1>6. QED
  BY <1>4, <1>5 DEF Dependency, Needs, DepSet, Occurs

(* The R1 findings of a module are about the types it names and nobody     *)
(* gives it.                                                               *)
LEMMA UndefinedReported ==
  ASSUME NEW m, NEW imported, ~m.functions => m.refs = {}
  PROVE  {d.about : d \in {d \in CheckSingleModule(m, imported) : d.rule = "R1"}}
           = m.refs \ (m.types \cup BuiltinTypes \cup imported)
<1> DEFINE R1(D) == {d \in D : d.rule = "R1"}
<1>1. R1(CheckTanzil(m)) = {}
  <2>1. ASSUME NEW i \in DOMAIN m.blocks PROVE R1(CheckBlock(m.blocks[i], m.name)) = {}
    BY DEF CheckBlock, Marad, Advisory
  <2>2. QED
    BY <2>1 DEF CheckTanzil
<1>2. R1(OtherChecks(m)) = {}
  BY DEF OtherChecks
<1>3. R1(UnreferencedTypes(m)) = {}
  BY DEF UnreferencedTypes, Advisory
<1>4. R1(UndefinedTypes(m, imported)) = UndefinedTypes(m, imported)
  BY DEF UndefinedTypes, Marad
<1>5. R1(CheckRingClose(m, imported)) = UndefinedTypes(m, imported)
  <2>1. CASE IsEmpty(m)
    <3>1. m.refs = {}
      BY <2>1 DEF IsEmpty
    <3>2. UndefinedTypes(m, imported) = {} /\ R1({Advisory("R2", m.name)}) = {}
      BY <3>1 DEF UndefinedTypes, Advisory
    <3>3. QED
      BY <2>1, <3>2 DEF CheckRingClose
  <2>2. CASE ~IsEmpty(m)
    <3>1. CheckRingClose(m, imported) = UndefinedTypes(m, imported) \cup UnreferencedTypes(m)
      BY <2>2 DEF CheckRingClose
    <3>2. QED
      BY <1>3, <1>4, <3>1
  <2>3. QED
    BY <2>1, <2>2
<1>6. R1(CheckSingleModule(m, imported)) = UndefinedTypes(m, imported)
  BY <1>1, <1>2, <1>5 DEF CheckSingleModule
<1>7. {d.about : d \in UndefinedTypes(m, imported)}
        = m.refs \ (m.types \cup BuiltinTypes \cup imported)
  <2> DEFINE T == m.refs \ (m.types \cup BuiltinTypes \cup imported)
  <2>1. UndefinedTypes(m, imported) = {Marad("R1", t) : t \in T}
    BY DEF UndefinedTypes
  <2>2. \A t : Marad("R1", t).about = t
    BY DEF Marad
  <2> HIDE DEF T
  <2>3. {d.about : d \in {Marad("R1", t) : t \in T}} = T
    BY <2>2
  <2>4. QED
    BY <2>1, <2>3 DEF T
<1>8. QED
  BY <1>6, <1>7

(* A module sees the types of its direct dependencies and no others: each  *)
(* module that was checked is ordered after the modules its tanzil blocks  *)
(* name, and R1 is reported of exactly the types that neither it nor one   *)
(* of these declares.                                                      *)
THEOREM TypesOfDependenciesHolds == Spec => []TypesOfDependencies
<1>1. IInv => TypesOfDependencies
  <2> SUFFICES ASSUME IInv, Completed,
                      NEW n \in (DOMAIN project \cap DOMAIN results) \ {GraphKey}
               PROVE  /\ \A d \in Dependency(n) :
                           \E j \in DOMAIN order :
                             order[j] = n /\ \E i \in 1 .. (j - 1) : order[i] = d
                      /\ {d.about : d \in {d \in results[n] : d.rule = "R1"}}
                           = project[n].refs \ Known(n)
    BY DEF TypesOfDependencies
  <2>1. Shape /\ ResultsRight /\ Coverage
    BY CompletedMeans DEF Reportable
  <2>2. Dependency(n) = Needs(DepGraph, n)
    BY <2>1, DependencyIsNeed
  <2>3. ASSUME NEW d \in Dependency(n)
        PROVE  \E j \in DOMAIN order :
                 order[j] = n /\ \E i \in 1 .. (j - 1) : order[i] = d
    <3>1. verdict = "ordered"
      BY <2>1 DEF Coverage
    <3>2. PICK j \in DOMAIN order : order[j] = n
      BY <3>1, SortFacts DEF IInv, MachinesRight
    <3>3. Needs(DepGraph, order[j]) \subseteq {order[i] : i \in 1 .. (j - 1)}
      BY <3>1, Verdicts
    <3>4. QED
      BY <2>2, <3>2, <3>3
  <2>4. results[n] = CheckSingleModule(project[n], Imported(n))
    BY <2>1 DEF ResultsRight, Findings
  <2>5. ~project[n].functions => project[n].refs = {}
    <3>1. project[n] \in Contents /\ IsModule(project[n])
      BY <2>1 DEF Shape
    <3>2. QED
      BY <3>1, ContentsAssumption
  <2>6. Known(n) = project[n].types \cup BuiltinTypes \cup Imported(n)
    BY <2>2 DEF Known, Imported
  <2>7. {d.about : d \in {d \in results[n] : d.rule = "R1"}} = project[n].refs \ Known(n)
    BY <2>4, <2>5, <2>6, UndefinedReported
  <2>8. QED
    BY <2>3, <2>7
<1>2. QED
  BY <1>1, Invariance, PTL
=============================================================================
