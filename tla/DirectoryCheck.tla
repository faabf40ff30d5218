--------------------------- MODULE DirectoryCheck ---------------------------
(***************************************************************************)
(* `furqan check <file>` runs the nine checkers on one module.             *)
(* `furqan check <directory>`: the files are parsed in path order into a   *)
(* project, the dependency graph is checked (G1 missing target, G2 cycle,  *)
(* G3 orphan) with topological_order and _find_cycle, the modules are      *)
(* checked in topological order, and the findings decide the exit code.    *)
(* The sort and the search are the machines of KahnSort and CycleSearch.   *)
(***************************************************************************)
EXTENDS ProjectGraph, ModuleDiagnostics

CONSTANTS
  NoModule,     \* None where a module name is expected
  GraphKey,     \* the key "__graph__" of the results
  Contents,     \* what a file may hold: a parsed module or a fault
  MaxFiles      \* bound on the files of the directory

ASSUME NoModuleAssumption == NoModule \notin Name

IsModule(c) == c.fault = "none"

ASSUME ContentsAssumption ==
  \A c \in Contents :
    IsModule(c) => /\ c.name \in Name
                   /\ c.blocks \in Seq(Seq(Name))
                   /\ ~c.functions => c.refs = {}

VARIABLES
  strict, graphOnly,                  \* the two flags of the command line
  files,                              \* the contents read so far, in path order
  project,                            \* Project.modules
  pc,                                 \* where the command stands
  found,                              \* graph_diagnostics of check_graph
  results,                            \* the dictionary check_all returns
  next,                               \* index in order of the module to check
  exit,                               \* the exit code, Running before there is one
  inDegree, queue, order, verdict,    \* of the running topological_order
  color, parent, stack, phase, cursor, path   \* of the running _find_cycle

sortVars == <<inDegree, queue, order, verdict>>
searchVars == <<color, parent, stack, phase, cursor, path>>
flags == <<strict, graphOnly>>
vars == <<flags, files, project, pc, found, results, next, exit, sortVars, searchVars>>

Running == -1

DepGraph == [n \in DOMAIN project |-> Dependencies(project[n])]

Sort == INSTANCE KahnSort WITH graph <- DepGraph, Graphs <- {}
Search == INSTANCE CycleSearch WITH graph <- DepGraph, Graphs <- {}

Init ==
  /\ strict \in BOOLEAN /\ graphOnly \in BOOLEAN
  /\ files = << >> /\ project = << >>
  /\ pc = "load" /\ found = {} /\ results = << >> /\ next = 1 /\ exit = Running
  /\ inDegree = << >> /\ queue = {} /\ order = << >> /\ verdict = "idle"
  /\ color = << >> /\ parent = << >> /\ stack = << >>
  /\ phase = "idle" /\ cursor = NoModule /\ path = << >>

Stop(code) == pc' = "done" /\ exit' = code

-----------------------------------------------------------------------------
(* add_directory: one add_file for each file, the first failure ends it.   *)
Store(m) == [n \in DOMAIN project \cup {m.name} |->
               IF n = m.name THEN m ELSE project[n]]

AddFile(c) ==
  /\ pc = "load"
  /\ Len(files) < MaxFiles
  /\ IsModule(c)
  /\ c.name \notin DOMAIN project
  /\ files' = Append(files, c)
  /\ project' = Store(c)
  /\ UNCHANGED <<flags, pc, found, results, next, exit, sortVars, searchVars>>

(* TokenizeError and ParseError end the command with 2; a repeated name,   *)
(* and a file that is not UTF-8 (UnicodeDecodeError), are both ValueErrors *)
(* and end it with 1.                                                      *)
FaultCode(c) == IF c.fault = "parse" THEN 2 ELSE 1

RejectFile(c) ==
  /\ pc = "load"
  /\ Len(files) < MaxFiles
  /\ IsModule(c) => c.name \in DOMAIN project
  /\ files' = Append(files, c)
  /\ Stop(FaultCode(c))
  /\ UNCHANGED <<flags, project, found, results, next, sortVars, searchVars>>

(* No file is left.                                                        *)
Loaded ==
  /\ pc = "load"
  /\ IF DOMAIN project = {}
     THEN Stop(0)
     ELSE pc' = "graph" /\ UNCHANGED exit
  /\ UNCHANGED <<flags, files, project, found, results, next, sortVars, searchVars>>

-----------------------------------------------------------------------------
(* A dictionary of one key.                                                *)
Only(key, diagnostics) == [k \in {key} |-> diagnostics]

(* The argument names a file: _cmd_check goes no further than its module,  *)
(* which imports nothing; --graph-only is ignored.                         *)
CheckFile(c) ==
  /\ pc = "load" /\ files = << >>
  /\ IsModule(c)
  /\ files' = <<c>>
  /\ results' = Only(c.name, CheckSingleModule(c, {}))
  /\ pc' = "fileChecked"
  /\ UNCHANGED <<flags, project, found, next, exit, sortVars, searchVars>>

(* A parse error is 2; a file that is not UTF-8 ends the interpreter with  *)
(* a traceback and 1, as one of another suffix or name does.               *)
RefuseFile(c) ==
  /\ pc = "load" /\ files = << >>
  /\ ~IsModule(c)
  /\ files' = <<c>>
  /\ Stop(FaultCode(c))
  /\ UNCHANGED <<flags, project, found, results, next, sortVars, searchVars>>

-----------------------------------------------------------------------------
(* check_graph: G1, then the sort, then the search if the sort answers     *)
(* None, then G3.                                                          *)
MissingDiagnostics == {Marad("G1", edge) : edge \in MissingTargets(DepGraph)}

CheckMissing ==
  /\ pc = "graph"
  /\ found' = MissingDiagnostics
  /\ pc' = "sort"
  /\ UNCHANGED <<flags, files, project, results, next, exit>>
  /\ Sort!Call
  /\ UNCHANGED searchVars

SortStep ==
  /\ pc \in {"sort", "resort"}
  /\ verdict = "running"
  /\ UNCHANGED <<flags, files, project, pc, found, results, next, exit, searchVars>>
  /\ (\E n \in queue : Sort!Pop(n)) \/ Sort!Return

StartSearch ==
  /\ pc = "sort"
  /\ verdict = "none"
  /\ pc' = "search"
  /\ UNCHANGED <<flags, files, project, found, results, next, exit, sortVars>>
  /\ Search!Call

SearchStep ==
  /\ pc = "search"
  /\ UNCHANGED <<flags, files, project, pc, found, results, next, exit, sortVars>>
  /\ \/ \E n \in DOMAIN project : Search!Root(n)
     \/ Search!Exhausted
     \/ Search!Finish
     \/ \E n \in Name : Search!Skip(n) \/ Search!Descend(n) \/ Search!Close(n)
     \/ Search!WalkUp
     \/ Search!ReturnCycle

CycleDiagnostics == IF phase = "cycle" THEN {Marad("G2", path)} ELSE {}
OrphanDiagnostics == {Advisory("G3", n) : n \in Orphans(DepGraph)}

(* The end of check_graph.                                                 *)
CheckOrphans ==
  /\ \/ pc = "sort" /\ verdict = "ordered"
     \/ pc = "search" /\ phase \in {"cycle", "none"}
  /\ found' = found \cup CycleDiagnostics \cup OrphanDiagnostics
  /\ pc' = "graphChecked"
  /\ UNCHANGED <<flags, files, project, results, next, exit, sortVars, searchVars>>
-----------------------------------------------------------------------------
(* check_all, or the report alone if only the graph is asked for.          *)
HasCycleDiagnostic == \E d \in found : d.rule = "G2"

(* Faulty variant of GraphResults.                                         *)
GraphResultsMaradsOnly ==
  IF Marads(found) = {} THEN << >> ELSE Only(GraphKey, Marads(found))

GraphResults == IF found = {} THEN << >> ELSE Only(GraphKey, found)

GraphOnly ==
  /\ pc = "graphChecked"
  /\ graphOnly
  /\ results' = GraphResults
  /\ pc' = "report"
  /\ UNCHANGED <<flags, files, project, found, next, exit, sortVars, searchVars>>

(* A G2 diagnostic ends check_all before any module is checked.            *)
ShortCircuit ==
  /\ pc = "graphChecked"
  /\ ~graphOnly
  /\ HasCycleDiagnostic
  /\ results' = Only(GraphKey, found)
  /\ pc' = "report"
  /\ UNCHANGED <<flags, files, project, found, next, exit, sortVars, searchVars>>

(* Faulty variant of SortAgain.                                            *)
CheckGraphAgain ==
  /\ pc = "graphChecked"
  /\ ~graphOnly
  /\ ~HasCycleDiagnostic
  /\ verdict' = "idle"
  /\ pc' = "graph"
  /\ UNCHANGED <<flags, files, project, found, results, next, exit>>
  /\ UNCHANGED <<inDegree, queue, order, searchVars>>

(* check_all sorts the graph a second time.                                *)
SortAgain ==
  /\ pc = "graphChecked"
  /\ ~graphOnly
  /\ ~HasCycleDiagnostic
  /\ verdict' = "idle"
  /\ pc' = "resort"
  /\ UNCHANGED <<flags, files, project, found, results, next, exit>>
  /\ UNCHANGED <<inDegree, queue, order, searchVars>>

CallAgain ==
  /\ pc = "resort"
  /\ UNCHANGED <<flags, files, project, pc, found, results, next, exit, searchVars>>
  /\ Sort!Call

NoOrder ==
  /\ pc = "resort"
  /\ verdict = "none"
  /\ results' = Only(GraphKey, found)
  /\ pc' = "report"
  /\ UNCHANGED <<flags, files, project, found, next, exit, sortVars, searchVars>>

(* Faulty variant of StartModules.                                         *)
StartModulesAtZero ==
  /\ pc = "resort"
  /\ verdict = "ordered"
  /\ results' = GraphResults
  /\ next' = 0
  /\ pc' = "modules"
  /\ UNCHANGED <<flags, files, project, found, exit, sortVars, searchVars>>

StartModules ==
  /\ pc = "resort"
  /\ verdict = "ordered"
  /\ results' = GraphResults
  /\ next' = 1
  /\ pc' = "modules"
  /\ UNCHANGED <<flags, files, project, found, exit, sortVars, searchVars>>

(* Faulty variant of Imported: a dependency hands on what it imports.      *)
ImportedTransitively(n) ==
  LET direct == Needs(DepGraph, n)
      further == UNION {Needs(DepGraph, d) : d \in direct}
  IN  UNION {project[d].types : d \in direct \cup further}

(* The types of the modules n depends on directly.                         *)
Imported(n) == UNION {project[d].types : d \in Needs(DepGraph, n)}

(* One module, in topological order; its findings replace whatever the     *)
(* results hold under its name.                                            *)
SetResult(key, diagnostics) ==
  [k \in DOMAIN results \cup {key} |-> IF k = key THEN diagnostics ELSE results[k]]

CheckModule ==
  /\ pc = "modules"
  /\ next <= Len(order)
  /\ LET n == order[next]
     IN  results' = SetResult(n, CheckSingleModule(project[n], Imported(n)))
  /\ next' = next + 1
  /\ UNCHANGED <<flags, files, project, pc, found, exit, sortVars, searchVars>>

(* Faulty variant of ModulesChecked.                                       *)
ModulesCheckedEarly ==
  /\ pc = "modules"
  /\ next >= Len(order)
  /\ pc' = "report"
  /\ UNCHANGED <<flags, files, project, found, results, next, exit, sortVars, searchVars>>

ModulesChecked ==
  /\ pc = "modules"
  /\ next > Len(order)
  /\ pc' = "report"
  /\ UNCHANGED <<flags, files, project, found, results, next, exit, sortVars, searchVars>>

-----------------------------------------------------------------------------
(* _report_directory_results: the exit code.                               *)
(* Faulty variant of Reported.                                             *)
ReportedModules == UNION {Marads(results[k]) : k \in DOMAIN results \ {GraphKey}}

Reported == UNION {Marads(results[k]) : k \in DOMAIN results}

ExitCode == IF Reported = {} THEN 0 ELSE IF strict THEN 3 ELSE 1

Report ==
  /\ pc = "report"
  /\ Stop(ExitCode)
  /\ UNCHANGED <<flags, files, project, found, results, next, sortVars, searchVars>>

(* The end of _cmd_check decides alike for a file.                         *)
ReportFile ==
  /\ pc = "fileChecked"
  /\ Stop(ExitCode)
  /\ UNCHANGED <<flags, files, project, found, results, next, sortVars, searchVars>>

Next ==
  \/ \E c \in Contents : AddFile(c) \/ RejectFile(c)
  \/ \E c \in Contents : CheckFile(c) \/ RefuseFile(c)
  \/ ReportFile
  \/ Loaded
  \/ CheckMissing \/ SortStep \/ StartSearch \/ SearchStep \/ CheckOrphans
  \/ GraphOnly \/ ShortCircuit \/ SortAgain \/ CallAgain \/ NoOrder
  \/ StartModules \/ CheckModule \/ ModulesChecked
  \/ Report

Spec == Init /\ [][Next]_vars

FairSpec == Spec /\ WF_vars(Next)

-----------------------------------------------------------------------------
(* The state keeps the shape the code gives it.                            *)
TypeOK ==
  /\ DOMAIN project \subseteq Name
  /\ \A n \in DOMAIN project : project[n] \in Contents /\ project[n].name = n
  /\ DOMAIN results \subseteq
       {files[i].name : i \in {j \in DOMAIN files : IsModule(files[j])}} \cup {GraphKey}
  /\ next \in 1 .. (Len(order) + 1)
  /\ exit \in {Running, 0, 1, 2, 3}
  /\ exit = Running <=> pc # "done"

(* The command got through all its checks: the directory holds files, and  *)
(* none of them was refused.                                               *)
Completed == pc = "done" /\ files # << >> /\ Len(files) = Cardinality(DOMAIN project)

(* The command was given a file and checked it.                            *)
FileDone == pc = "done" /\ DOMAIN project = {} /\ DOMAIN results # {}

(* "0 PASS - zero Marad diagnostics": what exits with 0 has no cycle, no   *)
(* missing target, and (where no module names a dependency twice) no       *)
(* module that violates a rule when it is checked with the types of its    *)
(* direct dependencies; a file, none with no other types than its own.     *)
PassIsEarned ==
  exit = 0 =>
    /\ Completed =>
         /\ ~Cyclic(DepGraph)
         /\ MissingTargets(DepGraph) = {}
         /\ ~graphOnly /\ NoRepeats(DepGraph) =>
              \A n \in DOMAIN project : Marads(CheckSingleModule(project[n], Imported(n))) = {}
    /\ FileDone => Marads(CheckSingleModule(files[1], {})) = {}

(* "Run every per-module checker on every module", which only "a G2 cycle  *)
(* short-circuits".                                                        *)
EveryModuleChecked ==
  Completed /\ ~graphOnly /\ ~Cyclic(DepGraph) => DOMAIN project \subseteq DOMAIN results

(* The same of a project in which no module names a dependency twice: then *)
(* the sort and the search agree on what a cycle is.                       *)
CheckedUnlessRepeated ==
  NoRepeats(DepGraph) => EveryModuleChecked

(* "Always surface graph-level diagnostics": what check_graph found is     *)
(* among the results that are reported.                                    *)
GraphFindingsStand ==
  Completed => found \subseteq UNION {results[k] : k \in DOMAIN results}

(* The modules of the project that stand in a tanzil block of n, and the   *)
(* types signatures of n may name: builtin, its own, and those declared in *)
(* a module it depends on.                                                 *)
Dependency(n) ==
  {d \in DOMAIN project :
     \E b \in DOMAIN project[n].blocks :
       \E i \in DOMAIN project[n].blocks[b] : project[n].blocks[b][i] = d}

Known(n) == BuiltinTypes \cup UNION {project[d].types : d \in Dependency(n) \cup {n}}

(* "A module sees the compound type names exported by its directly         *)
(* declared dependencies only, not transitively": a module that was        *)
(* checked is ordered after every module its tanzil blocks name, and its   *)
(* R1 findings are about exactly the types it names that neither it nor    *)
(* one of these declares.  What a dependency imports in its turn, or       *)
(* another module declares, does not count.                                *)
TypesOfDependencies ==
  Completed => \A n \in (DOMAIN project \cap DOMAIN results) \ {GraphKey} :
    /\ \A d \in Dependency(n) :
         \E j \in DOMAIN order : order[j] = n /\ \E i \in 1 .. (j - 1) : order[i] = d
    /\ {d.about : d \in {d \in results[n] : d.rule = "R1"}} = project[n].refs \ Known(n)

(* The command ends with an exit code: sequential code over finitely many  *)
(* files, with no loop that can repeat a state.                            *)
Termination == <>(pc = "done")
=============================================================================
