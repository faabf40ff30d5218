CONSTANTS
  MaxModules = 4
  MaxDeps = 2
  NoModule = NoModule
  Name <- MCName
  Graphs <- MCGraphs
SPECIFICATION FairSpec
INVARIANTS TypeOK MarksAreRight VerdictIsRight ReportIsCycle
PROPERTY Termination
CHECK_DEADLOCK FALSE
