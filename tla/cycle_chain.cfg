CONSTANTS
  MaxModules = 3
  MaxDeps = 2
  NoModule = NoModule
  Name <- MCName
  Graphs <- MCGraphs
SPECIFICATION Spec
INVARIANT ChainIsDependsOnLines
CHECK_DEADLOCK FALSE
