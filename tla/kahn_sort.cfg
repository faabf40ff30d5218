CONSTANTS
  MaxModules = 4
  MaxDeps = 2
  Name <- MCName
  Graphs <- MCGraphs
SPECIFICATION FairSpec
INVARIANTS TypeOK OrderIsRight LeastOrder
PROPERTIES NoRequeue ImplementsBuildOrder Termination
CHECK_DEADLOCK FALSE
