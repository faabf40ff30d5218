CONSTANTS
  Present = {0, 1}
  MaxDeps = 1
  MaxFiles = 2
  NoModule = NoModule
  GraphKey = 0
  BuiltinTypes = {}
  Name <- MCName
  Contents <- SimpleContents
SPECIFICATION Spec
INVARIANT GraphFindingsStand
CHECK_DEADLOCK FALSE
