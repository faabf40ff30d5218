CONSTANTS
  Present = {1, 2}
  MaxDeps = 1
  MaxFiles = 2
  NoModule = NoModule
  GraphKey = GraphKey
  BuiltinTypes = {}
  Name <- MCName
  Contents <- MCContents
SPECIFICATION Spec
INVARIANT EveryModuleChecked
CHECK_DEADLOCK FALSE
