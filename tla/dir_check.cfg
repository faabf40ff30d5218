CONSTANTS
  Present = {1, 2, 3}
  MaxDeps = 1
  MaxFiles = 3
  NoModule = NoModule
  GraphKey = GraphKey
  BuiltinTypes = {}
  Name <- MCName
  Contents <- MCContents
SPECIFICATION FairSpec
INVARIANTS TypeOK PassIsEarned CheckedUnlessRepeated GraphFindingsStand TypesOfDependencies
PROPERTY Termination
CHECK_DEADLOCK FALSE
