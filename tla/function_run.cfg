CONSTANTS
  Programs <- MCPrograms
  Body <- MCBody
  Nesting <- MCNesting
  NotScope = {"op"}
  MaxDepth = 4
SPECIFICATION Spec
INVARIANTS
  TypeOK ReturnsEverywhere MissingPathIsExact LiteralsKeepSignature IntegrityRuledOut
  NoSilentNarrowing ScopeKept
CHECK_DEADLOCK FALSE
