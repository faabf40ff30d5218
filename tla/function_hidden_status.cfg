CONSTANTS
  Programs <- Collapsing
  Body <- MCBody
  Nesting <- MCNesting
  NotScope = {"op"}
  MaxDepth = 3
SPECIFICATION Spec
INVARIANT SignatureKept
CHECK_DEADLOCK FALSE
