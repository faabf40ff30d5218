CONSTANTS
  MaxLength = 5
  Sources <- MCSources
SPECIFICATION Spec
INVARIANTS TypeOK NothingLost PositionsAreTrue RejectsOnlyFaults LookupCannotMiss
CHECK_DEADLOCK FALSE
